--------------------------- MODULE WorkersProofs ---------------------------
(***************************************************************************)
(* Proofs about Workers: the types, that a worker never has more than one   *)
(* job in flight, and that nothing is missing when the root stops.          *)
(*                                                                         *)
(* The argument.  No message is twice in the root's mailbox, so that the    *)
(* count of workers the root awaits falls by one with each signal it        *)
(* receives, and the root stops when every worker has signalled.  What each *)
(* program has done by then follows from where its jobs are:                *)
(*   work_pulling    a job beyond those left has been done or is in exactly *)
(*                   one mailbox, and a worker is drained when none is left;*)
(*   scatter_gather  a partial result is in the root's mailbox or has been  *)
(*                   got, and it is ahead of its worker's signal;           *)
(*   supervision     the loader's mailbox holds the values told from the    *)
(*                   first that has not been consumed, and the restarts are *)
(*                   at most the toxic values before it.                    *)
(***************************************************************************)
EXTENDS Workers, FiniteSetTheorems, FunctionTheorems, SequenceTheorems, TLAPS

USE WorkersAssumption

Message == [kind : {"request", "partial", "terminated"}, from : Worker]

Order == [kind : {"job", "drained", "finish"}, job : Nat]

Places == {"unborn", "init", "up", "gone", "signalled"}

Types ==
    /\ program \in Programs
    /\ script \in [Job -> {"load", "toxic"}]
    /\ root \in {"init", "up", "stopped"}
    /\ step \in Nat
    /\ jobs \in 0 .. Jobs
    /\ remaining \in Int
    /\ rootBox \in Seq(Message)
    /\ worker \in [Worker -> Places]
    /\ box \in [Worker -> Seq(Order)]
    /\ restarts \in 0 .. MaxRestarts
    /\ done \in [Job -> Nat]

In(q, message) == \E i \in 1 .. Len(q) : q[i] = message

Distinct(q) == \A i, k \in 1 .. Len(q) : q[i] = q[k] => i = k

\* Wherever both are in q, first is ahead of second.
Ahead(q, first, second) ==
    \A i, k \in 1 .. Len(q) : q[i] = first /\ q[k] = second => i < k

Queued(message) == In(rootBox, message)

Over(w) == worker[w] \in {"gone", "signalled"}

\* The workers whose signal the root has not received.
Awaited ==
    {w \in Enlisted : worker[w] = "signalled" => Queued(Terminated(w))}

\* A worker is unborn until its turn in the root's init.
Enlistment ==
    \A w \in Worker : worker[w] = "unborn" <=> (w \notin Enlisted \/ step < w)

\* The root counts the workers that have not signalled.
Countdown ==
    /\ \A w \in Worker : Queued(Terminated(w)) => worker[w] = "signalled"
    /\ remaining = Cardinality(Awaited)
    /\ root = "stopped" => remaining = 0

\* work_pulling: what a worker has in its mailbox and in the root's.
OneOrder ==
    \A w \in Worker :
        /\ Len(box[w]) <= 1
        /\ box[w] # <<>> => worker[w] = "up"
        /\ Queued(Request(w)) => worker[w] = "up" /\ box[w] = <<>>

Holds(w, message) == box[w] # <<>> /\ box[w][1] = message

\* work_pulling: where the jobs are.
JobsAccounted ==
    /\ \A j \in 1 .. jobs : done[j] = 0
    /\ \A j \in jobs + 1 .. Jobs :
          \/ done[j] = 1
          \/ done[j] = 0 /\ \E w \in Worker : Holds(w, Work(j))
    /\ \A w \in Worker : box[w] # <<>> =>
          \/ box[w][1] = Drained /\ jobs = 0
          \/ \E j \in jobs + 1 .. Jobs : box[w][1] = Work(j) /\ done[j] = 0
    /\ \A v, w \in Worker : \A j \in Job :
          Holds(v, Work(j)) /\ Holds(w, Work(j)) => v = w
    /\ \A w \in Worker : Over(w) => jobs = 0

\* scatter_gather: where the partial results are.
PartialsAccounted ==
    /\ \A w \in Worker :
          /\ ~Over(w) => ~Queued(Partial(w)) /\ done[w] = 0
          /\ Over(w) => done[w] = IF Queued(Partial(w)) THEN 0 ELSE 1
          /\ worker[w] = "signalled" /\ Queued(Partial(w)) =>
                Queued(Terminated(w))
    /\ \A w \in Worker : Ahead(rootBox, Partial(w), Terminated(w))
    /\ \A j \in Job \ Worker : done[j] = 0

\* supervision: how many of the values told the loader has consumed, and what
\* it is told n-th.
Consumed == step - 1 - Len(box[Loader])

Value(n) == IF n <= Jobs THEN Work(n) ELSE Finish

ToxicUpTo(n) == {j \in 1 .. n : Toxic(j)}

Unstarted ==
    worker[Loader] = "unborn" =>
        /\ box[Loader] = <<>>
        /\ restarts = 0
        /\ \A j \in Job : done[j] = 0

Consuming ==
    worker[Loader] \in {"init", "up"} =>
        /\ Consumed \in 0 .. Jobs
        /\ step <= Jobs + 2
        /\ \A i \in 1 .. Len(box[Loader]) : box[Loader][i] = Value(Consumed + i)
        /\ \A j \in Job :
              done[j] = IF j <= Consumed /\ ~Toxic(j) THEN 1 ELSE 0
        /\ restarts <= Cardinality(ToxicUpTo(Consumed))

Ended ==
    Over(Loader) =>
        /\ \A j \in Job : done[j] <= 1
        /\ \/ \A j \in Job : ~Toxic(j) => done[j] = 1
           \/ Cardinality(ToxicUpTo(Jobs)) > MaxRestarts

ValuesAccounted == Unstarted /\ Consuming /\ Ended

WorkersInv ==
    /\ Types
    /\ Distinct(rootBox)
    /\ Enlistment
    /\ Countdown
    /\ program = "work_pulling" => OneOrder /\ JobsAccounted
    /\ program = "scatter_gather" => PartialsAccounted
    /\ program = "supervision" => ValuesAccounted

-----------------------------------------------------------------------------
(***************************************************************************)
(* A queue of messages: what appending to it and receiving from it do.      *)
(***************************************************************************)

\* A message appended to a queue is in it, behind everything else.
LEMMA Appended ==
    ASSUME NEW q \in Seq(Message), NEW m \in Message
    PROVE  /\ Append(q, m) \in Seq(Message)
           /\ \A x : In(Append(q, m), x) <=> In(q, x) \/ x = m
           /\ Distinct(q) /\ ~In(q, m) => Distinct(Append(q, m))
           /\ \A a, b : Ahead(q, a, b) /\ m # a => Ahead(Append(q, m), a, b)
<1> DEFINE r == Append(q, m)
<1>1. /\ r \in Seq(Message) /\ Len(r) = Len(q) + 1 /\ Len(q) \in Nat
      /\ \A i \in 1 .. Len(q) : r[i] = q[i]
      /\ r[Len(q) + 1] = m
  BY AppendProperties
<1>2. \A i \in 1 .. Len(r) : i \in 1 .. Len(q) \/ i = Len(q) + 1
  BY <1>1
<1>3. \A i \in 1 .. Len(q) : i \in 1 .. Len(r)
  BY <1>1
<1>4. Len(q) + 1 \in 1 .. Len(r)
  BY <1>1
<1> HIDE DEF r
<1>5. \A x : In(r, x) <=> In(q, x) \/ x = m
  BY <1>1, <1>2, <1>3, <1>4 DEF In
<1>6. Distinct(q) /\ ~In(q, m) => Distinct(r)
  BY <1>1, <1>2 DEF In, Distinct
<1>7. \A a, b : Ahead(q, a, b) /\ m # a => Ahead(r, a, b)
  BY <1>1, <1>2 DEF Ahead
<1> QED
  BY <1>1, <1>5, <1>6, <1>7 DEF r

\* What is received is the head; everything else stays, in its order.
LEMMA Received ==
    ASSUME NEW q \in Seq(Message), q # <<>>, Distinct(q)
    PROVE  /\ Head(q) \in Message
           /\ In(q, Head(q))
           /\ Tail(q) \in Seq(Message)
           /\ \A x : In(Tail(q), x) <=> In(q, x) /\ x # Head(q)
           /\ Distinct(Tail(q))
           /\ \A a, b : Ahead(q, a, b) => Ahead(Tail(q), a, b)
           /\ \A a, b : Ahead(q, a, b) /\ Head(q) = b /\ a # b => ~In(q, a)
<1> DEFINE t == Tail(q)
<1>1. /\ Head(q) = q[1] /\ Head(q) \in Message /\ Len(q) \in Nat \ {0}
      /\ t \in Seq(Message) /\ Len(t) = Len(q) - 1
      /\ \A i \in 1 .. Len(t) : t[i] = q[i + 1]
  BY HeadTailProperties, EmptySeq, LenProperties
<1> HIDE DEF t
<1>2. \A i \in 1 .. Len(t) : i + 1 \in 1 .. Len(q) /\ i + 1 # 1
  BY <1>1
<1>3. \A i \in 1 .. Len(q) : i = 1 \/ (i - 1 \in 1 .. Len(t) /\ t[i - 1] = q[i])
  BY <1>1
<1>4. 1 \in 1 .. Len(q)
  BY <1>1
<1>5. In(q, Head(q))
  BY <1>1, <1>4 DEF In
<1>6. ASSUME NEW x PROVE In(t, x) <=> In(q, x) /\ x # Head(q)
  <2>1. ASSUME In(t, x) PROVE In(q, x) /\ x # Head(q)
    <3>1. PICK i \in 1 .. Len(t) : t[i] = x
      BY <2>1 DEF In
    <3>2. q[i + 1] = x /\ i + 1 \in 1 .. Len(q) /\ i + 1 # 1
      BY <3>1, <1>1, <1>2
    <3> QED
      BY <3>2, <1>1, <1>4 DEF In, Distinct
  <2>2. ASSUME In(q, x), x # Head(q) PROVE In(t, x)
    BY <2>2, <1>1, <1>3 DEF In
  <2> QED
    BY <2>1, <2>2
<1>7. Distinct(t)
  <2> SUFFICES ASSUME NEW i \in 1 .. Len(t), NEW k \in 1 .. Len(t), t[i] = t[k]
               PROVE  i = k
    BY DEF Distinct
  <2>1. q[i + 1] = q[k + 1] /\ i + 1 \in 1 .. Len(q) /\ k + 1 \in 1 .. Len(q)
    BY <1>1, <1>2
  <2>2. i + 1 = k + 1
    BY <2>1 DEF Distinct
  <2> QED
    BY <2>2
<1>8. ASSUME NEW a, NEW b, Ahead(q, a, b) PROVE Ahead(t, a, b)
  <2> SUFFICES ASSUME NEW i \in 1 .. Len(t), NEW k \in 1 .. Len(t),
                      t[i] = a, t[k] = b
               PROVE  i < k
    BY DEF Ahead
  <2>1. /\ q[i + 1] = a /\ q[k + 1] = b
        /\ i + 1 \in 1 .. Len(q) /\ k + 1 \in 1 .. Len(q)
    BY <1>1, <1>2
  <2>2. i + 1 < k + 1
    BY <2>1, <1>8 DEF Ahead
  <2> QED
    BY <2>2
<1>9. ASSUME NEW a, NEW b, Ahead(q, a, b), Head(q) = b, a # b PROVE ~In(q, a)
  BY <1>1, <1>4, <1>9 DEF In, Ahead
<1> QED
  BY <1>1, <1>5, <1>6, <1>7, <1>8, <1>9 DEF t

-----------------------------------------------------------------------------
(***************************************************************************)
(* Every step keeps the types.                                              *)
(***************************************************************************)

\* What a worker can be told is an order, and telling it keeps the types.
LEMMA ToldTypes ==
    ASSUME box \in [Worker -> Seq(Order)], NEW w \in Worker, NEW m \in Order
    PROVE  Told(w, m) \in [Worker -> Seq(Order)]
<1>1. Append(box[w], m) \in Seq(Order)
  BY AppendProperties
<1> QED
  BY <1>1 DEF Told

\* The messages and the orders of the model are messages and orders.
LEMMA Kinds ==
    /\ \A w \in Worker :
          /\ Request(w) \in Message /\ Partial(w) \in Message
          /\ Terminated(w) \in Message
    /\ \A j \in Nat : Work(j) \in Order
    /\ Drained \in Order /\ Finish \in Order
    /\ Loader \in Worker
    /\ Worker \subseteq Job
BY DEF Request, Partial, Terminated, Work, Drained, Finish, Message, Order,
       Loader, Worker, Job

\* An order received leaves the rest in the mailbox.
LEMMA TakenTypes ==
    ASSUME box \in [Worker -> Seq(Order)], NEW w \in Worker, box[w] # <<>>
    PROVE  /\ Tail(box[w]) \in Seq(Order)
           /\ Head(box[w]) \in Order
           /\ Head(box[w]) = box[w][1]
           /\ Len(box[w]) \in Nat \ {0}
           /\ Len(Tail(box[w])) = Len(box[w]) - 1
           /\ \A i \in 1 .. Len(box[w]) - 1 : Tail(box[w])[i] = box[w][i + 1]
BY HeadTailProperties, EmptySeq, LenProperties

\* A job got counts once more.
LEMMA GotTypes ==
    ASSUME done \in [Job -> Nat], NEW j
    PROVE  Got(j) \in [Job -> Nat]
<1>1. CASE j \in Job
  BY <1>1 DEF Got
<1>2. CASE j \notin Job
  BY <1>2 DEF Got
<1> QED
  BY <1>1, <1>2

LEMMA TypesKept ==
    ASSUME Types, Distinct(rootBox), Next
    PROVE  Types'
<1> USE Kinds
<1> USE DEF Types
<1>0. <<>> \in Seq(Order)
  BY EmptySeq
<1>1. ASSUME NEW w \in Worker, Enlist(w) PROVE Types'
  <2>1. <<Work(w)>> \in Seq(Order)
    BY DEF Worker
  <2> QED
    BY <1>1, <2>1 DEF Enlist, Places
<1>2. CASE TellLoader
  <2>1. box' \in [Worker -> Seq(Order)]
    BY <1>2, ToldTypes DEF TellLoader
  <2> QED
    BY <1>2, <2>1 DEF TellLoader
<1>3. CASE RootStarts
  BY <1>3 DEF RootStarts
<1>4. CASE HandOut
  <2>1. Head(rootBox).from \in Worker /\ rootBox' \in Seq(Message)
    BY <1>4, Received DEF HandOut, RootReceives, Message
  <2>2. (IF jobs = 0 THEN Drained ELSE Work(jobs)) \in Order
    OBVIOUS
  <2>2a. box' \in [Worker -> Seq(Order)]
    BY <1>4, <2>1, <2>2, ToldTypes DEF HandOut
  <2>3. jobs' \in 0 .. Jobs
    BY <1>4 DEF HandOut, Popped
  <2> QED
    BY <1>4, <2>1, <2>2a, <2>3 DEF HandOut, RootReceives
<1>5. CASE Gather
  <2>1. Head(rootBox).from \in Worker /\ rootBox' \in Seq(Message)
    BY <1>5, Received DEF Gather, RootReceives, Message
  <2> QED
    BY <1>5, <2>1 DEF Gather, RootReceives, Got
<1>6. CASE WorkerTerminated
  <2>1. rootBox' \in Seq(Message)
    BY <1>6, Received DEF WorkerTerminated, RootReceives, Message
  <2> QED
    BY <1>6, <2>1 DEF WorkerTerminated, RootReceives
<1>7. ASSUME NEW w \in Worker, WorkerInit(w) PROVE Types'
  BY <1>7, Appended DEF WorkerInit, Requested, Places
<1>8. ASSUME NEW w \in Worker, Process(w) PROVE Types'
  <2>1. Tail(box[w]) \in Seq(Order)
    BY <1>8, TakenTypes DEF Process, Receives
  <2> QED
    BY <1>8, <2>1, Appended, GotTypes DEF Process, Requested
<1>9. ASSUME NEW w \in Worker, Compute(w) PROVE Types'
  BY <1>9, <1>0, Appended DEF Compute, Stops, Places
<1>10. ASSUME NEW w \in Worker, StopWorker(w) PROVE Types'
  BY <1>10, <1>0 DEF StopWorker, Stops, Places
<1>11. ASSUME NEW w \in Worker, Load(w) PROVE Types'
  <2>1. Tail(box[w]) \in Seq(Order)
    BY <1>11, TakenTypes DEF Load, Receives
  <2> QED
    BY <1>11, <2>1, GotTypes DEF Load
<1>12. ASSUME NEW w \in Worker, FailOnToxic(w) PROVE Types'
  <2>1. Tail(box[w]) \in Seq(Order)
    BY <1>12, TakenTypes DEF FailOnToxic, Receives
  <2>2. PICK streak \in {0, restarts} :
           IF RestartsAgain(streak)
           THEN /\ restarts' = streak + 1
                /\ worker' = [worker EXCEPT ![w] = "init"]
                /\ box' = [box EXCEPT ![w] = MailboxRetained(w)]
           ELSE restarts' = streak /\ Stops(w)
    BY <1>12 DEF FailOnToxic
  <2>3. streak \in 0 .. MaxRestarts
    OBVIOUS
  <2>4. restarts' \in 0 .. MaxRestarts
    BY <2>2, <2>3 DEF RestartsAgain
  <2>5. worker' \in [Worker -> Places]
    BY <2>2 DEF Stops, Places
  <2>6. box' \in [Worker -> Seq(Order)]
    BY <2>1, <2>2, <1>0 DEF Stops, MailboxRetained
  <2> QED
    BY <1>12, <2>4, <2>5, <2>6 DEF FailOnToxic
<1>13. ASSUME NEW w \in Worker, SignalRoot(w) PROVE Types'
  BY <1>13, Appended DEF SignalRoot, Signalled, Places
<1> QED
  BY <1>1, <1>2, <1>3, <1>4, <1>5, <1>6, <1>7, <1>8, <1>9, <1>10, <1>11, <1>12,
     <1>13
     DEF Next, RootSteps, WorkerSteps, Managing, Gathering, Overseeing, Pulling,
         Computing, Loading

-----------------------------------------------------------------------------
(***************************************************************************)
(* A worker is unborn until its turn, and the root counts the workers whose *)
(* signal it has not received.                                              *)
(***************************************************************************)

LEMMA EnlistmentKept ==
    ASSUME Types, Enlistment, Next
    PROVE  Enlistment'
<1> USE DEF Types, Enlistment
<1>1. ASSUME NEW w \in Worker, Enlist(w) PROVE Enlistment'
  BY <1>1 DEF Enlist, Enlisted, Worker
<1>2. CASE program = "supervision" /\ TellLoader
  BY <1>2 DEF TellLoader, Enlisted, Worker, Loader
<1>3. CASE RootStarts \/ HandOut \/ Gather \/ WorkerTerminated
  BY <1>3 DEF RootStarts, HandOut, Gather, WorkerTerminated, Enlisted
<1>4. ASSUME NEW w \in Worker,
             \/ WorkerInit(w) \/ Process(w) \/ Compute(w) \/ StopWorker(w)
             \/ Load(w) \/ SignalRoot(w)
      PROVE  Enlistment'
  BY <1>4 DEF WorkerInit, Process, Compute, StopWorker, Load, SignalRoot,
              Receives, Stops, Enlisted, Places
<1>5. ASSUME NEW w \in Worker, FailOnToxic(w) PROVE Enlistment'
  BY <1>5 DEF FailOnToxic, Receives, Stops, Enlisted, Places
<1> QED
  BY <1>1, <1>2, <1>3, <1>4, <1>5
     DEF Next, RootSteps, WorkerSteps, Managing, Gathering, Overseeing, Pulling,
         Computing, Loading, Worker

\* As long as no signal is received, the same workers are awaited.
LEMMA SameAwaited ==
    ASSUME Types, Countdown, program' = program, remaining' = remaining,
           root' = "stopped" => root = "stopped",
           \A w \in Worker : Queued(Terminated(w))' => worker'[w] = "signalled",
           \A w \in Worker :
              (worker'[w] = "signalled" => Queued(Terminated(w))')
                 <=> (worker[w] = "signalled" => Queued(Terminated(w)))
    PROVE  Countdown'
<1>1. Enlisted' = Enlisted /\ Enlisted \subseteq Worker
  BY DEF Enlisted, Loader, Worker
<1>2. Awaited' = Awaited
  BY <1>1 DEF Awaited
<1> QED
  BY <1>2 DEF Countdown

\* At most Workers of them are.
LEMMA AwaitedFinite ==
    IsFiniteSet(Awaited) /\ Cardinality(Awaited) \in 0 .. Workers
<1>1. IsFiniteSet(Worker) /\ Cardinality(Worker) = Workers
  BY FS_Interval DEF Worker
<1>2. Awaited \subseteq Worker
  BY DEF Awaited, Enlisted, Loader, Worker
<1> QED
  BY <1>1, <1>2, FS_Subset, FS_CardinalityType

\* A signal received is that of a worker awaited.
LEMMA SignalReceived ==
    ASSUME Types, Distinct(rootBox), Enlistment, Countdown, WorkerTerminated
    PROVE  Countdown'
<1> DEFINE w == Head(rootBox).from
<1>1. /\ Head(rootBox) \in Message /\ Queued(Head(rootBox))
      /\ \A x : Queued(x)' <=> Queued(x) /\ x # Head(rootBox)
  BY Received DEF Types, WorkerTerminated, RootReceives, Queued
<1>2. w \in Worker /\ Head(rootBox) = Terminated(w)
  BY <1>1 DEF WorkerTerminated, RootReceives, Message, Terminated
<1>3. worker[w] = "signalled"
  BY <1>1, <1>2 DEF Countdown
<1> HIDE DEF w
<1>4. w \in Awaited
  BY <1>1, <1>2, <1>3 DEF Awaited, Enlistment
<1>5. Enlisted' = Enlisted /\ Enlisted \subseteq Worker /\ worker' = worker
  BY DEF WorkerTerminated, Enlisted, Loader, Worker
<1>6. \A v \in Worker :
         Queued(Terminated(v))' <=> Queued(Terminated(v)) /\ v # w
  BY <1>1, <1>2 DEF Terminated
<1>7. Awaited' = Awaited \ {w}
  BY <1>2, <1>3, <1>5, <1>6 DEF Awaited
<1>8. Cardinality(Awaited') = Cardinality(Awaited) - 1
  BY <1>4, <1>7, AwaitedFinite, FS_RemoveElement
<1>9. remaining' = Cardinality(Awaited') /\ remaining' \in Nat
  BY <1>8, <1>4, <1>7, AwaitedFinite, FS_RemoveElement, FS_CardinalityType
     DEF Countdown, WorkerTerminated
<1>10. root' = (IF remaining' > 0 THEN root ELSE "stopped") /\ root = "up"
  BY DEF WorkerTerminated, RootReceives
<1>11. root' = "stopped" => remaining' = 0
  BY <1>9, <1>10
<1> QED
  BY <1>5, <1>6, <1>9, <1>11 DEF Countdown

LEMMA SignalsKept ==
    ASSUME WorkersInv, Next
    PROVE  Distinct(rootBox)' /\ Countdown'
<1> USE Kinds
<1> USE DEF WorkersInv, Queued
<1>0. /\ rootBox \in Seq(Message)
      /\ worker \in [Worker -> Places]
      /\ \A w \in Worker : Queued(Terminated(w)) => worker[w] = "signalled"
  BY DEF Types, Countdown
<1>1. ASSUME UNCHANGED <<program, remaining, rootBox>>,
             root' = "stopped" => root = "stopped",
             \A w \in Worker : worker'[w] = "signalled" <=> worker[w] = "signalled"
      PROVE  Distinct(rootBox)' /\ Countdown'
  BY <1>0, <1>1, SameAwaited
<1>2. ASSUME UNCHANGED <<program, remaining>>,
             root' = "stopped" => root = "stopped",
             \A w \in Worker : worker'[w] = "signalled" <=> worker[w] = "signalled",
             NEW m \in Message, m.kind # "terminated", ~Queued(m),
             rootBox' = Append(rootBox, m)
      PROVE  Distinct(rootBox)' /\ Countdown'
  <2>1. Distinct(rootBox') /\ \A x : In(rootBox', x) <=> In(rootBox, x) \/ x = m
    BY <1>0, <1>2, Appended
  <2>2. \A w \in Worker : Terminated(w).kind = "terminated"
    BY DEF Terminated
  <2>3. \A w \in Worker : Queued(Terminated(w))' <=> Queued(Terminated(w))
    BY <1>2, <2>1, <2>2
  <2> QED
    BY <1>0, <1>2, <2>1, <2>3, SameAwaited
<1>3. ASSUME UNCHANGED <<program, remaining, worker>>, root' = root,
             RootReceives("request") \/ RootReceives("partial")
      PROVE  Distinct(rootBox)' /\ Countdown'
  <2>1. /\ rootBox # <<>> /\ rootBox' = Tail(rootBox)
        /\ Head(rootBox).kind # "terminated"
    BY <1>3 DEF RootReceives
  <2>2. /\ Distinct(rootBox')
        /\ \A x : In(rootBox', x) <=> In(rootBox, x) /\ x # Head(rootBox)
    BY <1>0, <2>1, Received
  <2>3. \A w \in Worker : Terminated(w).kind = "terminated"
    BY DEF Terminated
  <2>4. \A w \in Worker : Queued(Terminated(w))' <=> Queued(Terminated(w))
    BY <2>1, <2>2, <2>3
  <2> QED
    BY <1>0, <1>3, <2>2, <2>4, SameAwaited
<1>4. ASSUME NEW w \in Worker, Enlist(w) PROVE Distinct(rootBox)' /\ Countdown'
  <2>1. worker[w] = "unborn"
    BY <1>4 DEF Enlist, Enlistment, Types, Worker
  <2> QED
    BY <1>0, <1>1, <1>4, <2>1 DEF Enlist
<1>5. CASE TellLoader \/ RootStarts
  BY <1>1, <1>5 DEF TellLoader, RootStarts
<1>6. CASE HandOut \/ Gather
  BY <1>3, <1>6 DEF HandOut, Gather, RootReceives
<1>7. CASE WorkerTerminated
  <2>1. Distinct(rootBox')
    BY <1>0, <1>7, Received DEF WorkerTerminated, RootReceives
  <2> QED
    BY <1>7, <2>1, SignalReceived
<1>8. ASSUME NEW w \in Worker, WorkerInit(w) PROVE Distinct(rootBox)' /\ Countdown'
  <2>1. CASE program = "work_pulling"
    <3>1. ~Queued(Request(w)) /\ Request(w).kind # "terminated"
      BY <1>8, <2>1 DEF WorkerInit, OneOrder, Request
    <3> QED
      BY <1>0, <1>2, <1>8, <2>1, <3>1 DEF WorkerInit, Requested
  <2>2. CASE program # "work_pulling"
    BY <1>0, <1>1, <1>8, <2>2 DEF WorkerInit
  <2> QED
    BY <2>1, <2>2
<1>9. ASSUME NEW w \in Worker, Process(w), program = "work_pulling"
      PROVE  Distinct(rootBox)' /\ Countdown'
  <2>1. ~Queued(Request(w)) /\ Request(w).kind # "terminated"
    BY <1>9 DEF Process, Receives, OneOrder, Request
  <2> QED
    BY <1>0, <1>2, <1>9, <2>1 DEF Process, Requested
<1>10. ASSUME NEW w \in Worker, Compute(w), program = "scatter_gather"
       PROVE  Distinct(rootBox)' /\ Countdown'
  <2>1. ~Queued(Partial(w)) /\ Partial(w).kind # "terminated"
    BY <1>10 DEF Compute, Receives, PartialsAccounted, Over, Partial
  <2> QED
    BY <1>0, <1>2, <1>10, <2>1 DEF Compute, Receives, Stops
<1>11. ASSUME NEW w \in Worker, StopWorker(w) \/ Load(w) \/ FailOnToxic(w)
       PROVE  Distinct(rootBox)' /\ Countdown'
  BY <1>0, <1>1, <1>11 DEF StopWorker, Load, FailOnToxic, Receives, Stops
<1>12. ASSUME NEW w \in Worker, SignalRoot(w) PROVE Distinct(rootBox)' /\ Countdown'
  <2>1. ~Queued(Terminated(w))
    BY <1>0, <1>12 DEF SignalRoot
  <2>2. /\ Distinct(rootBox')
        /\ \A x : In(rootBox', x) <=> In(rootBox, x) \/ x = Terminated(w)
    BY <1>0, <1>12, <2>1, Appended DEF SignalRoot, Signalled
  <2>3. \A v \in Worker :
           Queued(Terminated(v))' <=> Queued(Terminated(v)) \/ v = w
    BY <2>2 DEF Terminated
  <2> QED
    BY <1>0, <1>12, <2>2, <2>3, SameAwaited DEF SignalRoot
<1> QED
  BY <1>4, <1>5, <1>6, <1>7, <1>8, <1>9, <1>10, <1>11, <1>12
     DEF Next, RootSteps, WorkerSteps, Managing, Gathering, Overseeing, Pulling,
         Computing, Loading

-----------------------------------------------------------------------------
(***************************************************************************)
(* work_pulling: one job in flight, and every job accounted for.            *)
(***************************************************************************)

\* Orders are told apart by their kind and by their job.
LEMMA Orders ==
    /\ \A j, k : Work(j) = Work(k) => j = k
    /\ \A j : /\ Work(j) # Drained /\ Work(j) # Finish
              /\ Work(j).kind = "job" /\ Work(j).job = j
    /\ Drained.kind = "drained" /\ Finish.kind = "finish" /\ Drained # Finish
<1>1. \A j : Work(j).kind = "job" /\ Work(j).job = j
  BY DEF Work
<1>2. Drained.kind = "drained" /\ Finish.kind = "finish"
  BY DEF Drained, Finish
<1> QED
  BY <1>1, <1>2

\* Messages of different kinds or senders are different.
LEMMA Messages ==
    \A v, w :
        /\ Request(v) = Request(w) => v = w
        /\ Partial(v) = Partial(w) => v = w
        /\ Terminated(v) = Terminated(w) => v = w
        /\ Request(v) # Partial(w) /\ Request(v) # Terminated(w)
        /\ Partial(v) # Terminated(w)
<1>1. \A v : /\ Request(v).kind = "request" /\ Request(v).from = v
             /\ Partial(v).kind = "partial" /\ Partial(v).from = v
             /\ Terminated(v).kind = "terminated" /\ Terminated(v).from = v
  BY DEF Request, Partial, Terminated
<1> QED
  BY <1>1

\* A message received is that of its sender.
LEMMA FromWhom ==
    ASSUME NEW m \in Message
    PROVE  /\ m.from \in Worker
           /\ m.kind = "request" => m = Request(m.from)
           /\ m.kind = "partial" => m = Partial(m.from)
           /\ m.kind = "terminated" => m = Terminated(m.from)
BY DEF Message, Request, Partial, Terminated

\* Only a message appended is new in the root's mailbox, only the head leaves it.
LEMMA QueuedAfter ==
    ASSUME Types, Distinct(rootBox)
    PROVE  /\ \A m \in Message : rootBox' = Append(rootBox, m) =>
                 \A x : In(rootBox', x) <=> Queued(x) \/ x = m
           /\ rootBox # <<>> /\ rootBox' = Tail(rootBox) =>
                 \A x : In(rootBox', x) <=> Queued(x) /\ x # Head(rootBox)
           /\ rootBox # <<>> => Head(rootBox) \in Message /\ Queued(Head(rootBox))
<1>1. rootBox \in Seq(Message)
  BY DEF Types
<1>2. ASSUME NEW m \in Message, rootBox' = Append(rootBox, m)
      PROVE  \A x : In(rootBox', x) <=> Queued(x) \/ x = m
  BY <1>1, <1>2, Appended DEF Queued
<1> QED
  BY <1>1, <1>2, Received DEF Queued

\* An empty mailbox with a message told, and a mailbox of one with it taken.
LEMMA OneAtMost ==
    ASSUME NEW s \in Seq(Order), NEW m \in Order
    PROVE  /\ Len(Append(<<>>, m)) = 1 /\ Append(<<>>, m)[1] = m
           /\ Append(<<>>, m) # <<>>
           /\ s # <<>> /\ Len(s) <= 1 => Tail(s) = <<>>
<1>1. <<>> \in Seq(Order) /\ Len(<<>>) = 0
  BY EmptySeq
<1>2. Append(<<>>, m) \in Seq(Order) /\ Len(Append(<<>>, m)) = 1
      /\ Append(<<>>, m)[1] = m
  BY <1>1, AppendProperties
<1>3. Append(<<>>, m) # <<>>
  BY <1>1, <1>2
<1>4. ASSUME s # <<>>, Len(s) <= 1 PROVE Tail(s) = <<>>
  <2>1. Tail(s) \in Seq(Order) /\ Len(Tail(s)) = 0
    <3>1. Len(s) \in Nat /\ Len(s) # 0
      BY <1>4, LenProperties, EmptySeq
    <3>2. \A n \in Nat : n # 0 /\ n <= 1 => n = 1
      OBVIOUS
    <3>3. Len(s) = 1
      BY <1>4, <3>1, <3>2
    <3> QED
      BY <1>4, <3>3, HeadTailProperties
  <2> QED
    BY <2>1, EmptySeq
<1> QED
  BY <1>2, <1>3, <1>4

PullingInv == OneOrder /\ JobsAccounted

\* Handing out a job, or drained when none is left.
LEMMA HandOutKeepsPulling ==
    ASSUME WorkersInv, program = "work_pulling", HandOut
    PROVE  PullingInv'
<1> USE Kinds, Orders, Messages
<1> DEFINE w == Head(rootBox).from
           m == IF jobs = 0 THEN Drained ELSE Work(jobs)
<1>1. /\ rootBox # <<>> /\ rootBox' = Tail(rootBox)
      /\ Head(rootBox).kind = "request"
      /\ Head(rootBox) \in Message /\ Queued(Head(rootBox))
      /\ \A x : In(rootBox', x) <=> Queued(x) /\ x # Head(rootBox)
  BY QueuedAfter DEF WorkersInv, HandOut, RootReceives
<1>2. w \in Worker /\ Head(rootBox) = Request(w)
  BY <1>1, FromWhom
<1>3. worker[w] = "up" /\ box[w] = <<>> /\ box \in [Worker -> Seq(Order)]
  BY <1>1, <1>2 DEF WorkersInv, OneOrder, Types
<1>4. m \in Order /\ jobs \in 0 .. Jobs /\ done \in [Job -> Nat]
  BY DEF WorkersInv, Types
<1>5. UNCHANGED <<program, worker, done>> /\ jobs' = Popped /\ box' = Told(w, m)
  BY DEF HandOut
<1> HIDE DEF w, m
<1>6. box' = [box EXCEPT ![w] = Append(<<>>, m)]
  <2>1. Len(box[w]) = 0 /\ Capacity = 1
    BY <1>3, EmptySeq DEF Capacity
  <2> QED
    BY <1>2, <1>3, <1>5, <2>1 DEF Told
<1>7. \A v \in Worker : Queued(Request(v))' <=> Queued(Request(v)) /\ v # w
  BY <1>1, <1>2 DEF Queued
<1>8. /\ Len(box'[w]) = 1 /\ box'[w][1] = m /\ box'[w] # <<>>
      /\ \A v \in Worker \ {w} : box'[v] = box[v]
  BY <1>2, <1>3, <1>4, <1>6, OneAtMost
<1>0. OneOrder /\ JobsAccounted
  BY DEF WorkersInv
<1>9. OneOrder'
  <2> SUFFICES ASSUME NEW v \in Worker
               PROVE  /\ Len(box'[v]) <= 1
                      /\ box'[v] # <<>> => worker'[v] = "up"
                      /\ Queued(Request(v))' => worker'[v] = "up" /\ box'[v] = <<>>
    BY DEF OneOrder
  <2>0. 1 <= 1
    OBVIOUS
  <2>1. CASE v = w
    BY <1>3, <1>5, <1>7, <1>8, <2>0, <2>1
  <2>2. CASE v # w
    BY <1>0, <1>5, <1>7, <1>8, <2>2 DEF OneOrder
  <2> QED
    BY <2>1, <2>2
<1>10. CASE jobs = 0
  <2>1. jobs' = jobs /\ m = Drained
    BY <1>5, <1>10 DEF Popped, m
  <2>2. \A v \in Worker, j \in Job : Holds(v, Work(j))' <=> Holds(v, Work(j))
    BY <1>2, <1>3, <1>8, <2>1 DEF Holds
  <2>3. \A v \in Worker : Over(v)' <=> Over(v)
    BY <1>5 DEF Over
  <2>4. \A j \in jobs + 1 .. Jobs :
           \/ done'[j] = 1
           \/ done'[j] = 0 /\ \E v \in Worker : Holds(v, Work(j))'
    BY <1>0, <1>4, <1>5, <2>2 DEF JobsAccounted, Job
  <2>5. \A v \in Worker : box'[v] # <<>> =>
           \/ box'[v][1] = Drained /\ jobs' = 0
           \/ \E j \in jobs + 1 .. Jobs : box'[v][1] = Work(j) /\ done'[j] = 0
    BY <1>0, <1>5, <1>8, <1>10, <2>1 DEF JobsAccounted
  <2>6. \A u, v \in Worker : \A j \in Job :
           Holds(u, Work(j))' /\ Holds(v, Work(j))' => u = v
    BY <1>0, <2>2 DEF JobsAccounted
  <2> QED
    BY <1>0, <1>5, <1>9, <1>10, <2>1, <2>3, <2>4, <2>5, <2>6
       DEF PullingInv, JobsAccounted
<1>11. CASE jobs # 0
  <2>1. jobs' = jobs - 1 /\ m = Work(jobs) /\ jobs \in Job
    BY <1>4, <1>5, <1>11 DEF Popped, m, Job
  <2>2. /\ \A j \in 1 .. jobs : done[j] = 0
        /\ \A v \in Worker : box[v] # <<>> =>
              \E j \in jobs + 1 .. Jobs : box[v][1] = Work(j) /\ done[j] = 0
        /\ \A v \in Worker : ~Over(v)
    BY <1>11 DEF WorkersInv, JobsAccounted
  <2>3. \A j \in 1 .. jobs' : done'[j] = 0
    BY <1>4, <1>5, <2>1, <2>2
  <2>4. \A j \in jobs' + 1 .. Jobs : j = jobs \/ j \in jobs + 1 .. Jobs
    BY <1>4, <2>1
  <2>5. \A v \in Worker : box'[v] # <<>> =>
           \E j \in jobs' + 1 .. Jobs : box'[v][1] = Work(j) /\ done'[j] = 0
    BY <1>4, <1>5, <1>8, <2>1, <2>2 DEF Job
  <2>6. \A v \in Worker : ~Holds(v, Work(jobs))
    BY <1>4, <2>2 DEF Holds
  <2>7. \A v \in Worker, j \in Job :
           Holds(v, Work(j))' <=> Holds(v, Work(j)) \/ (v = w /\ j = jobs)
    BY <1>2, <1>3, <1>8, <2>1 DEF Holds
  <2>8. \A u, v \in Worker : \A j \in Job :
           Holds(u, Work(j))' /\ Holds(v, Work(j))' => u = v
    BY <2>6, <2>7 DEF WorkersInv, JobsAccounted
  <2>9. \A j \in jobs' + 1 .. Jobs :
           \/ done'[j] = 1
           \/ done'[j] = 0 /\ \E v \in Worker : Holds(v, Work(j))'
    <3> SUFFICES ASSUME NEW j \in jobs' + 1 .. Jobs
                 PROVE  \/ done'[j] = 1
                        \/ done'[j] = 0 /\ \E v \in Worker : Holds(v, Work(j))'
      OBVIOUS
    <3>1. CASE j = jobs
      BY <1>2, <1>4, <1>5, <2>1, <2>2, <2>7, <3>1 DEF Job
    <3>2. CASE j \in jobs + 1 .. Jobs
      BY <1>4, <1>5, <2>7, <3>2 DEF Job, WorkersInv, JobsAccounted
    <3> QED
      BY <2>4, <3>1, <3>2
  <2>10. \A v \in Worker : ~Over(v)'
    BY <1>5, <2>2 DEF Over
  <2> QED
    BY <1>9, <2>3, <2>5, <2>8, <2>9, <2>10 DEF PullingInv, JobsAccounted
<1> QED
  BY <1>10, <1>11

\* A worker processes its job and asks for the next one.
LEMMA ProcessKeepsPulling ==
    ASSUME WorkersInv, program = "work_pulling", NEW w \in Worker, Process(w)
    PROVE  PullingInv'
<1> USE Kinds, Orders, Messages
<1>1. /\ box[w] # <<>> /\ Head(box[w]).kind = "job" /\ worker[w] = "up"
      /\ box' = [box EXCEPT ![w] = Tail(@)]
      /\ done' = Got(Head(box[w]).job) /\ UNCHANGED <<program, jobs, worker>>
      /\ rootBox' = Append(rootBox, Request(w))
  BY DEF Process, Receives, Requested
<1>2. /\ OneOrder /\ JobsAccounted /\ Types /\ Distinct(rootBox)
      /\ jobs \in 0 .. Jobs
      /\ done \in [Job -> Nat] /\ box \in [Worker -> Seq(Order)]
  BY DEF WorkersInv, Types
<1>3. Head(box[w]) = box[w][1] /\ Tail(box[w]) = <<>>
  BY <1>1, <1>2, TakenTypes, OneAtMost DEF OneOrder
<1>4. PICK k \in jobs + 1 .. Jobs : box[w][1] = Work(k) /\ done[k] = 0
  BY <1>1, <1>2, <1>3 DEF JobsAccounted
<1>5. k \in Job /\ Holds(w, Work(k)) /\ done' = [done EXCEPT ![k] = 1]
  <2>1. k \in Job
    BY <1>2, <1>4 DEF Job
  <2>2. Head(box[w]).job = k
    BY <1>3, <1>4
  <2>3. done[k] + 1 = 1
    BY <1>4
  <2> QED
    BY <1>1, <1>4, <2>1, <2>2, <2>3 DEF Got, Holds
<1>6. /\ box'[w] = <<>>
      /\ \A v \in Worker : v # w => box'[v] = box[v]
  BY <1>1, <1>2, <1>3
<1>7. \A v \in Worker : Queued(Request(v))' <=> Queued(Request(v)) \/ v = w
  BY <1>1, <1>2, QueuedAfter DEF Queued
<1>8. OneOrder'
  <2> SUFFICES ASSUME NEW v \in Worker
               PROVE  /\ Len(box'[v]) <= 1
                      /\ box'[v] # <<>> => worker'[v] = "up"
                      /\ Queued(Request(v))' => worker'[v] = "up" /\ box'[v] = <<>>
    BY DEF OneOrder
  <2>0. Len(<<>>) = 0 /\ 0 <= 1
    BY EmptySeq
  <2>1. CASE v = w
    BY <1>1, <1>6, <2>0, <2>1
  <2>2. CASE v # w
    BY <1>1, <1>2, <1>6, <1>7, <2>2 DEF OneOrder
  <2> QED
    BY <2>1, <2>2
<1>9. \A v \in Worker, j \in Job :
         Holds(v, Work(j))' <=> Holds(v, Work(j)) /\ v # w
  BY <1>6 DEF Holds
<1>10. \A v \in Worker : v # w => ~Holds(v, Work(k))
  BY <1>2, <1>5 DEF JobsAccounted
<1>11. \A j \in 1 .. jobs : done'[j] = 0
  BY <1>2, <1>4, <1>5 DEF JobsAccounted, Job
<1>12. \A j \in jobs + 1 .. Jobs :
          \/ done'[j] = 1
          \/ done'[j] = 0 /\ \E v \in Worker : Holds(v, Work(j))'
  <2> SUFFICES ASSUME NEW j \in jobs + 1 .. Jobs
               PROVE  \/ done'[j] = 1
                      \/ done'[j] = 0 /\ \E v \in Worker : Holds(v, Work(j))'
    OBVIOUS
  <2>1. CASE j = k
    BY <1>2, <1>5, <2>1
  <2>2. CASE j # k
    <3>1. j \in Job /\ done'[j] = done[j]
      BY <1>2, <1>5, <2>2 DEF Job
    <3>2. ~Holds(w, Work(j))
      BY <1>5, <2>2 DEF Holds
    <3> QED
      BY <1>2, <1>9, <3>1, <3>2 DEF JobsAccounted
  <2> QED
    BY <2>1, <2>2
<1>13. ASSUME NEW v \in Worker, box'[v] # <<>>
       PROVE  \/ box'[v][1] = Drained /\ jobs = 0
              \/ \E j \in jobs + 1 .. Jobs : box'[v][1] = Work(j) /\ done'[j] = 0
  <2>1. v # w /\ box'[v] = box[v]
    BY <1>6, <1>13
  <2>2. CASE box[v][1] = Drained /\ jobs = 0
    BY <2>1, <2>2
  <2>3. CASE \E j \in jobs + 1 .. Jobs : box[v][1] = Work(j) /\ done[j] = 0
    <3>1. PICK j \in jobs + 1 .. Jobs : box[v][1] = Work(j) /\ done[j] = 0
      BY <2>3
    <3>2. j # k
      BY <1>10, <1>13, <2>1, <3>1 DEF Holds
    <3>3. done'[j] = 0
      BY <1>2, <1>5, <3>1, <3>2 DEF Job
    <3> QED
      BY <2>1, <3>1, <3>3
  <2> QED
    BY <1>2, <1>13, <2>1, <2>2, <2>3 DEF JobsAccounted
<1>14. \A u, v \in Worker : \A j \in Job :
          Holds(u, Work(j))' /\ Holds(v, Work(j))' => u = v
  BY <1>2, <1>9 DEF JobsAccounted
<1>15. \A v \in Worker : Over(v)' => jobs = 0
  BY <1>1, <1>2 DEF JobsAccounted, Over
<1> QED
  BY <1>1, <1>8, <1>11, <1>12, <1>13, <1>14, <1>15 DEF PullingInv, JobsAccounted

\* A drained worker stops: no job is left, and its mailbox held none.
LEMMA StopKeepsPulling ==
    ASSUME WorkersInv, program = "work_pulling", NEW w \in Worker, StopWorker(w)
    PROVE  PullingInv'
<1> USE Kinds, Orders, Messages
<1>1. /\ box[w] # <<>> /\ Head(box[w]).kind # "job" /\ worker[w] = "up"
      /\ box' = [box EXCEPT ![w] = <<>>]
      /\ worker' = [worker EXCEPT ![w] = "gone"]
      /\ UNCHANGED <<program, jobs, done, rootBox>>
  BY DEF StopWorker, Receives, Stops
<1>2. /\ OneOrder /\ JobsAccounted /\ worker \in [Worker -> Places]
      /\ jobs \in 0 .. Jobs /\ box \in [Worker -> Seq(Order)]
  BY DEF WorkersInv, Types
<1>3. box[w][1] = Drained /\ jobs = 0
  BY <1>1, <1>2, TakenTypes DEF JobsAccounted
<1>4. /\ box'[w] = <<>> /\ worker'[w] = "gone"
      /\ \A v \in Worker : v # w => box'[v] = box[v] /\ worker'[v] = worker[v]
  BY <1>1, <1>2
<1>5. ~Queued(Request(w)) /\ \A v \in Worker : Queued(Request(v))' <=> Queued(Request(v))
  BY <1>1, <1>2 DEF OneOrder, Queued
<1>6. OneOrder'
  <2> SUFFICES ASSUME NEW v \in Worker
               PROVE  /\ Len(box'[v]) <= 1
                      /\ box'[v] # <<>> => worker'[v] = "up"
                      /\ Queued(Request(v))' => worker'[v] = "up" /\ box'[v] = <<>>
    BY DEF OneOrder
  <2>0. Len(<<>>) = 0 /\ 0 <= 1
    BY EmptySeq
  <2>1. CASE v = w
    BY <1>4, <1>5, <2>0, <2>1
  <2>2. CASE v # w
    BY <1>2, <1>4, <1>5, <2>2 DEF OneOrder
  <2> QED
    BY <2>1, <2>2
<1>7. \A v \in Worker, j \in Job : Holds(v, Work(j))' <=> Holds(v, Work(j))
  BY <1>3, <1>4 DEF Holds
<1>8. \A j \in jobs + 1 .. Jobs :
         \/ done[j] = 1
         \/ done[j] = 0 /\ \E v \in Worker : Holds(v, Work(j))'
  BY <1>2, <1>7 DEF JobsAccounted, Job
<1>9. \A v \in Worker : box'[v] # <<>> =>
         \/ box'[v][1] = Drained /\ jobs = 0
         \/ \E j \in jobs + 1 .. Jobs : box'[v][1] = Work(j) /\ done[j] = 0
  BY <1>2, <1>4 DEF JobsAccounted
<1>10. \A u, v \in Worker : \A j \in Job :
          Holds(u, Work(j))' /\ Holds(v, Work(j))' => u = v
  BY <1>2, <1>7 DEF JobsAccounted
<1> QED
  BY <1>1, <1>2, <1>3, <1>6, <1>8, <1>9, <1>10 DEF PullingInv, JobsAccounted

\* Nothing else touches a job.
LEMMA SameJobs ==
    ASSUME JobsAccounted, UNCHANGED <<box, done, jobs>>,
           \A w \in Worker : Over(w)' => Over(w)
    PROVE  JobsAccounted'
BY DEF JobsAccounted, Holds

LEMMA PullingKept ==
    ASSUME WorkersInv, program = "work_pulling", Next
    PROVE  PullingInv'
<1> USE Kinds, Messages
<1>1. /\ OneOrder /\ JobsAccounted /\ Types /\ Distinct(rootBox) /\ Enlistment
      /\ worker \in [Worker -> Places]
  BY DEF WorkersInv, Types
<1>2. ASSUME UNCHANGED <<box, done, jobs, rootBox>>,
             \A v \in Worker : Over(v)' => Over(v),
             \A v \in Worker : worker[v] = "up" => worker'[v] = "up"
      PROVE  PullingInv'
  BY <1>1, <1>2, SameJobs DEF PullingInv, OneOrder, Queued
<1>3. ASSUME NEW w \in Worker, Enlist(w) PROVE PullingInv'
  <2>1. worker[w] = "unborn"
    BY <1>1, <1>3 DEF Enlist, Enlistment, Types, Worker
  <2> QED
    BY <1>1, <1>2, <1>3, <2>1 DEF Enlist, Over
<1>4. CASE RootStarts
  BY <1>1, <1>2, <1>4 DEF RootStarts, Over
<1>5. CASE WorkerTerminated
  <2>1. UNCHANGED <<box, done, jobs, worker>>
    BY <1>5 DEF WorkerTerminated
  <2>2. \A x : Queued(x)' => Queued(x)
    BY <1>1, <1>5, QueuedAfter DEF WorkerTerminated, RootReceives, Queued
  <2>3. OneOrder'
    BY <1>1, <2>1, <2>2 DEF OneOrder
  <2>4. JobsAccounted'
    BY <1>1, <2>1, SameJobs DEF Over
  <2> QED
    BY <2>3, <2>4 DEF PullingInv
<1>6. ASSUME NEW w \in Worker, WorkerInit(w) PROVE PullingInv'
  <2>1. /\ worker[w] = "init" /\ worker' = [worker EXCEPT ![w] = "up"]
        /\ UNCHANGED <<box, done, jobs>>
        /\ rootBox' = Append(rootBox, Request(w))
    BY <1>6 DEF WorkerInit, Requested
  <2>2. box[w] = <<>>
    BY <1>1, <2>1 DEF OneOrder
  <2>3. \A v \in Worker : Queued(Request(v))' <=> Queued(Request(v)) \/ v = w
    BY <1>1, <2>1, QueuedAfter DEF Queued
  <2>4. OneOrder'
    BY <1>1, <2>1, <2>2, <2>3 DEF OneOrder
  <2>5. JobsAccounted'
    BY <1>1, <2>1, SameJobs DEF Over
  <2> QED
    BY <2>4, <2>5 DEF PullingInv
<1>7. ASSUME NEW w \in Worker, SignalRoot(w) PROVE PullingInv'
  <2>1. /\ worker[w] = "gone" /\ worker' = [worker EXCEPT ![w] = "signalled"]
        /\ UNCHANGED <<box, done, jobs>>
        /\ rootBox' = Append(rootBox, Terminated(w))
    BY <1>7 DEF SignalRoot, Signalled
  <2>2. \A v \in Worker : Queued(Request(v))' <=> Queued(Request(v))
    BY <1>1, <2>1, QueuedAfter DEF Queued
  <2>3. OneOrder'
    BY <1>1, <2>1, <2>2 DEF OneOrder
  <2>4. JobsAccounted'
    BY <1>1, <2>1, SameJobs DEF Over
  <2> QED
    BY <2>3, <2>4 DEF PullingInv
<1> QED
  BY <1>3, <1>4, <1>5, <1>6, <1>7, HandOutKeepsPulling, ProcessKeepsPulling,
     StopKeepsPulling
     DEF Next, RootSteps, WorkerSteps, Managing, Gathering, Overseeing, Pulling,
         Computing, Loading

-----------------------------------------------------------------------------
(***************************************************************************)
(* scatter_gather: every partial result is under way or has been got.       *)
(***************************************************************************)

\* The root gets a partial result.
LEMMA GatherKeepsPartials ==
    ASSUME WorkersInv, program = "scatter_gather", Gather
    PROVE  PartialsAccounted'
<1> USE Kinds, Messages
<1> DEFINE w == Head(rootBox).from
<1>1. /\ rootBox # <<>> /\ rootBox' = Tail(rootBox)
      /\ Head(rootBox).kind = "partial"
      /\ Head(rootBox) \in Message /\ Queued(Head(rootBox))
      /\ \A x : In(rootBox', x) <=> Queued(x) /\ x # Head(rootBox)
  BY QueuedAfter DEF WorkersInv, Gather, RootReceives
<1>2. w \in Worker /\ Head(rootBox) = Partial(w)
  BY <1>1, FromWhom
<1>3. UNCHANGED <<program, worker>> /\ done' = Got(w)
  BY DEF Gather
<1> HIDE DEF w
<1>4. /\ PartialsAccounted /\ rootBox \in Seq(Message) /\ Distinct(rootBox)
      /\ done \in [Job -> Nat]
  BY DEF WorkersInv, Types
<1>5. w \in Job /\ Over(w) /\ done[w] = 0
  BY <1>1, <1>2, <1>4 DEF PartialsAccounted
<1>6. done' = [done EXCEPT ![w] = 1]
  <2>1. done[w] + 1 = 1
    BY <1>5
  <2> QED
    BY <1>3, <2>1 DEF Got
<1>7. /\ \A v \in Worker : Queued(Partial(v))' <=> Queued(Partial(v)) /\ v # w
      /\ \A v \in Worker : Queued(Terminated(v))' <=> Queued(Terminated(v))
  BY <1>1, <1>2 DEF Queued
<1>8. \A v \in Worker : Ahead(rootBox', Partial(v), Terminated(v))
  BY <1>1, <1>4, Received DEF PartialsAccounted
<1>9. \A v \in Worker : Over(v)' <=> Over(v)
  BY <1>3 DEF Over
<1>10. \A v \in Job : v # w => done'[v] = done[v]
  BY <1>4, <1>6
<1>11. ASSUME NEW v \in Worker
       PROVE  /\ ~Over(v)' => ~Queued(Partial(v))' /\ done'[v] = 0
              /\ Over(v)' => done'[v] = IF Queued(Partial(v))' THEN 0 ELSE 1
              /\ worker'[v] = "signalled" /\ Queued(Partial(v))' =>
                    Queued(Terminated(v))'
  <2>1. CASE v = w
    BY <1>4, <1>5, <1>6, <1>7, <1>9, <2>1
  <2>2. CASE v # w
    BY <1>3, <1>4, <1>7, <1>9, <1>10, <2>2 DEF PartialsAccounted
  <2> QED
    BY <2>1, <2>2
<1>12. \A j \in Job \ Worker : done'[j] = 0
  BY <1>2, <1>4, <1>10 DEF PartialsAccounted
<1> QED
  BY <1>8, <1>11, <1>12 DEF PartialsAccounted

\* A worker has its partial result under way before it is gone.
LEMMA ComputeKeepsPartials ==
    ASSUME WorkersInv, program = "scatter_gather", NEW w \in Worker, Compute(w)
    PROVE  PartialsAccounted'
<1> USE Kinds, Messages
<1>1. /\ worker[w] = "up" /\ worker' = [worker EXCEPT ![w] = "gone"]
      /\ done' = done /\ rootBox' = Append(rootBox, Partial(w))
  BY DEF Compute, Receives, Stops
<1>2. /\ PartialsAccounted /\ rootBox \in Seq(Message) /\ Distinct(rootBox)
      /\ worker \in [Worker -> Places] /\ Types
      /\ \A v \in Worker : Queued(Terminated(v)) => worker[v] = "signalled"
  BY DEF WorkersInv, Types, Countdown
<1>3. /\ \A v \in Worker : Queued(Partial(v))' <=> Queued(Partial(v)) \/ v = w
      /\ \A v \in Worker : Queued(Terminated(v))' <=> Queued(Terminated(v))
  BY <1>1, <1>2, QueuedAfter DEF Queued
<1>4. ~Over(w) /\ ~Queued(Terminated(w)) /\ done[w] = 0
  BY <1>1, <1>2 DEF Over, PartialsAccounted
<1>5. ASSUME NEW v \in Worker PROVE Ahead(rootBox', Partial(v), Terminated(v))
  <2>1. CASE v = w
    BY <1>3, <1>4, <2>1 DEF Ahead, Queued, In
  <2>2. CASE v # w
    BY <1>1, <1>2, <2>2, Appended DEF PartialsAccounted
  <2> QED
    BY <2>1, <2>2
<1>6. ASSUME NEW v \in Worker
      PROVE  /\ ~Over(v)' => ~Queued(Partial(v))' /\ done'[v] = 0
             /\ Over(v)' => done'[v] = IF Queued(Partial(v))' THEN 0 ELSE 1
             /\ worker'[v] = "signalled" /\ Queued(Partial(v))' =>
                   Queued(Terminated(v))'
  <2>1. CASE v = w
    BY <1>1, <1>2, <1>3, <1>4, <2>1 DEF Over
  <2>2. CASE v # w
    BY <1>1, <1>2, <1>3, <2>2 DEF Over, PartialsAccounted
  <2> QED
    BY <2>1, <2>2
<1> QED
  BY <1>1, <1>2, <1>5, <1>6 DEF PartialsAccounted

LEMMA PartialsKept ==
    ASSUME WorkersInv, program = "scatter_gather", Next
    PROVE  PartialsAccounted'
<1> USE Kinds, Messages
<1>1. /\ PartialsAccounted /\ Types /\ Distinct(rootBox) /\ Enlistment
      /\ worker \in [Worker -> Places] /\ rootBox \in Seq(Message)
      /\ \A v \in Worker : Queued(Terminated(v)) => worker[v] = "signalled"
  BY DEF WorkersInv, Types, Countdown
<1>2. ASSUME UNCHANGED <<done, rootBox>>,
             \A v \in Worker : Over(v)' <=> Over(v),
             \A v \in Worker : worker'[v] = "signalled" => worker[v] = "signalled"
      PROVE  PartialsAccounted'
  BY <1>1, <1>2 DEF PartialsAccounted, Queued
<1>3. ASSUME NEW w \in Worker, Enlist(w) PROVE PartialsAccounted'
  <2>1. worker[w] = "unborn"
    BY <1>1, <1>3 DEF Enlist, Enlistment, Types, Worker
  <2> QED
    BY <1>1, <1>2, <1>3, <2>1 DEF Enlist, Over
<1>4. CASE RootStarts
  BY <1>1, <1>2, <1>4 DEF RootStarts, Over
<1>5. CASE WorkerTerminated
  <2>1. /\ UNCHANGED <<done, worker>>
        /\ rootBox # <<>> /\ rootBox' = Tail(rootBox)
        /\ Head(rootBox).kind = "terminated"
    BY <1>5 DEF WorkerTerminated, RootReceives
  <2> DEFINE w == Head(rootBox).from
  <2>2. w \in Worker /\ Head(rootBox) = Terminated(w)
    BY <1>1, <2>1, FromWhom, QueuedAfter
  <2> HIDE DEF w
  <2>3. /\ \A v \in Worker : Queued(Partial(v))' <=> Queued(Partial(v))
        /\ \A v \in Worker :
              Queued(Terminated(v))' <=> Queued(Terminated(v)) /\ v # w
    BY <1>1, <2>1, <2>2, QueuedAfter DEF Queued
  <2>4. ~Queued(Partial(w))
    BY <1>1, <2>1, <2>2, Received DEF PartialsAccounted, Queued
  <2>5. \A v \in Worker : Ahead(rootBox', Partial(v), Terminated(v))
    BY <1>1, <2>1, Received DEF PartialsAccounted
  <2>6. \A v \in Worker : Over(v)' <=> Over(v)
    BY <2>1 DEF Over
  <2> QED
    BY <1>1, <2>1, <2>3, <2>4, <2>5, <2>6 DEF PartialsAccounted
<1>6. ASSUME NEW w \in Worker, WorkerInit(w) PROVE PartialsAccounted'
  BY <1>1, <1>2, <1>6 DEF WorkerInit, Over
<1>7. ASSUME NEW w \in Worker, SignalRoot(w) PROVE PartialsAccounted'
  <2>1. /\ worker[w] = "gone" /\ worker' = [worker EXCEPT ![w] = "signalled"]
        /\ done' = done /\ rootBox' = Append(rootBox, Terminated(w))
    BY <1>7 DEF SignalRoot, Signalled
  <2>2. /\ \A v \in Worker : Queued(Partial(v))' <=> Queued(Partial(v))
        /\ \A v \in Worker :
              Queued(Terminated(v))' <=> Queued(Terminated(v)) \/ v = w
    BY <1>1, <2>1, QueuedAfter DEF Queued
  <2>3. \A v \in Worker : Ahead(rootBox', Partial(v), Terminated(v))
    BY <1>1, <2>1, Appended DEF PartialsAccounted
  <2>4. \A v \in Worker : Over(v)' <=> Over(v)
    BY <1>1, <2>1 DEF Over
  <2>5. \A v \in Worker : v # w => worker'[v] = worker[v]
    BY <1>1, <2>1
  <2> QED
    BY <1>1, <2>1, <2>2, <2>3, <2>4, <2>5 DEF PartialsAccounted
<1> QED
  BY <1>3, <1>4, <1>5, <1>6, <1>7, GatherKeepsPartials, ComputeKeepsPartials
     DEF Next, RootSteps, WorkerSteps, Managing, Gathering, Overseeing, Pulling,
         Computing, Loading

-----------------------------------------------------------------------------
(***************************************************************************)
(* supervision: the values told, consumed and toxic.                        *)
(***************************************************************************)

\* The toxic values are counted one by one.
LEMMA ToxicCount ==
    ASSUME NEW n \in Nat
    PROVE  /\ IsFiniteSet(ToxicUpTo(n)) /\ Cardinality(ToxicUpTo(n)) \in Nat
           /\ Toxic(n + 1) =>
                 Cardinality(ToxicUpTo(n + 1)) = Cardinality(ToxicUpTo(n)) + 1
           /\ ~Toxic(n + 1) => ToxicUpTo(n + 1) = ToxicUpTo(n)
           /\ \A m \in 0 .. n :
                 Cardinality(ToxicUpTo(m)) <= Cardinality(ToxicUpTo(n))
<1>1. \A m \in Nat : IsFiniteSet(ToxicUpTo(m))
  <2> TAKE m \in Nat
  <2>1. IsFiniteSet(1 .. m) /\ ToxicUpTo(m) \subseteq 1 .. m
    BY FS_Interval DEF ToxicUpTo
  <2> QED
    BY <2>1, FS_Subset
<1>2. Cardinality(ToxicUpTo(n)) \in Nat
  BY <1>1, FS_CardinalityType
<1>3. ASSUME Toxic(n + 1)
      PROVE  Cardinality(ToxicUpTo(n + 1)) = Cardinality(ToxicUpTo(n)) + 1
  <2>1. ToxicUpTo(n + 1) = ToxicUpTo(n) \cup {n + 1} /\ n + 1 \notin ToxicUpTo(n)
    BY <1>3 DEF ToxicUpTo
  <2> QED
    BY <1>1, <2>1, FS_AddElement
<1>4. ~Toxic(n + 1) => ToxicUpTo(n + 1) = ToxicUpTo(n)
  BY DEF ToxicUpTo
<1>5. ASSUME NEW m \in 0 .. n
      PROVE  Cardinality(ToxicUpTo(m)) <= Cardinality(ToxicUpTo(n))
  <2>1. ToxicUpTo(m) \subseteq ToxicUpTo(n)
    BY DEF ToxicUpTo
  <2> QED
    BY <1>1, <2>1, FS_Subset
<1> QED
  BY <1>1, <1>2, <1>3, <1>4, <1>5

\* The loader is told its values in order, and its mailbox takes them all.
LEMMA TellKeepsValues ==
    ASSUME WorkersInv, program = "supervision", TellLoader
    PROVE  ValuesAccounted'
<1> USE Kinds, Orders
<1> DEFINE m == IF step <= Jobs THEN Work(step) ELSE Finish
           b == box[Loader]
<1>1. /\ step \in 1 .. Jobs + 1 /\ step' = step + 1 /\ box' = Told(Loader, m)
      /\ UNCHANGED <<program, script, worker, restarts, done>>
  BY DEF TellLoader
<1>2. /\ Unstarted /\ Consuming /\ Ended
      /\ box \in [Worker -> Seq(Order)] /\ worker \in [Worker -> Places]
      /\ worker[Loader] # "unborn"
  BY <1>1 DEF WorkersInv, ValuesAccounted, Types, Enlistment, Enlisted, Loader
<1>3. m \in Order /\ m = Value(step)
  BY <1>1 DEF Value
<1> HIDE DEF m
<1>4. Unstarted'
  BY <1>1, <1>2 DEF Unstarted
<1>5. Ended'
  BY <1>1, <1>2 DEF Ended, Over, Toxic, ToxicUpTo
<1>6. CASE worker[Loader] \in {"init", "up"}
  <2>1. /\ b \in Seq(Order) /\ Len(b) \in Nat
        /\ step - 1 - Len(b) \in 0 .. Jobs
        /\ \A i \in 1 .. Len(b) : b[i] = Value(step - 1 - Len(b) + i)
    BY <1>2, <1>6, LenProperties DEF Consuming, Consumed
  <2>2. ~(Len(b) >= Capacity)
    <3>1. step \in Nat /\ step <= Jobs + 1
      BY <1>1
    <3>2. \A l \in Nat : step - 1 - l \in 0 .. Jobs => ~(l >= Jobs + 1)
      BY <3>1
    <3>3. Capacity = Jobs + 1
      BY DEF Capacity
    <3> HIDE DEF b
    <3> QED
      BY <2>1, <3>2, <3>3
  <2>3. box' = [box EXCEPT ![Loader] = Append(b, m)]
    BY <1>1, <1>6, <2>2 DEF Told
  <2>4. /\ box'[Loader] \in Seq(Order) /\ Len(box'[Loader]) = Len(b) + 1
        /\ \A i \in 1 .. Len(b) : box'[Loader][i] = b[i]
        /\ box'[Loader][Len(b) + 1] = m
    BY <1>2, <1>3, <2>1, <2>3, AppendProperties
  <2> HIDE DEF b
  <2>5. Consumed' = step - 1 - Len(b) /\ Consumed = step - 1 - Len(b)
    BY <1>1, <2>1, <2>4 DEF Consumed, b
  <2>6. \A i \in 1 .. Len(b) + 1 : box'[Loader][i] = Value(step - 1 - Len(b) + i)
    <3> TAKE i \in 1 .. Len(b) + 1
    <3>1. CASE i \in 1 .. Len(b)
      BY <2>1, <2>4, <3>1
    <3>2. CASE i = Len(b) + 1
      <4>1. step - 1 - Len(b) + i = step
        BY <1>1, <2>1, <3>2
      <4> QED
        BY <1>3, <2>4, <3>2, <4>1
    <3>3. \A n \in Nat : i \in 1 .. n + 1 => i \in 1 .. n \/ i = n + 1
      OBVIOUS
    <3> QED
      BY <2>1, <3>1, <3>2, <3>3
  <2>7. step' <= Jobs + 2
    BY <1>1
  <2>8. /\ \A j \in Job :
              done[j] = IF j <= Consumed /\ ~Toxic(j) THEN 1 ELSE 0
        /\ restarts <= Cardinality(ToxicUpTo(Consumed))
    BY <1>2, <1>6 DEF Consuming
  <2>9. /\ \A j \in Job :
              done'[j] = IF j <= Consumed' /\ ~Toxic(j)' THEN 1 ELSE 0
        /\ restarts' <= Cardinality(ToxicUpTo(Consumed)')
    BY <1>1, <2>5, <2>8 DEF Toxic, ToxicUpTo
  <2>10. /\ \A i \in 1 .. Len(box'[Loader]) : box'[Loader][i] = Value(Consumed' + i)
         /\ Consumed' \in 0 .. Jobs
    BY <2>1, <2>4, <2>5, <2>6
  <2>11. Consuming'
    BY <2>7, <2>9, <2>10 DEF Consuming
  <2> QED
    BY <1>4, <1>5, <2>11 DEF ValuesAccounted
<1>7. CASE worker[Loader] \notin {"init", "up"}
  <2>1. Consuming'
    BY <1>1, <1>7 DEF Consuming
  <2> QED
    BY <1>4, <1>5, <2>1 DEF ValuesAccounted
<1> QED
  BY <1>6, <1>7

\* What the loader has when it receives: the next value, and the rest behind it.
LEMMA NextValue ==
    ASSUME WorkersInv, program = "supervision", NEW kind, Receives(Loader, kind)
    PROVE  /\ Consumed \in 0 .. Jobs /\ step <= Jobs + 2 /\ step \in Nat
           /\ box[Loader] # <<>> /\ Head(box[Loader]) = Value(Consumed + 1)
           /\ Value(Consumed + 1).kind = kind
           /\ Tail(box[Loader]) \in Seq(Order)
           /\ Len(Tail(box[Loader])) = Len(box[Loader]) - 1
           /\ Len(box[Loader]) \in Nat \ {0}
           /\ \A i \in 1 .. Len(box[Loader]) - 1 :
                 Tail(box[Loader])[i] = Value(Consumed + 1 + i)
           /\ \A j \in Job :
                 done[j] = IF j <= Consumed /\ ~Toxic(j) THEN 1 ELSE 0
           /\ restarts <= Cardinality(ToxicUpTo(Consumed))
<1> USE Kinds
<1>1. /\ box \in [Worker -> Seq(Order)] /\ step \in Nat
      /\ worker[Loader] = "up" /\ box[Loader] # <<>>
      /\ Head(box[Loader]).kind = kind /\ Consuming
  BY DEF WorkersInv, Types, ValuesAccounted, Receives
<1>2. /\ Consumed \in 0 .. Jobs /\ step <= Jobs + 2
      /\ \A i \in 1 .. Len(box[Loader]) : box[Loader][i] = Value(Consumed + i)
      /\ \A j \in Job :
            done[j] = IF j <= Consumed /\ ~Toxic(j) THEN 1 ELSE 0
      /\ restarts <= Cardinality(ToxicUpTo(Consumed))
  BY <1>1 DEF Consuming
<1>3. /\ Tail(box[Loader]) \in Seq(Order)
      /\ Head(box[Loader]) = box[Loader][1]
      /\ Len(box[Loader]) \in Nat \ {0}
      /\ Len(Tail(box[Loader])) = Len(box[Loader]) - 1
      /\ \A i \in 1 .. Len(box[Loader]) - 1 :
            Tail(box[Loader])[i] = box[Loader][i + 1]
  BY <1>1, TakenTypes
<1>4. Head(box[Loader]) = Value(Consumed + 1)
  BY <1>2, <1>3
<1>5. ASSUME NEW i \in 1 .. Len(box[Loader]) - 1
      PROVE  Tail(box[Loader])[i] = Value(Consumed + 1 + i)
  <2>1. i + 1 \in 1 .. Len(box[Loader]) /\ Consumed + (i + 1) = Consumed + 1 + i
    BY <1>2, <1>3
  <2> QED
    BY <1>2, <1>3, <2>1
<1> QED
  BY <1>1, <1>2, <1>3, <1>4, <1>5

\* The next value, when it is a job, is that of the job.
LEMMA NextJob ==
    ASSUME NEW n \in 0 .. Jobs, Value(n + 1).kind = "job"
    PROVE  n + 1 \in Job /\ Value(n + 1) = Work(n + 1) /\ Value(n + 1).job = n + 1
<1>1. n + 1 <= Jobs
  BY Orders DEF Value
<1> QED
  BY <1>1, Orders DEF Value, Job

\* A value loaded is done, and consumed.
LEMMA LoadKeepsValues ==
    ASSUME WorkersInv, program = "supervision", Load(Loader)
    PROVE  ValuesAccounted'
<1> USE Kinds
<1> DEFINE n == Consumed
<1>1. /\ Receives(Loader, "job") /\ ~Toxic(Head(box[Loader]).job)
      /\ box' = [box EXCEPT ![Loader] = Tail(@)]
      /\ done' = Got(Head(box[Loader]).job)
      /\ UNCHANGED <<program, script, step, worker, restarts>>
      /\ worker[Loader] = "up"
  BY DEF Load, Receives
<1>2. /\ box \in [Worker -> Seq(Order)] /\ done \in [Job -> Nat]
  BY DEF WorkersInv, Types
<1>3. /\ n \in 0 .. Jobs /\ n + 1 \in Job /\ Head(box[Loader]).job = n + 1
      /\ ~Toxic(n + 1)
  BY <1>1, NextValue, NextJob
<1>4. done' = [done EXCEPT ![n + 1] = @ + 1]
  BY <1>1, <1>3 DEF Got
<1>5. box'[Loader] = Tail(box[Loader])
  BY <1>1, <1>2
<1>6. Consumed' = n + 1 /\ n + 1 \in 0 .. Jobs
  <2>1. /\ step \in Nat /\ Len(box[Loader]) \in Nat
        /\ Len(box'[Loader]) = Len(box[Loader]) - 1
    BY <1>1, <1>5, NextValue
  <2>2. step - 1 - (Len(box[Loader]) - 1) = (step - 1 - Len(box[Loader])) + 1
    BY <2>1
  <2> QED
    BY <1>1, <1>3, <2>1, <2>2 DEF Consumed, Job
<1> HIDE DEF n
<1>7. \A j \in Job : done'[j] = IF j <= n + 1 /\ ~Toxic(j) THEN 1 ELSE 0
  <2> TAKE j \in Job
  <2>0. done[j] = IF j <= n /\ ~Toxic(j) THEN 1 ELSE 0
    BY <1>1, NextValue DEF n
  <2>1. CASE j = n + 1
    BY <1>2, <1>3, <1>4, <2>0, <2>1
  <2>2. CASE j # n + 1
    <3>1. j <= n + 1 <=> j <= n
      BY <1>3, <2>2 DEF Job
    <3> QED
      BY <1>2, <1>4, <2>0, <2>2, <3>1
  <2> QED
    BY <2>1, <2>2
<1>8. restarts <= Cardinality(ToxicUpTo(n + 1))
  BY <1>1, <1>3, NextValue, ToxicCount DEF n
<1>9. \A i \in 1 .. Len(box'[Loader]) : box'[Loader][i] = Value(n + 1 + i)
  BY <1>1, <1>5, NextValue DEF n
<1>10. Consuming'
  <2>1. /\ \A j \in Job : done'[j] = IF j <= Consumed' /\ ~Toxic(j)' THEN 1 ELSE 0
        /\ restarts' <= Cardinality(ToxicUpTo(Consumed)')
    BY <1>1, <1>6, <1>7, <1>8 DEF Toxic, ToxicUpTo
  <2> QED
    BY <1>1, <1>6, <1>9, <2>1, NextValue DEF Consuming
<1> QED
  BY <1>1, <1>10 DEF ValuesAccounted, Unstarted, Ended, Over

\* A loader that fails for good has met more toxic values than its policy allows;
\* one that restarts has consumed the value, and keeps the rest.
LEMMA FailKeepsValues ==
    ASSUME WorkersInv, program = "supervision", FailOnToxic(Loader)
    PROVE  ValuesAccounted'
<1> USE Kinds
<1> DEFINE n == Consumed
<1>1. /\ Receives(Loader, "job") /\ Toxic(Head(box[Loader]).job)
      /\ UNCHANGED <<program, script, step, done>>
      /\ worker[Loader] = "up"
  BY DEF FailOnToxic, Receives
<1>2. /\ box \in [Worker -> Seq(Order)] /\ done \in [Job -> Nat]
      /\ worker \in [Worker -> Places] /\ restarts \in 0 .. MaxRestarts
  BY DEF WorkersInv, Types
<1>3. /\ n \in 0 .. Jobs /\ n + 1 \in Job /\ Head(box[Loader]).job = n + 1
      /\ Toxic(n + 1) /\ n \in Nat
  BY <1>1, NextValue, NextJob
<1>4. PICK streak \in {0, restarts} :
         IF RestartsAgain(streak)
         THEN /\ restarts' = streak + 1
              /\ worker' = [worker EXCEPT ![Loader] = "init"]
              /\ box' = [box EXCEPT ![Loader] = MailboxRetained(Loader)]
         ELSE restarts' = streak /\ Stops(Loader)
  BY DEF FailOnToxic
<1> HIDE DEF n
<1>5. \A j \in Job : done'[j] = IF j <= n + 1 /\ ~Toxic(j) THEN 1 ELSE 0
  <2> TAKE j \in Job
  <2>0. done[j] = IF j <= n /\ ~Toxic(j) THEN 1 ELSE 0
    BY <1>1, NextValue DEF n
  <2>1. CASE j = n + 1
    BY <1>1, <1>3, <2>0, <2>1
  <2>2. CASE j # n + 1
    <3>1. j <= n + 1 <=> j <= n
      BY <1>3, <2>2 DEF Job
    <3> QED
      BY <1>1, <2>0, <3>1
  <2> QED
    BY <2>1, <2>2
<1>6. /\ Cardinality(ToxicUpTo(n)) \in Nat /\ restarts <= Cardinality(ToxicUpTo(n))
      /\ Cardinality(ToxicUpTo(n + 1)) = Cardinality(ToxicUpTo(n)) + 1
  BY <1>1, <1>3, NextValue, ToxicCount DEF n
<1>7. \A j : Toxic(j)' <=> Toxic(j)
  BY <1>1 DEF Toxic
<1>8. CASE RestartsAgain(streak)
  <2>1. /\ restarts' = streak + 1 /\ worker'[Loader] = "init"
        /\ box'[Loader] = Tail(box[Loader])
    BY <1>2, <1>4, <1>8 DEF MailboxRetained
  <2>2. Consumed' = n + 1 /\ n + 1 \in 0 .. Jobs
    <3>1. /\ step \in Nat /\ Len(box[Loader]) \in Nat
          /\ Len(box'[Loader]) = Len(box[Loader]) - 1
      BY <1>1, <2>1, NextValue
    <3>2. step - 1 - (Len(box[Loader]) - 1) = (step - 1 - Len(box[Loader])) + 1
      BY <3>1
    <3> QED
      BY <1>1, <1>3, <3>1, <3>2 DEF Consumed, Job, n
  <2>3. restarts' <= Cardinality(ToxicUpTo(n + 1))
    BY <1>2, <1>6, <2>1
  <2>4. \A i \in 1 .. Len(box'[Loader]) : box'[Loader][i] = Value(n + 1 + i)
    BY <1>1, <2>1, NextValue DEF n
  <2>5. /\ \A j \in Job : done'[j] = IF j <= Consumed' /\ ~Toxic(j)' THEN 1 ELSE 0
        /\ restarts' <= Cardinality(ToxicUpTo(Consumed)')
    BY <1>1, <1>5, <1>7, <2>2, <2>3 DEF ToxicUpTo
  <2>6. Consuming'
    BY <1>1, <2>2, <2>4, <2>5, NextValue DEF Consuming
  <2> QED
    BY <2>1, <2>6 DEF ValuesAccounted, Unstarted, Ended, Over
<1>9. CASE ~RestartsAgain(streak)
  <2>1. worker'[Loader] = "gone"
    BY <1>2, <1>4, <1>9 DEF Stops
  <2>2. streak = restarts /\ restarts = MaxRestarts
    BY <1>2, <1>9 DEF RestartsAgain
  <2>3. Cardinality(ToxicUpTo(n + 1)) > MaxRestarts
    BY <1>6, <2>2
  <2>4. Jobs \in Nat /\ n + 1 \in 0 .. Jobs
    BY <1>3 DEF Job
  <2>5. /\ Cardinality(ToxicUpTo(n + 1)) <= Cardinality(ToxicUpTo(Jobs))
        /\ Cardinality(ToxicUpTo(Jobs)) \in Nat
    BY <2>4, ToxicCount
  <2>6. Cardinality(ToxicUpTo(Jobs)) > MaxRestarts
    BY <1>6, <2>3, <2>5
  <2>7. ToxicUpTo(Jobs)' = ToxicUpTo(Jobs)
    BY <1>7 DEF ToxicUpTo
  <2>8. Cardinality(ToxicUpTo(Jobs)') > MaxRestarts
    BY <2>6, <2>7
  <2>9. \A j \in Job : done'[j] <= 1
    BY <1>5
  <2> QED
    BY <2>1, <2>8, <2>9 DEF ValuesAccounted, Unstarted, Consuming, Ended
<1> QED
  BY <1>8, <1>9

\* Finish comes behind the last value.
LEMMA FinishKeepsValues ==
    ASSUME WorkersInv, program = "supervision", StopWorker(Loader)
    PROVE  ValuesAccounted'
<1> USE Kinds
<1>1. /\ Receives(Loader, "drained") \/ Receives(Loader, "finish")
      /\ UNCHANGED <<program, script, step, done, restarts>>
      /\ worker'[Loader] = "gone"
  BY DEF StopWorker, Stops, WorkersInv, Types
<1>2. Consumed \in 0 .. Jobs /\ Value(Consumed + 1).kind # "job"
  BY <1>1, NextValue
<1>3. Consumed = Jobs
  BY <1>2, Orders DEF Value
<1>4. \A j \in Job : done[j] = IF j <= Consumed /\ ~Toxic(j) THEN 1 ELSE 0
  BY <1>1, NextValue
<1>5. \A j \in Job : done[j] = IF ~Toxic(j) THEN 1 ELSE 0
  BY <1>3, <1>4 DEF Job
<1>6. /\ \A j \in Job : done'[j] <= 1
      /\ \A j \in Job : ~Toxic(j)' => done'[j] = 1
  BY <1>1, <1>5 DEF Toxic
<1> QED
  BY <1>1, <1>6 DEF ValuesAccounted, Unstarted, Consuming, Ended

LEMMA ValuesKept ==
    ASSUME WorkersInv, program = "supervision", Next
    PROVE  ValuesAccounted'
<1> USE Kinds
<1>1. /\ ValuesAccounted /\ Types /\ Enlistment
      /\ worker \in [Worker -> Places] /\ box \in [Worker -> Seq(Order)]
      /\ step \in Nat /\ restarts \in 0 .. MaxRestarts /\ done \in [Job -> Nat]
  BY DEF WorkersInv, Types
<1>2. \A w \in Worker : worker[w] # "unborn" => w = Loader
  BY <1>1 DEF Enlistment, Enlisted
<1>3. ASSUME UNCHANGED <<script, step, done, box, restarts>>,
             worker'[Loader] = "unborn" => worker[Loader] = "unborn",
             worker'[Loader] \in {"init", "up"} => worker[Loader] \in {"init", "up"},
             Over(Loader)' => Over(Loader)
      PROVE  ValuesAccounted'
  <2>1. Unstarted'
    BY <1>1, <1>3 DEF ValuesAccounted, Unstarted
  <2>2. Consumed' = Consumed /\ (\A j : Toxic(j)' <=> Toxic(j))
    BY <1>3 DEF Consumed, Toxic
  <2>3. ToxicUpTo(Consumed)' = ToxicUpTo(Consumed) /\ ToxicUpTo(Jobs)' = ToxicUpTo(Jobs)
    BY <2>2 DEF ToxicUpTo
  <2>4. Consuming'
    BY <1>1, <1>3, <2>2, <2>3 DEF ValuesAccounted, Consuming
  <2>5. Ended'
    BY <1>1, <1>3, <2>2, <2>3 DEF ValuesAccounted, Ended
  <2> QED
    BY <2>1, <2>4, <2>5 DEF ValuesAccounted
<1>4. ASSUME NEW w \in Worker, Enlist(w) PROVE ValuesAccounted'
  <2>1. w = Loader /\ step = 0 /\ step' = 1 /\ worker[Loader] = "unborn"
    BY <1>1, <1>4 DEF Enlist, Enlisted, Enlistment, Loader
  <2>2. /\ box'[Loader] = <<>> /\ restarts' = 0 /\ \A j \in Job : done'[j] = 0
        /\ worker'[Loader] = "init"
    BY <1>1, <1>4, <2>1 DEF Enlist, ValuesAccounted, Unstarted
  <2>3. Consumed' = 0
    <3>1. Len(box'[Loader]) = 0
      BY <2>2, EmptySeq
    <3>2. 1 - 1 - 0 = 0
      OBVIOUS
    <3> QED
      BY <2>1, <3>1, <3>2 DEF Consumed
  <2>4. Cardinality(ToxicUpTo(Consumed)') \in Nat
    <3>1. ToxicUpTo(Consumed)' \subseteq 1 .. 0
      BY <2>3 DEF ToxicUpTo
    <3>2. IsFiniteSet(1 .. 0)
      BY FS_Interval
    <3>3. IsFiniteSet(ToxicUpTo(Consumed)')
      BY <3>1, <3>2, FS_Subset
    <3> QED
      BY <3>3, FS_CardinalityType
  <2>5. Len(box'[Loader]) = 0
    BY <2>2, EmptySeq
  <2>6. \A j \in Job : ~(j <= 0)
    BY DEF Job
  <2>7. Consuming'
    BY <2>1, <2>2, <2>3, <2>4, <2>5, <2>6 DEF Consuming
  <2> QED
    BY <2>2, <2>7 DEF ValuesAccounted, Unstarted, Ended, Over
<1>5. CASE RootStarts \/ WorkerTerminated
  BY <1>1, <1>3, <1>5 DEF RootStarts, WorkerTerminated, Over
<1>6. ASSUME NEW w \in Worker, WorkerInit(w) PROVE ValuesAccounted'
  <2>1. /\ UNCHANGED <<script, step, done, box, restarts>> /\ worker[Loader] = "init"
        /\ worker'[Loader] = "up"
    BY <1>1, <1>2, <1>6 DEF WorkerInit
  <2> QED
    BY <1>3, <2>1 DEF Over
<1>7. ASSUME NEW w \in Worker, SignalRoot(w) PROVE ValuesAccounted'
  <2>1. /\ UNCHANGED <<script, step, done, box, restarts>> /\ worker[Loader] = "gone"
        /\ worker'[Loader] = "signalled"
    BY <1>1, <1>2, <1>7 DEF SignalRoot
  <2> QED
    BY <1>3, <2>1 DEF Over
<1>8. ASSUME NEW w \in Worker, Load(w) \/ FailOnToxic(w) \/ StopWorker(w)
      PROVE  ValuesAccounted'
  <2>1. w = Loader
    BY <1>2, <1>8 DEF Load, FailOnToxic, StopWorker, Receives
  <2> QED
    BY <1>8, <2>1, LoadKeepsValues, FailKeepsValues, FinishKeepsValues
<1> QED
  BY <1>4, <1>5, <1>6, <1>7, <1>8, TellKeepsValues
     DEF Next, RootSteps, WorkerSteps, Managing, Gathering, Overseeing, Pulling,
         Computing, Loading

-----------------------------------------------------------------------------
(***************************************************************************)
(* The invariant, and what follows from it.                                 *)
(***************************************************************************)

LEMMA WorkersInvInit ==
    ASSUME Init
    PROVE  WorkersInv
<1> USE Kinds
<1>1. <<>> \in Seq(Message) /\ <<>> \in Seq(Order) /\ Len(<<>>) = 0
  BY EmptySeq
<1>2. Types
  BY <1>1 DEF Init, Types, Programs, Places
<1>3. \A x : ~Queued(x)
  BY <1>1 DEF Init, Queued, In
<1>4. /\ Distinct(rootBox)
      /\ \A w \in Worker : Ahead(rootBox, Partial(w), Terminated(w))
  BY <1>1 DEF Init, Distinct, Ahead
<1>5. Enlistment
  BY DEF Init, Enlistment, Enlisted, Worker, Loader
<1>6. Countdown
  <2>1. Awaited = Enlisted
    BY DEF Init, Awaited, Enlisted, Loader, Worker
  <2>2. Cardinality(Worker) = Workers
    BY FS_Interval DEF Worker
  <2>3. Cardinality({Loader}) = 1
    BY FS_Singleton
  <2>4. remaining = Cardinality(Awaited)
    BY <2>1, <2>2, <2>3 DEF Init, Enlisted
  <2> QED
    BY <1>3, <2>4 DEF Init, Countdown
<1>7. program = "work_pulling" => OneOrder /\ JobsAccounted
  <2> SUFFICES ASSUME program = "work_pulling" PROVE OneOrder /\ JobsAccounted
    OBVIOUS
  <2>1. 0 <= 1
    OBVIOUS
  <2>2. OneOrder
    BY <1>1, <1>3, <2>1 DEF Init, OneOrder
  <2>3. jobs = Jobs /\ \A j \in Jobs + 1 .. Jobs : FALSE
    BY DEF Init
  <2> QED
    BY <2>2, <2>3 DEF Init, JobsAccounted, Holds, Over, Job
<1>8. program = "scatter_gather" => PartialsAccounted
  BY <1>3, <1>4 DEF Init, PartialsAccounted, Over
<1>9. program = "supervision" => ValuesAccounted
  BY DEF Init, ValuesAccounted, Unstarted, Consuming, Ended, Over
<1> QED
  BY <1>2, <1>4, <1>5, <1>6, <1>7, <1>8, <1>9 DEF WorkersInv

LEMMA WorkersInvStep ==
    ASSUME WorkersInv, [Next]_vars
    PROVE  WorkersInv'
<1>1. CASE Next
  <2>1. Types' /\ Enlistment'
    BY <1>1, TypesKept, EnlistmentKept DEF WorkersInv
  <2>2. Distinct(rootBox)' /\ Countdown'
    BY <1>1, SignalsKept
  <2>3. program' = program
    <3>1. \A w \in Worker :
             /\ Enlist(w) => program' = program
             /\ SignalRoot(w) \/ WorkerInit(w) \/ Process(w) \/ Compute(w)
                   => program' = program
             /\ StopWorker(w) \/ Load(w) \/ FailOnToxic(w) => program' = program
      BY DEF Enlist, SignalRoot, WorkerInit, Process, Compute, StopWorker, Load,
             FailOnToxic
    <3>2. /\ RootStarts \/ HandOut \/ WorkerTerminated => program' = program
          /\ Gather \/ TellLoader => program' = program
      BY DEF RootStarts, HandOut, WorkerTerminated, Gather, TellLoader
    <3> QED
      BY <1>1, <3>1, <3>2
         DEF Next, RootSteps, WorkerSteps, Managing, Gathering, Overseeing,
             Pulling, Computing, Loading
  <2>4. program = "work_pulling" => (OneOrder /\ JobsAccounted)'
    BY <1>1, PullingKept DEF PullingInv
  <2>5. program = "scatter_gather" => PartialsAccounted'
    BY <1>1, PartialsKept
  <2>6. program = "supervision" => ValuesAccounted'
    BY <1>1, ValuesKept
  <2> QED
    BY <2>1, <2>2, <2>3, <2>4, <2>5, <2>6 DEF WorkersInv
<1>2. CASE UNCHANGED vars
  <2>1. UNCHANGED <<program, script, root, step, jobs, remaining, rootBox, worker,
                    box, restarts, done>>
    BY <1>2 DEF vars
  <2>2. Types' /\ Distinct(rootBox)' /\ Enlistment'
    BY <2>1 DEF WorkersInv, Types, Distinct, Enlistment, Enlisted
  <2>3. \A x : Queued(x)' <=> Queued(x)
    BY <2>1 DEF Queued
  <2>4. Countdown'
    BY <2>1, <2>3 DEF WorkersInv, Countdown, Awaited, Enlisted
  <2>5. program = "work_pulling" => OneOrder' /\ JobsAccounted'
    BY <2>1, <2>3, SameJobs DEF WorkersInv, OneOrder, Over
  <2>6. program = "scatter_gather" => PartialsAccounted'
    BY <2>1, <2>3 DEF WorkersInv, PartialsAccounted, Over
  <2>7. \A j : Toxic(j)' <=> Toxic(j)
    BY <2>1 DEF Toxic
  <2>8. Consumed' = Consumed /\ \A n : ToxicUpTo(n)' = ToxicUpTo(n)
    BY <2>1, <2>7 DEF Consumed, ToxicUpTo
  <2>9. ToxicUpTo(Consumed)' = ToxicUpTo(Consumed) /\ ToxicUpTo(Jobs)' = ToxicUpTo(Jobs)
    BY <2>8 DEF ToxicUpTo
  <2>10. program = "supervision" => ValuesAccounted'
    BY <2>1, <2>7, <2>8, <2>9
       DEF WorkersInv, ValuesAccounted, Unstarted, Consuming, Ended, Over
  <2> QED
    BY <2>1, <2>2, <2>4, <2>5, <2>6, <2>10 DEF WorkersInv
<1> QED
  BY <1>1, <1>2

\* The inductive invariant: where every job, partial result and value is.
THEOREM WorkersInvariant == Spec => []WorkersInv
<1>1. Init => WorkersInv
  BY WorkersInvInit
<1>2. WorkersInv /\ [Next]_vars => WorkersInv'
  BY WorkersInvStep
<1> QED
  BY <1>1, <1>2, PTL DEF Spec

\* Every variable has its type, and the root's countdown does not underflow,
\* whatever the number of workers and of jobs.
THEOREM WorkersTypes == Spec => []WorkersTypeOK
<1>1. WorkersInv => WorkersTypeOK
  <2> SUFFICES ASSUME WorkersInv PROVE WorkersTypeOK
    OBVIOUS
  <2>1. remaining \in 0 .. Workers
    BY AwaitedFinite DEF WorkersInv, Countdown
  <2>2. rootBox \in Seq(Message)
    BY DEF WorkersInv, Types
  <2>3. \A i \in DOMAIN rootBox : rootBox[i] \in Message
    BY <2>2, LenProperties, ElementOfSeq
  <2>4. \A i \in DOMAIN rootBox :
           /\ rootBox[i].kind \in {"request", "partial", "terminated"}
           /\ rootBox[i].from \in Worker
    BY <2>3 DEF Message
  <2> QED
    BY <2>1, <2>4 DEF WorkersTypeOK, WorkersInv, Types, Places
<1> QED
  BY <1>1, WorkersInvariant, PTL

\* A worker never has more than one job in flight, so that its mailbox of
\* capacity one refuses none (work_pulling.rs:2-4, 64).
THEOREM NeverTwoJobsInFlight == Spec => []OneJobInFlight
<1>1. WorkersInv => OneJobInFlight
  <2> SUFFICES ASSUME WorkersInv, program = "work_pulling", NEW w \in Worker
               PROVE  InFlight(w) <= Capacity
    BY DEF OneJobInFlight
  <2> DEFINE requests == {i \in DOMAIN rootBox : rootBox[i] = Request(w)}
  <2>1. /\ rootBox \in Seq(Message) /\ DOMAIN rootBox = 1 .. Len(rootBox)
        /\ box[w] \in Seq(Order) /\ Len(box[w]) \in Nat /\ Len(box[w]) <= 1
        /\ Queued(Request(w)) => box[w] = <<>>
    BY LenProperties DEF WorkersInv, Types, OneOrder
  <2>2. CASE Queued(Request(w))
    <3>1. PICK i \in 1 .. Len(rootBox) : rootBox[i] = Request(w)
      BY <2>2 DEF Queued, In
    <3>2. requests = {i}
      BY <2>1, <3>1 DEF WorkersInv, Distinct
    <3>3. Cardinality(requests) = 1 /\ Len(box[w]) = 0
      BY <2>1, <2>2, <3>2, FS_Singleton, EmptySeq
    <3>4. 0 + 1 <= 1
      OBVIOUS
    <3> QED
      BY <3>3, <3>4 DEF InFlight, Capacity
  <2>3. CASE ~Queued(Request(w))
    <3>1. requests = {}
      BY <2>1, <2>3 DEF Queued, In
    <3>2. Cardinality(requests) = 0
      BY <3>1, FS_EmptySet
    <3>3. \A n \in Nat : n + 0 = n
      OBVIOUS
    <3>4. Capacity = 1
      BY DEF Capacity
    <3> HIDE DEF requests
    <3>5. Len(box[w]) + Cardinality(requests) = Len(box[w])
      BY <2>1, <3>2, <3>3
    <3> QED
      BY <2>1, <3>4, <3>5 DEF InFlight, requests
  <2> QED
    BY <2>2, <2>3
<1> QED
  BY <1>1, WorkersInvariant, PTL

\* When the root stops nothing is missing and nothing has been done twice
\* (work_pulling.rs:1-4, scatter_gather.rs:3-6, supervision.rs:2-4): by then every
\* worker has signalled, so that none holds a job and no partial result is queued.
THEOREM NothingGoesMissing == Spec => []NothingMissing
<1>1. WorkersInv => NothingMissing
  <2> SUFFICES ASSUME WorkersInv PROVE NothingMissing
    OBVIOUS
  <2>1. Types /\ done \in [Job -> Nat] /\ jobs \in 0 .. Jobs
    BY DEF WorkersInv, Types
  <2>2. CASE program = "work_pulling"
    <3>1. JobsAccounted /\ OneOrder
      BY <2>2 DEF WorkersInv
    <3>2. \A j \in Job : j \in 1 .. jobs \/ j \in jobs + 1 .. Jobs
      BY <2>1 DEF Job
    <3>3. \A j \in Job : done[j] <= 1
      BY <3>1, <3>2 DEF JobsAccounted
    <3>4. ASSUME root = "stopped" PROVE \A j \in Job : done[j] = 1
      <4>1. Awaited = {}
        BY <3>4, AwaitedFinite, FS_EmptySet DEF WorkersInv, Countdown
      <4>2. \A w \in Worker : worker[w] = "signalled"
        BY <2>2, <4>1 DEF Awaited, Enlisted
      <4>3. jobs = 0
        BY <3>1, <4>2 DEF JobsAccounted, Over, Worker
      <4>4. \A w \in Worker : box[w] = <<>>
        BY <3>1, <4>2 DEF OneOrder
      <4> QED
        BY <3>1, <4>3, <4>4 DEF JobsAccounted, Holds, Job
    <3> QED
      BY <2>2, <3>3, <3>4 DEF NothingMissing, Expected
  <2>3. CASE program = "scatter_gather"
    <3>1. PartialsAccounted
      BY <2>3 DEF WorkersInv
    <3>2. \A j \in Job : done[j] <= 1
      BY <3>1 DEF PartialsAccounted
    <3>3. ASSUME root = "stopped" PROVE \A w \in Worker : done[w] = 1
      <4>1. Awaited = {}
        BY <3>3, AwaitedFinite, FS_EmptySet DEF WorkersInv, Countdown
      <4>2. \A w \in Worker : worker[w] = "signalled" /\ ~Queued(Terminated(w))
        BY <2>3, <4>1 DEF Awaited, Enlisted
      <4> QED
        BY <3>1, <4>2 DEF PartialsAccounted, Over
    <3> QED
      BY <2>3, <3>2, <3>3 DEF NothingMissing, Expected
  <2>4. CASE program = "supervision"
    <3>1. ValuesAccounted
      BY <2>4 DEF WorkersInv
    <3>2. \A j \in Job : done[j] <= 1
      <4>1. worker[Loader] \in Places
        BY Kinds DEF WorkersInv, Types
      <4> QED
        BY <3>1, <4>1
           DEF Places, Over, ValuesAccounted, Unstarted, Consuming, Ended
    <3>3. ASSUME root = "stopped"
          PROVE  \/ \A j \in Job : ~Toxic(j) => done[j] = 1
                 \/ Cardinality(ToxicUpTo(Jobs)) > MaxRestarts
      <4>1. Awaited = {}
        BY <3>3, AwaitedFinite, FS_EmptySet DEF WorkersInv, Countdown
      <4>2. worker[Loader] = "signalled"
        BY <2>4, <4>1 DEF Awaited, Enlisted
      <4> QED
        BY <3>1, <4>2 DEF ValuesAccounted, Ended, Over
    <3>4. {j \in Job : Toxic(j)} = ToxicUpTo(Jobs)
      BY DEF Job, ToxicUpTo
    <3> QED
      BY <2>4, <3>2, <3>3, <3>4 DEF NothingMissing, Expected
  <2> QED
    BY <2>1, <2>2, <2>3, <2>4 DEF Types, Programs
<1> QED
  BY <1>1, WorkersInvariant, PTL
=============================================================================

------------------------------ MODULE Workers ------------------------------
(***************************************************************************)
(* Three examples of waltz in one model: in each the root spawns workers,   *)
(* watches them, gets work to them and stops when the last of them has      *)
(* terminated.  They differ in how the work travels:                        *)
(*   work_pulling    the workers ask for the next document, one at a time,  *)
(*                   and have mailboxes of capacity one;                    *)
(*   scatter_gather  every worker is told its shard, replies and stops;     *)
(*   supervision     one worker, the loader, is told everything, fails on   *)
(*                   toxic values and restarts.                             *)
(* Mailboxes and watches are those of DeathWatch: a worker's signal comes    *)
(* after all it has sent, and its own mailbox has been drained before.       *)
(***************************************************************************)
EXTENDS Naturals, Sequences, FiniteSets

CONSTANTS
    Workers,      \* WORKERS, also the number of SHARDS
    Jobs,         \* the number of DOCUMENTS, and of values the loader is told
    MaxRestarts   \* MAX_RESTARTS of the loader

ASSUME WorkersAssumption ==
    /\ Workers \in Nat \ {0}
    /\ Jobs \in Nat
    /\ Workers <= Jobs
    /\ MaxRestarts \in Nat \ {0}

VARIABLES
    program,   \* the example that runs
    script,    \* supervision: which of the values told are toxic
    root,      \* "init", "up" or "stopped"
    step,      \* how far the root's init has come
    jobs,      \* work_pulling: documents left, the next one is the last
    remaining, \* Managing::workers or Gathering::remaining
    rootBox,   \* the root's mailbox
    worker,    \* each worker's place in its life
    box,       \* the mailbox of each worker
    restarts,  \* the loader's restarts in the current streak
    done       \* how often the result of each job has been got

vars == <<program, script, root, step, jobs, remaining, rootBox, worker, box,
          restarts, done>>

Worker == 1 .. Workers
Loader == 1
Job == 1 .. Jobs

Programs == {"work_pulling", "scatter_gather", "supervision"}

\* Who is spawned, and how many steps the root's init takes: one to spawn and
\* watch each worker, and in supervision one for each value and one for Finish.
Enlisted == IF program = "supervision" THEN {Loader} ELSE Worker

InitSteps == IF program = "supervision" THEN Jobs + 2 ELSE Workers

\* A worker's mailbox is bounded in work_pulling only.
Capacity == IF program = "work_pulling" THEN 1 ELSE Jobs + 1

Request(w)    == [kind |-> "request", from |-> w]
Partial(w)    == [kind |-> "partial", from |-> w]
Terminated(w) == [kind |-> "terminated", from |-> w]

Work(j) == [kind |-> "job", job |-> j]
Drained == [kind |-> "drained", job |-> 0]
Finish  == [kind |-> "finish", job |-> 0]

\* ActorRef::tell of a worker: refused when the mailbox is full or gone.
Told(w, message) ==
    IF worker[w] \in {"gone", "signalled"} \/ Len(box[w]) >= Capacity
    THEN box ELSE [box EXCEPT ![w] = Append(@, message)]

Got(j) == [done EXCEPT ![j] = @ + 1]

-----------------------------------------------------------------------------
\* The root's init, interleaved with the workers it has spawned.

\* Spawn, watch and, when scattering, tell the shard.
Enlist(w) ==
    /\ root = "init"
    /\ w \in Enlisted
    /\ step = w - 1
    /\ step' = step + 1
    /\ worker' = [worker EXCEPT ![w] = "init"]
    /\ box' = IF program = "scatter_gather"
              THEN [box EXCEPT ![w] = <<Work(w)>>] ELSE box
    /\ UNCHANGED <<program, script, root, jobs, remaining, rootBox, restarts,
                   done>>

\* Overseer::init tells the loader its values, and Finish behind them.
TellLoader ==
    /\ root = "init"
    /\ step \in 1 .. Jobs + 1
    /\ step' = step + 1
    /\ box' = Told(Loader, IF step <= Jobs THEN Work(step) ELSE Finish)
    /\ UNCHANGED <<program, script, root, jobs, remaining, rootBox, worker,
                   restarts, done>>

RootStarts ==
    /\ root = "init"
    /\ step = InitSteps
    /\ root' = "up"
    /\ UNCHANGED <<program, script, step, jobs, remaining, rootBox, worker, box,
                   restarts, done>>

-----------------------------------------------------------------------------
\* The root's receive.

RootReceives(kind) ==
    /\ root = "up"
    /\ rootBox # <<>>
    /\ Head(rootBox).kind = kind
    /\ rootBox' = Tail(rootBox)

\* jobs.pop()
Popped == IF jobs = 0 THEN 0 ELSE jobs - 1

\* One request gets one job, or learns that there is none left.
HandOut ==
    /\ RootReceives("request")
    /\ jobs' = Popped
    /\ box' = Told(Head(rootBox).from, IF jobs = 0 THEN Drained ELSE Work(jobs))
    /\ UNCHANGED <<program, script, root, step, remaining, worker, restarts, done>>

Gather ==
    /\ RootReceives("partial")
    /\ done' = Got(Head(rootBox).from)
    /\ UNCHANGED <<program, script, root, step, jobs, remaining, worker, box,
                   restarts>>

\* The overseer has one worker, so the same count serves it.
WorkerTerminated ==
    /\ RootReceives("terminated")
    /\ remaining' = remaining - 1
    /\ root' = IF remaining' > 0 THEN root ELSE "stopped"
    /\ UNCHANGED <<program, script, step, jobs, worker, box, restarts, done>>

-----------------------------------------------------------------------------
\* A worker.

\* Variant: the next job is requested ahead.
RequestsAhead(w) == rootBox \o <<Request(w), Request(w)>>

\* Worker::request_job
Requested(w) == Append(rootBox, Request(w))

\* The loader's init is run again after every restart.
WorkerInit(w) ==
    /\ worker[w] = "init"
    /\ worker' = [worker EXCEPT ![w] = "up"]
    /\ rootBox' = IF program = "work_pulling" THEN Requested(w) ELSE rootBox
    /\ UNCHANGED <<program, script, root, step, jobs, remaining, box, restarts,
                   done>>

Receives(w, kind) ==
    /\ worker[w] = "up"
    /\ box[w] # <<>>
    /\ Head(box[w]).kind = kind

\* Control::Stop: the mailbox is drained on the way to the signal.
Stops(w) ==
    /\ worker' = [worker EXCEPT ![w] = "gone"]
    /\ box' = [box EXCEPT ![w] = <<>>]

Process(w) ==
    /\ Receives(w, "job")
    /\ box' = [box EXCEPT ![w] = Tail(@)]
    /\ done' = Got(Head(box[w]).job)
    /\ rootBox' = Requested(w)
    /\ UNCHANGED <<program, script, root, step, jobs, remaining, worker, restarts>>

Compute(w) ==
    /\ Receives(w, "job")
    /\ Stops(w)
    /\ rootBox' = Append(rootBox, Partial(w))
    /\ UNCHANGED <<program, script, root, step, jobs, remaining, restarts, done>>

\* Drained, or Finish
StopWorker(w) ==
    /\ Receives(w, "drained") \/ Receives(w, "finish")
    /\ Stops(w)
    /\ UNCHANGED <<program, script, root, step, jobs, remaining, rootBox,
                   restarts, done>>

Toxic(j) == script[j] = "toxic"

Load(w) ==
    /\ Receives(w, "job")
    /\ ~Toxic(Head(box[w]).job)
    /\ box' = [box EXCEPT ![w] = Tail(@)]
    /\ done' = Got(Head(box[w]).job)
    /\ UNCHANGED <<program, script, root, step, jobs, remaining, rootBox, worker,
                   restarts>>

\* Variant: the mailbox belongs to the failed state.
MailboxLost(w) == <<>>

\* The failing message is consumed, the rest stays queued.
MailboxRetained(w) == Tail(box[w])

\* Variant: one restart too many.
RestartsOnceMore(streak) == streak <= MaxRestarts

RestartsAgain(streak) == streak < MaxRestarts

\* The toxic value fails the loader, which restarts as long as its policy allows;
\* it may have been up for long enough to begin a new streak.
FailOnToxic(w) ==
    /\ Receives(w, "job")
    /\ Toxic(Head(box[w]).job)
    /\ \E streak \in {0, restarts} :
         IF RestartsAgain(streak)
         THEN /\ restarts' = streak + 1
              /\ worker' = [worker EXCEPT ![w] = "init"]
              /\ box' = [box EXCEPT ![w] = MailboxRetained(w)]
         ELSE restarts' = streak /\ Stops(w)
    /\ UNCHANGED <<program, script, root, step, jobs, remaining, rootBox, done>>

\* Variant: a watcher is signalled ahead of what the worker has sent it.
SignalledFirst(w) == <<Terminated(w)>> \o rootBox

\* The signal is queued behind everything the worker has sent.
Signalled(w) == Append(rootBox, Terminated(w))

SignalRoot(w) ==
    /\ worker[w] = "gone"
    /\ worker' = [worker EXCEPT ![w] = "signalled"]
    /\ rootBox' = Signalled(w)
    /\ UNCHANGED <<program, script, root, step, jobs, remaining, box, restarts,
                   done>>

-----------------------------------------------------------------------------
Init ==
    /\ program \in Programs
    /\ script \in IF program = "supervision" THEN [Job -> {"load", "toxic"}]
                  ELSE {[j \in Job |-> "load"]}
    /\ root = "init"
    /\ step = 0
    /\ jobs = IF program = "work_pulling" THEN Jobs ELSE 0
    /\ remaining = IF program = "supervision" THEN 1 ELSE Workers
    /\ rootBox = <<>>
    /\ worker = [w \in Worker |-> "unborn"]
    /\ box = [w \in Worker |-> <<>>]
    /\ restarts = 0
    /\ done = [j \in Job |-> 0]

\* Manager of work_pulling
Managing ==
    /\ program = "work_pulling"
    /\ HandOut \/ WorkerTerminated

\* Gatherer of scatter_gather
Gathering ==
    /\ program = "scatter_gather"
    /\ Gather \/ WorkerTerminated

\* Overseer of supervision
Overseeing ==
    /\ program = "supervision"
    /\ TellLoader \/ WorkerTerminated

\* Worker of work_pulling
Pulling(w) ==
    /\ program = "work_pulling"
    /\ WorkerInit(w) \/ Process(w) \/ StopWorker(w)

\* Worker of scatter_gather
Computing(w) ==
    /\ program = "scatter_gather"
    /\ WorkerInit(w) \/ Compute(w)

\* Loader of supervision
Loading(w) ==
    /\ program = "supervision"
    /\ WorkerInit(w) \/ Load(w) \/ FailOnToxic(w) \/ StopWorker(w)

RootSteps ==
    \/ \E w \in Worker : Enlist(w)
    \/ RootStarts
    \/ Managing
    \/ Gathering
    \/ Overseeing

WorkerSteps(w) == Pulling(w) \/ Computing(w) \/ Loading(w) \/ SignalRoot(w)

Next == RootSteps \/ \E w \in Worker : WorkerSteps(w)

Spec == Init /\ [][Next]_vars

\* Every task with something to do is polled, and the backoff elapses.
FairSpec == Spec /\ WF_vars(RootSteps) /\ \A w \in Worker : WF_vars(WorkerSteps(w))

-----------------------------------------------------------------------------
\* Properties.

\* Every variable has its type; the root's countdown of workers does not
\* underflow.
WorkersTypeOK ==
    /\ program \in Programs
    /\ root \in {"init", "up", "stopped"}
    /\ jobs \in 0 .. Jobs
    /\ remaining \in 0 .. Workers
    /\ \A i \in DOMAIN rootBox :
          /\ rootBox[i].kind \in {"request", "partial", "terminated"}
          /\ rootBox[i].from \in Worker
    /\ worker \in [Worker -> {"unborn", "init", "up", "gone", "signalled"}]
    /\ restarts \in 0 .. MaxRestarts
    /\ done \in [Job -> Nat]

\* The jobs that must have been done by the time the root stops.
Expected ==
    CASE program = "work_pulling"   -> Job
      [] program = "scatter_gather" -> Worker
      [] program = "supervision"    -> {j \in Job : ~Toxic(j)}

\* When the root stops every job has been done, and no job is ever done twice:
\* no document is lost or handed out twice (work_pulling.rs:1-4, 106), no partial
\* result is still under way when the last signal comes (scatter_gather.rs:3-6,
\* 79), and what was queued behind a toxic value is still loaded
\* (supervision.rs:2-4, 68).  Only a loader that has failed more often than its
\* policy allows may leave values behind.
NothingMissing ==
    /\ \A j \in Job : done[j] <= 1
    /\ root = "stopped" =>
          \/ \A j \in Expected : done[j] = 1
          \/ /\ program = "supervision"
             /\ Cardinality({j \in Job : Toxic(j)}) > MaxRestarts

\* A worker has one job in flight: its request, or the answer to it, so that a
\* mailbox of capacity one never refuses a job (work_pulling.rs:2-4, 64).
InFlight(w) ==
    Len(box[w]) + Cardinality({i \in DOMAIN rootBox : rootBox[i] = Request(w)})

OneJobInFlight ==
    program = "work_pulling" => \A w \in Worker : InFlight(w) <= Capacity

\* Every program ends, the loader's whatever the values it is told.
RootStops == <>(root = "stopped")
=============================================================================

---------------------------- MODULE ActorsProofs ----------------------------
(***************************************************************************)
(* Theorems about Actors for every set of actors, every assignment of      *)
(* restart strategies and every value of the bounds: first the tree of     *)
(* actors, then the death watch and the actor system, then that Actors     *)
(* implements DeathWatch, and ActorTree but for its fairness.              *)
(***************************************************************************)
EXTENDS ActorsDeathWatch, ActorsTree, TLAPS

USE ActorsAssumption

-----------------------------------------------------------------------------
(***************************************************************************)
(* The types, and the tree of actors.                                      *)
(***************************************************************************)

\* Updating a function at one argument keeps its range.
LEMMA Updated ==
    ASSUME NEW S, NEW T, NEW f \in [S -> T], NEW x \in S, NEW y \in T
    PROVE  [f EXCEPT ![x] = y] \in [S -> T]
  OBVIOUS

\* The names of the points of the run loop are points of the run loop.
LEMMA Labels ==
    /\ {"unborn", "init", "select", "polled", "receive"} \subseteq PC
    /\ {"init_failed", "receive_failed", "restart", "closing", "backoff"}
           \subseteq PC
    /\ {"drop_state", "terminate", "drop_queued", "deregister"} \subseteq PC
    /\ {"await_children", "drop_actor", "signal", "terminated"} \subseteq PC
  BY DEF PC, UserCode, Turn, Destructor, Awaiting, Signalling

(***************************************************************************)
(* Every variable has its type and the bounds are kept: a restart counter   *)
(* never exceeds RestartPolicy::max_restarts (actor_context.rs:338-346).     *)
(***************************************************************************)
THEOREM TypeCorrect == Spec => []TypeOK
<1>1. Init => TypeOK
  <2> SUFFICES ASSUME Init PROVE TypeOK
    OBVIOUS
  <2>1. pc \in [Actor -> PC]
    BY Labels DEF Init
  <2>2. queue \in [Actor -> Seq(Incoming)]
    BY DEF Init
  <2>3. /\ parent \in [Actor -> Actor \cup {System}]
        /\ connected \subseteq Actor
        /\ stopTx \in [Actor -> Nat]
        /\ stopRx \in [Actor -> Nat]
        /\ joined \in [Actor -> Nat]
    BY DEF Init
  <2>4. /\ registry \in [Actor -> SUBSET (Actor \cup {System})]
        /\ registering \subseteq Actor
        /\ watched \in [Actor -> SUBSET Actor]
        /\ toSignal \in [Actor -> SUBSET (Actor \cup {System})]
    BY DEF Init
  <2>5. restarts \in [Actor -> 0 .. MaxRestarts]
    <3>1. 0 \in 0 .. MaxRestarts
      OBVIOUS
    <3> QED BY <3>1 DEF Init
  <2>6. registered \in BOOLEAN /\ resolved \in BOOLEAN
    BY Zenon DEF Init
  <2>7. /\ tells \in 0 .. MaxTells
        /\ watches \in 0 .. MaxWatches
        /\ failures \in 0 .. MaxFailures
    BY DEF Init
  <2> QED BY <2>1, <2>2, <2>3, <2>4, <2>5, <2>6, <2>7 DEF TypeOK
<1>2. TypeOK /\ [Next]_vars => TypeOK'
  <2> SUFFICES ASSUME TypeOK, [Next]_vars PROVE TypeOK'
    OBVIOUS
  <2> USE DEF TypeOK, mailboxVars, stopVars, watchVars, systemVars, counters
  <2>1. CASE RegisterRoot
    <3>1. registry' \in [Actor -> SUBSET (Actor \cup {System})]
      <4>1. RootRegistryWithSink \in SUBSET (Actor \cup {System})
        BY DEF RootRegistryWithSink
      <4>2. registry' \in {registry,
                [registry EXCEPT ![Root] = RootRegistryWithSink]}
        BY <2>1, Zenon DEF RegisterRoot
      <4> QED BY <4>1, <4>2
    <3>2. registered' \in BOOLEAN /\ resolved' \in BOOLEAN
      BY <2>1, Zenon DEF RegisterRoot, SinkFired
    <3> QED BY <2>1, <3>1, <3>2 DEF RegisterRoot
  <2>2. ASSUME NEW sender \in Actor \cup {System}, NEW a \in Actor,
               Tell(sender, a)
        PROVE  TypeOK'
    <3>1. Message(sender) \in Incoming
      BY DEF Message, Incoming
    <3> QED BY <2>2, <3>1 DEF Tell
  <2>3. ASSUME NEW a \in Actor, NEW c \in Actor, Spawn(a, c) PROVE TypeOK'
    BY <2>3, Labels DEF Spawn, ChildStopRx, Goto
  <2>4. ASSUME NEW a \in Actor, NEW b \in Actor, Watch(a, b) PROVE TypeOK'
    <3>1. Terminated(b) \in Incoming
      BY DEF Terminated, Incoming
    <3>2. queue' \in [Actor -> Seq(Incoming)]
      <4>1. SelfSignalled(a, b) \in Seq(Incoming)
        BY <3>1 DEF SelfSignalled
      <4>2. queue' \in {queue, [queue EXCEPT ![a] = SelfSignalled(a, b)]}
        BY <2>4, Zenon DEF Watch
      <4> QED BY <4>1, <4>2
    <3>3. registry' \in [Actor -> SUBSET (Actor \cup {System})]
      <4>1. registry[b] \cup {a} \in SUBSET (Actor \cup {System})
        OBVIOUS
      <4>2. registry' \in {registry, [registry EXCEPT ![b] = @ \cup {a}]}
        BY <2>4, Zenon DEF Watch
      <4>3. [registry EXCEPT ![b] = @ \cup {a}]
              \in [Actor -> SUBSET (Actor \cup {System})]
        BY <4>1, Updated, Zenon
      <4> QED BY <4>2, <4>3, Zenon
    <3>4. watched' \in [Actor -> SUBSET Actor]
      <4>1. watched[a] \cup {b} \in SUBSET Actor
        OBVIOUS
      <4> QED BY <2>4, <4>1 DEF Watch
    <3>5. watches' \in 0 .. MaxWatches
      BY <2>4 DEF Watch
    <3> QED BY <2>4, <3>2, <3>3, <3>4, <3>5 DEF Watch
  <2>5. ASSUME NEW a \in Actor, NEW b \in Actor, Unwatch(a, b) PROVE TypeOK'
    BY <2>5 DEF Unwatch, Deregistered
  <2>6. ASSUME NEW a \in Actor, RunLoop(a) PROVE TypeOK'
    <3> USE Labels DEF Goto, Go
    <3>1. CASE RunInit(a)
      <4>1. pc' \in [Actor -> PC]
        BY <3>1 DEF RunInit, Fail
      <4>2. failures' \in 0 .. MaxFailures
        BY <3>1 DEF RunInit, Fail
      <4> QED BY <3>1, <4>1, <4>2 DEF RunInit
    <3>2. CASE PollStop(a)
      BY <3>2 DEF PollStop
    <3>3. CASE Park(a)
      BY <3>3 DEF Park
    <3>4. CASE Dequeue(a)
      <4>1. Tail(queue[a]) \in Seq(Incoming)
        BY <3>4 DEF Dequeue
      <4>2. \E label \in {"receive", "select"} : Goto(a, label)
        BY <3>4, Zenon DEF Dequeue
      <4>3. pc' \in [Actor -> PC]
        BY <4>2
      <4>4. watched' \in
              {watched,
               [watched EXCEPT ![a] = @ \ {Head(queue[a]).from}]}
        BY <3>4, Zenon DEF Dequeue
      <4>5. watched' \in [Actor -> SUBSET Actor]
        <5>1. watched[a] \ {Head(queue[a]).from} \in SUBSET Actor
          OBVIOUS
        <5>2. [watched EXCEPT ![a] = @ \ {Head(queue[a]).from}]
                \in [Actor -> SUBSET Actor]
          BY <5>1, Updated, Zenon
        <5> QED BY <4>4, <5>2, Zenon
      <4> QED BY <3>4, <4>1, <4>3, <4>5 DEF Dequeue
    <3>5. CASE RunReceive(a)
      <4>1. \E label \in {"select", "terminate", "receive_failed"} :
              Goto(a, label)
        BY <3>5, Zenon DEF RunReceive, Fail
      <4>2. failures' \in 0 .. MaxFailures
        BY <3>5 DEF RunReceive, Fail
      <4>3. pc' \in [Actor -> PC]
        BY <4>1
      <4> QED BY <3>5, <4>2, <4>3 DEF RunReceive
    <3>6. CASE Supervise(a)
      BY <3>6 DEF Supervise, RestartsAgain
    <3>7. CASE StopChildren(a)
      <4>1. pc' \in [Actor -> PC]
        BY <3>7 DEF StopChildren
      <4>2. stopTx' \in [Actor -> Nat] /\ stopRx' \in [Actor -> Nat]
        BY <3>7 DEF StopChildren, NextStopRx
      <4> QED BY <3>7, <4>1, <4>2 DEF StopChildren
    <3>8. CASE RestartClosed(a)
      BY <3>8 DEF RestartClosed, NextLife
    <3>9. CASE Backoff(a)
      BY <3>9 DEF Backoff, NextLife
    <3>10. CASE DropState(a)
      BY <3>10 DEF DropState
    <3>11. CASE CloseMailbox(a)
      BY <3>11 DEF CloseMailbox
    <3>12. CASE DropQueued(a)
      BY <3>12 DEF DropQueued
    <3>13. CASE Deregister(a)
      <4>1. PICK b \in watched[a] :
              /\ watched' = [watched EXCEPT ![a] = @ \ {b}]
              /\ registry' = Deregistered(a, b)
        BY <3>13 DEF Deregister
      <4>2. watched' \in [Actor -> SUBSET Actor]
        BY <4>1
      <4>3. registry' \in [Actor -> SUBSET (Actor \cup {System})]
        BY <4>1 DEF Deregistered
      <4> QED BY <3>13, <4>2, <4>3 DEF Deregister
    <3>14. CASE AwaitChildren(a)
      BY <3>14 DEF AwaitChildren
    <3>15. CASE TakeWatchers(a)
      BY <3>15 DEF TakeWatchers, RegistrationClosed
    <3>16. CASE Signal(a)
      <4>1. Terminated(a) \in Incoming
        BY DEF Terminated, Incoming
      <4>2. PICK w \in toSignal[a] :
              /\ toSignal' = [toSignal EXCEPT ![a] = @ \ {w}]
              /\ resolved' = (resolved \/ w = System)
              /\ queue' = IF w \in connected
                          THEN [queue EXCEPT ![w] = Append(@, Terminated(a))]
                          ELSE queue
        BY <3>16 DEF Signal
      <4>3. toSignal' \in [Actor -> SUBSET (Actor \cup {System})]
        BY <4>2
      <4>4. queue' \in [Actor -> Seq(Incoming)]
        BY <4>1, <4>2
      <4>5. resolved' \in BOOLEAN
        BY <4>2, Zenon
      <4> QED BY <3>16, <4>3, <4>4, <4>5 DEF Signal
    <3>17. CASE Finish(a)
      BY <3>17 DEF Finish
    <3> QED
      BY <2>6, <3>1, <3>2, <3>3, <3>4, <3>5, <3>6, <3>7, <3>8, <3>9, <3>10,
         <3>11, <3>12, <3>13, <3>14, <3>15, <3>16, <3>17 DEF RunLoop
  <2>7. CASE UNCHANGED vars
    BY <2>7 DEF vars
  <2> QED BY <2>1, <2>2, <2>3, <2>4, <2>5, <2>6, <2>7 DEF Next
<1> QED BY <1>1, <1>2, PTL DEF Spec

-----------------------------------------------------------------------------
(***************************************************************************)
(* The generations of children: stop_children stops and awaits exactly the  *)
(* children there are, so that nobody restarts or terminates above a child  *)
(* that still runs (actor_context.rs:137-147).                              *)
(***************************************************************************)

\* What the generations depend on: where the tasks are, the tree and the
\* channels.  A step that leaves these alone preserves the invariant.
LEMMA GenerationsUntouched ==
    ASSUME GenerationInv, UNCHANGED <<pc, parent, stopVars>>
    PROVE  GenerationInv'
  BY DEF GenerationInv, Parentage, CurrentGeneration, BottomUp, Born, Children,
         stopVars

\* Whoever still runs below an actor that awaits its children holds a receiver
\* of the channel that is awaited: when it has closed, nobody is left.
LEMMA NobodyLeft ==
    ASSUME TypeOK, GenerationInv, NEW a \in Actor, pc[a] \in Awaiting,
           ChildrenClosed(a)
    PROVE  \A c \in Children(a) : pc[c] = "terminated"
  <1> SUFFICES ASSUME NEW c \in Children(a), pc[c] # "terminated" PROVE FALSE
    OBVIOUS
  <1>1. c \in Actor /\ parent[c] = a /\ a # System
    BY DEF Children
  <1>2. c # Root /\ Born(c)
    BY <1>1 DEF GenerationInv, Parentage
  <1>3. joined[c] = stopTx[a] - 1
    BY <1>1, <1>2 DEF GenerationInv, CurrentGeneration, Born
  <1> QED BY <1>1, <1>3 DEF ChildrenClosed, Receivers

\* A task moves between two points at neither of which it awaits its children.
\* It may enter a point at which it must have none only if it had none before.
LEMMA Moved ==
    ASSUME TypeOK, GenerationInv, NEW a \in Actor, NEW label \in PC,
           Goto(a, label), UNCHANGED <<parent, stopVars>>,
           pc[a] # "unborn", pc[a] # "terminated", label # "unborn",
           label \notin Awaiting,
           pc[a] \in Awaiting => \A c \in Children(a) : pc[c] = "terminated",
           label \in {"backoff", "drop_actor"} \cup Signalling =>
               \A c \in Children(a) : pc[c] = "terminated"
    PROVE  GenerationInv'
  <1> USE DEF TypeOK, stopVars, Goto
  <1>1. \A x \in Actor : pc'[x] = IF x = a THEN label ELSE pc[x]
    OBVIOUS
  <1>2. \A x \in Actor : stopRx'[x] = stopTx'[x]
    BY DEF GenerationInv
  <1>3. Parentage'
    BY <1>1 DEF GenerationInv, Parentage, Born
  <1>4. CurrentGeneration'
    <2> SUFFICES ASSUME NEW c \in Actor \ {Root},
                        pc'[c] \notin {"unborn", "terminated"}
                 PROVE  joined[c] = IF pc'[parent[c]] \in Awaiting
                                    THEN stopTx[parent[c]] - 1
                                    ELSE stopTx[parent[c]]
      BY DEF CurrentGeneration
    <2>1. pc[c] \notin {"unborn", "terminated"}
      BY <1>1
    <2>2. parent[c] \in Actor
      BY <2>1 DEF GenerationInv, Parentage, Born
    <2>3. CASE parent[c] = a
      <3>1. pc[a] \notin Awaiting
        BY <2>1, <2>3 DEF Children
      <3> QED BY <1>1, <2>1, <2>3, <3>1 DEF GenerationInv, CurrentGeneration
    <2>4. CASE parent[c] # a
      BY <1>1, <2>1, <2>2, <2>4 DEF GenerationInv, CurrentGeneration
    <2> QED BY <2>3, <2>4
  <1>5. BottomUp'
    <2> SUFFICES ASSUME NEW p \in Actor,
                        pc'[p] \in {"backoff", "drop_actor"} \cup Signalling,
                        NEW c \in Actor, parent[c] = p
                 PROVE  pc'[c] = "terminated"
      BY DEF BottomUp, Children
    <2>1. pc[c] = "terminated"
      <3>1. CASE p = a
        BY <1>1, <3>1 DEF Children
      <3>2. CASE p # a
        BY <1>1, <3>2 DEF GenerationInv, BottomUp, Children
      <3> QED BY <3>1, <3>2
    <2> QED BY <1>1, <2>1
  <1> QED BY <1>2, <1>3, <1>4, <1>5 DEF GenerationInv

\* A child is spawned from the channel its parent will stop next.
LEMMA SpawnKeepsGenerations ==
    ASSUME TypeOK, GenerationInv, NEW a \in Actor, NEW c \in Actor, Spawn(a, c)
    PROVE  GenerationInv'
  <1> USE DEF TypeOK, Spawn, Goto, ChildStopRx
  <1>1. /\ pc[a] \in Turn /\ pc[c] = "unborn" /\ a # c
        /\ \A x \in Actor : pc'[x] = IF x = c THEN "init" ELSE pc[x]
        /\ \A x \in Actor : parent'[x] = IF x = c THEN a ELSE parent[x]
        /\ \A x \in Actor : joined'[x] = IF x = c THEN stopRx[a] ELSE joined[x]
        /\ stopTx' = stopTx /\ stopRx' = stopRx
    BY DEF Turn
  <1>2. c # Root /\ \A x \in Actor : parent[x] # c
    BY <1>1 DEF GenerationInv, Parentage, Born
  <1>3. \A x \in Actor : stopRx'[x] = stopTx'[x]
    BY <1>1 DEF GenerationInv
  <1>4. Parentage'
    BY <1>1, <1>2 DEF GenerationInv, Parentage, Born, Turn
  <1>5. CurrentGeneration'
    <2> SUFFICES ASSUME NEW x \in Actor \ {Root},
                        pc'[x] \notin {"unborn", "terminated"}
                 PROVE  joined'[x] = IF pc'[parent'[x]] \in Awaiting
                                     THEN stopTx'[parent'[x]] - 1
                                     ELSE stopTx'[parent'[x]]
      BY DEF CurrentGeneration
    <2>1. CASE x = c
      BY <1>1, <2>1 DEF GenerationInv, Turn, Awaiting
    <2>2. CASE x # c
      <3>1. parent[x] \in Actor /\ parent[x] # c
        BY <1>1, <1>2, <2>2 DEF GenerationInv, Parentage, Born
      <3>2. /\ parent'[x] = parent[x] /\ pc'[x] = pc[x] /\ joined'[x] = joined[x]
            /\ pc'[parent[x]] = pc[parent[x]] /\ stopTx' = stopTx
        BY <1>1, <2>2, <3>1
      <3>3. CurrentGeneration
        BY DEF GenerationInv
      <3> QED BY <3>2, <3>3 DEF CurrentGeneration
    <2> QED BY <2>1, <2>2
  <1>6. BottomUp'
    <2> SUFFICES ASSUME NEW x \in Actor, NEW y \in Actor, parent'[y] = x,
                        pc'[x] \in {"backoff", "drop_actor"} \cup Signalling
                 PROVE  pc'[y] = "terminated"
      BY DEF BottomUp, Children
    <2>1. x # c /\ pc'[x] = pc[x] /\ x # a
      BY <1>1 DEF Signalling, Turn
    <2>2. y # c /\ pc'[y] = pc[y] /\ parent[y] = x
      BY <1>1, <2>1
    <2>3. BottomUp
      BY DEF GenerationInv
    <2> QED BY <2>1, <2>2, <2>3 DEF BottomUp, Children
  <1> QED BY <1>3, <1>4, <1>5, <1>6 DEF GenerationInv

\* Replacing the channel makes the present children the awaited generation.
LEMMA StopChildrenKeepsGenerations ==
    ASSUME TypeOK, GenerationInv, NEW a \in Actor, StopChildren(a)
    PROVE  GenerationInv'
  <1> USE DEF TypeOK, StopChildren, Goto, NextStopRx
  <1>1. /\ pc[a] \in {"restart", "deregister"}
        /\ pc'[a] \in {"closing", "await_children"}
        /\ \A x \in Actor : x # a => pc'[x] = pc[x]
        /\ \A x \in Actor : stopTx'[x] = IF x = a THEN stopTx[a] + 1 ELSE stopTx[x]
        /\ \A x \in Actor : stopRx'[x] = IF x = a THEN stopTx[a] + 1 ELSE stopRx[x]
        /\ parent' = parent /\ joined' = joined
    OBVIOUS
  <1>2. \A x \in Actor : stopRx'[x] = stopTx'[x]
    BY <1>1 DEF GenerationInv
  <1>3. Parentage'
    <2>1. \A x \in Actor : Born(x)' <=> Born(x)
      BY <1>1 DEF Born
    <2>2. Parentage
      BY DEF GenerationInv
    <2> HIDE DEF TypeOK, StopChildren, Goto, NextStopRx
    <2>3. parent' = parent
      BY <1>1
    <2>4. ASSUME NEW x \in Actor
          PROVE  (IF x = Root \/ ~Born(x)
                  THEN parent[x] = System
                  ELSE parent[x] \in Actor /\ Born(parent[x]))'
      BY <2>1, <2>2, <2>3 DEF Parentage
    <2>5. Born(Root)'
      BY <2>1, <2>2, ActorsAssumption DEF Parentage
    <2> QED
      BY <2>4, <2>5 DEF Parentage
  <1>4. CurrentGeneration'
    <2> SUFFICES ASSUME NEW x \in Actor \ {Root},
                        pc'[x] \notin {"unborn", "terminated"}
                 PROVE  joined[x] = IF pc'[parent[x]] \in Awaiting
                                    THEN stopTx'[parent[x]] - 1
                                    ELSE stopTx'[parent[x]]
      BY <1>1 DEF CurrentGeneration
    <2>1. pc[x] \notin {"unborn", "terminated"}
      BY <1>1
    <2>2. parent[x] \in Actor
      BY <2>1 DEF GenerationInv, Parentage, Born
    <2>3. joined[x] = IF pc[parent[x]] \in Awaiting
                      THEN stopTx[parent[x]] - 1 ELSE stopTx[parent[x]]
      BY <2>1 DEF GenerationInv, CurrentGeneration
    <2>4. CASE parent[x] = a
      <3>1. pc[a] \notin Awaiting /\ pc'[a] \in Awaiting
        BY <1>1 DEF Awaiting
      <3>2. joined[x] = stopTx[a] /\ stopTx'[a] = stopTx[a] + 1
        BY <1>1, <2>3, <2>4, <3>1
      <3> QED BY <2>4, <3>1, <3>2
    <2>5. CASE parent[x] # a
      BY <1>1, <2>2, <2>3, <2>5
    <2> QED BY <2>4, <2>5
  <1>5. BottomUp'
    <2> SUFFICES ASSUME NEW p \in Actor,
                        pc'[p] \in {"backoff", "drop_actor"} \cup Signalling,
                        NEW c \in Actor, parent[c] = p
                 PROVE  pc'[c] = "terminated"
      BY <1>1 DEF BottomUp, Children
    <2>1. p # a
      BY <1>1 DEF Signalling
    <2>2. pc[c] = "terminated"
      BY <1>1, <2>1 DEF GenerationInv, BottomUp, Children
    <2> QED BY <1>1, <2>2
  <1> QED BY <1>2, <1>3, <1>4, <1>5 DEF GenerationInv

\* Every other step of a run loop moves its own task only, and neither enters
\* nor leaves a point at which the children are gone without finding them gone.
LEMMA RunLoopKeepsGenerations ==
    ASSUME TypeOK, GenerationInv, NEW a \in Actor, RunLoop(a)
    PROVE  GenerationInv'
  <1> USE Moved, Labels DEF Go
  <1> DEFINE Gone == \A c \in Children(a) : pc[c] = "terminated"
  <1>0. pc[a] \in {"backoff", "drop_actor"} \cup Signalling => Gone
    BY DEF GenerationInv, BottomUp
  <1>1. CASE RunInit(a)
    <2>1. PICK label \in {"select", "init_failed"} : Goto(a, label)
      BY <1>1, Zenon DEF RunInit, Fail
    <2> QED BY <1>1, <2>1 DEF RunInit, Awaiting, Signalling
  <1>2. CASE PollStop(a)
    BY <1>2 DEF PollStop, Awaiting, Signalling
  <1>3. CASE Park(a)
    BY <1>3 DEF Park, Awaiting, Signalling
  <1>4. CASE Dequeue(a)
    <2>1. PICK label \in {"receive", "select"} : Goto(a, label)
      BY <1>4, Zenon DEF Dequeue
    <2> QED BY <1>4, <2>1 DEF Dequeue, Awaiting, Signalling
  <1>5. CASE RunReceive(a)
    <2>1. PICK label \in {"select", "terminate", "receive_failed"} :
            Goto(a, label)
      BY <1>5, Zenon DEF RunReceive, Fail
    <2> QED BY <1>5, <2>1 DEF RunReceive, Awaiting, Signalling
  <1>6. CASE Supervise(a)
    <2>1. PICK label \in {"restart", "terminate"} : Goto(a, label)
      BY <1>6, Zenon DEF Supervise
    <2> QED BY <1>6, <2>1 DEF Supervise, Awaiting, Signalling
  <1>7. CASE StopChildren(a)
    BY <1>7, StopChildrenKeepsGenerations
  <1>8. CASE RestartClosed(a)
    <2>1. pc[a] \in Awaiting /\ ChildrenClosed(a)
      BY <1>8 DEF RestartClosed, Awaiting
    <2>2. Gone
      BY <2>1, NobodyLeft
    <2> QED BY <1>8, <2>2 DEF RestartClosed, NextLife, Awaiting, Signalling
  <1>9. CASE Backoff(a)
    BY <1>9 DEF Backoff, NextLife, Awaiting, Signalling
  <1>10. CASE DropState(a)
    BY <1>10 DEF DropState, Awaiting, Signalling
  <1>11. CASE CloseMailbox(a)
    <2>1. PICK label \in {"drop_queued", "deregister"} : Goto(a, label)
      BY <1>11, Zenon DEF CloseMailbox
    <2> QED BY <1>11, <2>1 DEF CloseMailbox, Awaiting, Signalling
  <1>12. CASE DropQueued(a)
    BY <1>12 DEF DropQueued, Awaiting, Signalling
  <1>13. CASE Deregister(a)
    BY <1>13, GenerationsUntouched DEF Deregister
  <1>14. CASE AwaitChildren(a)
    <2>1. pc[a] \in Awaiting /\ ChildrenClosed(a)
      BY <1>14 DEF AwaitChildren, Awaiting
    <2>2. Gone
      BY <2>1, NobodyLeft
    <2> QED BY <1>14, <2>2 DEF AwaitChildren, Awaiting, Signalling
  <1>15. CASE TakeWatchers(a)
    BY <1>0, <1>15 DEF TakeWatchers, Awaiting, Signalling
  <1>16. CASE Signal(a)
    BY <1>16, GenerationsUntouched DEF Signal
  <1>17. CASE Finish(a)
    BY <1>0, <1>17 DEF Finish, Awaiting, Signalling
  <1> QED
    BY <1>1, <1>2, <1>3, <1>4, <1>5, <1>6, <1>7, <1>8, <1>9, <1>10, <1>11,
       <1>12, <1>13, <1>14, <1>15, <1>16, <1>17 DEF RunLoop

\* The generations of stop channels and children are right at all times.
THEOREM Generations == Spec => []GenerationInv
<1>1. Init => GenerationInv
  BY DEF Init, GenerationInv, Parentage, Born, CurrentGeneration, BottomUp,
         Children, Signalling
<1>2. TypeOK /\ GenerationInv /\ [Next]_vars => GenerationInv'
  <2> SUFFICES ASSUME TypeOK, GenerationInv, [Next]_vars PROVE GenerationInv'
    OBVIOUS
  <2> USE GenerationsUntouched
  <2>1. CASE RegisterRoot
    BY <2>1 DEF RegisterRoot
  <2>2. ASSUME NEW sender \in Actor \cup {System}, NEW a \in Actor,
               Tell(sender, a)
        PROVE  GenerationInv'
    BY <2>2 DEF Tell
  <2>3. ASSUME NEW a \in Actor, NEW c \in Actor, Spawn(a, c)
        PROVE  GenerationInv'
    BY <2>3, SpawnKeepsGenerations
  <2>4. ASSUME NEW a \in Actor, NEW b \in Actor, Watch(a, b)
        PROVE  GenerationInv'
    BY <2>4 DEF Watch
  <2>5. ASSUME NEW a \in Actor, NEW b \in Actor, Unwatch(a, b)
        PROVE  GenerationInv'
    BY <2>5 DEF Unwatch
  <2>6. ASSUME NEW a \in Actor, RunLoop(a) PROVE GenerationInv'
    BY <2>6, RunLoopKeepsGenerations
  <2>7. CASE UNCHANGED vars
    BY <2>7 DEF vars
  <2> QED BY <2>1, <2>2, <2>3, <2>4, <2>5, <2>6, <2>7 DEF Next
<1> QED BY <1>1, <1>2, TypeCorrect, PTL DEF Spec

\* No actor waits to restart, is dropped or signals its watchers before all its
\* children's tasks have ended (actor_context.rs:249, 373-377).
THEOREM NobodyOutlivesItsParent == Spec => []BottomUp
  BY Generations, PTL DEF GenerationInv

\* No child is ever left behind with a stop channel nobody will send on or wait
\* for (actor_context.rs:137-147).
THEOREM NobodyIsLeftBehind == Spec => []CurrentGeneration
  BY Generations, PTL DEF GenerationInv

-----------------------------------------------------------------------------
(***************************************************************************)
(* The death watch and the actor system: what a terminated signal proves,  *)
(* that no watch is lost, that the system resolves last.                   *)
(***************************************************************************)

(***************************************************************************)
(* Invariants behind the properties.                                        *)
(***************************************************************************)

\* A registry is open from the actor's spawn until take closes it, and is empty
\* from then on; watchers are set aside only by an actor that signals.
\* The system watches nobody but the root.
RegistrationInv ==
    /\ \A a \in Actor :
          a \in registering <=> (Born(a) /\ pc[a] \notin Signalling)
    /\ \A a \in Actor : a \notin registering => registry[a] = {}
    /\ \A a \in Actor : toSignal[a] # {} => pc[a] \in Signalling
    /\ \A a \in Actor : System \in registry[a] \cup toSignal[a] => a = Root

\* Whatever has not been spawned watches nobody.
UnbornWatchNobody == \A a \in Actor : ~Born(a) => watched[a] = {}

\* A signal is not in a mailbox before its sender has closed its registry.
SignalsAreLate ==
    \A a \in Actor : \A i \in DOMAIN queue[a] :
        queue[a][i].kind = "terminated" =>
            /\ queue[a][i].from \in Actor
            /\ pc[queue[a][i].from] \in Signalling

\* The sink is in the root's registry until the root signals, and has not been
\* fired before.
SinkInv ==
    /\ registered /\ pc[Root] \notin Signalling => System \in registry[Root]
    /\ resolved => pc[Root] \in Signalling

-----------------------------------------------------------------------------
\* An actor is spawned once, and begins to signal when it has taken its watchers.
SamePhases ==
    \A x \in Actor :
        /\ Born(x)' <=> Born(x)
        /\ pc'[x] \in Signalling <=> pc[x] \in Signalling

LEMMA MovedWithinPhase ==
    ASSUME TypeOK, NEW a \in Actor, NEW label \in PC, Goto(a, label),
           pc[a] # "unborn", label # "unborn",
           pc[a] \in Signalling <=> label \in Signalling
    PROVE  SamePhases
  BY DEF SamePhases, TypeOK, Goto, Born

LEMMA RunLoopKeepsPhases ==
    ASSUME TypeOK, NEW a \in Actor, RunLoop(a), ~TakeWatchers(a)
    PROVE  SamePhases
  <1> USE MovedWithinPhase, Labels DEF Go
  <1>1. CASE RunInit(a)
    <2>1. PICK label \in {"select", "init_failed"} : Goto(a, label)
      BY <1>1, Zenon DEF RunInit, Fail
    <2> QED BY <1>1, <2>1 DEF RunInit, Signalling
  <1>2. CASE PollStop(a)
    BY <1>2 DEF PollStop, Signalling
  <1>3. CASE Park(a)
    BY <1>3 DEF Park, Signalling
  <1>4. CASE Dequeue(a)
    <2>1. PICK label \in {"receive", "select"} : Goto(a, label)
      BY <1>4, Zenon DEF Dequeue
    <2> QED BY <1>4, <2>1 DEF Dequeue, Signalling
  <1>5. CASE RunReceive(a)
    <2>1. PICK label \in {"select", "terminate", "receive_failed"} :
            Goto(a, label)
      BY <1>5, Zenon DEF RunReceive, Fail
    <2> QED BY <1>5, <2>1 DEF RunReceive, Signalling
  <1>6. CASE Supervise(a)
    <2>1. PICK label \in {"restart", "terminate"} : Goto(a, label)
      BY <1>6, Zenon DEF Supervise
    <2> QED BY <1>6, <2>1 DEF Supervise, Signalling
  <1>7. CASE StopChildren(a)
    <2>1. PICK label \in {"closing", "await_children"} : Goto(a, label)
      BY <1>7, Zenon DEF StopChildren
    <2> QED BY <1>7, <2>1 DEF StopChildren, Signalling
  <1>8. CASE RestartClosed(a)
    BY <1>8 DEF RestartClosed, NextLife, Signalling
  <1>9. CASE Backoff(a)
    BY <1>9 DEF Backoff, NextLife, Signalling
  <1>10. CASE DropState(a)
    BY <1>10 DEF DropState, Signalling
  <1>11. CASE CloseMailbox(a)
    <2>1. PICK label \in {"drop_queued", "deregister"} : Goto(a, label)
      BY <1>11, Zenon DEF CloseMailbox
    <2> QED BY <1>11, <2>1 DEF CloseMailbox, Signalling
  <1>12. CASE DropQueued(a)
    BY <1>12 DEF DropQueued, Signalling
  <1>13. CASE Deregister(a)
    BY <1>13 DEF Deregister, SamePhases, Born
  <1>14. CASE AwaitChildren(a)
    BY <1>14 DEF AwaitChildren, Signalling
  <1>15. CASE Signal(a)
    BY <1>15 DEF Signal, SamePhases, Born
  <1>16. CASE Finish(a)
    BY <1>16 DEF Finish, Signalling
  <1> QED
    BY <1>1, <1>2, <1>3, <1>4, <1>5, <1>6, <1>7, <1>8, <1>9, <1>10, <1>11,
       <1>12, <1>13, <1>14, <1>15, <1>16 DEF RunLoop

\* What a step of a run loop may do to mailboxes, watches and the system.
LEMMA RunLoopSteps ==
    ASSUME TypeOK, NEW a \in Actor, RunLoop(a)
    PROVE  \/ SamePhases /\ UNCHANGED <<mailboxVars, watchVars, systemVars>>
           \/ Dequeue(a) \/ CloseMailbox(a) \/ Deregister(a)
           \/ TakeWatchers(a) \/ Signal(a)
  <1>1. CASE TakeWatchers(a)
    BY <1>1
  <1>2. CASE ~TakeWatchers(a)
    <2>1. SamePhases
      BY <1>2, RunLoopKeepsPhases
    <2> QED
      BY <2>1, Zenon
      DEF RunLoop, RunInit, PollStop, Park, RunReceive, Supervise, StopChildren,
          RestartClosed, Backoff, DropState, DropQueued, AwaitChildren, Finish,
          Go
  <1> QED BY <1>1, <1>2

\* A spawn gives the child a phase and leaves those of the others alone.
LEMMA SpawnPhases ==
    ASSUME TypeOK, NEW a \in Actor, NEW c \in Actor, Spawn(a, c)
    PROVE  /\ Born(a) /\ ~Born(c) /\ a # c
           /\ Born(c)' /\ pc[c] \notin Signalling /\ pc'[c] \notin Signalling
           /\ \A x \in Actor : x # c => pc'[x] = pc[x]
  BY DEF Spawn, Goto, Born, Turn, Signalling, TypeOK

\* Taking the watchers is the step into the last phase.
LEMMA TakePhases ==
    ASSUME TypeOK, NEW a \in Actor, TakeWatchers(a)
    PROVE  /\ Born(a) /\ Born(a)'
           /\ pc[a] \notin Signalling /\ pc'[a] \in Signalling
           /\ \A x \in Actor : x # a => pc'[x] = pc[x]
  BY DEF TakeWatchers, Goto, Born, Signalling, TypeOK

(***************************************************************************)
(* Registries are open exactly for the actors that have not yet taken their *)
(* watchers (mailbox.rs:84-114, actor_context.rs:379).                      *)
(***************************************************************************)
THEOREM Registrations == Spec => []RegistrationInv
<1>1. Init => RegistrationInv
  BY DEF Init, RegistrationInv, Born, Signalling
<1>2. TypeOK /\ RegistrationInv /\ [Next]_vars => RegistrationInv'
  <2> SUFFICES ASSUME TypeOK, RegistrationInv, [Next]_vars
               PROVE  RegistrationInv'
    OBVIOUS
  <2> USE DEF mailboxVars, stopVars, watchVars, systemVars, counters
  <2>0. ASSUME SamePhases, UNCHANGED <<registry, registering, toSignal>>
        PROVE  RegistrationInv'
    BY <2>0 DEF RegistrationInv, SamePhases
  <2>1. CASE RegisterRoot
    <3>1. SamePhases
      BY <2>1 DEF RegisterRoot, SamePhases, Born
    <3>2. CASE Root \in registering
      <4>1. \A x \in Actor :
              registry'[x] = IF x = Root THEN registry[Root] \cup {System}
                             ELSE registry[x]
        BY <2>1, <3>2 DEF RegisterRoot, RootRegistryWithSink, TypeOK
      <4> QED
        BY <2>1, <3>1, <3>2, <4>1 DEF RegisterRoot, RegistrationInv, SamePhases
    <3>3. CASE Root \notin registering
      BY <2>0, <2>1, <3>1, <3>3 DEF RegisterRoot
    <3> QED BY <3>2, <3>3
  <2>2. ASSUME NEW sender \in Actor \cup {System}, NEW a \in Actor,
               Tell(sender, a)
        PROVE  RegistrationInv'
    BY <2>0, <2>2 DEF Tell, SamePhases, Born
  <2>3. ASSUME NEW a \in Actor, NEW c \in Actor, Spawn(a, c)
        PROVE  RegistrationInv'
    <3>1. /\ registering' = registering \cup {c}
          /\ UNCHANGED <<registry, toSignal>>
      BY <2>3 DEF Spawn
    <3> QED BY <2>3, <3>1, SpawnPhases DEF RegistrationInv, Born
  <2>4. ASSUME NEW a \in Actor, NEW b \in Actor, Watch(a, b)
        PROVE  RegistrationInv'
    <3>1. SamePhases /\ UNCHANGED <<registering, toSignal>>
      BY <2>4 DEF Watch, SamePhases, Born
    <3>2. CASE b \in registering
      <4>1. \A x \in Actor :
              registry'[x] = IF x = b THEN registry[b] \cup {a} ELSE registry[x]
        BY <2>4, <3>2 DEF Watch, Registers, TypeOK
      <4> QED BY <3>1, <3>2, <4>1 DEF RegistrationInv, SamePhases
    <3>3. CASE b \notin registering
      BY <2>0, <2>4, <3>1, <3>3 DEF Watch, Registers
    <3> QED BY <3>2, <3>3
  <2>5. ASSUME NEW a \in Actor, NEW b \in Actor,
               SamePhases, registry' = Deregistered(a, b),
               UNCHANGED <<registering, toSignal>>
        PROVE  RegistrationInv'
    <3>1. \A x \in Actor : registry'[x] \subseteq registry[x]
      BY <2>5 DEF Deregistered, TypeOK
    <3> QED BY <2>5, <3>1 DEF RegistrationInv, SamePhases
  <2>6. ASSUME NEW a \in Actor, NEW b \in Actor, Unwatch(a, b)
        PROVE  RegistrationInv'
    BY <2>5, <2>6 DEF Unwatch, SamePhases, Born
  <2>7. ASSUME NEW a \in Actor, RunLoop(a) PROVE RegistrationInv'
    <3>1. CASE SamePhases /\ UNCHANGED <<mailboxVars, watchVars, systemVars>>
      BY <2>0, <3>1
    <3>2. CASE Dequeue(a) \/ CloseMailbox(a)
      <4>1. SamePhases
        BY <2>7, <3>2, RunLoopKeepsPhases DEF Dequeue, CloseMailbox, TakeWatchers
      <4> QED BY <2>0, <3>2, <4>1 DEF Dequeue, CloseMailbox
    <3>3. CASE Deregister(a)
      <4>1. PICK b \in watched[a] : registry' = Deregistered(a, b)
        BY <3>3 DEF Deregister
      <4> QED
        BY <2>5, <3>3, <4>1 DEF Deregister, SamePhases, Born, TypeOK
    <3>4. CASE TakeWatchers(a)
      <4>1. /\ registering' = registering \ {a}
            /\ \A x \in Actor :
                  registry'[x] = IF x = a THEN {} ELSE registry[x]
            /\ \A x \in Actor :
                  toSignal'[x] = IF x = a THEN registry[a] ELSE toSignal[x]
        BY <3>4 DEF TakeWatchers, RegistrationClosed, TypeOK
      <4> QED BY <3>4, <4>1, TakePhases DEF RegistrationInv, Born
    <3>5. CASE Signal(a)
      <4>1. SamePhases /\ UNCHANGED <<registry, registering>>
        BY <3>5 DEF Signal, SamePhases, Born
      <4>2. PICK w \in toSignal[a] :
              toSignal' = [toSignal EXCEPT ![a] = @ \ {w}]
        BY <3>5 DEF Signal
      <4>3. \A x \in Actor : toSignal'[x] \subseteq toSignal[x]
        BY <4>2 DEF TypeOK
      <4> QED BY <4>1, <4>3 DEF RegistrationInv, SamePhases
    <3> QED BY <2>7, <3>1, <3>2, <3>3, <3>4, <3>5, RunLoopSteps
  <2>8. CASE UNCHANGED vars
    BY <2>0, <2>8 DEF vars, SamePhases, Born
  <2> QED BY <2>1, <2>2, <2>3, <2>4, <2>6, <2>7, <2>8 DEF Next
<1> QED BY <1>1, <1>2, TypeCorrect, PTL DEF Spec

-----------------------------------------------------------------------------
(***************************************************************************)
(* Signals come last: what is in the mailboxes.                             *)
(***************************************************************************)

\* Whoever has begun to signal never goes back.
LEMMA SignallingIsFinal ==
    ASSUME TypeOK, [Next]_vars, NEW x \in Actor, pc[x] \in Signalling
    PROVE  pc'[x] \in Signalling
  <1>1. CASE pc' = pc
    BY <1>1
  <1>2. ASSUME NEW a \in Actor, NEW c \in Actor, Spawn(a, c)
        PROVE  pc'[x] \in Signalling
    BY <1>2, SpawnPhases
  <1>3. ASSUME NEW a \in Actor, RunLoop(a) PROVE pc'[x] \in Signalling
    <2>1. CASE TakeWatchers(a)
      BY <2>1, TakePhases
    <2>2. CASE ~TakeWatchers(a)
      BY <1>3, <2>2, RunLoopKeepsPhases DEF SamePhases
    <2> QED BY <2>1, <2>2
  <1> QED
    BY <1>1, <1>2, <1>3 DEF Next, RegisterRoot, Tell, Watch, Unwatch, vars

\* Everything that can happen to a mailbox in one step.  Only user code sends
\* messages, and only actors that signal, or have, are signalled about.
Kept(x)      == queue'[x] = queue[x]
Closed(x)    == queue'[x] = <<>> /\ x \notin connected'
Received(x)  == /\ Dequeue(x)
                /\ queue[x] # <<>> /\ queue'[x] = Tail(queue[x])
SentBy(s, x) == /\ s \in Actor => pc[s] \in UserCode
                /\ queue'[x] = Append(queue[x], Message(s))
SignalledBy(b, x) == /\ pc[b] \in Signalling
                     /\ queue'[x] = Append(queue[x], Terminated(b))

LEMMA MailboxSteps ==
    ASSUME TypeOK, RegistrationInv, [Next]_vars, NEW x \in Actor
    PROVE  \/ Kept(x) \/ Closed(x) \/ Received(x)
           \/ \E s \in Actor \cup {System} : SentBy(s, x)
           \/ \E b \in Actor : SignalledBy(b, x)
  <1> USE DEF TypeOK, mailboxVars
  <1>1. CASE queue' = queue
    BY <1>1 DEF Kept
  <1>2. ASSUME NEW s \in Actor \cup {System}, NEW a \in Actor, Tell(s, a)
        PROVE  Kept(x) \/ SentBy(s, x)
    BY <1>2 DEF Tell, Kept, SentBy
  <1>3. ASSUME NEW a \in Actor, NEW b \in Actor, Watch(a, b)
        PROVE  Kept(x) \/ SignalledBy(b, x)
    <2>1. CASE b \in registering
      BY <1>3, <2>1 DEF Watch, Registers, Kept
    <2>2. CASE b \notin registering
      <3>1. pc[b] \in Signalling
        BY <1>3, <2>2 DEF Watch, RegistrationInv
      <3>2. queue' = [queue EXCEPT ![a] = Append(queue[a], Terminated(b))]
        BY <1>3, <2>2 DEF Watch, Registers, SelfSignalled
      <3> QED BY <3>1, <3>2 DEF Kept, SignalledBy
    <2> QED BY <2>1, <2>2
  <1>4. ASSUME NEW a \in Actor, RunLoop(a)
        PROVE  \/ Kept(x) \/ Closed(x) \/ Received(x) \/ SignalledBy(a, x)
    <2>1. CASE queue' = queue
      BY <2>1 DEF Kept
    <2>2. CASE Dequeue(a)
      BY <2>2 DEF Dequeue, Kept, Received
    <2>3. CASE CloseMailbox(a)
      BY <2>3 DEF CloseMailbox, Kept, Closed
    <2>4. CASE Signal(a)
      <3>1. pc[a] \in Signalling
        BY <2>4 DEF Signal, Signalling
      <3>2. PICK w \in toSignal[a] :
              queue' = IF w \in connected
                       THEN [queue EXCEPT ![w] = Append(@, Terminated(a))]
                       ELSE queue
        BY <2>4 DEF Signal
      <3> QED BY <3>1, <3>2 DEF Kept, SignalledBy
    <2> QED
      BY <1>4, <2>1, <2>2, <2>3, <2>4, RunLoopSteps DEF Deregister, TakeWatchers
  <1> QED
    BY <1>1, <1>2, <1>3, <1>4
    DEF Next, RegisterRoot, Spawn, Unwatch, vars

\* No signal is sent before its actor's registry is closed.
THEOREM SignalsCome == Spec => []SignalsAreLate
<1>1. Init => SignalsAreLate
  BY DEF Init, SignalsAreLate
<1>2. TypeOK /\ RegistrationInv /\ SignalsAreLate /\ [Next]_vars
        => SignalsAreLate'
  <2> SUFFICES ASSUME TypeOK, RegistrationInv, SignalsAreLate, [Next]_vars,
                      NEW x \in Actor, NEW i \in DOMAIN queue'[x],
                      queue'[x][i].kind = "terminated"
               PROVE  /\ queue'[x][i].from \in Actor
                      /\ pc'[queue'[x][i].from] \in Signalling
    BY DEF SignalsAreLate
  <2> USE DEF TypeOK
  <2>0. queue[x] \in Seq(Incoming)
    OBVIOUS
  <2>1. ASSUME NEW j \in DOMAIN queue[x], queue'[x][i] = queue[x][j]
        PROVE  /\ queue'[x][i].from \in Actor
               /\ pc'[queue'[x][i].from] \in Signalling
    BY <2>1, SignallingIsFinal DEF SignalsAreLate
  <2>2. CASE Kept(x)
    BY <2>1, <2>2 DEF Kept
  <2>3. CASE Closed(x)
    BY <2>3 DEF Closed
  <2>4. CASE Received(x)
    <3>1. i + 1 \in DOMAIN queue[x] /\ queue'[x][i] = queue[x][i + 1]
      BY <2>0, <2>4 DEF Received
    <3> QED BY <2>1, <3>1
  <2>5. ASSUME NEW s \in Actor \cup {System}, SentBy(s, x)
        PROVE  /\ queue'[x][i].from \in Actor
               /\ pc'[queue'[x][i].from] \in Signalling
    <3>1. i \in DOMAIN queue[x] /\ queue'[x][i] = queue[x][i]
      BY <2>0, <2>5 DEF SentBy, Message
    <3> QED BY <2>1, <3>1
  <2>6. ASSUME NEW b \in Actor, SignalledBy(b, x)
        PROVE  /\ queue'[x][i].from \in Actor
               /\ pc'[queue'[x][i].from] \in Signalling
    <3>1. \/ i \in DOMAIN queue[x] /\ queue'[x][i] = queue[x][i]
          \/ queue'[x][i] = Terminated(b)
      BY <2>0, <2>6 DEF SignalledBy
    <3>2. CASE queue'[x][i] = Terminated(b)
      <4>1. queue'[x][i].from = b
        BY <3>2 DEF Terminated
      <4>2. pc'[b] \in Signalling
        BY <2>6, SignallingIsFinal DEF SignalledBy
      <4> QED BY <4>1, <4>2
    <3> QED BY <2>1, <3>1, <3>2
  <2> QED BY <2>2, <2>3, <2>4, <2>5, <2>6, MailboxSteps
<1> QED BY <1>1, <1>2, TypeCorrect, Registrations, PTL DEF Spec

\* A signal in a mailbox proves that its sender's destructors have run and its
\* children's tasks have ended (actor_context.rs:354-355).
THEOREM SignalsProveTermination == Spec => []SignalProvesTermination
<1>1. SignalsAreLate /\ BottomUp => SignalProvesTermination
  BY DEF SignalsAreLate, BottomUp, SignalProvesTermination
<1> QED BY <1>1, SignalsCome, NobodyOutlivesItsParent, PTL

\* A signal is ordered behind everything its sender has sent
\* (actor_context.rs:97-99).
THEOREM SignalsAreTheLastWord == Spec => []LastWord
<1>1. Init => LastWord
  BY DEF Init, LastWord
<1>2. TypeOK /\ RegistrationInv /\ SignalsAreLate /\ LastWord /\ [Next]_vars
        => LastWord'
  <2> SUFFICES ASSUME TypeOK, RegistrationInv, SignalsAreLate, LastWord,
                      [Next]_vars, NEW x \in Actor,
                      NEW i \in DOMAIN queue'[x], NEW j \in DOMAIN queue'[x],
                      i < j, queue'[x][i].kind = "terminated",
                      queue'[x][j].kind = "message",
                      queue'[x][j].from = queue'[x][i].from
               PROVE  FALSE
    BY DEF LastWord
  <2>0. queue[x] \in Seq(Incoming)
    BY DEF TypeOK
  <2>1. ASSUME NEW k \in DOMAIN queue[x], NEW l \in DOMAIN queue[x], k < l,
               queue'[x][i] = queue[x][k], queue'[x][j] = queue[x][l]
        PROVE  FALSE
    BY <2>1 DEF LastWord
  <2>2. CASE Kept(x)
    BY <2>1, <2>2 DEF Kept
  <2>3. CASE Closed(x)
    BY <2>3 DEF Closed
  <2>4. CASE Received(x)
    <3>1. /\ i + 1 \in DOMAIN queue[x] /\ queue'[x][i] = queue[x][i + 1]
          /\ j + 1 \in DOMAIN queue[x] /\ queue'[x][j] = queue[x][j + 1]
          /\ i + 1 < j + 1
      BY <2>0, <2>4 DEF Received
    <3> QED BY <2>1, <3>1
  <2>5. ASSUME NEW s \in Actor \cup {System}, SentBy(s, x) PROVE FALSE
    <3>1. i \in DOMAIN queue[x] /\ queue'[x][i] = queue[x][i]
      BY <2>0, <2>5 DEF SentBy
    <3>2. \/ j \in DOMAIN queue[x] /\ queue'[x][j] = queue[x][j]
          \/ queue'[x][j] = Message(s)
      BY <2>0, <2>5 DEF SentBy
    <3>3. queue'[x][j] # Message(s)
      <4>1. /\ queue'[x][i].from \in Actor
            /\ pc[queue'[x][i].from] \in Signalling
        BY <3>1 DEF SignalsAreLate
      <4> QED
        BY <2>5, <4>1
        DEF SentBy, Message, UserCode, Turn, Destructor, Signalling
    <3> QED BY <2>1, <3>1, <3>2, <3>3
  <2>6. ASSUME NEW b \in Actor, SignalledBy(b, x) PROVE FALSE
    <3>1. j \in DOMAIN queue[x] /\ queue'[x][j] = queue[x][j]
      BY <2>0, <2>6 DEF SignalledBy, Terminated
    <3>2. i \in DOMAIN queue[x] /\ queue'[x][i] = queue[x][i]
      BY <2>0, <2>6, <3>1 DEF SignalledBy
    <3> QED BY <2>1, <3>1, <3>2
  <2> QED BY <2>2, <2>3, <2>4, <2>5, <2>6, MailboxSteps
<1> QED BY <1>1, <1>2, TypeCorrect, Registrations, SignalsCome, PTL DEF Spec

-----------------------------------------------------------------------------
(***************************************************************************)
(* Registries and watched maps.                                             *)
(***************************************************************************)

\* What watch may do to the registries.
LEMMA WatchRegisters ==
    ASSUME TypeOK, NEW a \in Actor, NEW b \in Actor, Watch(a, b),
           NEW y \in Actor
    PROVE  \/ registry'[y] = registry[y]
           \/ y = b /\ registry'[y] = registry[y] \cup {a}
  <1>1. CASE b \in registering
    <2>1. registry' = [registry EXCEPT ![b] = @ \cup {a}]
      BY <1>1, Zenon DEF Watch, Registers
    <2> QED BY <2>1 DEF TypeOK
  <1>2. CASE b \notin registering
    BY <1>2, Zenon DEF Watch, Registers
  <1> QED BY <1>1, <1>2

\* What the run loop receives is what is first in the mailbox; a signal ends the
\* watch.
LEMMA DequeuesFirst ==
    ASSUME TypeOK, NEW a \in Actor, Dequeue(a)
    PROVE  /\ 1 \in DOMAIN queue[a]
           /\ queue[a][1] \in Incoming
           /\ queue[a][1].kind = "terminated" =>
                watched' = [watched EXCEPT ![a] = @ \ {queue[a][1].from}]
           /\ queue[a][1].kind # "terminated" => watched' = watched
  <1>1. queue[a] \in Seq(Incoming)
    BY DEF TypeOK
  <1>2. queue[a] # <<>>
    BY Zenon DEF Dequeue
  <1>3. 1 \in DOMAIN queue[a] /\ queue[a][1] = Head(queue[a])
    BY <1>1, <1>2
  <1>4. queue[a][1] \in Incoming
    BY <1>1, <1>3
  <1>5. /\ Head(queue[a]).kind = "terminated" =>
             watched' = [watched EXCEPT ![a] = @ \ {Head(queue[a]).from}]
        /\ Head(queue[a]).kind # "terminated" => watched' = watched
    BY Zenon DEF Dequeue
  <1> QED BY <1>3, <1>4, <1>5

\* A registry holds no watcher that is not watching, or has terminated
\* (actor_context.rs:116-120, 369-371).
THEOREM NoWatcherIsDead == Spec => []NoDeadWatchers
<1>1. Init => NoDeadWatchers
  BY DEF Init, NoDeadWatchers
<1>2. TypeOK /\ RegistrationInv /\ SignalsAreLate /\ NoDeadWatchers /\ [Next]_vars
        => NoDeadWatchers'
  <2> SUFFICES ASSUME TypeOK, RegistrationInv, SignalsAreLate, NoDeadWatchers,
                      [Next]_vars, NEW x \in Actor, NEW y \in Actor,
                      x \in registry'[y]
               PROVE  y \in watched'[x]
    BY DEF NoDeadWatchers
  <2> USE DEF watchVars
  <2>0. /\ watched \in [Actor -> SUBSET Actor]
        /\ registry \in [Actor -> SUBSET (Actor \cup {System})]
    BY DEF TypeOK
  <2> USE <2>0
  <2>1. ASSUME x \in registry[y], watched'[x] = watched[x]
        PROVE  y \in watched'[x]
    BY <2>1 DEF NoDeadWatchers
  <2>2. CASE RegisterRoot
    <3>1. CASE Root \in registering
      <4>1. registry' = [registry EXCEPT ![Root] = registry[Root] \cup {System}]
        BY <2>2, <3>1, Zenon DEF RegisterRoot, RootRegistryWithSink
      <4>2. x \in registry[y]
        BY <4>1
      <4> QED BY <2>1, <2>2, <4>2 DEF RegisterRoot
    <3>2. CASE Root \notin registering
      BY <2>1, <2>2, <3>2 DEF RegisterRoot
    <3> QED BY <3>1, <3>2
  <2>3. ASSUME NEW a \in Actor, NEW b \in Actor, Watch(a, b)
        PROVE  y \in watched'[x]
    <3>1. \A z \in Actor :
            watched'[z] = IF z = a THEN watched[a] \cup {b} ELSE watched[z]
      BY <2>3 DEF Watch
    <3>2. x \in registry[y] \/ (x = a /\ y = b)
      BY <2>3, WatchRegisters
    <3> QED BY <3>1, <3>2 DEF NoDeadWatchers
  <2>4. ASSUME NEW a \in Actor, NEW b \in Actor, registry' = Deregistered(a, b),
               watched' = [watched EXCEPT ![a] = @ \ {b}]
        PROVE  y \in watched'[x]
    <3>1. x \in registry[y] /\ ~(x = a /\ y = b)
      BY <2>4 DEF Deregistered
    <3>2. y \in watched[x]
      BY <3>1 DEF NoDeadWatchers
    <3> QED BY <2>4, <3>1, <3>2
  <2>5. ASSUME NEW a \in Actor, NEW b \in Actor, Unwatch(a, b)
        PROVE  y \in watched'[x]
    BY <2>4, <2>5 DEF Unwatch
  <2>6. ASSUME NEW a \in Actor, RunLoop(a) PROVE y \in watched'[x]
    <3>1. CASE UNCHANGED watchVars
      BY <2>1, <3>1
    <3>2. CASE Dequeue(a)
      <4>1. x \in registry[y] /\ y \in watched[x]
        BY <3>2 DEF Dequeue, NoDeadWatchers
      <4>2. CASE queue[a][1] = Terminated(y)
        <5>1. pc[y] \in Signalling
          BY <3>2, <4>2, DequeuesFirst DEF SignalsAreLate, Terminated
        <5> QED BY <4>1, <5>1 DEF RegistrationInv
      <4>3. CASE queue[a][1] # Terminated(y)
        <5>1. queue[a][1].kind = "terminated" => queue[a][1].from # y
          BY <3>2, <4>3, DequeuesFirst DEF Incoming, Terminated
        <5>2. watched' = watched \/
                (/\ queue[a][1].from # y
                 /\ watched' = [watched EXCEPT ![a] = @ \ {queue[a][1].from}])
          BY <3>2, <5>1, DequeuesFirst
        <5> QED BY <4>1, <5>2
      <4> QED BY <4>2, <4>3
    <3>3. CASE CloseMailbox(a)
      BY <3>1, <3>3 DEF CloseMailbox
    <3>4. CASE Deregister(a)
      <4>1. PICK b \in watched[a] :
              /\ watched' = [watched EXCEPT ![a] = @ \ {b}]
              /\ registry' = Deregistered(a, b)
        BY <3>4 DEF Deregister
      <4> QED BY <2>4, <4>1
    <3>5. CASE TakeWatchers(a)
      BY <2>1, <3>5 DEF TakeWatchers
    <3>6. CASE Signal(a)
      BY <2>1, <3>6 DEF Signal
    <3> QED BY <2>6, <3>1, <3>2, <3>3, <3>4, <3>5, <3>6, RunLoopSteps
  <2> QED
    BY <2>1, <2>2, <2>3, <2>5, <2>6 DEF Next, Tell, Spawn, vars
<1> QED BY <1>1, <1>2, TypeCorrect, Registrations, SignalsCome, PTL DEF Spec

\* The sink of the actor system stays in the root's registry until the root
\* takes its watchers, and fires then, or at once if it comes too late
\* (actor_system.rs:78-79, 109-115).
THEOREM SinkStays == Spec => []SinkInv
<1>1. Init => SinkInv
  BY DEF Init, SinkInv
<1>2. TypeOK /\ RegistrationInv /\ GenerationInv /\ SinkInv /\ [Next]_vars
        => SinkInv'
  <2> SUFFICES ASSUME TypeOK, RegistrationInv, GenerationInv, SinkInv,
                      [Next]_vars
               PROVE  SinkInv'
    OBVIOUS
  <2> USE DEF watchVars, systemVars
  <2>00. /\ registry \in [Actor -> SUBSET (Actor \cup {System})]
         /\ watched \in [Actor -> SUBSET Actor]
    BY DEF TypeOK
  <2> USE <2>00
  <2>0. pc[Root] \in Signalling => pc'[Root] \in Signalling
    BY SignallingIsFinal
  <2>1. ASSUME System \in registry[Root] => System \in registry'[Root],
               UNCHANGED systemVars
        PROVE  SinkInv'
    BY <2>0, <2>1 DEF SinkInv
  <2>2. CASE RegisterRoot
    <3>1. CASE Root \in registering
      BY <2>0, <2>2, <3>1 DEF RegisterRoot, RootRegistryWithSink, SinkInv
    <3>2. CASE Root \notin registering
      <4>1. pc[Root] \in Signalling
        BY <3>2 DEF RegistrationInv, GenerationInv, Parentage
      <4> QED BY <2>0, <4>1 DEF SinkInv
    <3> QED BY <3>1, <3>2
  <2>3. ASSUME NEW a \in Actor, NEW b \in Actor, Watch(a, b) PROVE SinkInv'
    <3>1. System \in registry[Root] => System \in registry'[Root]
      BY <2>3, WatchRegisters
    <3> QED BY <2>1, <2>3, <3>1 DEF Watch
  <2>4. ASSUME NEW a \in Actor, NEW b \in Actor, registry' = Deregistered(a, b),
               UNCHANGED systemVars
        PROVE  SinkInv'
    BY <2>1, <2>4 DEF Deregistered
  <2>5. ASSUME NEW a \in Actor, NEW b \in Actor, Unwatch(a, b) PROVE SinkInv'
    BY <2>4, <2>5 DEF Unwatch
  <2>6. ASSUME NEW a \in Actor, RunLoop(a) PROVE SinkInv'
    <3>1. CASE UNCHANGED <<watchVars, systemVars>>
      BY <2>1, <3>1
    <3>2. CASE Dequeue(a)
      BY <2>1, <3>2 DEF Dequeue
    <3>3. CASE CloseMailbox(a)
      BY <2>1, <3>3 DEF CloseMailbox
    <3>4. CASE Deregister(a)
      <4>1. PICK b \in watched[a] : registry' = Deregistered(a, b)
        BY <3>4 DEF Deregister
      <4> QED BY <2>4, <3>4, <4>1 DEF Deregister
    <3>5. CASE TakeWatchers(a)
      <4>1. CASE a = Root
        BY <2>0, <3>5, <4>1, TakePhases DEF SinkInv
      <4>2. CASE a # Root
        BY <2>1, <3>5, <4>2 DEF TakeWatchers
      <4> QED BY <4>1, <4>2
    <3>6. CASE Signal(a)
      <4>1. pc[a] \in Signalling
        BY <3>6 DEF Signal, Signalling
      <4>2. PICK w \in toSignal[a] : resolved' = (resolved \/ w = System)
        BY <3>6 DEF Signal
      <4>3. w = System => pc[Root] \in Signalling
        BY <4>1, <4>2 DEF RegistrationInv
      <4>4. resolved' => pc[Root] \in Signalling
        <5>1. CASE resolved
          BY <5>1 DEF SinkInv
        <5>2. CASE ~resolved
          BY <4>2, <4>3, <5>2, Zenon
        <5> QED BY <5>1, <5>2
      <4> QED BY <2>0, <3>6, <4>4 DEF Signal, SinkInv
    <3> QED BY <2>6, <3>1, <3>2, <3>3, <3>4, <3>5, <3>6, RunLoopSteps
  <2> QED
    BY <2>1, <2>2, <2>3, <2>5, <2>6 DEF Next, Tell, Spawn, vars
<1> QED BY <1>1, <1>2, TypeCorrect, Registrations, Generations, PTL DEF Spec

\* The root is never stopped from outside (actor_system.rs:14-15, 78-79).
THEOREM RootIsItsOwn == Spec => []RootStopsItself
<1>1. SinkInv => RootStopsItself
  BY DEF SinkInv, RootStopsItself, Stopped
<1> QED BY <1>1, SinkStays, PTL

-----------------------------------------------------------------------------
(***************************************************************************)
(* No watch is lost.                                                        *)
(***************************************************************************)

\* Nobody is unspawned.
LEMMA BornStays ==
    ASSUME TypeOK, [Next]_vars, NEW x \in Actor, Born(x)
    PROVE  Born(x)'
  <1>1. CASE pc' = pc
    BY <1>1 DEF Born
  <1>2. ASSUME NEW a \in Actor, NEW c \in Actor, Spawn(a, c)
        PROVE  Born(x)'
    BY <1>2, SpawnPhases DEF Born
  <1>3. ASSUME NEW a \in Actor, RunLoop(a) PROVE Born(x)'
    <2>1. CASE TakeWatchers(a)
      BY <2>1, TakePhases DEF Born
    <2>2. CASE ~TakeWatchers(a)
      BY <1>3, <2>2, RunLoopKeepsPhases DEF SamePhases
    <2> QED BY <2>1, <2>2
  <1> QED
    BY <1>1, <1>2, <1>3 DEF Next, RegisterRoot, Tell, Watch, Unwatch, vars

\* A pair that is watched has just been, or was before.
LEMMA WatchedSteps ==
    ASSUME TypeOK, [Next]_vars, NEW x \in Actor, NEW y \in Actor,
           y \in watched'[x]
    PROVE  y \in watched[x] \/ Watch(x, y)
  <1>0. watched \in [Actor -> SUBSET Actor]
    BY DEF TypeOK
  <1>1. CASE watched' = watched
    BY <1>1
  <1>2. ASSUME NEW a \in Actor, NEW b \in Actor, Watch(a, b)
        PROVE  y \in watched[x] \/ Watch(x, y)
    <2>1. watched' = [watched EXCEPT ![a] = @ \cup {b}]
      BY <1>2 DEF Watch
    <2>2. y \in watched[x] \/ (x = a /\ y = b)
      BY <1>0, <2>1
    <2> QED BY <1>2, <2>2
  <1>3. ASSUME NEW a \in Actor, NEW b,
               watched' = [watched EXCEPT ![a] = @ \ {b}]
        PROVE  y \in watched[x]
    BY <1>0, <1>3
  <1>4. ASSUME NEW a \in Actor, RunLoop(a) PROVE y \in watched[x]
    <2>1. CASE Dequeue(a)
      <3>1. \/ watched' = watched
            \/ watched' = [watched EXCEPT ![a] = @ \ {queue[a][1].from}]
        BY <2>1, DequeuesFirst
      <3> QED BY <1>1, <1>3, <3>1, Zenon DEF Watch
    <2>2. CASE Deregister(a)
      <3>1. PICK b \in watched[a] : watched' = [watched EXCEPT ![a] = @ \ {b}]
        BY <2>2 DEF Deregister
      <3> QED BY <1>3, <3>1
    <2>3. CASE UNCHANGED watchVars
      BY <2>3 DEF watchVars
    <2>4. CASE CloseMailbox(a) \/ TakeWatchers(a) \/ Signal(a)
      <3>1. watched' = watched
        BY <2>4 DEF CloseMailbox, TakeWatchers, Signal, watchVars
      <3> QED BY <3>1
    <2> QED BY <1>4, <2>1, <2>2, <2>3, <2>4, RunLoopSteps
  <1> QED
    BY <1>1, <1>2, <1>3, <1>4
    DEF Next, RegisterRoot, Tell, Spawn, Unwatch, watchVars, vars

\* Whoever has not been spawned has no watches to lose.
THEOREM UnbornsWatch == Spec => []UnbornWatchNobody
<1>1. Init => UnbornWatchNobody
  BY DEF Init, UnbornWatchNobody
<1>2. TypeOK /\ TypeOK' /\ UnbornWatchNobody /\ [Next]_vars
        => UnbornWatchNobody'
  <2> SUFFICES ASSUME TypeOK, TypeOK', UnbornWatchNobody, [Next]_vars,
                      NEW x \in Actor, ~Born(x)', NEW y \in watched'[x]
               PROVE  FALSE
    BY DEF UnbornWatchNobody
  <2>1. y \in Actor
    BY DEF TypeOK
  <2>2. ~Born(x)
    BY BornStays
  <2>3. Watch(x, y)
    BY <2>1, <2>2, WatchedSteps DEF UnbornWatchNobody
  <2> QED BY <2>2, <2>3 DEF Watch, Turn, Born
<1> QED BY <1>1, <1>2, TypeCorrect, PTL DEF Spec

\* An old watch of an actor that can still receive is an old watch of an actor
\* that could.
LEMMA OldWatch ==
    ASSUME TypeOK, UnbornWatchNobody, [Next]_vars,
           NEW a \in Actor, NEW b \in Actor,
           a \in connected', b \in watched'[a], ~Watch(a, b)
    PROVE  a \in connected /\ b \in watched[a]
  <1>1. b \in watched[a]
    BY WatchedSteps
  <1>2. Born(a)
    BY <1>1 DEF UnbornWatchNobody
  <1>3. CASE connected' \subseteq connected
    BY <1>1, <1>3
  <1>4. ASSUME NEW p \in Actor, NEW c \in Actor, Spawn(p, c)
        PROVE  a \in connected
    <2>1. connected' = connected \cup {c}
      BY <1>4 DEF Spawn
    <2>2. a # c
      BY <1>2, <1>4, SpawnPhases
    <2> QED BY <2>1, <2>2
  <1>5. ASSUME NEW x \in Actor, RunLoop(x) PROVE connected' \subseteq connected
    <2>1. CASE UNCHANGED mailboxVars
      BY <2>1 DEF mailboxVars
    <2>2. CASE \/ Dequeue(x) \/ CloseMailbox(x) \/ Deregister(x)
               \/ TakeWatchers(x) \/ Signal(x)
      BY <2>2
      DEF Dequeue, CloseMailbox, Deregister, TakeWatchers, Signal, mailboxVars
    <2> QED BY <1>5, <2>1, <2>2, RunLoopSteps
  <1> QED
    BY <1>1, <1>3, <1>4, <1>5
    DEF Next, RegisterRoot, Tell, Watch, Unwatch, mailboxVars, vars

\* A watcher stays registered until the registry is taken, which sets it aside,
\* or until it gives up the watch itself.
LEMMA RegisteredStays ==
    ASSUME TypeOK, RegistrationInv, [Next]_vars,
           NEW a \in Actor, NEW b \in Actor,
           pc[b] \notin Signalling, a \in registry[b], b \in watched'[a]
    PROVE  \/ pc'[b] \notin Signalling /\ a \in registry'[b]
           \/ a \in toSignal'[b]
  <1>0. /\ registry \in [Actor -> SUBSET (Actor \cup {System})]
        /\ toSignal \in [Actor -> SUBSET (Actor \cup {System})]
        /\ watched \in [Actor -> SUBSET Actor]
        /\ Born(b)
    BY DEF TypeOK, RegistrationInv
  <1>1. CASE UNCHANGED <<pc, registry>>
    BY <1>1
  <1>2. CASE RegisterRoot
    <2>1. pc' = pc /\ a \in registry'[b]
      BY <1>0, <1>2 DEF RegisterRoot, RootRegistryWithSink
    <2> QED BY <2>1
  <1>3. ASSUME NEW p \in Actor, NEW c \in Actor, Spawn(p, c)
        PROVE  pc'[b] \notin Signalling /\ a \in registry'[b]
    <2>1. pc'[b] = pc[b]
      BY <1>0, <1>3, SpawnPhases
    <2> QED BY <1>3, <2>1 DEF Spawn
  <1>4. ASSUME NEW x \in Actor, NEW y \in Actor, Watch(x, y)
        PROVE  pc'[b] \notin Signalling /\ a \in registry'[b]
    <2>1. a \in registry'[b]
      BY <1>4, WatchRegisters
    <2> QED BY <1>4, <2>1 DEF Watch
  <1>5. ASSUME NEW x \in Actor, NEW y, registry' = Deregistered(x, y),
               watched' = [watched EXCEPT ![x] = @ \ {y}]
        PROVE  a \in registry'[b]
    BY <1>0, <1>5 DEF Deregistered
  <1>6. ASSUME NEW x \in Actor, NEW y \in Actor, Unwatch(x, y)
        PROVE  pc'[b] \notin Signalling /\ a \in registry'[b]
    BY <1>5, <1>6 DEF Unwatch
  <1>7. ASSUME NEW x \in Actor, RunLoop(x)
        PROVE  \/ pc'[b] \notin Signalling /\ a \in registry'[b]
               \/ a \in toSignal'[b]
    <2>1. CASE TakeWatchers(x)
      <3>1. CASE x = b
        BY <1>0, <2>1, <3>1 DEF TakeWatchers
      <3>2. CASE x # b
        BY <1>0, <2>1, <3>2, TakePhases DEF TakeWatchers
      <3> QED BY <3>1, <3>2
    <2>2. CASE ~TakeWatchers(x)
      <3>1. pc'[b] \notin Signalling
        BY <1>7, <2>2, RunLoopKeepsPhases DEF SamePhases
      <3>2. CASE Deregister(x)
        <4>1. PICK y \in watched[x] :
                /\ watched' = [watched EXCEPT ![x] = @ \ {y}]
                /\ registry' = Deregistered(x, y)
          BY <3>2 DEF Deregister
        <4> QED BY <1>5, <3>1, <4>1
      <3>3. CASE registry' = registry
        BY <3>1, <3>3
      <3>4. CASE Dequeue(x) \/ CloseMailbox(x) \/ Signal(x)
        <4>1. registry' = registry
          BY <3>4 DEF Dequeue, CloseMailbox, Signal, watchVars
        <4> QED BY <3>3, <4>1
      <3> QED
        BY <1>7, <2>2, <3>2, <3>3, <3>4, RunLoopSteps DEF watchVars
    <2> QED BY <2>1, <2>2
  <1> QED
    BY <1>1, <1>2, <1>3, <1>4, <1>6, <1>7
    DEF Next, Tell, watchVars, vars

\* A watcher set aside stays so until it is signalled.
LEMMA SetAsideStays ==
    ASSUME TypeOK, RegistrationInv, [Next]_vars,
           NEW a \in Actor, NEW b \in Actor,
           a \in toSignal[b], a \in connected
    PROVE  \/ a \in toSignal'[b]
           \/ queue'[a] = Append(queue[a], Terminated(b))
  <1>0. /\ toSignal \in [Actor -> SUBSET (Actor \cup {System})]
        /\ queue \in [Actor -> Seq(Incoming)]
        /\ pc[b] \in Signalling
    BY DEF TypeOK, RegistrationInv
  <1>1. CASE toSignal' = toSignal
    BY <1>1
  <1>2. ASSUME NEW x \in Actor, RunLoop(x)
        PROVE  \/ a \in toSignal'[b]
               \/ queue'[a] = Append(queue[a], Terminated(b))
    <2>1. CASE TakeWatchers(x)
      <3>1. x # b
        BY <1>0, <2>1, TakePhases
      <3> QED BY <1>0, <2>1, <3>1 DEF TakeWatchers
    <2>2. CASE Signal(x)
      <3>1. PICK w \in toSignal[x] :
              /\ toSignal' = [toSignal EXCEPT ![x] = @ \ {w}]
              /\ w \in connected =>
                   queue' = [queue EXCEPT ![w] = Append(@, Terminated(x))]
        BY <2>2 DEF Signal
      <3>2. CASE x = b /\ w = a
        BY <1>0, <3>1, <3>2
      <3>3. CASE ~(x = b /\ w = a)
        BY <1>0, <3>1, <3>3
      <3> QED BY <3>2, <3>3
    <2>3. CASE Dequeue(x) \/ CloseMailbox(x) \/ Deregister(x)
      BY <1>1, <2>3 DEF Dequeue, CloseMailbox, Deregister, watchVars
    <2>4. CASE UNCHANGED watchVars
      BY <1>1, <2>4 DEF watchVars
    <2> QED BY <1>2, <2>1, <2>2, <2>3, <2>4, RunLoopSteps
  <1> QED
    BY <1>1, <1>2
    DEF Next, RegisterRoot, Tell, Spawn, Watch, Unwatch, watchVars, vars

\* A signal stays in the mailbox until it ends the watch, or with the mailbox.
LEMMA SignalStays ==
    ASSUME TypeOK, RegistrationInv, [Next]_vars,
           NEW a \in Actor, NEW b \in Actor,
           a \in connected', b \in watched'[a],
           NEW i \in DOMAIN queue[a], queue[a][i] = Terminated(b)
    PROVE  \E j \in DOMAIN queue'[a] : queue'[a][j] = Terminated(b)
  <1>0. /\ queue[a] \in Seq(Incoming)
        /\ watched \in [Actor -> SUBSET Actor]
    BY DEF TypeOK
  <1>1. CASE Kept(a)
    BY <1>1 DEF Kept
  <1>2. CASE Received(a)
    <2>1. i # 1
      <3>1. SUFFICES ASSUME i = 1 PROVE FALSE
        OBVIOUS
      <3>2. watched' = [watched EXCEPT ![a] = @ \ {b}]
        BY <1>2, <3>1, DequeuesFirst DEF Received, Terminated
      <3> QED BY <1>0, <3>2
    <2>2. i - 1 \in DOMAIN queue'[a] /\ queue'[a][i - 1] = queue[a][i]
      BY <1>0, <1>2, <2>1 DEF Received
    <2> QED BY <2>2
  <1>3. ASSUME NEW m, queue'[a] = Append(queue[a], m)
        PROVE  i \in DOMAIN queue'[a] /\ queue'[a][i] = queue[a][i]
    BY <1>0, <1>3
  <1> QED
    BY <1>1, <1>2, <1>3, MailboxSteps DEF Closed, SentBy, SignalledBy

\* However watch, unwatch and the end of the watched actor interleave, a watcher
\* that can still receive is registered, or set aside, or signalled
\* (actor_context.rs:102-120, mailbox.rs:105-114).
THEOREM NoWatchIsLost == Spec => []NoLostWatch
<1>1. Init => NoLostWatch
  BY DEF Init, NoLostWatch
<1>2. TypeOK /\ RegistrationInv /\ UnbornWatchNobody /\ NoLostWatch /\ [Next]_vars
        => NoLostWatch'
  <2> SUFFICES ASSUME TypeOK, RegistrationInv, UnbornWatchNobody, NoLostWatch,
                      [Next]_vars, NEW a \in Actor, NEW b \in Actor,
                      a \in connected', b \in watched'[a]
               PROVE  \/ pc'[b] \notin Signalling /\ a \in registry'[b]
                      \/ a \in toSignal'[b]
                      \/ \E i \in DOMAIN queue'[a] :
                            queue'[a][i] = Terminated(b)
    BY DEF NoLostWatch
  <2>0. /\ queue \in [Actor -> Seq(Incoming)]
        /\ registry \in [Actor -> SUBSET (Actor \cup {System})]
    BY DEF TypeOK
  <2>1. ASSUME queue'[a] = Append(queue[a], Terminated(b))
        PROVE  \E i \in DOMAIN queue'[a] : queue'[a][i] = Terminated(b)
    <3>1. /\ Len(queue[a]) + 1 \in DOMAIN queue'[a]
          /\ queue'[a][Len(queue[a]) + 1] = Terminated(b)
      BY <2>0, <2>1
    <3> QED BY <3>1
  <2>2. CASE Watch(a, b)
    <3>1. CASE b \in registering
      <4>1. registry' = [registry EXCEPT ![b] = @ \cup {a}] /\ pc' = pc
        BY <2>2, <3>1, Zenon DEF Watch, Registers
      <4>2. pc[b] \notin Signalling
        BY <3>1 DEF RegistrationInv
      <4> QED BY <2>0, <4>1, <4>2
    <3>2. CASE b \notin registering
      <4>1. queue' = [queue EXCEPT ![a] = Append(queue[a], Terminated(b))]
        BY <2>2, <3>2, Zenon DEF Watch, Registers, SelfSignalled
      <4> QED BY <2>0, <2>1, <4>1
    <3> QED BY <3>1, <3>2
  <2>3. CASE ~Watch(a, b)
    <3>1. a \in connected /\ b \in watched[a]
      BY <2>3, OldWatch
    <3>2. CASE pc[b] \notin Signalling /\ a \in registry[b]
      BY <3>2, RegisteredStays
    <3>3. CASE a \in toSignal[b]
      BY <2>1, <3>1, <3>3, SetAsideStays
    <3>4. CASE \E i \in DOMAIN queue[a] : queue[a][i] = Terminated(b)
      BY <3>4, SignalStays
    <3> QED BY <3>1, <3>2, <3>3, <3>4 DEF NoLostWatch
  <2> QED BY <2>2, <2>3
<1> QED BY <1>1, <1>2, TypeCorrect, Registrations, UnbornsWatch, PTL DEF Spec

-----------------------------------------------------------------------------
(***************************************************************************)
(* The system resolves last.                                                *)
(***************************************************************************)

\* The spawned actors form a tree below the root: no set of others is closed
\* under parents.  It stands for an induction on the depth of the tree.
Rooted ==
    \A S \in SUBSET (Actor \ {Root}) :
        (S # {} /\ \A c \in S : Born(c)) => \E c \in S : parent[c] \notin S

\* A spawn adds a leaf to the tree.
LEMMA SpawnAddsLeaf ==
    ASSUME TypeOK, Parentage, Rooted, NEW a \in Actor, NEW c \in Actor,
           Spawn(a, c)
    PROVE  Rooted'
  <1> SUFFICES ASSUME NEW S \in SUBSET (Actor \ {Root}), S # {},
                      \A x \in S : Born(x)'
               PROVE  \E x \in S : parent'[x] \notin S
    BY DEF Rooted
  <1>0. \A x \in Actor : parent'[x] = IF x = c THEN a ELSE parent[x]
    BY DEF Spawn, TypeOK
  <1>1. \A x \in S \ {c} : Born(x)
    BY SpawnPhases DEF Born
  <1>2. CASE c \in S /\ a \notin S
    BY <1>0, <1>2
  <1>3. CASE c \in S => a \in S
    <2>1. S \ {c} # {}
      BY <1>3, SpawnPhases
    <2>2. PICK x \in S \ {c} : parent[x] \notin S \ {c}
      <3>1. S \ {c} \in SUBSET (Actor \ {Root})
        OBVIOUS
      <3> QED BY <1>1, <2>1, <3>1 DEF Rooted
    <2>3. parent[x] # c
      BY <1>1, SpawnPhases DEF Parentage
    <2> QED BY <1>0, <2>2, <2>3
  <1> QED BY <1>2, <1>3

THEOREM TreeHasOneRoot == Spec => []Rooted
<1>1. Init => Rooted
  BY DEF Init, Rooted, Born
<1>2. TypeOK /\ GenerationInv /\ Rooted /\ [Next]_vars => Rooted'
  <2> SUFFICES ASSUME TypeOK, GenerationInv, Rooted, [Next]_vars
               PROVE  Rooted'
    OBVIOUS
  <2>1. ASSUME parent' = parent, \A x \in Actor : Born(x)' => Born(x)
        PROVE  Rooted'
    BY <2>1 DEF Rooted
  <2>2. CASE UNCHANGED <<pc, parent>>
    BY <2>1, <2>2 DEF Born
  <2>3. ASSUME NEW a \in Actor, NEW c \in Actor, Spawn(a, c) PROVE Rooted'
    BY <2>3, SpawnAddsLeaf DEF GenerationInv
  <2>4. ASSUME NEW a \in Actor, RunLoop(a) PROVE Rooted'
    <3>1. parent' = parent
      BY <2>4, Zenon
      DEF RunLoop, RunInit, PollStop, Park, Dequeue, RunReceive, Supervise,
          StopChildren, RestartClosed, Backoff, DropState, CloseMailbox,
          DropQueued, Deregister, AwaitChildren, TakeWatchers, Signal, Finish,
          Go
    <3>2. \A x \in Actor : Born(x)' => Born(x)
      <4>1. CASE TakeWatchers(a)
        BY <4>1, TakePhases DEF Born
      <4>2. CASE ~TakeWatchers(a)
        BY <2>4, <4>2, RunLoopKeepsPhases DEF SamePhases
      <4> QED BY <4>1, <4>2
    <3> QED BY <2>1, <3>1, <3>2
  <2> QED
    BY <2>2, <2>3, <2>4 DEF Next, RegisterRoot, Tell, Watch, Unwatch, vars
<1> QED BY <1>1, <1>2, TypeCorrect, Generations, PTL DEF Spec

\* ActorSystem::terminated resolves only when every actor has terminated
\* (actor_system.rs:63).
THEOREM ResolvedLast == Spec => []ResolvedMeansTerminated
<1>1. TypeOK /\ GenerationInv /\ SinkInv /\ Rooted => ResolvedMeansTerminated
  <2> SUFFICES ASSUME TypeOK, GenerationInv, SinkInv, Rooted, resolved
               PROVE  /\ pc[Root] \in Signalling
                      /\ \A a \in Actor \ {Root} :
                            pc[a] \in {"unborn", "terminated"}
    BY DEF ResolvedMeansTerminated
  <2>1. pc[Root] \in Signalling
    BY DEF SinkInv
  <2> DEFINE Running == {a \in Actor \ {Root} : pc[a] \notin {"unborn", "terminated"}}
  <2>2. Running = {}
    <3>1. SUFFICES ASSUME Running # {} PROVE FALSE
      OBVIOUS
    <3>2. PICK c \in Running : parent[c] \notin Running
      <4>1. Running \in SUBSET (Actor \ {Root}) /\ \A x \in Running : Born(x)
        BY DEF Born
      <4> QED BY <3>1, <4>1 DEF Rooted
    <3>3. parent[c] \in Actor /\ Born(parent[c])
      BY DEF GenerationInv, Parentage, Born
    <3>4. pc[parent[c]] \in Signalling
      BY <2>1, <3>2, <3>3 DEF Signalling, Born
    <3>5. pc[c] = "terminated"
      BY <3>3, <3>4 DEF GenerationInv, BottomUp, Children
    <3> QED BY <3>5
  <2> QED BY <2>1, <2>2
<1> QED BY <1>1, TypeCorrect, Generations, SinkStays, TreeHasOneRoot, PTL

-----------------------------------------------------------------------------
(***************************************************************************)
(* Actors implements DeathWatch, and ActorTree but for its fairness.       *)
(***************************************************************************)

\* Membership in the mapped variables, pair by pair.
Owes(b, a) == a \in registry[b] \cup toSignal[b]

LEMMA OwedPairs ==
    /\ Owed \subseteq Actor \X Actor
    /\ \A a, b \in Actor : <<a, b>> \in Owed <=> Owes(b, a)
  BY DEF Owed, Owes

\* Lemmas: owed is kept, extended or reduced as the registries are.
LEMMA OwedKept ==
    ASSUME \A x, y \in Actor : Owes(y, x)' <=> Owes(y, x)
    PROVE  Owed' = Owed
  BY DEF Owed, Owes

LEMMA OwedMore ==
    ASSUME NEW a \in Actor, NEW b \in Actor,
           \A x, y \in Actor : Owes(y, x)' <=> Owes(y, x) \/ (x = a /\ y = b)
    PROVE  Owed' = Owed \cup {<<a, b>>}
  BY DEF Owed, Owes

LEMMA OwedLess ==
    ASSUME NEW a \in Actor, NEW b \in Actor,
           \A x, y \in Actor : Owes(y, x)' <=> Owes(y, x) /\ ~(x = a /\ y = b)
    PROVE  Owed' = Owed \ {<<a, b>>}
  BY DEF Owed, Owes

\* Lemma: what keeps the phases keeps who is spawned and who is silent.
LEMMA PhasesMapped ==
    ASSUME SamePhases
    PROVE  Spawned' = Spawned /\ Silent' = Silent
  BY DEF SamePhases, Spawned, Silent

-----------------------------------------------------------------------------
\* Lemmas: each operation of the actors, as the operation of the promise it is.
LEMMA RootIsNobodysWatch ==
    ASSUME TypeOK, RegisterRoot
    PROVE  UNCHANGED Promise!vars
  <1>1. SamePhases
    BY DEF RegisterRoot, SamePhases, Born
  <1>2. \A y \in Actor :
          \/ registry'[y] = registry[y]
          \/ registry'[y] = registry[y] \cup {System}
    BY DEF RegisterRoot, RootRegistryWithSink, TypeOK
  <1>3. \A x, y \in Actor : Owes(y, x)' <=> Owes(y, x)
    BY <1>2 DEF RegisterRoot, Owes
  <1> QED
    BY <1>1, <1>3, OwedKept, PhasesMapped
    DEF RegisterRoot, mailboxVars, Promise!vars

LEMMA TellMapped ==
    ASSUME TypeOK, NEW s \in Actor \cup {System}, NEW a \in Actor, Tell(s, a)
    PROVE  Promise!Tell(s, a)
  <1>1. SamePhases /\ (\A x, y \in Actor : Owes(y, x)' <=> Owes(y, x))
    BY DEF Tell, SamePhases, Born, Owes, watchVars
  <1>2. Spawned' = Spawned /\ Silent' = Silent /\ Owed' = Owed
    BY <1>1, OwedKept, PhasesMapped
  <1>3. s \in {System} \cup (Spawned \ Silent) /\ a \in Spawned
    BY DEF Tell, UserCode, Turn, Destructor, Signalling, Spawned, Silent, Born
  <1>4. queue' = Promise!Delivered(a, Promise!Message(s))
    BY DEF Tell, Message, Promise!Delivered, Promise!Message
  <1> QED
    BY <1>2, <1>3, <1>4 DEF Tell, watchVars, Promise!Tell

LEMMA SpawnMapped ==
    ASSUME TypeOK, NEW a \in Actor, NEW c \in Actor, Spawn(a, c)
    PROVE  Promise!Spawn(c)
  <1>1. \A x, y \in Actor : Owes(y, x)' <=> Owes(y, x)
    BY DEF Spawn, Owes
  <1>2. Spawned' = Spawned \cup {c} /\ c \notin Spawned /\ Silent' = Silent
    BY SpawnPhases DEF Spawned, Silent, Born
  <1> QED
    BY <1>1, <1>2, OwedKept DEF Spawn, Promise!Spawn

LEMMA WatchMapped ==
    ASSUME TypeOK, RegistrationInv,
           NEW a \in Actor, NEW b \in Actor, Watch(a, b)
    PROVE  Promise!Watch(a, b)
  <1>1. SamePhases
    BY DEF Watch, SamePhases, Born
  <1>2. a \in Spawned \ Silent /\ b \in Spawned
    BY DEF Watch, Turn, Signalling, Spawned, Silent, Born
  <1>3. Registers(b) <=> b \notin Silent
    BY DEF RegistrationInv, Registers, Silent, Watch
  <1>4. CASE Registers(b)
    <2>1. registry' = [registry EXCEPT ![b] = @ \cup {a}] /\ queue' = queue
      BY <1>4 DEF Watch
    <2>2. \A x, y \in Actor :
            Owes(y, x)' <=> Owes(y, x) \/ (x = a /\ y = b)
      BY <2>1 DEF Watch, Owes, TypeOK
    <2>3. Owed' = Owed \cup {<<a, b>>}
      BY <2>2, OwedMore
    <2> QED
      BY <1>1, <1>2, <1>3, <1>4, <2>1, <2>3, PhasesMapped
      DEF Watch, Promise!Watch
  <1>5. CASE ~Registers(b)
    <2>1. queue' = [queue EXCEPT ![a] = Append(@, Terminated(b))]
          /\ registry' = registry
      BY <1>5 DEF Watch, SelfSignalled, TypeOK
    <2>2. \A x, y \in Actor : Owes(y, x)' <=> Owes(y, x)
      BY <2>1 DEF Watch, Owes
    <2> QED
      BY <1>1, <1>2, <1>3, <1>5, <2>1, <2>2, OwedKept, PhasesMapped
      DEF Watch, Promise!Watch, Terminated, Promise!Terminated
  <1> QED BY <1>4, <1>5

\* Lemma: an actor that signals has nobody left in its registry, any other has
\* nobody set aside.
LEMMA OneOrTheOther ==
    ASSUME RegistrationInv, NEW b \in Actor
    PROVE  IF b \in Silent THEN registry[b] = {} ELSE toSignal[b] = {}
  BY DEF RegistrationInv, Silent

LEMMA DeregisterMapped ==
    ASSUME TypeOK, RegistrationInv, NEW a \in Actor, NEW b \in watched[a],
           watched' = [watched EXCEPT ![a] = @ \ {b}],
           registry' = Deregistered(a, b),
           UNCHANGED <<pc, mailboxVars, toSignal>>
    PROVE  Promise!Unwatch(a, b)
  <1>1. b \in Actor
    BY DEF TypeOK
  <1>2. SamePhases
    BY DEF SamePhases, Born
  <1>3. registry'[b] = registry[b] \ {a}
        /\ \A y \in Actor : y # b => registry'[y] = registry[y]
    BY <1>1 DEF Deregistered, TypeOK
  <1>4. CASE b \in Silent
    <2>1. \A x, y \in Actor : Owes(y, x)' <=> Owes(y, x)
      BY <1>1, <1>3, <1>4, OneOrTheOther DEF Owes
    <2> QED
      BY <1>2, <1>4, <2>1, OwedKept, PhasesMapped
      DEF Promise!Unwatch, mailboxVars
  <1>5. CASE b \notin Silent
    <2>1. \A x, y \in Actor :
            Owes(y, x)' <=> Owes(y, x) /\ ~(x = a /\ y = b)
      BY <1>1, <1>3, <1>5, OneOrTheOther DEF Owes
    <2>2. Owed' = Owed \ {<<a, b>>}
      BY <1>1, <2>1, OwedLess
    <2> QED
      BY <1>2, <1>5, <2>2, PhasesMapped DEF Promise!Unwatch, mailboxVars
  <1> QED BY <1>4, <1>5

LEMMA DequeueMapped ==
    ASSUME TypeOK, NEW a \in Actor, Dequeue(a)
    PROVE  Promise!Receive(a)
  <1>1. RunLoop(a) /\ ~TakeWatchers(a)
    BY DEF RunLoop, Dequeue, TakeWatchers
  <1>2. SamePhases
    BY <1>1, RunLoopKeepsPhases
  <1>3. \A x, y \in Actor : Owes(y, x)' <=> Owes(y, x)
    BY DEF Dequeue, Owes
  <1>4. watched' = IF Head(queue[a]).kind = "terminated"
                   THEN [watched EXCEPT ![a] = @ \ {Head(queue[a]).from}]
                   ELSE watched
    BY DEF Dequeue
  <1> QED
    BY <1>2, <1>3, <1>4, OwedKept, PhasesMapped DEF Dequeue, Promise!Receive

LEMMA CloseMapped ==
    ASSUME TypeOK, NEW a \in Actor, CloseMailbox(a)
    PROVE  Promise!Disconnect(a)
  <1>1. RunLoop(a) /\ ~TakeWatchers(a)
    BY DEF RunLoop, CloseMailbox, TakeWatchers
  <1>2. SamePhases
    BY <1>1, RunLoopKeepsPhases
  <1>3. \A x, y \in Actor : Owes(y, x)' <=> Owes(y, x)
    BY DEF CloseMailbox, Owes, watchVars
  <1> QED
    BY <1>2, <1>3, OwedKept, PhasesMapped
    DEF CloseMailbox, Promise!Disconnect, watchVars

LEMMA TakeMapped ==
    ASSUME TypeOK, RegistrationInv, NEW a \in Actor, TakeWatchers(a)
    PROVE  Promise!FallSilent(a)
  <1>1. Spawned' = Spawned /\ a \in Spawned
    BY TakePhases DEF Spawned, Born
  <1>2. Silent' = Silent \cup {a} /\ a \notin Silent
    BY TakePhases DEF Silent
  <1>3. \A x, y \in Actor : Owes(y, x)' <=> Owes(y, x)
    BY <1>2, OneOrTheOther DEF TakeWatchers, Owes, TypeOK
  <1> QED
    BY <1>1, <1>2, <1>3, OwedKept
    DEF TakeWatchers, Promise!FallSilent, mailboxVars

LEMMA SignalMapped ==
    ASSUME TypeOK, RegistrationInv, NEW a \in Actor, Signal(a)
    PROVE  \/ \E w \in Actor : Promise!Signal(w, a)
           \/ UNCHANGED Promise!vars
  <1>1. a \in Silent /\ SamePhases
    BY DEF Signal, Silent, Signalling, SamePhases, Born
  <1>2. PICK w \in toSignal[a] :
          /\ toSignal' = [toSignal EXCEPT ![a] = @ \ {w}]
          /\ queue' = IF w \in connected
                      THEN [queue EXCEPT ![w] = Append(@, Terminated(a))]
                      ELSE queue
    BY DEF Signal
  <1>3. registry[a] = {} /\ registry' = registry
    BY <1>1, OneOrTheOther DEF Signal
  <1>4. CASE w = System
    <2>1. queue' = queue
      BY <1>2, <1>4 DEF TypeOK
    <2>2. \A x, y \in Actor : Owes(y, x)' <=> Owes(y, x)
      BY <1>2, <1>3, <1>4 DEF Owes, TypeOK
    <2> QED
      BY <1>1, <2>1, <2>2, OwedKept, PhasesMapped DEF Signal, Promise!vars
  <1>5. CASE w # System
    <2>1. w \in Actor
      BY <1>5 DEF TypeOK
    <2>2. \A x, y \in Actor :
            Owes(y, x)' <=> Owes(y, x) /\ ~(x = w /\ y = a)
      BY <1>2, <1>3, <2>1 DEF Owes, TypeOK
    <2>3. Owed' = Owed \ {<<w, a>>} /\ <<w, a>> \in Owed
      BY <2>1, <2>2, OwedLess, OwedPairs DEF Owes
    <2>4. queue' = Promise!Delivered(w, Promise!Terminated(a))
      BY <1>2 DEF Promise!Delivered, Promise!Terminated, Terminated
    <2> QED
      BY <1>1, <2>1, <2>3, <2>4, PhasesMapped DEF Signal, Promise!Signal
  <1> QED BY <1>4, <1>5

-----------------------------------------------------------------------------
\* Lemma: a step of a run loop is a step of the promise, or a stutter.
LEMMA RunLoopMapped ==
    ASSUME TypeOK, RegistrationInv, NEW a \in Actor, RunLoop(a)
    PROVE  [Promise!Next]_(Promise!vars)
  <1>1. CASE SamePhases /\ UNCHANGED <<mailboxVars, watchVars, systemVars>>
    <2>1. \A x, y \in Actor : Owes(y, x)' <=> Owes(y, x)
      BY <1>1 DEF Owes, watchVars
    <2> QED
      BY <1>1, <2>1, OwedKept, PhasesMapped
      DEF Promise!vars, mailboxVars, watchVars
  <1>2. CASE Dequeue(a)
    BY <1>2, DequeueMapped DEF Promise!Next
  <1>3. CASE CloseMailbox(a)
    BY <1>3, CloseMapped DEF Promise!Next
  <1>4. CASE Deregister(a)
    <2>1. PICK b \in watched[a] :
            /\ watched' = [watched EXCEPT ![a] = @ \ {b}]
            /\ registry' = Deregistered(a, b)
      BY <1>4 DEF Deregister
    <2>2. b \in Actor
      BY <2>1 DEF TypeOK
    <2>3. UNCHANGED <<pc, mailboxVars, toSignal>>
      BY <1>4 DEF Deregister
    <2>4. Promise!Unwatch(a, b)
      BY <2>1, <2>3, DeregisterMapped
    <2> QED BY <2>2, <2>4 DEF Promise!Next
  <1>5. CASE TakeWatchers(a)
    BY <1>5, TakeMapped DEF Promise!Next
  <1>6. CASE Signal(a)
    BY <1>6, SignalMapped DEF Promise!Next
  <1> QED BY <1>1, <1>2, <1>3, <1>4, <1>5, <1>6, RunLoopSteps

(***************************************************************************)
(* The run loops, registries and mailboxes of any number of actors keep the  *)
(* promise of the death watch (actor_context.rs:93-120, 356-391,             *)
(* mailbox.rs:84-131): every step maps to a step of DeathWatch or a stutter. *)
(***************************************************************************)
THEOREM DeathWatchKept == Spec => ImplementsDeathWatch
<1>1. Init => Promise!Init
  <2> SUFFICES ASSUME Init PROVE Promise!Init
    OBVIOUS
  <2>1. Spawned = {Root} /\ Silent = {}
    BY DEF Init, Spawned, Silent, Born, Signalling
  <2>2. Owed = {}
    BY DEF Init, Owed
  <2> QED BY <2>1, <2>2 DEF Init, Promise!Init
<1>2. TypeOK /\ RegistrationInv /\ [Next]_vars => [Promise!Next]_(Promise!vars)
  <2> SUFFICES ASSUME TypeOK, RegistrationInv, [Next]_vars
               PROVE  [Promise!Next]_(Promise!vars)
    OBVIOUS
  <2>1. CASE RegisterRoot
    BY <2>1, RootIsNobodysWatch
  <2>2. CASE \E a \in Actor : RunLoop(a)
    BY <2>2, RunLoopMapped
  <2>3. CASE \E s \in Actor \cup {System}, a \in Actor : Tell(s, a)
    <3>1. PICK s \in Actor \cup {System}, a \in Actor : Tell(s, a)
      BY <2>3
    <3>2. Promise!Tell(s, a)
      BY <3>1, TellMapped
    <3> QED BY <3>2 DEF Promise!Next
  <2>4. CASE \E a, b \in Actor : Spawn(a, b)
    BY <2>4, SpawnMapped DEF Promise!Next
  <2>5. CASE \E a, b \in Actor : Watch(a, b)
    BY <2>5, WatchMapped DEF Promise!Next
  <2>6. CASE \E a, b \in Actor : Unwatch(a, b)
    <3>1. PICK a \in Actor, b \in Actor : Unwatch(a, b)
      BY <2>6
    <3>2. Promise!Unwatch(a, b)
      <4>1. b \in watched[a] /\ UNCHANGED <<pc, mailboxVars, toSignal>>
        BY <3>1 DEF Unwatch
      <4>2. watched' = [watched EXCEPT ![a] = @ \ {b}]
            /\ registry' = Deregistered(a, b)
        BY <3>1 DEF Unwatch
      <4> QED BY <4>1, <4>2, DeregisterMapped
    <3> QED BY <3>2 DEF Promise!Next
  <2>7. CASE UNCHANGED vars
    <3>1. SamePhases /\ \A x, y \in Actor : Owes(y, x)' <=> Owes(y, x)
      BY <2>7 DEF vars, watchVars, SamePhases, Born, Owes
    <3> QED
      BY <2>7, <3>1, OwedKept, PhasesMapped
      DEF vars, mailboxVars, watchVars, Promise!vars
  <2> QED
    BY <2>1, <2>2, <2>3, <2>4, <2>5, <2>6, <2>7 DEF Next
<1> QED
  BY <1>1, <1>2, TypeCorrect, Registrations, PTL
  DEF Spec, ImplementsDeathWatch, Promise!Spec

-----------------------------------------------------------------------------
(***************************************************************************)
(* The tree.                                                                *)
(***************************************************************************)

\* The mapped variable, and the points of the run loop that each status spans
Phase == [a \in Actor |-> StatusOf(a)]

RunningPoints == Turn \cup {"select", "polled", "init_failed", "receive_failed"}

RestartingPoints == {"restart", "closing", "backoff"}

StoppingPoints == {"drop_state", "terminate", "drop_queued", "deregister",
                   "await_children", "drop_actor"}

LEMMA StatusPoints ==
    ASSUME NEW a \in Actor
    PROVE  /\ pc[a] = "unborn" => StatusOf(a) = "unborn"
           /\ pc[a] \in RunningPoints => StatusOf(a) = "running"
           /\ pc[a] \in RestartingPoints => StatusOf(a) = "restarting"
           /\ pc[a] \in StoppingPoints => StatusOf(a) = "stopping"
           /\ pc[a] \in Signalling => StatusOf(a) = "terminated"
  BY DEF StatusOf, Signalling, RunningPoints, RestartingPoints, StoppingPoints, Turn

LEMMA NextStatusPoints ==
    ASSUME NEW a \in Actor
    PROVE  /\ pc'[a] = "unborn" => StatusOf(a)' = "unborn"
           /\ pc'[a] \in RunningPoints => StatusOf(a)' = "running"
           /\ pc'[a] \in RestartingPoints => StatusOf(a)' = "restarting"
           /\ pc'[a] \in StoppingPoints => StatusOf(a)' = "stopping"
           /\ pc'[a] \in Signalling => StatusOf(a)' = "terminated"
  BY DEF StatusOf, Signalling, RunningPoints, RestartingPoints, StoppingPoints, Turn

\* Lemma: moving one task changes the status of its actor and no other.
LEMMA OneMoves ==
    ASSUME TypeOK, NEW a \in Actor, NEW label, Goto(a, label)
    PROVE  /\ Phase' = [Phase EXCEPT ![a] = StatusOf(a)'] /\ pc'[a] = label
           /\ \A x \in Actor : Phase[x] = StatusOf(x)
  <1>1. \A x \in Actor : pc'[x] = IF x = a THEN label ELSE pc[x]
    BY DEF TypeOK, Goto
  <1>2. \A x \in Actor : x # a => StatusOf(x)' = StatusOf(x)
    BY <1>1 DEF StatusOf
  <1> QED BY <1>1, <1>2 DEF Phase

\* No child has joined a channel of its parent that is not there yet.
JoinedInTime ==
    \A c \in Actor \ {Root} : Born(c) => joined[c] <= stopTx[parent[c]]

SameBorn == \A x \in Actor : Born(x)' <=> Born(x)

\* A run loop spawns nobody but through its actor's code.
LEMMA BornFramed ==
    ASSUME TypeOK, NEW a \in Actor, RunLoop(a)
    PROVE  SameBorn
  <1>1. CASE TakeWatchers(a)
    BY <1>1, TakePhases DEF Born, SameBorn
  <1>2. CASE ~TakeWatchers(a)
    BY <1>2, RunLoopKeepsPhases DEF SamePhases, SameBorn
  <1> QED BY <1>1, <1>2

LEMMA StopSent ==
    ASSUME TypeOK, GenerationInv, JoinedInTime, NEW a \in Actor, StopChildren(a),
           NEW c \in Actor \ {Root}, Born(c)
    PROVE  /\ joined'[c] <= stopTx'[parent'[c]]
           /\ joined'[c] < stopTx'[parent'[c]]
                <=> joined[c] < stopTx[parent[c]] \/ parent[c] = a
  <1>1. parent[c] \in Actor /\ parent' = parent /\ joined' = joined
    BY DEF StopChildren, GenerationInv, Parentage
  <1>2. /\ joined[c] <= stopTx[parent[c]]
        /\ joined[c] \in Nat /\ stopTx[parent[c]] \in Nat
    BY <1>1 DEF JoinedInTime, TypeOK
  <1>3. stopTx'[parent[c]] = IF parent[c] = a THEN stopTx[parent[c]] + 1
                             ELSE stopTx[parent[c]]
    BY <1>1 DEF StopChildren, TypeOK
  <1>4. \A m, n \in Nat : m <= n => m <= n + 1 /\ m < n + 1
    OBVIOUS
  <1> QED BY <1>1, <1>2, <1>3, <1>4

\* Whoever is spawned joins the current channel, and generations only grow.
LEMMA ChildrenJoinInTime == Spec => []JoinedInTime
<1>1. Init => JoinedInTime
  BY DEF Init, JoinedInTime, Born
<1>2. TypeOK /\ GenerationInv /\ JoinedInTime /\ [Next]_vars => JoinedInTime'
  <2> SUFFICES ASSUME TypeOK, GenerationInv, JoinedInTime, [Next]_vars
               PROVE  JoinedInTime'
    OBVIOUS
  <2>1. ASSUME UNCHANGED <<parent, stopVars>>, SameBorn
        PROVE  JoinedInTime'
    BY <2>1 DEF JoinedInTime, stopVars, SameBorn
  <2>2. CASE UNCHANGED <<pc, parent, stopVars>>
    BY <2>1, <2>2 DEF SameBorn, Born
  <2>3. ASSUME NEW a \in Actor, RunLoop(a) PROVE JoinedInTime'
    <3>1. CASE StopChildren(a)
      BY <2>3, <3>1, BornFramed, StopSent DEF JoinedInTime, SameBorn
    <3>2. CASE ~StopChildren(a)
      <4>1. parent' = parent /\ stopVars' = stopVars
        BY <2>3, <3>2, Zenon
        DEF RunLoop, RunInit, PollStop, Park, Dequeue, RunReceive, Supervise,
            RestartClosed, Backoff, DropState, CloseMailbox, DropQueued,
            Deregister, AwaitChildren, TakeWatchers, Signal, Finish, Go
      <4> QED BY <2>1, <2>3, <4>1, BornFramed
    <3> QED BY <3>1, <3>2
  <2>4. ASSUME NEW a \in Actor, NEW c \in Actor, Spawn(a, c) PROVE JoinedInTime'
    <3>1. /\ stopTx' = stopTx /\ ~Born(c) /\ a # c
          /\ \A x \in Actor : x # c => (Born(x)' <=> Born(x))
          /\ \A x \in Actor : parent'[x] = IF x = c THEN a ELSE parent[x]
          /\ \A x \in Actor : joined'[x] = IF x = c THEN stopTx[a] ELSE joined[x]
          /\ stopTx[a] \in Nat
      BY <2>4 DEF Spawn, ChildStopRx, Goto, Born, Turn, TypeOK, GenerationInv
    <3>2. \A n \in Nat : n <= n
      OBVIOUS
    <3> QED BY <3>1, <3>2 DEF JoinedInTime
  <2> QED
    BY <2>2, <2>3, <2>4 DEF Next, RegisterRoot, Tell, Watch, Unwatch, vars
<1> QED BY <1>1, <1>2, TypeCorrect, Generations, PTL DEF Spec

\* Nobody is told to stop by a step that replaces no channel.
LEMMA ToldMapped ==
    ASSUME UNCHANGED <<parent, stopVars>>, SameBorn
    PROVE  ToldToStop' = ToldToStop
  BY DEF ToldToStop, stopVars, SameBorn

\* Replacing the channel tells all children.
LEMMA StopChildrenInTree ==
    ASSUME TypeOK, GenerationInv, JoinedInTime, NEW a \in Actor, RunLoop(a),
           StopChildren(a)
    PROVE  Tree!TellChildren(a)
  <1>1. PICK label :
          /\ Goto(a, label)
          /\ \/ pc[a] = "restart" /\ label = "closing"
             \/ pc[a] = "deregister" /\ label = "await_children"
    BY Zenon DEF StopChildren
  <1>2. /\ Phase' = [Phase EXCEPT ![a] = StatusOf(a)'] /\ pc'[a] = label
        /\ \A x \in Actor : Phase[x] = StatusOf(x)
    BY <1>1, OneMoves
  <1>3. StatusOf(a) \in {"restarting", "stopping"} /\ StatusOf(a)' = StatusOf(a)
    BY <1>1, <1>2, StatusPoints, NextStatusPoints
    DEF RestartingPoints, StoppingPoints
  <1>4. Phase' = Phase
    BY <1>2, <1>3 DEF Phase
  <1>5. ToldToStop' = ToldToStop \cup Children(a)
    <2>1. \A c \in Children(a) : c \in Actor \ {Root} /\ Born(c)
      BY ActorsAssumption DEF Children, GenerationInv, Parentage
    <2>2. SameBorn
      BY BornFramed
    <2> QED BY <2>1, <2>2, StopSent DEF ToldToStop, Children, SameBorn
  <1>6. UNCHANGED <<parent, resolved>>
    BY DEF StopChildren, systemVars
  <1> QED
    BY <1>2, <1>3, <1>4, <1>5, <1>6
    DEF Tree!TellChildren, Tree!Children, Children, Phase

\* Lemma: what a task may do within its status, and when it may pass to another.
LEMMA TaskMoves ==
    ASSUME TypeOK, NEW a \in Actor, NEW label, Goto(a, label),
           UNCHANGED <<parent, stopVars, resolved>>,
           \/ pc[a] \in RunningPoints
                /\ label \in RunningPoints \cup RestartingPoints \cup StoppingPoints
           \/ pc[a] \in RestartingPoints
                /\ label \in RestartingPoints \cup StoppingPoints
           \/ pc[a] \in RestartingPoints /\ label \in RunningPoints /\ ~Stopped(a)
                /\ \A c \in Children(a) : pc[c] = "terminated"
           \/ pc[a] \in StoppingPoints /\ label \in StoppingPoints
           \/ pc[a] \in StoppingPoints /\ label \in Signalling
                /\ \A c \in Children(a) : pc[c] = "terminated"
           \/ pc[a] \in Signalling /\ label \in Signalling
    PROVE  [Tree!Next]_(Tree!vars)
  <1>1. /\ Phase' = [Phase EXCEPT ![a] = StatusOf(a)'] /\ pc'[a] = label
        /\ \A x \in Actor : Phase[x] = StatusOf(x)
    BY OneMoves
  <1>0. ToldToStop' = ToldToStop
    <2>1. pc[a] # "unborn" /\ label # "unborn"
      BY DEF RunningPoints, RestartingPoints, StoppingPoints, Signalling, Turn
    <2>2. SameBorn
      BY <2>1 DEF Goto, SameBorn, Born, TypeOK
    <2> QED BY <2>2, ToldMapped
  <1>2. CASE StatusOf(a)' = StatusOf(a)
    <2>1. Phase' = Phase
      BY <1>1, <1>2 DEF Phase
    <2> QED BY <1>0, <2>1 DEF Tree!vars, Phase
  <1>3. CASE /\ pc[a] \in RunningPoints \cup RestartingPoints
             /\ label \in StoppingPoints
    <2>1. StatusOf(a) \in {"running", "restarting"} /\ StatusOf(a)' = "stopping"
      BY <1>1, <1>3, StatusPoints, NextStatusPoints
    <2>2. Tree!Stop(a)
      BY <1>0, <1>1, <2>1 DEF Tree!Stop, Tree!Become, Phase
    <2> QED BY <2>2 DEF Tree!Next
  <1>4. CASE pc[a] \in RunningPoints /\ label \in RestartingPoints
    <2>1. StatusOf(a) = "running" /\ StatusOf(a)' = "restarting"
      BY <1>1, <1>4, StatusPoints, NextStatusPoints
    <2>2. Tree!Fail(a)
      BY <1>0, <1>1, <2>1 DEF Tree!Fail, Tree!Become, Phase
    <2> QED BY <2>2 DEF Tree!Next
  <1>5. ASSUME \A c \in Children(a) : pc[c] = "terminated"
        PROVE  Tree!ChildrenTerminated(a)
    BY <1>5, StatusPoints
    DEF Tree!ChildrenTerminated, Tree!Children, Children, Signalling
  <1>6. CASE /\ pc[a] \in RestartingPoints /\ label \in RunningPoints
             /\ ~Stopped(a)
             /\ \A c \in Children(a) : pc[c] = "terminated"
    <2>1. StatusOf(a) = "restarting" /\ StatusOf(a)' = "running"
      BY <1>1, <1>6, StatusPoints, NextStatusPoints
    <2>2. a \notin ToldToStop
      BY <1>6 DEF ToldToStop, Stopped
    <2>3. Tree!Restart(a)
      BY <1>0, <1>1, <1>5, <1>6, <2>1, <2>2 DEF Tree!Restart, Tree!Become, Phase
    <2> QED BY <2>3 DEF Tree!Next
  <1>7. CASE /\ pc[a] \in StoppingPoints /\ label \in Signalling
             /\ \A c \in Children(a) : pc[c] = "terminated"
    <2>1. StatusOf(a) = "stopping" /\ StatusOf(a)' = "terminated"
      BY <1>1, <1>7, StatusPoints, NextStatusPoints
    <2>2. Tree!Terminate(a)
      BY <1>0, <1>1, <1>5, <1>7, <2>1 DEF Tree!Terminate, Tree!Become, Phase
    <2> QED BY <2>2 DEF Tree!Next
  <1>8. CASE \/ pc[a] \in RunningPoints /\ label \in RunningPoints
             \/ pc[a] \in RestartingPoints /\ label \in RestartingPoints
             \/ pc[a] \in StoppingPoints /\ label \in StoppingPoints
             \/ pc[a] \in Signalling /\ label \in Signalling
    BY <1>1, <1>2, <1>8, StatusPoints, NextStatusPoints
  <1> QED BY <1>3, <1>4, <1>6, <1>7, <1>8

\* Lemma: each step of a run loop is a step of the tree, or a stutter.
LEMMA RunLoopInTree ==
    ASSUME TypeOK, GenerationInv, RegistrationInv, JoinedInTime, NEW a \in Actor,
           RunLoop(a)
    PROVE  [Tree!Next]_(Tree!vars)
  <1> USE TaskMoves DEF Go, systemVars
  <1>0. /\ {"init", "select", "polled", "receive", "init_failed",
            "receive_failed"} \subseteq RunningPoints
        /\ {"restart", "closing", "backoff"} \subseteq RestartingPoints
        /\ {"drop_state", "terminate", "drop_queued", "deregister",
            "await_children", "drop_actor"} \subseteq StoppingPoints
        /\ {"signal", "terminated"} \subseteq Signalling
    BY DEF RunningPoints, RestartingPoints, StoppingPoints, Turn, Signalling
  <1> USE <1>0
  <1>1. CASE RunInit(a)
    <2>1. PICK label \in {"select", "init_failed"} : Goto(a, label)
      BY <1>1, Zenon DEF RunInit, Fail
    <2> QED BY <1>1, <2>1 DEF RunInit
  <1>2. CASE PollStop(a)
    BY <1>2 DEF PollStop
  <1>3. CASE Park(a)
    BY <1>3 DEF Park
  <1>4. CASE Dequeue(a)
    <2>1. PICK label \in {"receive", "select"} : Goto(a, label)
      BY <1>4, Zenon DEF Dequeue
    <2> QED BY <1>4, <2>1 DEF Dequeue
  <1>5. CASE RunReceive(a)
    <2>1. PICK label \in {"select", "terminate", "receive_failed"} :
            Goto(a, label)
      BY <1>5, Zenon DEF RunReceive, Fail
    <2> QED BY <1>5, <2>1 DEF RunReceive
  <1>6. CASE Supervise(a)
    <2>1. PICK label \in {"restart", "terminate"} : Goto(a, label)
      BY <1>6, Zenon DEF Supervise
    <2> QED BY <1>6, <2>1 DEF Supervise
  <1>7. CASE StopChildren(a)
    BY <1>7, StopChildrenInTree DEF Tree!Next
  <1>8. CASE RestartClosed(a)
    <2>1. \A c \in Children(a) : pc[c] = "terminated"
      BY <1>8, NobodyLeft DEF RestartClosed, Awaiting
    <2> QED BY <1>8, <2>1 DEF RestartClosed, NextLife
  <1>9. CASE Backoff(a)
    <2>1. \A c \in Children(a) : pc[c] = "terminated"
      BY <1>9 DEF Backoff, GenerationInv, BottomUp
    <2> QED BY <1>9, <2>1 DEF Backoff, NextLife
  <1>10. CASE DropState(a)
    BY <1>10 DEF DropState
  <1>11. CASE CloseMailbox(a)
    <2>1. PICK label \in {"drop_queued", "deregister"} : Goto(a, label)
      BY <1>11, Zenon DEF CloseMailbox
    <2> QED BY <1>11, <2>1 DEF CloseMailbox
  <1>12. CASE DropQueued(a)
    BY <1>12 DEF DropQueued
  <1>13. CASE Deregister(a)
    BY <1>13, ToldMapped DEF Deregister, SameBorn, Born, Tree!vars, StatusOf
  <1>14. CASE AwaitChildren(a)
    BY <1>14 DEF AwaitChildren
  <1>15. CASE TakeWatchers(a)
    <2>1. \A c \in Children(a) : pc[c] = "terminated"
      BY <1>15 DEF TakeWatchers, GenerationInv, BottomUp
    <2> QED BY <1>15, <2>1 DEF TakeWatchers
  <1>16. CASE Signal(a)
    <2>1. PICK w \in toSignal[a] : resolved' = (resolved \/ w = System)
      BY <1>16 DEF Signal
    <2>2. UNCHANGED <<pc, parent, ToldToStop>> /\ pc[a] \in Signalling
      BY <1>16, ToldMapped DEF Signal, SameBorn, Born
    <2>3. CASE w = System
      <3>1. a = Root
        BY <2>3 DEF RegistrationInv
      <3>2. StatusOf(Root) = "terminated"
        BY <2>2, <3>1, StatusPoints
      <3>3. resolved' = TRUE
        BY <2>1, <2>3, Zenon
      <3>4. UNCHANGED <<[x \in Actor |-> StatusOf(x)], parent, ToldToStop>>
        BY <2>2 DEF StatusOf
      <3>5. Tree!Resolve
        BY <3>2, <3>3, <3>4 DEF Tree!Resolve
      <3> QED BY <3>5 DEF Tree!Next
    <2>4. CASE w # System
      <3>1. resolved' = resolved
        BY <2>1, <2>4 DEF TypeOK
      <3> QED BY <2>2, <3>1 DEF Tree!vars, StatusOf
    <2> QED BY <2>3, <2>4
  <1>17. CASE Finish(a)
    BY <1>17 DEF Finish
  <1> QED
    BY <1>1, <1>2, <1>3, <1>4, <1>5, <1>6, <1>7, <1>8, <1>9, <1>10, <1>11,
       <1>12, <1>13, <1>14, <1>15, <1>16, <1>17 DEF RunLoop

(***************************************************************************)
(* The run loops of any number of actors are a tree that stops and restarts  *)
(* bottom-up (actor_context.rs:154-391, actor_system.rs:94-118): the safety   *)
(* part of ImplementsTree.                                                   *)
(***************************************************************************)
THEOREM TreeKept == Spec => Tree!Spec
<1>1. Init => Tree!Init
  <2> SUFFICES ASSUME Init PROVE Tree!Init
    OBVIOUS
  <2>1. \A a \in Actor :
          StatusOf(a) = IF a = Root THEN "running" ELSE "unborn"
    BY StatusPoints DEF Init, RunningPoints, Turn
  <2>2. ToldToStop = {}
    BY DEF Init, ToldToStop, Born
  <2> QED BY <2>1, <2>2 DEF Init, Tree!Init
<1>2. TypeOK /\ GenerationInv /\ RegistrationInv /\ JoinedInTime /\ [Next]_vars
        => [Tree!Next]_(Tree!vars)
  <2> SUFFICES ASSUME TypeOK, GenerationInv, RegistrationInv, JoinedInTime,
                      [Next]_vars
               PROVE  [Tree!Next]_(Tree!vars)
    OBVIOUS
  <2>1. CASE RegisterRoot
    <3>0. ToldToStop' = ToldToStop
      BY <2>1, ToldMapped DEF RegisterRoot, SameBorn, Born
    <3>1. CASE Root \in registering
      BY <2>1, <3>0, <3>1 DEF RegisterRoot, Tree!vars, StatusOf
    <3>2. CASE Root \notin registering
      <4>1. pc[Root] \in Signalling
        BY <3>2 DEF RegistrationInv, GenerationInv, Parentage
      <4>2. Tree!Resolve
        BY <2>1, <3>0, <3>2, <4>1, StatusPoints
        DEF RegisterRoot, SinkFired, Tree!Resolve, StatusOf
      <4> QED BY <4>2 DEF Tree!Next
    <3> QED BY <3>1, <3>2
  <2>2. CASE \E a \in Actor : RunLoop(a)
    BY <2>2, RunLoopInTree
  <2>3. CASE \E a, c \in Actor : Spawn(a, c)
    <3>1. PICK a \in Actor, c \in Actor : Spawn(a, c)
      BY <2>3
    <3>2. /\ Phase' = [Phase EXCEPT ![c] = StatusOf(c)'] /\ pc'[c] = "init"
          /\ \A x \in Actor : Phase[x] = StatusOf(x)
      BY <3>1, OneMoves DEF Spawn
    <3>3. /\ StatusOf(a) = "running" /\ StatusOf(c) = "unborn"
          /\ StatusOf(c)' = "running"
      BY <3>1, <3>2, StatusPoints, NextStatusPoints DEF Spawn, RunningPoints, Turn
    <3>4. ToldToStop' = ToldToStop
      <4>1. /\ stopTx' = stopTx /\ ~Born(c) /\ Born(a) /\ a # c
            /\ \A x \in Actor : x # c => (Born(x)' <=> Born(x))
            /\ \A x \in Actor : parent'[x] = IF x = c THEN a ELSE parent[x]
            /\ \A x \in Actor : joined'[x] = IF x = c THEN stopTx[a] ELSE joined[x]
            /\ stopTx[a] \in Nat
        BY <3>1 DEF Spawn, ChildStopRx, Goto, Born, Turn, TypeOK, GenerationInv
      <4>2. \A n \in Nat : ~(n < n)
        OBVIOUS
      <4> QED BY <4>1, <4>2 DEF ToldToStop
    <3>5. Tree!Spawn(a, c)
      BY <3>1, <3>2, <3>3, <3>4 DEF Spawn, systemVars, Tree!Spawn, Phase
    <3> QED BY <3>5 DEF Tree!Next
  <2>4. CASE \/ \E s \in Actor \cup {System}, a \in Actor : Tell(s, a)
             \/ \E a, b \in Actor : Watch(a, b) \/ Unwatch(a, b)
             \/ UNCHANGED vars
    <3>1. UNCHANGED <<pc, parent, stopVars, resolved>>
      BY <2>4 DEF Tell, Watch, Unwatch, systemVars, vars
    <3>2. ToldToStop' = ToldToStop
      BY <3>1, ToldMapped DEF SameBorn, Born
    <3> QED BY <3>1, <3>2 DEF Tree!vars, StatusOf
  <2> QED BY <2>1, <2>2, <2>3, <2>4 DEF Next
<1> QED
  BY <1>1, <1>2, TypeCorrect, Generations, Registrations, ChildrenJoinInTime, PTL
  DEF Spec, Tree!Spec
=============================================================================

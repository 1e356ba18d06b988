------------------------------- MODULE Actors -------------------------------
(***************************************************************************)
(* The actor runtime of waltz: the run loop of every actor's task          *)
(* (actor_context.rs), the mailboxes and watcher registries the tasks share *)
(* (mailbox.rs) and the registration of an actor system on its root        *)
(* (actor_system.rs).  Each actor is a task of its own; pc[a] names the     *)
(* point of a's run loop or of its terminate at which the task is, and two  *)
(* points are kept apart whenever another task can act between them.        *)
(*                                                                         *)
(* What an application supplies - Actor::init, Actor::receive and the      *)
(* destructors - is any sequence of tell, spawn, watch and unwatch that the *)
(* API allows at that point.  Mailboxes are unbounded here and a tell is    *)
(* one step; the module Mailbox takes that step apart.                     *)
(***************************************************************************)
EXTENDS Naturals, Sequences, FiniteSets

CONSTANTS
    Actor,        \* the actors that may ever exist
    Root,         \* the root actor, spawned by the actor system
    System,       \* code outside of any actor; also the root's first watcher
    Restarting,   \* actors configured with SupervisionStrategy::Restart
    Immediate,    \* of these, the ones whose backoff is zero
    MaxRestarts,  \* RestartPolicy::max_restarts
    MaxTells,     \* bound: tells attempted in a behaviour
    MaxWatches,   \* bound: watch calls in a behaviour
    MaxFailures   \* bound: failures of init and receive in a behaviour

ASSUME ActorsAssumption ==
    /\ Root \in Actor
    /\ System \notin Actor
    /\ Restarting \subseteq Actor
    /\ Immediate \subseteq Restarting
    /\ MaxRestarts \in Nat \ {0}
    /\ MaxTells \in Nat
    /\ MaxWatches \in Nat
    /\ MaxFailures \in Nat

VARIABLES
    pc,          \* where each actor's task is
    parent,      \* the actor that spawned it; System for the root and the unborn
    queue,       \* the flume channel of each mailbox
    connected,   \* actors whose mailbox receiver has not been dropped
    stopTx,      \* generation of the context's stopping_tx
    stopRx,      \* generation of the context's stopping_rx, which spawn clones
    joined,      \* generation of parent_stopping_rx, held until the task ends
    registry,    \* the watcher registry of each actor
    registering, \* actors whose registry is still open, i.e. Some
    watched,     \* the watched map of each context
    toSignal,    \* watchers taken from the registry and not yet signalled
    restarts,    \* the run loop's restart counter
    registered,  \* spawn_root has returned
    resolved,    \* the oneshot behind ActorSystem::terminated has fired
    tells, watches, failures

mailboxVars == <<queue, connected>>
stopVars    == <<stopTx, stopRx, joined>>
watchVars   == <<registry, registering, watched, toSignal>>
systemVars  == <<registered, resolved>>
counters    == <<tells, watches, failures>>
vars == <<pc, parent, mailboxVars, stopVars, watchVars, restarts, systemVars,
          counters>>

-----------------------------------------------------------------------------
\* Points of the run loop.

\* The actor's own code runs with its context: it may spawn and watch.
Turn == {"init", "receive"}

\* Destructors run: of the state, of the queued messages, of the actor.
Destructor == {"drop_state", "drop_queued", "drop_actor"}

\* Variant: the actor is dropped only after its watchers have been signalled.
UserCodeAfterSignal == Turn \cup Destructor \cup {"signal"}

UserCode == Turn \cup Destructor

\* A generation of children has been told to stop and is awaited.
Awaiting == {"closing", "await_children"}

Signalling == {"signal", "terminated"}

PC == UserCode \cup Awaiting \cup Signalling \cup
      {"unborn", "select", "polled", "init_failed", "receive_failed",
       "restart", "backoff", "terminate", "deregister"}

Message(a)    == [kind |-> "message", from |-> a]
Terminated(a) == [kind |-> "terminated", from |-> a]
Incoming      == [kind : {"message", "terminated"}, from : Actor \cup {System}]

Born(a) == pc[a] # "unborn"

Children(a) == {c \in Actor : parent[c] = a}

\* Holders of a receiver for a's stop channel of the given generation: the
\* children spawned from it until their tasks end, and a's own context.
Receivers(a, generation) ==
    {c \in Children(a) : pc[c] # "terminated" /\ joined[c] = generation}
        \cup {x \in {a} : stopRx[a] = generation}

\* Variant: awaits the channel just installed instead of the replaced one.
ChildrenClosedNext(a) == Receivers(a, stopTx[a]) \subseteq {a}

\* stopping_tx.closed() of the generation that stop_children replaced
ChildrenClosed(a) == Receivers(a, stopTx[a] - 1) = {}

\* changed() or has_changed() on parent_stopping_rx: the parent sent on this
\* generation, or the sender is gone.  The root's sender lives in spawn_root,
\* then in the sink held by the root's own registry.
Stopped(a) ==
    IF a = Root
    THEN registered /\ System \notin registry[Root] \cup toSignal[Root]
    ELSE joined[a] < stopTx[parent[a]]

Goto(a, label) == pc' = [pc EXCEPT ![a] = label]

\* The only variable a step changes is pc.
Go(a, from, to) ==
    /\ pc[a] = from
    /\ Goto(a, to)
    /\ UNCHANGED <<parent, mailboxVars, stopVars, watchVars, restarts,
                   systemVars, counters>>

-----------------------------------------------------------------------------
\* What an actor's code may do.

\* ActorRef::tell: unbounded, so it fails only if the mailbox is disconnected.
Tell(sender, a) ==
    /\ sender = System \/ (sender \in Actor /\ pc[sender] \in UserCode)
    /\ Born(a)
    /\ tells < MaxTells
    /\ tells' = tells + 1
    /\ queue' = IF a \in connected
                THEN [queue EXCEPT ![a] = Append(@, Message(sender))]
                ELSE queue
    /\ UNCHANGED <<pc, parent, connected, stopVars, watchVars, restarts,
                   systemVars, watches, failures>>

\* Variant: the receiver of its own parent's channel.
OwnStopRx(a) == joined[a]

\* The receiver that spawn_with_config clones for a child
ChildStopRx(a) == stopRx[a]

Spawn(a, c) ==
    /\ pc[a] \in Turn
    /\ pc[c] = "unborn"
    /\ Goto(c, "init")
    /\ parent' = [parent EXCEPT ![c] = a]
    /\ joined' = [joined EXCEPT ![c] = ChildStopRx(a)]
    /\ connected' = connected \cup {c}
    /\ registering' = registering \cup {c}
    /\ UNCHANGED <<queue, stopTx, stopRx, registry, watched, toSignal,
                   restarts, systemVars, counters>>

\* Variant: whether the mailbox is still connected.
MailboxOpen(b) == b \in connected

\* WatcherRegistry::add succeeds
Registers(b) == b \in registering

\* Variant: a failed registration is ignored.
NotSignalled(a, b) == queue[a]

\* The watcher's own queue after a failed registration
SelfSignalled(a, b) == Append(queue[a], Terminated(b))

\* One step: the lock makes registry.add atomic, watched is the task's own, and
\* a failed add stays failed, so the self-send may follow at once.
Watch(a, b) ==
    /\ pc[a] \in Turn
    /\ Born(b)
    /\ watches < MaxWatches
    /\ watches' = watches + 1
    /\ watched' = [watched EXCEPT ![a] = @ \cup {b}]
    /\ IF Registers(b)
       THEN /\ registry' = [registry EXCEPT ![b] = @ \cup {a}]
            /\ UNCHANGED queue
       ELSE /\ queue' = [queue EXCEPT ![a] = SelfSignalled(a, b)]
            /\ UNCHANGED registry
    /\ UNCHANGED <<pc, parent, connected, stopVars, registering, toSignal,
                   restarts, systemVars, tells, failures>>

\* Variant: nobody is removed.
StillRegistered(a, b) == registry

\* WatcherRegistry::remove: nothing to remove once registration is closed.
Deregistered(a, b) == [registry EXCEPT ![b] = @ \ {a}]

Unwatch(a, b) ==
    /\ pc[a] \in Turn
    /\ b \in watched[a]
    /\ watched' = [watched EXCEPT ![a] = @ \ {b}]
    /\ registry' = Deregistered(a, b)
    /\ UNCHANGED <<pc, parent, mailboxVars, stopVars, registering, toSignal,
                   restarts, systemVars, counters>>

-----------------------------------------------------------------------------
\* The run loop.

Fail(a, label) ==
    /\ failures < MaxFailures
    /\ failures' = failures + 1
    /\ Goto(a, label)

\* Actor::init returns a state, or fails.
RunInit(a) ==
    /\ pc[a] = "init"
    /\ \/ Goto(a, "select") /\ UNCHANGED failures
       \/ Fail(a, "init_failed")
    /\ UNCHANGED <<parent, mailboxVars, stopVars, watchVars, restarts,
                   systemVars, tells, watches>>

\* The biased select! polls the stop signal first ...
PollStop(a) == Go(a, "select", IF Stopped(a) THEN "drop_state" ELSE "polled")

\* ... and the mailbox second, whatever has happened to the signal since.
Park(a) ==
    /\ Go(a, "polled", "select")
    /\ queue[a] = <<>>

\* A signal is received only while its sender is watched, and ends the watch;
\* any other signal is dropped.
Dequeue(a) ==
    /\ pc[a] = "polled"
    /\ queue[a] # <<>>
    /\ queue' = [queue EXCEPT ![a] = Tail(@)]
    /\ LET incoming == Head(queue[a]) IN
       IF incoming.kind = "terminated"
       THEN /\ watched' = [watched EXCEPT ![a] = @ \ {incoming.from}]
            /\ Goto(a, IF incoming.from \in watched[a] THEN "receive"
                       ELSE "select")
       ELSE Goto(a, "receive") /\ UNCHANGED watched
    /\ UNCHANGED <<parent, connected, stopVars, registry, registering,
                   toSignal, restarts, systemVars, counters>>

\* Actor::receive returns Control::Continue or Control::Stop, or fails.
RunReceive(a) ==
    /\ pc[a] = "receive"
    /\ \/ \E label \in {"select", "terminate"} :
             Goto(a, label) /\ UNCHANGED failures
       \/ Fail(a, "receive_failed")
    /\ UNCHANGED <<parent, mailboxVars, stopVars, watchVars, restarts,
                   systemVars, tells, watches>>

\* Variant: one restart too many.
RestartsOnceMore(a, count) == a \in Restarting /\ count <= MaxRestarts

RestartsAgain(a, count) == a \in Restarting /\ count < MaxRestarts

\* next_restart followed by the first probe of the stop signal.  Only an actor
\* that was up (its init succeeded) may have been up for long enough.
Supervise(a) ==
    /\ pc[a] \in {"init_failed", "receive_failed"}
    /\ \E longEnough \in {FALSE, pc[a] = "receive_failed"} :
         LET count == IF longEnough THEN 0 ELSE restarts[a]
             again == RestartsAgain(a, count)
         IN /\ restarts' = [restarts EXCEPT ![a] =
                               IF a \notin Restarting THEN @
                               ELSE IF again THEN count + 1 ELSE count]
            /\ Goto(a, IF again /\ ~Stopped(a) THEN "restart" ELSE "terminate")
    /\ UNCHANGED <<parent, mailboxVars, stopVars, watchVars, systemVars,
                   counters>>

\* Variant: the context keeps its receiver of the replaced channel.
OldStopRx(a) == stopRx[a]

NextStopRx(a) == stopTx[a] + 1

\* Up to the await in stop_children: a next generation is installed, the
\* current one is told to stop and the context's own receiver is replaced.
StopChildren(a) ==
    /\ \/ pc[a] = "restart" /\ Goto(a, "closing")
       \/ pc[a] = "deregister" /\ watched[a] = {} /\ Goto(a, "await_children")
    /\ stopTx' = [stopTx EXCEPT ![a] = @ + 1]
    /\ stopRx' = [stopRx EXCEPT ![a] = NextStopRx(a)]
    /\ UNCHANGED <<parent, mailboxVars, joined, watchVars, restarts,
                   systemVars, counters>>

\* Variant: the parent may have stopped, but nobody looks again.
RestartsRegardless(a) == "init"

\* The second probe of the stop signal, after the children's end.
NextLife(a) == IF Stopped(a) THEN "terminate" ELSE "init"

\* The children have terminated: with a zero backoff the second probe decides at
\* once, otherwise the delay begins ...
RestartClosed(a) ==
    /\ Go(a, "closing", IF a \in Immediate THEN NextLife(a) ELSE "backoff")
    /\ ChildrenClosed(a)

\* ... and the biased select! over the stop signal and the delay decides.
Backoff(a) == Go(a, "backoff", NextLife(a))

DropState(a) == Go(a, "drop_state", "terminate")

-----------------------------------------------------------------------------
\* terminate

\* Drain the channel and drop the receiver.  A send between the two succeeds
\* into a channel nobody reads; to every other task it is as lost as one after.
CloseMailbox(a) ==
    /\ pc[a] = "terminate"
    /\ connected' = connected \ {a}
    /\ queue' = [queue EXCEPT ![a] = <<>>]
    /\ Goto(a, IF \E i \in DOMAIN queue[a] : queue[a][i].kind = "message"
               THEN "drop_queued" ELSE "deregister")
    /\ UNCHANGED <<parent, stopVars, watchVars, restarts, systemVars, counters>>

DropQueued(a) == Go(a, "drop_queued", "deregister")

\* One iteration of the loop over take_watched, in no particular order.
Deregister(a) ==
    /\ pc[a] = "deregister"
    /\ \E b \in watched[a] :
         /\ watched' = [watched EXCEPT ![a] = @ \ {b}]
         /\ registry' = Deregistered(a, b)
    /\ UNCHANGED <<pc, parent, mailboxVars, stopVars, registering, toSignal,
                   restarts, systemVars, counters>>

AwaitChildren(a) ==
    /\ Go(a, "await_children", "drop_actor")
    /\ ChildrenClosed(a)

\* Variant: take reads the watchers and leaves registration open.
RegistrationOpen(a) == registering

RegistrationClosed(a) == registering \ {a}

\* The actor is dropped; then take closes registration and yields the watchers.
TakeWatchers(a) ==
    /\ pc[a] = "drop_actor"
    /\ Goto(a, "signal")
    /\ registering' = RegistrationClosed(a)
    /\ toSignal' = [toSignal EXCEPT ![a] = registry[a]]
    /\ registry' = [registry EXCEPT ![a] = {}]
    /\ UNCHANGED <<parent, mailboxVars, stopVars, watched, restarts,
                   systemVars, counters>>

\* One iteration of the loop over the watchers, in no particular order.
Signal(a) ==
    /\ pc[a] = "signal"
    /\ \E w \in toSignal[a] :
         /\ toSignal' = [toSignal EXCEPT ![a] = @ \ {w}]
         /\ resolved' = (resolved \/ w = System)
         /\ queue' = IF w \in connected
                     THEN [queue EXCEPT ![w] = Append(@, Terminated(a))]
                     ELSE queue
    /\ UNCHANGED <<pc, parent, connected, stopVars, registry, registering,
                   watched, restarts, registered, counters>>

\* The task ends and drops parent_stopping_rx, which its parent awaits.
Finish(a) ==
    /\ Go(a, "signal", "terminated")
    /\ toSignal[a] = {}

-----------------------------------------------------------------------------
\* Variant: the sink and its stop sender are dropped when spawn_root returns.
RootRegistryWithoutSink == registry[Root]

RootRegistryWithSink == registry[Root] \cup {System}

\* Variant: a registration that comes too late is ignored.
SinkForgotten == resolved

SinkFired == TRUE

\* spawn_root, after the root's task has been spawned: register the sink, or
\* fire it at once if the root has already closed registration.
RegisterRoot ==
    /\ ~registered
    /\ registered' = TRUE
    /\ IF Root \in registering
       THEN /\ registry' = [registry EXCEPT ![Root] = RootRegistryWithSink]
            /\ UNCHANGED resolved
       ELSE resolved' = SinkFired /\ UNCHANGED registry
    /\ UNCHANGED <<pc, parent, mailboxVars, stopVars, registering, watched,
                   toSignal, restarts, counters>>

Init ==
    /\ pc = [a \in Actor |-> IF a = Root THEN "init" ELSE "unborn"]
    /\ parent = [a \in Actor |-> System]
    /\ queue = [a \in Actor |-> <<>>]
    /\ connected = {Root}
    /\ stopTx = [a \in Actor |-> 0]
    /\ stopRx = [a \in Actor |-> 0]
    /\ joined = [a \in Actor |-> 0]
    /\ registry = [a \in Actor |-> {}]
    /\ registering = {Root}
    /\ watched = [a \in Actor |-> {}]
    /\ toSignal = [a \in Actor |-> {}]
    /\ restarts = [a \in Actor |-> 0]
    /\ registered = FALSE
    /\ resolved = FALSE
    /\ tells = 0
    /\ watches = 0
    /\ failures = 0

RunLoop(a) ==
    \/ RunInit(a)
    \/ PollStop(a)
    \/ Park(a)
    \/ Dequeue(a)
    \/ RunReceive(a)
    \/ Supervise(a)
    \/ StopChildren(a)
    \/ RestartClosed(a)
    \/ Backoff(a)
    \/ DropState(a)
    \/ CloseMailbox(a)
    \/ DropQueued(a)
    \/ Deregister(a)
    \/ AwaitChildren(a)
    \/ TakeWatchers(a)
    \/ Signal(a)
    \/ Finish(a)

Next ==
    \/ RegisterRoot
    \/ \E a \in Actor : RunLoop(a)
    \/ \E sender \in Actor \cup {System}, a \in Actor : Tell(sender, a)
    \/ \E a, b \in Actor : Spawn(a, b) \/ Watch(a, b) \/ Unwatch(a, b)

Spec == Init /\ [][Next]_vars

\* The runtime polls every task that is ready, init, receive and destructors
\* return, and delays elapse.  Nothing obliges an actor to tell, spawn, watch
\* or unwatch, and which way init and receive return is theirs to choose.
Fairness == WF_vars(RegisterRoot) /\ \A a \in Actor : WF_vars(RunLoop(a))

FairSpec == Spec /\ Fairness

-----------------------------------------------------------------------------
\* Properties.

\* Every variable has its type, and the counters stay within their bounds.
TypeOK ==
    /\ pc \in [Actor -> PC]
    /\ parent \in [Actor -> Actor \cup {System}]
    /\ queue \in [Actor -> Seq(Incoming)]
    /\ connected \subseteq Actor
    /\ stopTx \in [Actor -> Nat]
    /\ stopRx \in [Actor -> Nat]
    /\ joined \in [Actor -> Nat]
    /\ registry \in [Actor -> SUBSET (Actor \cup {System})]
    /\ registering \subseteq Actor
    /\ watched \in [Actor -> SUBSET Actor]
    /\ toSignal \in [Actor -> SUBSET (Actor \cup {System})]
    /\ restarts \in [Actor -> 0 .. MaxRestarts]
    /\ registered \in BOOLEAN
    /\ resolved \in BOOLEAN
    /\ tells \in 0 .. MaxTells
    /\ watches \in 0 .. MaxWatches
    /\ failures \in 0 .. MaxFailures

\* An actor that waits to restart, or that is past stop_children in terminate,
\* has no child left (actor_context.rs:137-147, 249, 373): no spawn escapes the
\* generation that was stopped.
BottomUp ==
    \A a \in Actor :
        pc[a] \in {"backoff", "drop_actor"} \cup Signalling =>
            \A c \in Children(a) : pc[c] = "terminated"

\* No child outlives the generation of stop channel it was spawned with: it
\* holds the parent's current one, or the last one while the parent awaits it.
\* A child left behind by a generation would never be told to stop, or never be
\* waited for.
CurrentGeneration ==
    \A c \in Actor \ {Root} :
        pc[c] \notin {"unborn", "terminated"} =>
            joined[c] = IF pc[parent[c]] \in Awaiting
                        THEN stopTx[parent[c]] - 1 ELSE stopTx[parent[c]]

\* Every actor but the root has been spawned by an actor that has itself been
\* spawned, and the root by none.
Parentage ==
    /\ Born(Root)
    /\ \A a \in Actor :
          IF a = Root \/ ~Born(a) THEN parent[a] = System
          ELSE parent[a] \in Actor /\ Born(parent[a])

\* The inductive invariant behind BottomUp and CurrentGeneration: a context's
\* receiver always belongs to its current channel, so that whoever is spawned
\* belongs to the generation that is stopped next.
GenerationInv ==
    /\ \A a \in Actor : stopRx[a] = stopTx[a]
    /\ Parentage
    /\ CurrentGeneration
    /\ BottomUp

\* A terminated signal in a mailbox proves that its sender's destructors have
\* run and that its children's tasks have ended (actor_context.rs:354-355).
SignalProvesTermination ==
    \A a \in Actor : \A i \in DOMAIN queue[a] :
        LET incoming == queue[a][i] IN
        incoming.kind = "terminated" =>
            /\ pc[incoming.from] \in Signalling
            /\ \A c \in Children(incoming.from) : pc[c] = "terminated"

\* A terminated signal is ordered behind everything its sender has sent, what
\* its destructors sent included (actor_context.rs:97-99).
LastWord ==
    \A a \in Actor : \A i, j \in DOMAIN queue[a] :
        i < j /\ queue[a][i].kind = "terminated" =>
            ~(queue[a][j].kind = "message" /\ queue[a][j].from = queue[a][i].from)

\* A watch is never lost: until the signal has been received, the watcher is
\* registered, or about to be signalled, or its signal is in its mailbox, however
\* watch, unwatch and the termination of the watched actor interleave
\* (actor_context.rs:102-120, mailbox.rs:105-114).
NoLostWatch ==
    \A a, b \in Actor :
        (a \in connected /\ b \in watched[a]) =>
            \/ pc[b] \notin Signalling /\ a \in registry[b]
            \/ a \in toSignal[b]
            \/ \E i \in DOMAIN queue[a] : queue[a][i] = Terminated(b)

\* A registry holds no watcher that is not watching: unwatch and terminate
\* deregister, so a long-lived actor does not collect the watchers that came and
\* went (actor_context.rs:116-120, 369-371).
NoDeadWatchers ==
    \A a, b \in Actor : a \in registry[b] => b \in watched[a]

\* The root runs until it stops on its own terms: the sender of its stop channel
\* is not dropped before the root signals (actor_system.rs:14-15, 78-79).
RootStopsItself == Stopped(Root) => pc[Root] \in Signalling

\* ActorSystem::terminated resolves only when the root and everything below it
\* has terminated (actor_system.rs:63).
ResolvedMeansTerminated ==
    resolved =>
        /\ pc[Root] \in Signalling
        /\ \A a \in Actor \ {Root} : pc[a] \in {"unborn", "terminated"}

\* An actor that terminates and a watcher that stays: the watch ends, by the
\* signal being received or by the watcher terminating too.
WatchEnds ==
    \A a, b \in Actor :
        (b \in watched[a] /\ pc[b] = "terminated") ~> (b \notin watched[a])

\* Once the root has begun to terminate, ActorSystem::terminated resolves, even
\* if the root is faster than its registration (actor_system.rs:109-115).
SystemTerminates == pc[Root] = "terminate" ~> resolved
=============================================================================

---------------------------- MODULE Destructors ----------------------------
(***************************************************************************)
(* Destructors that panic when an actor fails, is stopped and terminates     *)
(* (actor_context.rs).  What the run loop drops itself it drops under        *)
(* catch_unwind, the error of a failure excepted; the actor's channel is     *)
(* freed, with whatever it retains, by whoever drops the last sender of it:  *)
(* an ActorRef, or the context.                                             *)
(***************************************************************************)
EXTENDS Naturals, Sequences

CONSTANTS
    Holder,       \* code outside of the actor, each holding an ActorRef
    MaxMessages,  \* bound: messages sent in a behaviour
    ErrorPanics   \* may errors and panic payloads panic when logged and dropped?

ASSUME DestructorsAssumption ==
    /\ MaxMessages \in Nat
    /\ ErrorPanics \subseteq BOOLEAN

VARIABLES
    pc,         \* where the run loop is, and terminate
    refs,       \* holders that have not dropped their ActorRef
    ownRef,     \* the context, with its self_ref, has not been dropped
    connected,  \* the receiver has not been dropped
    channel,    \* the channel: for each message, whether its destructor panics
    drained,    \* moved out by terminate and not yet dropped
    slipped,    \* a message was sent between drain and disconnect
    actorPanics,\* the destructor of the actor value panics
    signalled,  \* the watchers have been signalled
    errorPanicked, \* logging or dropping an error has panicked
    sends

vars == <<pc, refs, ownRef, connected, channel, drained, slipped, actorPanics,
          signalled, errorPanicked, sends>>

\* The task is over, by its end or by a panic.
Over == {"ended", "unwound"}

-----------------------------------------------------------------------------
\* ActorRef::tell
Tell(h, panics) ==
    /\ h \in refs
    /\ sends < MaxMessages
    /\ sends' = sends + 1
    /\ channel' = IF connected THEN Append(channel, panics) ELSE channel
    /\ slipped' = (slipped \/ pc = "drained")
    /\ UNCHANGED <<pc, refs, ownRef, connected, drained, actorPanics, signalled,
                 errorPanicked>>

\* The last sender frees the channel; a panic then is that of its owner.
DropRef(h) ==
    /\ h \in refs
    /\ refs' = refs \ {h}
    /\ channel' = IF refs' = {} /\ ~ownRef THEN <<>> ELSE channel
    /\ UNCHANGED <<pc, ownRef, connected, drained, slipped, actorPanics,
                 signalled, errorPanicked, sends>>

-----------------------------------------------------------------------------
\* The run loop, up to the end of its last turn.

\* Variant: drop without catch_unwind.
Unwinds(panics) == panics

\* drop_containing_panic: whatever the destructor does, the task goes on.
Contained(panics) == FALSE

\* Between two turns the parent stops the actor, whose state is dropped; or a turn
\* ends with Control::Stop.
Stop(statePanics) ==
    /\ pc = "running"
    /\ pc' = IF Contained(statePanics) THEN "unwound" ELSE "drain"
    /\ UNCHANGED <<refs, ownRef, connected, channel, drained, slipped,
                   actorPanics, signalled, errorPanicked, sends>>

\* init or receive fails for good.  catch_and_log has caught the failure, and logs
\* and drops the error or the payload of the panic outside of catch_unwind.  A panic
\* there takes the mailbox and the context along.
Fail(errorPanics) ==
    /\ pc = "running"
    /\ errorPanicked' = errorPanics
    /\ pc' = IF errorPanics THEN "unwound" ELSE "drain"
    /\ ownRef' = ~errorPanics
    /\ connected' = ~errorPanics
    /\ channel' = IF errorPanics /\ refs = {} THEN <<>> ELSE channel
    /\ UNCHANGED <<refs, drained, slipped, actorPanics, signalled, sends>>

-----------------------------------------------------------------------------
\* terminate

\* Variant: the messages are read and left where they are.
Undrained == channel

Emptied == <<>>

Drain ==
    /\ pc = "drain"
    /\ pc' = "drained"
    /\ drained' = channel
    /\ channel' = Emptied
    /\ UNCHANGED <<refs, ownRef, connected, slipped, actorPanics, signalled,
                 errorPanicked, sends>>

Disconnect ==
    /\ pc = "drained"
    /\ pc' = "drop_queued"
    /\ connected' = FALSE
    /\ UNCHANGED <<refs, ownRef, channel, drained, slipped, actorPanics,
                 signalled, errorPanicked, sends>>

DropQueued ==
    /\ pc = "drop_queued"
    /\ drained # <<>>
    /\ drained' = Tail(drained)
    /\ pc' = IF Contained(Head(drained)) THEN "unwound" ELSE pc
    /\ UNCHANGED <<refs, ownRef, connected, channel, slipped, actorPanics,
                 signalled, errorPanicked, sends>>

\* Deregistration and the end of the children change nothing here.
AllDropped ==
    /\ pc = "drop_queued"
    /\ drained = <<>>
    /\ pc' = "drop_context"
    /\ UNCHANGED <<refs, ownRef, connected, channel, drained, slipped,
                 actorPanics, signalled, errorPanicked, sends>>

\* drop(context): not under catch_unwind.  If nobody else holds a sender the
\* channel goes with it, and the messages retained in it: the first panic unwinds
\* the task, a second one would abort the process.
DropContext ==
    /\ pc = "drop_context"
    /\ ownRef' = FALSE
    /\ pc' = IF refs = {} /\ \E i \in DOMAIN channel : channel[i]
             THEN "unwound" ELSE "drop_actor"
    /\ channel' = IF refs = {} THEN <<>> ELSE channel
    /\ UNCHANGED <<refs, connected, drained, slipped, actorPanics, signalled,
                 errorPanicked, sends>>

DropActor ==
    /\ pc = "drop_actor"
    /\ pc' = IF Contained(actorPanics) THEN "unwound" ELSE "signal"
    /\ UNCHANGED <<refs, ownRef, connected, channel, drained, slipped,
                 actorPanics, signalled, errorPanicked, sends>>

SignalWatchers ==
    /\ pc = "signal"
    /\ pc' = "ended"
    /\ signalled' = TRUE
    /\ UNCHANGED <<refs, ownRef, connected, channel, drained, slipped,
                 actorPanics, errorPanicked, sends>>

Init ==
    /\ pc = "running"
    /\ refs = Holder
    /\ ownRef = TRUE
    /\ connected = TRUE
    /\ channel = <<>>
    /\ drained = <<>>
    /\ slipped = FALSE
    /\ actorPanics \in BOOLEAN
    /\ signalled = FALSE
    /\ errorPanicked = FALSE
    /\ sends = 0

Next ==
    \/ \E h \in Holder, panics \in BOOLEAN : Tell(h, panics)
    \/ \E h \in Holder : DropRef(h)
    \/ \E panics \in BOOLEAN : Stop(panics)
    \/ \E panics \in ErrorPanics : Fail(panics)
    \/ Drain \/ Disconnect \/ DropQueued \/ AllDropped
    \/ DropContext \/ DropActor \/ SignalWatchers

Spec == Init /\ [][Next]_vars

-----------------------------------------------------------------------------
\* Properties.

\* Every variable has its type, and no message is dropped twice.
DestructorsTypeOK ==
    /\ pc \in {"running", "drain", "drained", "drop_queued", "drop_context",
               "drop_actor", "signal"} \cup Over
    /\ refs \subseteq Holder
    /\ ownRef \in BOOLEAN
    /\ connected \in BOOLEAN
    /\ channel \in Seq(BOOLEAN)
    /\ drained \in Seq(BOOLEAN)
    /\ slipped \in BOOLEAN
    /\ actorPanics \in BOOLEAN
    /\ signalled \in BOOLEAN
    /\ errorPanicked \in BOOLEAN
    /\ sends \in 0 .. MaxMessages
    /\ Len(channel) + Len(drained) <= sends

\* The state, the queued messages and the actor may panic as they like, the watchers
\* are still signalled (actor_context.rs:322, 351-355).  Two things can prevent it:
\* a message that slipped past the drain, and an error that panics while it is
\* logged or dropped.
SignalledUnlessSlipped == pc \in Over => signalled \/ slipped \/ errorPanicked

\* Every drop path the framework controls contains destructor panics, so that
\* termination completes, including the signals to the watchers
\* (docs/actors.md:302-306).
WatchersAreSignalled == pc \in Over => signalled
=============================================================================

----------------------------- MODULE ActorTree -----------------------------
(***************************************************************************)
(* What waltz promises of the tree of actors, with no mailbox, signal or    *)
(* channel in sight: actors are spawned by running actors, an actor stops   *)
(* when it decides to or because its parent, which stops or restarts, has    *)
(* told it to, and neither restarts nor terminates before its children have  *)
(* terminated.  Once told to stop, an actor does not restart any more.  The  *)
(* module ActorsTree shows that the run loop implements this.               *)
(***************************************************************************)
EXTENDS Naturals

CONSTANTS
    Actor,   \* the actors that may ever exist
    Root,    \* the root actor
    System   \* the parent of the root and of what has not been spawned

ASSUME ActorTreeAssumption == Root \in Actor /\ System \notin Actor

VARIABLES
    status,   \* the phase of each actor's life
    parent,   \* the actor that spawned it
    told,     \* the actors whose parent has told them to stop
    resolved  \* ActorSystem::terminated has resolved

vars == <<status, parent, told, resolved>>

Status == {"unborn", "running", "restarting", "stopping", "terminated"}

Children(a) == {c \in Actor : parent[c] = a}

ChildrenTerminated(a) == \A c \in Children(a) : status[c] = "terminated"

Become(a, s) ==
    /\ status' = [status EXCEPT ![a] = s]
    /\ UNCHANGED <<parent, told, resolved>>

Spawn(a, c) ==
    /\ status[a] = "running"
    /\ status[c] = "unborn"
    /\ status' = [status EXCEPT ![c] = "running"]
    /\ parent' = [parent EXCEPT ![c] = a]
    /\ UNCHANGED <<told, resolved>>

\* A failure that the supervision strategy answers with a restart ...
Fail(a) == status[a] = "running" /\ Become(a, "restarting")

\* ... which begins the next life without any child of the last one, and only
\* where the parent has not begun to stop meanwhile.
Restart(a) ==
    /\ status[a] = "restarting"
    /\ a \notin told
    /\ ChildrenTerminated(a)
    /\ Become(a, "running")

\* Of its own accord, or because its parent has stopped it.
Stop(a) == status[a] \in {"running", "restarting"} /\ Become(a, "stopping")

\* Variant: a parent that stops for good leaves its children alone.
TellChildrenForRestart(a) ==
    /\ status[a] = "restarting"
    /\ told' = told \cup Children(a)
    /\ UNCHANGED <<status, parent, resolved>>

TellChildren(a) ==
    /\ status[a] \in {"restarting", "stopping"}
    /\ told' = told \cup Children(a)
    /\ UNCHANGED <<status, parent, resolved>>

StoppedByParent(c) == c \in told /\ Stop(c)

\* Variant: does not wait for its children.
TerminateAlone(a) == status[a] = "stopping" /\ Become(a, "terminated")

Terminate(a) ==
    /\ status[a] = "stopping"
    /\ ChildrenTerminated(a)
    /\ Become(a, "terminated")

Resolve ==
    /\ status[Root] = "terminated"
    /\ resolved' = TRUE
    /\ UNCHANGED <<status, parent, told>>

Init ==
    /\ status = [a \in Actor |-> IF a = Root THEN "running" ELSE "unborn"]
    /\ parent = [a \in Actor |-> System]
    /\ told = {}
    /\ resolved = FALSE

Next ==
    \/ \E a, c \in Actor : Spawn(a, c)
    \/ \E a \in Actor :
         Fail(a) \/ Restart(a) \/ Stop(a) \/ TellChildren(a) \/ Terminate(a)
    \/ Resolve

Spec == Init /\ [][Next]_vars

\* Neither a restart nor a termination stays pending, a parent tells its children,
\* a child heeds its parent and the system hears of the end.  Nothing obliges an
\* actor to stop by itself.
Fairness ==
    /\ \A a \in Actor :
         /\ WF_vars(Restart(a) \/ (status[a] = "restarting" /\ Stop(a)))
         /\ WF_vars(TellChildren(a))
         /\ WF_vars(StoppedByParent(a))
         /\ WF_vars(Terminate(a))
    /\ WF_vars(Resolve)

FairSpec == Spec /\ Fairness

-----------------------------------------------------------------------------
TreeTypeOK ==
    /\ status \in [Actor -> Status]
    /\ parent \in [Actor -> Actor \cup {System}]
    /\ told \subseteq Actor
    /\ resolved \in BOOLEAN

\* Everything below a terminated actor has terminated: its children have, and so
\* on down to the leaves (docs/actors.md, Actor trees).
TerminatedBottomUp ==
    \A a \in Actor : status[a] = "terminated" => ChildrenTerminated(a)

\* When the system's future resolves no actor is left running anywhere in the
\* tree (actor_system.rs:63).
ResolvedLast ==
    resolved => \A a \in Actor : status[a] \in {"unborn", "terminated"}

\* An actor that has begun to stop terminates, however deep the tree below it
\* and whatever restarts are under way there.
StoppingEnds ==
    \A a \in Actor : status[a] = "stopping" ~> status[a] = "terminated"
=============================================================================

---------------------------- MODULE ActorsTree ----------------------------
(***************************************************************************)
(* The run loop of Actors implements the tree of ActorTree.                 *)
(***************************************************************************)
EXTENDS Actors

\* An actor is restarting from the decision of next_restart to its next init,
\* stopping from the decision to terminate, and terminated once it has closed
\* its registry: that is what a watcher or the system can first find out.
StatusOf(a) ==
    CASE pc[a] = "unborn" -> "unborn"
      [] pc[a] \in {"restart", "closing", "backoff"} -> "restarting"
      [] pc[a] \in {"drop_state", "terminate", "drop_queued", "deregister",
                    "await_children", "drop_actor"} -> "stopping"
      [] pc[a] \in Signalling -> "terminated"
      [] OTHER -> "running"

\* A child has been told to stop once its parent has replaced the channel that the
\* child joined.
ToldToStop ==
    {c \in Actor \ {Root} : Born(c) /\ joined[c] < stopTx[parent[c]]}

Tree == INSTANCE ActorTree WITH
            status <- [a \in Actor |-> StatusOf(a)],
            told <- ToldToStop

\* The run loop takes no step the tree does not allow, and takes those it owes:
\* no actor restarts or terminates before its children have terminated, a parent
\* that stops or restarts tells all of its children, none of these restarts
\* afterwards and all of them stop, and the system resolves last
\* (actor_context.rs:154-391, docs/actors.md:251-252, actor_system.rs:94-118).
ImplementsTree == Tree!FairSpec
=============================================================================

-------------------------- MODULE ActorTreeProofs --------------------------
(***************************************************************************)
(* Theorems about the abstract tree of actors: it terminates bottom-up and  *)
(* the system resolves when nothing is left running.                        *)
(***************************************************************************)
EXTENDS ActorTree, TLAPS

USE ActorTreeAssumption

\* The root has been spawned, and so has the parent of every other actor that
\* has been spawned.
TreeParents ==
    /\ status[Root] # "unborn"
    /\ \A a \in Actor \ {Root} :
          status[a] # "unborn" =>
            parent[a] \in Actor /\ status[parent[a]] # "unborn"

\* No set of spawned actors other than the root is closed under parents.
TreeRooted ==
    \A S \in SUBSET (Actor \ {Root}) :
        (S # {} /\ \A c \in S : status[c] # "unborn")
            => \E c \in S : parent[c] \notin S

TreeInv ==
    /\ TreeTypeOK
    /\ TreeParents
    /\ TreeRooted
    /\ TerminatedBottomUp
    /\ resolved => status[Root] = "terminated"

\* An actor that changes its own status and nothing else.
LEMMA BecomeKeepsTree ==
    ASSUME TreeInv, NEW a \in Actor, NEW s \in Status, Become(a, s),
           status[a] \notin {"unborn", "terminated"}, s # "unborn",
           s = "terminated" => ChildrenTerminated(a)
    PROVE  TreeInv'
  <1>1. /\ status' = [status EXCEPT ![a] = s]
        /\ parent' = parent /\ told' = told /\ resolved' = resolved
    BY DEF Become
  <1>2. TreeTypeOK'
    BY <1>1 DEF TreeInv, TreeTypeOK
  <1>3. \A x \in Actor : /\ x # a => status'[x] = status[x]
                         /\ status'[x] # "unborn" <=> status[x] # "unborn"
                         /\ status[x] = "terminated" => status'[x] = "terminated"
    BY <1>1 DEF TreeInv, TreeTypeOK
  <1>4. TreeParents'
    BY <1>1, <1>3 DEF TreeInv, TreeParents
  <1>5. TreeRooted'
    BY <1>1, <1>3 DEF TreeInv, TreeRooted
  <1>6. TerminatedBottomUp'
    <2> SUFFICES ASSUME NEW x \in Actor, status'[x] = "terminated",
                        NEW c \in Actor, parent[c] = x
                 PROVE  status'[c] = "terminated"
      BY <1>1 DEF TerminatedBottomUp, ChildrenTerminated, Children
    <2>1. status[c] = "terminated"
      BY <1>1, <1>3
      DEF TreeInv, TreeTypeOK, TerminatedBottomUp, ChildrenTerminated, Children
    <2> QED BY <1>3, <2>1
  <1> QED BY <1>1, <1>2, <1>3, <1>4, <1>5, <1>6 DEF TreeInv

\* A spawn adds a leaf below a running actor.
LEMMA SpawnKeepsTree ==
    ASSUME TreeInv, NEW a \in Actor, NEW c \in Actor, Spawn(a, c)
    PROVE  TreeInv'
  <1>0. /\ status[a] = "running" /\ status[c] = "unborn" /\ a # c /\ c # Root
        /\ resolved' = resolved
        /\ \A x \in Actor : status'[x] = IF x = c THEN "running" ELSE status[x]
        /\ \A x \in Actor : parent'[x] = IF x = c THEN a ELSE parent[x]
    BY DEF Spawn, TreeInv, TreeTypeOK, TreeParents
  <1>1. TreeTypeOK'
    BY DEF Spawn, TreeInv, TreeTypeOK, Status
  <1>2. TreeParents'
    BY <1>0 DEF TreeInv, TreeParents
  <1>3. TerminatedBottomUp'
    BY <1>0 DEF TreeInv, TerminatedBottomUp, ChildrenTerminated, Children
  <1>4. TreeRooted'
    <2> SUFFICES ASSUME NEW S \in SUBSET (Actor \ {Root}), S # {},
                        \A x \in S : status'[x] # "unborn"
                 PROVE  \E x \in S : parent'[x] \notin S
      BY DEF TreeRooted
    <2>1. CASE c \in S /\ a \notin S
      BY <1>0, <2>1
    <2>2. CASE c \in S => a \in S
      <3>1. PICK x \in S \ {c} : parent[x] \notin S \ {c}
        <4>1. /\ S \ {c} \in SUBSET (Actor \ {Root}) /\ S \ {c} # {}
              /\ \A x \in S \ {c} : status[x] # "unborn"
          BY <1>0, <2>2
        <4> QED BY <4>1 DEF TreeInv, TreeRooted
      <3>2. parent[x] # c
        BY <1>0 DEF TreeInv, TreeParents
      <3> QED BY <1>0, <3>1, <3>2
    <2> QED BY <2>1, <2>2
  <1> QED BY <1>0, <1>1, <1>2, <1>3, <1>4 DEF TreeInv

\* The spawned actors form a tree below the root, with nothing terminated above
\* anything that is not.
THEOREM TreeStays == Spec => []TreeInv
<1>1. Init => TreeInv
  BY DEF Init, TreeInv, TreeTypeOK, TreeParents, TreeRooted, TerminatedBottomUp,
         ChildrenTerminated, Children, Status
<1>2. TreeInv /\ [Next]_vars => TreeInv'
  <2> SUFFICES ASSUME TreeInv, [Next]_vars PROVE TreeInv'
    OBVIOUS
  <2>1. ASSUME NEW a \in Actor, NEW c \in Actor, Spawn(a, c) PROVE TreeInv'
    BY <2>1, SpawnKeepsTree
  <2>2. ASSUME NEW a \in Actor, Fail(a) \/ Restart(a) \/ Stop(a) \/ Terminate(a)
        PROVE  TreeInv'
    <3>1. PICK s \in Status :
            /\ Become(a, s) /\ s # "unborn"
            /\ status[a] \notin {"unborn", "terminated"}
            /\ s = "terminated" => ChildrenTerminated(a)
      BY <2>2 DEF Fail, Restart, Stop, Terminate, Status
    <3> QED BY <3>1, BecomeKeepsTree
  <2>3. CASE Resolve
    BY <2>3
    DEF Resolve, TreeInv, TreeTypeOK, TreeParents, TreeRooted,
        TerminatedBottomUp, ChildrenTerminated, Children
  <2>4. ASSUME NEW a \in Actor, TellChildren(a) PROVE TreeInv'
    BY <2>4
    DEF TellChildren, TreeInv, TreeTypeOK, TreeParents, TreeRooted,
        TerminatedBottomUp, ChildrenTerminated, Children
  <2>5. CASE UNCHANGED vars
    BY <2>5
    DEF vars, TreeInv, TreeTypeOK, TreeParents, TreeRooted,
        TerminatedBottomUp, ChildrenTerminated, Children
  <2> QED BY <2>1, <2>2, <2>3, <2>4, <2>5 DEF Next
<1> QED BY <1>1, <1>2, PTL DEF Spec

\* The children of a terminated actor have terminated (docs/actors.md, Actor
\* trees).
THEOREM TerminatesBottomUp == Spec => []TerminatedBottomUp
<1>1. TreeInv => TerminatedBottomUp
  BY DEF TreeInv
<1> QED BY <1>1, TreeStays, PTL

\* The system resolves when every actor of the tree has terminated
\* (actor_system.rs:63).
THEOREM TreeResolvesLast == Spec => []ResolvedLast
<1>1. TreeInv => ResolvedLast
  <2> SUFFICES ASSUME TreeInv, resolved,
                      NEW a \in Actor, status[a] \notin {"unborn", "terminated"}
               PROVE  FALSE
    BY DEF ResolvedLast
  <2> DEFINE Running ==
        {x \in Actor \ {Root} : status[x] \notin {"unborn", "terminated"}}
  <2>1. a \in Running
    BY DEF TreeInv
  <2>2. PICK c \in Running : parent[c] \notin Running
    <3>1. Running \in SUBSET (Actor \ {Root})
          /\ \A x \in Running : status[x] # "unborn"
      OBVIOUS
    <3> QED BY <2>1, <3>1 DEF TreeInv, TreeRooted
  <2>3. parent[c] \in Actor /\ status[parent[c]] = "terminated"
    BY <2>2 DEF TreeInv, TreeParents
  <2> QED
    BY <2>3 DEF TreeInv, TerminatedBottomUp, ChildrenTerminated, Children
<1> QED BY <1>1, TreeStays, PTL
=============================================================================

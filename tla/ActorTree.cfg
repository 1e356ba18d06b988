SPECIFICATION FairSpec
CONSTANTS
    System = System
    Actor = {r, a, b, c}
    Root = r
CHECK_DEADLOCK FALSE
INVARIANTS ResolvedLast
PROPERTIES StoppingEnds

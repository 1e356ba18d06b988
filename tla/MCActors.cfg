SPECIFICATION Spec
CONSTANTS
    r = r
    a = a
    b = b
    System = System
    Actor = {r, a, b}
    Root = r
    Restarting = {a, b}
    Immediate = {a, b}
    MaxRestarts = 1
    MaxTells = 1
    MaxWatches = 2
    MaxFailures = 2
CHECK_DEADLOCK FALSE
SYMMETRY Symmetry
INVARIANTS TypeOK BottomUp CurrentGeneration RootStopsItself ResolvedMeansTerminated SignalProvesTermination LastWord NoLostWatch NoDeadWatchers
PROPERTIES ImplementsDeathWatch

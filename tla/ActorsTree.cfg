SPECIFICATION FairSpec
CONSTANTS
    System = System
    Actor = {r, a, b}
    Root = r
    Restarting = {r, a, b}
    Immediate = {b}
    MaxRestarts = 1
    MaxTells = 0
    MaxWatches = 2
    MaxFailures = 1
CHECK_DEADLOCK FALSE
PROPERTIES ImplementsTree WatchEnds SystemTerminates

SPECIFICATION Spec
CONSTANTS
    Holder = {h}
    MaxMessages = 1
    ErrorPanics = {FALSE}
CHECK_DEADLOCK FALSE
INVARIANTS WatchersAreSignalled

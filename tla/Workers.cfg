SPECIFICATION FairSpec
CONSTANTS
    Workers = 3
    Jobs = 4
    MaxRestarts = 2
CHECK_DEADLOCK FALSE
INVARIANTS WorkersTypeOK NothingMissing OneJobInFlight
PROPERTIES RootStops

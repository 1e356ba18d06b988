SPECIFICATION FairSpec
CONSTANTS
    Asker = {a, b, c}
    Capacity = 2
CHECK_DEADLOCK FALSE
INVARIANTS AskTypeOK NoReplyIsFinal InTimeIsReceived
PROPERTIES QueuedAsksResolve AskResolves

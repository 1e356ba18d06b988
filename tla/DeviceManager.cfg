SPECIFICATION FairSpec
CONSTANTS
    Group = {attic}
    Device = {left, right}
    Ask = {ask1}
    MaxRecords = 3
    MaxRestarts = 1
CHECK_DEADLOCK FALSE
INVARIANTS DeviceManagerTypeOK AnswersAreFresh AnswersAreComplete SuccessorsDoNotOverlap ReadingsArePending
PROPERTIES AsksResolve DeadArePruned

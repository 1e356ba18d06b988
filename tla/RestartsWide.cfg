SPECIFICATION Spec
CONSTANTS
    Min = 1
    Max = 10
    MaxRestarts = 9
    ResetAfter = 3
    Width = 3
CHECK_DEADLOCK FALSE
INVARIANTS DelayAsDocumented

SPECIFICATION Spec
CONSTANTS
    Min = 1
    Max = 7
    MaxRestarts = 9
    ResetAfter = 3
    Width = 3
CHECK_DEADLOCK FALSE
INVARIANTS LimitIsPerStreak DelayAsDocumented

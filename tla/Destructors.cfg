SPECIFICATION Spec
CONSTANTS
    Holder = {g, h}
    MaxMessages = 3
    ErrorPanics = {FALSE, TRUE}
CHECK_DEADLOCK FALSE
INVARIANTS DestructorsTypeOK 

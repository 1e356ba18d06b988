SPECIFICATION Spec
CONSTANTS
    Asker = {a}
    Capacity = 1
CHECK_DEADLOCK FALSE
INVARIANTS LateReplyIsLogged

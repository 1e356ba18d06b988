SPECIFICATION Spec
CONSTANTS
    s = s
    t = t
    u = u
    Sender = {s, t, u}
    Capacity = 2
    MaxSends = 2
CHECK_DEADLOCK FALSE
SYMMETRY Symmetry
INVARIANTS TypeOK CountExact InOrder LateIsTerminated
PROPERTIES ImplementsAtomic

SPECIFICATION Spec
CONSTANTS
    Callers = {c1}
    Capacity = 1
    Nil = nil
    None = none
    MaxSends = 1
    MaxStalls = 0
    MaxEmpty = 1
INVARIANT OnlyBuffered
CHECK_DEADLOCK FALSE

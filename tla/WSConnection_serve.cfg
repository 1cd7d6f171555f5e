SPECIFICATION FairSpec
CONSTANTS
    Callers = {c1, c2}
    Capacity = 2
    Nil = nil
    None = none
    MaxSends = 2
    MaxStalls = 1
    MaxEmpty = 1
INVARIANT TypeOK
PROPERTIES
    KeepsPromise
    CallersReturn
    BufferedIsWritten
    EndsWhenDead
    LeaksOne
CHECK_DEADLOCK FALSE

SPECIFICATION FairSpec
CONSTANTS
    Clients = {c1, c2}
    Room = 1
    Capacity = 2
    None = none
    MaxMsgs = 3
INVARIANT TypeOK
INVARIANT NoGap
INVARIANT MissesNothing
INVARIANT EndedAreDropped
PROPERTY Broadcasts
CHECK_DEADLOCK FALSE

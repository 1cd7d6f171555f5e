SPECIFICATION FairSpec
CONSTANTS
    Room = 1
    Capacity = 2
    MaxMsgs = 4
    MaxConns = 3
INVARIANTS
    TypeOK
    SomeoneSends
    LosesOnePerConnection
    InOrderAlone
    OneFate
PROPERTY Drains
CHECK_DEADLOCK FALSE

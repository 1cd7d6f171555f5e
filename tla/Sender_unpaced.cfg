SPECIFICATION Spec
CONSTANTS
    c1 = c1  c2 = c2  c3 = c3  c4 = c4
    p1 = p1  b1 = b1  b2 = b2
    Commands = {c1, c2, c3, c4}
    Plans <- AllPlans
    Paths = {p1}
    Bodies = {b1, b2}
    Hole = hole
    Absent = absent
    NotSent = notSent
    Burst = 1
    FileTokens = 5
    MaxWait = 2
    MaxFileWait = 20
INVARIANT FilesWait
CHECK_DEADLOCK FALSE

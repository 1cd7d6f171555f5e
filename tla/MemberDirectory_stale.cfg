SPECIFICATION Spec
CONSTANTS
    g1 = g1  u1 = u1  n1 = n1  n2 = n2  x = x  z = z
    Accounts = {g1}
    GroupNames = {g1}
    NamesOf <- NameG
    AttrsOf <- AttrG
    Empty = empty
    Callers = {c1, c2}
    IdOfUid <- OwnHash
    NoRow = noRow
    MaxLogins = 1
    MaxRestarts = 1
    MaxChanges = 0
    MaxFaults = 0
INVARIANT AnswersCurrentUid

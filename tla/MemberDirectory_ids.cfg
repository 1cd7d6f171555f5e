SPECIFICATION Spec
CONSTANTS
    g1 = g1  u1 = u1  n1 = n1  n2 = n2  x = x  z = z
    Accounts = {g1, u1}
    GroupNames = {g1}
    NamesOf <- NamesSame
    AttrsOf <- AttrsGU
    Empty = empty
    Callers = {c1, c2}
    IdOfUid <- OwnHash
    NoRow = noRow
    MaxLogins = 1
    MaxRestarts = 1
    MaxChanges = 1
    MaxFaults = 1
SYMMETRY CallerSymmetry
INVARIANT TypeOK
INVARIANT OwnId
INVARIANT ReachesOwner
INVARIANT SteadyId
INVARIANT CurrentUnlessLost

SPECIFICATION Spec
CONSTANTS
    u1 = u1  u2 = u2  i1 = i1  i2 = i2
    Users = {u1, u2}
    Groups = {g1}
    Nicks = {n1}
    Ids = {i1, i2}
    IdOf <- OneIdEach
    Main = main
    Renamers = {}
    Watchers = {w1}
    Absent = absent
    NoRow = noRow
    NoGroup = noGroup
    MaxChanges = 1
    MaxFaults = 1
    MaxCrashes = 0
INVARIANT RemainderHasLeft

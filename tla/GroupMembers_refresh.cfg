SPECIFICATION FairSpec
CONSTANTS
    u1 = u1  u2 = u2  i1 = i1  i2 = i2
    Users = {u1}
    Groups = {g1}
    Nicks = {n1, n2}
    Ids = {i1}
    IdOf <- OneUser
    Main = main
    Renamers = {r1}
    Watchers = {w1}
    Absent = absent
    NoRow = noRow
    NoGroup = noGroup
    MaxChanges = 3
    MaxFaults = 1
    MaxCrashes = 1
INVARIANTS TypeOK RemainderHasLeftOrFault
PROPERTIES ReportedOncePerStay Converges

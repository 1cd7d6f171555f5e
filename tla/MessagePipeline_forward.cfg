SPECIFICATION FairSpec
CONSTANTS
    m1 = m1  m2 = m2  m3 = m3  ev = ev
    Messages = {m1, m2, m3, ev}
    KindOf <- OneEach
    Redirects = {r1, r2}
    Stuck = {r2}
    CacheSize = 1
    MaxDeliveries = 3
    MaxInAll = 3
    MaxFaults = 1
    MaxCrashes = 1
INVARIANTS TypeOK ForwardedOnce CacheIsSound SavedBeforeSent
PROPERTY ReachesRedirects
CHECK_DEADLOCK FALSE

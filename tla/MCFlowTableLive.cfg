\* Progress: one request that may be served, one that is denied, a router that
\* arrives late and one whose row may be deleted.
SPECIFICATION FairSpec
CONSTANTS
    r1 = r1
    r2 = r2
    a = a
    b = b
    l1 = l1
    l2 = l2
    Requests = {r1, r2}
    Denied = {r2}
    SrcRt <- MCSrc
    DstRt <- MCDst
    Routes <- MCRoutes
    Ttl <- MCTtl
    Routers = {a, b}
    InitRouters = {}
    Links = {l1, l2}
    Metrics = {1, 9}
    Down = 9
    Bsids = {b1, b2}
    Workers = {w1, w2}
    NbProviders = 1
    Removable = {a}
    MayFail = FALSE
    MaxSyncs = 1
    MaxClock = 2
CHECK_DEADLOCK FALSE
PROPERTIES
    RequestsAreAnswered

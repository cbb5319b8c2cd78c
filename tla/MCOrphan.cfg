\* The row of a router is deleted while a flow starts at it.
SPECIFICATION FairSpec
CONSTANTS
    r1 = r1
    r2 = r2
    a = a
    b = b
    l1 = l1
    l2 = l2
    Requests = {r2}
    Denied = {}
    SrcRt <- MCSrc
    DstRt <- MCDst
    Routes <- MCRoutes
    Ttl <- MCTtl
    Routers = {a, b}
    InitRouters = {a, b}
    Links = {l1, l2}
    Metrics = {1, 9}
    Down = 9
    Bsids = {b1, b2}
    Workers = {w1}
    NbProviders = 1
    Removable = {a}
    MayFail = FALSE
    MaxSyncs = 1
    MaxClock = 0
CHECK_DEADLOCK FALSE
PROPERTIES
    RemovedRouterOrphansFlows

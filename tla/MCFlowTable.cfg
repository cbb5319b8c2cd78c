\* Two requests and two workers against the collector and two changes of the
\* graph; transactions may fail.
SPECIFICATION Spec
CONSTANTS
    r1 = r1
    r2 = r2
    a = a
    b = b
    l1 = l1
    l2 = l2
    Requests = {r1, r2}
    Denied = {}
    SrcRt <- MCSrc
    DstRt <- MCDst
    Routes <- MCRoutes
    Ttl <- MCTtl
    Routers = {a, b}
    InitRouters = {a, b}
    Links = {l1, l2}
    Metrics = {1, 9}
    Down = 9
    Bsids = {b1, b2}
    Workers = {w1, w2}
    NbProviders = 1
    Removable = {}
    MayFail = TRUE
    MaxSyncs = 2
    MaxClock = 2
CHECK_DEADLOCK FALSE
SYMMETRY MCSymmetry
INVARIANTS
    FlowsFollowGraph
    NoUseAfterFree
    BsidsAreUnique
    RowsFollowFlows
    AllowedHasRow
PROPERTIES
    AnsweredOnce

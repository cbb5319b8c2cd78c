\* A request that a worker answers before the routers are read.
SPECIFICATION Spec
CONSTANTS
    r1 = r1
    r2 = r2
    l1 = l1
    l2 = l2
    q1 = q1
    q2 = q2
    Routers = {r1, r2}
    Links = {l1, l2}
    Ends <- MCEnds
    Requests = {q1, q2}
    Needs <- MCNeeds
    Workers = {w1, w2}
    TrWorkers = {t1, t2}
    ReqSize = 2
    CanFail = FALSE
CHECK_DEADLOCK FALSE
INVARIANTS
    StartIsNotUnavailable

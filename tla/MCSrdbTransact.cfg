\* Two callers and two workers; connections fail and recv cuts the stream
\* anywhere.
SPECIFICATION FairSpec
CONSTANTS
    Callers = {c1, c2}
    TrWorkers = {t1, t2}
    Recv = "any"
    Reliable = FALSE
    MaxCalls = 2
    MaxEchos = 1
CHECK_DEADLOCK FALSE
INVARIANTS
    NoDanglingTransaction
    OwnResult
PROPERTIES
    CallsReturn
    DestroyEnds

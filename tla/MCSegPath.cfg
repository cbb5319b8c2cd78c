\* Graphs of four routers; requests with way points, bandwidth, by delay.
SPECIFICATION Spec
CONSTANTS
    Nodes <- MCNodes
    Graphs <- MCGraphs
    Requests <- MCRequests
    Infinite = 15
INVARIANTS
    SearchIsExact
    PathIsPinned
    GrantedBandwidth
    RefusedIffCut
CHECK_DEADLOCK FALSE

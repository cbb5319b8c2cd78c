\* A link between a router known from the start and one that arrives later, and
\* a worker.
SPECIFICATION FairSpec
CONSTANTS
    n1 = n1
    n2 = n2
    l1 = l1
    Nodes = {n1, n2}
    Links = {l1}
    Ends <- MCEnds
    InitNodes = {n1}
    Metrics = {0, 1}
    Bws = {1}
    Workers = {w1}
    UIntMax = 1000
    Soft = 0
    Hard = 1
    MaxEvents = 3
    MaxLag = 1
INVARIANTS
    NoTornGraph
    RoutersAreStaged
    SyncedUnlessOvertaken
PROPERTIES
    GraphIsStableForReaders
    CallbacksReturn
    DirtyIsSynced

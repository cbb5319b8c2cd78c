\* A change staged while netmon synchronises.
SPECIFICATION FairSpec
CONSTANTS
    n1 = n1
    n2 = n2
    l1 = l1
    Nodes = {n1, n2}
    Links = {l1}
    Ends <- MCEnds
    InitNodes = {n1, n2}
    Metrics = {1}
    Bws = {1}
    Workers = {}
    UIntMax = 1000
    Soft = 0
    Hard = 1
    MaxEvents = 1
    MaxLag = 1
PROPERTIES
    ChangesReachActive

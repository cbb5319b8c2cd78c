\* A probe number that has wrapped.
SPECIFICATION Spec
CONSTANTS
    N = 1
    IdMax = 3
    Rtt1Count = 1
    MaxRtt = 1
    MaxProbes = 2
PROPERTIES
    LastIsNotOutdated

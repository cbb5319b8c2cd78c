\* Two segments, probe numbers of 0 to 2 that wrap, probes that are lost, late
\* and reordered, links that break and are repaired.
SPECIFICATION FairSpec
CONSTANTS
    N = 2
    IdMax = 2
    Rtt1Count = 1
    MaxRtt = 1
    MaxProbes = 2
INVARIANTS
    MonIsEarned
PROPERTIES
    ReportedIsNearest
    BreakIsReported

\* A table of two rows, one of which its callback refuses; a buffer of four
\* units that may grow to eight, and streams cut anywhere.
SPECIFICATION FairSpec
CONSTANTS
    Rows = {r1, r2}
    Values = {1}
    BadRows = {r2}
    Size <- MCSize
    BufLen = 4
    MonMax = 8
    MaxWire = 3
CHECK_DEADLOCK FALSE
INVARIANTS
    ViewCatchesUp
PROPERTIES
    InitialBeforeReturn
    StopIsHonoured
    LostIsAborted

\* A reply whose last byte is left in the buffer.
SPECIFICATION Spec
CONSTANTS
    Rows = {r1}
    Values = {1}
    BadRows = {}
    Size <- MCSize
    BufLen = 4
    MonMax = 8
    MaxWire = 3
CHECK_DEADLOCK FALSE
PROPERTIES
    FullBufferProcessed

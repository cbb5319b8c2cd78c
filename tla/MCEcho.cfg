\* An echo request and a result that recv returns together.
SPECIFICATION FairSpec
CONSTANTS
    Callers = {c1}
    TrWorkers = {t1}
    Recv = "whole"
    Reliable = TRUE
    MaxCalls = 1
    MaxEchos = 1
CHECK_DEADLOCK FALSE
PROPERTIES
    EchosAreHarmless

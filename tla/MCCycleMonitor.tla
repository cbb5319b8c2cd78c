--------------------------- MODULE MCCycleMonitor ---------------------------
EXTENDS CycleMonitor
=============================================================================

--------------------------- MODULE MCSrdbTransact ---------------------------
EXTENDS SrdbTransact
=============================================================================

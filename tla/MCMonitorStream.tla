--------------------------- MODULE MCMonitorStream ---------------------------
EXTENDS MonitorStream

MCSize == [k \in Kinds |-> CASE k = "initial" -> 3
                             [] k = "update"  -> 3
                             [] k = "echo"    -> 2
                             [] k = "error"   -> 2]
=============================================================================

----------------------------- MODULE MCNetState -----------------------------
EXTENDS NetState, TLC

CONSTANTS n1, n2, l1

MCEnds == (l1 :> {n1, n2})
=============================================================================

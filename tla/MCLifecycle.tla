----------------------------- MODULE MCLifecycle -----------------------------
EXTENDS Lifecycle, TLC

CONSTANTS r1, r2, l1, l2, q1, q2

MCEnds == (l1 :> {r1, r2}) @@ (l2 :> {r2})
MCNeeds == (q1 :> {r1, r2}) @@ (q2 :> {r1})
=============================================================================

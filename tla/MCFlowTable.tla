---------------------------- MODULE MCFlowTable ----------------------------
EXTENDS FlowTable, TLC

CONSTANTS r1, r2, a, b, l1, l2

\* The flows go from a to b, over l1 or over l2; r1 expires, the others do not.
MCSrc == [r \in Requests |-> a]
MCDst == [r \in Requests |-> b]
MCRoutes == [r \in Requests |-> {{l1}, {l2}}]
MCTtl == [r \in Requests |-> IF r = r1 THEN 1 ELSE 0]

\* Workers and binding segments are interchangeable.
MCSymmetry == Permutations(Workers) \cup Permutations(Bsids)
=============================================================================

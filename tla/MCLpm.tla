------------------------------- MODULE MCLpm -------------------------------
EXTENDS Lpm, TLC

\* The prefixes as the repository's topologies write them.
MCCanonical ==
    {p \in Addresses \X (0..Width) : \A i \in (p[2] + 1)..Width : p[1][i] = 0}

\* No operation tells the values apart.
MCSymmetry == Permutations(Values)
=============================================================================

\* The prefixes of at most three bits as topologies write them, also after a node
\* was misplaced.
SPECIFICATION LpmSpec
SYMMETRY MCSymmetry
CONSTANTS
    Width = 3
    Announced <- MCCanonical
    Values = {rt1, rt2}
    MaxEntries = 3
INVARIANTS
    LongestUnlessSkewed
    NoIdleNode
    TreeIsLinked
    AssertionsHold

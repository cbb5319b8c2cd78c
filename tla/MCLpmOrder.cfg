\* A shorter prefix after a longer one, then two more.
SPECIFICATION LpmSpec
CONSTANTS
    Width = 3
    Announced <- MCCanonical
    Values = {rt1, rt2}
    MaxEntries = 4
INVARIANTS
    LookupIsLongest

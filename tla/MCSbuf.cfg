\* Two pushers and two poppers on a ring of two slots; counters of two bits,
\* so that they wrap after every other turn of the ring.
SPECIFICATION FairSpec
CONSTANTS
    Pushers = {p1, p2}
    Poppers = {c1, c2}
    Elem = {e1, e2}
    Garbage = Garbage
    Capacity = 2
    Width = 2
INVARIANTS
    NoOverrun
    NoGarbagePopped
PROPERTIES
    FifoRefinement
    HeadIsTaken

SPECIFICATION Spec
CONSTANTS
    Callers = {c1, c2, c3}
    Addresses = {a1, a2, a3}
    MaxActive = 1
    MaxQueued = 1
    MaxEntries = 2
    MaxGenerations = 3
SYMMETRY CallerSymmetry
CHECK_DEADLOCK FALSE
INVARIANTS
    SlotAccounting
    FlightsAreShared
    CancelledMeansOwnContext
PROPERTIES
    CacheIsCurrent

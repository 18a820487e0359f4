SPECIFICATION Spec
CONSTANTS
    Callers = {c1, c2, c3}
    Addresses = {a1, a2}
    MaxActive = 2
    MaxWaiters = 2
    MaxEntries = 1
    MaxGenerations = 2
CHECK_DEADLOCK FALSE
INVARIANTS
    ActiveIsWork
    AnswersAreReal
    GatheringIsShared
PROPERTIES
    SnapshotIsNew
    ImplementsOwnedWork
SYMMETRY CallerSymmetry

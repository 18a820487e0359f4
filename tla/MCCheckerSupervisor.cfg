SPECIFICATION SupervisorSpec
CONSTANTS
    Leases = {l1, l2, l3, l4}
    Capacity = 2
SYMMETRY LeaseSymmetry
CHECK_DEADLOCK FALSE
INVARIANTS
    LeaseAccounting
    ShutdownCountsEveryWorker
    CleanShutdownIsFinal

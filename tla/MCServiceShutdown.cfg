SPECIFICATION FairSpec
CONSTANTS
    Conns = {c1, c2, c3}
    MaxConnections = 2
    Leases <- MCLeases
    Capacity = 1
    Limit = 1
CHECK_DEADLOCK FALSE
INVARIANTS
    ConnectionLeases
    ExitZeroIsQuiet
PROPERTIES
    StopLeadsToExit

SPECIFICATION FairSpec
CONSTANTS
    Runs = {r1}
    NumTargets = 2
    Traceroutes = {2}
    Capacity = 1
    Leases <- MCLeases
CHECK_DEADLOCK FALSE
PROPERTIES EveryRunReturns

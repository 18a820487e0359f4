SPECIFICATION Spec
CONSTANTS
    Runs = {r1}
    NumTargets = 2
    Traceroutes = {2}
    Capacity = 2
    Leases <- MCLeases
CHECK_DEADLOCK FALSE
INVARIANTS
    OneOutcomePerTarget
    OnlyStuckLeasesOutliveRun
    CodesAreTruthful

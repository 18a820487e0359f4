SPECIFICATION FairSpec
CONSTANTS
    Callers = {c1, c2}
    Addresses = {a1, a2}
    MaxActive = 1
    MaxWaiters = 2
    MaxEntries = 1
    MaxGenerations = 2
CHECK_DEADLOCK FALSE
PROPERTIES
    LookupsReturn

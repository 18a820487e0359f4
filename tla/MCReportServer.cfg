SPECIFICATION FairSpec
CONSTANTS
    Requests = {r1, r2}
    PublicMode = TRUE
    MaxReports = 1
    MaxDecodes = 1
    MaxWrites = 1
    MaxContexts = 1
CHECK_DEADLOCK FALSE
INVARIANTS
    SlotsAreHeld
    OneReportTerminal
    TerminalIsTruthful
    DrainingStartsNothing
PROPERTIES
    RequestsEnd

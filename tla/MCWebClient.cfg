SPECIFICATION Spec
CONSTANTS
    Purposes = {"diagnostics", "topology"}
    NoSig = NoSig
    NoOwner = NoOwner
    NoResult = NoResult
    NoScope = NoScope
    NoFlight = NoFlight
    NoValue = NoValue
    MaxFlights = 2
    MaxCached = 1
    ErrorPhases = {"unavailable"}
    ClearTimerWorks = TRUE
    Throws = {"http"}
    Inputs = {in1, bad}
    Invalid = bad
    Bases = {b1, b2}
    InsecureBases = {b2}
    InitialBase = b1
    InitialAuth = TRUE
    InitialStorage <- MCStorage
    Tokens = {t1}
    NoToken = NoToken
    NoBase = NoBase
    Addresses = {a1}
    NoAddress = NoAddress
    Views = {"diagnostics", "topology", "geo-map"}
    NoView = NoView
    InitialView = "topology"
    NoReport = NoReport
    MaxOwners = 2
    MaxRevision = 1
    MaxEdits = 1
CHECK_DEADLOCK FALSE
INVARIANTS
    ShownIsCurrent
    CredentialsAreCurrent
    ContextIsScoped
    OneContextLookup
PROPERTIES
    LoadingEnds
    ContextLoadingEnds

SPECIFICATION Spec
CONSTANTS
    Limit = 15
    Static = 3
    NoReport = 0
    Base = 1
    Reserve = 1
    ChunkSize = 2
    CancelWorks = FALSE
    IPs = {1, 2, 3}
    Labels = {x, y}
    NoLabel = none
    LabelRecords = 2
    LabelPage = 2
    LabelRow = 3
    LabelChunk = 1
    Views = {"diagnostics", "topology", "geo-map", "ip-labels", "common-prefix"}
    InitialView = "topology"
    InitialTargets = 2
    MaxTargets = 3
    RowCost = 1
    ReportSizes = {5, 8}
    FindingCost = 3
    FilterCost = 3
    ContextCost = 2
    Width <- MCWidth
    Pow2 <- MCPow2
    CommonMaxAddresses = 3
    AloneCost = 2
    GroupCost = 3
    CommonInputs <- MCCommonInputs
    Wants = {0, 3}
    Filters = {1, 2}
    InitialLabels <- MCLabels
    ImportFiles <- MCImports
    MaxActs = 4
INVARIANTS
    DocumentIsBounded
    SurfaceIsCurrent
    LabelTableIsCurrent
CHECK_DEADLOCK FALSE
PROPERTIES
    RenderingEnds
    ModeIsShown

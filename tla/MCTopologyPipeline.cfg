SPECIFICATION PipelineSpec
CONSTANTS
    MaxNodes = 6
    MaxLinks = 6
    MaxTraceHops = 3
    Public = {1, 2, 3, 4}
    Bundle <- MCBundle
    BundleSize = 3
    ViewReserve = 1
    MaxListed = 2
    Reports <- MCReports
    Rooms = {0, 9, 15, 21, 40}
    Remainings = {0, 3, 8, 12, 16, 40}
INVARIANTS
    SentIsSound
    ClientShowsTheReport

SPECIFICATION Spec
CONSTANTS
    Parts = {"window"}
    p = p
    q = q
    l = l
    Paths <- MCPaths
    Locs <- MCLocs
    Disks <- MCDisks
    Stored <- MCStored
    MaxFiles = 1
    MaxPlotted = 2
    MaxHistory = 0
    MaxOpens = 3
    NoPath = NoPath
    NoSession = NoSession
    FileSelected = FileSelected
    Queues <- MCQueues
    Ops <- MCOps
    OutDirs <- MCOutDirs
    Beside = Beside
    Panics = FALSE
    FileChannels <- MCFileChannels
    Databases <- MCDatabases
    DefinedNames <- MCDefinedNames
    Formulas <- MCFormulas
    SeriesBytes <- MCSeriesBytes
    WebCap = 3
    WebBudget = 5
INVARIANT
    ShownIsItsOwn
CHECK_DEADLOCK FALSE

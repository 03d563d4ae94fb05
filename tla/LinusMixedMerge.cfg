SPECIFICATION Spec
CONSTANTS
    NumNodes = 3
    Backlog = 1
    FdLimit = 100
    ConnectTimeout = FALSE
    RowsPerChunk = 1
    SizeBits = 6
    IntBits = 4
    DEGREES = 2
    LINUS = 0
    NumUsers = 2
    NumProjects = 2
    NumPids = 2
    NumUids = 2
    LineRows = 9
    Radix = 2
    ListenerOpen = {TRUE}
    StaleSet = {"intact"}
    DoubleFree = {"survives"}
    CommitSets <- AllCommits
PROPERTY MergeGathersItsSet

SPECIFICATION Spec
CONSTANTS
    NumNodes = 2
    Backlog = 0
    FdLimit = 14
    ConnectTimeout = TRUE
    RowsPerChunk = 1
    SizeBits = 6
    IntBits = 4
    DEGREES = 3
    LINUS = 0
    NumUsers = 3
    NumProjects = 2
    NumPids = 2
    NumUids = 3
    LineRows = 9
    Radix = 2
    ListenerOpen = {TRUE, FALSE}
    StaleSet = {"intact"}
    DoubleFree = {"survives", "aborts"}
    CommitSets <- AllCommits
INVARIANT SetsArePublished
PROPERTY AnswerCorrect
CHECK_DEADLOCK FALSE

SPECIFICATION FairSpec
CONSTANTS
    NumNodes = 3
    Backlog = 1
    FdLimit = 100
    ConnectTimeout = FALSE
    RowsPerChunk = 1
    SizeBits = 6
    IntBits = 4
    DEGREES = 2
    LINUS = 0
    NumUsers = 5
    NumProjects = 2
    NumPids = 2
    NumUids = 3
    LineRows = 2
    Radix = 2
    ListenerOpen = {TRUE}
    StaleSet = {"intact"}
    DoubleFree = {"survives"}
    CommitSets <- AllAndWide
INVARIANT NoUserTwice
INVARIANT ClientInOrder
INVARIANT ServerInOrder
INVARIANT NoSendToEnded
PROPERTY AllDone

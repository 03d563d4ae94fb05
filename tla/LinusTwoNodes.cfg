SPECIFICATION FairSpec
CONSTANTS
    NumNodes = 2
    Backlog = 1
    FdLimit = 100
    ConnectTimeout = FALSE
    RowsPerChunk = 2
    SizeBits = 6
    IntBits = 6
    DEGREES = 3
    LINUS = 0
    NumUsers = 3
    NumProjects = 2
    NumPids = 2
    NumUids = 3
    LineRows = 9
    Radix = 2
    ListenerOpen = {TRUE}
    StaleSet = {"intact", "recycled"}
    DoubleFree = {"survives"}
    CommitSets <- AllCommits
INVARIANT TypeOK
PROPERTY MergeGathersItsSet
PROPERTY AnswerGiven

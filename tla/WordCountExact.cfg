SPECIFICATION FairSpec
CONSTANTS
    NumNodes = 3
    Backlog = 0
    FdLimit = 40
    ConnectTimeout = FALSE
    RowsPerChunk = 2
    SizeBits = 16
    IntBits = 8
    Words = {a, b, empty}
    TextWords = {a, b, empty}
    LineRows = 9
    ListenerOpen = {TRUE}
    FreedMemory = {"intact"}
    MinRows = 1
    MaxRows = 6
    LongRows = 9
    EmptyWord = empty
    Junk = Junk
    NoFrame = NoFrame
    a = a
    b = b
    empty = empty
    Texts <- MCTexts
    Stump <- MCStump
INVARIANT TypeOK
INVARIANT NoRowLost
INVARIANT CountsOwnShare
PROPERTY AnswerGiven
PROPERTY AllDone

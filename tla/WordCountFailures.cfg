SPECIFICATION Spec
CONSTANTS
    NumNodes = 3
    Backlog = 0
    FdLimit = 4
    ConnectTimeout = TRUE
    RowsPerChunk = 2
    SizeBits = 6
    IntBits = 6
    Words = {a, b, empty}
    TextWords = {a, empty}
    LineRows = 9
    ListenerOpen = {TRUE, FALSE}
    FreedMemory = {"intact", "aborts"}
    MinRows = 0
    MaxRows = 5
    LongRows = 9
    EmptyWord = empty
    Junk = Junk
    NoFrame = NoFrame
    a = a
    b = b
    empty = empty
    Texts <- MCTexts
    Stump <- MCStump
INVARIANT NoRowTwice
INVARIANT NoSendToEnded
INVARIANT ReduceHasEveryFrame
PROPERTY AnswerCorrect
PROPERTY NoFrameReplaced
CHECK_DEADLOCK FALSE

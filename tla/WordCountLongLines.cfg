SPECIFICATION Spec
CONSTANTS
    NumNodes = 3
    Backlog = 1
    FdLimit = 40
    ConnectTimeout = FALSE
    RowsPerChunk = 2
    SizeBits = 16
    IntBits = 8
    Words = {a, b, empty}
    TextWords = {a, b}
    LineRows = 1
    ListenerOpen = {TRUE}
    FreedMemory = {"intact"}
    MinRows = 1
    MaxRows = 5
    LongRows = 0
    EmptyWord = empty
    Junk = Junk
    NoFrame = NoFrame
    a = a
    b = b
    empty = empty
    Texts <- MCTexts
    Stump <- MCStump
INVARIANT DifferentWords

SPECIFICATION FairSpec
CONSTANTS
    BUFSIZE = 3
    MemoryEnd = 5
    Alnum = {97, 98}
    Space = 32
    NUL = 0
    Other = 46
    Files <- MCFiles
    Heap <- MCHeap
    MaxLength = 5
    MaxWords = 3
    InitialCapacity = 1
    HashBits = 14
INVARIANT RunTypeOK
INVARIANT BufferIsFile
INVARIANT RowIsWholeWord
INVARIANT RowsAreWords
INVARIANT MapSound
INVARIANT MapCounts
INVARIANT EveryPairOnce
PROPERTY AnswerCorrect
PROPERTY AnswerGiven

SPECIFICATION RunSpec
CONSTANTS
    BUFSIZE = 3
    MemoryEnd = 5
    Alnum = {97, 98}
    Space = 32
    NUL = 0
    Other = 46
    Files <- MCFiles
    Heap <- MCHeap
    MaxLength = 3
    MaxWords = 1
    InitialCapacity = 1
    HashBits = 14
INVARIANT EveryRowIsAWord

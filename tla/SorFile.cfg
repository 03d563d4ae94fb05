SPECIFICATION FairSpec
CONSTANTS
    BufLen = 3
    Byte <- MCByte
    NL <- MCNewline
    NoLine = NoLine
    ReadErrors = TRUE
    GUESS_SCHEMA_LINES = 2
    MaxColumns = 2
    IntBits = 4
    atof <- MCAtof
    MaxRows = 3
    Files <- MCFiles
INVARIANT TypeOK
INVARIANT LinesInOrder
INVARIANT GuessIsNarrowest
INVARIANT TableKept
PROPERTY TableParsed

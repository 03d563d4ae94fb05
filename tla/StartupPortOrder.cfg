SPECIFICATION Spec
CONSTANTS
    NumNodes = 4
    Backlog = 1
    FdLimit = 20
    ConnectTimeout = FALSE
    PortsDiffer = TRUE
    Port <- MCPort
INVARIANT DirectoryCorrect

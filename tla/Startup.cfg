SPECIFICATION FairSpec
CONSTANTS
    NumNodes = 5
    Backlog = 1
    FdLimit = 20
    ConnectTimeout = FALSE
    PortsDiffer = FALSE
    Port <- MCPort
INVARIANT TypeOK
INVARIANT DirectoryCorrect
INVARIANT DirectoriesAgree
INVARIANT DirectoryExpected
INVARIANT ServerSurvives
PROPERTY RegisteredRun

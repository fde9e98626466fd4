SPECIFICATION Spec
CONSTANTS
    Files <- MCFiles
    MaxRows = 4
    MaxNodes = 3
    Short = 3
    Long = 9
    PastLast = TRUE
    ChunkLines = 2
    OverlapLines = 2
    MaxChars = 6
    Checked = TRUE
    WordSize = 64
INVARIANTS
    TypeOK
    WithinBudget
    SplitsCleanly
    NothingLost
    BoundedWork

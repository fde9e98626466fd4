SPECIFICATION Spec
CONSTANTS
    f1 = f1
    f2 = f2
    watcher = watcher
    r = r
    a = a
    b = b
    Key = {f1, f2}
    File = {f1, f2}
    Watcher = watcher
    Caller = {f1, f2, watcher}
    NoCaller = NoCaller
    Hidden = {}
    Absent = Absent
    Resource = {r}
    Owner <- MCOwner
    Piece = {a, b}
    WrongDim = WrongDim
    ChunkLists <- MCNoLists
    Versions <- MCVersionsEmpty
    QueueCap = 1
    MaxConcurrency = 2
    Watched = FALSE
    Orphans = TRUE
    EditStages = {0, 1, 2}
    MaxEdits = 1
    MaxIgnores = 1
    MaxFaults = 0
    MaxStops = 0
    MaxCrashes = 1
SYMMETRY FileSymmetry
INVARIANTS
    TypeOK
    IndexShowsRealVersion
PROPERTIES
    IndexSpec

SPECIFICATION Spec
CONSTANTS
    f1 = f1
    f2 = f2
    watcher = watcher
    r = r
    a = a
    b = b
    Key = {f1}
    File = {f1}
    Watcher = watcher
    Caller = {f1, watcher}
    NoCaller = NoCaller
    Hidden = {}
    Absent = Absent
    Resource = {r}
    Owner <- MCOwner
    Piece = {a, b}
    WrongDim = WrongDim
    ChunkLists <- MCNoLists
    Versions <- MCVersions
    QueueCap = 1
    MaxConcurrency = 1
    Watched = TRUE
    Orphans = FALSE
    EditStages = {2}
    MaxEdits = 1
    MaxIgnores = 0
    MaxFaults = 1
    MaxStops = 0
    MaxCrashes = 0
PROPERTIES
    Converges

SPECIFICATION WriterSpec
CONSTANTS
    c1 = c1
    c2 = c2
    k1 = k1
    k2 = k2
    r1 = r1
    r2 = r2
    a = a
    b = b
    Key = {k1, k2}
    Resource = {r1, r2}
    Owner <- MCOwner
    Piece = {a, b}
    WrongDim = WrongDim
    Caller = {c1, c2}
    NoCaller = NoCaller
    QueueCap = 1
    ChunkLists <- MCChunkLists
INVARIANTS
    WriterTypeOK
    TableWellFormed
PROPERTIES
    CommitTouchesOneFile
    OnlyOvertakenSpoil
    EveryCallReturns

SPECIFICATION Spec
CONSTANTS
    u1 = u1
    u2 = u2
    n1 = n1
    n2 = n2
    q1 = q1
    q2 = q2
    Uri = {u1, u2}
    Name = {n1, n2}
    Request = {q1, q2}
    Main = Main
    None = None
    MaxAdds = 2
    MaxRemoves = 1
    MaxFaults = 1
    MaxCrashes = 1
INVARIANTS
    TypeOK
    NamesUnique
    RemovedIsQuiet
    RunsHeld
PROPERTIES
    
    ScanReported

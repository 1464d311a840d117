SPECIFICATION FairSpec
CONSTANTS
    w1 = w1
    w2 = w2
    w3 = w3
    a = a
    b = b
    a1 = a1
    a2 = a2
    NoTask = NoTask
    Workers = {w1, w2, w3}
    Clients = {p, q}
    Tasks = {a, b, a1, a2}
    Roots <- TwoRoots
    Spawns <- BatchOfTwo
    Priority <- ByPacket
INVARIANTS
    NoLostWakeup
    DestructorDrains
PROPERTIES
    QueuedRuns
    StopReturns

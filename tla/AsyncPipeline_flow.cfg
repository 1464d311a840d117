SPECIFICATION FairSpec
CONSTANTS
    NumPackets = 4
    MaxActivePackets = 2
    MayFail = {2}
    MaxRuns = 2
    StopAllowed = TRUE
INVARIANTS
    Backpressure
    Accounted
    GraphDrained
    NothingRefused
PROPERTY
    RunReturns

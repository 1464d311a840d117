SPECIFICATION Spec
CONSTANTS
    NumPackets = 2
    MaxActivePackets = 1
    MayFail = {2}
    MaxRuns = 1
    StopAllowed = TRUE
INVARIANT
    StopDrains

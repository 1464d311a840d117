SPECIFICATION Spec
CONSTANTS
    Frames = 6
    MaxDetections = 2
    MaxActive = 2
    max_age_ = 2
    n_init_ = 2
    nn_budget_ = 2
    MaxDistance = 4
    Distances = {0, 3, 4, 5}
    Shapes <- MCShapes
    Costs <- MCCosts
    Entries <- MCEntries
INVARIANTS InOrder UsedOnce Lifecycle MatchedBest
PROPERTIES IdentityKept SolvesToOptimum

SPECIFICATION Spec
CONSTANTS
    a = a
    b = b
    p = p
    s1 = s1
    s2 = s2
    Task = {a, b, p, s1}
    Steps <- POneStep
    Priority <- Ranks
    Overlapping <- SameCode
    TrackerDeps <- LateDep
    TrackerStatus <- AllOpen
    Vanishing = {}
    Sync = Sync
    NoEdge = NoEdge
    Overlap = TRUE
    TakesBack = TRUE
    MaxSyncs = 2
    MaxFaults = 0
INVARIANT Acyclic
CHECK_DEADLOCK FALSE

SPECIFICATION Spec
CONSTANTS
    a = a
    b = b
    p = p
    s1 = s1
    s2 = s2
    Task = {a, b, p, s1, s2}
    Steps <- PIsSplit
    Priority <- Ranks
    Overlapping <- Conflicts
    TrackerDeps <- CycleOfDeps
    TrackerStatus <- Imports
    Vanishing = {p}
    Sync = Sync
    NoEdge = NoEdge
    Overlap = FALSE
    TakesBack = FALSE
    MaxSyncs = 1
    MaxFaults = 1
INVARIANTS
    TypeOK
    Acyclic
PROPERTIES
    OrderRespected
    NobodyLeftBehind
CHECK_DEADLOCK FALSE

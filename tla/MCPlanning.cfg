SPECIFICATION Spec
CONSTANTS
    a1 = a1
    a2 = a2
    Approach = {a1, a2}
    NoApproach = NoApproach
    NumSteps = 2
    BeadsFirst = TRUE
    MaxRounds = 2
    MaxCycles = 2
    MaxSignals = 5
    MaxPending = 2
    MaxFaults = 2
INVARIANTS
    TypeOK
    PlanFitsSelection
    TrackerAgrees
PROPERTIES
    CancelBeforeGoWins
    CeremonyEnds
CHECK_DEADLOCK FALSE

SPECIFICATION FairSpec
CONSTANTS
    t1 = t1
    Task = {t1}
    w1 = w1
    w2 = w2
    Worker = {w1, w2}
    BatchSize = 2
    MaxAttempts = 2
    Faults = {"enqueue", "claim", "beads", "mark"}
    MaxRuns = 2
    MaxAbandoned = 1
INVARIANTS
    TypeOK
    InflightOwned
    AttemptsBounded
    DeliveredMeansProjected
PROPERTIES
    ImplementsEventLog
    DrainsUnlessAbandoned

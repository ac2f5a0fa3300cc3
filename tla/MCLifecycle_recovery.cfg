SPECIFICATION FairSpec
CONSTANTS
    t1 = t1
    Task = {t1}
    NoTask = NoTask
    d1 = d1
    Dispatcher = {d1}
    MaxConcurrent = 1
    OperatorOps <- RecoveryOps
    Faults = {"close"}
    MaxApprovals = 2
    MaxDeaths = 2
PROPERTIES
    ZombiesRecovered
    ReviewsResumed
    ApprovedStarts

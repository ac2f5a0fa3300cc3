SPECIFICATION Spec
CONSTANTS
    t1 = t1
    Task = {t1}
    NoTask = NoTask
    d1 = d1
    d2 = d2
    Dispatcher = {d1, d2}
    MaxConcurrent = 1
    OperatorOps = {"approve"}
    Faults = {}
    MaxApprovals = 1
    MaxDeaths = 0
INVARIANT ApprovalGate

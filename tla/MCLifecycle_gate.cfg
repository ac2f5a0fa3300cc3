SPECIFICATION Spec
CONSTANTS
    t1 = t1
    Task = {t1}
    NoTask = NoTask
    d1 = d1
    Dispatcher = {d1}
    MaxConcurrent = 1
    OperatorOps <- GateOps
    Faults <- AllFaults
    MaxApprovals = 2
    MaxDeaths = 1
INVARIANTS
    TypeOK
    ApprovalGate
    ApprovalsAccounted
    
    
PROPERTY PRLinkKept

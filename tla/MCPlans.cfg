SPECIFICATION Spec
CONSTANTS
    c1 = c1
    c2 = c2
    e = e
    t = t
    u = u
    Conn = {c1, c2}
    Ref = {e, t, u}
    NoRef = NoRef
    Goal = Goal
    Draft <- Drafts
    Config = {"beads", "dag", "refused"}
    MaxRequests = 6
    MaxTurns = 1
    MaxFaults = 1
SYMMETRY Symmetric
INVARIANTS
    TypeOK
    ApprovalSpentOnce
    MaterializedComplete
    MaterializingHasWorker
    GatedUnlessRaced
    BatchOrder
CHECK_DEADLOCK FALSE

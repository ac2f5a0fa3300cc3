SPECIFICATION Spec
CONSTANTS
    c1 = c1
    c2 = c2
    e = e
    t = t
    u = u
    Conn = {c1}
    Ref = {e, t, u}
    NoRef = NoRef
    Goal = Goal
    Draft <- OneDraft
    Config = {"beads"}
    MaxRequests = 2
    MaxTurns = 1
    MaxFaults = 0
PROPERTIES
    MessageKept
CHECK_DEADLOCK FALSE

SPECIFICATION Spec
CONSTANTS
    i1 = i1
    i2 = i2
    Issue = {i1, i2}
    NoIssue = NoIssue
    Labelled = {i1, i2}
    Imported = {i1}
    Allowed = {"status_mismatch", "dependency_mismatch"}
    MaxActs = 2
PROPERTIES
    DispatchGoesOn
CHECK_DEADLOCK FALSE

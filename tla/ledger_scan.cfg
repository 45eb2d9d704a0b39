SPECIFICATION Spec
CONSTANTS
    NoRecord = NoRecord
    Requests = {q1, q2, q3}
    Items = {i1, i2}
    Spaces = {}
    RunIds = {r1}
    Methods = {"items.put", "runs.prepare"}
    Scanning = {TRUE, FALSE}
    Policies <- WidePolicy
    Hour = 1
    MaxTime = 3
SYMMETRY Symmetry
INVARIANTS ScanDecides
CHECK_DEADLOCK FALSE

SPECIFICATION Spec
CONSTANTS
    NoRecord = NoRecord
    Requests = {q1, q2, q3, q4}
    Items = {i1}
    Spaces = {w1}
    RunIds = {r1}
    Methods = {"items.put", "items.delete", "items.restore", "workspaces.put", "workspaces.delete","runs.prepare", "runs.claim", "runs.finish"}
    Scanning = {FALSE}
    Policies <- BothPolicies
    Hour = 1
    MaxTime = 2
SYMMETRY Symmetry
INVARIANTS AtMostOnce ClaimOnce ReceiptsReadable RetryFinds LogAnchored HistoryKept
CHECK_DEADLOCK FALSE

SPECIFICATION Spec
CONSTANTS
    Clients = {c1, c2}
    Tasks = {t1}
    LeaseIds = {l1}
    Files = {}
    Ttls = {1}
    Ops = {"renew"}
    Board = {}
    Foreign = FALSE
    Crashes = TRUE
    MaxTime = 3
    MaxPasses = 2
    MaxAttempts = 2
    NoLease = NoLease
    NoTask = NoTask
    NoExpiry = NoExpiry
    Unreadable = Unreadable
CHECK_DEADLOCK FALSE
INVARIANTS RefusedRenewalTrue

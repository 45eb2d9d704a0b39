SPECIFICATION FairSpec
CONSTANTS
    Clients = {c1, c2}
    Tasks = {t1}
    LeaseIds = {l1, l2}
    Files = {}
    Ttls = {1, NoExpiry}
    Ops = {"ready", "renew"}
    Board = {}
    Foreign = FALSE
    Crashes = FALSE
    MaxTime = 2
    MaxPasses = 2
    MaxAttempts = 2
    NoLease = NoLease
    NoTask = NoTask
    NoExpiry = NoExpiry
    Unreadable = Unreadable
CHECK_DEADLOCK FALSE
PROPERTIES LapsedCleared

SPECIFICATION MCSpec
CONSTANTS
    Clients = {c1, c2}
    Tasks = {t1, t2}
    LeaseIds = {l1, l2}
    Files = {f1, f2}
    Ttls = {1}
    Ops = {"diagnose", "release", "renew", "widen", "ready"}
    Board = {"ready", "done"}
    Foreign = TRUE
    Crashes = TRUE
    MaxTime = 2
    MaxPasses = 2
    MaxAttempts = 2
    NoLease = NoLease
    NoTask = NoTask
    NoExpiry = NoExpiry
    Unreadable = Unreadable
SYMMETRY Symmetry
INVARIANTS OneActive AnswersTrue NoLostWidening OffersComplete
PROPERTIES HolderSpec EndedForever StaleOnlyLapsed
CHECK_DEADLOCK FALSE

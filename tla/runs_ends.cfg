SPECIFICATION FairSpec
CONSTANTS
    NoHost = NoHost
    NoTask = NoTask
    NoCheckout = NoCheckout
    Hosts = {h1, h2, h3}
    Runs = {r1, r2}
    Tasks = {t1}
    Places = {p1}
    Trees = {w1}
    Kinds = {"external_terminal", "managed"}
    Limits = {2}
    Ttl = 1
    MaxTime = 1
    MaxVersion = 0
INVARIANTS ProviderHasProcess
PROPERTIES OrphanFreed
CHECK_DEADLOCK FALSE

SPECIFICATION Spec
CONSTANTS
    NoHost = NoHost
    NoTask = NoTask
    NoCheckout = NoCheckout
    Hosts = {h1, h2}
    Runs = {r1, r2, r3}
    Tasks = {t1}
    Places = {p1, p2}
    Trees = {w1, w2, w3}
    Kinds = {"external_terminal"}
    Limits = {1, 2}
    Ttl = 1
    MaxTime = 2
    MaxVersion = 2
CONSTRAINT Small
SYMMETRY Symmetry
INVARIANTS OneRunPerCheckout CapacityKept OneWriter EndedIsOver InPlace DeletedNotInUse
CHECK_DEADLOCK FALSE

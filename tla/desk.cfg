SPECIFICATION DeskSpec
CONSTANTS
    DecisionIds = {x1, x2}
    Attempts = {a1}
    Callbacks = {b1}
    Kinds = {"permission", "change_review", "merge_unreviewed"}
    LiveTtl = 1
    HostTtl = 2
    MaxLive = 1
    MaxRaised = 2
    MaxVersion = 2
    Horizon = 2
    Cards = {t1}
    Fields = {"title", "description"}
    Texts = {"x", "y"}
    Jobs = {x1, x2}
    Workers = {w1}
    NoWorker = NoWorker
    JobLease = 1
    Debounce = 1
    Quota = 1
    Window = 2
    MaxRevision = 3
    MaxSettings = 2
    MaxClock = 2
    Sessions = {x1, x2}
    Clients = {ann, bob}
    NoClient = NoClient
    NoToken = NoToken
    LeaseTtl = 1
    MaxMoves = 2
    MaxTokens = 2
    MaxItem = 3
    LastDay = 2
    MaxFaults = 1
    Verified = {"u1", "u2"}
    Gaps = {"g1", "g2"}
    NoRow = NoRow
    Unfiled = Unfiled
    MaxRuns = 3
    Calls = {x1, x2, x3}
    Children = {p1, p2, p3}
    NoChild = NoChild
    NoFile = NoFile
    Slots = 2
    MaxFiles = 2
    MaxMishaps = 1
    Callers = {x1, x2}
    Requests <- DeskRequests
    Blocks <- DeskBlocks
    AnyTask = AnyTask
    Permits <- DeskPermits
    MaxIssued = 2
    LastInstant = 1
    MaxRestarts = 2
    Notifiers = {x1, x2}
    FreshFor = 1
    SnoozeFor = 1
    MaxEvents = 5
    LastHour = 2
    MaxLosses = 1
    Servers = {x1, x2, x3}
    Nobody = Nobody
CONSTRAINT Small
SYMMETRY Symmetry
INVARIANTS
    ConsentHonoured AnsweredOnce
    OneJob OffMeansOff CurrentApplies
    OwnWorkShown NoLeaseLeft NoEditOverwritten
    GapsTrue
    OwnReply FromThePath PoolBounded
    OverIsOver UniqueIds
    BannersWanted
    OrphansFromDetached
CHECK_DEADLOCK FALSE

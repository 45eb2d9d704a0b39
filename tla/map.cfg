SPECIFICATION MCSpec
CONSTANTS
    Paths = {a, b}
    Absent = Absent
    Unreadable = Unreadable
    Content = {src, Absent, Unreadable}
    Unread = Unread
    Rescan = Rescan
    GitHead = GitHead
    QueueCap = 1
    BufferCap = 1
    BatchLimit = 2
    MaxAttempts = 2
    Budgets <- Families
    Given = {a}
INVARIANT NoLostEdit
CHECK_DEADLOCK FALSE
PROPERTIES CatchesUp

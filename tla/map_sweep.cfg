SPECIFICATION MCSpec
CONSTANTS
    Paths = {a, b}
    Absent = Absent
    Unreadable = Unreadable
    Content = {src, Absent, Unreadable}
    Unread = Unread
    Rescan = Rescan
    GitHead = GitHead
    QueueCap = 1
    BufferCap = 1
    BatchLimit = 2
    MaxAttempts = 2
    Given = {a}
    Budgets <- BuildAndStart
INVARIANTS SweepSettles
CHECK_DEADLOCK FALSE

SPECIFICATION Spec
CONSTANTS
    t1 = t1
    t2 = t2
    p1 = p1
    p2 = p2
    None = None
    Procs = {p1}
    Tasks = {t1}
    Host <- OneTask
    Events = {1, 2}
    Ts <- InTurn
    Clock = {}
    Delta <- NoDelta
    Sizes <- Two
    Capacity = 2
    Fits <- MCFits
    MaxRetries = 0
    MaxAttempts = 64
    MaxFaults = 1
    Outage = FALSE
    Resend = TRUE
    InOrder = FALSE
INVARIANT StoredOnce
CHECK_DEADLOCK FALSE

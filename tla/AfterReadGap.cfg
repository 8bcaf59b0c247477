SPECIFICATION HSpec
CONSTANTS
    t1 = t1
    t2 = t2
    p1 = p1
    p2 = p2
    None = None
    Procs = {p1}
    Tasks = {t1}
    Host <- OneTask
    Events = {1, 2}
    Ts <- InTurn
    Clock = {}
    Delta <- NoDelta
    Sizes <- Two
    Capacity = 2
    Fits <- MCFits
    MaxRetries = 0
    MaxAttempts = 64
    MaxFaults = 0
    Outage = FALSE
    Resend = FALSE
    InOrder = TRUE
    r1 = r1
    Readers = {r1}
    ReaderHost <- ReadsAtP1
    Configs <- AfterOne
    Exclusive = FALSE
INVARIANT AfterReadComplete
CHECK_DEADLOCK FALSE

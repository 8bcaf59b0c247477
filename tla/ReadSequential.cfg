SPECIFICATION HSpec
CONSTANTS
    t1 = t1
    t2 = t2
    p1 = p1
    p2 = p2
    None = None
    Procs = {p1}
    Tasks = {t1}
    Host <- OneTask
    Events = {1, 2, 3, 4}
    Ts <- InTurn
    Clock = {}
    Delta <- SecondHasDelta
    Sizes <- ThirdIsTwo
    Capacity = 2
    Fits <- MCFits
    MaxRetries = 1
    MaxAttempts = 64
    MaxFaults = 2
    Outage = FALSE
    Resend = FALSE
    InOrder = TRUE
    r1 = r1
    Readers = {r1}
    ReaderHost <- ReadsAtP1
    Configs <- EveryConfig
    Exclusive = TRUE
INVARIANTS
    HTypeOK
    ReadMatchesReference
    ReadsInOrder
CHECK_DEADLOCK FALSE

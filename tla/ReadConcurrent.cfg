SPECIFICATION HSpec
CONSTANTS
    t1 = t1
    t2 = t2
    p1 = p1
    p2 = p2
    None = None
    Procs = {p1, p2}
    Tasks = {t1, t2}
    Host <- TwoProcesses
    Events = {1, 2, 3}
    Ts <- InTurn
    Clock = {}
    Delta <- ThirdHasDelta
    Sizes <- ThirdTooBig
    Capacity = 2
    Fits <- MCFits
    MaxRetries = 0
    MaxAttempts = 3
    MaxFaults = 1
    Outage = FALSE
    Resend = FALSE
    InOrder = FALSE
    r1 = r1
    Readers = {r1}
    ReaderHost <- ReadsAtP1
    Configs <- LooseConfigs
    Exclusive = FALSE
INVARIANTS
    FullReadSeesAcked
    RecentReadFull
    TooBigIsGenuine
CHECK_DEADLOCK FALSE

SPECIFICATION FairSpec
CONSTANTS
    t1 = t1
    t2 = t2
    p1 = p1
    p2 = p2
    None = None
    Procs = {p1}
    Tasks = {t1, t2}
    Host <- OneProcess
    Events = {1, 2}
    Ts <- InTurn
    Clock = {}
    Delta <- SecondHasDelta
    Sizes <- Two
    Capacity = 2
    Fits <- MCFits
    MaxRetries = 1
    MaxAttempts = 3
    MaxFaults = 2
    Outage = TRUE
    Resend = FALSE
    InOrder = FALSE
PROPERTY AppendTerminates
CHECK_DEADLOCK FALSE

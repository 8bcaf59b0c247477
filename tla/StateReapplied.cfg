SPECIFICATION Spec
CONSTANTS
    t1 = t1
    t2 = t2
    p1 = p1
    p2 = p2
    None = None
    Procs = {p1, p2}
    Tasks = {t1, t2}
    Host <- TwoProcesses
    Events = {1, 2}
    Ts <- InTurn
    Clock = {}
    Delta <- AllDelta
    Sizes <- Unit
    Capacity = 2
    Fits <- MCFits
    MaxRetries = 1
    MaxAttempts = 64
    MaxFaults = 1
    Outage = FALSE
    Resend = FALSE
    InOrder = FALSE
PROPERTY ReapplyIsNoop
CHECK_DEADLOCK FALSE

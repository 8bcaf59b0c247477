SPECIFICATION Spec
CONSTANTS
    t1 = t1
    t2 = t2
    p1 = p1
    p2 = p2
    None = None
    Procs = {p1}
    Tasks = {t1}
    Host <- OneTask
    Events = {1, 2, 3}
    Ts <- InTurn
    Clock = {}
    Delta <- ThirdHasDelta
    Sizes <- ThirdTooBig
    Capacity = 2
    Fits <- MCFits
    MaxRetries = 0
    MaxAttempts = 64
    MaxFaults = 0
    Outage = FALSE
    Resend = FALSE
    InOrder = FALSE
INVARIANT NoSegmentSkipped
CHECK_DEADLOCK FALSE

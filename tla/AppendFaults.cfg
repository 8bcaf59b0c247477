SPECIFICATION Spec
CONSTANTS
    t1 = t1
    t2 = t2
    p1 = p1
    p2 = p2
    None = None
    Procs = {p1, p2}
    Tasks = {t1, t2}
    Host <- TwoProcesses
    Events = {1, 2, 3}
    Ts <- InTurn
    Clock = {}
    Delta <- SecondHasDelta
    Sizes <- ThirdIsTwo
    Capacity = 2
    Fits <- MCFits
    MaxRetries = 1
    MaxAttempts = 2
    MaxFaults = 2
    Outage = FALSE
    Resend = FALSE
    InOrder = FALSE
INVARIANTS
    TypeOK
    AckedReachable
    AckedStateWritten
    StoredOnce
    RolledSegmentsFull
    NoSegmentSkipped
    BackPressureMasked
    DivergedOnlyAfterRolls
PROPERTIES
    ImplementsLog
CHECK_DEADLOCK FALSE

SPECIFICATION Spec
CONSTANTS
    s1 = s1
    s2 = s2
    s3 = s3
    s4 = s4
    c1 = c1
    c2 = c2
    c3 = c3
    c4 = c4
    c5 = c5
    d1 = d1
    d2 = d2
    d3 = d3
    d4 = d4
    d5 = d5
    l1 = l1
    l2 = l2
    g1 = g1
    a1 = a1
    a2 = a2
    a3 = a3
    a4 = a4
    a5 = a5
    a6 = a6
    p1 = p1
    p2 = p2
    None = None
    Creators = {c1, c2, c3, c4, c5}
    Deleters = {d1, d2, d3, d4, d5}
    Listers = {l1}
    Getters = {g1}
    Appenders = {a1, a2, a3, a4, a5, a6}
    Sids = {s1, s2, s3, s4}
    Processes = {p1, p2}
    Sid <- Session
    Proc <- Moves
    Delta = {a1, a2, a4}
    Capacity = 1
    Casts <- Lives
    Sequential = {s4}
    Recreate = {s4}
    Late = {s1, s2}
    MaxFaults = 1
INVARIANTS
    TypeOK
    ListComplete
    ListSound
    DeleteRemovesAcked
    AckedVisible
    FreshEmpty
CHECK_DEADLOCK FALSE

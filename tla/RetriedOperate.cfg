SPECIFICATION Spec
CONSTANTS
    p = p
    q = q
    c1 = c1
    c2 = c2
    c3 = c3
    c4 = c4
    a1 = a1
    a2 = a2
    a3 = a3
    g1 = g1
    d1 = d1
    l1 = l1
    l2 = l2
    v1 = v1
    v2 = v2
    v3 = v3
    v4 = v4
    v5 = v5
    k1 = k1
    m1 = m1
    m2 = m2
    m3 = m3
    Word <- MCWord
    Pad <- MCPad
    Jobs = {c1, c2, c3, c4, a1, a2, a3, g1, d1, l1, l2, v1, v2, v3, v4, v5, k1, m1, m2, m3}
    Job <- MCJob
    Processes = {p, q}
    Ensures = {p}
    Override <- RetryOverride
    Casts <- OneCreate
    MaxVersion = 1
    MaxFaults = 1
INVARIANTS
    AppendedOnce
CHECK_DEADLOCK FALSE

SPECIFICATION Spec
CONSTANTS
    a1 = a1
    a2 = a2
    i1 = i1
    i2 = i2
    q1 = q1
    s1 = s1
    s2 = s2
    s3 = s3
    e1 = e1
    e2 = e2
    e3 = e3
    e4 = e4
    Red = Red
    red = red
    blue = blue
    green = green
    the = the
    None = None
    Adders = {a1, a2}
    Ingesters = {i1, i2}
    Searchers = {q1}
    Sids = {s1, s2, s3}
    Eids = {e1, e2, e3, e4}
    Words = {Red, red, blue, green, the}
    Lower <- MCLower
    Stopwords = {the}
    Session <- MCSession
    Input <- MCInput
    Query <- MCQuery
    MaxPostings = 2
    MaxCandidates = 4
    TopK = 1
    Serial = TRUE
    MaxFaults = 1
INVARIANTS
    TypeOK
    SearchComplete
    RowsReplaced
    RefsReplaced
    NoDanglingRef
    PostingsBounded
CHECK_DEADLOCK FALSE

SPECIFICATION Spec
CONSTANTS
    s1 = s1
    s2 = s2
    s3 = s3
    s4 = s4
    s5 = s5
    l1 = l1
    l2 = l2
    d1 = d1
    d2 = d2
    f = f
    g = g
    None = None
    png = png
    TextPlain = TextPlain
    Mimes = {TextPlain, png}
    Blobs = {1, 2, 3}
    Utf8 = {1, 2}
    Savers = {s1}
    Loaders = {l1}
    Deleters = {}
    Files = {f}
    File <- OneFile
    Part <- BinaryText
    Want <- WantLatest
    MaxFaults = 0
INVARIANT LoadDecodes
CHECK_DEADLOCK FALSE

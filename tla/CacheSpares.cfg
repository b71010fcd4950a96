SPECIFICATION Spec
CONSTANTS
    k1 = k1
    c1 = c1
    c2 = c2
    t1 = t1
    t2 = t2
    w1 = w1
    None = None
    Empty = Empty
    Torn = Torn
    Keys = {k1}
    Contents = {c1, c2}
    Threads = {t1, t2}
    Procs = {t1, t2}
    ProcOf <- TwoProcs
    Tokens = {w1}
    TokenOf <- SharedToken
    Ttls = {1}
    MaxClock = 1
    Weight <- SameWeight
    HotMaxEntries = 1
    HotMaxTokens = 1
    Modes = {"bounded"}
    MaxDelete = 2
    MaxFaults = 0
PROPERTY GcSparesReady

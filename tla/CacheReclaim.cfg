SPECIFICATION FairSpec
CONSTANTS
    k1 = k1
    c1 = c1
    c2 = c2
    t1 = t1
    t2 = t2
    w1 = w1
    None = None
    Empty = Empty
    Torn = Torn
    Keys = {k1}
    Contents = {c1}
    Threads = {t1}
    Procs = {t1}
    ProcOf <- Alone
    Tokens = {w1}
    TokenOf <- AloneToken
    Ttls = {1}
    MaxClock = 2
    Weight <- SameWeight
    HotMaxEntries = 1
    HotMaxTokens = 1
    Modes = {"bounded"}
    MaxDelete = 2
    MaxFaults = 2
PROPERTIES
    ExpiredReclaimed
    OrphanFilesReclaimed
    TempsReclaimed

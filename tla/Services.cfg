SPECIFICATION Services
CONSTANTS
    Keys = {k1, k2, k3, k4}
    None = None
    Content = c
    HotMaxEntries = 3
    HotMaxTokens = 5
    Weights = {0, 1, 2, 4, 6}
    sA = sA
    sB = sB
    rA = rA
    rB = rB
    pA = pA
    ok = ok
    bad = bad
    Invocations = {1, 2}
    Marks = {ok, bad}
    Reports <- SomeReports
    Viewers = {v}
    MaxRecords = 3
    Calls = {c1, c2}
    Requests <- SomeRequests
    Workers = 1
    Layers = 2
    Debounce = 2
    MaxConfigEdits = 3
    Invalid = {2}
    Commands = {w1, w2}
    MaxPersists = 4
    MaxKills = 1
    PlanKeys = {q1, q2}
    Payloads = {d}
    Processes = {x1, x2}
    MaxEntries = 1
    MaxStores = 2
    old = old
    new1 = new1
    new2 = new2
    Openers = {old, new1, new2}
    Latest <- LatestOf
    Founded = {0, 1, 2}
    Clients = {y1, y2}
    Queries = {qa}
    Handles = {h1}
    Ttl = 1
    MaxRows = 2
    LastDay = 2
    MaxRevisions = 1
    MaxCalls = 2
    Sources = {f1, f2}
    Versions = {1, 2, 3}
    TextOf <- TextTable
    Sees <- SeesTable
    Providers = {z1, z2}
    Builders = {b1, b2}
    MaxRelists = 2
    MaxBuilds = 2
INVARIANTS
    HotAccounting
    HotKeepsRecent
    CountsAreFacts
    LatenciesAreFacts
    SnapshotNested
    NoWorkForNobody
    SettingsReadable
    SchemaUsable
    TextsAreRecent
    VectorsFollowTexts
PROPERTIES
    SignalsEnd
    WatcherSettles
    EmitsAreDebounced
    ReplayLossy
CHECK_DEADLOCK FALSE

CONSTANTS
    r1 = r1
    r2 = r2
    a1 = a1
    a2 = a2
    a3 = a3
    Requests = {r1, r2}
    Asks <- MCAsks
    BuiltIn = {"f"}
    Legs <- MCLegs
    Fresh <- MCFresh
    TTL <- MCTTL
    LastGoodTTL = 1
    MaxWork = 1
    MaxOutages = 1
    Movers = {m1, m2}
    Hooks = {k1, k2}
    Senders = {s1, s2}
    MaxReports = 2
    MaxHalts = 2
    Calls = {c1, c2, c3}
    Limit = 2
    Window = 3
    BlockFor = 2
    MaxHits = 5
    MaxFaults = 2
    Callers = {b1, b2}
    Threshold = 2
    FailWindow = 2
    OpenFor = 2
    MaxDelay = 1
    Issuers = {i1, i2, i3}
    Addresses = {a1, a2, a3}
    Foreign = {a3}
    BriaRetries = 1
    MaxMishaps = 3
    Operators = {o1, o2}
    MaxFailedCalls = 3
    Jobs = {j1, j2}
    Psbts = {p1, p2}
    MaxBreaks = 2
SPECIFICATION Spec
INVARIANTS
    RatesAreHonest
    OutcomesAgree
    CounterExpires
    OpenIsEarned
    OneAddressTold
    SetupRepeatable
    ArchivedIsStored
CHECK_DEADLOCK FALSE

CONSTANTS
    p1 = p1
    p2 = p2
    c1 = c1
    r1 = r1
    t1 = t1
    b1 = b1
    b2 = b2
    Pushes = {p1, p2}
    Callbacks = {c1}
    Manuals = {}
    Bare = {}
    EarlyAnswers = FALSE
    Requests = {r1}
    Tickers = {t1}
    Consumers = {b1, b2}
    Driver = "bria"
    MaxAttempts = 2
    LostAnswers = FALSE
    EarlyOutcome = FALSE
    MaxFaults = 1
    MaxDbErrors = 0
    MaxCrashes = 0
SPECIFICATION FairSpec

    
PROPERTIES
    PaidComesToAnEnd
    SettledIsCompleted
CHECK_DEADLOCK FALSE

CONSTANTS
    p1 = p1
    p2 = p2
    c1 = c1
    c2 = c2
    r1 = r1
    r2 = r2
    t1 = t1
    b1 = b1
    Pushes = {p1, p2}
    Callbacks = {c1, c2}
    Manuals = {}
    Bare = {}
    EarlyAnswers = FALSE
    Requests = {r1, r2}
    Tickers = {t1}
    Consumers = {b1}
    Driver = "mock"
    MaxAttempts = 1
    LostAnswers = TRUE
    EarlyOutcome = TRUE
    MaxFaults = 0
    MaxDbErrors = 0
    MaxCrashes = 1
SPECIFICATION Spec
SYMMETRY Symmetry
INVARIANTS
    SentOnlyIfPaid
PROPERTIES
    ComponentsAgree
CHECK_DEADLOCK FALSE

CONSTANTS
    r1 = r1
    r2 = r2
    t1 = t1
    t2 = t2
    c1 = c1
    Requests = {r1, r2}
    Tickers = {t1, t2}
    Consumers = {c1}
    Driver = "bria"
    MaxAttempts = 2
    Overwrites = TRUE
    LostAnswers = TRUE
    MaxFaults = 2
    EarlyOutcome = TRUE
    MaxDbErrors = 1
    MaxCrashes = 1
SPECIFICATION Spec
SYMMETRY Symmetry
INVARIANTS
    TypeOK
    PayoutBacked
    SwapsBounded
    CompletedOnlyIfSettled
    TrailSound
    DispatchBudget
PROPERTIES
    KeepsPromise
CHECK_DEADLOCK FALSE

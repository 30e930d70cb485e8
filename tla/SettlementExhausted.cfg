CONSTANTS
    r1 = r1
    t1 = t1
    c1 = c1
    Requests = {r1}
    Tickers = {t1}
    Consumers = {c1}
    Driver = "bria"
    MaxAttempts = 2
    Overwrites = FALSE
    LostAnswers = FALSE
    MaxFaults = 2
    EarlyOutcome = FALSE
    MaxDbErrors = 0
    MaxCrashes = 0
SPECIFICATION FairSpec
PROPERTIES
    ExhaustedIsReviewed
CHECK_DEADLOCK FALSE

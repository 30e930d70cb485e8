CONSTANTS
    Workers = {w1, w2}
    Messages = {m1, m2}
    Taps = {m2}
    MaxRetries = 1
    MaxDeliveries = 3
    MaxTroubles = 2
SPECIFICATION FairSpec
INVARIANTS
    HandledOnce
    ProcessedIsAnswered
    EventAccounted
PROPERTIES
    FailedIsResolved
CHECK_DEADLOCK FALSE

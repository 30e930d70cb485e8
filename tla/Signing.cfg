CONSTANTS
    q1 = q1
    q2 = q2
    p1 = p1
    p2 = p2
    Chains = {q1, q2}
    Psbts = {p1, p2}
    Script <- OnePayout
    Burst = 2
    MaxFaults = 2
    MaxPasses = 1
    MaxBreaks = 1
    MaxOutages = 1
    MaxCrashes = 1
    MaxTroubles = 3
SPECIFICATION FairSpec
INVARIANTS
    CursorNotAhead
    AcknowledgedIsSubmitted
    SubmittedOnce
PROPERTIES
    EveryEventProcessed
CHECK_DEADLOCK FALSE

CONSTANTS
    q1 = q1
    q2 = q2
    p1 = p1
    p2 = p2
    Chains = {q1, q2}
    Psbts = {p1, p2}
    Script <- TwoPayouts
    Burst = 2
    MaxFaults = 1
    MaxPasses = 1
    MaxBreaks = 0
    MaxOutages = 0
    MaxCrashes = 0
    MaxTroubles = 1
SPECIFICATION Spec
INVARIANTS
    CursorAfterSuccess
CHECK_DEADLOCK FALSE

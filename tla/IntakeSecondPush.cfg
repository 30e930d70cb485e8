CONSTANTS
    p1 = p1
    p2 = p2
    c1 = c1
    Pushes = {p1, p2}
    Callbacks = {c1}
    Manuals = {}
    Bare = {}
    EarlyAnswers = FALSE
    MaxCrashes = 0
SPECIFICATION FairSpec
PROPERTIES
    PaidIsCredited
CHECK_DEADLOCK FALSE

CONSTANTS
    p1 = p1
    p2 = p2
    c1 = c1
    c2 = c2
    m1 = m1
    m2 = m2
    Pushes = {p1, p2}
    Callbacks = {c1, c2}
    Manuals = {m1, m2}
    Bare = {p2}
    EarlyAnswers = TRUE
    MaxCrashes = 1
SPECIFICATION Spec
SYMMETRY Symmetry
INVARIANTS
    DecidedAsAnswered
    AnnouncedOnce
    ReceiptIsKept
CHECK_DEADLOCK FALSE

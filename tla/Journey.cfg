CONSTANTS
    h1 = h1
    h2 = h2
    q1 = q1
    s1 = s1
    s2 = s2
    i1 = i1
    i2 = i2
    i3 = i3
    w1 = w1
    Handlers = {h1, h2}
    Quotes = {q1}
    Sessions = {s1, s2}
    Identities = {i1, i2, i3}
    Blocked = {i3}
    Wizards = {w1}
    Limit = 2
    MaxDisturbances = 1
SPECIFICATION FairSpec
INVARIANTS
    PayableIsEquipped
    ScreenedIfUndisturbed
    WizardNotAhead
PROPERTIES
    PausedInOrder
    CompletedIsShown
CHECK_DEADLOCK FALSE

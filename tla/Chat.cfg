CONSTANTS
    h1 = h1
    h2 = h2
    o1 = o1
    o2 = o2
    Handlers = {h1, h2}
    Orders = {o1, o2}
    MaxConversations = 2
    MaxDisturbances = 1
SPECIFICATION Spec
SYMMETRY Symmetry
INVARIANTS
    
    IdentityIsOwn
    NoticeFindsCustomer
CHECK_DEADLOCK FALSE

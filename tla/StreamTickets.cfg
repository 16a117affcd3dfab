SPECIFICATION Spec
CONSTANTS
    Instances = {i1, i2}
    u1 = u1
    u2 = u2
    t1 = t1
    Users = {u1, u2}
    Connections = {c1, c2, c3}
    NoConnection = NoConnection
    Tickets = {t1, t2}
    Holder <- MCHolder
    Notes = {}
    Updates = {}
    NoEvent = NoEvent
    Audience <- MCAudience
    Overlap = FALSE
    MaxFailures = 2
    MaxChannel = 1
SYMMETRY MCSymmetry
CHECK_DEADLOCK FALSE
INVARIANTS ReachableStream NoValidPageIsDeaf
PROPERTIES ImplementsDesk

SPECIFICATION Spec
CONSTANTS
    Instances = {i1, i2}
    u1 = u1
    u2 = u2
    t1 = t1
    Users = {u1, u2}
    Connections = {c1}
    NoConnection = NoConnection
    Tickets = {t1}
    Holder <- MCHolder
    Notes = {n1}
    Updates = {x1}
    NoEvent = NoEvent
    Audience <- MCAudience
    Overlap = FALSE
    MaxFailures = 0
    MaxChannel = 2
CHECK_DEADLOCK FALSE
INVARIANTS TypeOK BadgeIsRight
PROPERTIES EventsAreHeard

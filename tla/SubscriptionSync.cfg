SPECIFICATION Spec
CONSTANTS
    Subs = {s1}
    NoSub = NoSub
    Handlers = {h1, h2}
    MaxRequests = 2
    MaxRows = 3
    MaxPending = 1
    MaxAgain = 3
SYMMETRY MCSymmetry
CHECK_DEADLOCK FALSE
INVARIANTS TypeOK OneRowPerSubscription ActiveIsAlive SubscriptionHasRow PaidOnce

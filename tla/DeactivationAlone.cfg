SPECIFICATION AloneSpec
CONSTANTS
    ana = ana
    bia = bia
    caio = caio
    sales = sales
    board = board
    Users <- MCUsers
    NoUser = NoUser
    Admins <- MCAdmins
    Supervisors <- MCSupervisors
    DeptOf <- MCDeptOf
    Tickets = {t1, t2}
    NoTicket = NoTicket
    Requesters = {}
    Deactivatable = {}
    Privacy = {}
    MaxTargets = 3
    StartRows <- MCStartRows
INVARIANTS InactiveHoldNothing
PROPERTIES OnlyLeaverReplaced

SPECIFICATION SharedSpec
CONSTANTS
    ana = ana
    bia = bia
    caio = caio
    sales = sales
    board = board
    Users <- MCUsers
    NoUser = NoUser
    Admins <- MCAdmins
    Supervisors <- MCSupervisors
    DeptOf <- MCDeptOf
    Tickets = {t1}
    NoTicket = NoTicket
    Requesters = {}
    Deactivatable = {}
    Privacy = {}
    MaxTargets = 2
    StartRows <- MCStartRaces
PROPERTIES EveryJobEnds
CHECK_DEADLOCK FALSE

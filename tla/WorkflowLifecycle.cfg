SPECIFICATION Spec
CONSTANTS
    ana = ana
    bia = bia
    caio = caio
    sales = sales
    board = board
    Users <- MCUsers
    NoUser = NoUser
    Admins <- MCAdmins
    Supervisors <- MCSupervisors
    DeptOf <- MCDeptOf
    Tickets = {t1}
    NoTicket = NoTicket
    Requesters = {ana}
    Deactivatable = {bia}
    Privacy = {TRUE, FALSE}
    MaxTargets = 2
INVARIANTS TypeOK AwaitingIsAudited CurrentIsTarget TrailExplainsAssignee
PROPERTIES TerminalKeepsPeople

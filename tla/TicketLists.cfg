SPECIFICATION TimelineSpec
CONSTANTS
    ana = ana
    bia = bia
    caio = caio
    sales = sales
    board = board
    Users <- MCUsers
    NoUser = NoUser
    Admins <- MCAdmins
    Supervisors <- MCSupervisors
    DeptOf <- MCDeptOf
    Tickets = {t1}
    NoTicket = NoTicket
    Requesters = {ana}
    Deactivatable = {}
    Privacy = {TRUE, FALSE}
    MaxTargets = 2
    DayTicks = 4
    FirstWeekday = 5
    Served = {"update", "files", "accept", "approve", "cancel", "delete", "correction", "assignee", "remove", "next", "reviewer"}
    Statuses = {"awaiting_verification", "under_verification", "completed", "rejected"}
    DueDates <- MCDueDates
    Waits = {1, 2}
    MaxNow = 4
    MaxRows = 3
    ArchiveTicks = 1
    Unknown = Unknown
    AnyValue = AnyValue
INVARIANTS NowhereTwice BoardShowsTheList ReadersHear RowsTellTheTrail
PROPERTIES TimeLosesNothing
CHECK_DEADLOCK FALSE

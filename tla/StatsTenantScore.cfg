SPECIFICATION TimelineSpec
CONSTANTS
    ana = ana
    caio = caio
    sales = sales
    board = board
    Users <- MCUsers
    NoUser = NoUser
    Admins <- MCAdmins
    Supervisors <- MCSupervisors
    DeptOf <- MCDeptOf
    Tickets = {t1, t2}
    NoTicket = NoTicket
    Requesters = {caio}
    Deactivatable = {}
    Privacy = {FALSE}
    MaxTargets = 2
    DayTicks = 2
    FirstWeekday = 4
    Served = {"approve", "reject"}
    Statuses = {"awaiting_verification"}
    DueDates <- MCDueDates
    Waits = {}
    MaxNow = 6
    MaxRows = 7
    PeriodDays = 3
    MinEntries = 1
    TrendDays = 3
    TrendWeeks = 2
    TrendMonths = 2
    MonthDays = 3
    TrendIntervals = 2
    IntervalDays = 2
INVARIANT TenantScoreIsNumber
CHECK_DEADLOCK FALSE

SPECIFICATION TimelineSpec
CONSTANTS
    ana = ana
    caio = caio
    sales = sales
    board = board
    Users <- MCUsers
    NoUser = NoUser
    Admins <- MCAdmins
    Supervisors <- MCSupervisors
    DeptOf <- MCDeptOf
    Tickets = {t1}
    NoTicket = NoTicket
    Requesters = {caio}
    Deactivatable = {}
    Privacy = {FALSE}
    MaxTargets = 2
    DayTicks = 2
    FirstWeekday = 4
    Served = {"accept", "approve", "reject", "cancel", "correction"}
    Statuses = {"in_progress", "awaiting_verification", "under_verification"}
    DueDates <- MCDueDates
    Waits = {3}
    MaxNow = 6
    MaxRows = 4
    PeriodDays = 2
    MinEntries = 1
    TrendDays = 3
    TrendWeeks = 2
    TrendMonths = 2
    MonthDays = 3
    TrendIntervals = 2
    IntervalDays = 2
INVARIANTS RankingAgreesWithUserStats CountedOnce SupervisorPagesAgree TrendsAddUp SeriesAgree StoredTimeIsTheSpan BusinessTimeIsClose
PROPERTIES VerdictStands
CHECK_DEADLOCK FALSE

----------------------------- MODULE TicketStats -----------------------------
(***************************************************************************)
(* The statistics: what TicketStatsService answers now, over the rows and  *)
(* stamps of TicketTimeline.  Durations are ticks of business time where   *)
(* the code uses BusinessHoursService; an average or a rate is the pair of *)
(* its sum and its divisor; a count of tickets is kept as the set of them, *)
(* so that two answers can be compared ticket by ticket.  Order, pages,    *)
(* names and the 50 tickets of the period "all" are left out.              *)
(***************************************************************************)
EXTENDS TicketTimeline

CONSTANTS
    PeriodDays,      \* days back the period of a request starts
    MinEntries,      \* finished tickets that make a score (5)
    TrendDays,       \* days of the daily trend (30)
    TrendWeeks,      \* weeks of the weekly series (8 and 6)
    TrendMonths,     \* months of the monthly series (6)
    MonthDays,       \* bound: days of every month
    TrendIntervals,  \* points of the trimestral trend (9)
    IntervalDays     \* days between two of them (10)

ASSUME StatsAssumption ==
    {PeriodDays, MinEntries, TrendDays, TrendWeeks, TrendMonths, MonthDays,
     TrendIntervals, IntervalDays} \subseteq Nat \ {0}

SlaTicks == DayTicks   \* 24 business hours

StartDate == StartOfDay(now - PeriodDays * DayTicks)

-----------------------------------------------------------------------------
(* The view ticket_stats.                                                  *)

IsResolved(t)    == files[t].completedAt # NoDate
IsRejected(t)    == files[t].rejectedAt # NoDate
IsCanceled(t)    == files[t].canceledAt # NoDate
Involved(t)      == {tickets[t].current} \cup Assigned(tickets[t])
DepartmentIds(t) == { DeptOf[v] : v \in Assigned(tickets[t]) }

\* A supervisor is shown what has to do with the own department.
ShownTo(viewer, depts) == viewer \in Supervisors => DeptOf[viewer] \in depts

Items(viewer) ==
    { t \in Stored : files[t].createdAt >= StartDate
                     /\ ShownTo(viewer, DepartmentIds(t)) }

LiveItems(viewer) == { t \in Items(viewer) : ~IsCanceled(t) }

FinishedOf(items) == { t \in items : IsResolved(t) \/ IsRejected(t) }

\* Only someone else's page is refused.
CanViewUserStats(viewer, u) ==
    \/ viewer = u
    \/ viewer \in Admins
    \/ viewer \in Supervisors /\ DeptOf[viewer] = DeptOf[u]

-----------------------------------------------------------------------------
(* The life of a ticket, read from its rows.                               *)

NewLife == [ first |-> NoDate, last |-> NoDate, start |-> NoDate,
             cycles |-> <<>>, rejected |-> FALSE, returnedTo |-> {} ]

Retracts(row) == row.from = AwaitingVerification /\ row.to = InProgress
Submits(row)  == row.to = AwaitingVerification

\* Mutant: the time of the last submission counts, not of the first.
Submission_Last(life, row) ==
    [life EXCEPT !.first = IF Submits(row) THEN row.at ELSE @,
                 !.last  = IF Submits(row) THEN row.at ELSE @]

\* A retraction forgets the submissions.
Submission(life, row) ==
    [life EXCEPT !.first = CASE Retracts(row) -> NoDate
                             [] Submits(row) /\ @ = NoDate -> row.at
                             [] OTHER -> @,
                 !.last  = CASE Retracts(row) -> NoDate
                             [] Submits(row) -> row.at
                             [] OTHER -> @]

\* A verdict ends the verification that was started, within 24 hours of the
\* submission or not: "cycles" is the list of these answers.
Verification(life, row) ==
    LET since == IF life.last # NoDate THEN life.last ELSE life.start
    IN  IF row.to = UnderVerification
        THEN [life EXCEPT !.start = row.at]
        ELSE IF row.to \in {Completed, Rejected, Returned} /\ life.start # NoDate
        THEN [life EXCEPT !.start  = NoDate,
                          !.cycles = Append(@, CalculateBusinessHours(since, row.at)
                                                 <= SlaTicks)]
        ELSE life

Outcome(life, row) ==
    [life EXCEPT !.rejected   = @ \/ row.to = Rejected,
                 !.returnedTo = @ \cup IF row.to = Returned THEN {row.toUser} ELSE {}]

\* One turn of the loop of analyzeTicketLifeCycle.
AfterRow(life, row) == Outcome(Verification(Submission(life, row), row), row)

LifeCycle(t) == FoldLeft(AfterRow, NewLife, Rows(t))

Due(t, at) == files[t].dueAt # NoDate /\ at # NoDate /\ at <= files[t].dueAt

SentOnTime(t)      == t \in FinishedOf(Stored) /\ Due(t, LifeCycle(t).first)
CompletionOnTime(t) == IsResolved(t) /\ Due(t, files[t].completedAt)

InVerification(t) == tickets[t].status \in {AwaitingVerification, UnderVerification}

OpenOverdue(items) ==
    { t \in items \ FinishedOf(items) :
        ~InVerification(t) /\ files[t].dueAt # NoDate /\ files[t].dueAt < now }

\* Mutant: a closed ticket that went back to verification is not left aside.
VerificationOverdue_ClosedToo(items) ==
    { t \in items : /\ InVerification(t)
                    /\ files[t].dueAt # NoDate
                    /\ LifeCycle(t).first # NoDate
                    /\ ~Due(t, LifeCycle(t).first) }

\* processVerificationOverdueTickets has its own loop for the first submission.
FirstSubmission(t) ==
    FoldLeft(LAMBDA first, row :
               IF row.to = AwaitingVerification /\ first = NoDate THEN row.at
               ELSE IF row.from = AwaitingVerification /\ row.to = InProgress THEN NoDate
               ELSE first,
             NoDate, Rows(t))

VerificationOverdue(items) ==
    { t \in items \ FinishedOf(items) :
        /\ InVerification(t)
        /\ files[t].dueAt # NoDate
        /\ FirstSubmission(t) # NoDate /\ files[t].dueAt < FirstSubmission(t) }

-----------------------------------------------------------------------------
(* The times.  A row is <<t, i>>.                                          *)

AllRows == { p \in Stored \X (1..MaxRows) : p[2] <= Len(Rows(p[1])) }
RowAt(p) == Rows(p[1])[p[2]]

\* The user the time of a row is charged to, and the user's department.
Owner(p) ==
    IF RowAt(p).fromUser # NoUser THEN RowAt(p).fromUser ELSE tickets[p[1]].current

\* The rows that leave the status, in the period, with the row that entered
\* it: without one they are passed over.
Entries(p, status) ==
    { i \in 1..(p[2] - 1) : Rows(p[1])[i].to = status /\ Rows(p[1])[i].action # "update" }

Leaving(status) ==
    { p \in AllRows : /\ RowAt(p).from = status
                      /\ RowAt(p).secs # NoDate
                      /\ RowAt(p).at >= StartDate
                      /\ Entries(p, status) # {} }

TimeIn(p, status) ==
    CalculateBusinessHours(Rows(p[1])[Max(Entries(p, status))].at, RowAt(p).at)

SumOfTimes(rows, status) == MapThenSumSet(LAMBDA p : TimeIn(p, status), rows)
TicketsOf(rows) == { p[1] : p \in rows }

PerTicket(rows, status) == <<SumOfTimes(rows, status), Cardinality(TicketsOf(rows))>>
PerRow(rows, status)    == <<SumOfTimes(rows, status), Cardinality(rows)>>

OwnedBy(rows, u) == { p \in rows : Owner(p) = u }

\* The tenant page, whose rows belong to the tickets of the page.
TenantRows(viewer, items, status) ==
    { p \in Leaving(status) : p[1] \in items /\ ShownTo(viewer, {DeptOf[Owner(p)]}) }

\* calculateDepartmentAverages: resolution from the rows, of any ticket;
\* acceptance from the view, of the tickets of the period.
DepartmentResolution(dept) ==
    PerTicket({ p \in Leaving(InProgress) : DeptOf[Owner(p)] = dept }, InProgress)

DepartmentAcceptance(dept) ==
    LET accepted == { t \in Stored : /\ files[t].createdAt >= StartDate
                                     /\ files[t].acceptedAt # NoDate
                                     /\ dept \in DepartmentIds(t) }
    IN  <<MapThenSumSet(LAMBDA t : CalculateBusinessHours(files[t].createdAt,
                                                          files[t].acceptedAt), accepted),
          Cardinality(accepted)>>

\* getStatusDurations: here the rows of plain updates count as entries, and
\* the entry must be in the period too.
StatusDurations(viewer, status) ==
    LET EntriesToo(p) == { i \in 1..(p[2] - 1) : Rows(p[1])[i].to = status }
        Duration(p) == CalculateBusinessHours(Rows(p[1])[Max(EntriesToo(p))].at, RowAt(p).at)
        measured == { p \in AllRows :
                        /\ RowAt(p).from = status
                        /\ RowAt(p).secs \notin {NoDate, 0}
                        /\ RowAt(p).at >= StartDate
                        /\ ShownTo(viewer, DepartmentIds(p[1]))
                        /\ EntriesToo(p) # {}
                        /\ Rows(p[1])[Max(EntriesToo(p))].at >= StartDate
                        /\ Duration(p) > 0 }
    IN  <<MapThenSumSet(Duration, measured), Cardinality(measured)>>


-----------------------------------------------------------------------------
(* What is counted: of the finished tickets "own" of somebody, of those    *)
(* among "back" as returned, and of the verifications of "checked".        *)

NumberOfCycles(checked) == MapThenSumSet(LAMBDA t : Len(LifeCycle(t).cycles), checked)
NumberOnTime(checked) ==
    MapThenSumSet(LAMBDA t : Len(SelectSeq(LifeCycle(t).cycles, LAMBDA onTime : onTime)),
                  checked)

Metrics(own, checked, back) ==
    [ closed           |-> own,
      sentOnTime       |-> { t \in own : SentOnTime(t) },
      completed        |-> { t \in own : IsResolved(t) },
      completionOnTime |-> { t \in own : CompletionOnTime(t) },
      rejected         |-> { t \in own : LifeCycle(t).rejected },
      returned         |-> { t \in own \cap back : /\ IsResolved(t)
                                                   /\ LifeCycle(t).returnedTo # {} },
      verified         |-> NumberOfCycles(checked),
      verifiedOnTime   |-> NumberOnTime(checked) ]

\* Where several share a ticket, it was returned to those it was sent to.
UserMetrics(own, checked, u) ==
    Metrics({ t \in own : u \in Involved(t) },
            { t \in checked : tickets[t].reviewer = u },
            { t \in own : Len(tickets[t].targets) = 1 \/ u \in LifeCycle(t).returnedTo })

\* Mutant: a ticket counts for the department it is in now only.
DepartmentMetrics_CurrentOnly(finished, dept) ==
    Metrics({ t \in finished : DeptOf[tickets[t].current] = dept }, {}, finished)

DepartmentMetrics(finished, dept) ==
    Metrics({ t \in finished : dept \in DepartmentIds(t) },
            { t \in finished : tickets[t].reviewer # NoUser
                               /\ DeptOf[tickets[t].reviewer] = dept },
            { t \in finished : \/ Cardinality(DepartmentIds(t)) = 1
                               \/ \E u \in LifeCycle(t).returnedTo : DeptOf[u] = dept })

\* A rate or an index: a sum and its divisor, the whole when that is 0.
Ratio(part, whole, otherwise) ==
    IF whole > 0 THEN <<part, whole>> ELSE <<otherwise, 1>>

\* calculateWilsonScore takes the root of (p(1-p) + z^2/4n)/n, z = 1.96, which
\* may be negative with more successes than trials.  JavaScript answers NaN,
\* which Math.max and Math.min pass on.
WilsonIsNumber(resolved, total) ==
    total = 0 \/ 10000 * resolved * (total - resolved) + 9604 * total >= 0

\* calculatePerformanceIndices; the completion index by its arguments.
Indices(m, indexTotal) ==
    LET Quality(bad) ==
            IF m.closed = {} THEN <<1, 1>>
            ELSE Ratio(Later(0, Cardinality(m.completed) - Cardinality(bad)),
                       Cardinality(m.completed), 0)
    IN  [ completion   |-> <<Cardinality(m.sentOnTime), indexTotal>>,
          verification |-> Ratio(m.verifiedOnTime, m.verified, 1),
          rejection    |-> Quality(m.rejected),
          return       |-> Quality(m.returned) ]

\* calculateComprehensiveScore weighs the four: a number between 0 and 1 if
\* each of them is.
ScoreIsNumber(indices) == WilsonIsNumber(indices.completion[1], indices.completion[2])

\* sentToVerificationOverdueRate.
SentOverdueRate(m, late) ==
    LET all == Cardinality(m.completed) + Cardinality(m.rejected) + Cardinality(late)
    IN  Ratio(all - Cardinality(m.sentOnTime), all, 0)

\* completionOverdueRate, with the open tickets that will be late or without.
CompletionOverdueRate(m, open) ==
    LET all == Cardinality(m.completed) + Cardinality(open)
    IN  Ratio(all - Cardinality(m.completionOnTime), all, 0)

-----------------------------------------------------------------------------
(* The pages.                                                              *)

TenantStats(viewer, excludeCanceled) ==
    LET items    == IF excludeCanceled THEN LiveItems(viewer) ELSE Items(viewer)
        finished == FinishedOf(items)
        resolved == { t \in items : IsResolved(t) }
        m        == Metrics(finished, finished, finished)
        late     == OpenOverdue(items) \cup VerificationOverdue(items)
        closed   == Cardinality(m.completed) + Cardinality(m.rejected)
    IN  [ tickets    |-> items,
          resolved   |-> resolved,
          open       |-> items \ finished,
          resolution |-> Ratio(Cardinality(resolved), Cardinality(finished), 0),
          solving    |-> PerTicket(TenantRows(viewer, items, InProgress), InProgress),
          accepting  |-> PerRow(TenantRows(viewer, items, Pending), Pending),
          indices    |-> Indices(m, closed + Cardinality(late)),
          overdue    |-> SentOverdueRate(m, late),
          late       |-> CompletionOverdueRate(m, OpenOverdue(items)) ]

UserItems(u) ==
    { t \in Stored : /\ files[t].createdAt >= StartDate
                     /\ ~IsCanceled(t)
                     /\ u \in Involved(t) }

ReviewerItems(u) ==
    { t \in Stored : /\ files[t].createdAt >= StartDate
                     /\ ~IsCanceled(t)
                     /\ tickets[t].reviewer = u }

\* indexIds are the tickets the tooltip of the completion index names.
UserStats(u) ==
    LET items    == UserItems(u)
        finished == FinishedOf(items)
        resolved == { t \in items : IsResolved(t) }
        m        == UserMetrics(finished, finished \cup FinishedOf(ReviewerItems(u)), u)
        open     == OpenOverdue(items)
        verified == VerificationOverdue(items)
    IN  [ tickets    |-> items,
          resolved   |-> resolved,
          resolution |-> Ratio(Cardinality(resolved), Cardinality(finished), 0),
          solving    |-> PerTicket(OwnedBy(Leaving(InProgress), u), InProgress),
          accepting  |-> PerTicket(OwnedBy(Leaving(Pending), u), Pending),
          metrics    |-> m,
          indices    |-> Indices(m, Cardinality(finished) + Cardinality(open)
                                    + Cardinality(verified)),
          indexIds   |-> <<finished, open, verified>>,
          scored     |-> Cardinality(finished) >= MinEntries,
          overdue    |-> SentOverdueRate(m, open \cup verified),
          late       |-> CompletionOverdueRate(m, {}) ]

\* Mutant: the tickets a supervisor's user only reviews are left out.
RankingMetrics_TargetsOnly(viewer, u) ==
    UserMetrics(FinishedOf(LiveItems(viewer)), FinishedOf(LiveItems(viewer)), u)

\* The reviewed tickets of other departments are added for a supervisor.
RankingMetrics(viewer, u) ==
    LET finished == FinishedOf(LiveItems(viewer))
        reviewed == { t \in FinishedOf(ReviewerItems(u)) : ShownTo(viewer, {DeptOf[u]}) }
    IN  UserMetrics(finished, finished \cup reviewed, u)

\* Whom the loops over the finished tickets have made an entry for.
HasMetrics(viewer, u) ==
    \/ \E t \in FinishedOf(LiveItems(viewer)) : u \in Involved(t)
    \/ RankingMetrics(viewer, u).verified > 0

\* Nobody is ranked while there is nothing to rank by.
RankedUsers(viewer) ==
    { u \in active :
        /\ ShownTo(viewer, {DeptOf[u]})
        /\ LiveItems(viewer) # {} \/ \E v \in Users : ShownTo(viewer, {DeptOf[v]})
                                                 /\ ReviewerItems(v) # {} }

UserRanking(viewer, u) ==
    LET items    == { t \in LiveItems(viewer) : u \in Involved(t) }
        m        == RankingMetrics(viewer, u)
        open     == OpenOverdue(items)
        verified == VerificationOverdue(items)
    IN  [ tickets    |-> items,
          resolved   |-> { t \in items : IsResolved(t) },
          resolution |-> Ratio(Cardinality(m.completed), Cardinality(m.closed), 0),
          solving    |-> PerTicket(OwnedBy(Leaving(InProgress), u), InProgress),
          accepting  |-> PerRow(OwnedBy(Leaving(Pending), u), Pending),
          metrics    |-> m,
          indices    |-> Indices(m, Cardinality(m.closed) + Cardinality(open)
                                    + Cardinality(verified)),
          scored     |-> Cardinality(m.closed) >= MinEntries,
          overdue    |-> IF HasMetrics(viewer, u)
                         THEN SentOverdueRate(m, open \cup verified) ELSE <<0, 1>>,
          late       |-> CompletionOverdueRate(m, {}) ]

\* A department without finished tickets keeps its rates at 0.
DepartmentStats(viewer, dept) ==
    LET items == { t \in LiveItems(viewer) : dept \in DepartmentIds(t) }
        m     == DepartmentMetrics(FinishedOf(LiveItems(viewer)), dept)
        open  == OpenOverdue(items)
        late  == open \cup VerificationOverdue(items)
        known == m.closed # {} \/ m.verified > 0
    IN  [ tickets    |-> items,
          resolved   |-> { t \in items : IsResolved(t) },
          resolution |-> Ratio(Cardinality(m.completed),
                               Cardinality(m.completed) + Cardinality(m.rejected), 0),
          solving    |-> DepartmentResolution(dept),
          accepting  |-> DepartmentAcceptance(dept),
          metrics    |-> m,
          indices    |-> Indices(m, Cardinality(m.closed) + Cardinality(late)),
          scored     |-> known /\ Cardinality(items) >= MinEntries,
          overdue    |-> IF known THEN SentOverdueRate(m, late) ELSE <<0, 1>>,
          late       |-> IF known THEN CompletionOverdueRate(m, open) ELSE <<0, 1>> ]

TicketsByStatus(viewer) ==
    [ status \in TicketStatus |-> { t \in Items(viewer) : tickets[t].status = status } ]

\* What was resolved in the period, whenever it was created.
PerformanceTrends(viewer) ==
    [ created  |-> Items(viewer),
      resolved |-> { t \in Stored : /\ files[t].completedAt >= StartDate
                                    /\ IsResolved(t) /\ tickets[t].status = Completed
                                    /\ ShownTo(viewer, DepartmentIds(t)) } ]

-----------------------------------------------------------------------------
(* The series: points <<from, to>>, "to" not included.                     *)

StartOfWeek(t)  == StartOfDay(t) - ((DayOf(t) + FirstWeekday) % 7) * DayTicks
StartOfMonth(t) == (DayOf(t) \div MonthDays) * MonthDays * DayTicks

Days(n)   == { <<d, d + DayTicks>> :
                 d \in { StartOfDay(now - i * DayTicks) : i \in 0..(n - 1) } }
Weeks(n)  == { <<w, w + 7 * DayTicks>> :
                 w \in { StartOfWeek(now - 7 * i * DayTicks) : i \in 0..(n - 1) } }
Months(n) == { <<m, m + MonthDays * DayTicks>> :
                 m \in { StartOfMonth(now - i * MonthDays * DayTicks) : i \in 0..(n - 1) } }

\* One day out of every IntervalDays.
Intervals == { <<d, d + DayTicks>> :
                 d \in { StartOfDay(now - i * IntervalDays * DayTicks) :
                           i \in 0..(TrendIntervals - 1) } }

Within(at, point) == at >= point[1] /\ at < point[2]

\* Mutant: the tickets of all time are fetched, not those of the range.
Trend_NoRange(viewer, points) ==
    LET range == { t \in Stored : ShownTo(viewer, DepartmentIds(t)) }
    IN  [ p \in points |->
            [ total    |-> { t \in range : files[t].createdAt < p[2] },
              created  |-> { t \in range : Within(files[t].createdAt, p) },
              resolved |-> {} ] ]

Trend(viewer, points) ==
    LET range == { t \in Stored : /\ \E p \in points : files[t].createdAt >= p[1]
                                  /\ ShownTo(viewer, DepartmentIds(t)) }
    IN  [ p \in points |->
            [ total    |-> { t \in range : files[t].createdAt < p[2] },
              created  |-> { t \in range : Within(files[t].createdAt, p) },
              resolved |-> { t \in range : /\ IsResolved(t)
                                           /\ Within(files[t].completedAt, p)
                                           /\ tickets[t].status = Completed } ] ]

TicketTrends(viewer) ==
    [ daily      |-> Trend(viewer, Days(TrendDays)),
      weekly     |-> Trend(viewer, Weeks(TrendWeeks)),
      monthly    |-> Trend(viewer, Months(TrendMonths)),
      trimestral |-> Trend(viewer, Intervals) ]

StoredTimes(status, point) ==
    { p \in AllRows : /\ RowAt(p).from = status
                      /\ RowAt(p).secs # NoDate
                      /\ Within(RowAt(p).at, point) }

SumStored(rows) == MapThenSumSet(LAMBDA p : RowAt(p).secs, rows)

\* Mutant: only what was sent to verification has a time.
ResolutionTime_Sent(viewer, points) ==
    [ point \in points |->
        LET rows == { p \in StoredTimes(InProgress, point) :
                        /\ ShownTo(viewer, {DeptOf[Owner(p)]})
                        /\ RowAt(p).to = AwaitingVerification }
        IN  <<SumStored(rows), Cardinality(TicketsOf(rows))>> ]

\* getResolutionTimeData: of whoever owns the row.
ResolutionTime(viewer, points) ==
    [ point \in points |->
        LET rows == { p \in StoredTimes(InProgress, point) :
                        ShownTo(viewer, {DeptOf[Owner(p)]}) }
        IN  <<SumStored(rows), Cardinality(TicketsOf(rows))>> ]

\* getStatusDurationTimeSeries: of the tickets of the department.
DurationTimeSeries(viewer, status, points) ==
    [ point \in points |->
        LET rows == { p \in StoredTimes(status, point) :
                        ShownTo(viewer, DepartmentIds(p[1])) }
        IN  <<SumStored(rows), Cardinality(rows)>> ]

-----------------------------------------------------------------------------
(* Properties.                                                             *)

\* The ranking and the page of a user, two services' worth of code over the
\* same rows, tell the same of every user the ranking shows, whoever looks:
\* the tickets, what became of them, the indices, the rates and the time to
\* solve; of the time to accept they disagree on the divisor only.  A user
\* without a finished ticket or a verification is ranked without the rates.
\* A supervisor or an admin may open the page of everybody the ranking names.
RankingAgreesWithUserStats ==
    \A viewer \in Users : \A u \in RankedUsers(viewer) :
        LET ranked == UserRanking(viewer, u)
            page   == UserStats(u)
        IN  /\ \A field \in { "tickets", "resolved", "resolution", "solving",
                              "metrics", "indices", "scored", "late" } :
                 ranked[field] = page[field]
            /\ HasMetrics(viewer, u) => ranked.overdue = page.overdue
            /\ ranked.accepting[1] = page.accepting[1]
            /\ ranked.accepting[2] >= page.accepting[2]
            /\ viewer \in Admins \cup Supervisors => CanViewUserStats(viewer, u)

\* No ticket is counted twice in a completion index, though the three loops
\* that feed it select on their own and a ticket that is closed can be sent
\* to verification again: the tickets the tooltip of a user names are as
\* many as the index divides by.
CountedOnce ==
    \A u \in Users :
        LET page == UserStats(u)
        IN  Cardinality(UNION Range(page.indexIds)) = page.indices.completion[2]

\* The verdict on a ticket stands: while it waits for its verification it
\* counts as overdue or not (processVerificationOverdueTickets), and when it
\* is then approved or rejected it counts as sent late or on time the same
\* (analyzeTicketLifeCycle): two loops over the rows.
VerdictStands ==
    [][\A t \in Stored :
         /\ t \notin FinishedOf(Stored)
         /\ t \in Stored' /\ (IsResolved(t) \/ IsRejected(t))'
         /\ InVerification(t) /\ files[t].dueAt # NoDate /\ FirstSubmission(t) # NoDate
         => (t \in VerificationOverdue(Stored)) = ~SentOnTime(t)']_timelineVars

\* A supervisor reads the same on the tenant page, without the canceled
\* tickets, as on the page of the department: tickets, resolved ones and,
\* when there is a finished one, the rates of overdue ones.
SupervisorPagesAgree ==
    \A s \in Supervisors :
        LET tenant == TenantStats(s, TRUE)
            dept   == DepartmentStats(s, DeptOf[s])
        IN  /\ tenant.tickets = dept.tickets
            /\ { t \in UNION Range(TicketsByStatus(s)) : ~IsCanceled(t) } = dept.tickets
            /\ tenant.resolved = dept.resolved
            /\ tenant.open # tenant.tickets =>
                 tenant.overdue = dept.overdue /\ tenant.late = dept.late

\* The trends by day, week and month add up: each ticket of the last total
\* was created at exactly one point, and what a point of the period has
\* resolved is what the performance of the period counts.  (The trimestral
\* one looks at one day of ten.)
TrendsAddUp ==
    \A viewer \in Users :
        LET trends == TicketTrends(viewer)
        IN  \A trend \in { trends.daily, trends.weekly, trends.monthly } :
              LET points == DOMAIN trend
                  last   == CHOOSE p \in points : \A q \in points : q[1] <= p[1]
              IN  /\ \A t \in trend[last].total :
                       Cardinality({ p \in points : t \in trend[p].created }) = 1
                  /\ \A p \in points : p[1] >= StartDate =>
                       trend[p].resolved \subseteq PerformanceTrends(viewer).resolved

\* The two series of stored times, one by who owns the row and one by the
\* departments of the ticket, give an admin the same time in progress at
\* every point, and the durations of the statuses never measure more rows
\* than the pages do, rejections apart: a rejection has a stored time whenever
\* the ticket was under verification, so it is measured though only a plain
\* update says that the ticket entered the status it leaves.
SeriesAgree ==
    \A admin \in Admins :
        /\ \A points \in { Weeks(TrendWeeks), Months(TrendMonths) } : \A p \in points :
             /\ ResolutionTime(admin, points)[p][1]
                  = DurationTimeSeries(admin, InProgress, points)[p][1]
             /\ ResolutionTime(admin, points)[p][2]
                  <= DurationTimeSeries(admin, InProgress, points)[p][2]
        /\ \A status \in TicketStatus :
             StatusDurations(admin, status)[2]
                <= Cardinality(Leaving(status) \cup { p \in AllRows : RowAt(p).to = Rejected })

\* A stored time is the time since the ticket entered the status the row
\* leaves, so the series, which read it, and the pages, which look for the
\* entry, measure the same.  Rejections are excepted: they store the time
\* since the verification began, whatever status they leave.
StoredTimeIsTheSpan ==
    \A status \in TicketStatus : \A p \in Leaving(status) :
        RowAt(p).to # Rejected =>
            RowAt(p).secs = RowAt(p).at - Rows(p[1])[Max(Entries(p, status))].at

\* Business time since a moment never exceeds the working time since then and
\* falls short of it by less than a day, whatever time it is now
\* (business-hours.service.ts:33).
BusinessTimeIsClose ==
    \A start \in 0..now :
        /\ CalculateBusinessHours(start, now) <= WorkingTicks(start, now)
        /\ CalculateBusinessHours(start, now) > WorkingTicks(start, now) - DayTicks

\* "For multi-day periods, calculate total hours excluding weekends"
\* (business-hours.service.ts:18).
BusinessTimeIsExact ==
    \A start \in 0..now :
        CalculateBusinessHours(start, now) = WorkingTicks(start, now)

\* "@returns Wilson Score between 0 and 1" (ticket-stats.service.ts:2882), for
\* what the tenant page calls it with.  A success is a closed ticket that was
\* sent on time, where rejectedAt closes it; a trial is a completed ticket or
\* one with a row of its rejection, and a rejection that throws between the
\* stamp and the row (ticket.service.ts:1785, nobody reviews the ticket) is the
\* first and not the second.
TenantScoreIsNumber ==
    \A viewer \in Users : ScoreIsNumber(TenantStats(viewer, FALSE).indices)
=============================================================================

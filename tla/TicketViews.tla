------------------------------ MODULE TicketViews ------------------------------
(***************************************************************************)
(* The lists of tickets: the queries of TicketService as the sets of       *)
(* tickets they return now, over the rows and stamps of TicketTimeline.    *)
(* Order, pages, texts and the relations that are loaded along are left    *)
(* out.  There is no action of its own: a query is looked at in every      *)
(* state the requests and the clock lead to.                               *)
(***************************************************************************)
EXTENDS TicketTimeline

CONSTANTS
    ArchiveTicks,   \* seven days
    Unknown,        \* a uuid that no row has
    AnyValue        \* a filter that is not given

ASSUME ViewsAssumption ==
    /\ ArchiveTicks \in Nat \ {0}
    /\ {Unknown, AnyValue} \cap (Users \cup TicketStatus) = {}
    /\ Admins \cup Supervisors \subseteq Users

Departments == { DeptOf[u] : u \in Users }
Reaches(t, dept) == \E v \in Assigned(tickets[t]) : DeptOf[v] = dept

-----------------------------------------------------------------------------
(* The filters.                                                            *)

\* A completed ticket counts as recent by its completedAt: one that
\* updateStatus completed has none, and SQL compares NULL with nothing.
Recent(t) ==
    files[t].completedAt # NoDate /\ files[t].completedAt >= now - ArchiveTicks

DefaultStatusFilter(t) ==
    /\ tickets[t].status \notin {Rejected, Canceled}
    /\ tickets[t].status # Completed \/ Recent(t)

\* Mutant: the column of completed tickets shows all of them.
StatusFilter_AllCompleted(t, status) == tickets[t].status = status

StatusFilter(t, status) ==
    /\ tickets[t].status = status
    /\ status = Completed => Recent(t)

\* where: isPrivate and requester are compared; the target user, the reviewer
\* and the department come by uuid, and an unknown one ends the filtering.
WhereFilters(t, where) ==
    LET r == tickets[t]
        ByDepartment == where.department \in {AnyValue, Unknown} \/ Reaches(t, where.department)
        ByReviewer   == \/ where.reviewer = Unknown
                        \/ where.reviewer \in {AnyValue, r.reviewer} /\ ByDepartment
    IN  /\ where.isPrivate \in {AnyValue, r.isPrivate}
        /\ where.requester \in {AnyValue, r.requester}
        /\ \/ where.target = Unknown
           \/ where.target \in {AnyValue} \cup Assigned(r) /\ ByReviewer

Everything == [ isPrivate |-> AnyValue, requester |-> AnyValue,
                target |-> AnyValue, reviewer |-> AnyValue, department |-> AnyValue ]

\* What a supervisor is shown: own tickets and those of the department.
SupervisorFilter(u, t) ==
    u \in Supervisors =>
        \/ u \in {tickets[t].requester} \cup Assigned(tickets[t])
        \/ Reaches(t, DeptOf[u])

-----------------------------------------------------------------------------
(* The queries: what user u gets with the filters "where" and, when the    *)
(* request names one, a status.                                            *)

\* status # AnyValue is the query of one column of the board.
ByStatus(t, status) ==
    IF status = AnyValue THEN DefaultStatusFilter(t) ELSE StatusFilter(t, status)

FindAll(where, status) ==
    { t \in Stored : WhereFilters(t, where) /\ ByStatus(t, status) }

FindMany(u, where, status) ==
    { t \in FindAll(where, status) : SupervisorFilter(u, t) }

\* findBy, the query behind the tickets of a requester.
FindByRequester(u, requester, status) ==
    FindMany(u, [Everything EXCEPT !.requester = requester], status)

FindByDepartment(u, dept, status) ==
    { t \in FindAll(Everything, status) :
        Reaches(t, dept) /\ (u \in Supervisors \/ ~tickets[t].isPrivate) }

FindByTargetUser(v, status) ==
    { t \in FindAll(Everything, status) :
        v \in {tickets[t].current} \cup Assigned(tickets[t]) }

FindByReceived(v, status) ==
    FindByTargetUser(v, status)
    \cup { t \in FindAll(Everything, status) :
             tickets[t].reviewer = v /\ tickets[t].requester # v }

\* The search looks at every status unless one is given.
FindBySearch(u, where, status) ==
    { t \in Stored : /\ WhereFilters(t, where)
                     /\ SupervisorFilter(u, t)
                     /\ status # AnyValue => StatusFilter(t, status) }

\* Mutant: the archive keeps out what was completed a day longer ago.
ArchiveFilter_EightDays(t) ==
    \/ tickets[t].status \in {Rejected, Canceled}
    \/ /\ tickets[t].status = Completed
       /\ files[t].completedAt # NoDate
       /\ files[t].completedAt < now - ArchiveTicks - 1

\* Mutant: an archive of its own idea of seven days.
ArchiveFilter_SixDays(t) ==
    \/ tickets[t].status \in {Rejected, Canceled}
    \/ /\ tickets[t].status = Completed
       /\ files[t].completedAt # NoDate
       /\ files[t].completedAt < now - ArchiveTicks + 1

ArchiveFilter(t) ==
    \/ tickets[t].status \in {Rejected, Canceled}
    \/ /\ tickets[t].status = Completed
       /\ files[t].completedAt # NoDate
       /\ files[t].completedAt < now - ArchiveTicks

\* The admin sees the whole archive, a supervisor own tickets and those of
\* the department, anybody else those they asked for or have now.
FindArchived(u) ==
    { t \in Stored :
        /\ ArchiveFilter(t)
        /\ \/ u \in Admins
           \/ u \in {tickets[t].requester, tickets[t].current}
           \/ u \in Supervisors /\ Reaches(t, DeptOf[u]) }

\* Mutant: the reviewer is forgotten.
Hearers_NotTheReviewer(t) ==
    {tickets[t].requester, tickets[t].current} \cup Assigned(tickets[t])
    \cup { u \in active : Reaches(t, DeptOf[u]) }

\* notifyTicketUpdate: whose open pages are refreshed after a request.
Hearers(t) ==
    ({tickets[t].requester, tickets[t].current, tickets[t].reviewer} \ {NoUser})
    \cup Assigned(tickets[t])
    \cup { u \in active : Reaches(t, DeptOf[u]) }

-----------------------------------------------------------------------------
(* Properties.                                                             *)

\* No ticket is on the list and in the archive, for any user and at any
\* time: the two queries compute their seven days apart from each other.
NowhereTwice ==
    \A u \in Users : FindAll(Everything, AnyValue) \cap FindArchived(u) = {}

\* What an admin finds in one of the two.
Shown(admin) == FindAll(Everything, AnyValue) \cup FindArchived(admin)

\* Time alone takes nothing away: a ticket that leaves the list of an admin
\* because its seven days are over is in the archive in the same moment.
TimeLosesNothing ==
    [][ (\E d \in Waits : Wait(d)) =>
          \A admin \in Admins : Shown(admin) \subseteq Shown(admin)' ]_timelineVars

\* The columns of the board together show what the list shows, whoever looks
\* and whatever is filtered for: the two rules on completed tickets
\* (applyDefaultStatusFilter, applyStatusFilter) agree.
BoardShowsTheList ==
    \A u \in Users :
      \A where \in { Everything, [Everything EXCEPT !.target = u],
                     [Everything EXCEPT !.department = DeptOf[u]] } :
        UNION { FindMany(u, where, status) : status \in TicketStatus \ {Rejected, Canceled} }
            = FindMany(u, where, AnyValue)

\* Whoever may open a ticket and has it on a list of received ones, or
\* reads it as a colleague, is told when it changes, as long as the user is
\* active: notifyTicketUpdate collects them on its own.  (Admins may open
\* every ticket and are not told.)
ReadersHear ==
    \A u \in active \ Admins, t \in Stored :
        CheckTicketAccess(u, tickets[t]) \/ t \in FindByReceived(u, AnyValue)
            => u \in Hearers(t)

\* "Archived tickets: completed 7 days ago or earlier" (ticket.service.ts:2080):
\* a ticket that is completed is on the list or in the archive of an admin.
CompletedIsListed ==
    \A admin \in Admins, t \in Stored :
        tickets[t].status = Completed => t \in Shown(admin)

\* The rows, read from the first to the last, tell what TicketWorkflow keeps
\* as the trail: whose turn it is and the last toStatus.  Every property of
\* the trail is thereby one of the rows the handlers write.
RowsTellTheTrail ==
    \A t \in Stored :
        tickets[t].trail =
            FoldLeft(LAMBDA trail, row : Replay(trail, row.fromUser, row.toUser, row.to),
                     [holder |-> Rows(t)[1].toUser, status |-> Pending], Rows(t))
=============================================================================

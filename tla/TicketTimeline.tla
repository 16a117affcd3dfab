---------------------------- MODULE TicketTimeline ----------------------------
(***************************************************************************)
(* TicketWorkflow with what a history is made of: a clock, the time stamps *)
(* the handlers leave in the row of the ticket, and the ticket_update rows *)
(* themselves, which TicketWorkflow keeps folded (row.trail).  Every       *)
(* action is the action of TicketWorkflow together with the stamps and the *)
(* row its handler writes; a request takes a tick, so that no two rows     *)
(* have the same createdAt.  TicketViews and TicketStats read the result.  *)
(***************************************************************************)
EXTENDS TicketWorkflow, BusinessHours

CONSTANTS
    Served,     \* bound: the endpoints that are called in an instance
    Statuses,   \* bound: the statuses PATCH .../status is called with
    DueDates,   \* bound: the dates a ticket may be due at
    Waits,      \* bound: how long nothing may happen
    MaxNow,     \* bound: the end of the clock
    MaxRows     \* bound: rows of the history of one ticket

NoDate == -1    \* SQL NULL in a date or in timeSecondsInLastStatus

ASSUME TimelineAssumption ==
    /\ Statuses \subseteq TicketStatus
    /\ DueDates \subseteq Nat \cup {NoDate}
    /\ Waits \subseteq Nat \ {0}
    /\ MaxNow \in Nat
    /\ MaxRows \in Nat \ {0}

VARIABLES
    now,    \* new Date()
    files   \* the stamps and the history of every ticket

timelineVars == <<tickets, active, now, files>>

Actions == { "creation", "update", "status_update", "completion",
             "cancellation", "assignee_change", "assignee_remove" }

Entry == [ at       : Nat,                        \* createdAt
           action   : Actions,
           from     : TicketStatus \cup {"null"},
           to       : TicketStatus,
           fromUser : Users \cup {NoUser},
           toUser   : Users \cup {NoUser},
           secs     : Nat \cup {NoDate} ]         \* timeSecondsInLastStatus

File == [ createdAt   : Nat,
          dueAt       : Nat \cup {NoDate},
          acceptedAt  : Nat \cup {NoDate},
          completedAt : Nat \cup {NoDate},
          rejectedAt  : Nat \cup {NoDate},
          canceledAt  : Nat \cup {NoDate},
          rows        : Seq(Entry) ]

EmptyFile == [ createdAt |-> 0, dueAt |-> NoDate, acceptedAt |-> NoDate,
               completedAt |-> NoDate, rejectedAt |-> NoDate,
               canceledAt |-> NoDate, rows |-> <<>> ]

Rows(t) == files[t].rows

-----------------------------------------------------------------------------
(* Writing the history.                                                    *)

\* findLastStatusUpdate: the newest row that entered the status, the rows of
\* plain updates left aside.
EnteredAt(t, status) ==
    { i \in DOMAIN Rows(t) :
        Rows(t)[i].to = status /\ Rows(t)[i].action # "update" }

TimeSpentIn(t, status) ==
    IF EnteredAt(t, status) = {} THEN NoDate
    ELSE now - Rows(t)[Max(EnteredAt(t, status))].at

RowOf(action, from, to, fromUser, toUser, secs) ==
    [ at |-> now, action |-> action, from |-> from, to |-> to,
      fromUser |-> fromUser, toUser |-> toUser, secs |-> secs ]

Tick == now < MaxNow /\ now' = now + 1

\* Stamps the file of the ticket and appends the row.
Save(t, file, row) ==
    /\ Tick
    /\ Len(file.rows) < MaxRows
    /\ files' = [files EXCEPT ![t] = [file EXCEPT !.rows = Append(@, row)]]

SaveRow(t, row) == Save(t, files[t], row)

\* A handler that throws between its stamp and its row.
SaveStampOnly(t, file) ==
    /\ Tick
    /\ files' = [files EXCEPT ![t] = file]

-----------------------------------------------------------------------------
(* The endpoints, each with what it writes into the history.               *)

LoggedCreate(t, requester, targets, reviewer, isPrivate, dueAt) ==
    /\ Create(t, requester, targets, reviewer, isPrivate)
    /\ Save(t, [EmptyFile EXCEPT !.createdAt = now, !.dueAt = dueAt],
            RowOf("creation", "null", Pending, NoUser, targets[1], NoDate))

LoggedUpdateTicket(u, t, isPrivate, dueAt) ==
    /\ UpdateTicket(u, t, isPrivate)
    /\ Save(t, [files[t] EXCEPT !.dueAt = dueAt],
            RowOf("update", tickets[t].status, tickets[t].status, u, u, NoDate))

LoggedAddFiles(t) ==
    /\ AddFiles(t)
    /\ SaveRow(t, RowOf("update", tickets[t].status, tickets[t].status,
                        tickets[t].current, tickets[t].current, NoDate))

\* The row of a submission says it came from in_progress, whatever it was.
LoggedUpdateStatus(u, t, status) ==
    LET from == IF status = AwaitingVerification THEN InProgress
                ELSE tickets[t].status
    IN  /\ UpdateStatus(u, t, status)
        /\ IF StatusIsLogged(tickets[t], status)
           THEN SaveRow(t, RowOf("status_update", from, status,
                                 tickets[t].current, tickets[t].current,
                                 TimeSpentIn(t, from)))
           ELSE SaveStampOnly(t, files[t])

\* Mutant: the time in the status the ticket has, under the name of pending.
LoggedAccept_AnyStatus(u, t) ==
    /\ Accept(u, t)
    /\ Save(t, [files[t] EXCEPT !.acceptedAt = now],
            RowOf("status_update", Pending, InProgress, u, u,
                  TimeSpentIn(t, tickets[t].status)))

\* Accepting is logged as a move from pending, whatever it was.
LoggedAccept(u, t) ==
    /\ Accept(u, t)
    /\ Save(t, [files[t] EXCEPT !.acceptedAt = now],
            RowOf("status_update", Pending, InProgress, u, u,
                  TimeSpentIn(t, Pending)))

LoggedApprove(u, t) ==
    LET stamped == [files[t] EXCEPT !.completedAt = now]
    IN  /\ Approve(u, t)
        /\ IF tickets[t].reviewer # NoUser
           THEN Save(t, stamped,
                     RowOf("completion", UnderVerification, Completed,
                           tickets[t].current, tickets[t].current,
                           TimeSpentIn(t, UnderVerification)))
           ELSE SaveStampOnly(t, stamped)

LoggedReject(u, t) ==
    LET stamped == [files[t] EXCEPT !.rejectedAt = now]
    IN  /\ Reject(u, t)
        /\ IF tickets[t].reviewer # NoUser
           THEN Save(t, stamped,
                     RowOf("status_update", tickets[t].status, Rejected,
                           tickets[t].current, tickets[t].current,
                           TimeSpentIn(t, UnderVerification)))
           ELSE SaveStampOnly(t, stamped)

LoggedCancel(u, t) ==
    /\ Cancel(u, t)
    /\ Save(t, [files[t] EXCEPT !.canceledAt = now],
            RowOf("cancellation", tickets[t].status, Canceled,
                  tickets[t].current, tickets[t].current,
                  TimeSpentIn(t, tickets[t].status)))

LoggedDelete(t) ==
    /\ DeleteTicket(t)
    /\ SaveStampOnly(t, EmptyFile)

LoggedRequestCorrection(u, t, target) ==
    /\ RequestCorrection(u, t, target)
    /\ SaveRow(t, RowOf("status_update", UnderVerification, Returned,
                        tickets[t].current, CorrectionTarget(tickets[t], target),
                        TimeSpentIn(t, UnderVerification)))

LoggedUpdateAssignee(u, t, new, order) ==
    /\ UpdateAssignee(u, t, new, order)
    /\ SaveRow(t, RowOf("assignee_change", tickets[t].status, Pending,
                        tickets[t].targets[order], new, NoDate))

\* Mutant: the row of a new assignee hands the ticket over.
LoggedAddAssignee_HandsOver(u, t, new, order) ==
    /\ AddAssignee(u, t, new, order)
    /\ SaveRow(t, RowOf("assignee_change", tickets[t].status, tickets[t].status,
                        tickets[t].current, new, NoDate))

LoggedAddAssignee(u, t, new, order) ==
    /\ AddAssignee(u, t, new, order)
    /\ SaveRow(t, RowOf("assignee_change", tickets[t].status, tickets[t].status,
                        NoUser, new, NoDate))

\* Three forms: the last one, who sends the ticket to verification, hands it
\* back; another current one hands it on; anybody else just leaves.
LoggedRemoveAssignee(u, t, gone) ==
    LET r     == tickets[t]
        after == AssigneeRemoved(r, gone)
    IN  /\ RemoveAssignee(u, t, gone)
        /\ SaveRow(t,
             IF gone # r.current
             THEN RowOf("assignee_remove", r.status, r.status, gone, NoUser, NoDate)
             ELSE IF after.status = AwaitingVerification
             THEN RowOf("status_update", Pending, AwaitingVerification, gone,
                        after.current, NoDate)
             ELSE RowOf("assignee_change", Pending, Pending, gone,
                        after.current, NoDate))

LoggedSendToNext(u, t) ==
    /\ SendToNextDepartment(u, t)
    /\ SaveRow(t, RowOf("assignee_change", tickets[t].status, Pending,
                        tickets[t].current, SentToNext(tickets[t]).current,
                        TimeSpentIn(t, tickets[t].status)))

LoggedUpdateReviewer(u, t, new) ==
    /\ UpdateReviewer(u, t, new)
    /\ SaveRow(t, RowOf("update", tickets[t].status, tickets[t].status,
                        tickets[t].current, tickets[t].current, NoDate))

-----------------------------------------------------------------------------

TimelineInit ==
    /\ Init
    /\ now = 0
    /\ files = [t \in Tickets |-> EmptyFile]

LoggedCreateAny ==
    \E t \in Tickets, requester \in Requesters, targets \in TargetLists,
       reviewer \in Users \cup {NoUser}, isPrivate \in Privacy, dueAt \in DueDates :
        LoggedCreate(t, requester, targets, reviewer, isPrivate, dueAt)

LoggedRequest(u, t) ==
    \/ /\ "update" \in Served
       /\ \E isPrivate \in Privacy, dueAt \in DueDates :
            LoggedUpdateTicket(u, t, isPrivate, dueAt)
    \/ "files" \in Served /\ LoggedAddFiles(t)
    \/ \E status \in Statuses : LoggedUpdateStatus(u, t, status)
    \/ "accept" \in Served /\ LoggedAccept(u, t)
    \/ "approve" \in Served /\ LoggedApprove(u, t)
    \/ "reject" \in Served /\ LoggedReject(u, t)
    \/ "cancel" \in Served /\ LoggedCancel(u, t)
    \/ "delete" \in Served /\ LoggedDelete(t)
    \/ /\ "correction" \in Served
       /\ \E target \in Users \cup {NoUser} : LoggedRequestCorrection(u, t, target)
    \/ /\ "assignee" \in Served
       /\ \E new \in Users, order \in 1..MaxTargets :
            \/ LoggedUpdateAssignee(u, t, new, order)
            \/ LoggedAddAssignee(u, t, new, order)
    \/ /\ "remove" \in Served
       /\ \E gone \in Users : LoggedRemoveAssignee(u, t, gone)
    \/ "next" \in Served /\ LoggedSendToNext(u, t)
    \/ /\ "reviewer" \in Served
       /\ \E new \in Users : LoggedUpdateReviewer(u, t, new)

\* Nothing happens for a while.
Wait(d) ==
    /\ now + d <= MaxNow
    /\ now' = now + d
    /\ UNCHANGED <<tickets, active, files>>

TimelineNext ==
    \/ LoggedCreateAny
    \/ \E u \in Users, t \in Stored : LoggedRequest(u, t)
    \/ \E d \in Waits : Wait(d)

TimelineSpec == TimelineInit /\ [][TimelineNext]_timelineVars
=============================================================================

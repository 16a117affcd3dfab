------------------------- MODULE TicketTimelineProofs -------------------------
(***************************************************************************)
(* What TicketTimeline, the lists of TicketViews and the statistics of     *)
(* TicketStats promise, for every tenant, every calendar and every length  *)
(* of the histories: first the timeline itself, which implements           *)
(* TicketWorkflow, then the lists, the histories, the stored times, the    *)
(* pages, the series and the business hours.                               *)
(***************************************************************************)
EXTENDS TicketViews, TicketStats, TicketWorkflowProofs, BoundedSets,
        FiniteSetTheorems

-----------------------------------------------------------------------------
(* The timeline.                                                           *)

\* Every request that is logged is a request of the workflow, and waiting is
\* no step of it.
LEMMA NextIsWorkflow == [TimelineNext]_timelineVars => [Next]_vars
<1> SUFFICES ASSUME [TimelineNext]_timelineVars PROVE [Next]_vars
  OBVIOUS
<1>1. CASE LoggedCreateAny
  <2>1. PICK t \in Tickets, requester \in Requesters, targets \in TargetLists,
             reviewer \in Users \cup {NoUser}, isPrivate \in Privacy :
           Create(t, requester, targets, reviewer, isPrivate)
    BY <1>1 DEF LoggedCreateAny, LoggedCreate
  <2>2. CreateAny
    BY <2>1 DEF CreateAny
  <2> QED BY <2>2 DEF Next
<1>2. ASSUME NEW u \in Users, NEW t \in Stored, LoggedRequest(u, t)
      PROVE  [Next]_vars
  <2>1. Request(u, t)
    <3>1. CASE \E isPrivate \in Privacy, dueAt \in DueDates :
                  LoggedUpdateTicket(u, t, isPrivate, dueAt)
      BY <3>1 DEF LoggedUpdateTicket, Request
    <3>2. CASE \E status \in Statuses : LoggedUpdateStatus(u, t, status)
      BY <3>2, TimelineAssumption DEF LoggedUpdateStatus, Request
    <3>3. CASE \E target \in Users \cup {NoUser} : LoggedRequestCorrection(u, t, target)
      BY <3>3 DEF LoggedRequestCorrection, Request
    <3>4. CASE \E new \in Users, order \in 1..MaxTargets :
                  \/ LoggedUpdateAssignee(u, t, new, order)
                  \/ LoggedAddAssignee(u, t, new, order)
      BY <3>4 DEF LoggedUpdateAssignee, LoggedAddAssignee, Request
    <3>5. CASE \E gone \in Users : LoggedRemoveAssignee(u, t, gone)
      BY <3>5 DEF LoggedRemoveAssignee, Request
    <3>6. CASE \E new \in Users : LoggedUpdateReviewer(u, t, new)
      BY <3>6 DEF LoggedUpdateReviewer, Request
    <3>7. CASE \/ LoggedAddFiles(t) \/ LoggedAccept(u, t) \/ LoggedApprove(u, t)
               \/ LoggedReject(u, t) \/ LoggedCancel(u, t) \/ LoggedDelete(t)
               \/ LoggedSendToNext(u, t)
      BY <3>7 DEF LoggedAddFiles, LoggedAccept, LoggedApprove, LoggedReject,
                  LoggedCancel, LoggedDelete, LoggedSendToNext, Request
    <3> QED BY <1>2, <3>1, <3>2, <3>3, <3>4, <3>5, <3>6, <3>7 DEF LoggedRequest
  <2> QED BY <2>1 DEF Next
<1>3. CASE \E d \in Waits : Wait(d)
  BY <1>3 DEF Wait, vars
<1>4. CASE UNCHANGED timelineVars
  BY <1>4 DEF timelineVars, vars
<1> QED
  BY <1>1, <1>2, <1>3, <1>4 DEF TimelineNext

\* The workflow with its clock and its histories is the workflow, so whatever
\* holds of the one holds of the other.
THEOREM TimelineImplementsWorkflow == TimelineSpec => Spec
<1>1. TimelineInit => Init
  BY DEF TimelineInit
<1> QED
  BY <1>1, NextIsWorkflow, PTL DEF TimelineSpec, Spec

\* What a file of a stored ticket is like: it has a row, and every row was
\* written before now.
FileInv(t) ==
    /\ Rows(t) # <<>>
    /\ \A i \in DOMAIN Rows(t) : Rows(t)[i].at < now

\* The inductive invariant of the timeline.
TimelineInv ==
    /\ IInv
    /\ now \in Nat
    /\ files \in [Tickets -> File]
    /\ IsFiniteSet(Stored)
    /\ \A t \in Stored : FileInv(t)

\* What a request may do to the stamps: all of them but the moment of creation.
Restamped(t, file) ==
    /\ file \in File
    /\ file.createdAt = files[t].createdAt
    /\ file.rows = Rows(t)

\* Whether a request leaves the stamps of the verdict alone.
Unjudged(t, file) ==
    /\ file.completedAt = files[t].completedAt
    /\ file.rejectedAt = files[t].rejectedAt

\* A request that writes a row.  The row tells what happens to the trail, and
\* its time is the one since the status was entered, unless it rejects.  Only
\* a row that completes or rejects comes with the stamp of a verdict.
Grows(t, row) ==
    /\ t \in Stored /\ tickets'[t] # NoTicket
    /\ row \in Entry /\ row.at = now
    /\ \E file : /\ Restamped(t, file)
                 /\ files'[t] = [file EXCEPT !.rows = Append(@, row)]
                 /\ \/ Unjudged(t, file)
                    \/ row.to \in {Completed, Rejected} /\ file.dueAt = files[t].dueAt
    /\ tickets'[t].trail = Replay(tickets[t].trail, row.fromUser, row.toUser, row.to)
    /\ row.secs # NoDate /\ row.to # Rejected => row.secs = TimeSpentIn(t, row.from)

\* A request that is not logged.
Stamps(t) ==
    /\ t \in Stored /\ tickets'[t] # NoTicket
    /\ Restamped(t, files'[t])
    /\ files'[t].dueAt = files[t].dueAt
    /\ tickets'[t].trail = tickets[t].trail

\* A request that creates the ticket.
Begins(t, row) ==
    /\ t \notin Stored /\ tickets'[t] # NoTicket
    /\ row \in Entry /\ row.at = now /\ row.secs = NoDate
    /\ row.fromUser = NoUser /\ row.to = Pending /\ row.from = "null"
    /\ \E dueAt \in Nat \cup {NoDate} :
          files'[t] = [[EmptyFile EXCEPT !.createdAt = now, !.dueAt = dueAt]
                          EXCEPT !.rows = Append(@, row)]
    /\ tickets'[t].trail = [holder |-> row.toUser, status |-> Pending]

\* A request that deletes it.
Ends(t) ==
    /\ t \in Stored /\ tickets'[t] = NoTicket
    /\ files'[t] = EmptyFile

\* What a request does to the ticket it is about, and only to that one.
Changes(t) ==
    /\ t \in Tickets /\ now' = now + 1
    /\ \A q \in Tickets \ {t} : tickets'[q] = tickets[q] /\ files'[q] = files[q]
    /\ files' \in [Tickets -> File]
    /\ \/ Ends(t) \/ Stamps(t)
       \/ \E row : Begins(t, row) \/ Grows(t, row)

\* The time in a status is one.
LEMMA TimeSpentType ==
    ASSUME TimelineInv, NEW t \in Stored, NEW status
    PROVE  TimeSpentIn(t, status) \in Nat \cup {NoDate}
<1> DEFINE E == EnteredAt(t, status)
           n == Len(Rows(t))
<1>1. t \in Tickets /\ Rows(t) \in Seq(Entry) /\ FileInv(t) /\ now \in Nat
  BY DEF TimelineInv, Stored, File, Rows
<1>2. E \in SUBSET Nat /\ E \subseteq DOMAIN Rows(t) /\ n \in Nat
      /\ \A i \in E : i <= n
  BY <1>1 DEF EnteredAt
<1>3. CASE E # {}
  <2>1. Max(E) \in DOMAIN Rows(t)
    <3> HIDE DEF E, n
    <3> QED BY <1>2, <1>3, MaxOfBounded
  <2> HIDE DEF E
  <2>2. Rows(t)[Max(E)].at \in Nat /\ Rows(t)[Max(E)].at < now
    <3>1. \A i \in DOMAIN Rows(t) : Rows(t)[i] \in Entry
      BY <1>1
    <3> QED BY <1>1, <2>1, <3>1 DEF FileInv, Entry
  <2> USE DEF E
  <2> QED BY <1>1, <1>3, <2>2 DEF TimeSpentIn
<1> QED
  BY <1>3 DEF TimeSpentIn

\* A handler that writes what it should into the ticket, the file and the row
\* makes the file grow.
LEMMA SaveGrows ==
    ASSUME TimelineInv, NEW t \in Stored,
           NEW after, RowInv(after), Write(t, after),
           NEW file, Restamped(t, file), NEW row \in Entry, Save(t, file, row),
           row.at = now,
           \/ Unjudged(t, file)
           \/ row.to \in {Completed, Rejected} /\ file.dueAt = files[t].dueAt,
           after.trail = Replay(tickets[t].trail, row.fromUser, row.toUser, row.to),
           row.secs # NoDate /\ row.to # Rejected => row.secs = TimeSpentIn(t, row.from)
    PROVE  Changes(t)
<1> DEFINE grown == [file EXCEPT !.rows = Append(@, row)]
<1>1. t \in Tickets /\ files \in [Tickets -> File] /\ DOMAIN tickets = Tickets
  BY DEF TimelineInv, IInv, Stored
<1>2. tickets'[t] = after /\ tickets'[t] # NoTicket
      /\ \A q \in Tickets \ {t} : tickets'[q] = tickets[q]
  BY <1>1, WorkflowAssumption DEF Write, RowInv
<1>3. grown \in File
  BY DEF Restamped, File
<1>4. files' = [files EXCEPT ![t] = grown] /\ now' = now + 1
  BY DEF Save, Tick
<1> HIDE DEF grown
<1>5. files'[t] = grown /\ files' \in [Tickets -> File]
      /\ \A q \in Tickets \ {t} : files'[q] = files[q]
  BY <1>1, <1>3, <1>4
<1>6. Grows(t, row)
  BY <1>2, <1>5 DEF Grows, grown
<1> QED
  BY <1>1, <1>2, <1>4, <1>5, <1>6 DEF Changes

\* A handler that throws before its row leaves the history and its reader alone.
LEMMA SaveStamps ==
    ASSUME TimelineInv, NEW t \in Stored,
           NEW after, RowInv(after), Write(t, after),
           NEW file, Restamped(t, file), SaveStampOnly(t, file),
           file.dueAt = files[t].dueAt, after.trail = tickets[t].trail
    PROVE  Changes(t)
<1>1. t \in Tickets /\ files \in [Tickets -> File] /\ DOMAIN tickets = Tickets
  BY DEF TimelineInv, IInv, Stored
<1>2. tickets'[t] = after /\ tickets'[t] # NoTicket
      /\ \A q \in Tickets \ {t} : tickets'[q] = tickets[q]
  BY <1>1, WorkflowAssumption DEF Write, RowInv
<1>3. files'[t] = file /\ files' \in [Tickets -> File] /\ now' = now + 1
      /\ \A q \in Tickets \ {t} : files'[q] = files[q]
  BY <1>1 DEF SaveStampOnly, Tick, Restamped
<1>4. Stamps(t)
  BY <1>2, <1>3 DEF Stamps, Restamped
<1> QED
  BY <1>1, <1>2, <1>3, <1>4 DEF Changes

\* The rows of a stored ticket.
LEMMA StoredRows ==
    ASSUME TimelineInv, NEW t \in Stored
    PROVE  /\ Rows(t) \in Seq(Entry) /\ Len(Rows(t)) \in Nat
           /\ DOMAIN Rows(t) = 1..Len(Rows(t))
           /\ \A i \in DOMAIN Rows(t) :
                 Rows(t)[i] \in Entry /\ Rows(t)[i].at \in Nat /\ Rows(t)[i].at < now
           /\ Rows(t) # <<>>
<1>1. Rows(t) \in Seq(Entry)
  BY DEF TimelineInv, Stored, File, Rows
<1> HIDE DEF Rows
<1>2. /\ Len(Rows(t)) \in Nat /\ DOMAIN Rows(t) = 1..Len(Rows(t))
      /\ \A i \in DOMAIN Rows(t) : Rows(t)[i] \in Entry
  BY <1>1
<1>3. FileInv(t)
  BY DEF TimelineInv
<1>4. \A e \in Entry : e.at \in Nat
  BY DEF Entry
<1> QED
  BY <1>1, <1>2, <1>3, <1>4, Zenon DEF FileInv

\* What a request on a stored ticket may use of the invariant.
LEMMA StoredTicket ==
    ASSUME TimelineInv, NEW t \in Stored
    PROVE  /\ t \in Tickets /\ RowInv(tickets[t]) /\ tickets[t] \in Row
           /\ tickets[t].current \in Users /\ tickets[t].status \in TicketStatus
           /\ tickets[t].targets \in Seq(Users)
           /\ files[t] \in File /\ now \in Nat /\ IInv
           /\ Restamped(t, files[t]) /\ Unjudged(t, files[t])
BY DEF TimelineInv, IInv, Stored, RowInv, Row, Restamped, Unjudged, Rows

\* Every request on a stored ticket changes that ticket only, and as Changes
\* says; one step per endpoint.
LEMMA RequestChanges ==
    ASSUME TimelineInv, NEW u \in Users, NEW t \in Stored, LoggedRequest(u, t)
    PROVE  Changes(t)
<1> DEFINE r == tickets[t]
           f == files[t]
<1>0. /\ t \in Tickets /\ RowInv(r) /\ r \in Row /\ r.current \in Users
      /\ r.status \in TicketStatus /\ r.targets \in Seq(Users)
      /\ f \in File /\ now \in Nat /\ IInv
      /\ Restamped(t, f) /\ Unjudged(t, f)
  BY StoredTicket
<1>t. \A status : TimeSpentIn(t, status) \in Nat \cup {NoDate}
  BY TimeSpentType
<1>s. /\ {Pending, InProgress, AwaitingVerification, UnderVerification, Returned,
          Completed, Rejected, Canceled} \subseteq TicketStatus
      /\ NoDate \in Nat \cup {NoDate}
  BY DEF TicketStatus
<1>a. {"creation", "update", "status_update", "completion", "cancellation",
       "assignee_change", "assignee_remove"} \subseteq Actions
  BY DEF Actions
<1>1. ASSUME NEW isPrivate \in Privacy, NEW dueAt \in DueDates,
             LoggedUpdateTicket(u, t, isPrivate, dueAt)
      PROVE  Changes(t)
  <2> DEFINE after == UpdatedTicket(u, r, isPrivate)
             file  == [f EXCEPT !.dueAt = dueAt]
             row   == RowOf("update", r.status, r.status, u, u, NoDate)
  <2>1. isPrivate \in BOOLEAN /\ dueAt \in Nat \cup {NoDate}
    BY WorkflowAssumption, TimelineAssumption
  <2>2. RowInv(after) /\ after.trail = Replay(r.trail, u, u, r.status)
    BY <1>0, <2>1, SimpleHandlersInv DEF UpdatedTicket, Row
  <2>3. Restamped(t, file) /\ Unjudged(t, file)
    BY <1>0, <2>1 DEF Restamped, Unjudged, File
  <2>4. /\ row \in Entry /\ row.at = now /\ row.secs = NoDate /\ row.to = r.status
        /\ row.fromUser = u /\ row.toUser = u
    BY <1>0, <1>s, <1>a DEF RowOf, Entry
  <2>5. Write(t, after) /\ Save(t, file, row)
    BY <1>1 DEF LoggedUpdateTicket, UpdateTicket
  <2> HIDE DEF after, file, row
  <2> QED BY <2>2, <2>3, <2>4, <2>5, SaveGrows
<1>2. ASSUME LoggedAddFiles(t) PROVE Changes(t)
  <2> DEFINE after == FilesAdded(r)
             row   == RowOf("update", r.status, r.status, r.current, r.current, NoDate)
  <2>1. RowInv(after) /\ after.trail = Replay(r.trail, r.current, r.current, r.status)
    BY <1>0, SimpleHandlersInv DEF FilesAdded, Row
  <2>2. /\ row \in Entry /\ row.at = now /\ row.secs = NoDate /\ row.to = r.status
        /\ row.fromUser = r.current /\ row.toUser = r.current
    BY <1>0, <1>s, <1>a DEF RowOf, Entry
  <2>3. Write(t, after) /\ Save(t, f, row)
    BY <1>2 DEF LoggedAddFiles, AddFiles, SaveRow
  <2> HIDE DEF after, row
  <2> QED BY <1>0, <2>1, <2>2, <2>3, SaveGrows
<1>3. ASSUME NEW status \in TicketStatus, LoggedUpdateStatus(u, t, status)
      PROVE  Changes(t)
  <2> DEFINE after == StatusUpdated(r, status)
             from  == IF status = AwaitingVerification THEN InProgress ELSE r.status
             row   == RowOf("status_update", from, status, r.current, r.current,
                            TimeSpentIn(t, from))
  <2>1. RowInv(after) /\ Write(t, after)
    BY <1>0, <1>3, SimpleHandlersInv DEF LoggedUpdateStatus, UpdateStatus
  <2>2. CASE StatusIsLogged(r, status)
    <3>1. after.trail = Replay(r.trail, r.current, r.current, status)
      BY <1>0, <2>2 DEF StatusUpdated, Row
    <3>2. from \in TicketStatus
      BY <1>0, <1>s
    <3>3. /\ row \in Entry /\ row.at = now /\ row.to = status /\ row.from = from
          /\ row.fromUser = r.current /\ row.toUser = r.current
          /\ row.secs = TimeSpentIn(t, from)
      <4> HIDE DEF from
      <4> QED BY <1>0, <1>t, <1>a, <3>2 DEF RowOf, Entry
    <3>4. Save(t, f, row)
      BY <1>3, <2>2 DEF LoggedUpdateStatus, SaveRow
    <3> HIDE DEF after, row, from
    <3> QED BY <1>0, <2>1, <3>1, <3>3, <3>4, SaveGrows
  <2>3. CASE ~StatusIsLogged(r, status)
    <3>1. after.trail = r.trail
      BY <1>0, <2>3 DEF StatusUpdated, Row
    <3>2. SaveStampOnly(t, f)
      BY <1>3, <2>3 DEF LoggedUpdateStatus
    <3> HIDE DEF after
    <3> QED BY <1>0, <2>1, <3>1, <3>2, SaveStamps
  <2> QED BY <2>2, <2>3
<1>4. ASSUME LoggedAccept(u, t) PROVE Changes(t)
  <2> DEFINE after == Accepted(r)
             file  == [f EXCEPT !.acceptedAt = now]
             row   == RowOf("status_update", Pending, InProgress, u, u,
                            TimeSpentIn(t, Pending))
  <2>1. RowInv(after) /\ after.trail = Replay(r.trail, r.current, r.current, InProgress)
    BY <1>0, SimpleHandlersInv DEF Accepted, Row
  <2>2. Restamped(t, file) /\ Unjudged(t, file)
    BY <1>0 DEF Restamped, Unjudged, File
  <2>3. /\ row \in Entry /\ row.at = now /\ row.to = InProgress /\ row.from = Pending
        /\ row.fromUser = u /\ row.toUser = u /\ row.secs = TimeSpentIn(t, Pending)
    BY <1>0, <1>t, <1>s, <1>a DEF RowOf, Entry
  <2>4. Write(t, after) /\ Save(t, file, row) /\ u = r.current
    BY <1>4 DEF LoggedAccept, Accept, CanAccept
  <2> HIDE DEF after, file, row
  <2> QED BY <2>1, <2>2, <2>3, <2>4, SaveGrows
<1>5. ASSUME LoggedApprove(u, t) PROVE Changes(t)
  <2> DEFINE after == Judged(r, Completed)
             file  == [f EXCEPT !.completedAt = now]
             row   == RowOf("completion", UnderVerification, Completed,
                            r.current, r.current, TimeSpentIn(t, UnderVerification))
  <2>1. RowInv(after) /\ Write(t, after)
    BY <1>0, <1>5, SimpleHandlersInv DEF LoggedApprove, Approve
  <2>2. Restamped(t, file) /\ file.dueAt = f.dueAt
    BY <1>0 DEF Restamped, File
  <2>3. CASE r.reviewer # NoUser
    <3>1. after.trail = Replay(r.trail, r.current, r.current, Completed)
      BY <1>0, <2>3 DEF Judged, Row
    <3>2. /\ row \in Entry /\ row.at = now /\ row.to = Completed
          /\ row.from = UnderVerification
          /\ row.fromUser = r.current /\ row.toUser = r.current
          /\ row.secs = TimeSpentIn(t, UnderVerification)
      BY <1>0, <1>t, <1>s, <1>a DEF RowOf, Entry
    <3>3. Save(t, file, row)
      BY <1>5, <2>3 DEF LoggedApprove
    <3> HIDE DEF after, file, row
    <3> QED BY <2>1, <2>2, <3>1, <3>2, <3>3, SaveGrows
  <2>4. CASE r.reviewer = NoUser
    <3>1. after.trail = r.trail
      BY <1>0, <2>4 DEF Judged, Row
    <3>2. SaveStampOnly(t, file)
      BY <1>5, <2>4 DEF LoggedApprove
    <3> HIDE DEF after, file
    <3> QED BY <2>1, <2>2, <3>1, <3>2, SaveStamps
  <2> QED BY <2>3, <2>4
<1>6. ASSUME LoggedReject(u, t) PROVE Changes(t)
  <2> DEFINE after == Judged(r, Rejected)
             file  == [f EXCEPT !.rejectedAt = now]
             row   == RowOf("status_update", r.status, Rejected,
                            r.current, r.current, TimeSpentIn(t, UnderVerification))
  <2>1. RowInv(after) /\ Write(t, after)
    BY <1>0, <1>6, SimpleHandlersInv DEF LoggedReject, Reject
  <2>2. Restamped(t, file) /\ file.dueAt = f.dueAt
    BY <1>0 DEF Restamped, File
  <2>3. CASE r.reviewer # NoUser
    <3>1. after.trail = Replay(r.trail, r.current, r.current, Rejected)
      BY <1>0, <2>3 DEF Judged, Row
    <3>2. /\ row \in Entry /\ row.at = now /\ row.to = Rejected
          /\ row.fromUser = r.current /\ row.toUser = r.current
      BY <1>0, <1>t, <1>s, <1>a DEF RowOf, Entry
    <3>3. Save(t, file, row)
      BY <1>6, <2>3 DEF LoggedReject
    <3> HIDE DEF after, file, row
    <3> QED BY <2>1, <2>2, <3>1, <3>2, <3>3, SaveGrows
  <2>4. CASE r.reviewer = NoUser
    <3>1. after.trail = r.trail
      BY <1>0, <2>4 DEF Judged, Row
    <3>2. SaveStampOnly(t, file)
      BY <1>6, <2>4 DEF LoggedReject
    <3> HIDE DEF after, file
    <3> QED BY <2>1, <2>2, <3>1, <3>2, SaveStamps
  <2> QED BY <2>3, <2>4
<1>7. ASSUME LoggedCancel(u, t) PROVE Changes(t)
  <2> DEFINE after == Cancelled(r)
             file  == [f EXCEPT !.canceledAt = now]
             row   == RowOf("cancellation", r.status, Canceled, r.current, r.current,
                            TimeSpentIn(t, r.status))
  <2>1. RowInv(after) /\ after.trail = Replay(r.trail, r.current, r.current, Canceled)
    BY <1>0, SimpleHandlersInv DEF Cancelled, Row
  <2>2. Restamped(t, file) /\ Unjudged(t, file)
    BY <1>0 DEF Restamped, Unjudged, File
  <2>3. /\ row \in Entry /\ row.at = now /\ row.to = Canceled /\ row.from = r.status
        /\ row.fromUser = r.current /\ row.toUser = r.current
        /\ row.secs = TimeSpentIn(t, r.status)
    BY <1>0, <1>t, <1>s, <1>a DEF RowOf, Entry
  <2>4. Write(t, after) /\ Save(t, file, row)
    BY <1>7 DEF LoggedCancel, Cancel
  <2> HIDE DEF after, file, row
  <2> QED BY <2>1, <2>2, <2>3, <2>4, SaveGrows
<1>8. ASSUME LoggedDelete(t) PROVE Changes(t)
  <2>1. EmptyFile \in File
    BY <1>0 DEF EmptyFile, File
  <2>2. files' = [files EXCEPT ![t] = EmptyFile] /\ now' = now + 1
        /\ tickets' = [tickets EXCEPT ![t] = NoTicket]
    BY <1>8 DEF LoggedDelete, DeleteTicket, Write, SaveStampOnly, Tick
  <2>3. Ends(t) /\ files' \in [Tickets -> File]
    BY <1>0, <2>1, <2>2 DEF TimelineInv, IInv, Ends
  <2> QED BY <1>0, <2>2, <2>3 DEF Changes, TimelineInv, IInv
<1>9. ASSUME NEW target \in Users \cup {NoUser}, LoggedRequestCorrection(u, t, target)
      PROVE  Changes(t)
  <2> DEFINE to    == CorrectionTarget(r, target)
             after == CorrectionRequested(r, target)
             row   == RowOf("status_update", UnderVerification, Returned, r.current, to,
                            TimeSpentIn(t, UnderVerification))
  <2>1. Write(t, after) /\ Save(t, f, row) /\ CanRequestCorrection(u, r, target)
    BY <1>9 DEF LoggedRequestCorrection, RequestCorrection, SaveRow
  <2>2. to \in Users
    BY <1>0 DEF CorrectionTarget
  <2>3. RowInv(after) /\ after.trail = Replay(r.trail, r.current, to, Returned)
    BY <1>0, <2>1, CorrectionInv DEF CorrectionRequested, Row
  <2>4. /\ row \in Entry /\ row.at = now /\ row.to = Returned
        /\ row.from = UnderVerification /\ row.fromUser = r.current /\ row.toUser = to
        /\ row.secs = TimeSpentIn(t, UnderVerification)
    <3> HIDE DEF to
    <3> QED BY <1>0, <1>t, <1>s, <1>a, <2>2 DEF RowOf, Entry
  <2> HIDE DEF after, row, to
  <2> QED BY <1>0, <2>1, <2>3, <2>4, SaveGrows
<1>10. ASSUME NEW new \in Users, NEW order \in 1..MaxTargets,
              LoggedUpdateAssignee(u, t, new, order)
       PROVE  Changes(t)
  <2> DEFINE old   == r.targets[order]
             after == AssigneeUpdated(r, new, order)
             row   == RowOf("assignee_change", r.status, Pending, old, new, NoDate)
  <2>1. Write(t, after) /\ Save(t, f, row) /\ order \in 1..Len(r.targets)
    BY <1>10 DEF LoggedUpdateAssignee, UpdateAssignee, CanUpdateAssignee, SaveRow
  <2>2. old \in Users
    BY <1>0, <2>1, ElementOfSeq
  <2>3. RowInv(after) /\ after.trail = Replay(r.trail, old, new, Pending)
    BY <1>0, <2>1, AssigneeUpdatedInv DEF AssigneeUpdated, Row
  <2>4. /\ row \in Entry /\ row.at = now /\ row.to = Pending /\ row.secs = NoDate
        /\ row.fromUser = old /\ row.toUser = new
    <3> HIDE DEF old
    <3> QED BY <1>0, <1>s, <1>a, <2>2 DEF RowOf, Entry
  <2> HIDE DEF after, row, old
  <2> QED BY <1>0, <2>1, <2>3, <2>4, SaveGrows
<1>11. ASSUME NEW new \in Users, NEW order \in 1..MaxTargets,
              LoggedAddAssignee(u, t, new, order)
       PROVE  Changes(t)
  <2> DEFINE after == AssigneeAdded(r, new, order)
             row   == RowOf("assignee_change", r.status, r.status, NoUser, new, NoDate)
  <2>1. Write(t, after) /\ Save(t, f, row) /\ order \in 1..(Len(r.targets) + 1)
    BY <1>11 DEF LoggedAddAssignee, AddAssignee, CanAddAssignee, SaveRow
  <2>2. RowInv(after) /\ after.trail = Replay(r.trail, NoUser, new, r.status)
    BY <1>0, <2>1, AssigneeAddedInv DEF AssigneeAdded, Row
  <2>3. /\ row \in Entry /\ row.at = now /\ row.to = r.status /\ row.secs = NoDate
        /\ row.fromUser = NoUser /\ row.toUser = new
    <3>1. NoUser \in Users \cup {NoUser} /\ new \in Users \cup {NoUser}
      OBVIOUS
    <3> QED BY <1>0, <1>s, <1>a, <3>1 DEF RowOf, Entry
  <2> HIDE DEF after, row
  <2> QED BY <1>0, <2>1, <2>2, <2>3, SaveGrows
<1>12. ASSUME NEW gone \in Users, LoggedRemoveAssignee(u, t, gone) PROVE Changes(t)
  <2> DEFINE after == AssigneeRemoved(r, gone)
             row   == IF gone # r.current
                      THEN RowOf("assignee_remove", r.status, r.status, gone, NoUser, NoDate)
                      ELSE IF after.status = AwaitingVerification
                      THEN RowOf("status_update", Pending, AwaitingVerification, gone,
                                 after.current, NoDate)
                      ELSE RowOf("assignee_change", Pending, Pending, gone,
                                 after.current, NoDate)
  <2>1. Write(t, after) /\ Save(t, f, row) /\ CanRemoveAssignee(u, r, gone)
    BY <1>12 DEF LoggedRemoveAssignee, RemoveAssignee, SaveRow
  <2>2. RowInv(after) /\ after.current \in Users
    <3>1. RowInv(after)
      BY <1>0, <2>1, AssigneeRemovedInv
    <3> HIDE DEF after
    <3> QED BY <3>1 DEF RowInv, Row
  <2>3. IF gone # r.current
        THEN after.trail = Replay(r.trail, gone, NoUser, r.status)
        ELSE /\ after.status \in {AwaitingVerification, Pending}
             /\ after.trail = Replay(r.trail, gone, after.current, after.status)
    BY <1>0 DEF AssigneeRemoved, Row
  <2>4. AwaitingVerification # Pending
    BY DEF AwaitingVerification, Pending
  <2> HIDE DEF after
  <2>5. /\ row \in Entry /\ row.at = now /\ row.secs = NoDate
        /\ after.trail = Replay(r.trail, row.fromUser, row.toUser, row.to)
    <3>1. CASE gone # r.current
      <4>1. row = RowOf("assignee_remove", r.status, r.status, gone, NoUser, NoDate)
        BY <3>1
      <4> HIDE DEF row
      <4> QED BY <1>0, <1>s, <1>a, <2>3, <3>1, <4>1 DEF RowOf, Entry
    <3>2. CASE gone = r.current /\ after.status = AwaitingVerification
      <4>1. row = RowOf("status_update", Pending, AwaitingVerification, gone,
                        after.current, NoDate)
        BY <3>2
      <4> HIDE DEF row
      <4> QED BY <1>0, <1>s, <1>a, <2>2, <2>3, <3>2, <4>1 DEF RowOf, Entry
    <3>3. CASE gone = r.current /\ after.status = Pending
      <4>1. row = RowOf("assignee_change", Pending, Pending, gone, after.current, NoDate)
        BY <2>4, <3>3
      <4> HIDE DEF row
      <4> QED BY <1>0, <1>s, <1>a, <2>2, <2>3, <3>3, <4>1 DEF RowOf, Entry
    <3> QED BY <2>3, <3>1, <3>2, <3>3
  <2> HIDE DEF row
  <2> QED BY <1>0, <2>1, <2>2, <2>5, SaveGrows
<1>13. ASSUME LoggedSendToNext(u, t) PROVE Changes(t)
  <2> DEFINE after == SentToNext(r)
             row   == RowOf("assignee_change", r.status, Pending, r.current,
                            after.current, TimeSpentIn(t, r.status))
  <2>1. Write(t, after) /\ Save(t, f, row) /\ CanSendToNext(u, r)
    BY <1>13 DEF LoggedSendToNext, SendToNextDepartment, SaveRow
  <2>2. RowInv(after) /\ after.current \in Users
    <3>1. RowInv(after)
      BY <1>0, <2>1, SentToNextInv
    <3> HIDE DEF after
    <3> QED BY <3>1 DEF RowInv, Row
  <2>3. after.trail = Replay(r.trail, r.current, after.current, Pending)
    BY <1>0 DEF SentToNext, Row
  <2> HIDE DEF after
  <2>4. /\ row \in Entry /\ row.at = now /\ row.to = Pending /\ row.from = r.status
        /\ row.fromUser = r.current /\ row.toUser = after.current
        /\ row.secs = TimeSpentIn(t, r.status)
    BY <1>0, <1>t, <1>s, <1>a, <2>2 DEF RowOf, Entry
  <2> HIDE DEF row
  <2> QED BY <1>0, <2>1, <2>2, <2>3, <2>4, SaveGrows
<1>14. ASSUME NEW new \in Users, LoggedUpdateReviewer(u, t, new) PROVE Changes(t)
  <2> DEFINE after == ReviewerUpdated(r, new)
             row   == RowOf("update", r.status, r.status, r.current, r.current, NoDate)
  <2>1. RowInv(after) /\ after.trail = Replay(r.trail, r.current, r.current, r.status)
    BY <1>0, SimpleHandlersInv DEF ReviewerUpdated, Row
  <2>2. /\ row \in Entry /\ row.at = now /\ row.secs = NoDate /\ row.to = r.status
        /\ row.fromUser = r.current /\ row.toUser = r.current
    BY <1>0, <1>s, <1>a DEF RowOf, Entry
  <2>3. Write(t, after) /\ Save(t, f, row)
    BY <1>14 DEF LoggedUpdateReviewer, UpdateReviewer, SaveRow
  <2> HIDE DEF after, row
  <2> QED BY <1>0, <2>1, <2>2, <2>3, SaveGrows
<1>15. Statuses \subseteq TicketStatus
  BY TimelineAssumption
<1> QED
  BY <1>1, <1>2, <1>3, <1>4, <1>5, <1>6, <1>7, <1>8, <1>9, <1>10, <1>11, <1>12,
     <1>13, <1>14, <1>15 DEF LoggedRequest

\* create changes the ticket it creates only.
LEMMA CreateChanges ==
    ASSUME TimelineInv, LoggedCreateAny
    PROVE  \E t \in Tickets : Changes(t)
<1>1. PICK t \in Tickets, requester \in Requesters, targets \in TargetLists,
           reviewer \in Users \cup {NoUser}, isPrivate \in Privacy, dueAt \in DueDates :
        LoggedCreate(t, requester, targets, reviewer, isPrivate, dueAt)
  BY DEF LoggedCreateAny
<1> DEFINE after == Created(requester, targets, reviewer, isPrivate)
           file  == [EmptyFile EXCEPT !.createdAt = now, !.dueAt = dueAt]
           row   == RowOf("creation", "null", Pending, NoUser, targets[1], NoDate)
           grown == [file EXCEPT !.rows = Append(@, row)]
<1>2. /\ t \notin Stored /\ Write(t, after) /\ CanCreate(requester, targets, isPrivate)
      /\ now' = now + 1 /\ files' = [files EXCEPT ![t] = grown]
  BY <1>1 DEF LoggedCreate, Create, Save, Tick
<1>3. targets \in Seq(Users) /\ requester \in Users /\ isPrivate \in BOOLEAN
  BY WorkflowAssumption, SeqDef DEF TargetLists
<1>4. RowInv(after)
  BY <1>2, <1>3, CreatedInv
<1>5. after.trail = [holder |-> targets[1], status |-> Pending]
  BY DEF Created
<1>6. targets[1] \in Users
  <2>1. 1 \in 1..Len(targets)
    <3>1. Len(targets) \in 1..3
      BY <1>2, Zenon DEF CanCreate
    <3> QED BY <3>1
  <2> QED BY <1>3, <2>1, ElementOfSeq
<1>7. /\ row \in Entry /\ row.at = now /\ row.secs = NoDate /\ row.fromUser = NoUser
      /\ row.to = Pending /\ row.from = "null" /\ row.toUser = targets[1]
  <2>1. "creation" \in Actions /\ Pending \in TicketStatus /\ now \in Nat
        /\ NoDate \in Nat \cup {NoDate}
    BY DEF Actions, TicketStatus, TimelineInv
  <2> QED BY <1>6, <2>1 DEF RowOf, Entry
<1> HIDE DEF row
<1>8. grown \in File /\ dueAt \in Nat \cup {NoDate}
  <2>1. dueAt \in Nat \cup {NoDate} /\ now \in Nat
    BY TimelineAssumption DEF TimelineInv
  <2>e. EmptyFile \in File /\ EmptyFile.rows = <<>>
    BY DEF EmptyFile, File
  <2>2. file \in File /\ file.rows = <<>>
    BY <2>1, <2>e DEF File
  <2> HIDE DEF file
  <2>3. Append(file.rows, row) \in Seq(Entry)
    BY <2>2, <1>7
  <2>4. grown \in File
    BY <2>2, <2>3 DEF File
  <2> QED BY <2>1, <2>4
<1>9. /\ files \in [Tickets -> File] /\ DOMAIN tickets = Tickets
      /\ tickets' = [tickets EXCEPT ![t] = after] /\ after # NoTicket
  BY <1>2, <1>4, WorkflowAssumption DEF TimelineInv, IInv, Write, RowInv
<1> HIDE DEF after
<1>10. Begins(t, row)
  <2>1. files'[t] = grown
    BY <1>2, <1>9
  <2> QED BY <1>2, <1>5, <1>7, <1>8, <1>9, <2>1 DEF Begins
<1>11. files' \in [Tickets -> File] /\ \A q \in Tickets \ {t} : files'[q] = files[q]
  <2> HIDE DEF grown
  <2> QED BY <1>2, <1>8, <1>9
<1> QED
  BY <1>2, <1>9, <1>10, <1>11 DEF Changes

\* Waiting changes the time only.
Waiting ==
    /\ now \in Nat /\ now' \in Nat /\ now < now'
    /\ tickets' = tickets /\ files' = files

\* So a step is one of three things.
LEMMA TimelineSteps ==
    ASSUME TimelineInv, [TimelineNext]_timelineVars
    PROVE  \/ \E t \in Tickets : Changes(t)
           \/ Waiting
           \/ UNCHANGED timelineVars
<1>1. ASSUME NEW u \in Users, NEW t \in Stored, LoggedRequest(u, t)
      PROVE  \E q \in Tickets : Changes(q)
  BY <1>1, RequestChanges, StoredTicket
<1>2. ASSUME NEW d \in Waits, Wait(d) PROVE Waiting
  <2>1. d \in Nat \ {0} /\ now \in Nat
    BY TimelineAssumption DEF TimelineInv
  <2> QED BY <1>2, <2>1 DEF Wait, Waiting
<1> QED
  BY <1>1, <1>2, CreateChanges DEF TimelineNext

\* A file that grows keeps its rows and gets one more.
LEMMA GrownRows ==
    ASSUME NEW t \in Tickets, NEW file \in File, NEW row \in Entry,
           files'[t] = [file EXCEPT !.rows = Append(@, row)], file.rows \in Seq(Entry)
    PROVE  LET n == Len(file.rows)
           IN  /\ Rows(t)' = Append(file.rows, row)
               /\ n \in Nat /\ Len(Rows(t))' = n + 1 /\ DOMAIN file.rows = 1..n
               /\ DOMAIN Rows(t)' = 1..(n + 1)
               /\ Rows(t)'[n + 1] = row
               /\ \A i \in 1..n : Rows(t)'[i] = file.rows[i]
<1>1. Rows(t)' = Append(file.rows, row)
  BY DEF Rows, File
<1> QED
  BY <1>1

\* The file of a changed ticket is one.
LEMMA ChangedFile ==
    ASSUME TimelineInv, NEW t, Changes(t), tickets'[t] # NoTicket
    PROVE  FileInv(t)'
<1>1. t \in Tickets /\ now \in Nat /\ now' = now + 1
  BY DEF Changes, TimelineInv
<1>2. CASE Stamps(t)
  <2>1. t \in Stored /\ Rows(t)' = Rows(t)
    BY <1>2 DEF Stamps, Restamped, Rows
  <2> HIDE DEF Rows
  <2> QED BY <1>1, <2>1, StoredRows DEF FileInv
<1>3. ASSUME NEW row, Begins(t, row) PROVE FileInv(t)'
  <2>1. Rows(t)' = <<row>> /\ row.at = now
    BY <1>3 DEF Begins, Rows, EmptyFile
  <2> QED BY <1>1, <2>1 DEF FileInv
<1>4. ASSUME NEW row, Grows(t, row) PROVE FileInv(t)'
  <2>1. PICK file : /\ Restamped(t, file)
                    /\ files'[t] = [file EXCEPT !.rows = Append(@, row)]
    BY <1>4 DEF Grows
  <2>2. /\ FileInv(t) /\ file \in File /\ file.rows = Rows(t)
        /\ Rows(t) \in Seq(Entry) /\ row \in Entry /\ row.at = now
    BY <1>4, <2>1 DEF Grows, TimelineInv, Restamped, Stored, File, Rows
  <2> DEFINE n == Len(Rows(t))
  <2>3. /\ n \in Nat /\ DOMAIN Rows(t) = 1..n /\ DOMAIN Rows(t)' = 1..(n + 1)
        /\ Rows(t)'[n + 1] = row /\ \A i \in 1..n : Rows(t)'[i] = Rows(t)[i]
        /\ Rows(t)' = Append(Rows(t), row)
    BY <1>1, <2>1, <2>2, GrownRows
  <2>4. \A i \in 1..n : Rows(t)[i].at \in Nat /\ Rows(t)[i].at < now
    BY <1>4, <2>3, StoredRows DEF Grows
  <2>5. Rows(t)' # <<>>
    BY <2>3
  <2> HIDE DEF n
  <2>6. ASSUME NEW i \in 1..(n + 1) PROVE Rows(t)'[i].at < now'
    <3>1. i \in 1..n \/ i = n + 1
      BY <2>3
    <3> QED BY <1>1, <2>2, <2>3, <2>4, <3>1
  <2> QED BY <2>3, <2>5, <2>6 DEF FileInv
<1> QED
  BY <1>2, <1>3, <1>4 DEF Changes, Ends

\* Every step keeps the invariant of the timeline.
LEMMA NextTimelineInv == TimelineInv /\ [TimelineNext]_timelineVars => TimelineInv'
<1> SUFFICES ASSUME TimelineInv, [TimelineNext]_timelineVars PROVE TimelineInv'
  OBVIOUS
<1>1. IInv'
  BY NextIsWorkflow, NextIInv DEF TimelineInv
<1>2. ASSUME NEW t \in Tickets, Changes(t) PROVE TimelineInv'
  <2>1. now' \in Nat /\ files' \in [Tickets -> File]
    BY <1>2 DEF Changes, TimelineInv
  <2>2. Stored' \subseteq Stored \cup {t}
    BY <1>2 DEF Changes, Stored
  <2>3. IsFiniteSet(Stored')
    <3>1. IsFiniteSet(Stored \cup {t})
      BY FS_AddElement DEF TimelineInv
    <3> QED BY <2>2, <3>1, FS_Subset
  <2>4. ASSUME NEW q \in Stored' PROVE FileInv(q)'
    <3>1. CASE q = t
      BY <1>2, <3>1, ChangedFile DEF Stored
    <3>2. CASE q # t
      <4>1. q \in Stored /\ Rows(q)' = Rows(q) /\ now \in Nat /\ now' = now + 1
        BY <1>2, <3>2 DEF Changes, Stored, TimelineInv, Rows
      <4> QED BY <4>1, StoredRows DEF FileInv
    <3> QED BY <3>1, <3>2
  <2> QED BY <1>1, <2>1, <2>3, <2>4 DEF TimelineInv
<1>3. CASE Waiting
  <2>1. ASSUME NEW q \in Stored PROVE FileInv(q)'
    <3>1. Rows(q)' = Rows(q)
      BY <1>3 DEF Waiting, Rows
    <3> QED BY <1>3, <3>1, StoredRows DEF FileInv, Waiting
  <2>2. Stored' = Stored /\ files' = files /\ now' \in Nat
    BY <1>3 DEF Waiting, Stored
  <2> QED BY <1>1, <2>1, <2>2 DEF TimelineInv
<1>4. CASE UNCHANGED timelineVars
  <2>1. Stored' = Stored /\ files' = files /\ now' = now
    BY <1>4 DEF timelineVars, Stored
  <2> QED BY <1>1, <2>1 DEF TimelineInv, FileInv, Rows
<1> QED
  BY <1>2, <1>3, <1>4, TimelineSteps

LEMMA InitTimelineInv == TimelineInit => TimelineInv
<1> SUFFICES ASSUME TimelineInit PROVE TimelineInv
  OBVIOUS
<1>1. IInv /\ Stored = {}
  BY InitIInv DEF TimelineInit, Init, Stored
<1>2. EmptyFile \in File
  BY DEF EmptyFile, File
<1> QED
  BY <1>1, <1>2, FS_EmptySet DEF TimelineInit, TimelineInv

\* Every reachable state has the histories and the clock TimelineInv says.
THEOREM TimelineInvariance == TimelineSpec => []TimelineInv
BY InitTimelineInv, NextTimelineInv, PTL DEF TimelineSpec

-----------------------------------------------------------------------------
(* The lists.                                                              *)

\* The list and the archive are disjoint, for every user: their two rules on
\* the seven days never overlap, whatever the time and whatever was stamped.
THEOREM NowhereAlwaysOnce == TimelineSpec => []NowhereTwice
<1>1. TimelineInv => NowhereTwice
  <2> SUFFICES ASSUME TimelineInv, NEW u \in Users, NEW t \in Stored,
                      ByStatus(t, AnyValue), ArchiveFilter(t)
               PROVE  FALSE
    BY DEF NowhereTwice, FindAll, FindArchived
  <2>1. /\ files[t].completedAt \in Int /\ now \in Nat /\ ArchiveTicks \in Nat
        /\ tickets[t].status = Completed
    BY StoredTicket, ViewsAssumption
       DEF File, NoDate, ByStatus, DefaultStatusFilter, ArchiveFilter
  <2> QED
    BY <2>1 DEF ByStatus, DefaultStatusFilter, ArchiveFilter, Recent
<1> QED
  BY <1>1, TimelineInvariance, PTL

\* The columns of the board are the list, for every user and every filter the
\* board has: no other status than the eight is ever stored.
THEOREM BoardAlwaysShowsTheList == TimelineSpec => []BoardShowsTheList
<1>1. ASSUME TimelineInv, NEW u, NEW where
      PROVE  UNION { FindMany(u, where, status) : status \in TicketStatus \ {Rejected, Canceled} }
                = FindMany(u, where, AnyValue)
  <2> DEFINE Shown1(t) == t \in Stored /\ WhereFilters(t, where) /\ SupervisorFilter(u, t)
  <2>1. \A t : t \in FindMany(u, where, AnyValue) <=> Shown1(t) /\ DefaultStatusFilter(t)
    BY DEF FindMany, FindAll, ByStatus
  <2>2. ASSUME NEW status \in TicketStatus
        PROVE  \A t : t \in FindMany(u, where, status) <=> Shown1(t) /\ StatusFilter(t, status)
    <3>1. status # AnyValue
      BY ViewsAssumption
    <3> QED BY <3>1 DEF FindMany, FindAll, ByStatus
  <2>3. \A t \in Stored :
          DefaultStatusFilter(t)
            <=> \E status \in TicketStatus \ {Rejected, Canceled} : StatusFilter(t, status)
    <3>1. \A t \in Stored : tickets[t].status \in TicketStatus
      BY <1>1, StoredTicket
    <3> QED BY <3>1 DEF DefaultStatusFilter, StatusFilter
  <2>4. ASSUME NEW t
        PROVE  t \in FindMany(u, where, AnyValue)
                 <=> \E status \in TicketStatus \ {Rejected, Canceled} :
                        t \in FindMany(u, where, status)
    <3> HIDE DEF Shown1
    <3>1. Shown1(t) => t \in Stored
      BY DEF Shown1
    <3> QED BY <2>1, <2>2, <2>3, <3>1
  <2> QED BY <2>4
<1>2. TimelineInv => BoardShowsTheList
  BY <1>1 DEF BoardShowsTheList
<1> QED
  BY <1>2, TimelineInvariance, PTL

\* Every active user who may read a ticket, and is no admin, hears of it.
THEOREM ReadersAlwaysHear == TimelineSpec => []ReadersHear
<1>1. TimelineInv => ReadersHear
  <2> SUFFICES ASSUME TimelineInv, NEW u \in active \ Admins, NEW t \in Stored,
                      CheckTicketAccess(u, tickets[t]) \/ t \in FindByReceived(u, AnyValue)
               PROVE  u \in Hearers(t)
    BY DEF ReadersHear
  <2>1. u \in Users /\ u # NoUser
    BY UsersAssumption DEF TimelineInv, IInv
  <2>2. CASE \E v \in Assigned(tickets[t]) : DeptOf[v] = DeptOf[u]
    BY <2>2 DEF Hearers, Reaches
  <2>3. CASE u \in Assigned(tickets[t])
                 \cup {tickets[t].requester, tickets[t].current, tickets[t].reviewer}
    BY <2>1, <2>3 DEF Hearers
  <2> QED
    BY <2>2, <2>3 DEF CheckTicketAccess, FindByReceived, FindByTargetUser, FindAll
<1> QED
  BY <1>1, TimelineInvariance, PTL

\* Time alone takes nothing from an admin: a ticket that is not recent any
\* more is in the archive at once.
THEOREM TimeNeverLoses == TimelineSpec => TimeLosesNothing
<1> DEFINE Step == (\E d \in Waits : Wait(d))
                      => \A admin \in Admins : Shown(admin) \subseteq Shown(admin)'
<1>1. ASSUME TimelineInv, NEW d \in Waits, Wait(d), NEW admin \in Admins,
             NEW t \in Shown(admin)
      PROVE  t \in Shown(admin)'
  <2>1. /\ tickets' = tickets /\ files' = files /\ Stored' = Stored
        /\ now' = now + d /\ d \in Nat /\ now \in Nat /\ ArchiveTicks \in Nat
    BY <1>1, TimelineAssumption, ViewsAssumption DEF Wait, Stored, TimelineInv
  <2>2. t \in Stored /\ files[t].completedAt \in Int
    BY <1>1, StoredTicket DEF Shown, FindAll, FindArchived, File, NoDate
  <2>3. WhereFilters(t, Everything) /\ WhereFilters(t, Everything)'
    BY DEF WhereFilters, Everything
  <2>4. t \in Shown(admin) <=> DefaultStatusFilter(t) \/ ArchiveFilter(t)
    BY <1>1, <2>2, <2>3 DEF Shown, FindAll, FindArchived, ByStatus
  <2>5. t \in Shown(admin)' <=> DefaultStatusFilter(t)' \/ ArchiveFilter(t)'
    BY <1>1, <2>1, <2>2, <2>3 DEF Shown, FindAll, FindArchived, ByStatus
  <2>6. DefaultStatusFilter(t) \/ ArchiveFilter(t)
          => DefaultStatusFilter(t)' \/ ArchiveFilter(t)'
    BY <2>1, <2>2 DEF DefaultStatusFilter, ArchiveFilter, Recent
  <2> QED BY <1>1, <2>4, <2>5, <2>6
<1>2. TimelineInv /\ [TimelineNext]_timelineVars => [Step]_timelineVars
  BY <1>1
<1> QED
  BY <1>2, TimelineInvariance, PTL DEF TimelineSpec, TimeLosesNothing

-----------------------------------------------------------------------------
(* The history.                                                            *)

\* The trail the rows tell from a beginning, and what a trail is.
TrailOf(base, s) ==
    FoldLeft(LAMBDA trail, row : Replay(trail, row.fromUser, row.toUser, row.to), base, s)

Trails == [holder : Users \cup {NoUser}, status : TicketStatus]

\* A fold reads the rows one by one: what it tells of a history with one row
\* more is what that row makes of what it told before.
LEMMA TrailOfAppend ==
    ASSUME NEW base \in Trails, NEW s \in Seq(Entry), NEW e \in Entry
    PROVE  /\ TrailOf(base, <<>>) = base
           /\ TrailOf(base, Append(s, e))
                 = Replay(TrailOf(base, s), e.fromUser, e.toUser, e.to)
<1> DEFINE Next1(a, e1) == Replay(a, e1.fromUser, e1.toUser, e1.to)
           Solves(f, q) == f = [S \in SUBSET DOMAIN q |->
                              IF S = {} THEN base
                              ELSE Next1(f[S \ {Max(S)}], q[Max(S)])]
           It(q) == CHOOSE f : Solves(f, q)
<1>1. \A q : TrailOf(base, q) = It(q)[DOMAIN q]
  BY Zenon DEF TrailOf, FoldLeft, MapThenFoldSet
<1>2. \A a \in Trails, e1 \in Entry : Next1(a, e1) \in Trails
  BY DEF Replay, Trails, Entry
<1> HIDE DEF Next1
<1>3. ASSUME NEW q \in Seq(Entry)
      PROVE  Solves(It(q), q)
  <2> DEFINE n == Len(q)
             T == [p \in Trails \X (1..n) |-> Next1(p[1], q[p[2]])]
  <2>1. n \in Nat /\ DOMAIN q = 1..n /\ \A k \in 1..n : q[k] \in Entry
    OBVIOUS
  <2> HIDE DEF n
  <2>2. /\ T \in [Trails \X (1..n) -> Trails]
        /\ \A a \in Trails, k \in 1..n : T[<<a, k>>] = Next1(a, q[k])
    BY <1>2, <2>1
  <2> HIDE DEF T
  <2>3. PICK g \in [SUBSET (1..n) -> Trails] : IsFold(g, n, base, T)
    <3>1. n \in Nat
      BY <2>1
    <3>2. base \in Trails
      OBVIOUS
    <3>3. T \in [Trails \X (1..n) -> Trails]
      BY <2>2
    <3> QED BY <3>1, <3>2, <3>3, FoldExists, Zenon
  <2>4. ASSUME NEW S \in SUBSET (1..n)
        PROVE  g[S] = IF S = {} THEN base ELSE Next1(g[S \ {Max(S)}], q[Max(S)])
    <3>1. CASE S # {}
      <4>1. S \in SUBSET Nat /\ \A k \in S : k <= n
        BY <2>1
      <4>2. Max(S) \in 1..n /\ g[S \ {Max(S)}] \in Trails
        BY <2>1, <3>1, <4>1, MaxOfBounded
      <4> QED BY <2>2, <2>3, <3>1, <4>2 DEF IsFold
    <3> QED BY <2>3, <3>1 DEF IsFold
  <2>5. g = [S \in SUBSET (1..n) |-> g[S]]
    OBVIOUS
  <2>6. Solves(g, q)
    BY <2>1, <2>4, <2>5, Zenon
  <2> QED BY <2>6
<1>4. ASSUME NEW q \in Seq(Entry)
      PROVE  /\ It(q)[1..0] = base
             /\ \A k \in 1..Len(q) : It(q)[1..k] = Next1(It(q)[1..(k - 1)], q[k])
  <2> DEFINE f == It(q)
  <2>1. f = [S \in SUBSET DOMAIN q |-> IF S = {} THEN base
                                      ELSE Next1(f[S \ {Max(S)}], q[Max(S)])]
    BY <1>3
  <2> HIDE DEF f
  <2>2. f[1..0] = base
    <3>1. 1..0 = {} /\ {} \in SUBSET DOMAIN q
      OBVIOUS
    <3> QED BY <2>1, <3>1
  <2>3. ASSUME NEW k \in 1..Len(q)
        PROVE  f[1..k] = Next1(f[1..(k - 1)], q[k])
    <3>1. 1..k \in SUBSET DOMAIN q /\ k \in Nat \ {0}
      OBVIOUS
    <3>2. 1..k # {} /\ Max(1..k) = k /\ (1..k) \ {k} = 1..(k - 1)
      BY <3>1, MaxOfPrefix
    <3> QED BY <2>1, <3>1, <3>2
  <2> QED BY <2>2, <2>3 DEF f
<1>5. TrailOf(base, <<>>) = base
  <2>1. DOMAIN <<>> = {} /\ <<>> \in Seq(Entry) /\ {} \in SUBSET DOMAIN <<>>
    OBVIOUS
  <2> HIDE DEF It
  <2> QED BY <1>1, <1>3, <2>1
<1>6. TrailOf(base, Append(s, e)) = Next1(TrailOf(base, s), e)
  <2> DEFINE n == Len(s)
             r == Append(s, e)
  <2>1. /\ n \in Nat /\ DOMAIN s = 1..n
        /\ r \in Seq(Entry) /\ Len(r) = n + 1 /\ DOMAIN r = 1..(n + 1)
        /\ r[n + 1] = e /\ \A k \in 1..n : r[k] = s[k]
    OBVIOUS
  <2> HIDE DEF n, r, It
  <2>2. It(r)[1..0] = It(s)[1..0]
    BY <1>4, <2>1
  <2>3. It(r)[1..n] = It(s)[1..n]
    <3>1. \A k \in 1..n : /\ It(r)[1..k] = Next1(It(r)[1..(k - 1)], s[k])
                          /\ It(s)[1..k] = Next1(It(s)[1..(k - 1)], s[k])
      BY <1>4, <2>1 DEF n
    <3>2. n \in Nat
      BY <2>1
    <3>3. \A k \in 1..n : It(r)[1..(k - 1)] = It(s)[1..(k - 1)] => It(r)[1..k] = It(s)[1..k]
      BY <3>1
    <3> QED BY <2>2, <3>2, <3>3, PrefixAgree, Zenon
  <2>4. It(r)[1..(n + 1)] = Next1(It(r)[1..n], e)
    <3>1. n + 1 \in 1..Len(r) /\ (n + 1) - 1 = n
      BY <2>1
    <3> QED BY <1>4, <2>1, <3>1
  <2> QED BY <1>1, <2>1, <2>3, <2>4 DEF r
<1> QED BY <1>5, <1>6 DEF Next1

\* What RowsTellTheTrail says of one ticket.
Told(t) ==
    tickets[t].trail = TrailOf([holder |-> Rows(t)[1].toUser, status |-> Pending], Rows(t))

\* The rows of a changed ticket tell its trail: each handler replays in the
\* ticket the very row it appends.
LEMMA ChangedIsTold ==
    ASSUME TimelineInv, NEW t, Changes(t), t \in Stored => Told(t), tickets'[t] # NoTicket
    PROVE  Told(t)'
<1>0. t \in Tickets /\ Pending \in TicketStatus
  BY DEF Changes, TicketStatus
<1>1. CASE Stamps(t)
  <2>1. t \in Stored /\ Rows(t)' = Rows(t) /\ tickets'[t].trail = tickets[t].trail
    BY <1>1 DEF Stamps, Restamped, Rows
  <2> QED BY <2>1 DEF Told
<1>2. ASSUME NEW row, Begins(t, row) PROVE Told(t)'
  <2> DEFINE base == [holder |-> row.toUser, status |-> Pending]
  <2>1. Rows(t)' = <<row>> /\ row \in Entry /\ row.fromUser = NoUser /\ row.to = Pending
    BY <1>2 DEF Begins, Rows, EmptyFile
  <2>2. base \in Trails
    BY <1>0, <2>1 DEF Trails, Entry
  <2>3. <<row>> = Append(<<>>, row) /\ <<>> \in Seq(Entry) /\ <<row>>[1] = row
    OBVIOUS
  <2>4. Replay(base, NoUser, row.toUser, Pending) = base
    <3>1. base.holder = row.toUser /\ base.status = Pending
      OBVIOUS
    <3> HIDE DEF base
    <3> QED BY <2>2, <3>1 DEF Replay, Trails
  <2> HIDE DEF base
  <2>5. TrailOf(base, <<row>>) = base
    <3>1. /\ TrailOf(base, <<>>) = base
          /\ TrailOf(base, Append(<<>>, row))
                = Replay(TrailOf(base, <<>>), row.fromUser, row.toUser, row.to)
      BY <2>1, <2>2, <2>3, TrailOfAppend
    <3> QED BY <2>1, <2>3, <2>4, <3>1
  <2>6. tickets'[t].trail = base
    BY <1>2 DEF Begins, base
  <2>7. base = [holder |-> Rows(t)'[1].toUser, status |-> Pending]
    BY <2>1, <2>3 DEF base
  <2> QED BY <2>1, <2>5, <2>6, <2>7 DEF Told
<1>3. ASSUME NEW row, Grows(t, row) PROVE Told(t)'
  <2> DEFINE base == [holder |-> Rows(t)[1].toUser, status |-> Pending]
  <2>1. /\ t \in Stored /\ row \in Entry
        /\ tickets'[t].trail = Replay(tickets[t].trail, row.fromUser, row.toUser, row.to)
    BY <1>3 DEF Grows
  <2>2. Rows(t) \in Seq(Entry) /\ Rows(t)[1] \in Entry /\ 1 \in 1..Len(Rows(t))
    <3>1. 1 \in DOMAIN Rows(t) /\ Rows(t) \in Seq(Entry)
      BY <2>1, StoredRows
    <3> QED BY <2>1, <3>1, StoredRows
  <2>3. Rows(t)' = Append(Rows(t), row) /\ Rows(t)'[1] = Rows(t)[1]
    <3>1. PICK file : /\ Restamped(t, file)
                      /\ files'[t] = [file EXCEPT !.rows = Append(@, row)]
      BY <1>3 DEF Grows
    <3>2. file \in File /\ file.rows = Rows(t)
      BY <3>1 DEF Restamped
    <3> QED BY <1>0, <2>1, <2>2, <3>1, <3>2, GrownRows
  <2>4. base \in Trails
    BY <1>0, <2>2 DEF Trails, Entry
  <2>5. tickets[t].trail = TrailOf(base, Rows(t))
    BY <2>1 DEF Told
  <2>6. base = [holder |-> Rows(t)'[1].toUser, status |-> Pending]
    BY <2>3
  <2> HIDE DEF base
  <2>7. TrailOf(base, Append(Rows(t), row)) = tickets'[t].trail
    BY <2>1, <2>2, <2>4, <2>5, TrailOfAppend
  <2> QED BY <2>3, <2>6, <2>7 DEF Told
<1> QED
  BY <1>1, <1>2, <1>3 DEF Changes, Ends

\* The rows tell the trail of every ticket, whatever is requested: what is
\* proved of the trail in TicketWorkflowProofs is thereby proved of the rows.
THEOREM RowsAlwaysTell == TimelineSpec => []RowsTellTheTrail
<1> DEFINE Inv == \A t \in Stored : Told(t)
<1>1. TimelineInit => Inv
  BY DEF TimelineInit, Init, Stored
<1>2. TimelineInv /\ Inv /\ [TimelineNext]_timelineVars => Inv'
  <2> SUFFICES ASSUME TimelineInv, Inv, [TimelineNext]_timelineVars, NEW q \in Stored'
               PROVE  Told(q)'
    OBVIOUS
  <2>1. ASSUME NEW t \in Tickets, Changes(t) PROVE Told(q)'
    <3>1. CASE q = t
      BY <2>1, <3>1, ChangedIsTold DEF Stored
    <3>2. CASE q # t
      <4>1. q \in Stored /\ tickets'[q] = tickets[q] /\ Rows(q)' = Rows(q)
        BY <2>1, <3>2 DEF Changes, Stored, Rows
      <4> QED BY <4>1 DEF Told
    <3> QED BY <3>1, <3>2
  <2>2. CASE Waiting \/ UNCHANGED timelineVars
    <3>1. q \in Stored /\ tickets'[q] = tickets[q] /\ Rows(q)' = Rows(q)
      BY <2>2 DEF Waiting, timelineVars, Stored, Rows
    <3> QED BY <3>1 DEF Told
  <2> QED BY <2>1, <2>2, TimelineSteps
<1>3. Inv => RowsTellTheTrail
  BY Zenon DEF RowsTellTheTrail, Told, TrailOf
<1> QED
  BY <1>1, <1>2, <1>3, TimelineInvariance, PTL DEF TimelineSpec

-----------------------------------------------------------------------------
(* The life of a ticket.                                                   *)

Dates == Nat \cup {NoDate}

Lives == [ first : Dates, last : Dates, start : Dates, cycles : Seq(BOOLEAN),
           rejected : BOOLEAN, returnedTo : SUBSET (Users \cup {NoUser}) ]

\* The two loops over the rows of a ticket, as what they make of any history.
LifeOf(s) == FoldLeft(AfterRow, NewLife, s)

AfterSubmission(first, row) ==
    IF row.to = AwaitingVerification /\ first = NoDate THEN row.at
    ELSE IF row.from = AwaitingVerification /\ row.to = InProgress THEN NoDate
    ELSE first

FirstOf(s) ==
    FoldLeft(LAMBDA first, row :
               IF row.to = AwaitingVerification /\ first = NoDate THEN row.at
               ELSE IF row.from = AwaitingVerification /\ row.to = InProgress THEN NoDate
               ELSE first,
             NoDate, s)

LEMMA NewLifeType == NewLife \in Lives
BY DEF NewLife, Lives, Dates

LEMMA AfterRowType ==
    ASSUME NEW a \in Lives, NEW row \in Entry
    PROVE  AfterRow(a, row) \in Lives
<1> DEFINE b == Submission(a, row)
           c == Verification(b, row)
<1>1. b \in Lives
  BY DEF Submission, Lives, Dates, Entry
<1> HIDE DEF b
<1>2. c \in Lives
  <2>1. \A onTime \in BOOLEAN : Append(b.cycles, onTime) \in Seq(BOOLEAN)
    BY <1>1 DEF Lives
  <2>2. \A since : (CalculateBusinessHours(since, row.at) <= SlaTicks) \in BOOLEAN
    OBVIOUS
  <2> QED BY <1>1, <2>1, <2>2 DEF Verification, Lives, Dates, Entry
<1> HIDE DEF c
<1>3. Outcome(c, row) \in Lives
  BY <1>2 DEF Outcome, Lives, Entry
<1> QED
  BY <1>3 DEF AfterRow, b, c

\* The first submission after a row, which is all the verdict needs to know.
LEMMA FirstAfterRow ==
    ASSUME NEW a \in Lives, NEW row \in Entry
    PROVE  AfterRow(a, row).first = AfterSubmission(a.first, row)
<1> DEFINE b == Submission(a, row)
           c == Verification(b, row)
<1>1. b.first = AfterSubmission(a.first, row) /\ DOMAIN b = DOMAIN a
  BY DEF Submission, AfterSubmission, Retracts, Submits, Lives,
         AwaitingVerification, InProgress
<1>2. c.first = b.first /\ DOMAIN c = DOMAIN b
  BY <1>1 DEF Verification, Lives
<1>3. AfterRow(a, row).first = c.first
  BY <1>1, <1>2 DEF AfterRow, Outcome, Lives
<1> QED
  BY <1>1, <1>2, <1>3

\* A history with one row more is read as one turn more of the loop.
LEMMA LifeOfAppend ==
    ASSUME NEW s \in Seq(Entry), NEW e \in Entry
    PROVE  /\ LifeOf(<<>>) = NewLife
           /\ LifeOf(Append(s, e)) = AfterRow(LifeOf(s), e)
<1> DEFINE Next1(a, e1) == AfterRow(a, e1)
           Solves(f, q) == f = [S \in SUBSET DOMAIN q |->
                              IF S = {} THEN NewLife
                              ELSE Next1(f[S \ {Max(S)}], q[Max(S)])]
           It(q) == CHOOSE f : Solves(f, q)
<1>1. \A q : LifeOf(q) = It(q)[DOMAIN q]
  BY Zenon DEF LifeOf, FoldLeft, MapThenFoldSet
<1>2. \A a \in Lives, e1 \in Entry : Next1(a, e1) \in Lives
  BY AfterRowType
<1> HIDE DEF Next1
<1>3. ASSUME NEW q \in Seq(Entry)
      PROVE  Solves(It(q), q)
  <2> DEFINE n == Len(q)
             T == [p \in Lives \X (1..n) |-> Next1(p[1], q[p[2]])]
  <2>1. n \in Nat /\ DOMAIN q = 1..n /\ \A k \in 1..n : q[k] \in Entry
    OBVIOUS
  <2> HIDE DEF n
  <2>2. /\ T \in [Lives \X (1..n) -> Lives]
        /\ \A a \in Lives, k \in 1..n : T[<<a, k>>] = Next1(a, q[k])
    BY <1>2, <2>1
  <2> HIDE DEF T
  <2>3. PICK g \in [SUBSET (1..n) -> Lives] : IsFold(g, n, NewLife, T)
    <3>1. n \in Nat
      BY <2>1
    <3>2. NewLife \in Lives
      BY NewLifeType
    <3>3. T \in [Lives \X (1..n) -> Lives]
      BY <2>2
    <3> QED BY <3>1, <3>2, <3>3, FoldExists, Zenon
  <2>4. ASSUME NEW S \in SUBSET (1..n)
        PROVE  g[S] = IF S = {} THEN NewLife ELSE Next1(g[S \ {Max(S)}], q[Max(S)])
    <3>1. CASE S # {}
      <4>1. S \in SUBSET Nat /\ \A k \in S : k <= n
        BY <2>1
      <4>2. Max(S) \in 1..n /\ g[S \ {Max(S)}] \in Lives
        BY <2>1, <3>1, <4>1, MaxOfBounded
      <4> QED BY <2>2, <2>3, <3>1, <4>2 DEF IsFold
    <3> QED BY <2>3, <3>1 DEF IsFold
  <2>5. g = [S \in SUBSET (1..n) |-> g[S]]
    OBVIOUS
  <2>6. Solves(g, q)
    BY <2>1, <2>4, <2>5, Zenon
  <2> QED BY <2>6
<1>4. ASSUME NEW q \in Seq(Entry)
      PROVE  /\ It(q)[1..0] = NewLife
             /\ \A k \in 1..Len(q) : It(q)[1..k] = Next1(It(q)[1..(k - 1)], q[k])
  <2> DEFINE f == It(q)
  <2>1. f = [S \in SUBSET DOMAIN q |-> IF S = {} THEN NewLife
                                      ELSE Next1(f[S \ {Max(S)}], q[Max(S)])]
    BY <1>3
  <2> HIDE DEF f
  <2>2. f[1..0] = NewLife
    <3>1. 1..0 = {} /\ {} \in SUBSET DOMAIN q
      OBVIOUS
    <3> QED BY <2>1, <3>1
  <2>3. ASSUME NEW k \in 1..Len(q)
        PROVE  f[1..k] = Next1(f[1..(k - 1)], q[k])
    <3>1. 1..k \in SUBSET DOMAIN q /\ k \in Nat \ {0}
      OBVIOUS
    <3>2. 1..k # {} /\ Max(1..k) = k /\ (1..k) \ {k} = 1..(k - 1)
      BY <3>1, MaxOfPrefix
    <3> QED BY <2>1, <3>1, <3>2
  <2> QED BY <2>2, <2>3 DEF f
<1>5. LifeOf(<<>>) = NewLife
  <2>1. DOMAIN <<>> = {} /\ <<>> \in Seq(Entry) /\ {} \in SUBSET DOMAIN <<>>
    OBVIOUS
  <2> HIDE DEF It
  <2> QED BY <1>1, <1>3, <2>1
<1>6. LifeOf(Append(s, e)) = Next1(LifeOf(s), e)
  <2> DEFINE n == Len(s)
             r == Append(s, e)
  <2>1. /\ n \in Nat /\ DOMAIN s = 1..n
        /\ r \in Seq(Entry) /\ Len(r) = n + 1 /\ DOMAIN r = 1..(n + 1)
        /\ r[n + 1] = e /\ \A k \in 1..n : r[k] = s[k]
    OBVIOUS
  <2> HIDE DEF n, r, It
  <2>2. It(r)[1..0] = It(s)[1..0]
    BY <1>4, <2>1
  <2>3. It(r)[1..n] = It(s)[1..n]
    <3>1. \A k \in 1..n : /\ It(r)[1..k] = Next1(It(r)[1..(k - 1)], s[k])
                          /\ It(s)[1..k] = Next1(It(s)[1..(k - 1)], s[k])
      BY <1>4, <2>1 DEF n
    <3>2. n \in Nat
      BY <2>1
    <3>3. \A k \in 1..n : It(r)[1..(k - 1)] = It(s)[1..(k - 1)] => It(r)[1..k] = It(s)[1..k]
      BY <3>1
    <3> QED BY <2>2, <3>2, <3>3, PrefixAgree, Zenon
  <2>4. It(r)[1..(n + 1)] = Next1(It(r)[1..n], e)
    <3>1. n + 1 \in 1..Len(r) /\ (n + 1) - 1 = n
      BY <2>1
    <3> QED BY <1>4, <2>1, <3>1
  <2> QED BY <1>1, <2>1, <2>3, <2>4 DEF r
<1> QED BY <1>5, <1>6 DEF Next1

\* The same of the other loop.
LEMMA FirstOfAppend ==
    ASSUME NEW s \in Seq(Entry), NEW e \in Entry
    PROVE  /\ FirstOf(<<>>) = NoDate
           /\ FirstOf(Append(s, e)) = AfterSubmission(FirstOf(s), e)
<1> DEFINE Next1(a, e1) == AfterSubmission(a, e1)
           Solves(f, q) == f = [S \in SUBSET DOMAIN q |->
                              IF S = {} THEN NoDate
                              ELSE Next1(f[S \ {Max(S)}], q[Max(S)])]
           It(q) == CHOOSE f : Solves(f, q)
<1>1. \A q : FirstOf(q) = It(q)[DOMAIN q]
  BY Zenon DEF FirstOf, AfterSubmission, FoldLeft, MapThenFoldSet
<1>2. \A a \in Dates, e1 \in Entry : Next1(a, e1) \in Dates
  BY DEF AfterSubmission, Dates, Entry
<1> HIDE DEF Next1
<1>3. ASSUME NEW q \in Seq(Entry)
      PROVE  Solves(It(q), q)
  <2> DEFINE n == Len(q)
             T == [p \in Dates \X (1..n) |-> Next1(p[1], q[p[2]])]
  <2>1. n \in Nat /\ DOMAIN q = 1..n /\ \A k \in 1..n : q[k] \in Entry
    OBVIOUS
  <2> HIDE DEF n
  <2>2. /\ T \in [Dates \X (1..n) -> Dates]
        /\ \A a \in Dates, k \in 1..n : T[<<a, k>>] = Next1(a, q[k])
    BY <1>2, <2>1
  <2> HIDE DEF T
  <2>3. PICK g \in [SUBSET (1..n) -> Dates] : IsFold(g, n, NoDate, T)
    <3>1. n \in Nat
      BY <2>1
    <3>2. NoDate \in Dates
      BY DEF Dates
    <3>3. T \in [Dates \X (1..n) -> Dates]
      BY <2>2
    <3> QED BY <3>1, <3>2, <3>3, FoldExists, Zenon
  <2>4. ASSUME NEW S \in SUBSET (1..n)
        PROVE  g[S] = IF S = {} THEN NoDate ELSE Next1(g[S \ {Max(S)}], q[Max(S)])
    <3>1. CASE S # {}
      <4>1. S \in SUBSET Nat /\ \A k \in S : k <= n
        BY <2>1
      <4>2. Max(S) \in 1..n /\ g[S \ {Max(S)}] \in Dates
        BY <2>1, <3>1, <4>1, MaxOfBounded
      <4> QED BY <2>2, <2>3, <3>1, <4>2 DEF IsFold
    <3> QED BY <2>3, <3>1 DEF IsFold
  <2>5. g = [S \in SUBSET (1..n) |-> g[S]]
    OBVIOUS
  <2>6. Solves(g, q)
    BY <2>1, <2>4, <2>5, Zenon
  <2> QED BY <2>6
<1>4. ASSUME NEW q \in Seq(Entry)
      PROVE  /\ It(q)[1..0] = NoDate
             /\ \A k \in 1..Len(q) : It(q)[1..k] = Next1(It(q)[1..(k - 1)], q[k])
  <2> DEFINE f == It(q)
  <2>1. f = [S \in SUBSET DOMAIN q |-> IF S = {} THEN NoDate
                                      ELSE Next1(f[S \ {Max(S)}], q[Max(S)])]
    BY <1>3
  <2> HIDE DEF f
  <2>2. f[1..0] = NoDate
    <3>1. 1..0 = {} /\ {} \in SUBSET DOMAIN q
      OBVIOUS
    <3> QED BY <2>1, <3>1
  <2>3. ASSUME NEW k \in 1..Len(q)
        PROVE  f[1..k] = Next1(f[1..(k - 1)], q[k])
    <3>1. 1..k \in SUBSET DOMAIN q /\ k \in Nat \ {0}
      OBVIOUS
    <3>2. 1..k # {} /\ Max(1..k) = k /\ (1..k) \ {k} = 1..(k - 1)
      BY <3>1, MaxOfPrefix
    <3> QED BY <2>1, <3>1, <3>2
  <2> QED BY <2>2, <2>3 DEF f
<1>5. FirstOf(<<>>) = NoDate
  <2>1. DOMAIN <<>> = {} /\ <<>> \in Seq(Entry) /\ {} \in SUBSET DOMAIN <<>>
    OBVIOUS
  <2> HIDE DEF It
  <2> QED BY <1>1, <1>3, <2>1
<1>6. FirstOf(Append(s, e)) = Next1(FirstOf(s), e)
  <2> DEFINE n == Len(s)
             r == Append(s, e)
  <2>1. /\ n \in Nat /\ DOMAIN s = 1..n
        /\ r \in Seq(Entry) /\ Len(r) = n + 1 /\ DOMAIN r = 1..(n + 1)
        /\ r[n + 1] = e /\ \A k \in 1..n : r[k] = s[k]
    OBVIOUS
  <2> HIDE DEF n, r, It
  <2>2. It(r)[1..0] = It(s)[1..0]
    BY <1>4, <2>1
  <2>3. It(r)[1..n] = It(s)[1..n]
    <3>1. \A k \in 1..n : /\ It(r)[1..k] = Next1(It(r)[1..(k - 1)], s[k])
                          /\ It(s)[1..k] = Next1(It(s)[1..(k - 1)], s[k])
      BY <1>4, <2>1 DEF n
    <3>2. n \in Nat
      BY <2>1
    <3>3. \A k \in 1..n : It(r)[1..(k - 1)] = It(s)[1..(k - 1)] => It(r)[1..k] = It(s)[1..k]
      BY <3>1
    <3> QED BY <2>2, <3>2, <3>3, PrefixAgree, Zenon
  <2>4. It(r)[1..(n + 1)] = Next1(It(r)[1..n], e)
    <3>1. n + 1 \in 1..Len(r) /\ (n + 1) - 1 = n
      BY <2>1
    <3> QED BY <1>4, <2>1, <3>1
  <2> QED BY <1>1, <2>1, <2>3, <2>4 DEF r
<1> QED BY <1>5, <1>6 DEF Next1

\* Induction over histories, over a set instead of a predicate.
LEMMA HistoryInduction ==
    ASSUME NEW H \in SUBSET Seq(Entry), <<>> \in H,
           \A s \in H, e \in Entry : Append(s, e) \in H
    PROVE  H = Seq(Entry)
<1> DEFINE S == { n \in Nat : \A s \in Seq(Entry) : Len(s) = n => s \in H }
<1>1. 0 \in S
  <2>1. \A s \in Seq(Entry) : Len(s) = 0 => s = <<>>
    OBVIOUS
  <2> QED BY <2>1
<1>2. ASSUME NEW n \in S PROVE n + 1 \in S
  <2>1. ASSUME NEW s \in Seq(Entry), Len(s) = n + 1 PROVE s \in H
    <3>1. n \in Nat /\ s # <<>>
      BY <2>1
    <3>2. PICK r \in Seq(Entry), e \in Entry : s = Append(r, e)
      BY <3>1, SequenceEmptyOrAppend
    <3>3. Len(r) = n
      BY <2>1, <3>1, <3>2
    <3> QED BY <1>2, <3>2, <3>3
  <2> QED BY <2>1
<1>3. S = Nat
  <2>1. S \in SUBSET Nat
    OBVIOUS
  <2> HIDE DEF S
  <2> QED BY <1>1, <1>2, <2>1, NatSetInduction
<1>4. \A s \in Seq(Entry) : Len(s) \in S
  <2> HIDE DEF S
  <2> QED BY <1>3
<1> QED
  BY <1>4

\* The two loops find the same first submission in every history.
LEMMA LoopsAgree ==
    ASSUME NEW s \in Seq(Entry)
    PROVE  LifeOf(s) \in Lives /\ LifeOf(s).first = FirstOf(s)
<1> DEFINE H == { q \in Seq(Entry) : LifeOf(q) \in Lives /\ LifeOf(q).first = FirstOf(q) }
<1>1. <<>> \in H
  <2>1. PICK e : e \in Entry
    <3> DEFINE e0 == [ at |-> 0, action |-> "update", from |-> Pending, to |-> Pending,
                       fromUser |-> NoUser, toUser |-> NoUser, secs |-> NoDate ]
    <3>1. "update" \in Actions /\ Pending \in TicketStatus
      BY DEF Actions, TicketStatus
    <3>2. e0 \in Entry
      BY <3>1 DEF Entry
    <3> QED BY <3>2
  <2>2. <<>> \in Seq(Entry)
    OBVIOUS
  <2>3. LifeOf(<<>>) = NewLife /\ FirstOf(<<>>) = NoDate
    BY <2>1, <2>2, LifeOfAppend, FirstOfAppend
  <2>4. NewLife.first = NoDate
    BY DEF NewLife
  <2> QED BY <2>2, <2>3, <2>4, NewLifeType
<1>2. ASSUME NEW q \in H, NEW e \in Entry PROVE Append(q, e) \in H
  <2> DEFINE a == LifeOf(q)
  <2>1. /\ q \in Seq(Entry) /\ Append(q, e) \in Seq(Entry)
        /\ a \in Lives /\ a.first = FirstOf(q)
    OBVIOUS
  <2>2. /\ LifeOf(Append(q, e)) = AfterRow(a, e)
        /\ FirstOf(Append(q, e)) = AfterSubmission(FirstOf(q), e)
    BY <2>1, LifeOfAppend, FirstOfAppend
  <2> HIDE DEF a
  <2>3. AfterRow(a, e).first = AfterSubmission(a.first, e)
    BY <2>1, FirstAfterRow
  <2> QED BY <2>1, <2>2, <2>3, AfterRowType
<1>3. H \in SUBSET Seq(Entry)
  OBVIOUS
<1> HIDE DEF H
<1>4. H = Seq(Entry)
  BY <1>1, <1>2, <1>3, HistoryInduction
<1> QED
  BY <1>4 DEF H

\* What a step does to the file of a ticket that it leaves.
LEMMA FileSteps ==
    ASSUME TimelineInv, [TimelineNext]_timelineVars, NEW t \in Stored'
    PROVE  \/ t \in Stored /\ files'[t] = files[t]
           \/ Stamps(t)
           \/ \E row : Begins(t, row) \/ Grows(t, row)
<1>1. ASSUME NEW q \in Tickets, Changes(q)
      PROVE  \/ t \in Stored /\ files'[t] = files[t]
             \/ Stamps(t)
             \/ \E row : Begins(t, row) \/ Grows(t, row)
  BY <1>1 DEF Changes, Stored, Ends
<1>2. CASE Waiting \/ UNCHANGED timelineVars
  BY <1>2 DEF Waiting, timelineVars, Stored
<1> QED
  BY <1>1, <1>2, TimelineSteps

\* The verdict on a ticket stands, for every history the requests can write.
THEOREM VerdictAlwaysStands == TimelineSpec => VerdictStands
<1> DEFINE Stands(t) ==
             /\ t \notin FinishedOf(Stored)
             /\ t \in Stored' /\ (IsResolved(t) \/ IsRejected(t))'
             /\ InVerification(t) /\ files[t].dueAt # NoDate /\ FirstSubmission(t) # NoDate
             => (t \in VerificationOverdue(Stored)) = ~SentOnTime(t)'
<1>1. ASSUME TimelineInv, [TimelineNext]_timelineVars, NEW t \in Stored PROVE Stands(t)
  <2> SUFFICES ASSUME t \notin FinishedOf(Stored), t \in Stored',
                      (IsResolved(t) \/ IsRejected(t))', InVerification(t),
                      files[t].dueAt # NoDate, FirstSubmission(t) # NoDate
               PROVE  (t \in VerificationOverdue(Stored)) = ~SentOnTime(t)'
    OBVIOUS
  <2> DEFINE first == FirstOf(Rows(t))
  <2>1. FirstSubmission(t) = first
    BY Zenon DEF FirstSubmission, FirstOf
  <2>2. Rows(t) \in Seq(Entry) /\ LifeOf(Rows(t)) \in Lives /\ LifeOf(Rows(t)).first = first
    BY <1>1, StoredRows, LoopsAgree
  <2>3. files'[t].dueAt = files[t].dueAt /\ LifeOf(Rows(t)').first = first
    <3>1. ~(IsResolved(t) \/ IsRejected(t))
      BY DEF FinishedOf
    <3>2. CASE files'[t] = files[t]
      BY <3>1, <3>2 DEF IsResolved, IsRejected
    <3>3. CASE Stamps(t)
      <4>1. Rows(t)' = Rows(t)
        BY <3>3 DEF Stamps, Restamped, Rows
      <4> QED BY <3>3, <4>1, <2>2 DEF Stamps
    <3>4. ASSUME NEW row, Grows(t, row)
          PROVE  files'[t].dueAt = files[t].dueAt /\ LifeOf(Rows(t)').first = first
      <4>1. PICK file : /\ Restamped(t, file)
                        /\ files'[t] = [file EXCEPT !.rows = Append(@, row)]
                        /\ \/ Unjudged(t, file)
                           \/ row.to \in {Completed, Rejected} /\ file.dueAt = files[t].dueAt
        BY <3>4 DEF Grows
      <4>2. /\ file \in File /\ file.rows = Rows(t) /\ row \in Entry
            /\ files'[t].completedAt = file.completedAt
            /\ files'[t].rejectedAt = file.rejectedAt
            /\ files'[t].dueAt = file.dueAt
            /\ Rows(t)' = Append(Rows(t), row)
        BY <3>4, <4>1 DEF Grows, Restamped, File, Rows
      <4>3. ~Unjudged(t, file)
        BY <3>1, <4>2 DEF Unjudged, IsResolved, IsRejected
      <4>4. /\ row.to \in {Completed, Rejected}
            /\ files'[t].dueAt = files[t].dueAt
        BY <4>1, <4>2, <4>3
      <4>5. LifeOf(Rows(t)') = AfterRow(LifeOf(Rows(t)), row)
        BY <2>2, <4>2, LifeOfAppend
      <4>6. LifeOf(Rows(t)').first = AfterSubmission(first, row)
        BY <2>2, <4>2, <4>5, FirstAfterRow
      <4>7. AfterSubmission(first, row) = first
        <5>1. \A x \in {Completed, Rejected} : x # AwaitingVerification /\ x # InProgress
          BY DEF AwaitingVerification, InProgress, Completed, Rejected
        <5>2. row.to # AwaitingVerification /\ row.to # InProgress
          BY <4>4, <5>1, Zenon
        <5> QED BY <5>2, Zenon DEF AfterSubmission
      <4> QED BY <4>4, <4>6, <4>7
    <3>5. \A row : ~Begins(t, row)
      BY DEF Begins
    <3>6. files'[t] = files[t] \/ Stamps(t) \/ \E row : Begins(t, row) \/ Grows(t, row)
      BY <1>1, FileSteps
    <3> QED BY <3>2, <3>3, <3>4, <3>5, <3>6
  <2>4. first \in Nat /\ files[t].dueAt \in Nat
    <3>1. first \in Dates /\ files[t] \in File
      BY <1>1, <2>2, StoredTicket DEF Lives
    <3> HIDE DEF first
    <3> QED BY <2>1, <3>1 DEF Dates, File
  <2>5. t \in VerificationOverdue(Stored) <=> files[t].dueAt < first
    BY <2>1 DEF VerificationOverdue
  <2>6. SentOnTime(t)' <=> first <= files[t].dueAt
    <3>1. LifeCycle(t)'.first = first
      BY <2>3, Zenon DEF LifeCycle, LifeOf
    <3>2. t \in FinishedOf(Stored)'
      BY DEF FinishedOf
    <3>3. first # NoDate
      BY <2>1
    <3> HIDE DEF first
    <3> QED BY <2>3, <3>1, <3>2, <3>3 DEF SentOnTime, Due
  <2> HIDE DEF first
  <2> QED BY <2>4, <2>5, <2>6
<1>2. TimelineInv /\ [TimelineNext]_timelineVars
        => [\A t \in Stored : Stands(t)]_timelineVars
  BY <1>1
<1> QED
  BY <1>2, TimelineInvariance, PTL DEF TimelineSpec, VerdictStands

-----------------------------------------------------------------------------
(* The stored times.                                                       *)

\* The rows before the i-th one that entered the status.
EntriesOf(s, i, status) ==
    { j \in 1..(i - 1) : s[j].to = status /\ s[j].action # "update" }

\* The stored time of the i-th row, which does not reject, is the one since
\* the status was entered.
SpanAt(s, i) ==
    s[i].secs # NoDate /\ s[i].to # Rejected =>
        /\ EntriesOf(s, i, s[i].from) # {}
        /\ s[i].secs = s[i].at - s[Max(EntriesOf(s, i, s[i].from))].at

\* A row more changes nothing about the times of those before it.
LEMMA SpanKept ==
    ASSUME NEW s \in Seq(Entry), NEW e \in Entry, NEW i \in 1..Len(s), SpanAt(s, i)
    PROVE  SpanAt(Append(s, e), i)
<1> DEFINE r == Append(s, e)
           n == Len(s)
           E == EntriesOf(s, i, s[i].from)
<1>1. n \in Nat /\ \A j \in 1..n : r[j] = s[j]
  OBVIOUS
<1>2. i \in 1..n /\ \A j \in 1..(i - 1) : j \in 1..n
  BY <1>1
<1> HIDE DEF r, n
<1>3. EntriesOf(r, i, r[i].from) = E /\ r[i] = s[i]
  BY <1>1, <1>2 DEF EntriesOf
<1>4. E # {} => r[Max(E)] = s[Max(E)]
  <2>1. E \in SUBSET Nat /\ n \in Nat /\ \A j \in E : j <= n
    BY <1>1, <1>2 DEF EntriesOf
  <2>2. E \subseteq 1..n
    BY <1>2 DEF EntriesOf
  <2> HIDE DEF E
  <2> QED BY <1>1, <2>1, <2>2, MaxOfBounded
<1> HIDE DEF E
<1>5. SpanAt(r, i)
  BY <1>3, <1>4 DEF SpanAt, E
<1> QED
  BY <1>5 DEF r

\* The stored times of a ticket.
Spans(t) == \A i \in DOMAIN Rows(t) : SpanAt(Rows(t), i)

\* The time a handler stores is the one its row should have.
LEMMA ChangedSpans ==
    ASSUME TimelineInv, [TimelineNext]_timelineVars, NEW t \in Stored',
           t \in Stored => Spans(t)
    PROVE  Spans(t)'
<1>1. CASE t \in Stored /\ files'[t] = files[t]
  BY <1>1 DEF Spans, Rows
<1>2. CASE Stamps(t)
  <2>1. t \in Stored /\ Rows(t)' = Rows(t)
    BY <1>2 DEF Stamps, Restamped, Rows
  <2> QED BY <2>1 DEF Spans
<1>3. ASSUME NEW row, Begins(t, row) PROVE Spans(t)'
  <2>1. Rows(t)' = <<row>> /\ row.secs = NoDate
    BY <1>3 DEF Begins, Rows, EmptyFile
  <2>2. DOMAIN <<row>> = {1} /\ <<row>>[1] = row
    OBVIOUS
  <2> QED BY <2>1, <2>2 DEF Spans, SpanAt
<1>4. ASSUME NEW row, Grows(t, row) PROVE Spans(t)'
  <2> DEFINE n == Len(Rows(t))
             E == EnteredAt(t, row.from)
  <2>1. /\ t \in Stored /\ t \in Tickets /\ row \in Entry /\ row.at = now
        /\ row.secs # NoDate /\ row.to # Rejected => row.secs = TimeSpentIn(t, row.from)
    BY <1>4 DEF Grows, Stored
  <2>2. Rows(t) \in Seq(Entry) /\ n \in Nat /\ DOMAIN Rows(t) = 1..n
    BY <2>1, StoredRows
  <2>3. /\ Rows(t)' = Append(Rows(t), row) /\ DOMAIN Rows(t)' = 1..(n + 1)
        /\ Rows(t)'[n + 1] = row /\ \A i \in 1..n : Rows(t)'[i] = Rows(t)[i]
    <3>1. PICK file : /\ Restamped(t, file)
                      /\ files'[t] = [file EXCEPT !.rows = Append(@, row)]
      BY <1>4 DEF Grows
    <3>2. file \in File /\ file.rows = Rows(t)
      BY <3>1 DEF Restamped
    <3> QED BY <2>1, <2>2, <3>1, <3>2, GrownRows
  <2>4. EntriesOf(Rows(t)', n + 1, row.from) = E
    <3>1. (n + 1) - 1 = n
      BY <2>2
    <3> HIDE DEF n
    <3> QED BY <2>2, <2>3, <3>1 DEF EntriesOf, EnteredAt
  <2>5. E # {} => Rows(t)'[Max(E)] = Rows(t)[Max(E)]
    <3>1. E \in SUBSET Nat /\ \A j \in E : j <= n
      BY <2>2 DEF EnteredAt
    <3>2. E \subseteq 1..n
      BY <2>2 DEF EnteredAt
    <3> HIDE DEF E, n
    <3> QED BY <2>2, <2>3, <3>1, <3>2, MaxOfBounded
  <2>6. SpanAt(Rows(t)', n + 1)
    <3> HIDE DEF n
    <3>1. row.secs # NoDate /\ row.to # Rejected
            => E # {} /\ row.secs = row.at - Rows(t)'[Max(E)].at
      BY <2>1, <2>5 DEF TimeSpentIn
    <3> HIDE DEF E
    <3> QED BY <2>3, <2>4, <3>1 DEF SpanAt
  <2>7. \A i \in 1..n : SpanAt(Rows(t)', i)
    BY <2>1, <2>2, <2>3, SpanKept DEF Spans
  <2>8. \A i \in 1..(n + 1) : i \in 1..n \/ i = n + 1
    BY <2>2
  <2> HIDE DEF n
  <2> QED BY <2>3, <2>6, <2>7, <2>8 DEF Spans
<1> QED
  BY <1>1, <1>2, <1>3, <1>4, FileSteps

SpansInv == \A t \in Stored : Spans(t)

LEMMA SpansInvariance == TimelineSpec => []SpansInv
<1>1. TimelineInit => SpansInv
  BY DEF TimelineInit, Init, Stored, SpansInv
<1>2. TimelineInv /\ SpansInv /\ [TimelineNext]_timelineVars => SpansInv'
  BY ChangedSpans DEF SpansInv
<1> QED
  BY <1>1, <1>2, TimelineInvariance, PTL DEF TimelineSpec

\* The stored times are the ones the pages measure, for every history: no
\* request of any user stores another.
THEOREM StoredTimeAlwaysTheSpan == TimelineSpec => []StoredTimeIsTheSpan
<1>1. TimelineInv /\ SpansInv => StoredTimeIsTheSpan
  <2> SUFFICES ASSUME TimelineInv, SpansInv, NEW status \in TicketStatus,
                      NEW p \in Leaving(status), RowAt(p).to # Rejected
               PROVE  RowAt(p).secs = RowAt(p).at - Rows(p[1])[Max(Entries(p, status))].at
    BY DEF StoredTimeIsTheSpan
  <2> DEFINE t == p[1]
             i == p[2]
  <2>1. /\ t \in Stored /\ i \in 1..MaxRows /\ i <= Len(Rows(t))
        /\ RowAt(p).from = status /\ RowAt(p).secs # NoDate /\ Entries(p, status) # {}
    BY DEF Leaving, AllRows
  <2>2. i \in DOMAIN Rows(t)
    BY <2>1, StoredRows, TimelineAssumption
  <2>3. SpanAt(Rows(t), i)
    BY <2>1, <2>2 DEF SpansInv, Spans
  <2>4. RowAt(p) = Rows(t)[i] /\ Entries(p, status) = EntriesOf(Rows(t), i, status)
    BY DEF RowAt, Entries, EntriesOf
  <2> HIDE DEF t, i
  <2>5. Rows(p[1]) = Rows(t)
    BY DEF t
  <2> QED BY <2>1, <2>3, <2>4, <2>5 DEF SpanAt
<1> QED
  BY <1>1, SpansInvariance, TimelineInvariance, PTL

-----------------------------------------------------------------------------
(* The pages.                                                              *)

\* No ticket is counted twice in a completion index: the three sets the index
\* is the size of are disjoint, because what is open and late leaves the
\* closed tickets aside and the two loops over the open ones split on the
\* status.
THEOREM CountedAlwaysOnce == TimelineSpec => []CountedOnce
<1>1. TimelineInv => CountedOnce
  <2> SUFFICES ASSUME TimelineInv, NEW u \in Users
               PROVE  Cardinality(UNION Range(UserStats(u).indexIds))
                        = UserStats(u).indices.completion[2]
    BY DEF CountedOnce
  <2> DEFINE items == UserItems(u)
             a == FinishedOf(items)
             b == OpenOverdue(items)
             c == VerificationOverdue(items)
  <2>1. UserStats(u).indexIds = <<a, b, c>>
    BY DEF UserStats
  <2>2. UserStats(u).indices.completion[2] = Cardinality(a) + Cardinality(b) + Cardinality(c)
    BY DEF UserStats, Indices
  <2>3. UNION Range(<<a, b, c>>) = (a \cup b) \cup c
    <3> HIDE DEF a, b, c
    <3>1. DOMAIN <<a, b, c>> = {1, 2, 3}
      OBVIOUS
    <3>2. Range(<<a, b, c>>) = {a, b, c}
      BY <3>1 DEF Range
    <3> QED BY <3>2
  <2>4. a \in SUBSET Stored /\ b \in SUBSET Stored /\ c \in SUBSET Stored
    BY DEF UserItems, FinishedOf, OpenOverdue, VerificationOverdue
  <2>5. a \cap b = {} /\ (a \cup b) \cap c = {}
    BY DEF OpenOverdue, VerificationOverdue
  <2> HIDE DEF a, b, c
  <2>6. IsFiniteSet(a) /\ IsFiniteSet(b) /\ IsFiniteSet(c) /\ IsFiniteSet(a \cup b)
    BY <2>4, FS_Subset, FS_Union DEF TimelineInv
  <2>7. Cardinality(a) \in Nat /\ Cardinality(b) \in Nat /\ Cardinality(c) \in Nat
    BY <2>6, FS_CardinalityType
  <2>8. Cardinality(a \cup b) = Cardinality(a) + Cardinality(b)
    <3>1. Cardinality(a \cup b) = Cardinality(a) + Cardinality(b) - Cardinality(a \cap b)
      BY <2>6, FS_Union
    <3>2. Cardinality(a \cap b) = 0
      BY <2>5, FS_EmptySet
    <3> QED BY <2>7, <3>1, <3>2
  <2>9. Cardinality((a \cup b) \cup c) = Cardinality(a \cup b) + Cardinality(c)
    <3>1. Cardinality((a \cup b) \cup c)
            = Cardinality(a \cup b) + Cardinality(c) - Cardinality((a \cup b) \cap c)
      BY <2>6, FS_Union
    <3>2. Cardinality((a \cup b) \cap c) = 0
      BY <2>5, FS_EmptySet
    <3> QED BY <2>7, <2>8, <3>1, <3>2
  <2> QED BY <2>1, <2>2, <2>3, <2>8, <2>9
<1> QED
  BY <1>1, TimelineInvariance, PTL

\* The metrics of somebody's tickets know the verifications and the corrections
\* of other sets only where they are looked at.
LEMMA MetricsOfSame ==
    ASSUME NEW own, NEW checked, NEW back, NEW checked2, NEW back2
    PROVE  LET m == Metrics(own, checked, back)
               n == Metrics(own, checked2, back2)
           IN  /\ m.closed = own /\ n.closed = own
               /\ m.sentOnTime = n.sentOnTime /\ m.completed = n.completed
               /\ m.completionOnTime = n.completionOnTime /\ m.rejected = n.rejected
               /\ m.completed = { t \in own : IsResolved(t) }
BY DEF Metrics

\* A supervisor reads the same of the department on both pages, because the
\* tickets a supervisor is shown are those of the department.
THEOREM SupervisorPagesAlwaysAgree == TimelineSpec => []SupervisorPagesAgree
<1>1. TimelineInv => SupervisorPagesAgree
  <2> SUFFICES ASSUME TimelineInv, NEW s \in Supervisors
               PROVE  LET tenant == TenantStats(s, TRUE)
                          dept   == DepartmentStats(s, DeptOf[s])
                      IN  /\ tenant.tickets = dept.tickets
                          /\ { t \in UNION Range(TicketsByStatus(s)) : ~IsCanceled(t) }
                                = dept.tickets
                          /\ tenant.resolved = dept.resolved
                          /\ tenant.open # tenant.tickets =>
                               tenant.overdue = dept.overdue /\ tenant.late = dept.late
    BY DEF SupervisorPagesAgree
  <2> DEFINE d      == DeptOf[s]
             live   == LiveItems(s)
             done   == FinishedOf(live)
             tenant == TenantStats(s, TRUE)
             dept   == DepartmentStats(s, d)
             mT     == Metrics(done, done, done)
             mD     == DepartmentMetrics(done, d)
             late   == OpenOverdue(live) \cup VerificationOverdue(live)
  <2>1. \A t \in live : d \in DepartmentIds(t)
    BY DEF LiveItems, Items, ShownTo
  <2>2. { t \in live : d \in DepartmentIds(t) } = live
        /\ { t \in done : d \in DepartmentIds(t) } = done
    BY <2>1 DEF FinishedOf
  <2>3. /\ tenant.tickets = live /\ tenant.open = live \ done
        /\ tenant.resolved = { t \in live : IsResolved(t) }
        /\ tenant.overdue = SentOverdueRate(mT, late)
        /\ tenant.late = CompletionOverdueRate(mT, OpenOverdue(live))
    BY DEF TenantStats
  <2>4. LET known == mD.closed # {} \/ mD.verified > 0
        IN  /\ dept.tickets = live
            /\ dept.resolved = { t \in live : IsResolved(t) }
            /\ known => dept.overdue = SentOverdueRate(mD, late)
            /\ known => dept.late = CompletionOverdueRate(mD, OpenOverdue(live))
    <3> HIDE DEF live, mD, late
    <3> QED BY <2>2 DEF DepartmentStats, live, mD, late
  <2>5. /\ mD.closed = done /\ mT.sentOnTime = mD.sentOnTime
        /\ mT.completed = mD.completed /\ mT.rejected = mD.rejected
        /\ mT.completionOnTime = mD.completionOnTime
    <3> HIDE DEF done, d
    <3>1. PICK checked, back : mD = Metrics(done, checked, back)
      BY <2>2 DEF DepartmentMetrics, done, d
    <3> HIDE DEF mD
    <3> QED BY <3>1, MetricsOfSame
  <2>6. tenant.open # tenant.tickets => mD.closed # {}
    BY <2>3, <2>5
  <2>7. /\ SentOverdueRate(mT, late) = SentOverdueRate(mD, late)
        /\ CompletionOverdueRate(mT, OpenOverdue(live))
             = CompletionOverdueRate(mD, OpenOverdue(live))
    <3> HIDE DEF mT, mD, late, live
    <3> QED BY <2>5 DEF SentOverdueRate, CompletionOverdueRate
  <2>8. { t \in UNION Range(TicketsByStatus(s)) : ~IsCanceled(t) } = live
    <3>1. \A t \in Items(s) : tickets[t].status \in TicketStatus
      BY StoredTicket DEF Items
    <3>2. \A t : t \in UNION Range(TicketsByStatus(s)) <=> t \in Items(s)
      <4>1. \A t \in Items(s) : t \in TicketsByStatus(s)[tickets[t].status]
        BY <3>1 DEF TicketsByStatus
      <4>2. \A status \in TicketStatus :
              /\ TicketsByStatus(s)[status] \subseteq Items(s)
              /\ TicketsByStatus(s)[status] \in Range(TicketsByStatus(s))
        BY DEF TicketsByStatus, Range
      <4>3. \A x \in Range(TicketsByStatus(s)) :
              \E status \in TicketStatus : x = TicketsByStatus(s)[status]
        BY DEF TicketsByStatus, Range
      <4> QED BY <3>1, <4>1, <4>2, <4>3
    <3> QED BY <3>2 DEF LiveItems
  <2> HIDE DEF tenant, dept, mT, mD, live, done, late
  <2>9. /\ tenant.tickets = dept.tickets /\ tenant.resolved = dept.resolved
        /\ { t \in UNION Range(TicketsByStatus(s)) : ~IsCanceled(t) } = dept.tickets
        /\ tenant.open # tenant.tickets =>
              tenant.overdue = dept.overdue /\ tenant.late = dept.late
    BY <2>3, <2>4, <2>6, <2>7, <2>8
  <2> QED BY <2>9 DEF tenant, dept
<1> QED
  BY <1>1, TimelineInvariance, PTL

\* Only the returned tickets that are among the own ones matter.
LEMMA MetricsOfBack ==
    ASSUME NEW own, NEW checked, NEW back, NEW back2, own \cap back = own \cap back2
    PROVE  Metrics(own, checked, back) = Metrics(own, checked, back2)
BY Zenon DEF Metrics

\* The rows are finitely many, and the tickets of some of them no more.
LEMMA RowsAreFinite ==
    ASSUME TimelineInv
    PROVE  IsFiniteSet(AllRows)
<1>1. IsFiniteSet(1..MaxRows)
  BY FS_Interval, TimelineAssumption
<1>2. IsFiniteSet(Stored \X (1..MaxRows))
  BY <1>1, FS_Product DEF TimelineInv
<1> QED
  BY <1>2, FS_Subset DEF AllRows

LEMMA TicketsOfRows ==
    ASSUME TimelineInv, NEW rows \in SUBSET AllRows
    PROVE  /\ IsFiniteSet(rows) /\ Cardinality(rows) \in Nat
           /\ Cardinality(TicketsOf(rows)) \in Nat
           /\ Cardinality(TicketsOf(rows)) <= Cardinality(rows)
<1> DEFINE f == [p \in rows |-> p[1]]
<1>1. IsFiniteSet(rows) /\ Cardinality(rows) \in Nat
  BY RowsAreFinite, FS_Subset, FS_CardinalityType
<1>2. f \in Surjection(rows, TicketsOf(rows))
  BY DEF Surjection, TicketsOf
<1>3. /\ IsFiniteSet(TicketsOf(rows))
      /\ Cardinality(TicketsOf(rows)) <= Cardinality(rows)
  <2> HIDE DEF f
  <2> QED BY <1>1, <1>2, FS_Surjection
<1> QED
  BY <1>1, <1>3, FS_CardinalityType

\* Everybody involved in a ticket is assigned to it, so what a supervisor is
\* not shown concerns nobody of the own department.
LEMMA InvolvedIsAssigned ==
    ASSUME TimelineInv, NEW t \in Stored
    PROVE  Involved(t) = Assigned(tickets[t])
BY StoredTicket DEF Involved, RowInv

\* The ranking and the page of a user select the same tickets: what a viewer
\* is not shown concerns nobody the viewer sees ranked.
LEMMA RankedTickets ==
    ASSUME TimelineInv, NEW viewer, NEW u, ShownTo(viewer, {DeptOf[u]})
    PROVE  /\ { t \in LiveItems(viewer) : u \in Involved(t) } = UserItems(u)
           /\ RankingMetrics(viewer, u)
                = UserMetrics(FinishedOf(UserItems(u)),
                              FinishedOf(UserItems(u)) \cup FinishedOf(ReviewerItems(u)), u)
           /\ RankingMetrics(viewer, u).closed = FinishedOf(UserItems(u))
           /\ RankingMetrics(viewer, u).completed
                = { t \in UserItems(u) : IsResolved(t) }
<1> DEFINE live  == LiveItems(viewer)
           items == UserItems(u)
           own   == FinishedOf(items)
           seen  == FinishedOf(ReviewerItems(u))
           Back(t) == Len(tickets[t].targets) = 1 \/ u \in LifeCycle(t).returnedTo
<1>1. \A t \in live : u \in Involved(t) <=> t \in items
  BY DEF LiveItems, Items, UserItems
<1>2. \A t \in items : t \in live /\ u \in Involved(t)
  <2> SUFFICES ASSUME NEW t \in items PROVE t \in live /\ u \in Involved(t)
    OBVIOUS
  <2>1. t \in Stored /\ u \in Involved(t) /\ u \in Assigned(tickets[t])
    BY InvolvedIsAssigned DEF UserItems
  <2>2. DeptOf[u] \in DepartmentIds(t)
    BY <2>1 DEF DepartmentIds
  <2>3. ShownTo(viewer, DepartmentIds(t))
    BY <2>2 DEF ShownTo
  <2> QED BY <2>1, <2>3 DEF UserItems, LiveItems, Items
<1>3. { t \in live : u \in Involved(t) } = items
  BY <1>1, <1>2
<1>4. { t \in FinishedOf(live) : u \in Involved(t) } = own
      /\ { t \in own : u \in Involved(t) } = own
  BY <1>1, <1>2 DEF FinishedOf
<1>5. { t \in FinishedOf(ReviewerItems(u)) : ShownTo(viewer, {DeptOf[u]}) } = seen
  OBVIOUS
<1>6. /\ { t \in FinishedOf(live) \cup seen : tickets[t].reviewer = u } = seen
      /\ { t \in own \cup seen : tickets[t].reviewer = u } = seen
  BY DEF FinishedOf, ReviewerItems, UserItems, LiveItems, Items
<1>7. own \subseteq FinishedOf(live)
  BY <1>4
<1>8. RankingMetrics(viewer, u) = UserMetrics(FinishedOf(live), FinishedOf(live) \cup seen, u)
  BY <1>5 DEF RankingMetrics
<1>9. /\ UserMetrics(FinishedOf(live), FinishedOf(live) \cup seen, u)
           = Metrics(own, seen, { t \in FinishedOf(live) : Back(t) })
      /\ UserMetrics(own, own \cup seen, u)
           = Metrics(own, seen, { t \in own : Back(t) })
  BY <1>4, <1>6, Zenon DEF UserMetrics
<1>10. Metrics(own, seen, { t \in FinishedOf(live) : Back(t) })
          = Metrics(own, seen, { t \in own : Back(t) })
  <2> HIDE DEF own, live, Back
  <2>1. own \cap { t \in FinishedOf(live) : Back(t) } = own \cap { t \in own : Back(t) }
    BY <1>7
  <2> QED BY <2>1, MetricsOfBack
<1>11. /\ UserMetrics(own, own \cup seen, u).closed = own
       /\ UserMetrics(own, own \cup seen, u).completed = { t \in own : IsResolved(t) }
  <2> HIDE DEF own, seen, Back
  <2>1. PICK back : UserMetrics(own, own \cup seen, u) = Metrics(own, seen, back)
    BY <1>9
  <2>2. /\ Metrics(own, seen, back).closed = own
        /\ Metrics(own, seen, back).completed = { t \in own : IsResolved(t) }
    BY DEF Metrics
  <2> QED BY <2>1, <2>2
<1>12. { t \in own : IsResolved(t) } = { t \in items : IsResolved(t) }
  BY DEF FinishedOf
<1>13. RankingMetrics(viewer, u) = UserMetrics(own, own \cup seen, u)
  <2> HIDE DEF live, own, seen, Back
  <2> QED BY <1>8, <1>9, <1>10
<1> HIDE DEF live, items, own, seen
<1>14. /\ RankingMetrics(viewer, u).closed = own
       /\ RankingMetrics(viewer, u).completed = { t \in items : IsResolved(t) }
  BY <1>11, <1>12, <1>13
<1> QED
  BY <1>3, <1>13, <1>14 DEF live, items, own, seen

\* Two services' worth of code tell the same of a user, because for a viewer
\* who sees the user ranked the tickets, the verifications and the returns
\* they select are the same ones.
THEOREM RankingAlwaysAgrees == TimelineSpec => []RankingAgreesWithUserStats
<1>1. TimelineInv => RankingAgreesWithUserStats
  <2> SUFFICES ASSUME TimelineInv, NEW viewer \in Users, NEW u \in RankedUsers(viewer)
               PROVE  LET ranked == UserRanking(viewer, u)
                          page   == UserStats(u)
                      IN  /\ \A field \in { "tickets", "resolved", "resolution", "solving",
                                            "metrics", "indices", "scored", "late" } :
                               ranked[field] = page[field]
                          /\ HasMetrics(viewer, u) => ranked.overdue = page.overdue
                          /\ ranked.accepting[1] = page.accepting[1]
                          /\ ranked.accepting[2] >= page.accepting[2]
                          /\ viewer \in Admins \cup Supervisors => CanViewUserStats(viewer, u)
    BY Zenon DEF RankingAgreesWithUserStats
  <2> DEFINE ranked   == UserRanking(viewer, u)
             page     == UserStats(u)
             items    == UserItems(u)
             own      == FinishedOf(items)
             resolved == { t \in items : IsResolved(t) }
             m        == UserMetrics(own, own \cup FinishedOf(ReviewerItems(u)), u)
             open     == OpenOverdue(items)
             verified == VerificationOverdue(items)
             waiting  == OwnedBy(Leaving(Pending), u)
             solving  == PerTicket(OwnedBy(Leaving(InProgress), u), InProgress)
             whole    == Cardinality(own) + Cardinality(open) + Cardinality(verified)
  <2>1. ShownTo(viewer, {DeptOf[u]})
    BY DEF RankedUsers
  <2>2. /\ { t \in LiveItems(viewer) : u \in Involved(t) } = items
        /\ RankingMetrics(viewer, u) = m /\ m.closed = own /\ m.completed = resolved
    BY <2>1, RankedTickets
  <2>3. /\ page.tickets = items /\ page.resolved = resolved
        /\ page.resolution = Ratio(Cardinality(resolved), Cardinality(own), 0)
        /\ page.solving = solving /\ page.metrics = m
        /\ page.indices = Indices(m, whole)
        /\ page.scored = (Cardinality(own) >= MinEntries)
        /\ page.overdue = SentOverdueRate(m, open \cup verified)
        /\ page.late = CompletionOverdueRate(m, {})
        /\ page.accepting = PerTicket(waiting, Pending)
    <3> HIDE DEF items
    <3> QED BY DEF UserStats, items
  <2>4. /\ ranked.tickets = items /\ ranked.resolved = resolved
        /\ ranked.resolution = Ratio(Cardinality(resolved), Cardinality(own), 0)
        /\ ranked.solving = solving /\ ranked.metrics = m
        /\ ranked.indices = Indices(m, whole)
        /\ ranked.scored = (Cardinality(own) >= MinEntries)
        /\ HasMetrics(viewer, u) => ranked.overdue = SentOverdueRate(m, open \cup verified)
        /\ ranked.late = CompletionOverdueRate(m, {})
        /\ ranked.accepting = PerRow(waiting, Pending)
    <3> HIDE DEF items, m
    <3> QED BY <2>2 DEF UserRanking
  <2>5. /\ ranked.accepting[1] = page.accepting[1]
        /\ ranked.accepting[2] >= page.accepting[2]
    <3>1. waiting \in SUBSET AllRows
      BY DEF OwnedBy, Leaving
    <3> HIDE DEF waiting, ranked, page
    <3>2. /\ ranked.accepting = <<SumOfTimes(waiting, Pending), Cardinality(waiting)>>
          /\ page.accepting
               = <<SumOfTimes(waiting, Pending), Cardinality(TicketsOf(waiting))>>
      BY <2>3, <2>4 DEF PerTicket, PerRow
    <3>3. Cardinality(waiting) >= Cardinality(TicketsOf(waiting))
      BY <3>1, TicketsOfRows
    <3> QED BY <3>2, <3>3
  <2>6. viewer \in Admins \cup Supervisors => CanViewUserStats(viewer, u)
    BY <2>1 DEF CanViewUserStats, ShownTo
  <2> HIDE DEF ranked, page, items, m, resolved, own, open, verified, waiting, solving, whole
  <2>7. /\ ranked["tickets"] = page["tickets"] /\ ranked["resolved"] = page["resolved"]
        /\ ranked["resolution"] = page["resolution"] /\ ranked["solving"] = page["solving"]
        /\ ranked["metrics"] = page["metrics"] /\ ranked["indices"] = page["indices"]
        /\ ranked["scored"] = page["scored"] /\ ranked["late"] = page["late"]
    BY <2>3, <2>4
  <2>8. \A field \in { "tickets", "resolved", "resolution", "solving",
                       "metrics", "indices", "scored", "late" } :
           ranked[field] = page[field]
    BY <2>7
  <2>9. HasMetrics(viewer, u) => ranked.overdue = page.overdue
    BY <2>3, <2>4
  <2> QED BY <2>5, <2>6, <2>8, <2>9 DEF ranked, page
<1> QED
  BY <1>1, TimelineInvariance, PTL

\* The rows the durations measure are rows the pages measure or rejections:
\* a stored time says that there is a row that entered the status.
LEMMA MeasuredRows ==
    ASSUME TimelineInv, SpansInv, NEW status \in TicketStatus, NEW p \in AllRows,
           RowAt(p).from = status, RowAt(p).secs # NoDate, RowAt(p).at >= StartDate
    PROVE  p \in Leaving(status) \cup { q \in AllRows : RowAt(q).to = Rejected }
<1> SUFFICES ASSUME RowAt(p).to # Rejected PROVE p \in Leaving(status)
  OBVIOUS
<1> DEFINE t == p[1]
           i == p[2]
<1>1. t \in Stored /\ i \in 1..MaxRows /\ i <= Len(Rows(t))
  BY DEF AllRows
<1>2. i \in DOMAIN Rows(t)
  BY <1>1, StoredRows, TimelineAssumption
<1>3. SpanAt(Rows(t), i)
  BY <1>1, <1>2 DEF SpansInv, Spans
<1>4. RowAt(p) = Rows(t)[i] /\ Entries(p, status) = EntriesOf(Rows(t), i, status)
  BY DEF RowAt, Entries, EntriesOf
<1> HIDE DEF t, i
<1>5. Entries(p, status) # {}
  BY <1>3, <1>4 DEF SpanAt
<1> QED
  BY <1>5 DEF Leaving

\* The series of the stored times agree for an admin, who is shown all: the
\* two select the same rows of a point, and the durations of the statuses
\* measure only rows with a stored time.
THEOREM SeriesAlwaysAgree == TimelineSpec => []SeriesAgree
<1>1. ASSUME TimelineInv, SpansInv PROVE SeriesAgree
  <2> SUFFICES ASSUME NEW admin \in Admins
               PROVE  /\ \A points \in { Weeks(TrendWeeks), Months(TrendMonths) } :
                         \A p \in points :
                           /\ ResolutionTime(admin, points)[p][1]
                                = DurationTimeSeries(admin, InProgress, points)[p][1]
                           /\ ResolutionTime(admin, points)[p][2]
                                <= DurationTimeSeries(admin, InProgress, points)[p][2]
                      /\ \A status \in TicketStatus :
                           StatusDurations(admin, status)[2]
                              <= Cardinality(Leaving(status)
                                             \cup { p \in AllRows : RowAt(p).to = Rejected })
    BY Zenon DEF SeriesAgree
  <2>1. \A depts : ShownTo(admin, depts)
    BY UsersAssumption DEF ShownTo
  <2>2. ASSUME NEW points, NEW p \in points
        PROVE  /\ ResolutionTime(admin, points)[p][1]
                    = DurationTimeSeries(admin, InProgress, points)[p][1]
               /\ ResolutionTime(admin, points)[p][2]
                    <= DurationTimeSeries(admin, InProgress, points)[p][2]
    <3> DEFINE rows == StoredTimes(InProgress, p)
    <3>1. /\ { q \in rows : ShownTo(admin, {DeptOf[Owner(q)]}) } = rows
          /\ { q \in rows : ShownTo(admin, DepartmentIds(q[1])) } = rows
      BY <2>1
    <3>2. rows \in SUBSET AllRows
      BY DEF StoredTimes
    <3> HIDE DEF rows
    <3>3. ResolutionTime(admin, points)[p]
            = <<SumStored(rows), Cardinality(TicketsOf(rows))>>
      BY <3>1 DEF ResolutionTime, rows
    <3>4. DurationTimeSeries(admin, InProgress, points)[p]
            = <<SumStored(rows), Cardinality(rows)>>
      BY <3>1 DEF DurationTimeSeries, rows
    <3>5. Cardinality(TicketsOf(rows)) <= Cardinality(rows)
      BY <1>1, <3>2, TicketsOfRows
    <3> QED BY <3>3, <3>4, <3>5
  <2>3. ASSUME NEW status \in TicketStatus
        PROVE  StatusDurations(admin, status)[2]
                 <= Cardinality(Leaving(status)
                                \cup { p \in AllRows : RowAt(p).to = Rejected })
    <3> DEFINE known == Leaving(status) \cup { p \in AllRows : RowAt(p).to = Rejected }
               timed == { p \in AllRows : /\ RowAt(p).from = status
                                          /\ RowAt(p).secs # NoDate
                                          /\ RowAt(p).at >= StartDate }
    <3>1. PICK measured \in SUBSET timed :
             StatusDurations(admin, status)[2] = Cardinality(measured)
      BY DEF StatusDurations
    <3>2. timed \subseteq known
      BY <1>1, MeasuredRows
    <3>3. known \in SUBSET AllRows
      BY DEF Leaving
    <3> HIDE DEF known, timed
    <3>4. measured \in SUBSET known /\ IsFiniteSet(known)
      BY <1>1, <3>2, <3>3, TicketsOfRows
    <3>5. Cardinality(measured) <= Cardinality(known)
      BY <3>4, FS_Subset
    <3> QED BY <3>1, <3>5 DEF known
  <2> QED BY <2>2, <2>3
<1> QED
  BY <1>1, TimelineInvariance, SpansInvariance, PTL

-----------------------------------------------------------------------------
(* The series.                                                             *)

\* Whole multiples of a length are a length apart.
LEMMA Multiples ==
    ASSUME NEW i \in Int, NEW j \in Int, NEW L \in Nat \ {0}, i < j
    PROVE  i * L + L <= j * L
<1>1. j - i - 1 \in Nat
  OBVIOUS
<1>2. (j - i - 1) * L >= 0
  BY <1>1
<1> QED
  BY <1>2

LEMMA Division ==
    ASSUME NEW a \in Int, NEW L \in Nat \ {0}
    PROVE  /\ a \div L \in Int
           /\ (a \div L) * L <= a /\ a < (a \div L) * L + L
OBVIOUS

\* The division of what lies whole multiples before.
LEMMA DivisionShifts ==
    ASSUME NEW a \in Int, NEW i \in Int, NEW L \in Nat \ {0}
    PROVE  (a - i * L) \div L = (a \div L) - i
<1> DEFINE q == a \div L
           c == a - i * L
           r == c \div L
<1>1. /\ q \in Int /\ q * L <= a /\ a < q * L + L
  BY Division
<1>2. c \in Int
  OBVIOUS
<1>3. /\ r \in Int /\ r * L <= c /\ c < r * L + L
  <2> HIDE DEF c
  <2> QED BY <1>2, Division
<1> HIDE DEF q, r
<1>4. (q - i) \in Int /\ (q - i) * L = q * L - i * L
  BY <1>1
<1>5. ~ (r < q - i)
  <2> SUFFICES ASSUME r < q - i PROVE FALSE
    OBVIOUS
  <2>1. r * L + L <= (q - i) * L
    BY <1>3, <1>4, Multiples
  <2> QED BY <1>1, <1>3, <1>4, <2>1
<1>6. ~ (q - i < r)
  <2> SUFFICES ASSUME q - i < r PROVE FALSE
    OBVIOUS
  <2>1. (q - i) * L + L <= r * L
    BY <1>3, <1>4, Multiples
  <2> QED BY <1>1, <1>3, <1>4, <2>1
<1>7. r = q - i
  BY <1>1, <1>3, <1>5, <1>6
<1> QED
  BY <1>7 DEF q, r

\* n points of one length, the last of which starts at b, each of the others
\* where the next one starts less the length.
PointsTo(b, L, n) == { <<d, d + L>> : d \in { b - i * L : i \in 0..(n - 1) } }

\* Such points leave no gap and do not overlap: a moment not before the first
\* and not after the last is within one of them.
LEMMA PointsTile ==
    ASSUME NEW b \in Int, NEW L \in Nat \ {0}, NEW n \in Nat \ {0}, NEW c \in Int,
           \E p \in PointsTo(b, L, n) : c >= p[1],
           \E p \in PointsTo(b, L, n) : c < p[2]
    PROVE  Cardinality({ p \in PointsTo(b, L, n) : Within(c, p) }) = 1
<1> DEFINE a == b + L - 1 - c
           k == a \div L
           P(i) == <<b - i * L, b - i * L + L>>
<1>1. PICK i \in 0..(n - 1) : c >= b - i * L
  BY DEF PointsTo
<1>2. c < b + L
  <2>1. PICK j \in 0..(n - 1) : c < b - j * L + L
    BY DEF PointsTo
  <2>2. j * L >= 0
    OBVIOUS
  <2>3. j * L \in Int
    OBVIOUS
  <2> QED BY <2>1, <2>2, <2>3
<1>3. a \in Nat
  BY <1>2
<1>4. /\ k \in Int /\ k * L <= a /\ a < k * L + L
  <2> HIDE DEF a
  <2> QED BY <1>3, Division
<1>5. i \in Int /\ i * L \in Int /\ k * L \in Int
  BY <1>4
<1>6. a <= i * L + L - 1
  BY <1>1, <1>5
<1>7. c >= b - k * L /\ c < b - k * L + L
  <2> HIDE DEF k
  <2> QED BY <1>4, <1>5
<1> HIDE DEF k, a
<1>8. k >= 0
  <2> SUFFICES ASSUME k < 0 PROVE FALSE
    BY <1>4
  <2>1. k * L + L <= 0 * L
    BY <1>4, Multiples
  <2> QED BY <1>3, <1>4, <1>5, <2>1
<1>9. k <= i
  <2> SUFFICES ASSUME i < k PROVE FALSE
    BY <1>4, <1>5
  <2>1. i * L + L <= k * L
    BY <1>4, <1>5, Multiples
  <2> QED BY <1>3, <1>4, <1>5, <1>6, <2>1
<1>10. k \in 0..(n - 1)
  BY <1>4, <1>8, <1>9
<1>11. P(k) \in PointsTo(b, L, n) /\ Within(c, P(k))
  BY <1>7, <1>10 DEF PointsTo, Within
<1>12. ASSUME NEW p \in PointsTo(b, L, n), Within(c, p) PROVE p = P(k)
  <2>1. PICK j \in 0..(n - 1) : p = P(j)
    BY DEF PointsTo
  <2>2. c >= b - j * L /\ c < b - j * L + L
    BY <1>12, <2>1 DEF Within
  <2>3. j \in Int /\ j * L \in Int
    OBVIOUS
  <2>4. ~ (j < k)
    <3> SUFFICES ASSUME j < k PROVE FALSE
      OBVIOUS
    <3>1. j * L + L <= k * L
      BY <1>4, <2>3, Multiples
    <3> QED BY <1>5, <1>7, <2>2, <2>3, <3>1
  <2>5. ~ (k < j)
    <3> SUFFICES ASSUME k < j PROVE FALSE
      OBVIOUS
    <3>1. k * L + L <= j * L
      BY <1>4, <2>3, Multiples
    <3> QED BY <1>5, <1>7, <2>2, <2>3, <3>1
  <2>6. j = k
    BY <1>4, <2>3, <2>4, <2>5
  <2> QED BY <2>1, <2>6
<1> HIDE DEF P
<1>13. { p \in PointsTo(b, L, n) : Within(c, p) } = {P(k)}
  BY <1>11, <1>12
<1> QED
  BY <1>13, FS_Singleton

\* The days, the weeks and the months are such points.
LEMMA DaysTile ==
    ASSUME now \in Nat, NEW n \in Nat
    PROVE  Days(n) = PointsTo(StartOfDay(now), DayTicks, n) /\ StartOfDay(now) \in Int
<1>1. DayTicks \in Nat \ {0}
  BY BusinessHoursAssumption
<1>2. DayOf(now) \in Int
  BY <1>1, Division DEF DayOf
<1>3. ASSUME NEW i \in 0..(n - 1)
      PROVE  StartOfDay(now - i * DayTicks) = StartOfDay(now) - i * DayTicks
  <2>1. DayOf(now - i * DayTicks) = DayOf(now) - i
    <3>1. now \in Int /\ i \in Int
      OBVIOUS
    <3> QED BY <1>1, <3>1, DivisionShifts, Zenon DEF DayOf
  <2> QED BY <1>1, <1>2, <2>1 DEF StartOfDay
<1>4. { StartOfDay(now - i * DayTicks) : i \in 0..(n - 1) }
        = { StartOfDay(now) - i * DayTicks : i \in 0..(n - 1) }
  BY <1>3
<1>5. StartOfDay(now) \in Int
  BY <1>1, <1>2 DEF StartOfDay
<1> QED
  BY <1>4, <1>5, Zenon DEF Days, PointsTo

LEMMA WeeksTile ==
    ASSUME now \in Nat, NEW n \in Nat
    PROVE  /\ Weeks(n) = PointsTo(StartOfWeek(now), 7 * DayTicks, n)
           /\ StartOfWeek(now) \in Int
<1>1. DayTicks \in Nat \ {0} /\ FirstWeekday \in 0..6
  BY BusinessHoursAssumption
<1>2. DayOf(now) \in Int
  BY <1>1, Division DEF DayOf
<1>3. ASSUME NEW i \in 0..(n - 1)
      PROVE  StartOfWeek(now - 7 * i * DayTicks) = StartOfWeek(now) - i * (7 * DayTicks)
  <2>1. DayOf(now - 7 * i * DayTicks) = DayOf(now) - 7 * i
    <3>1. now \in Int /\ 7 * i \in Int
      OBVIOUS
    <3> QED BY <1>1, <3>1, DivisionShifts, Zenon DEF DayOf
  <2>2. (DayOf(now) - 7 * i + FirstWeekday) % 7 = (DayOf(now) + FirstWeekday) % 7
    BY <1>1, <1>2
  <2>3. (DayOf(now) + FirstWeekday) % 7 \in Int
    BY <1>1, <1>2
  <2>4. (DayOf(now) - 7 * i) * DayTicks = DayOf(now) * DayTicks - i * (7 * DayTicks)
    BY <1>1, <1>2
  <2>5. /\ DayOf(now) * DayTicks \in Int /\ i * (7 * DayTicks) \in Int
        /\ ((DayOf(now) + FirstWeekday) % 7) * DayTicks \in Int
    BY <1>1, <1>2, <2>3
  <2> QED BY <2>1, <2>2, <2>4, <2>5 DEF StartOfWeek, StartOfDay
<1>4. StartOfWeek(now) \in Int
  BY <1>1, <1>2 DEF StartOfWeek, StartOfDay
<1>5. { StartOfWeek(now - 7 * i * DayTicks) : i \in 0..(n - 1) }
        = { StartOfWeek(now) - i * (7 * DayTicks) : i \in 0..(n - 1) }
  BY <1>3
<1> QED
  BY <1>4, <1>5, Zenon DEF Weeks, PointsTo

LEMMA MonthsTile ==
    ASSUME now \in Nat, NEW n \in Nat
    PROVE  /\ Months(n) = PointsTo(StartOfMonth(now), MonthDays * DayTicks, n)
           /\ StartOfMonth(now) \in Int
<1>1. DayTicks \in Nat \ {0} /\ MonthDays \in Nat \ {0}
  BY BusinessHoursAssumption, StatsAssumption
<1>2. DayOf(now) \in Int /\ DayOf(now) \div MonthDays \in Int
  BY <1>1, Division DEF DayOf
<1>3. ASSUME NEW i \in 0..(n - 1)
      PROVE  StartOfMonth(now - i * MonthDays * DayTicks)
               = StartOfMonth(now) - i * (MonthDays * DayTicks)
  <2>1. i * MonthDays \in Int
    BY <1>1
  <2>2. DayOf(now - i * MonthDays * DayTicks) = DayOf(now) - i * MonthDays
    <3>1. now \in Int
      OBVIOUS
    <3> QED BY <1>1, <2>1, <3>1, DivisionShifts, Zenon DEF DayOf
  <2>3. (DayOf(now) - i * MonthDays) \div MonthDays = (DayOf(now) \div MonthDays) - i
    <3>1. i \in Int
      OBVIOUS
    <3> QED BY <1>1, <1>2, <3>1, DivisionShifts, Zenon
  <2>4. ((DayOf(now) \div MonthDays) - i) * MonthDays * DayTicks
          = (DayOf(now) \div MonthDays) * MonthDays * DayTicks - i * (MonthDays * DayTicks)
    BY <1>1, <1>2
  <2> QED BY <2>2, <2>3, <2>4 DEF StartOfMonth
<1>4. StartOfMonth(now) \in Int
  BY <1>1, <1>2 DEF StartOfMonth
<1>5. { StartOfMonth(now - i * MonthDays * DayTicks) : i \in 0..(n - 1) }
        = { StartOfMonth(now) - i * (MonthDays * DayTicks) : i \in 0..(n - 1) }
  BY <1>3
<1> QED
  BY <1>4, <1>5, Zenon DEF Months, PointsTo

\* The points of a trend at which a ticket counts as created.
CreatedAt(viewer, points, t) == { p \in points : t \in Trend(viewer, points)[p].created }

\* The trend over points that tile their range counts every ticket of its last
\* total as created at one of them.
LEMMA TrendAddsUp ==
    ASSUME TimelineInv, NEW viewer, NEW b \in Int, NEW L \in Nat \ {0}, NEW n \in Nat \ {0},
           NEW last \in PointsTo(b, L, n),
           NEW t \in Trend(viewer, PointsTo(b, L, n))[last].total
    PROVE  Cardinality(CreatedAt(viewer, PointsTo(b, L, n), t)) = 1
<1> DEFINE points == PointsTo(b, L, n)
           range  == { q \in Stored : /\ \E p \in points : files[q].createdAt >= p[1]
                                      /\ ShownTo(viewer, DepartmentIds(q)) }
           c      == files[t].createdAt
<1>1. \A p \in points :
        /\ Trend(viewer, points)[p].total = { q \in range : files[q].createdAt < p[2] }
        /\ Trend(viewer, points)[p].created = { q \in range : Within(files[q].createdAt, p) }
  <2> HIDE DEF points
  <2> QED BY DEF Trend
<1>2. t \in range /\ c < last[2]
  BY <1>1
<1>3. t \in Stored /\ \E p \in points : c >= p[1]
  BY <1>2
<1>4. c \in Int
  BY <1>3, StoredTicket DEF File
<1> HIDE DEF points, range, c
<1>5. Cardinality({ p \in points : Within(c, p) }) = 1
  BY <1>2, <1>3, <1>4, PointsTile DEF points
<1>6. \A p \in points : t \in Trend(viewer, points)[p].created <=> Within(c, p)
  BY <1>1, <1>2 DEF c
<1>7. CreatedAt(viewer, points, t) = { p \in points : Within(c, p) }
  BY <1>6 DEF CreatedAt
<1> QED
  BY <1>5, <1>7 DEF points

\* What a trend has resolved at a point of the period, the performance of the
\* period has.
LEMMA TrendResolves ==
    ASSUME TimelineInv, NEW viewer, NEW points, NEW p \in points,
           p[1] \in Int, p[1] >= StartDate
    PROVE  Trend(viewer, points)[p].resolved \subseteq PerformanceTrends(viewer).resolved
<1> SUFFICES ASSUME NEW t \in Trend(viewer, points)[p].resolved
             PROVE  t \in PerformanceTrends(viewer).resolved
  OBVIOUS
<1>1. /\ t \in Stored /\ IsResolved(t) /\ tickets[t].status = Completed
      /\ ShownTo(viewer, DepartmentIds(t)) /\ files[t].completedAt >= p[1]
  BY DEF Trend, Within
<1>2. files[t].completedAt \in Int
  BY <1>1, StoredTicket DEF File, NoDate
<1>3. StartDate \in Int
  <2>1. now - PeriodDays * DayTicks \in Int /\ DayTicks \in Nat \ {0}
    BY StatsAssumption, BusinessHoursAssumption DEF TimelineInv
  <2>2. (now - PeriodDays * DayTicks) \div DayTicks \in Int
    BY <2>1, Division
  <2> QED BY <2>1, <2>2 DEF StartDate, StartOfDay, DayOf
<1>4. files[t].completedAt >= StartDate
  BY <1>1, <1>2, <1>3
<1> QED
  BY <1>1, <1>4 DEF PerformanceTrends

\* The days, the weeks and the months add up, for every calendar and every
\* number of points: they tile the time they look back on.
THEOREM TrendsAlwaysAddUp == TimelineSpec => []TrendsAddUp
<1> DEFINE AddsUp(viewer, trend) ==
             LET points == DOMAIN trend
                 last   == CHOOSE p \in points : \A q \in points : q[1] <= p[1]
             IN  /\ \A t \in trend[last].total :
                      Cardinality({ p \in points : t \in trend[p].created }) = 1
                 /\ \A p \in points : p[1] >= StartDate =>
                      trend[p].resolved \subseteq PerformanceTrends(viewer).resolved
<1>1. ASSUME TimelineInv, NEW viewer, NEW b \in Int, NEW L \in Nat \ {0}, NEW n \in Nat \ {0}
      PROVE  AddsUp(viewer, Trend(viewer, PointsTo(b, L, n)))
  <2> DEFINE points == PointsTo(b, L, n)
             trend  == Trend(viewer, points)
             last   == CHOOSE p \in points : \A q \in points : q[1] <= p[1]
  <2>1. DOMAIN trend = points
    BY DEF Trend
  <2>2. last \in points
    <3> DEFINE newest == <<b, b + L>>
    <3>1. \A i \in 0..(n - 1) : i * L \in Nat
      OBVIOUS
    <3>2. newest \in points
      <4>1. b = b - 0 * L /\ 0 \in 0..(n - 1)
        OBVIOUS
      <4> QED BY <4>1 DEF PointsTo
    <3>3. \A q \in points : q[1] <= newest[1]
      BY <3>1 DEF PointsTo
    <3> HIDE DEF points, newest
    <3> QED BY <3>2, <3>3
  <2>3. \A p \in points : p[1] \in Int
    BY DEF PointsTo
  <2>4. \A t \in trend[last].total :
          Cardinality({ p \in points : t \in trend[p].created }) = 1
    <3> HIDE DEF last
    <3> TAKE t \in trend[last].total
    <3>1. Cardinality(CreatedAt(viewer, points, t)) = 1
      BY <1>1, <2>2, TrendAddsUp, Zenon
    <3> QED BY <3>1, Zenon DEF CreatedAt
  <2>5. \A p \in points : p[1] >= StartDate =>
          trend[p].resolved \subseteq PerformanceTrends(viewer).resolved
    BY <1>1, <2>3, TrendResolves
  <2> HIDE DEF points, trend
  <2> QED BY <2>1, <2>4, <2>5 DEF trend, points
<1>2. ASSUME TimelineInv PROVE TrendsAddUp
  <2> SUFFICES ASSUME NEW viewer \in Users,
                      NEW trend \in { TicketTrends(viewer).daily, TicketTrends(viewer).weekly,
                                      TicketTrends(viewer).monthly }
               PROVE  AddsUp(viewer, trend)
    BY Zenon DEF TrendsAddUp
  <2>1. /\ TrendDays \in Nat \ {0} /\ TrendWeeks \in Nat \ {0} /\ TrendMonths \in Nat \ {0}
        /\ DayTicks \in Nat \ {0} /\ 7 * DayTicks \in Nat \ {0}
        /\ MonthDays * DayTicks \in Nat \ {0} /\ now \in Nat
    BY <1>2, StatsAssumption, BusinessHoursAssumption DEF TimelineInv
  <2> HIDE DEF AddsUp
  <2>2. AddsUp(viewer, Trend(viewer, Days(TrendDays)))
    BY <1>1, <1>2, <2>1, DaysTile
  <2>3. AddsUp(viewer, Trend(viewer, Weeks(TrendWeeks)))
    BY <1>1, <1>2, <2>1, WeeksTile
  <2>4. AddsUp(viewer, Trend(viewer, Months(TrendMonths)))
    BY <1>1, <1>2, <2>1, MonthsTile
  <2>5. trend \in { Trend(viewer, Days(TrendDays)), Trend(viewer, Weeks(TrendWeeks)),
                    Trend(viewer, Months(TrendMonths)) }
    BY DEF TicketTrends
  <2> QED BY <2>2, <2>3, <2>4, <2>5
<1> QED
  BY <1>2, TimelineInvariance, PTL

-----------------------------------------------------------------------------
(* The business hours.                                                     *)

\* The ticks from start to end that lie on the day of "current".
TicksOfDay(start, end, current) ==
    { t \in start..(end - 1) : DayOf(t) = DayOf(current) }

\* A day is the ticks between two midnights.
LEMMA DayIsBetween ==
    ASSUME NEW t \in Int, NEW c \in Int
    PROVE  /\ DayOf(t) \in Int /\ StartOfDay(t) \in Int
           /\ EndOfDay(t) = StartOfDay(t) + DayTicks
           /\ StartOfDay(t) <= t /\ t < EndOfDay(t)
           /\ DayOf(t) = DayOf(c) <=> StartOfDay(c) <= t /\ t < EndOfDay(c)
           /\ t <= c => DayOf(t) <= DayOf(c)
<1>1. DayTicks \in Nat \ {0}
  BY BusinessHoursAssumption
<1> DEFINE d == t \div DayTicks
           e == c \div DayTicks
<1>2. /\ d \in Int /\ d * DayTicks <= t /\ t < d * DayTicks + DayTicks
      /\ e \in Int /\ e * DayTicks <= c /\ c < e * DayTicks + DayTicks
  BY <1>1, Division
<1> HIDE DEF d, e
<1>3. d * DayTicks \in Int /\ e * DayTicks \in Int
  BY <1>1, <1>2
<1>4. d < e => d * DayTicks + DayTicks <= e * DayTicks
  BY <1>1, <1>2, Multiples
<1>5. e < d => e * DayTicks + DayTicks <= d * DayTicks
  BY <1>1, <1>2, Multiples
<1>6. d = e <=> e * DayTicks <= t /\ t < e * DayTicks + DayTicks
  BY <1>1, <1>2, <1>3, <1>4, <1>5
<1>7. t <= c => d <= e
  BY <1>1, <1>2, <1>3, <1>5
<1> QED
  BY <1>1, <1>2, <1>3, <1>6, <1>7 DEF DayOf, StartOfDay, EndOfDay, d, e

\* The hours of a day are the ticks of it.
LEMMA HoursAreTicks ==
    ASSUME NEW start \in Int, NEW end \in Int, NEW c \in Int
    PROVE  /\ IsFiniteSet(TicksOfDay(start, end, c))
           /\ HoursOfDay(start, end, c) = Cardinality(TicksOfDay(start, end, c))
<1> DEFINE a == Later(start, StartOfDay(c))
           b == Earlier(end, EndOfDay(c))
<1>1. StartOfDay(c) \in Int /\ EndOfDay(c) \in Int
  BY DayIsBetween, BusinessHoursAssumption
<1>2. a \in Int /\ b \in Int
  BY <1>1 DEF Later, Earlier
<1>3. \A t \in Int : DayOf(t) = DayOf(c) <=> StartOfDay(c) <= t /\ t < EndOfDay(c)
  BY DayIsBetween
<1>4. TicksOfDay(start, end, c) = a..(b - 1)
  BY <1>1, <1>3 DEF TicksOfDay, Later, Earlier
<1>5. HoursOfDay(start, end, c) = Later(0, b - a)
  BY DEF HoursOfDay
<1> HIDE DEF a, b
<1>6. /\ IsFiniteSet(a..(b - 1))
      /\ Cardinality(a..(b - 1)) = IF a > b - 1 THEN 0 ELSE b - 1 - a + 1
  BY <1>2, FS_Interval
<1> QED
  BY <1>2, <1>4, <1>5, <1>6 DEF Later

\* The moments the loop visits, and what MultiDayHours adds up: the ticks of
\* their days.
Currents(start, end) ==
    { start + k * DayTicks : k \in 0..(Later(0, end - start - 1) \div DayTicks) }

Visited(start, end) == { c \in Currents(start, end) : c < end /\ ~IsWeekend(c) }

TicksVisited(start, end) ==
    { t \in start..(end - 1) : \E c \in Visited(start, end) : DayOf(t) = DayOf(c) }

\* The loop visits every day once, and among the days of the interval leaves
\* out only the last.
LEMMA LoopVisitsDays ==
    ASSUME NEW start \in Int, NEW end \in Int, start <= end
    PROVE  /\ IsFiniteSet(Currents(start, end)) /\ Currents(start, end) \subseteq Int
           /\ \A c, e \in Currents(start, end) : DayOf(c) = DayOf(e) => c = e
           /\ \A t \in start..(end - 1) :
                 DayOf(t) = DayOf(end)
                 \/ \E c \in Currents(start, end) : c < end /\ DayOf(c) = DayOf(t)
<1> DEFINE K == Later(0, end - start - 1) \div DayTicks
           f == [k \in 0..K |-> start + k * DayTicks]
<1>1. DayTicks \in Nat \ {0} /\ DayOf(start) \in Int
  BY BusinessHoursAssumption, DayIsBetween
<1>2. Later(0, end - start - 1) \in Nat
  BY DEF Later
<1>3. /\ K \in Int /\ K * DayTicks <= Later(0, end - start - 1)
      /\ Later(0, end - start - 1) < K * DayTicks + DayTicks
  BY <1>1, <1>2, Division
<1> HIDE DEF K
<1>4. ASSUME NEW k \in Int
      PROVE  start + k * DayTicks \in Int /\ DayOf(start + k * DayTicks) = DayOf(start) + k
  <2>1. -k \in Int /\ start + k * DayTicks = start - (-k) * DayTicks
        /\ start + k * DayTicks \in Int
    BY <1>1
  <2>2. (start - (-k) * DayTicks) \div DayTicks = (start \div DayTicks) - (-k)
    BY <1>1, <2>1, DivisionShifts, Zenon
  <2> QED BY <1>1, <2>1, <2>2 DEF DayOf
<1>5. Currents(start, end) \subseteq Int
  BY <1>4 DEF Currents
<1>6. IsFiniteSet(Currents(start, end))
  <2>1. IsFiniteSet(0..K)
    BY <1>3, FS_Interval
  <2>2. f \in Surjection(0..K, Currents(start, end))
    BY DEF Currents, Surjection, K
  <2> HIDE DEF f
  <2> QED BY <2>1, <2>2, FS_Surjection
<1>7. ASSUME NEW c \in Currents(start, end), NEW e \in Currents(start, end),
             DayOf(c) = DayOf(e)
      PROVE  c = e
  <2>1. PICK k \in 0..K : c = start + k * DayTicks
    BY DEF Currents, K
  <2>2. PICK j \in 0..K : e = start + j * DayTicks
    BY DEF Currents, K
  <2>3. k = j
    BY <1>1, <1>4, <1>7, <2>1, <2>2
  <2> QED BY <2>1, <2>2, <2>3
<1>8. ASSUME NEW t \in start..(end - 1), DayOf(t) # DayOf(end)
      PROVE  \E c \in Currents(start, end) : c < end /\ DayOf(c) = DayOf(t)
  <2> DEFINE k == DayOf(t) - DayOf(start)
             c == start + k * DayTicks
  <2>1. t \in Int /\ DayOf(t) \in Int /\ DayOf(start) <= DayOf(t) /\ DayOf(end) \in Int
        /\ DayOf(t) <= DayOf(end)
    BY DayIsBetween
  <2>2. k \in Nat
    BY <1>1, <2>1
  <2>3. c \in Int /\ DayOf(c) = DayOf(t)
    <3>1. k \in Int /\ DayOf(start) + k = DayOf(t)
      BY <1>1, <2>1
    <3> HIDE DEF k
    <3> QED BY <1>4, <3>1
  <2>4. c < end
    <3> HIDE DEF c
    <3>1. end <= c => DayOf(end) <= DayOf(c)
      BY <2>3, DayIsBetween
    <3> QED BY <1>8, <2>1, <2>3, <3>1
  <2> HIDE DEF k
  <2>5. k <= K
    <3> SUFFICES ASSUME K < k PROVE FALSE
      BY <1>3, <2>2
    <3>1. K * DayTicks + DayTicks <= k * DayTicks
      BY <1>1, <1>3, <2>2, Multiples
    <3>2. Later(0, end - start - 1) >= end - start - 1
      BY DEF Later
    <3> QED BY <1>1, <1>2, <1>3, <2>2, <2>3, <2>4, <3>1, <3>2
  <2>6. c \in Currents(start, end)
    BY <2>2, <2>5 DEF Currents, K
  <2> QED BY <2>3, <2>4, <2>6
<1> QED
  BY <1>5, <1>6, <1>7, <1>8

\* The sum the loop makes is a count.
LEMMA LoopCounts ==
    ASSUME NEW start \in Int, NEW end \in Int, start <= end
    PROVE  MultiDayHours(start, end) = Cardinality(TicksVisited(start, end))
<1> DEFINE S == Visited(start, end)
           parts == [c \in S |-> TicksOfDay(start, end, c)]
           Solves(f) == f = [T \in SUBSET S |->
                               IF T = {} THEN 0
                               ELSE HoursOfDay(start, end, CHOOSE x \in T : TRUE)
                                      + f[T \ {CHOOSE x \in T : TRUE}]]
           It == CHOOSE f : Solves(f)
<1>1. MultiDayHours(start, end) = It[S]
  BY Zenon DEF MultiDayHours, MapThenSumSet, MapThenFoldSet, Visited, Currents
<1>2. S \subseteq Int /\ IsFiniteSet(S)
  BY LoopVisitsDays, FS_Subset DEF Visited
<1>3. \A x, y \in S : x # y => parts[x] \cap parts[y] = {}
  BY LoopVisitsDays DEF Visited, TicksOfDay
<1>4. \A x \in S : /\ IsFiniteSet(parts[x])
                   /\ HoursOfDay(start, end, x) = Cardinality(parts[x])
  BY <1>2, HoursAreTicks
<1>5. Counted(parts, S) = TicksVisited(start, end)
  BY DEF Counted, TicksVisited, TicksOfDay
<1> HIDE DEF S, parts
<1>6. /\ SumsUp([T \in SUBSET S |-> Cardinality(Counted(parts, T))], S, parts)
      /\ \A f : SumsUp(f, S, parts) => f[S] = Cardinality(Counted(parts, S))
  BY <1>2, <1>3, <1>4, PartsAddUp
<1>7. \A T \in SUBSET S : T # {} =>
        HoursOfDay(start, end, CHOOSE x \in T : TRUE)
          = Cardinality(parts[CHOOSE x \in T : TRUE])
  BY <1>4
<1>8. Solves([T \in SUBSET S |-> Cardinality(Counted(parts, T))])
  BY <1>6, <1>7 DEF SumsUp
<1>9. Solves(It)
  BY <1>8
<1> HIDE DEF It
<1>10. SumsUp(It, S, parts)
  BY <1>7, <1>9 DEF SumsUp
<1> QED
  BY <1>1, <1>5, <1>6, <1>10

\* What the loop leaves out is less than a day, and it counts no tick that is
\* not one of work.
LEMMA HoursAreClose ==
    ASSUME NEW start \in Int, NEW end \in Int, start <= end
    PROVE  /\ CalculateBusinessHours(start, end) <= WorkingTicks(start, end)
           /\ CalculateBusinessHours(start, end) > WorkingTicks(start, end) - DayTicks
<1> DEFINE all == start..(end - 1)
           W == { t \in all : (DayOf(t) + FirstWeekday) % 7 \in 1..5 }
           V == TicksVisited(start, end)
           rest == StartOfDay(end)..(end - 1)
<1>1. /\ DayTicks \in Nat \ {0} /\ FirstWeekday \in Int
      /\ \A t \in Int : DayOf(t) \in Int
  BY BusinessHoursAssumption, DayIsBetween
<1>2. WorkingTicks(start, end) = Cardinality(W)
  BY DEF WorkingTicks, DayOf
<1>3. \A t \in Int : (DayOf(t) + FirstWeekday) % 7 \in 1..5 <=> ~IsWeekend(t)
  <2> SUFFICES ASSUME NEW t \in Int
               PROVE  (DayOf(t) + FirstWeekday) % 7 \in 1..5 <=> ~IsWeekend(t)
    OBVIOUS
  <2>1. DayOf(t) + FirstWeekday \in Int
    BY <1>1
  <2>2. (DayOf(t) + FirstWeekday) % 7 \in 0..6
    BY <2>1
  <2> QED BY <2>2 DEF IsWeekend, WeekendDays
<1>4. IsFiniteSet(all) /\ Cardinality(all) = end - start
  <2>1. end - 1 \in Int
    OBVIOUS
  <2>2. /\ IsFiniteSet(all)
        /\ Cardinality(all) = IF start > end - 1 THEN 0 ELSE end - 1 - start + 1
    BY <2>1, FS_Interval, Zenon
  <2> HIDE DEF all
  <2> QED BY <2>2
<1>5. IsFiniteSet(W) /\ Cardinality(W) \in Nat
  BY <1>4, FS_Subset, FS_CardinalityType
<1>6. CASE DayOf(start) = DayOf(end)
  <2>1. \A t \in all : DayOf(t) = DayOf(start)
    <3> SUFFICES ASSUME NEW t \in all PROVE DayOf(t) = DayOf(start)
      OBVIOUS
    <3>1. t \in Int /\ start <= t /\ t <= end
      OBVIOUS
    <3>2. DayOf(start) <= DayOf(t) /\ DayOf(t) <= DayOf(end)
      BY <3>1, DayIsBetween
    <3> QED BY <1>1, <1>6, <3>1, <3>2
  <2>2. CASE IsWeekend(start)
    <3>1. W = {}
      BY <1>3, <2>1, <2>2 DEF IsWeekend
    <3>2. CalculateBusinessHours(start, end) = 0
      BY <1>6, <2>2 DEF CalculateBusinessHours
    <3>3. Cardinality(W) = 0
      BY <3>1, FS_EmptySet
    <3> QED BY <1>1, <1>2, <3>2, <3>3
  <2>3. CASE ~IsWeekend(start)
    <3>1. W = all
      BY <1>3, <2>1, <2>3 DEF IsWeekend
    <3>2. CalculateBusinessHours(start, end) = end - start
      BY <1>6, <2>3 DEF CalculateBusinessHours
    <3>3. Cardinality(W) = end - start
      BY <1>4, <3>1
    <3> HIDE DEF W, all
    <3> QED BY <1>1, <1>2, <3>2, <3>3
  <2> QED BY <2>2, <2>3
<1>7. CASE DayOf(start) # DayOf(end)
  <2>1. CalculateBusinessHours(start, end) = Cardinality(V)
    BY <1>7, LoopCounts DEF CalculateBusinessHours
  <2>2. V \subseteq W
    <3> SUFFICES ASSUME NEW t \in V PROVE t \in W
      OBVIOUS
    <3>1. PICK c \in Visited(start, end) : DayOf(t) = DayOf(c)
      BY DEF TicksVisited
    <3>2. t \in all /\ t \in Int
      BY DEF TicksVisited
    <3>3. c \in Int /\ ~IsWeekend(c)
      BY LoopVisitsDays DEF Visited
    <3> QED BY <1>3, <3>1, <3>2, <3>3 DEF IsWeekend
  <2>3. W \ V \subseteq rest
    <3> SUFFICES ASSUME NEW t \in W, t \notin V PROVE t \in rest
      OBVIOUS
    <3>1. t \in all /\ t \in Int /\ t <= end - 1 /\ ~IsWeekend(t)
      BY <1>3
    <3>2. DayOf(t) = DayOf(end)
      <4> SUFFICES ASSUME DayOf(t) # DayOf(end) PROVE FALSE
        OBVIOUS
      <4>1. PICK c \in Currents(start, end) : c < end /\ DayOf(c) = DayOf(t)
        BY <3>1, LoopVisitsDays
      <4>2. c \in Visited(start, end)
        BY <3>1, <4>1 DEF Visited, IsWeekend
      <4> QED BY <3>1, <4>1, <4>2 DEF TicksVisited
    <3>3. StartOfDay(end) <= t /\ StartOfDay(end) \in Int
      BY <3>1, <3>2, DayIsBetween
    <3> QED BY <3>1, <3>3
  <2> HIDE DEF W, V
  <2>4. /\ IsFiniteSet(V) /\ Cardinality(V) \in Nat /\ Cardinality(V) <= Cardinality(W)
        /\ IsFiniteSet(W \ V) /\ Cardinality(W \ V) \in Nat
    BY <1>5, <2>2, FS_Subset, FS_CardinalityType
  <2>5. Cardinality(W \ V) < DayTicks
    <3>1. StartOfDay(end) \in Int /\ end < StartOfDay(end) + DayTicks
          /\ StartOfDay(end) <= end
      BY DayIsBetween
    <3>2. IsFiniteSet(rest) /\ Cardinality(rest) = end - StartOfDay(end)
      BY <3>1, FS_Interval
    <3>3. Cardinality(W \ V) <= Cardinality(rest)
      BY <2>3, <3>2, FS_Subset
    <3> QED BY <1>1, <2>4, <3>1, <3>2, <3>3
  <2>6. Cardinality(W) = Cardinality(V) + Cardinality(W \ V)
    <3>1. W = V \cup (W \ V) /\ V \cap (W \ V) = {}
      BY <2>2
    <3>2. Cardinality(V \cup (W \ V))
            = Cardinality(V) + Cardinality(W \ V) - Cardinality(V \cap (W \ V))
      BY <2>4, FS_Union
    <3>3. Cardinality(V \cap (W \ V)) = 0
      BY <3>1, FS_EmptySet
    <3> QED BY <2>4, <3>1, <3>2, <3>3
  <2> QED BY <1>1, <1>2, <1>5, <2>1, <2>4, <2>5, <2>6
<1> QED
  BY <1>6, <1>7

\* Business time is off by less than a day, for every length of a day, every
\* first weekday and every start, at any moment.
THEOREM BusinessTimeAlwaysClose == TimelineSpec => []BusinessTimeIsClose
<1>1. TimelineInv => BusinessTimeIsClose
  <2> SUFFICES ASSUME TimelineInv, NEW start \in 0..now
               PROVE  /\ CalculateBusinessHours(start, now) <= WorkingTicks(start, now)
                      /\ CalculateBusinessHours(start, now)
                           > WorkingTicks(start, now) - DayTicks
    BY DEF BusinessTimeIsClose
  <2>1. start \in Int /\ now \in Int /\ start <= now
    BY DEF TimelineInv
  <2> QED BY <2>1, HoursAreClose
<1> QED
  BY <1>1, TimelineInvariance, PTL

=============================================================================

--------------------------- MODULE UserDeactivation ---------------------------
(***************************************************************************)
(* POST users/:uuid/deactivate: user-deactivation.service.ts checks the    *)
(* request against a preview, hands the open tickets of the leaving user   *)
(* over one by one through the handlers of TicketService, and only then    *)
(* clears isActive.  Nothing spans the steps: between any two of them      *)
(* other requests may run, and a step that throws leaves what was done.    *)
(*                                                                         *)
(* The variable job is the one running deactivation:                       *)
(*   phase        where deactivateWithTicketReassignment stands: preview   *)
(*                counted, assignees and then reviews being handed over    *)
(*   actor, user  who asked, and who is to be deactivated                  *)
(*   newTarget    dto.newTargetUserId                                      *)
(*   newReviewer  resolvedReviewerId                                       *)
(*   todo         the tickets of the running loop that are still to come   *)
(*   call         the ticket whose list the loop has just read, with the   *)
(*                order to replace, or 0 to remove the user instead        *)
(***************************************************************************)
EXTENDS TicketWorkflow

CONSTANTS
    StartRows   \* the tickets the tenant may hold when a deactivation begins

ASSUME DeactivationAssumption == StartRows \subseteq Row

VARIABLE job

allVars == <<tickets, active, job>>

NoCall  == [ticket |-> NoTicket, order |-> 0]
Working == {"counted", "assignees", "reviews"}

OpenTargetOf(u) == { t \in Stored : IsOpen(tickets[t]) /\ u \in Assigned(tickets[t]) }
OpenReviewOf(u) == { t \in Stored : IsOpen(tickets[t]) /\ tickets[t].reviewer = u }

DeactivationInit ==
    /\ tickets \in [Tickets -> StartRows]
    /\ active = Users
    /\ job = [ phase |-> "idle", actor |-> NoUser, user |-> NoUser,
               newTarget |-> NoUser, newReviewer |-> NoUser,
               todo |-> {}, call |-> NoCall ]

-----------------------------------------------------------------------------
(* The preview and the validation of the request: reads only.              *)

\* Colleagues of the department; only if there are none, the admins.
TargetUserOptions(u) ==
    LET colleagues == { v \in active \ {u} : DeptOf[v] = DeptOf[u] }
    IN  IF colleagues # {} THEN colleagues ELSE (Admins \cap active) \ {u}

\* Mutant: no excludeUserId.
DepartmentSupervisors_LeaverToo(u) ==
    { v \in Supervisors \cap active : DeptOf[v] = DeptOf[u] }

DepartmentSupervisors(u) ==
    { v \in (Supervisors \cap active) \ {u} : DeptOf[v] = DeptOf[u] }

\* resolvedReviewerId: any supervisor of the department (findOne without an
\* order), else the admin the request names.
ReviewerOptions(u) ==
    IF DepartmentSupervisors(u) # {} THEN DepartmentSupervisors(u)
    ELSE (Admins \cap active) \ {u}

\* A request that does not pass is answered 400 and changes nothing.
Start(actor, u, newTarget, newReviewer) ==
    /\ job.phase \notin Working
    /\ OpenTargetOf(u) # {} => newTarget \in TargetUserOptions(u)
    /\ IF OpenReviewOf(u) # {} THEN newReviewer \in ReviewerOptions(u)
                               ELSE newReviewer = NoUser
    /\ job' = [ phase |-> IF OpenTargetOf(u) \cup OpenReviewOf(u) # {}
                          THEN "counted" ELSE "reviews",
                actor |-> actor, user |-> u,
                newTarget |-> newTarget, newReviewer |-> newReviewer,
                todo |-> {}, call |-> NoCall ]
    /\ UNCHANGED <<tickets, active>>

-----------------------------------------------------------------------------
(* reassignTicketsOnUserDeactivation.                                      *)

\* Mutant: the tickets are looked up again instead of once.
Remaining_Requeried(t) ==
    IF job.phase = "assignees" THEN OpenTargetOf(job.user) ELSE job.todo \ {t}

\* The loops run over a list read once.
Remaining(t) == job.todo \ {t}

Fail == job' = [job EXCEPT !.phase = "failed", !.todo = {}, !.call = NoCall]

ListTargetTickets ==
    /\ job.phase = "counted"
    /\ job' = [job EXCEPT !.phase = "assignees", !.todo = OpenTargetOf(job.user)]
    /\ UNCHANGED <<tickets, active>>

\* Mutant: a place counted from 0.
HandOverOrder_FromZero(row) ==
    IF job.newTarget \in Assigned(row) THEN 0
    ELSE PositionOf(row.targets, job.user) - 1

\* What to call for a ticket with these rows: remove the user if the new one
\* is on the list already, else replace the user at the order just read.
HandOverOrder(row) ==
    IF job.newTarget \in Assigned(row) THEN 0 ELSE PositionOf(row.targets, job.user)

\* A ticket the user is no longer on is skipped.
LookAtTargets(t) ==
    /\ job.phase = "assignees" /\ job.call = NoCall /\ t \in job.todo
    /\ \/ job.newTarget = NoUser /\ Fail
       \/ /\ job.newTarget # NoUser
          /\ IF t \in Stored /\ job.user \in Assigned(tickets[t])
             THEN job' = [job EXCEPT !.call = [ticket |-> t,
                                              order  |-> HandOverOrder(tickets[t])]]
             ELSE job' = [job EXCEPT !.todo = Remaining(t)]
    /\ UNCHANGED <<tickets, active>>

\* The guard and the effect of the handler that was chosen.
CanHandOver(row) ==
    IF job.call.order = 0
    THEN CanRemoveAssignee(job.actor, row, job.user)
    ELSE CanUpdateAssignee(job.actor, row, job.newTarget, job.call.order, active)

HandedOver(row) ==
    IF job.call.order = 0 THEN AssigneeRemoved(row, job.user)
    ELSE AssigneeUpdated(row, job.newTarget, job.call.order)

\* The handler throws before its first write (404, 403) ...
HandOverRefused(t) ==
    /\ job.call # NoCall /\ t = job.call.ticket
    /\ t \in Stored => ~CanHandOver(tickets[t])
    /\ Fail
    /\ UNCHANGED <<tickets, active>>

\* ... or runs to its last line, findById: 403 when the hand-over took away
\* the access of the one who asked.
HandOver(t) ==
    /\ job.call # NoCall /\ t = job.call.ticket /\ t \in Stored
    /\ CanHandOver(tickets[t])
    /\ Write(t, HandedOver(tickets[t]))
    /\ IF CheckTicketAccess(job.actor, HandedOver(tickets[t]))
       THEN job' = [job EXCEPT !.todo = Remaining(t), !.call = NoCall]
       ELSE Fail

ListReviewTickets ==
    /\ job.phase = "assignees" /\ job.call = NoCall /\ job.todo = {}
    /\ job' = [job EXCEPT !.phase = "reviews", !.todo = OpenReviewOf(job.user)]
    /\ UNCHANGED <<tickets, active>>

HandOverReview(t) ==
    /\ job.phase = "reviews" /\ t \in job.todo
    /\ IF /\ job.newReviewer # NoUser /\ t \in Stored
          /\ CanUpdateReviewer(job.actor, tickets[t], job.newReviewer, active)
       THEN /\ Write(t, ReviewerUpdated(tickets[t], job.newReviewer))
            /\ job' = [job EXCEPT !.todo = Remaining(t)]
       ELSE Fail /\ UNCHANGED <<tickets, active>>

\* UserService.update refuses the actor's own account, now that the tickets
\* are handed over.
Deactivate ==
    /\ job.phase = "reviews" /\ job.todo = {}
    /\ IF job.actor = job.user
       THEN Fail /\ UNCHANGED active
       ELSE /\ active' = active \ {job.user}
            /\ job' = [job EXCEPT !.phase = "done"]
    /\ UNCHANGED tickets

-----------------------------------------------------------------------------

StartAny ==
    \E actor \in Users, u \in Users, newTarget, newReviewer \in Users \cup {NoUser} :
        Start(actor, u, newTarget, newReviewer)

\* The steps of the request once it runs.
JobStep ==
    \/ ListTargetTickets
    \/ \E t \in Tickets : LookAtTargets(t)
    \/ \E t \in Tickets : HandOverRefused(t)
    \/ \E t \in Tickets : HandOver(t)
    \/ ListReviewTickets
    \/ \E t \in Tickets : HandOverReview(t)
    \/ Deactivate

\* Requests of other users while the deactivation runs: those that move
\* people on and off a ticket, and some that close or delete it.
OtherRequest ==
    /\ job.phase \in Working
    /\ \E u \in Users, t \in Stored :
         \/ \E new \in Users, order \in 1..MaxTargets : UpdateAssignee(u, t, new, order)
         \/ \E new \in Users, order \in 1..MaxTargets : AddAssignee(u, t, new, order)
         \/ \E gone \in Users : RemoveAssignee(u, t, gone)
         \/ \E new \in Users : UpdateReviewer(u, t, new)
         \/ Cancel(u, t)
         \/ DeleteTicket(t)
    /\ UNCHANGED job

AloneNext == StartAny \/ JobStep

\* The deactivation with nothing else going on in the tenant.
AloneSpec == DeactivationInit /\ [][AloneNext]_allVars

\* The deactivation among other requests.  Node resumes every await of a
\* handler, so a running job goes on; nobody has to start one.
SharedSpec == /\ DeactivationInit
              /\ [][AloneNext \/ OtherRequest]_allVars
              /\ WF_allVars(JobStep)

-----------------------------------------------------------------------------
(* Properties.                                                             *)

\* A deactivated user holds nothing: no open ticket has them on its list of
\* assignees, as the current assignee or as the reviewer, whatever
\* deactivations failed half-way before (deactivateWithTicketReassignment).
InactiveHoldNothing ==
    \A u \in Users \ active, t \in Stored :
        IsOpen(tickets[t]) =>
            u \notin Assigned(tickets[t]) \cup {tickets[t].current, tickets[t].reviewer}

\* A step of the deactivation never takes anyone but the leaving user off a
\* list: the entry it replaces is the one it looked up for that user.
OnlyLeaverReplaced ==
    [][job' # job =>
         \A t \in Stored :
             Assigned(tickets[t]) \ {job.user} \subseteq Assigned(tickets'[t])]_allVars

\* A deactivation that has started ends, done or failed, whatever the others
\* do meanwhile: its loops are over lists read once.
EveryJobEnds == (job.phase \in Working) ~> (job.phase \notin Working)
=============================================================================

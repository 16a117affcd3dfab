---------------------------- MODULE TicketWorkflow ----------------------------
(***************************************************************************)
(* The ticket life cycle: any user of a tenant calls any endpoint of       *)
(* ticket.controller.ts on any ticket, one request at a time, while users  *)
(* are activated and deactivated by the plain PATCH of a user.  What each  *)
(* handler does to the rows of the ticket is in TicketRow.                 *)
(***************************************************************************)
EXTENDS TicketRow

CONSTANTS
    Tickets,       \* ids a ticket of the tenant may get
    NoTicket,      \* no ticket stored under that id
    Requesters,    \* bound: the users tickets are created for
    Deactivatable, \* bound: the users whose isActive is changed
    Privacy,       \* bound: the values of isPrivate in requests
    MaxTargets     \* bound: rows of ticket_target_user per ticket

ASSUME WorkflowAssumption ==
    /\ Requesters \subseteq Users
    /\ Deactivatable \subseteq Users
    /\ Privacy \subseteq BOOLEAN
    /\ MaxTargets \in Nat \ {0}
    /\ NoTicket \notin Row

VARIABLES
    tickets,   \* the stored tickets
    active     \* the users with isActive

vars == <<tickets, active>>

Stored == { t \in Tickets : tickets[t] # NoTicket }

\* The lists of users a create request may carry.
TargetLists == UNION { [1..n -> Users] : n \in 1..MaxTargets }

Write(t, row) == /\ tickets' = [tickets EXCEPT ![t] = row]
                 /\ UNCHANGED active

Init == /\ tickets = [t \in Tickets |-> NoTicket]
        /\ active = Users

-----------------------------------------------------------------------------
(* One action per endpoint.                                                *)

Create(t, requester, targets, reviewer, isPrivate) ==
    /\ t \notin Stored
    /\ CanCreate(requester, targets, isPrivate)
    /\ reviewer \in Users \cup DefaultReviewer(requester, targets, active)
    /\ Write(t, Created(requester, targets, reviewer, isPrivate))

UpdateTicket(u, t, isPrivate) ==
    /\ CanUpdateTicket(u, tickets[t])
    /\ Write(t, UpdatedTicket(u, tickets[t], isPrivate))

AddFiles(t) == Write(t, FilesAdded(tickets[t]))

UpdateStatus(u, t, status) ==
    /\ CheckTicketAccess(u, tickets[t])
    /\ Write(t, StatusUpdated(tickets[t], status))

Accept(u, t) ==
    /\ CanAccept(u, tickets[t])
    /\ Write(t, Accepted(tickets[t]))

Approve(u, t) ==
    /\ CheckTicketAccess(u, tickets[t])
    /\ Write(t, Judged(tickets[t], Completed))

Reject(u, t) ==
    /\ CheckTicketAccess(u, tickets[t])
    /\ Write(t, Judged(tickets[t], Rejected))

Cancel(u, t) ==
    /\ CanCancel(u, tickets[t])
    /\ Write(t, Cancelled(tickets[t]))

DeleteTicket(t) ==
    /\ CanDelete(tickets[t])
    /\ Write(t, NoTicket)

RequestCorrection(u, t, target) ==
    /\ CanRequestCorrection(u, tickets[t], target)
    /\ Write(t, CorrectionRequested(tickets[t], target))

UpdateAssignee(u, t, new, order) ==
    /\ CanUpdateAssignee(u, tickets[t], new, order, active)
    /\ Write(t, AssigneeUpdated(tickets[t], new, order))

\* There is no upper limit in the code: MaxTargets bounds the model.
AddAssignee(u, t, new, order) ==
    /\ CanAddAssignee(u, tickets[t], new, order, active)
    /\ Len(tickets[t].targets) < MaxTargets
    /\ Write(t, AssigneeAdded(tickets[t], new, order))

RemoveAssignee(u, t, gone) ==
    /\ CanRemoveAssignee(u, tickets[t], gone)
    /\ Write(t, AssigneeRemoved(tickets[t], gone))

SendToNextDepartment(u, t) ==
    /\ CanSendToNext(u, tickets[t])
    /\ Write(t, SentToNext(tickets[t]))

UpdateReviewer(u, t, new) ==
    /\ CanUpdateReviewer(u, tickets[t], new, active)
    /\ Write(t, ReviewerUpdated(tickets[t], new))

\* PATCH users/:uuid with isActive: no look at the user's tickets.
SetActive(u, isActive) ==
    /\ active' = IF isActive THEN active \cup {u} ELSE active \ {u}
    /\ UNCHANGED tickets

-----------------------------------------------------------------------------

CreateAny ==
    \E t \in Tickets, requester \in Requesters, targets \in TargetLists,
       reviewer \in Users \cup {NoUser}, isPrivate \in Privacy :
        Create(t, requester, targets, reviewer, isPrivate)

\* A request by user u on the stored ticket t.
Request(u, t) ==
    \/ \E isPrivate \in Privacy : UpdateTicket(u, t, isPrivate)
    \/ AddFiles(t)
    \/ \E status \in TicketStatus : UpdateStatus(u, t, status)
    \/ Accept(u, t)
    \/ Approve(u, t)
    \/ Reject(u, t)
    \/ Cancel(u, t)
    \/ DeleteTicket(t)
    \/ \E target \in Users \cup {NoUser} : RequestCorrection(u, t, target)
    \/ \E new \in Users, order \in 1..MaxTargets : UpdateAssignee(u, t, new, order)
    \/ \E new \in Users, order \in 1..MaxTargets : AddAssignee(u, t, new, order)
    \/ \E gone \in Users : RemoveAssignee(u, t, gone)
    \/ SendToNextDepartment(u, t)
    \/ \E new \in Users : UpdateReviewer(u, t, new)

Next ==
    \/ CreateAny
    \/ \E u \in Users, t \in Stored : Request(u, t)
    \/ \E u \in Deactivatable, isActive \in BOOLEAN : SetActive(u, isActive)

Spec == Init /\ [][Next]_vars

-----------------------------------------------------------------------------
(* Properties.                                                             *)

\* The type invariant: the rows of ticket, ticket_target_user and the trail.
TypeOK ==
    /\ tickets \in [Tickets -> Row \cup {NoTicket}]
    /\ active \subseteq Users

\* The user whose turn it is is on the list of assignees, whatever sequence
\* of replacements, insertions, removals, corrections and hand-overs led
\* here: sendToNextDepartment and removeAssignee answer 404
\* ('current-target-user-not-found') on a ticket where this fails.
CurrentIsTarget ==
    \A t \in Stored : tickets[t].current \in Assigned(tickets[t])

\* Replaying fromUserId -> toUserId of the ticket_update rows in order ends
\* at currentTargetUserId: the history screens and the statistics, which
\* read only the rows, agree with the ticket on who holds it.
TrailExplainsAssignee ==
    \A t \in Stored : tickets[t].trail.holder = tickets[t].current

\* A ticket waits for verification only if the last history row says so,
\* by whichever of updateStatus and removeAssignee it got there: the time
\* in that status is computed from that row (findLastStatusUpdate).
AwaitingIsAudited ==
    \A t \in Stored :
        tickets[t].status = AwaitingVerification =>
            tickets[t].trail.status = AwaitingVerification

\* While a ticket is completed, rejected or canceled, no request changes who
\* is on its list of assignees, who reviews it or whose turn it is
\* (assertTicketOpenForAssignment), a request that also reopens it included.
\* The one exception is sendToNextDepartment, which looks at no status: the
\* current assignee of a closed ticket can pass it on, and so reopens it.
TerminalKeepsPeople ==
    [][\A t \in Tickets :
         tickets[t] # NoTicket /\ tickets'[t] # NoTicket /\ ~IsOpen(tickets[t]) =>
            /\ tickets'[t].targets = tickets[t].targets
            /\ tickets'[t].reviewer = tickets[t].reviewer
            /\ \/ tickets'[t].current = tickets[t].current
               \/ tickets'[t] = SentToNext(tickets[t])]_vars

\* "Cannot remove target user who has already worked on the task"
\* (ticket.service.ts:2640): someone who is no admin never takes off the
\* list another user than the current one whom the history shows at work
\* since that user is on the list (of a list that names nobody twice).
WorkersAreKept ==
    [][\A u \in Users \ Admins, t \in Stored, gone \in Users :
         /\ RemoveAssignee(u, t, gone)
         /\ gone # tickets[t].current
         /\ IsInjective(tickets[t].targets)
         => gone \notin tickets[t].worked]_vars
=============================================================================

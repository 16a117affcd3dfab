------------------------------ MODULE TicketRow ------------------------------
(***************************************************************************)
(* The ticket aggregate of src/src/modules/ticket as the rows the database *)
(* holds for one ticket, and what every handler of TicketService does to   *)
(* them when it runs alone: a guard (the early returns that throw before   *)
(* the first write) and the rows it leaves.  No VARIABLES: TicketWorkflow  *)
(* serves the requests, UserDeactivation calls the same handlers in a      *)
(* loop.                                                                   *)
(*                                                                         *)
(* A row is a record                                                       *)
(*   status     ticket.statusId, by the key of the status                  *)
(*   targets    the ticket_target_user rows, in the order of "order"       *)
(*   current    ticket.currentTargetUserId                                 *)
(*   reviewer   ticket.reviewerId, NoUser for NULL                         *)
(*   requester  ticket.requesterId                                         *)
(*   isPrivate  ticket.isPrivate                                           *)
(*   reason     whether the ticket_cancellation_reason row exists          *)
(*   trail      what a reader of the ticket_update rows deduces from them  *)
(*   worked     the users a history row put to work (StatusUpdate to       *)
(*              in_progress) and whose row of the list stands since        *)
(* Names, texts, files, time stamps, notifications and e-mail are left     *)
(* out: no guard of these handlers reads them.                             *)
(***************************************************************************)
EXTENDS Integers, FiniteSets, SequencesExt

CONSTANTS
    Users,        \* the users of one tenant
    NoUser,       \* SQL NULL in a user column
    Admins,       \* users whose role is TenantAdmin or GlobalAdmin
    Supervisors,  \* users whose role is Supervisor
    DeptOf        \* user.departmentId

ASSUME UsersAssumption ==
    /\ NoUser \notin Users
    /\ Admins \subseteq Users
    /\ Supervisors \subseteq Users
    /\ Admins \cap Supervisors = {}
    /\ DOMAIN DeptOf = Users

-----------------------------------------------------------------------------
(* Statuses.                                                               *)

Pending              == "pending"
InProgress           == "in_progress"
AwaitingVerification == "awaiting_verification"
UnderVerification    == "under_verification"
Returned             == "returned"
Completed            == "completed"
Rejected             == "rejected"
Canceled             == "canceled"

TicketStatus == { Pending, InProgress, AwaitingVerification, UnderVerification,
                  Returned, Completed, Rejected, Canceled }

TerminalStatus == { Completed, Rejected, Canceled }

-----------------------------------------------------------------------------
(* The history.  Each handler appends at most one ticket_update row; here  *)
(* the rows are folded into what they tell a reader.                       *)

Trail == [ holder : Users,           \* whose turn it is, following from -> to
           status : TicketStatus ]   \* toStatus of the last row

\* The trail after a row that says the ticket went from user "from" to user
\* "to" and is now in "status"; NoUser is NULL.
Replay(trail, from, to, status) ==
    [trail EXCEPT !.holder = IF from = @ THEN to ELSE @, !.status = status]

Row == [ status    : TicketStatus,
         targets   : Seq(Users),
         current   : Users,
         reviewer  : Users \cup {NoUser},
         requester : Users,
         isPrivate : BOOLEAN,
         reason    : BOOLEAN,
         trail     : Trail,
         worked    : SUBSET Users ]

IsOpen(r)   == r.status \notin TerminalStatus
Assigned(r) == Range(r.targets)

\* targetUsers.find(tu => tu.userId === u): the first row of the user.
PositionOf(targets, u) ==
    CHOOSE i \in 1..Len(targets) :
        targets[i] = u /\ \A j \in 1..(i - 1) : targets[j] # u

\* findById, the first call of the handlers: 404 or 403 without access.
CheckTicketAccess(u, r) ==
    \/ u \in Admins \cup Assigned(r) \cup {r.requester, r.current, r.reviewer}
    \/ ~r.isPrivate /\ \E v \in Assigned(r) : DeptOf[v] = DeptOf[u]

\* The statuses in which someone who is no admin may change the assignees.
AssignmentOpen(u, r) ==
    /\ IsOpen(r)
    /\ u \in Admins \/ r.status \in {Pending, InProgress}
-----------------------------------------------------------------------------
(* create.                                                                 *)

\* The reviewers create may store when the DTO names none: an arbitrary
\* active supervisor of the department when the requester is an assignee.
DefaultReviewer(requester, targets, active) ==
    LET inDept == { s \in Supervisors \cap active : DeptOf[s] = DeptOf[requester] }
    IN  IF requester \notin Range(targets) THEN {requester}
        ELSE IF requester \in Supervisors \/ inDept = {} THEN {NoUser}
        ELSE inDept

CanCreate(requester, targets, isPrivate) ==
    /\ Len(targets) \in 1..3
    /\ IsInjective(targets)
    /\ isPrivate => requester \notin Range(targets)

Created(requester, targets, reviewer, isPrivate) ==
    [ status    |-> Pending,
      targets   |-> targets,
      current   |-> targets[1],
      reviewer  |-> reviewer,
      requester |-> requester,
      isPrivate |-> isPrivate,
      reason    |-> FALSE,
      trail     |-> [holder |-> targets[1], status |-> Pending],
      worked    |-> {} ]

-----------------------------------------------------------------------------
(* updateTicket and addFiles: of what the model keeps, only isPrivate.     *)

CanUpdateTicket(u, r) ==
    /\ CheckTicketAccess(u, r)
    /\ u \in {r.requester, r.current}

UpdatedTicket(u, r, isPrivate) ==
    [r EXCEPT !.isPrivate = isPrivate, !.trail = Replay(@, u, u, r.status)]

FilesAdded(r) ==
    [r EXCEPT !.trail = Replay(@, r.current, r.current, r.status)]

-----------------------------------------------------------------------------
(* The status handlers.                                                    *)

\* Mutant: the row of a submission for verification is not saved.
StatusIsLogged_NotOnSubmit(r, status) ==
    \/ status = InProgress /\ r.status \in {AwaitingVerification, Returned}
    \/ status = UnderVerification /\ r.status = AwaitingVerification
                                  /\ r.reviewer # NoUser

\* updateStatus saves a history row for four of the moves only.  Starting a
\* verification without a reviewer throws (ticket.reviewer.id) once the
\* status is written, because the transaction callback ignores its manager.
StatusIsLogged(r, status) ==
    \/ status = AwaitingVerification
    \/ status = InProgress /\ r.status \in {AwaitingVerification, Returned}
    \/ status = UnderVerification /\ r.status = AwaitingVerification
                                  /\ r.reviewer # NoUser

StatusUpdated(r, status) ==
    [r EXCEPT !.status = status,
              !.trail  = IF StatusIsLogged(r, status)
                         THEN Replay(@, r.current, r.current, status) ELSE @,
              !.worked = IF StatusIsLogged(r, status) /\ status = InProgress
                         THEN @ \cup {r.current} ELSE @]

CanAccept(u, r) == CheckTicketAccess(u, r) /\ u = r.current

Accepted(r) ==
    [r EXCEPT !.status = InProgress,
              !.trail  = Replay(@, r.current, r.current, InProgress),
              !.worked = @ \cup {r.current}]

\* approve and reject write the status, then read reviewer.id for the row:
\* without a reviewer they throw in between.
Judged(r, verdict) ==
    [r EXCEPT !.status = verdict,
              !.trail  = IF r.reviewer # NoUser
                         THEN Replay(@, r.current, r.current, verdict) ELSE @]

CanCancel(u, r) == CheckTicketAccess(u, r) /\ u = r.requester

\* A second cancel writes status and row again and then fails on the unique
\* index of ticket_cancellation_reason: the reason is there either way.
Cancelled(r) ==
    [r EXCEPT !.status = Canceled,
              !.reason = TRUE,
              !.trail  = Replay(@, r.current, r.current, Canceled)]

\* The foreign key of ticket_cancellation_reason restricts the delete.
CanDelete(r) == ~r.reason

CanRequestCorrection(u, r, target) ==
    /\ CheckTicketAccess(u, r)
    /\ r.status = UnderVerification
    /\ target # NoUser /\ Len(r.targets) > 1 => target \in Assigned(r)

\* Mutant: the chosen user is taken even when the ticket has one assignee.
CorrectionTarget_Unchecked(r, target) ==
    IF target # NoUser THEN target ELSE r.current

\* Mutant: no fallback to the current assignee.
CorrectionTarget_NoFallback(r, target) == target

CorrectionTarget(r, target) ==
    IF target # NoUser /\ Len(r.targets) > 1 THEN target ELSE r.current

\* Mutant: the history row names the assignee of before the correction.
CorrectionRequested_OldTarget(r, target) ==
    [r EXCEPT !.status  = Returned,
              !.current = CorrectionTarget(r, target),
              !.trail   = Replay(@, r.current, r.current, Returned)]

CorrectionRequested(r, target) ==
    LET to == CorrectionTarget(r, target)
    IN  [r EXCEPT !.status  = Returned,
                  !.current = to,
                  !.trail   = Replay(@, r.current, to, Returned)]

-----------------------------------------------------------------------------
(* The assignment handlers.                                                *)

CanUpdateAssignee(u, r, new, order, active) ==
    /\ CheckTicketAccess(u, r)
    /\ AssignmentOpen(u, r)
    /\ new \in active
    /\ order \in 1..Len(r.targets)

\* The user may be on the list already: only create and addAssignee look.
AssigneeUpdated(r, new, order) ==
    LET old == r.targets[order]
    IN  [r EXCEPT !.targets = ReplaceAt(@, order, new),
                  !.status  = Pending,
                  !.current = IF @ = old THEN new ELSE @,
                  !.trail   = Replay(@, old, new, Pending),
                  !.worked  = @ \ {old}]

\* Mutant: no assertTicketOpenForAssignment.
CanAddAssignee_Closed(u, r, new, order, active) ==
    /\ CheckTicketAccess(u, r)
    /\ new \in active \ Assigned(r)
    /\ order \in 1..(Len(r.targets) + 1)

\* order Len + 1 is also what a request without an order gets.
CanAddAssignee(u, r, new, order, active) ==
    /\ CheckTicketAccess(u, r)
    /\ IsOpen(r)
    /\ new \in active \ Assigned(r)
    /\ order \in 1..(Len(r.targets) + 1)

\* Where two rows or more move up, the unique index on their order, which is
\* checked row by row, may refuse the insertion: nothing is written then.
AssigneeAdded(r, new, order) ==
    [r EXCEPT !.targets = InsertAt(@, order, new),
              !.trail   = Replay(@, NoUser, new, r.status)]

\* Someone who is no admin may not remove a user placed before the current
\* one: 'Cannot remove target user who has already worked on the task'.
CanRemoveAssignee(u, r, gone) ==
    /\ CheckTicketAccess(u, r)
    /\ u \in Admins \cup {r.requester}
    /\ AssignmentOpen(u, r)
    /\ Len(r.targets) >= 2
    /\ gone \in Assigned(r)
    /\ r.current \in Assigned(r)
    /\ \/ u \in Admins
       \/ PositionOf(r.targets, gone) >= PositionOf(r.targets, r.current)

AssigneeRemoved(r, gone) ==
    LET at    == PositionOf(r.targets, gone)
        rest  == RemoveAt(r.targets, at)
        rows  == [r EXCEPT !.targets = rest, !.worked = @ \ {gone}]
        HandOver(to, status) ==
            [rows EXCEPT !.current = to,
                         !.status  = status,
                         !.trail   = Replay(@, gone, to, status)]
    IN  IF gone # r.current
        THEN [rows EXCEPT !.trail = Replay(@, gone, NoUser, r.status)]
        ELSE IF at = Len(r.targets)
        THEN HandOver(rest[Len(rest)], AwaitingVerification)
        ELSE HandOver(r.targets[at + 1], Pending)

\* Any status passes, terminal ones included.
CanSendToNext(u, r) ==
    /\ CheckTicketAccess(u, r)
    /\ u = r.current
    /\ r.current \in Assigned(r)
    /\ PositionOf(r.targets, r.current) < Len(r.targets)

SentToNext(r) ==
    LET next == r.targets[PositionOf(r.targets, r.current) + 1]
    IN  [r EXCEPT !.current = next,
                  !.status  = Pending,
                  !.trail   = Replay(@, r.current, next, Pending)]

CanUpdateReviewer(u, r, new, active) ==
    /\ CheckTicketAccess(u, r)
    /\ IsOpen(r)
    /\ new \in active

ReviewerUpdated(r, new) ==
    [r EXCEPT !.reviewer = new,
              !.trail    = Replay(@, r.current, r.current, r.status)]
=============================================================================

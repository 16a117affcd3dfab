------------------------ MODULE UserDeactivationProofs ------------------------
(***************************************************************************)
(* Deactivations with nothing else going on leave nobody's open tickets    *)
(* behind, for every tenant and every set of tickets it holds that name    *)
(* nobody twice.                                                           *)
(***************************************************************************)
EXTENDS UserDeactivation, TicketWorkflowProofs

\* A ticket that satisfies the row invariant and names nobody twice.
SoundRow(r) == RowInv(r) /\ IsInjective(r.targets)

Job == [ phase       : Working \cup {"idle", "done", "failed"},
         actor       : Users \cup {NoUser},
         user        : Users \cup {NoUser},
         newTarget   : Users \cup {NoUser},
         newReviewer : Users \cup {NoUser},
         todo        : SUBSET Tickets,
         call        : [ticket : Tickets \cup {NoTicket}, order : Nat] ]

Sound == /\ tickets \in [Tickets -> Row \cup {NoTicket}]
         /\ active \subseteq Users
         /\ \A t \in Stored : SoundRow(tickets[t])
         /\ job \in Job

\* What a running job may count on: the reviewer it hands over to is not
\* the leaving user, and the loops still have before them every ticket that
\* user holds.
LoopsCover ==
    /\ job.phase \in Working => job.user \in Users /\ job.newReviewer # job.user
    /\ job.phase = "assignees" => OpenTargetOf(job.user) \subseteq job.todo
    /\ job.phase = "reviews" => /\ OpenTargetOf(job.user) = {}
                                /\ OpenReviewOf(job.user) \subseteq job.todo

\* The order the job has looked up is still where the user stands, and the
\* new user is on the list exactly when the user is to be removed.
CallIsFresh ==
    job.call # NoCall =>
        /\ job.phase = "assignees"
        /\ job.call.ticket \in Stored
        /\ job.user \in Assigned(tickets[job.call.ticket])
        /\ job.call.order = HandOverOrder(tickets[job.call.ticket])

\* The inductive invariant.
AloneInv == Sound /\ InactiveHoldNothing /\ LoopsCover /\ CallIsFresh

-----------------------------------------------------------------------------
(* Lists that name nobody twice.                                           *)

\* Replacing somebody by a user who is not on the list.
LEMMA ReplacedDistinct ==
    ASSUME NEW s \in Seq(Users), IsInjective(s), NEW i \in 1..Len(s),
           NEW new \in Users \ Range(s)
    PROVE  /\ IsInjective(ReplaceAt(s, i, new))
           /\ Range(ReplaceAt(s, i, new)) = (Range(s) \ {s[i]}) \cup {new}
<1> DEFINE s2 == ReplaceAt(s, i, new)
<1>1. Len(s) \in Nat /\ DOMAIN s = 1..Len(s)
  BY LenProperties
<1>2. DOMAIN s2 = DOMAIN s /\ \A j \in DOMAIN s : s2[j] = IF j = i THEN new ELSE s[j]
  BY <1>1, ExceptSeq, LenProperties DEF ReplaceAt
<1> HIDE DEF s2
<1>3. IsInjective(s2)
  BY <1>1, <1>2 DEF IsInjective, Range
<1>4. Range(s2) = (Range(s) \ {s[i]}) \cup {new}
  BY <1>1, <1>2 DEF IsInjective, Range
<1> QED BY <1>3, <1>4 DEF s2

\* Removing one place of the list removes the user.
LEMMA RemovedDistinct ==
    ASSUME NEW s \in Seq(Users), IsInjective(s), NEW i \in 1..Len(s)
    PROVE  /\ IsInjective(RemoveAt(s, i))
           /\ Range(RemoveAt(s, i)) = Range(s) \ {s[i]}
<1> DEFINE s2 == RemoveAt(s, i)
<1>1. Len(s) \in Nat /\ DOMAIN s = 1..Len(s)
  BY LenProperties
<1>2. /\ DOMAIN s2 = 1..(Len(s) - 1)
      /\ \A k \in 1..Len(s) : k # i => s[k] \in Range(s2)
      /\ \A k \in 1..(Len(s) - 1) : s2[k] = IF k < i THEN s[k] ELSE s[k + 1]
  BY <1>1, RemoveKeeps, LenProperties
<1> HIDE DEF s2
<1>3. ASSUME NEW k \in 1..(Len(s) - 1)
      PROVE  \E j \in 1..Len(s) : j # i /\ s2[k] = s[j] /\ j = IF k < i THEN k ELSE k + 1
  <2>1. CASE k < i
    BY <2>1, <1>1, <1>2
  <2>2. CASE ~ (k < i)
    <3>1. k + 1 \in 1..Len(s) /\ k + 1 # i
      BY <2>2, <1>1
    <3> QED BY <3>1, <2>2, <1>2
  <2> QED BY <2>1, <2>2
<1>4. IsInjective(s2)
  <2>1. ASSUME NEW k \in 1..(Len(s) - 1), NEW l \in 1..(Len(s) - 1), s2[k] = s2[l]
        PROVE  k = l
    <3>1. PICK j \in 1..Len(s) : s2[k] = s[j] /\ j = IF k < i THEN k ELSE k + 1
      BY <1>3
    <3>2. PICK m \in 1..Len(s) : s2[l] = s[m] /\ m = IF l < i THEN l ELSE l + 1
      BY <1>3
    <3>3. j = m
      BY <3>1, <3>2, <2>1, <1>1 DEF IsInjective
    <3> QED BY <3>1, <3>2, <3>3, <1>1
  <2> QED BY <2>1, <1>2 DEF IsInjective
<1>5. Range(s2) \subseteq Range(s) \ {s[i]}
  <2>1. ASSUME NEW k \in 1..(Len(s) - 1) PROVE s2[k] \in Range(s) /\ s2[k] # s[i]
    <3>1. PICK j \in 1..Len(s) : j # i /\ s2[k] = s[j]
      BY <1>3
    <3> QED BY <3>1, <1>1 DEF IsInjective, Range
  <2> QED BY <2>1, <1>2 DEF Range
<1>6. Range(s) \ {s[i]} \subseteq Range(s2)
  BY <1>1, <1>2 DEF Range
<1> QED BY <1>4, <1>5, <1>6 DEF s2

-----------------------------------------------------------------------------

\* What a hand-over that is not refused leaves of the ticket: the leaving
\* user is off its list, everyone else stays, and only an active user joins.
LEMMA HandOverEffect ==
    ASSUME Sound, LoopsCover, CallIsFresh, job.call # NoCall,
           CanHandOver(tickets[job.call.ticket])
    PROVE  LET row == tickets[job.call.ticket]
               new == HandedOver(row)
           IN  /\ SoundRow(new)
               /\ IsOpen(row)
               /\ new.reviewer = row.reviewer
               /\ job.user \notin Assigned(new)
               /\ Assigned(row) \ {job.user} \subseteq Assigned(new)
               /\ Assigned(new) \subseteq Assigned(row) \cup active
<1> DEFINE row == tickets[job.call.ticket]
           s   == row.targets
           at  == PositionOf(s, job.user)
<1>1. /\ SoundRow(row) /\ job.user \in Assigned(row) /\ job.user \in Users
      /\ job.call.order = HandOverOrder(row)
  BY DEF CallIsFresh, Sound, LoopsCover, Working
<1>2. /\ s \in Seq(Users) /\ IsInjective(s) /\ Assigned(row) = Range(s) /\ row \in Row
      /\ active \subseteq Users
  BY <1>1 DEF SoundRow, RowInv, Row, Assigned, Sound
<1>3. at \in 1..Len(s) /\ s[at] = job.user
  <2> HIDE DEF s
  <2> QED BY <1>1, <1>2, PositionFound
<1>4. CASE job.call.order = 0
  <2>1. CanRemoveAssignee(job.actor, row, job.user) /\ HandedOver(row) = AssigneeRemoved(row, job.user)
    BY <1>4 DEF CanHandOver, HandedOver
  <2>2. RowInv(HandedOver(row))
    BY <2>1, <1>1, AssigneeRemovedInv DEF SoundRow
  <2>3. HandedOver(row).targets = RemoveAt(s, at) /\ HandedOver(row).reviewer = row.reviewer
    BY <2>1, <1>2 DEF AssigneeRemoved, Row
  <2>4. IsInjective(RemoveAt(s, at)) /\ Range(RemoveAt(s, at)) = Range(s) \ {job.user}
    <3> HIDE DEF s, at
    <3> QED BY <1>2, <1>3, RemovedDistinct
  <2>5. IsOpen(row)
    BY <2>1 DEF CanRemoveAssignee, AssignmentOpen
  <2> HIDE DEF s, at, row
  <2>6. SoundRow(HandedOver(row)) /\ Assigned(HandedOver(row)) = Range(s) \ {job.user}
    BY <2>2, <2>3, <2>4 DEF SoundRow, Assigned
  <2> QED BY <2>3, <2>5, <2>6, <1>2 DEF row
<1>5. CASE job.call.order # 0
  <2>1. job.call.order = at /\ job.newTarget \notin Assigned(row)
    BY <1>1, <1>5 DEF HandOverOrder
  <2>2. /\ CanUpdateAssignee(job.actor, row, job.newTarget, at, active)
        /\ HandedOver(row) = AssigneeUpdated(row, job.newTarget, at)
    BY <2>1, <1>5 DEF CanHandOver, HandedOver
  <2>3. job.newTarget \in active /\ job.newTarget \in Users /\ IsOpen(row)
    BY <2>2, <1>2 DEF CanUpdateAssignee, AssignmentOpen
  <2>4. RowInv(HandedOver(row))
    <3> HIDE DEF at
    <3> QED BY <2>2, <2>3, <1>1, <1>3, AssigneeUpdatedInv DEF SoundRow
  <2>5. /\ HandedOver(row).targets = ReplaceAt(s, at, job.newTarget)
        /\ HandedOver(row).reviewer = row.reviewer
    <3> HIDE DEF at
    <3> QED BY <2>2, <1>2 DEF AssigneeUpdated, Row
  <2>6. /\ IsInjective(ReplaceAt(s, at, job.newTarget))
        /\ Range(ReplaceAt(s, at, job.newTarget)) = (Range(s) \ {job.user}) \cup {job.newTarget}
    <3> HIDE DEF s, at
    <3> QED BY <1>2, <1>3, <2>1, <2>3, ReplacedDistinct
  <2> HIDE DEF s, at, row
  <2>7. /\ SoundRow(HandedOver(row))
        /\ Assigned(HandedOver(row)) = (Range(s) \ {job.user}) \cup {job.newTarget}
    BY <2>4, <2>5, <2>6 DEF SoundRow, Assigned
  <2> QED BY <2>1, <2>3, <2>5, <2>7, <1>1, <1>2 DEF row
<1> QED BY <1>4, <1>5

\* The job only reads: the tickets and the users stay as they are.
LEMMA ReadOnlyStep ==
    ASSUME AloneInv, UNCHANGED <<tickets, active>>
    PROVE  /\ tickets' \in [Tickets -> Row \cup {NoTicket}] /\ active' \subseteq Users
           /\ \A t \in Stored' : SoundRow(tickets'[t])
           /\ InactiveHoldNothing'
           /\ \A u : OpenTargetOf(u)' = OpenTargetOf(u) /\ OpenReviewOf(u)' = OpenReviewOf(u)
BY DEF AloneInv, Sound, InactiveHoldNothing, Stored, OpenTargetOf, OpenReviewOf

\* A job that failed has nothing left to count on.
LEMMA FailStep ==
    ASSUME job \in Job, Fail
    PROVE  /\ job' \in Job /\ LoopsCover' /\ CallIsFresh'
           /\ job'.phase = "failed" /\ job'.call = NoCall
<1>1. /\ job' = [job EXCEPT !.phase = "failed", !.todo = {}, !.call = NoCall]
      /\ job' \in Job /\ job'.phase = "failed" /\ job'.call = NoCall
  BY DEF Fail, Job, NoCall
<1> QED
  BY <1>1 DEF LoopsCover, CallIsFresh, Working

\* A request that passes the validation.
LEMMA StartStep == AloneInv /\ StartAny => AloneInv'
<1> SUFFICES ASSUME AloneInv,
                    NEW actor \in Users, NEW u \in Users,
                    NEW newTarget \in Users \cup {NoUser},
                    NEW newReviewer \in Users \cup {NoUser},
                    Start(actor, u, newTarget, newReviewer)
             PROVE  AloneInv'
  BY DEF StartAny
<1>1. UNCHANGED <<tickets, active>>
  BY DEF Start
<1>2. newReviewer # u
  BY UsersAssumption DEF Start, ReviewerOptions, DepartmentSupervisors
<1> DEFINE phase == IF OpenTargetOf(u) \cup OpenReviewOf(u) # {} THEN "counted" ELSE "reviews"
<1>3. job' = [ phase |-> phase, actor |-> actor, user |-> u, newTarget |-> newTarget,
               newReviewer |-> newReviewer, todo |-> {}, call |-> NoCall ]
  BY DEF Start
<1>4. phase = "reviews" => OpenTargetOf(u) = {} /\ OpenReviewOf(u) = {}
  OBVIOUS
<1>5. phase \in {"counted", "reviews"}
  OBVIOUS
<1> HIDE DEF phase
<1>6. /\ job' \in Job /\ job'.phase = phase /\ job'.user = u
      /\ job'.newReviewer = newReviewer /\ job'.call = NoCall
  BY <1>3, <1>5 DEF Job, NoCall, Working
<1>7. LoopsCover'
  BY <1>1, <1>2, <1>4, <1>5, <1>6, ReadOnlyStep DEF LoopsCover, Working
<1>8. CallIsFresh'
  BY <1>6 DEF CallIsFresh, NoCall
<1> QED
  BY <1>1, <1>6, <1>7, <1>8, ReadOnlyStep DEF AloneInv, Sound

\* The two listings: what they list is what the user holds now.
LEMMA ListStep == AloneInv /\ (ListTargetTickets \/ ListReviewTickets) => AloneInv'
<1> SUFFICES ASSUME AloneInv, ListTargetTickets \/ ListReviewTickets PROVE AloneInv'
  OBVIOUS
<1>1. UNCHANGED <<tickets, active>> /\ job \in Job
  BY DEF ListTargetTickets, ListReviewTickets, AloneInv, Sound
<1>2. OpenTargetOf(job.user) \subseteq Tickets /\ OpenReviewOf(job.user) \subseteq Tickets
  BY DEF OpenTargetOf, OpenReviewOf, Stored
<1>3. job.call = NoCall
  BY DEF ListTargetTickets, ListReviewTickets, AloneInv, CallIsFresh
<1>4. CASE ListTargetTickets
  <2>1. /\ job' \in Job /\ job'.phase = "assignees" /\ job'.todo = OpenTargetOf(job.user)
        /\ job'.user = job.user /\ job'.newReviewer = job.newReviewer /\ job'.call = NoCall
    BY <1>1, <1>2, <1>3, <1>4 DEF ListTargetTickets, Job, Working
  <2>2. job.phase \in Working
    BY <1>4 DEF ListTargetTickets, Working
  <2>3. LoopsCover' /\ CallIsFresh'
    BY <1>1, <2>1, <2>2, ReadOnlyStep DEF AloneInv, LoopsCover, CallIsFresh, NoCall
  <2> QED BY <1>1, <2>1, <2>3, ReadOnlyStep DEF AloneInv, Sound
<1>5. CASE ListReviewTickets
  <2>1. /\ job' \in Job /\ job'.phase = "reviews" /\ job'.todo = OpenReviewOf(job.user)
        /\ job'.user = job.user /\ job'.newReviewer = job.newReviewer /\ job'.call = NoCall
    BY <1>1, <1>2, <1>3, <1>5 DEF ListReviewTickets, Job, Working
  <2>2. job.phase \in Working /\ OpenTargetOf(job.user) = {}
    BY <1>5 DEF ListReviewTickets, Working, AloneInv, LoopsCover
  <2>3. LoopsCover' /\ CallIsFresh'
    BY <1>1, <2>1, <2>2, ReadOnlyStep DEF AloneInv, LoopsCover, CallIsFresh, NoCall
  <2> QED BY <1>1, <2>1, <2>3, ReadOnlyStep DEF AloneInv, Sound
<1> QED BY <1>4, <1>5

\* Looking at a list: a ticket is skipped only if the user is not on it.
LEMMA LookStep ==
    ASSUME AloneInv, NEW t \in Tickets, LookAtTargets(t)
    PROVE  AloneInv'
<1>1. UNCHANGED <<tickets, active>> /\ job \in Job
  BY DEF LookAtTargets, AloneInv, Sound
<1>2. job.phase = "assignees" /\ job.phase \in Working /\ t \in job.todo
  BY DEF LookAtTargets, Working
<1>3. CASE Fail
  BY <1>1, <1>3, ReadOnlyStep, FailStep DEF AloneInv, Sound
<1>4. CASE /\ t \in Stored /\ job.user \in Assigned(tickets[t])
           /\ job' = [job EXCEPT !.call = [ticket |-> t, order |-> HandOverOrder(tickets[t])]]
  <2>1. HandOverOrder(tickets[t]) \in Nat
    <3>1. tickets[t].targets \in Seq(Users)
      BY <1>4 DEF AloneInv, Sound, SoundRow, RowInv, Row
    <3>2. PositionOf(tickets[t].targets, job.user) \in 1..Len(tickets[t].targets)
      BY <3>1, <1>4, PositionFound DEF Assigned
    <3> QED BY <3>1, <3>2, LenProperties DEF HandOverOrder
  <2>2. /\ job' \in Job /\ job'.call = [ticket |-> t, order |-> HandOverOrder(tickets[t])]
        /\ job'.phase = job.phase /\ job'.user = job.user /\ job'.todo = job.todo
        /\ job'.newReviewer = job.newReviewer /\ job'.newTarget = job.newTarget
    BY <2>1, <1>1, <1>4 DEF Job
  <2>3. LoopsCover'
    BY <2>2, <1>1, <1>2, ReadOnlyStep DEF AloneInv, LoopsCover
  <2>4. HandOverOrder(tickets[t])' = HandOverOrder(tickets[t])
    BY <1>1, <2>2 DEF HandOverOrder
  <2>5. job'.call.ticket = t /\ job'.call.order = HandOverOrder(tickets[t])
    BY <2>2
  <2>6. CallIsFresh'
    BY <1>1, <1>2, <1>4, <2>2, <2>4, <2>5 DEF CallIsFresh, HandOverOrder, Stored
  <2> QED BY <1>1, <2>2, <2>3, <2>6, ReadOnlyStep DEF AloneInv, Sound
<1>5. CASE /\ ~ (t \in Stored /\ job.user \in Assigned(tickets[t]))
           /\ job' = [job EXCEPT !.todo = Remaining(t)]
  <2>1. /\ job' \in Job /\ job'.call = job.call /\ job'.todo = job.todo \ {t}
        /\ job'.phase = job.phase /\ job'.user = job.user /\ job'.newReviewer = job.newReviewer
    BY <1>1, <1>5 DEF Job, Remaining
  <2>2. t \notin OpenTargetOf(job.user) /\ job.call = NoCall
    BY <1>5 DEF OpenTargetOf, LookAtTargets
  <2>3. LoopsCover'
    BY <1>1, <1>2, <2>1, <2>2, ReadOnlyStep DEF AloneInv, LoopsCover
  <2>4. CallIsFresh'
    BY <2>1, <2>2 DEF CallIsFresh, NoCall
  <2> QED BY <1>1, <2>1, <2>3, <2>4, ReadOnlyStep DEF AloneInv, Sound
<1> QED
  BY <1>3, <1>4, <1>5 DEF LookAtTargets

\* A write that hands ticket t over: the rest of the tenant is as it was.
LEMMA WriteStep ==
    ASSUME AloneInv, NEW t \in Stored, NEW row, SoundRow(row), Write(t, row),
           IsOpen(tickets[t]),
           Assigned(row) \subseteq Assigned(tickets[t]) \cup active,
           row.reviewer \in {tickets[t].reviewer} \cup active
    PROVE  /\ tickets' \in [Tickets -> Row \cup {NoTicket}] /\ active' \subseteq Users
           /\ \A q \in Stored' : SoundRow(tickets'[q])
           /\ InactiveHoldNothing'
           /\ tickets'[t] = row /\ active' = active /\ Stored' = Stored
           /\ \A q \in Tickets : q # t => tickets'[q] = tickets[q]
<1>1. t \in Tickets /\ row \in Row /\ row.current \in Assigned(row) /\ row # NoTicket
  BY WorkflowAssumption DEF Stored, SoundRow, RowInv
<1>2. /\ tickets' = [tickets EXCEPT ![t] = row] /\ active' = active
      /\ tickets \in [Tickets -> Row \cup {NoTicket}] /\ active \subseteq Users
      /\ \A q \in Stored : SoundRow(tickets[q])
  BY DEF Write, AloneInv, Sound
<1>3. /\ tickets' \in [Tickets -> Row \cup {NoTicket}] /\ tickets'[t] = row
      /\ \A q \in Tickets : q # t => tickets'[q] = tickets[q]
  BY <1>1, <1>2
<1>4. Stored' = Stored
  BY <1>1, <1>3 DEF Stored
<1>5. \A q \in Stored' : SoundRow(tickets'[q])
  BY <1>2, <1>3, <1>4 DEF Stored
<1>6. InactiveHoldNothing'
  <2>1. ASSUME NEW u \in Users \ active, NEW q \in Stored, IsOpen(tickets'[q])
        PROVE  u \notin Assigned(tickets'[q]) \cup {tickets'[q].current, tickets'[q].reviewer}
    <3>1. CASE q # t
      BY <3>1, <2>1, <1>3 DEF AloneInv, InactiveHoldNothing, Stored
    <3>2. CASE q = t
      <4>1. u \notin Assigned(tickets[t]) /\ u # tickets[t].reviewer
        BY <2>1 DEF AloneInv, InactiveHoldNothing
      <4> QED BY <4>1, <3>2, <2>1, <1>1, <1>3
    <3> QED BY <3>1, <3>2
  <2> QED BY <2>1, <1>2, <1>4 DEF InactiveHoldNothing
<1> QED
  BY <1>2, <1>3, <1>4, <1>5, <1>6

\* The hand-over of a place: the loop has one ticket less before it.
LEMMA HandOverStep ==
    ASSUME AloneInv, NEW t \in Tickets, HandOver(t)
    PROVE  AloneInv'
<1> DEFINE row == HandedOver(tickets[t])
<1>1. /\ t = job.call.ticket /\ t \in Stored /\ CanHandOver(tickets[t]) /\ job.call # NoCall
      /\ Write(t, row) /\ job \in Job
  BY DEF HandOver, AloneInv, Sound
<1>2. /\ SoundRow(row) /\ IsOpen(tickets[t]) /\ row.reviewer = tickets[t].reviewer
      /\ job.user \notin Assigned(row) /\ Assigned(row) \subseteq Assigned(tickets[t]) \cup active
  BY <1>1, HandOverEffect DEF AloneInv
<1> HIDE DEF row
<1>3. /\ tickets' \in [Tickets -> Row \cup {NoTicket}] /\ active' \subseteq Users
      /\ \A q \in Stored' : SoundRow(tickets'[q])
      /\ InactiveHoldNothing'
      /\ tickets'[t] = row /\ active' = active /\ Stored' = Stored
      /\ \A q \in Tickets : q # t => tickets'[q] = tickets[q]
  BY <1>1, <1>2, WriteStep
<1>4. CASE Fail
  BY <1>1, <1>3, <1>4, FailStep DEF AloneInv, Sound
<1>5. CASE job' = [job EXCEPT !.todo = Remaining(t), !.call = NoCall]
  <2>1. /\ job' \in Job /\ job'.call = NoCall /\ job'.todo = job.todo \ {t}
        /\ job'.phase = job.phase /\ job'.user = job.user /\ job'.newReviewer = job.newReviewer
    BY <1>1, <1>5 DEF Job, Remaining, NoCall
  <2>2. job.phase = "assignees"
    BY <1>1 DEF AloneInv, CallIsFresh
  <2>3. OpenTargetOf(job.user)' \subseteq OpenTargetOf(job.user) \ {t}
    BY <1>2, <1>3, <2>1 DEF OpenTargetOf, Stored
  <2>4. LoopsCover'
    BY <2>1, <2>2, <2>3 DEF AloneInv, LoopsCover, Working
  <2>5. CallIsFresh'
    BY <2>1 DEF CallIsFresh, NoCall
  <2> QED BY <1>3, <2>1, <2>4, <2>5 DEF AloneInv, Sound
<1> QED
  BY <1>4, <1>5 DEF HandOver

\* The hand-over of a review.
LEMMA HandOverReviewStep ==
    ASSUME AloneInv, NEW t \in Tickets, HandOverReview(t)
    PROVE  AloneInv'
<1>1. /\ job.phase = "reviews" /\ job.phase \in Working /\ t \in job.todo /\ job \in Job
      /\ job.call = NoCall
  BY DEF HandOverReview, Working, AloneInv, Sound, CallIsFresh
<1>2. CASE Fail /\ UNCHANGED <<tickets, active>>
  BY <1>1, <1>2, ReadOnlyStep, FailStep DEF AloneInv, Sound
<1>3. CASE /\ job.newReviewer # NoUser /\ t \in Stored
           /\ CanUpdateReviewer(job.actor, tickets[t], job.newReviewer, active)
           /\ Write(t, ReviewerUpdated(tickets[t], job.newReviewer))
           /\ job' = [job EXCEPT !.todo = Remaining(t)]
  <2> DEFINE row == ReviewerUpdated(tickets[t], job.newReviewer)
  <2>1. /\ IsOpen(tickets[t]) /\ job.newReviewer \in active /\ job.newReviewer \in Users
        /\ SoundRow(tickets[t]) /\ tickets[t] \in Row
    BY <1>3 DEF CanUpdateReviewer, AloneInv, Sound, SoundRow, RowInv
  <2>2. row.reviewer = job.newReviewer /\ row.targets = tickets[t].targets
    BY <2>1 DEF ReviewerUpdated, Row
  <2>3. RowInv(row)
    BY <2>1, SimpleHandlersInv DEF SoundRow
  <2> HIDE DEF row
  <2>4. SoundRow(row) /\ Assigned(row) = Assigned(tickets[t])
    BY <2>1, <2>2, <2>3 DEF SoundRow, Assigned
  <2>5. /\ tickets' \in [Tickets -> Row \cup {NoTicket}] /\ active' \subseteq Users
        /\ \A q \in Stored' : SoundRow(tickets'[q])
        /\ InactiveHoldNothing'
        /\ tickets'[t] = row /\ active' = active /\ Stored' = Stored
        /\ \A q \in Tickets : q # t => tickets'[q] = tickets[q]
    <3>1. Write(t, row)
      BY <1>3 DEF row
    <3> QED BY <3>1, <1>3, <2>1, <2>2, <2>4, WriteStep
  <2>6. /\ job' \in Job /\ job'.call = NoCall /\ job'.todo = job.todo \ {t}
        /\ job'.phase = "reviews" /\ job'.user = job.user /\ job'.newReviewer = job.newReviewer
    BY <1>1, <1>3 DEF Job, Remaining
  <2>7. /\ job.newReviewer # job.user /\ OpenTargetOf(job.user) = {} /\ job.user \in Users
        /\ OpenReviewOf(job.user) \subseteq job.todo
    BY <1>1 DEF AloneInv, LoopsCover
  <2>8. OpenTargetOf(job.user)' = {}
    BY <1>3, <2>1, <2>4, <2>5, <2>6, <2>7 DEF OpenTargetOf, Stored
  <2>9. OpenReviewOf(job.user)' \subseteq OpenReviewOf(job.user) \ {t}
    BY <2>2, <2>5, <2>6, <2>7 DEF OpenReviewOf, Stored
  <2>10. LoopsCover'
    BY <2>6, <2>7, <2>8, <2>9 DEF LoopsCover
  <2>11. CallIsFresh'
    BY <2>6 DEF CallIsFresh, NoCall
  <2> QED BY <2>5, <2>6, <2>10, <2>11 DEF AloneInv, Sound
<1> QED
  BY <1>2, <1>3 DEF HandOverReview

\* By the time the account is switched off, the user holds nothing.
LEMMA DeactivateStep == AloneInv /\ Deactivate => AloneInv'
<1> SUFFICES ASSUME AloneInv, Deactivate PROVE AloneInv'
  OBVIOUS
<1>1. /\ job.phase = "reviews" /\ job.todo = {} /\ job \in Job /\ UNCHANGED tickets
      /\ job.call = NoCall
  BY DEF Deactivate, AloneInv, Sound, CallIsFresh
<1>2. CASE Fail /\ UNCHANGED active
  BY <1>1, <1>2, ReadOnlyStep, FailStep DEF AloneInv, Sound
<1>3. CASE active' = active \ {job.user} /\ job' = [job EXCEPT !.phase = "done"]
  <2>1. job' \in Job /\ job'.phase = "done" /\ job'.call = NoCall
    BY <1>1, <1>3 DEF Job
  <2>2. OpenTargetOf(job.user) = {} /\ OpenReviewOf(job.user) = {}
    BY <1>1 DEF AloneInv, LoopsCover
  <2>3. \A t \in Stored : tickets[t].current \in Assigned(tickets[t])
    BY DEF AloneInv, Sound, SoundRow, RowInv
  <2>4. InactiveHoldNothing'
    <3>1. ASSUME NEW u \in Users \ (active \ {job.user}), NEW t \in Stored, IsOpen(tickets[t])
          PROVE  u \notin Assigned(tickets[t]) \cup {tickets[t].current, tickets[t].reviewer}
      <4>1. CASE u = job.user
        BY <4>1, <3>1, <2>2, <2>3 DEF OpenTargetOf, OpenReviewOf
      <4>2. CASE u # job.user
        BY <4>2, <3>1 DEF AloneInv, InactiveHoldNothing
      <4> QED BY <4>1, <4>2
    <3> QED BY <3>1, <1>1, <1>3 DEF InactiveHoldNothing, Stored
  <2>5. LoopsCover' /\ CallIsFresh'
    BY <2>1 DEF LoopsCover, CallIsFresh, Working, NoCall
  <2>6. Sound'
    BY <1>1, <1>3, <2>1 DEF AloneInv, Sound, Stored
  <2> QED BY <2>4, <2>5, <2>6 DEF AloneInv
<1> QED
  BY <1>2, <1>3 DEF Deactivate

\* Every step keeps the invariant.
LEMMA AloneStep == AloneInv /\ [AloneNext]_allVars => AloneInv'
<1> SUFFICES ASSUME AloneInv, [AloneNext]_allVars PROVE AloneInv'
  OBVIOUS
<1>1. CASE StartAny
  BY <1>1, StartStep
<1>2. CASE ListTargetTickets \/ ListReviewTickets
  BY <1>2, ListStep
<1>3. ASSUME NEW t \in Tickets, LookAtTargets(t) PROVE AloneInv'
  BY <1>3, LookStep
<1>4. ASSUME NEW t \in Tickets, HandOverRefused(t) PROVE AloneInv'
  <2>1. UNCHANGED <<tickets, active>> /\ Fail /\ job \in Job
    BY <1>4 DEF HandOverRefused, AloneInv, Sound
  <2> QED BY <2>1, ReadOnlyStep, FailStep DEF AloneInv, Sound
<1>5. ASSUME NEW t \in Tickets, HandOver(t) PROVE AloneInv'
  BY <1>5, HandOverStep
<1>6. ASSUME NEW t \in Tickets, HandOverReview(t) PROVE AloneInv'
  BY <1>6, HandOverReviewStep
<1>7. CASE Deactivate
  BY <1>7, DeactivateStep
<1>8. CASE UNCHANGED allVars
  BY <1>8 DEF allVars, AloneInv, Sound, InactiveHoldNothing, LoopsCover, CallIsFresh,
              Stored, OpenTargetOf, OpenReviewOf, HandOverOrder
<1> QED
  BY <1>1, <1>2, <1>3, <1>4, <1>5, <1>6, <1>7, <1>8 DEF AloneNext, JobStep

\* Nobody is inactive in the beginning.
LEMMA AloneStart ==
    ASSUME \A r \in StartRows : SoundRow(r)
    PROVE  DeactivationInit => AloneInv
<1> SUFFICES ASSUME DeactivationInit PROVE AloneInv
  OBVIOUS
<1>1. tickets \in [Tickets -> StartRows] /\ active = Users /\ NoTicket \notin StartRows
  BY DeactivationAssumption, WorkflowAssumption DEF DeactivationInit
<1>2. job \in Job /\ job.phase = "idle" /\ job.call = NoCall
  BY DEF DeactivationInit, Job, NoCall
<1>3. Sound
  BY <1>1, <1>2, DeactivationAssumption DEF Sound, Stored
<1> QED
  BY <1>1, <1>2, <1>3 DEF AloneInv, InactiveHoldNothing, LoopsCover, CallIsFresh, Working

\* A tenant whose tickets name nobody twice: with nothing else going on, no
\* deactivated user is left on an open ticket, in any role, whichever
\* deactivations succeeded, failed half-way or were repeated.
THEOREM DeactivatedHoldNothing ==
    ASSUME \A r \in StartRows : SoundRow(r)
    PROVE  AloneSpec => []InactiveHoldNothing
<1>1. AloneInv => InactiveHoldNothing
  BY DEF AloneInv
<1> QED
  BY <1>1, AloneStart, AloneStep, PTL DEF AloneSpec

\* The job takes nobody but the leaving user off a list.
THEOREM NobodyElseReplaced ==
    ASSUME \A r \in StartRows : SoundRow(r)
    PROVE  AloneSpec => OnlyLeaverReplaced
<1> DEFINE Others == job' # job =>
                       \A t \in Stored :
                         Assigned(tickets[t]) \ {job.user} \subseteq Assigned(tickets'[t])
<1>1. ASSUME AloneInv, [AloneNext]_allVars PROVE [Others]_allVars
  <2>1. CASE UNCHANGED tickets
    BY <2>1
  <2>2. ASSUME NEW t \in Tickets, HandOver(t) PROVE Others
    <3>1. /\ t = job.call.ticket /\ job.call # NoCall /\ CanHandOver(tickets[t])
          /\ tickets' = [tickets EXCEPT ![t] = HandedOver(tickets[t])]
          /\ tickets \in [Tickets -> Row \cup {NoTicket}]
      BY <1>1, <2>2 DEF HandOver, Write, AloneInv, Sound
    <3>2. Assigned(tickets[t]) \ {job.user} \subseteq Assigned(HandedOver(tickets[t]))
      BY <1>1, <3>1, HandOverEffect DEF AloneInv
    <3> QED BY <3>1, <3>2 DEF Stored
  <2>3. ASSUME NEW t \in Tickets, HandOverReview(t) PROVE Others
    <3>1. CASE UNCHANGED tickets
      BY <3>1
    <3>2. CASE t \in Stored /\ Write(t, ReviewerUpdated(tickets[t], job.newReviewer))
      <4>1. /\ tickets' = [tickets EXCEPT ![t] = ReviewerUpdated(tickets[t], job.newReviewer)]
            /\ tickets \in [Tickets -> Row \cup {NoTicket}] /\ tickets[t] \in Row
        BY <1>1, <3>2 DEF Write, AloneInv, Sound, SoundRow, RowInv
      <4>2. ReviewerUpdated(tickets[t], job.newReviewer).targets = tickets[t].targets
        BY <4>1 DEF ReviewerUpdated, Row
      <4> QED BY <4>1, <4>2 DEF Stored, Assigned
    <3> QED BY <3>1, <3>2, <2>3 DEF HandOverReview
  <2> QED
    BY <1>1, <2>1, <2>2, <2>3 DEF AloneNext, StartAny, Start, JobStep, ListTargetTickets,
       ListReviewTickets, LookAtTargets, HandOverRefused, Deactivate, allVars
<1>2. AloneInv /\ [AloneNext]_allVars => [Others]_allVars
  BY <1>1
<1> QED
  BY <1>2, AloneStart, AloneStep, PTL DEF AloneSpec, OnlyLeaverReplaced
=============================================================================

------------------------- MODULE TicketWorkflowProofs -------------------------
(***************************************************************************)
(* The safety properties of TicketWorkflow, for every tenant, every number *)
(* of tickets and every bound on the lists of assignees.  First what every *)
(* handler of TicketRow preserves: the row stays typed, the current        *)
(* assignee stays on the list and the history stays able to name it.       *)
(***************************************************************************)
EXTENDS TicketWorkflow, SequenceTheorems, WellFoundedInduction, TLAPS

\* The invariant of one stored ticket.
RowInv(r) ==
    /\ r \in Row
    /\ r.current \in Assigned(r)
    /\ r.trail.holder = r.current
    /\ r.status = AwaitingVerification => r.trail.status = AwaitingVerification

-----------------------------------------------------------------------------
(* Lists of assignees.                                                     *)

\* PositionOf finds a row of the user when there is one.
LEMMA PositionFound ==
    ASSUME NEW s \in Seq(Users), NEW u \in Range(s)
    PROVE  /\ PositionOf(s, u) \in 1..Len(s)
           /\ s[PositionOf(s, u)] = u
<1> DEFINE P  == { i \in 1..Len(s) : s[i] = u }
           LT == { p \in Nat \X Nat : p[1] < p[2] }
<1>1. P # {} /\ P \subseteq Nat
  BY LenProperties DEF Range
<1>2. IsWellFoundedOn(LT, Nat)
  BY NatLessThanWellFounded DEF OpToRel
<1>3. PICK i \in P : \A j \in P : <<j, i>> \notin LT
  <2> HIDE DEF P, LT
  <2> QED BY <1>1, <1>2, WFMin
<1>4. ASSUME NEW j \in 1..(i - 1) PROVE s[j] # u
  <2>1. Len(s) \in Nat /\ i \in 1..Len(s)
    BY LenProperties
  <2>2. j \in 1..Len(s) /\ <<j, i>> \in LT
    BY <2>1
  <2> QED BY <2>2, <1>3
<1> QED
  BY <1>3, <1>4 DEF PositionOf

\* Inserting a row keeps the others.
LEMMA InsertKeeps ==
    ASSUME NEW s \in Seq(Users), NEW i \in 1..(Len(s) + 1), NEW e \in Users
    PROVE  /\ InsertAt(s, i, e) \in Seq(Users)
           /\ Range(s) \subseteq Range(InsertAt(s, i, e))
<1> DEFINE a == SubSeq(s, 1, i - 1)
           b == SubSeq(s, i, Len(s))
           c == a \o <<e>>
<1>0. Len(s) \in Nat /\ DOMAIN s = 1..Len(s) /\ \A k \in 1..Len(s) : s[k] \in Users
  BY LenProperties, ElementOfSeq
<1>1. a \in Seq(Users) /\ Len(a) = i - 1 /\ \A k \in 1..(i - 1) : a[k] = s[k]
  BY <1>0, SubSeqProperties
<1>2. /\ b \in Seq(Users) /\ Len(b) = Len(s) - i + 1
      /\ \A k \in 1..(Len(s) - i + 1) : b[k] = s[i + k - 1]
  BY <1>0, SubSeqProperties
<1>3. /\ c \in Seq(Users) /\ Len(c) = i
      /\ \A k \in 1..(i - 1) : c[k] = s[k]
  <2>1. <<e>> \in Seq(Users) /\ Len(<<e>>) = 1
    OBVIOUS
  <2> HIDE DEF a
  <2> QED BY <1>1, <2>1, ConcatProperties
<1> HIDE DEF a, b, c
<1>4. /\ c \o b \in Seq(Users) /\ Len(c \o b) = Len(s) + 1
      /\ \A k \in 1..(i - 1) : (c \o b)[k] = s[k]
      /\ \A k \in i..Len(s) : (c \o b)[k + 1] = s[k]
  <2>1. /\ c \o b \in Seq(Users) /\ Len(c \o b) = Len(s) + 1
        /\ \A k \in 1..(Len(s) + 1) : (c \o b)[k] = IF k <= i THEN c[k] ELSE b[k - i]
    <3>1. Len(c) + Len(b) = Len(s) + 1
      BY <1>0, <1>2, <1>3
    <3> QED BY <1>2, <1>3, <3>1, ConcatProperties
  <2>2. ASSUME NEW k \in i..Len(s) PROVE (c \o b)[k + 1] = s[k]
    <3>1. k + 1 \in 1..(Len(s) + 1) /\ ~ (k + 1 <= i) /\ k + 1 - i \in 1..(Len(s) - i + 1)
      BY <1>0
    <3>2. b[k + 1 - i] = s[i + (k + 1 - i) - 1]
      BY <3>1, <1>2
    <3> QED BY <2>1, <3>1, <3>2, <1>0
  <2> QED BY <2>1, <2>2, <1>3, <1>0
<1>5. InsertAt(s, i, e) = c \o b
  BY DEF InsertAt, a, b, c
<1>6. DOMAIN (c \o b) = 1..(Len(s) + 1)
  BY <1>4, LenProperties
<1>7. ASSUME NEW k \in 1..Len(s) PROVE s[k] \in Range(c \o b)
  <2>1. CASE k < i
    BY <2>1, <1>4, <1>6, <1>0 DEF Range
  <2>2. CASE k >= i
    <3>1. k + 1 \in DOMAIN (c \o b) /\ (c \o b)[k + 1] = s[k]
      BY <2>2, <1>4, <1>6, <1>0
    <3> QED BY <3>1 DEF Range
  <2> QED BY <2>1, <2>2, <1>0
<1>8. Range(s) \subseteq Range(c \o b)
  BY <1>0, <1>7 DEF Range
<1> QED
  BY <1>4, <1>5, <1>8

\* Removing a row keeps every other one.
LEMMA RemoveKeeps ==
    ASSUME NEW s \in Seq(Users), NEW i \in 1..Len(s)
    PROVE  /\ RemoveAt(s, i) \in Seq(Users)
           /\ Len(RemoveAt(s, i)) = Len(s) - 1
           /\ \A k \in 1..Len(s) : k # i => s[k] \in Range(RemoveAt(s, i))
           /\ \A k \in 1..(Len(s) - 1) :
                 RemoveAt(s, i)[k] = IF k < i THEN s[k] ELSE s[k + 1]
<1> DEFINE a == SubSeq(s, 1, i - 1)
           b == SubSeq(s, i + 1, Len(s))
<1>0. Len(s) \in Nat /\ DOMAIN s = 1..Len(s) /\ \A k \in 1..Len(s) : s[k] \in Users
  BY LenProperties, ElementOfSeq
<1>1. a \in Seq(Users) /\ Len(a) = i - 1 /\ \A k \in 1..(i - 1) : a[k] = s[k]
  BY <1>0, SubSeqProperties
<1>2. /\ b \in Seq(Users) /\ Len(b) = Len(s) - i
      /\ \A k \in 1..(Len(s) - i) : b[k] = s[i + k]
  <2>1. /\ b \in Seq(Users)
        /\ Len(b) = IF i + 1 <= Len(s) THEN Len(s) - (i + 1) + 1 ELSE 0
        /\ \A k \in 1..(Len(s) - (i + 1) + 1) : b[k] = s[i + 1 + k - 1]
    <3>1. i + 1 \in Int /\ Len(s) \in Int /\ \A k \in (i + 1)..Len(s) : s[k] \in Users
      BY <1>0
    <3> QED BY <3>1, SubSeqProperties
  <2> HIDE DEF b
  <2>2. ASSUME NEW k \in 1..(Len(s) - i) PROVE b[k] = s[i + k]
    <3>1. k \in 1..(Len(s) - (i + 1) + 1) /\ i + 1 + k - 1 = i + k
      BY <1>0
    <3> QED BY <3>1, <2>1
  <2>3. Len(b) = Len(s) - i
    <3>1. CASE i + 1 <= Len(s)
      BY <3>1, <2>1, <1>0
    <3>2. CASE ~ (i + 1 <= Len(s))
      <4>1. Len(b) = 0
        BY <3>2, <2>1
      <4>2. i \in Int /\ Len(s) \in Int /\ i <= Len(s)
        BY <1>0
      <4>3. Len(s) = i
        BY <3>2, <4>2
      <4> QED BY <4>1, <4>2, <4>3
    <3> QED BY <3>1, <3>2
  <2> QED BY <2>1, <2>2, <2>3
<1> HIDE DEF a, b
<1>3. /\ a \o b \in Seq(Users) /\ Len(a \o b) = Len(s) - 1
      /\ \A k \in 1..(Len(s) - 1) : (a \o b)[k] = IF k <= i - 1 THEN a[k] ELSE b[k - (i - 1)]
  <2>1. Len(a) + Len(b) = Len(s) - 1
    BY <1>0, <1>1, <1>2
  <2>2. /\ a \o b \in Seq(Users) /\ Len(a \o b) = Len(a) + Len(b)
        /\ \A k \in 1..(Len(a) + Len(b)) :
             (a \o b)[k] = IF k <= Len(a) THEN a[k] ELSE b[k - Len(a)]
    BY <1>1, <1>2, ConcatProperties
  <2> QED BY <1>1, <2>1, <2>2
<1>4. RemoveAt(s, i) = a \o b
  BY DEF RemoveAt, a, b
<1>5. DOMAIN (a \o b) = 1..(Len(s) - 1)
  BY <1>3, LenProperties
<1>6. ASSUME NEW k \in 1..Len(s), k # i PROVE s[k] \in Range(a \o b)
  <2>1. CASE k < i
    BY <2>1, <1>1, <1>3, <1>5, <1>0 DEF Range
  <2>2. CASE k > i
    <3>1. /\ k - 1 \in 1..(Len(s) - 1) /\ ~ (k - 1 <= i - 1)
          /\ k - i \in 1..(Len(s) - i) /\ (k - 1) - (i - 1) = k - i
      BY <2>2, <1>0
    <3>2. (a \o b)[k - 1] = b[k - i]
      BY <3>1, <1>3
    <3>3. b[k - i] = s[i + (k - i)] /\ i + (k - i) = k
      BY <3>1, <1>2, <1>0
    <3> QED BY <3>1, <3>2, <3>3, <1>5 DEF Range
  <2> QED BY <2>1, <2>2, <1>6, <1>0
<1>7. ASSUME NEW k \in 1..(Len(s) - 1)
      PROVE  (a \o b)[k] = IF k < i THEN s[k] ELSE s[k + 1]
  <2>1. CASE k < i
    BY <2>1, <1>0, <1>1, <1>3
  <2>2. CASE ~ (k < i)
    <3>1. ~ (k <= i - 1) /\ k - (i - 1) \in 1..(Len(s) - i) /\ i + (k - (i - 1)) = k + 1
      BY <2>2, <1>0
    <3>2. b[k - (i - 1)] = s[i + (k - (i - 1))]
      BY <3>1, <1>2
    <3> QED BY <3>1, <3>2, <2>2, <1>3
  <2> QED BY <2>1, <2>2
<1> QED
  BY <1>3, <1>4, <1>6, <1>7

-----------------------------------------------------------------------------
(* The handlers.                                                           *)

\* A row of the history that moves the holder to a user keeps the trail typed.
LEMMA ReplayTyped ==
    ASSUME NEW trail \in Trail, NEW from, NEW to, NEW status \in TicketStatus,
           from = trail.holder => to \in Users
    PROVE  /\ Replay(trail, from, to, status) \in Trail
           /\ Replay(trail, from, to, status).holder =
                 IF from = trail.holder THEN to ELSE trail.holder
           /\ Replay(trail, from, to, status).status = status
BY DEF Replay, Trail

LEMMA StatusesTyped ==
    /\ AwaitingVerification \notin {Pending, InProgress, Returned} \cup TerminalStatus
    /\ Pending \in TicketStatus /\ InProgress \in TicketStatus
    /\ AwaitingVerification \in TicketStatus /\ Returned \in TicketStatus
    /\ Completed \in TicketStatus /\ Rejected \in TicketStatus
    /\ Canceled \in TicketStatus
BY DEF TicketStatus, TerminalStatus, Pending, InProgress, AwaitingVerification,
       Returned, Completed, Rejected, Canceled

\* create leaves a ticket whose first assignee holds it.
LEMMA CreatedInv ==
    ASSUME NEW requester \in Users, NEW targets \in Seq(Users),
           NEW reviewer \in Users \cup {NoUser}, NEW isPrivate \in BOOLEAN,
           CanCreate(requester, targets, isPrivate)
    PROVE  RowInv(Created(requester, targets, reviewer, isPrivate))
<1>1. 1 \in 1..Len(targets) /\ targets[1] \in Users /\ targets[1] \in Range(targets)
  BY LenProperties, ElementOfSeq DEF CanCreate, Range
<1> QED
  BY <1>1, StatusesTyped DEF RowInv, Row, Trail, Assigned, Created

\* The handlers that touch neither the list nor the current assignee.
LEMMA SimpleHandlersInv ==
    ASSUME NEW r, RowInv(r)
    PROVE  /\ \A u \in Users, isPrivate \in BOOLEAN :
                  RowInv(UpdatedTicket(u, r, isPrivate))
           /\ RowInv(FilesAdded(r))
           /\ \A status \in TicketStatus : RowInv(StatusUpdated(r, status))
           /\ RowInv(Accepted(r))
           /\ \A verdict \in {Completed, Rejected} : RowInv(Judged(r, verdict))
           /\ RowInv(Cancelled(r))
           /\ \A new \in Users : RowInv(ReviewerUpdated(r, new))
<1> USE DEF RowInv, Row, Assigned
<1>0. ASSUME NEW u \in Users, NEW status \in TicketStatus
      PROVE  /\ Replay(r.trail, u, u, status) \in Trail
             /\ Replay(r.trail, u, u, status).holder = r.current
             /\ Replay(r.trail, u, u, status).status = status
  BY ReplayTyped
<1>1. ASSUME NEW u \in Users, NEW isPrivate \in BOOLEAN
      PROVE  RowInv(UpdatedTicket(u, r, isPrivate))
  BY <1>0 DEF UpdatedTicket
<1>2. RowInv(FilesAdded(r))
  BY <1>0 DEF FilesAdded
<1>3. ASSUME NEW status \in TicketStatus PROVE RowInv(StatusUpdated(r, status))
  <2>1. status = AwaitingVerification => StatusIsLogged(r, status)
    BY DEF StatusIsLogged
  <2> QED BY <1>0, <2>1 DEF StatusUpdated
<1>4. RowInv(Accepted(r))
  BY <1>0, StatusesTyped DEF Accepted
<1>5. ASSUME NEW verdict \in {Completed, Rejected} PROVE RowInv(Judged(r, verdict))
  <2>1. verdict \in TicketStatus /\ verdict # AwaitingVerification
    BY StatusesTyped DEF TerminalStatus
  <2> QED BY <1>0, <2>1 DEF Judged
<1>6. RowInv(Cancelled(r))
  BY <1>0, StatusesTyped DEF Cancelled
<1>7. ASSUME NEW new \in Users PROVE RowInv(ReviewerUpdated(r, new))
  BY <1>0 DEF ReviewerUpdated
<1> HIDE DEF RowInv
<1> QED
  BY <1>1, <1>2, <1>3, <1>4, <1>5, <1>6, <1>7

\* A correction goes to somebody of the list.
LEMMA CorrectionInv ==
    ASSUME NEW u, NEW r, RowInv(r), NEW target \in Users \cup {NoUser},
           CanRequestCorrection(u, r, target)
    PROVE  RowInv(CorrectionRequested(r, target))
<1>1. CorrectionTarget(r, target) \in Assigned(r) \cap Users
  BY DEF CorrectionTarget, CanRequestCorrection, RowInv, Row
<1>2. LET trail == Replay(r.trail, r.current, CorrectionTarget(r, target), Returned)
      IN  trail \in Trail /\ trail.holder = CorrectionTarget(r, target) /\ trail.status = Returned
  BY <1>1, StatusesTyped, ReplayTyped DEF RowInv, Row
<1> QED
  BY <1>1, <1>2, StatusesTyped DEF RowInv, Row, Assigned, CorrectionRequested

\* Replacing a row of the list takes the ticket along when it was the holder's.
LEMMA AssigneeUpdatedInv ==
    ASSUME NEW r, RowInv(r), NEW new \in Users, NEW order \in 1..Len(r.targets)
    PROVE  RowInv(AssigneeUpdated(r, new, order))
<1> DEFINE old == r.targets[order]
           s   == r.targets
           s2  == ReplaceAt(s, order, new)
<1>1. s \in Seq(Users) /\ Len(s) \in Nat /\ DOMAIN s = 1..Len(s) /\ old \in Users
  BY LenProperties, ElementOfSeq DEF RowInv, Row
<1>2. /\ s2 \in Seq(Users) /\ DOMAIN s2 = 1..Len(s)
      /\ \A j \in 1..Len(s) : s2[j] = IF j = order THEN new ELSE s[j]
  BY <1>1, ExceptSeq, LenProperties DEF ReplaceAt
<1>3. new \in Range(s2) /\ (r.current # old => r.current \in Range(s2))
  <2>1. new \in Range(s2)
    BY <1>2 DEF Range
  <2>2. ASSUME r.current # old PROVE r.current \in Range(s2)
    <3>1. PICK k \in 1..Len(s) : s[k] = r.current
      BY <1>1 DEF RowInv, Assigned, Range
    <3>2. k # order /\ s2[k] = r.current
      BY <3>1, <2>2, <1>2
    <3> QED BY <3>2, <1>2 DEF Range
  <2> QED BY <2>1, <2>2
<1>4. AssigneeUpdated(r, new, order) =
        [r EXCEPT !.targets = s2, !.status = Pending,
                  !.current = IF @ = old THEN new ELSE @,
                  !.trail = Replay(@, old, new, Pending), !.worked = @ \ {old}]
  BY DEF AssigneeUpdated
<1>5. LET trail == Replay(r.trail, old, new, Pending)
      IN  /\ trail \in Trail
          /\ trail.holder = IF r.current = old THEN new ELSE r.current
          /\ trail.status = Pending
  BY StatusesTyped, ReplayTyped DEF RowInv, Row
<1> HIDE DEF old, s, s2
<1> QED
  BY <1>1, <1>2, <1>3, <1>4, <1>5, StatusesTyped DEF RowInv, Row, Assigned

\* Inserting an assignee moves nobody off the list.
LEMMA AssigneeAddedInv ==
    ASSUME NEW r, RowInv(r), NEW new \in Users,
           NEW order \in 1..(Len(r.targets) + 1)
    PROVE  RowInv(AssigneeAdded(r, new, order))
<1>1. /\ InsertAt(r.targets, order, new) \in Seq(Users)
      /\ Range(r.targets) \subseteq Range(InsertAt(r.targets, order, new))
  BY InsertKeeps DEF RowInv, Row
<1>2. NoUser # r.trail.holder
  BY UsersAssumption DEF RowInv, Row
<1>3. LET trail == Replay(r.trail, NoUser, new, r.status)
      IN  trail \in Trail /\ trail.holder = r.current /\ trail.status = r.status
  BY <1>2, ReplayTyped DEF RowInv, Row
<1> QED
  BY <1>1, <1>3 DEF RowInv, Row, Assigned, AssigneeAdded

\* After a removal the ticket is with somebody who is still on the list.
LEMMA AssigneeRemovedInv ==
    ASSUME NEW u, NEW r, RowInv(r), NEW gone \in Users, CanRemoveAssignee(u, r, gone)
    PROVE  RowInv(AssigneeRemoved(r, gone))
<1> DEFINE s    == r.targets
           at   == PositionOf(s, gone)
           rest == RemoveAt(s, at)
<1>1. s \in Seq(Users) /\ Len(s) \in Nat /\ DOMAIN s = 1..Len(s) /\ Len(s) >= 2
  BY LenProperties DEF RowInv, Row, CanRemoveAssignee
<1>2. at \in 1..Len(s) /\ s[at] = gone
  BY <1>1, PositionFound DEF CanRemoveAssignee, Assigned
<1>3. /\ rest \in Seq(Users) /\ Len(rest) = Len(s) - 1 /\ DOMAIN rest = 1..Len(rest)
      /\ \A k \in 1..Len(s) : k # at => s[k] \in Range(rest)
  <2> HIDE DEF at, s
  <2> QED BY <1>1, <1>2, RemoveKeeps, LenProperties
<1> DEFINE rows == [r EXCEPT !.targets = rest, !.worked = @ \ {gone}]
           Over(to, status) == [rows EXCEPT !.current = to, !.status = status,
                                            !.trail = Replay(@, gone, to, status)]
<1>4. AssigneeRemoved(r, gone) =
        IF gone # r.current
        THEN [rows EXCEPT !.trail = Replay(@, gone, NoUser, r.status)]
        ELSE IF at = Len(s) THEN Over(rest[Len(rest)], AwaitingVerification)
        ELSE Over(s[at + 1], Pending)
  BY DEF AssigneeRemoved
<1> HIDE DEF s, at, rest
<1>9. s = r.targets
  BY DEF s
<1>5. ASSUME NEW to \in Users, NEW status \in TicketStatus, to \in Range(rest),
             gone = r.current
      PROVE  RowInv(Over(to, status))
  <2>1. LET trail == Replay(r.trail, gone, to, status)
        IN  trail \in Trail /\ trail.holder = to /\ trail.status = status
    BY <1>5, ReplayTyped DEF RowInv, Row
  <2> QED BY <1>3, <1>5, <2>1 DEF RowInv, Row, Assigned
<1>6. CASE gone # r.current
  <2>1. PICK k \in 1..Len(s) : s[k] = r.current
    BY <1>1, <1>9 DEF RowInv, Assigned, Range
  <2>2. r.current \in Range(rest)
    BY <2>1, <1>2, <1>3, <1>6
  <2>3. LET trail == Replay(r.trail, gone, NoUser, r.status)
        IN  trail \in Trail /\ trail.holder = r.current /\ trail.status = r.status
    BY <1>6, ReplayTyped DEF RowInv, Row
  <2>4. RowInv([rows EXCEPT !.trail = Replay(@, gone, NoUser, r.status)])
    BY <2>2, <2>3, <1>3 DEF RowInv, Row, Assigned
  <2> QED BY <2>4, <1>4, <1>6
<1>7. CASE gone = r.current /\ at = Len(s)
  <2>1. Len(rest) \in 1..Len(rest)
    BY <1>1, <1>3
  <2>2. rest[Len(rest)] \in Users /\ rest[Len(rest)] \in Range(rest)
    BY <2>1, <1>3, ElementOfSeq DEF Range
  <2> HIDE DEF Over
  <2> QED BY <2>2, <1>4, <1>5, <1>7, StatusesTyped
<1>8. CASE gone = r.current /\ at # Len(s)
  <2>1. at + 1 \in 1..Len(s) /\ at + 1 # at
    <3>1. Len(s) \in Nat
      BY <1>1
    <3>2. at \in 1..Len(s)
      BY <1>2
    <3>3. at # Len(s)
      BY <1>8
    <3> QED BY <3>1, <3>2, <3>3
  <2>2. s[at + 1] \in Users /\ s[at + 1] \in Range(rest)
    BY <2>1, <1>1, <1>3, ElementOfSeq
  <2> HIDE DEF Over
  <2> QED BY <2>2, <1>4, <1>5, <1>8, StatusesTyped
<1> QED BY <1>6, <1>7, <1>8

\* Handing over goes to the next row of the list.
LEMMA SentToNextInv ==
    ASSUME NEW u, NEW r, RowInv(r), CanSendToNext(u, r)
    PROVE  RowInv(SentToNext(r))
<1> DEFINE s    == r.targets
           at   == PositionOf(s, r.current)
           next == s[at + 1]
<1>1. s \in Seq(Users) /\ Len(s) \in Nat /\ DOMAIN s = 1..Len(s)
  BY LenProperties DEF RowInv, Row
<1>2. at \in 1..Len(s) /\ at < Len(s)
  BY <1>1, PositionFound DEF CanSendToNext, Assigned
<1>3. next \in Users /\ next \in Range(s)
  <2>1. at + 1 \in 1..Len(s)
    BY <1>1, <1>2
  <2> HIDE DEF at
  <2> QED BY <2>1, <1>1, ElementOfSeq DEF Range
<1>4. SentToNext(r) = [r EXCEPT !.current = next, !.status = Pending,
                                !.trail = Replay(@, r.current, next, Pending)]
  BY DEF SentToNext
<1> HIDE DEF at, next
<1>5. LET trail == Replay(r.trail, r.current, next, Pending)
      IN  trail \in Trail /\ trail.holder = next /\ trail.status = Pending
  BY <1>3, StatusesTyped, ReplayTyped DEF RowInv, Row
<1> QED
  BY <1>3, <1>4, <1>5, StatusesTyped DEF RowInv, Row, Assigned

-----------------------------------------------------------------------------
(* The workflow.                                                           *)

\* The inductive invariant: every stored row satisfies RowInv.  Types alone
\* are not inductive: the holder of the trail is a user only because it is
\* the current assignee, whom no removal without a successor can name.
IInv ==
    /\ tickets \in [Tickets -> Row \cup {NoTicket}]
    /\ active \subseteq Users
    /\ \A t \in Stored : RowInv(tickets[t])

\* No ticket is stored in the beginning.
LEMMA InitIInv == Init => IInv
BY DEF Init, IInv, Stored

\* Storing a row that satisfies RowInv, or deleting a ticket, keeps IInv.
LEMMA WriteIInv ==
    ASSUME IInv, NEW t \in Tickets, NEW row, row = NoTicket \/ RowInv(row),
           Write(t, row)
    PROVE  IInv'
<1>1. row \in Row \cup {NoTicket}
  BY DEF RowInv
<1>2. tickets' = [tickets EXCEPT ![t] = row] /\ active' = active
  BY DEF Write
<1>3. tickets' \in [Tickets -> Row \cup {NoTicket}]
  BY <1>1, <1>2 DEF IInv
<1>4. ASSUME NEW q \in Tickets, tickets'[q] # NoTicket PROVE RowInv(tickets'[q])
  BY <1>2, <1>4 DEF IInv, Stored
<1> QED
  BY <1>2, <1>3, <1>4 DEF IInv, Stored

\* create: the lists of a request are sequences of users.
LEMMA CreateIInv ==
    ASSUME IInv, NEW t \in Tickets, NEW requester \in Requesters,
           NEW targets \in TargetLists, NEW reviewer \in Users \cup {NoUser},
           NEW isPrivate \in Privacy,
           Create(t, requester, targets, reviewer, isPrivate)
    PROVE  IInv'
<1>1. targets \in Seq(Users)
  BY WorkflowAssumption, SeqDef DEF TargetLists
<1>2. requester \in Users /\ isPrivate \in BOOLEAN
  BY WorkflowAssumption
<1>3. RowInv(Created(requester, targets, reviewer, isPrivate))
  BY <1>1, <1>2, CreatedInv DEF Create
<1> QED
  BY <1>3, WriteIInv DEF Create

\* A request on a stored ticket, one step per endpoint.
LEMMA RequestIInv ==
    ASSUME IInv, NEW u \in Users, NEW t \in Stored, Request(u, t)
    PROVE  IInv'
<1>0. t \in Tickets /\ RowInv(tickets[t]) /\ active \subseteq Users
  BY DEF IInv, Stored
<1> DEFINE r == tickets[t]
<1>1. ASSUME NEW isPrivate \in Privacy, UpdateTicket(u, t, isPrivate) PROVE IInv'
  <2>1. isPrivate \in BOOLEAN
    BY WorkflowAssumption
  <2> QED BY <1>0, <1>1, <2>1, SimpleHandlersInv, WriteIInv DEF UpdateTicket
<1>2. CASE AddFiles(t)
  BY <1>0, <1>2, SimpleHandlersInv, WriteIInv DEF AddFiles
<1>3. ASSUME NEW status \in TicketStatus, UpdateStatus(u, t, status) PROVE IInv'
  BY <1>0, <1>3, SimpleHandlersInv, WriteIInv DEF UpdateStatus
<1>4. CASE Accept(u, t)
  BY <1>0, <1>4, SimpleHandlersInv, WriteIInv DEF Accept
<1>5. CASE Approve(u, t)
  BY <1>0, <1>5, SimpleHandlersInv, WriteIInv DEF Approve
<1>6. CASE Reject(u, t)
  BY <1>0, <1>6, SimpleHandlersInv, WriteIInv DEF Reject
<1>7. CASE Cancel(u, t)
  BY <1>0, <1>7, SimpleHandlersInv, WriteIInv DEF Cancel
<1>8. CASE DeleteTicket(t)
  BY <1>0, <1>8, WriteIInv DEF DeleteTicket
<1>9. ASSUME NEW target \in Users \cup {NoUser}, RequestCorrection(u, t, target)
      PROVE  IInv'
  BY <1>0, <1>9, CorrectionInv, WriteIInv DEF RequestCorrection
<1>10. ASSUME NEW new \in Users, NEW order \in 1..MaxTargets,
              UpdateAssignee(u, t, new, order)
       PROVE  IInv'
  <2>1. RowInv(AssigneeUpdated(r, new, order))
    BY <1>0, <1>10, AssigneeUpdatedInv DEF UpdateAssignee, CanUpdateAssignee
  <2> QED BY <1>0, <1>10, <2>1, WriteIInv DEF UpdateAssignee
<1>11. ASSUME NEW new \in Users, NEW order \in 1..MaxTargets,
              AddAssignee(u, t, new, order)
       PROVE  IInv'
  <2>1. RowInv(AssigneeAdded(r, new, order))
    BY <1>0, <1>11, AssigneeAddedInv DEF AddAssignee, CanAddAssignee
  <2> QED BY <1>0, <1>11, <2>1, WriteIInv DEF AddAssignee
<1>12. ASSUME NEW gone \in Users, RemoveAssignee(u, t, gone) PROVE IInv'
  <2>1. RowInv(AssigneeRemoved(r, gone))
    BY <1>0, <1>12, AssigneeRemovedInv DEF RemoveAssignee
  <2> QED BY <1>0, <1>12, <2>1, WriteIInv DEF RemoveAssignee
<1>13. CASE SendToNextDepartment(u, t)
  <2>1. RowInv(SentToNext(r))
    BY <1>0, <1>13, SentToNextInv DEF SendToNextDepartment
  <2> QED BY <1>0, <1>13, <2>1, WriteIInv DEF SendToNextDepartment
<1>14. ASSUME NEW new \in Users, UpdateReviewer(u, t, new) PROVE IInv'
  BY <1>0, <1>14, SimpleHandlersInv, WriteIInv DEF UpdateReviewer
<1> QED
  BY <1>1, <1>2, <1>3, <1>4, <1>5, <1>6, <1>7, <1>8, <1>9, <1>10, <1>11, <1>12,
     <1>13, <1>14 DEF Request

\* Every step keeps the inductive invariant.
LEMMA NextIInv == IInv /\ [Next]_vars => IInv'
<1> SUFFICES ASSUME IInv, [Next]_vars PROVE IInv'
  OBVIOUS
<1>1. CASE CreateAny
  BY <1>1, CreateIInv DEF CreateAny
<1>2. ASSUME NEW u \in Users, NEW t \in Stored, Request(u, t) PROVE IInv'
  BY <1>2, RequestIInv
<1>3. ASSUME NEW u \in Deactivatable, NEW isActive \in BOOLEAN, SetActive(u, isActive)
      PROVE  IInv'
  BY <1>3, WorkflowAssumption DEF SetActive, IInv, Stored
<1>4. CASE UNCHANGED vars
  BY <1>4 DEF vars, IInv, Stored
<1> QED
  BY <1>1, <1>2, <1>3, <1>4 DEF Next

\* IInv holds in every reachable state of every tenant.
THEOREM Invariance == Spec => []IInv
BY InitIInv, NextIInv, PTL DEF Spec

\* Every ticket stays a well-formed row, whatever the users request.
THEOREM TypeCorrect == Spec => []TypeOK
<1>1. IInv => TypeOK
  BY DEF IInv, TypeOK
<1> QED
  BY <1>1, Invariance, PTL

\* The holder of a ticket is always on its list of assignees: the 404s that
\* sendToNextDepartment and removeAssignee reserve for the other case are
\* unreachable as long as requests are served one at a time.
THEOREM CurrentAlwaysTarget == Spec => []CurrentIsTarget
<1>1. IInv => CurrentIsTarget
  BY DEF IInv, CurrentIsTarget, RowInv
<1> QED
  BY <1>1, Invariance, PTL

\* The history names the holder of every ticket.
THEOREM TrailAlwaysExplains == Spec => []TrailExplainsAssignee
<1>1. IInv => TrailExplainsAssignee
  BY DEF IInv, TrailExplainsAssignee, RowInv
<1> QED
  BY <1>1, Invariance, PTL

\* A ticket that waits for verification has the row that says since when.
THEOREM AwaitingAlwaysAudited == Spec => []AwaitingIsAudited
<1>1. IInv => AwaitingIsAudited
  BY DEF IInv, AwaitingIsAudited, RowInv
<1> QED
  BY <1>1, Invariance, PTL

\* No request changes the people of a closed ticket: the handlers that write
\* the list or the reviewer refuse it, and of the others only
\* sendToNextDepartment and requestCorrection write the current assignee.
THEOREM TerminalAlwaysKeepsPeople == Spec => TerminalKeepsPeople
<1> DEFINE Kept(t) == tickets[t] # NoTicket /\ tickets'[t] # NoTicket /\ ~IsOpen(tickets[t]) =>
                         /\ tickets'[t].targets = tickets[t].targets
                         /\ tickets'[t].reviewer = tickets[t].reviewer
                         /\ \/ tickets'[t].current = tickets[t].current
                            \/ tickets'[t] = SentToNext(tickets[t])
<1>1. ASSUME IInv, [Next]_vars, NEW q \in Tickets PROVE Kept(q)
  <2>1. ASSUME NEW t \in Tickets, NEW row, Write(t, row),
               \/ t \notin Stored
               \/ row = NoTicket
               \/ IsOpen(tickets[t])
               \/ /\ row.targets = tickets[t].targets
                  /\ row.reviewer = tickets[t].reviewer
                  /\ row.current = tickets[t].current \/ row = SentToNext(tickets[t])
        PROVE  Kept(q)
    BY <1>1, <2>1 DEF Write, IInv, Stored
  <2>2. CASE CreateAny
    <3>1. PICK t \in Tickets : t \notin Stored /\ \E row : Write(t, row)
      BY <2>2 DEF CreateAny, Create
    <3>2. PICK row : Write(t, row)
      BY <3>1
    <3> QED BY <3>1, <3>2, <2>1
  <2>3. ASSUME NEW u \in Users, NEW t \in Stored, Request(u, t) PROVE Kept(q)
    <3>0. t \in Tickets /\ tickets[t] \in Row
      BY <1>1 DEF IInv, Stored, RowInv
    <3>1. ASSUME NEW isPrivate \in Privacy, UpdateTicket(u, t, isPrivate) PROVE Kept(q)
      BY <3>0, <3>1, <2>1 DEF UpdateTicket, UpdatedTicket, Row
    <3>2. CASE AddFiles(t)
      BY <3>0, <3>2, <2>1 DEF AddFiles, FilesAdded, Row
    <3>3. ASSUME NEW status \in TicketStatus, UpdateStatus(u, t, status) PROVE Kept(q)
      BY <3>0, <3>3, <2>1 DEF UpdateStatus, StatusUpdated, Row
    <3>4. CASE Accept(u, t)
      BY <3>0, <3>4, <2>1 DEF Accept, Accepted, Row
    <3>5. CASE Approve(u, t) \/ Reject(u, t)
      BY <3>0, <3>5, <2>1 DEF Approve, Reject, Judged, Row
    <3>6. CASE Cancel(u, t)
      BY <3>0, <3>6, <2>1 DEF Cancel, Cancelled, Row
    <3>7. CASE DeleteTicket(t)
      BY <3>0, <3>7, <2>1 DEF DeleteTicket
    <3>8. ASSUME NEW target \in Users \cup {NoUser}, RequestCorrection(u, t, target)
          PROVE  Kept(q)
      <4>1. IsOpen(tickets[t])
        BY <3>8 DEF RequestCorrection, CanRequestCorrection, IsOpen, TerminalStatus,
                    UnderVerification, Completed, Rejected, Canceled
      <4> QED BY <3>0, <3>8, <4>1, <2>1 DEF RequestCorrection
    <3>9. ASSUME NEW new \in Users, NEW order \in 1..MaxTargets,
                 UpdateAssignee(u, t, new, order)
          PROVE  Kept(q)
      BY <3>0, <3>9, <2>1 DEF UpdateAssignee, CanUpdateAssignee, AssignmentOpen
    <3>10. ASSUME NEW new \in Users, NEW order \in 1..MaxTargets,
                  AddAssignee(u, t, new, order)
           PROVE  Kept(q)
      BY <3>0, <3>10, <2>1 DEF AddAssignee, CanAddAssignee
    <3>11. ASSUME NEW gone \in Users, RemoveAssignee(u, t, gone) PROVE Kept(q)
      BY <3>0, <3>11, <2>1 DEF RemoveAssignee, CanRemoveAssignee, AssignmentOpen
    <3>12. CASE SendToNextDepartment(u, t)
      <4>1. /\ SentToNext(tickets[t]).targets = tickets[t].targets
            /\ SentToNext(tickets[t]).reviewer = tickets[t].reviewer
        BY <3>0 DEF SentToNext, Row
      <4> QED BY <3>0, <3>12, <4>1, <2>1 DEF SendToNextDepartment
    <3>13. ASSUME NEW new \in Users, UpdateReviewer(u, t, new) PROVE Kept(q)
      BY <3>0, <3>13, <2>1 DEF UpdateReviewer, CanUpdateReviewer
    <3> QED
      BY <3>1, <3>2, <3>3, <3>4, <3>5, <3>6, <3>7, <3>8, <3>9, <3>10, <3>11,
         <3>12, <3>13, <2>3 DEF Request
  <2>4. CASE UNCHANGED tickets
    BY <2>4
  <2> QED
    BY <1>1, <2>2, <2>3, <2>4 DEF Next, SetActive, vars
<1>2. IInv /\ [Next]_vars => [\A t \in Tickets : Kept(t)]_vars
  BY <1>1
<1> QED
  BY <1>2, Invariance, PTL DEF Spec, TerminalKeepsPeople
=============================================================================

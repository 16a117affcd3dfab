---------------------- MODULE SubscriptionWebhookProofs ----------------------
(***************************************************************************)
(* The tenant's subscription, for any number of subscriptions, rows,       *)
(* events and webhook requests, which run at a time with each other and    *)
(* with an activation.  What needs nobody else to work on the same row or  *)
(* payment is claimed only of those no two requests have met on.           *)
(***************************************************************************)
EXTENDS SubscriptionWebhook, BoundedSets, SequenceTheorems, TLAPS

Step == {"idle", "check", "retrieve", "find", "write", "current", "suspend",
         "payments", "pay", "mark"}

Request == [event : Event \cup {NoEvent}, step : Step, seen : StripeStatus,
            row : Nat, payment : Nat]

ActivationStep == {"idle", "cancel", "retire", "trials", "create", "save"}

Activation == [step : ActivationStep, row : Nat, sub : Subs \cup {NoSub},
               seen : StripeStatus]

Typed ==
    /\ TypeOK
    /\ handler \in [Handlers -> Request]
    /\ activation \in Activation

\* No activation leaves anything behind.
Turns == Activating("idle") => activation = NotActivating

\* The events whose handler takes the status from Stripe.
Syncs == {"checkout", "created", "updated"}

\* The handler of which event takes which step.
Fits(step, type) ==
    /\ step = "check" => type = "created"
    /\ step = "retrieve" => type \in Syncs
    /\ step \in {"find", "write"} => type \in Syncs \cup {"deleted"}
    /\ step = "current" => type \in {"failed", "paid"}
    /\ step = "suspend" => type = "failed"
    /\ step \in {"payments", "pay", "mark"} => type = "paid"

\* A request at work has an event of a subscription that Stripe knows.
Known ==
    /\ \A e \in pending : stripe[e.sub] # "none"
    /\ \A i \in DOMAIN rows : rows[i].sub # NoSub => stripe[rows[i].sub] # "none"
    /\ \A h \in Busy : /\ handler[h].event \in Event /\ stripe[Sub(h)] # "none"
                       /\ Fits(handler[h].step, handler[h].event.type)

\* A trial is no subscription, and what lets a tenant in for good is one.
Trials == \A i \in DOMAIN rows :
              /\ rows[i].status = "trial" => rows[i].sub = NoSub
              /\ rows[i].status = "active" => rows[i].sub \in Subs

HasRow(s) == \E i \in Ids : rows[i].sub = s

\* The requests that work on the row of s, and on the payment of its invoice.
OnRow(h, s) == h \in Busy /\ handler[h].event.type \in RowEvents /\ Sub(h) = s
OnPay(h, s) == h \in Busy /\ handler[h].event.type = "paid" /\ Sub(h) = s

\* Where no two requests have met, one works, or an activation does.
Separate ==
    \A s \in Subs :
        /\ Apart("row", s) =>
              /\ \A g, h \in Handlers : OnRow(g, s) /\ OnRow(h, s) => g = h
              /\ Activating("save") /\ activation.sub = s =>
                     \A h \in Handlers : ~OnRow(h, s)
        /\ Apart("paid", s) =>
              \A g, h \in Handlers : OnPay(g, s) /\ OnPay(h, s) => g = h

\* A row that a request has found is still there when it writes; that it has
\* found none is still so if nobody else works on the row.
Finds ==
    /\ OneRowPerSubscription
    /\ \A h \in Handlers : At(h, "write") =>
          /\ handler[h].row # 0 =>
                handler[h].row \in Ids /\ rows[handler[h].row].sub = Sub(h)
          /\ handler[h].row = 0 /\ Apart("row", Sub(h)) => ~HasRow(Sub(h))
    /\ Activating("save") =>
          /\ activation.sub \in Subs /\ stripe[activation.sub] # "none"
          /\ Apart("row", activation.sub) => ~HasRow(activation.sub)

\* A payment that is being recorded has not been recorded.
Pays ==
    /\ PaidOnce
    /\ \A h \in Handlers : /\ (At(h, "pay") \/ At(h, "mark")) /\ Apart("paid", Sub(h)) =>
                                  ~PaymentExists(handler[h].row, Sub(h))
                           /\ At(h, "mark") =>
                                  /\ handler[h].payment \in DOMAIN payments
                                  /\ payments[handler[h].payment].row = handler[h].row
                                  /\ payments[handler[h].payment].invoice = Sub(h)

\* A subscription without a row has an event coming that makes one.
RowComes ==
    \A s \in Subs : stripe[s] = "none" \/ HasRow(s)
        \/ (\E e \in pending : e.sub = s /\ e.type \in Syncs)
        \/ (\E h \in Busy : Sub(h) = s /\ handler[h].event.type \in Syncs)

Bad == {"past_due", "canceled"}

\* The event that Stripe emits when a subscription goes bad.
Remedy(s) == [type |-> IF stripe[s] = "past_due" THEN "updated" ELSE "deleted",
              sub |-> s]

RemedyComes(s) == stripe[s] \in Bad => Remedy(s) \in pending

\* The request will take the access away.
Remedies(h) ==
    handler[h].event.type = "deleted" \/ At(h, "retrieve") \/ handler[h].seen \in Bad

\* A status read before the subscription went bad has the event after it.
Stale ==
    /\ \A h \in Busy :
          /\ handler[h].event.type \in Syncs /\ handler[h].step \in {"find", "write"}
          /\ Apart("row", Sub(h))
          => handler[h].seen \in Bad \/ RemedyComes(Sub(h))
    /\ Activating("save") =>
          /\ activation.seen \notin Bad
          /\ Apart("row", activation.sub) => RemedyComes(activation.sub)

\* A row that lets the tenant in by mistake has the event still to come or at
\* work.
Alive ==
    \A i \in Ids : rows[i].status = "active" /\ Apart("row", rows[i].sub) =>
        \/ RemedyComes(rows[i].sub)
        \/ \E h \in Busy : handler[h].event = Remedy(rows[i].sub) /\ Remedies(h)

Inv == /\ Typed /\ Turns /\ Known /\ Trials /\ Separate /\ Finds /\ Pays
       /\ RowComes /\ Stale /\ Alive

-----------------------------------------------------------------------------
(* What happens to the rows.                                               *)

Row == [sub : Subs \cup {NoSub}, status : RowStatus]

\* Row i, unless it is deleted, gets another status.
RowUpdated(i, status) ==
    /\ rows' \in Seq(Row)
    /\ DOMAIN rows' = DOMAIN rows /\ Ids' = Ids
    /\ \A j \in DOMAIN rows :
          /\ rows'[j].sub = rows[j].sub
          /\ rows'[j] = rows[j] \/ (j = i /\ j \in Ids)
    /\ i \in Ids => rows'[i].status = status

LEMMA UpdatedRow ==
    ASSUME TypeOK, NEW i, NEW status \in {"active", "suspended", "cancelled"},
           rows' = Updated(i, status)
    PROVE  RowUpdated(i, status)
<1>1. rows \in Seq(Row) /\ DOMAIN rows = 1..Len(rows)
  <2>1. rows \in Seq(Row)
    BY DEF TypeOK, Row
  <2> QED
    BY <2>1, LenProperties
<1>2. CASE i \in Ids
  <2> DEFINE e == [rows[i] EXCEPT !.status = status]
  <2>1. i \in DOMAIN rows /\ rows[i].status # "deleted" /\ rows[i] \in Row
    <3>1. i \in DOMAIN rows /\ rows[i].status # "deleted"
      BY <1>2 DEF Ids
    <3> QED
      BY <1>1, <3>1, ElementOfSeq
  <2>2. e \in Row /\ e.status = status /\ e.sub = rows[i].sub
    BY <2>1 DEF Row, RowStatus
  <2>3. rows' = [rows EXCEPT ![i] = e]
    BY <1>2, <2>1 DEF Updated
  <2>4. rows' \in Seq(Row) /\ DOMAIN rows' = DOMAIN rows
    <3> HIDE DEF e
    <3>1. rows' \in Seq(Row)
      BY <1>1, <2>1, <2>2, <2>3, ExceptSeq
    <3> QED
      BY <3>1, <2>3
  <2>5. \A j \in DOMAIN rows : rows'[j] = IF j = i THEN e ELSE rows[j]
    BY <2>3
  <2>6. Ids' = Ids
    <3> HIDE DEF e
    <3> QED
      BY <1>2, <2>2, <2>4, <2>5 DEF Ids
  <2> QED
    <3> HIDE DEF e
    <3>1. \A j \in DOMAIN rows :
              /\ rows'[j].sub = rows[j].sub
              /\ rows'[j] = rows[j] \/ (j = i /\ j \in Ids)
      BY <1>2, <2>2, <2>5
    <3>2. rows'[i].status = status
      BY <2>1, <2>2, <2>5
    <3> QED
      BY <2>4, <2>6, <3>1, <3>2 DEF RowUpdated
<1>3. CASE i \notin Ids
  <2>1. rows' = rows
    BY <1>3 DEF Updated
  <2>2. Ids' = Ids
    BY <2>1 DEF Ids
  <2> QED
    BY <1>1, <1>3, <2>1, <2>2 DEF RowUpdated
<1> QED
  BY <1>2, <1>3

\* One more row.
RowAdded(sub, status) ==
    /\ rows' \in Seq(Row)
    /\ \E n \in Nat \ DOMAIN rows :
          /\ DOMAIN rows' = DOMAIN rows \cup {n} /\ Ids' = Ids \cup {n}
          /\ rows'[n] = [sub |-> sub, status |-> status]
          /\ \A j \in DOMAIN rows : rows'[j] = rows[j]

LEMMA AddedRow ==
    ASSUME TypeOK, NEW sub \in Subs \cup {NoSub}, NEW status \in RowStatus,
           status # "deleted", rows' = Inserted(sub, status)
    PROVE  RowAdded(sub, status)
<1> DEFINE n == Len(rows) + 1
           r == [sub |-> sub, status |-> status]
<1>1. rows \in Seq(Row) /\ r \in Row
  BY DEF TypeOK, Row
<1>2. rows' = Append(rows, r)
  BY DEF Inserted
<1> HIDE DEF r
<1>3. /\ rows' \in Seq(Row) /\ n \in Nat /\ DOMAIN rows = 1..Len(rows)
      /\ DOMAIN rows' = 1..n
      /\ rows'[n] = r /\ \A j \in DOMAIN rows : rows'[j] = rows[j]
  BY <1>1, <1>2, LenProperties, AppendProperties
<1>4. n \notin DOMAIN rows /\ DOMAIN rows' = DOMAIN rows \cup {n}
  BY <1>1, <1>3
<1>5. r.status # "deleted"
  BY DEF r
<1>6. Ids' = Ids \cup {n}
  BY <1>3, <1>4, <1>5 DEF Ids
<1> QED
  BY <1>3, <1>4, <1>6 DEF RowAdded, r

\* Payments stay payments of rows when rows are added.
LEMMA PaymentsStay ==
    ASSUME TypeOK, UNCHANGED payments, DOMAIN rows \subseteq DOMAIN rows'
    PROVE  payments' \in Seq([row : DOMAIN rows', invoice : Subs, status : PaymentStatus])
<1> DEFINE S == [row : DOMAIN rows, invoice : Subs, status : PaymentStatus]
           T == [row : DOMAIN rows', invoice : Subs, status : PaymentStatus]
<1>1. payments' \in Seq(S)
  BY DEF TypeOK
<1>2. S \subseteq T
  OBVIOUS
<1> HIDE DEF S, T
<1>3. payments' \in Seq(T)
  BY <1>1, <1>2, SeqMonotonic
<1> QED
  BY <1>3 DEF T

\* The row that counts as current is one of the table.
LEMMA CurrentIsRow ==
    ASSUME TypeOK PROVE Current \in Ids \cup {0}
<1> DEFINE With(status) == { i \in Ids : rows[i].status = status }
<1>1. Len(rows) \in Nat /\ Ids \in SUBSET Nat /\ \A i \in Ids : i <= Len(rows)
  BY DEF TypeOK, Ids
<1>2. ASSUME NEW status, With(status) # {} PROVE Max(With(status)) \in Ids
  <2>1. With(status) \in SUBSET Nat /\ \A i \in With(status) : i <= Len(rows)
    BY <1>1
  <2>2. Max(With(status)) \in With(status)
    BY <1>1, <1>2, <2>1, MaxOfBounded
  <2> QED
    BY <2>2
<1> QED
  BY <1>2 DEF Current
\* The deletion of the trials.
TrialsDeleted ==
    /\ rows' \in Seq(Row)
    /\ DOMAIN rows' = DOMAIN rows
    /\ Ids' = { i \in Ids : rows[i].status # "trial" }
    /\ \A j \in DOMAIN rows :
          /\ rows'[j].sub = rows[j].sub
          /\ rows'[j] = rows[j] \/ rows'[j].status = "deleted"

LEMMA DeletedTrials ==
    ASSUME TypeOK,
           rows' = [i \in DOMAIN rows |->
                       IF i \in { j \in Ids : rows[j].status = "trial" }
                       THEN [rows[i] EXCEPT !.status = "deleted"] ELSE rows[i]]
    PROVE  TrialsDeleted
<1> DEFINE gone == { j \in Ids : rows[j].status = "trial" }
           D(r) == [r EXCEPT !.status = "deleted"]
<1>1. rows \in Seq(Row) /\ DOMAIN rows = 1..Len(rows) /\ Len(rows) \in Nat
  <2>1. rows \in Seq(Row)
    BY DEF TypeOK, Row
  <2> QED
    BY <2>1, LenProperties
<1>2. \A j \in DOMAIN rows : rows[j] \in Row
  BY <1>1, ElementOfSeq
<1>3. \A r \in Row : D(r) \in Row /\ D(r).status = "deleted" /\ D(r).sub = r.sub
  BY DEF Row, RowStatus
<1>4. rows' = [j \in 1..Len(rows) |-> IF j \in gone THEN D(rows[j]) ELSE rows[j]]
  BY <1>1
<1> HIDE DEF D
<1>5. rows' \in [1..Len(rows) -> Row]
  BY <1>1, <1>2, <1>3, <1>4
<1>6. rows' \in Seq(Row)
  BY <1>1, <1>5, SeqDef
<1>7. DOMAIN rows' = DOMAIN rows
  BY <1>1, <1>5
<1>8. \A j \in DOMAIN rows :
          /\ rows'[j].sub = rows[j].sub
          /\ j \in gone => rows'[j].status = "deleted"
          /\ j \notin gone => rows'[j] = rows[j]
  BY <1>1, <1>2, <1>3, <1>4
<1>9. Ids' = { i \in Ids : rows[i].status # "trial" }
  BY <1>7, <1>8 DEF Ids
<1> QED
  BY <1>6, <1>7, <1>8, <1>9 DEF TrialsDeleted

-----------------------------------------------------------------------------
(* One request.                                                            *)

LEMMA OneRequest ==
    ASSUME Typed, NEW h \in Handlers, NEW r \in Request, Set(h, r)
    PROVE  /\ handler' \in [Handlers -> Request] /\ handler'[h] = r
           /\ \A g \in Handlers \ {h} : handler'[g] = handler[g]
BY DEF Typed, Set

\* No two requests meet in a step in which none begins and no activation comes
\* to its end.
LEMMA StaySeparate ==
    ASSUME Separate, UNCHANGED met,
           \A g \in Handlers :
               handler'[g].step # "idle" =>
                   ~At(g, "idle") /\ handler'[g].event = handler[g].event,
           Activating("save")' => UNCHANGED activation
    PROVE  Separate'
<1>1. ASSUME NEW s \in Subs, NEW g \in Handlers
      PROVE  (OnRow(g, s)' => OnRow(g, s)) /\ (OnPay(g, s)' => OnPay(g, s))
  BY DEF OnRow, OnPay, Busy, At, Sub
<1>2. ASSUME NEW on, NEW s PROVE Apart(on, s)' => Apart(on, s)
  BY DEF Apart
<1>3. Activating("save")' => Activating("save") /\ activation' = activation
  BY DEF Activating
<1> QED
  BY <1>1, <1>2, <1>3 DEF Separate

\* A request that only looks: it goes on with what it has found, or ends with
\* nothing left to do, or throws and the event comes again.
Looks(h, r) ==
    /\ UNCHANGED <<stripe, rows, payments, activation, met>>
    /\ ~At(h, "idle") /\ Set(h, r)
    /\ pending \subseteq pending' /\ pending' \subseteq pending \cup {handler[h].event}
    /\ r.row \in DOMAIN rows \cup {0} /\ r.payment \in DOMAIN payments \cup {0}
    /\ \/ r = Idle
       \/ /\ r.event = handler[h].event
          /\ r.step # "idle" /\ Fits(r.step, r.event.type)
    /\ r.step = "write" => IF r.row = 0 THEN ~HasRow(Sub(h))
                           ELSE r.row \in Ids /\ rows[r.row].sub = Sub(h)
    /\ r.step = "pay" => ~PaymentExists(r.row, Sub(h))
    /\ r.step # "mark"
    /\ r = Idle /\ handler[h].event.type \in Syncs =>
           handler[h].event \in pending' \/ HasRow(Sub(h))
    /\ r.step \in {"find", "write"} /\ handler[h].event.type \in Syncs
       /\ Apart("row", Sub(h)) => r.seen \in Bad \/ RemedyComes(Sub(h))
    /\ handler[h].event.type = "deleted" => handler[h].event \in pending' \/ r # Idle
    /\ handler[h].event.type = "updated" /\ stripe[Sub(h)] \in Bad
       /\ Apart("row", Sub(h)) =>
           \/ handler[h].event \in pending'
           \/ r # Idle /\ (r.step = "retrieve" \/ r.seen \in Bad \/ RemedyComes(Sub(h)))

LEMMA LooksInv ==
    ASSUME Inv, NEW h \in Handlers, NEW r \in Request, Looks(h, r)
    PROVE  Inv'
<1>1. /\ handler' \in [Handlers -> Request] /\ handler'[h] = r
      /\ \A g \in Handlers \ {h} : handler'[g] = handler[g]
  BY OneRequest DEF Inv, Looks
<1>2. UNCHANGED <<stripe, rows, payments, activation, met>> /\ Ids' = Ids
  BY DEF Looks, Ids
<1>3. \A on, s : Apart(on, s)' <=> Apart(on, s)
  BY <1>2 DEF Apart
<1>4. h \in Busy /\ handler[h].event \in Event /\ stripe[Sub(h)] # "none"
  BY DEF Looks, Inv, Known, Busy
<1>5. pending \subseteq pending' /\ pending' \subseteq pending \cup {handler[h].event}
  BY DEF Looks
<1>6. \/ r = Idle /\ Busy' = Busy \ {h}
      \/ r # Idle /\ r.event = handler[h].event /\ r.step # "idle" /\ Busy' = Busy
  BY <1>1, <1>4 DEF Looks, Busy, At, Idle
<1>7. Typed'
  <2>1. pending' \subseteq Event
    BY <1>4, <1>5 DEF Inv, Typed, TypeOK
  <2>2. r.row \in DOMAIN rows \cup {0} /\ r.payment \in DOMAIN payments \cup {0}
    BY DEF Looks
  <2>3. r.event \in Event \cup {NoEvent} /\ r.seen \in StripeStatus
    BY DEF Request
  <2> QED
    BY <1>1, <1>2, <2>1, <2>2, <2>3 DEF Inv, Typed, TypeOK
<1>8. Turns'
  BY <1>2 DEF Inv, Turns, Activating
<1>9. Known'
  <2>1. \A e \in pending' : stripe'[e.sub] # "none"
    BY <1>2, <1>4, <1>5 DEF Inv, Known, Sub
  <2>2. \A i \in DOMAIN rows' : rows'[i].sub # NoSub => stripe'[rows'[i].sub] # "none"
    BY <1>2 DEF Inv, Known
  <2>3. ASSUME NEW g \in Busy'
        PROVE  /\ handler'[g].event \in Event /\ stripe'[Sub(g)'] # "none"
               /\ Fits(handler'[g].step, handler'[g].event.type)
    <3>1. CASE g = h
      <4>1. handler'[g] = r /\ r.event = handler[h].event /\ r.step # "idle" /\ r # Idle
        BY <1>1, <1>6, <2>3, <3>1
      <4>2. Fits(r.step, r.event.type)
        BY <4>1 DEF Looks
      <4> QED
        BY <1>2, <1>4, <3>1, <4>1, <4>2 DEF Sub
    <3>2. CASE g # h
      <4>1. g \in Busy /\ g \in Handlers
        BY <1>6, <2>3 DEF Busy
      <4>2. handler'[g] = handler[g]
        BY <1>1, <3>2, <4>1
      <4> QED
        BY <1>2, <4>1, <4>2 DEF Inv, Known, Sub
    <3> QED
      BY <3>1, <3>2
  <2> QED
    BY <2>1, <2>2, <2>3 DEF Known
<1>10. Trials'
  BY <1>2 DEF Inv, Trials
<1>11. Separate'
  <2>1. ASSUME NEW g \in Handlers, handler'[g].step # "idle"
        PROVE  ~At(g, "idle") /\ handler'[g].event = handler[g].event
    <3>1. CASE g = h
      BY <1>1, <1>4, <1>6, <2>1, <3>1 DEF Busy, Idle
    <3>2. CASE g # h
      BY <1>1, <2>1, <3>2 DEF At
    <3> QED
      BY <3>1, <3>2
  <2> QED
    BY <1>2, <2>1, StaySeparate DEF Inv
<1>12. Finds'
  <2>1. OneRowPerSubscription'
    BY <1>2, <1>3 DEF Inv, Finds, OneRowPerSubscription
  <2>2. ASSUME NEW g \in Handlers, At(g, "write")'
        PROVE  /\ handler'[g].row # 0 =>
                     handler'[g].row \in Ids /\ rows[handler'[g].row].sub = Sub(g)'
               /\ handler'[g].row = 0 /\ Apart("row", Sub(g))' => ~HasRow(Sub(g))'
    <3>1. CASE g = h
      <4>1. handler'[g] = r /\ r.step = "write" /\ Sub(g)' = Sub(h)
        BY <1>1, <1>6, <2>2, <3>1 DEF At, Idle, Sub
      <4>2. IF r.row = 0 THEN ~HasRow(Sub(h)) ELSE r.row \in Ids /\ rows[r.row].sub = Sub(h)
        BY <4>1 DEF Looks
      <4> QED
        BY <1>2, <4>1, <4>2 DEF HasRow
    <3>2. CASE g # h
      BY <1>1, <1>2, <2>2, <3>2 DEF Inv, Finds, At, Sub, Apart, HasRow
    <3> QED
      BY <3>1, <3>2
  <2>3. Activating("save")' =>
            /\ activation.sub \in Subs /\ stripe[activation.sub] # "none"
            /\ Apart("row", activation.sub)' => ~HasRow(activation.sub)'
    BY <1>2 DEF Inv, Finds, Activating, Apart, HasRow
  <2> QED
    BY <1>2, <2>1, <2>2, <2>3 DEF Finds
<1>13. Pays'
  <2>1. PaidOnce'
    BY <1>2, <1>3 DEF Inv, Pays, PaidOnce
  <2>2. ASSUME NEW g \in Handlers
        PROVE  /\ (At(g, "pay") \/ At(g, "mark"))' /\ Apart("paid", Sub(g))' =>
                      ~PaymentExists(handler[g].row, Sub(g))'
               /\ At(g, "mark")' =>
                      /\ handler'[g].payment \in DOMAIN payments
                      /\ payments[handler'[g].payment].row = handler'[g].row
                      /\ payments[handler'[g].payment].invoice = Sub(g)'
    <3>1. CASE g = h
      <4>1. r.step # "mark" /\ (r.step = "pay" => ~PaymentExists(r.row, Sub(h)))
        BY DEF Looks
      <4>2. r.step = "pay" => Sub(g)' = Sub(h)
        BY <1>1, <1>6, <3>1 DEF Sub, Idle
      <4> QED
        BY <1>1, <1>2, <3>1, <4>1, <4>2 DEF At, PaymentExists
    <3>2. CASE g # h
      BY <1>1, <1>2, <3>2 DEF Inv, Pays, At, Sub, Apart, PaymentExists
    <3> QED
      BY <3>1, <3>2
  <2> QED
    BY <1>2, <2>1, <2>2 DEF Pays
<1>14. RowComes'
  BY <1>1, <1>2, <1>4, <1>5, <1>6 DEF Inv, RowComes, HasRow, Looks, Busy, Sub
<1>15. \A s : RemedyComes(s) => RemedyComes(s)'
  BY <1>2, <1>5 DEF RemedyComes, Remedy
<1>16. Stale'
  <2>1. ASSUME NEW g \in Busy', handler'[g].event.type \in Syncs,
               handler'[g].step \in {"find", "write"}, Apart("row", Sub(g))'
        PROVE  handler'[g].seen \in Bad \/ RemedyComes(Sub(g))'
    <3>1. CASE g = h
      <4>1. handler'[g] = r /\ r.event = handler[h].event /\ Sub(g)' = Sub(h)
        BY <1>1, <1>6, <2>1, <3>1 DEF Sub
      <4>2. r.seen \in Bad \/ RemedyComes(Sub(h))
        BY <1>3, <2>1, <4>1 DEF Looks
      <4> QED
        BY <1>2, <1>15, <4>1, <4>2 DEF RemedyComes, Remedy
    <3>2. CASE g # h
      <4>1. g \in Busy /\ handler'[g] = handler[g] /\ Sub(g)' = Sub(g)
        BY <1>1, <1>6, <2>1, <3>2 DEF Busy, Sub
      <4>2. handler[g].seen \in Bad \/ RemedyComes(Sub(g))
        BY <1>3, <2>1, <4>1 DEF Inv, Stale
      <4> QED
        BY <1>2, <1>15, <4>1, <4>2 DEF RemedyComes, Remedy
    <3> QED
      BY <3>1, <3>2
  <2>2. Activating("save")' =>
            /\ activation.seen \notin Bad
            /\ Apart("row", activation.sub)' => RemedyComes(activation.sub)'
    BY <1>2, <1>5 DEF Inv, Stale, Activating, Apart, RemedyComes, Remedy
  <2> QED
    BY <1>2, <2>1, <2>2 DEF Stale
<1>17. Alive'
  <2> SUFFICES ASSUME NEW i \in Ids, rows[i].status = "active",
                      Apart("row", rows[i].sub), ~RemedyComes(rows[i].sub)'
               PROVE  \E g \in Busy' : handler'[g].event = Remedy(rows[i].sub)'
                                        /\ Remedies(g)'
    BY <1>2, <1>3 DEF Alive
  <2>1. UNCHANGED Remedy(rows[i].sub) /\ ~RemedyComes(rows[i].sub)
    BY <1>2, <1>5 DEF Remedy, RemedyComes
  <2>2. PICK g \in Busy : handler[g].event = Remedy(rows[i].sub) /\ Remedies(g)
    BY <2>1 DEF Inv, Alive
  <2>3. CASE g # h
    BY <1>1, <1>6, <2>1, <2>2, <2>3 DEF Busy, Remedies, At
  <2>4. CASE g = h
    <3>1. /\ Sub(h) = rows[i].sub /\ stripe[Sub(h)] \in Bad
          /\ handler[h].event \notin pending'
          /\ handler[h].event.type \in {"updated", "deleted"}
      BY <1>2, <2>1, <2>2, <2>4 DEF Sub, Remedy, RemedyComes, Bad
    <3>2. r # Idle /\ (handler[h].event.type = "deleted" \/ r.step = "retrieve" \/ r.seen \in Bad)
      BY <2>1, <3>1 DEF Looks
    <3>3. handler'[h].event = Remedy(rows[i].sub)' /\ Remedies(h)' /\ h \in Busy'
      BY <1>1, <1>4, <1>6, <2>1, <2>2, <2>4, <3>2 DEF Remedies, At
    <3> QED
      BY <3>3
  <2> QED
    BY <2>3, <2>4
<1> QED
  BY <1>7, <1>8, <1>9, <1>10, <1>11, <1>12, <1>13, <1>14, <1>16, <1>17 DEF Inv

LEMMA RowFound ==
    ASSUME TypeOK, NEW sub, NEW i \in RowsOf(sub)
    PROVE  /\ i \in DOMAIN rows \cup {0} /\ i \in Nat
           /\ IF i = 0 THEN ~HasRow(sub) ELSE i \in Ids /\ rows[i].sub = sub
<1>1. Ids \subseteq DOMAIN rows /\ DOMAIN rows \subseteq Nat \ {0}
  BY DEF TypeOK, Ids
<1> QED
  BY <1>1 DEF RowsOf, HasRow

\* What is known of a request at work.
LEMMA AtWork ==
    ASSUME Inv, NEW h \in Handlers, ~At(h, "idle")
    PROVE  /\ handler[h] \in Request /\ handler[h].event \in Event
           /\ stripe[Sub(h)] # "none" /\ Sub(h) \in Subs
           /\ stripe[Sub(h)] \in StripeStatus
           /\ Fits(handler[h].step, handler[h].event.type)
           /\ handler[h].row \in DOMAIN rows \cup {0}
           /\ handler[h].payment \in DOMAIN payments \cup {0}
<1>1. h \in Busy
  BY DEF Busy
<1>2. handler[h] \in Request
  BY DEF Inv, Typed
<1>3. handler[h].event \in Event /\ stripe[Sub(h)] # "none"
      /\ Fits(handler[h].step, handler[h].event.type)
  BY <1>1 DEF Inv, Known
<1>4. Sub(h) \in Subs
  BY <1>3 DEF Sub, Event
<1>5. /\ handler[h].row \in DOMAIN rows \cup {0}
      /\ handler[h].payment \in DOMAIN payments \cup {0}
      /\ stripe[Sub(h)] \in StripeStatus
  BY <1>4 DEF Inv, Typed, TypeOK
<1> QED
  BY <1>2, <1>3, <1>4, <1>5

LEMMA IdleRequest == Idle \in Request
BY DEF Idle, Request, Step, StripeStatus

LEMMA CheckExistingInv ==
    ASSUME Inv, NEW h \in Handlers, CheckExisting(h) PROVE Inv'
<1>1. At(h, "check") /\ UNCHANGED <<stripe, pending, rows, payments, activation, met>>
  BY DEF CheckExisting
<1>2. PICK i \in RowsOf(Sub(h)) :
         Set(h, IF i = 0 THEN [handler[h] EXCEPT !.step = "retrieve"] ELSE Idle)
  BY DEF CheckExisting
<1>3. ~At(h, "idle") /\ handler[h].event.type = "created"
  <2>1. ~At(h, "idle")
    BY <1>1 DEF At
  <2> QED
    BY <1>1, <2>1, AtWork DEF At, Fits
<1>4. CASE i = 0
  <2> DEFINE r == [handler[h] EXCEPT !.step = "retrieve"]
  <2>1. handler[h] \in Request
    BY <1>3, AtWork
  <2>2. /\ r \in Request /\ r.step = "retrieve" /\ r.event = handler[h].event
        /\ r.row = handler[h].row /\ r.payment = handler[h].payment
    BY <2>1 DEF Request, Step
  <2>3. r # Idle
    BY <2>2 DEF Idle
  <2>4. Set(h, r)
    BY <1>2, <1>4
  <2>5. Looks(h, r)
    <3> HIDE DEF r
    <3> QED
      BY <1>1, <1>3, <2>2, <2>3, <2>4, AtWork DEF Looks, Fits, Syncs
  <2> QED
    <3> HIDE DEF r
    <3> QED
      BY <2>2, <2>5, LooksInv
<1>5. CASE i # 0
  <2>1. Set(h, Idle) /\ HasRow(Sub(h))
    BY <1>2, <1>5, RowFound DEF HasRow, Inv, Typed
  <2>2. Looks(h, Idle)
    BY <1>1, <1>3, <2>1 DEF Looks, Idle
  <2> QED
    BY <2>2, IdleRequest, LooksInv
<1> QED
  BY <1>4, <1>5

LEMMA RetrieveInv ==
    ASSUME Inv, NEW h \in Handlers, Retrieve(h) PROVE Inv'
<1> DEFINE r == [handler[h] EXCEPT !.step = "find", !.seen = stripe[Sub(h)]]
<1>1. /\ At(h, "retrieve") /\ ~At(h, "idle") /\ Set(h, r)
      /\ UNCHANGED <<stripe, pending, rows, payments, activation, met>>
  BY DEF Retrieve, At
<1>2. handler[h] \in Request /\ stripe[Sub(h)] \in StripeStatus
      /\ handler[h].event.type \in Syncs
  BY <1>1, AtWork DEF At, Fits
<1>3. /\ r \in Request /\ r.step = "find" /\ r.event = handler[h].event
      /\ r.row = handler[h].row /\ r.payment = handler[h].payment
      /\ r.seen = stripe[Sub(h)]
  BY <1>2 DEF Request, Step
<1>4. r # Idle
  BY <1>3 DEF Idle
<1> HIDE DEF r
<1>5. r.seen \in Bad \/ RemedyComes(Sub(h))
  BY <1>3 DEF RemedyComes
<1>6. Looks(h, r)
  BY <1>1, <1>2, <1>3, <1>4, <1>5, AtWork DEF Looks, Fits
<1> QED
  BY <1>3, <1>6, LooksInv

LEMMA FindRowInv ==
    ASSUME Inv, NEW h \in Handlers, FindRow(h) PROVE Inv'
<1>1. /\ At(h, "find") /\ ~At(h, "idle")
      /\ UNCHANGED <<stripe, pending, rows, payments, activation, met>>
  BY DEF FindRow, At
<1>2. PICK i \in RowsOf(Sub(h)) :
         Set(h, [handler[h] EXCEPT !.step = "write", !.row = i])
  BY DEF FindRow
<1> DEFINE r == [handler[h] EXCEPT !.step = "write", !.row = i]
<1>3. /\ i \in DOMAIN rows \cup {0} /\ i \in Nat
      /\ IF i = 0 THEN ~HasRow(Sub(h)) ELSE i \in Ids /\ rows[i].sub = Sub(h)
  BY RowFound DEF Inv, Typed
<1>4. handler[h] \in Request /\ handler[h].event.type \in Syncs \cup {"deleted"}
  BY <1>1, AtWork DEF At, Fits
<1>5. /\ r \in Request /\ r.step = "write" /\ r.event = handler[h].event
      /\ r.row = i /\ r.payment = handler[h].payment /\ r.seen = handler[h].seen
      /\ Set(h, r)
  BY <1>2, <1>3, <1>4 DEF Request, Step
<1>6. r # Idle
  BY <1>5 DEF Idle
<1> HIDE DEF r
<1>7. handler[h].event.type \in Syncs /\ Apart("row", Sub(h)) =>
          r.seen \in Bad \/ RemedyComes(Sub(h))
  BY <1>1, <1>5 DEF Inv, Stale, Busy, At
<1>8. Looks(h, r)
  BY <1>1, <1>3, <1>4, <1>5, <1>6, <1>7, AtWork DEF Looks, Fits, Syncs
<1> QED
  BY <1>5, <1>8, LooksInv

LEMMA FindCurrentInv ==
    ASSUME Inv, NEW h \in Handlers, FindCurrent(h) PROVE Inv'
<1> DEFINE next == IF handler[h].event.type = "failed" THEN "suspend" ELSE "payments"
           r == [handler[h] EXCEPT !.row = Current, !.step = next]
<1>1. /\ At(h, "current") /\ ~At(h, "idle")
      /\ UNCHANGED <<stripe, pending, rows, payments, activation, met>>
      /\ Set(h, IF Current = 0 THEN Idle ELSE r)
  BY DEF FindCurrent, At
<1>2. handler[h] \in Request /\ handler[h].event.type \in {"failed", "paid"}
  BY <1>1, AtWork DEF At, Fits
<1>3. CASE Current = 0
  <2>1. Looks(h, Idle)
    BY <1>1, <1>2, <1>3 DEF Looks, Idle, Syncs
  <2> QED
    BY <2>1, IdleRequest, LooksInv
<1>4. CASE Current # 0
  <2>1. Current \in DOMAIN rows /\ Current \in Nat
    <3>1. Current \in DOMAIN rows
      BY <1>4, CurrentIsRow DEF Inv, Typed, Ids
    <3> QED
      BY <3>1 DEF Inv, Typed, TypeOK
  <2>2. /\ r \in Request /\ r.step = next /\ r.event = handler[h].event
        /\ r.row = Current /\ r.payment = handler[h].payment
    BY <1>2, <2>1 DEF Request, Step
  <2>3. r # Idle /\ Set(h, r) /\ Fits(next, handler[h].event.type)
        /\ next \in {"suspend", "payments"}
    BY <1>1, <1>2, <1>4, <2>2 DEF Idle, Fits
  <2> HIDE DEF r, next
  <2>4. Looks(h, r)
    BY <1>1, <1>2, <2>1, <2>2, <2>3, AtWork DEF Looks, Syncs
  <2> QED
    BY <2>2, <2>4, LooksInv
<1> QED
  BY <1>3, <1>4

LEMMA LookForPaymentInv ==
    ASSUME Inv, NEW h \in Handlers, LookForPayment(h) PROVE Inv'
<1> DEFINE r == [handler[h] EXCEPT !.step = "pay"]
<1>1. /\ At(h, "payments") /\ ~At(h, "idle")
      /\ UNCHANGED <<stripe, pending, rows, payments, activation, met>>
      /\ Set(h, IF PaymentExists(handler[h].row, Sub(h)) THEN Idle ELSE r)
  BY DEF LookForPayment, At
<1>2. handler[h] \in Request /\ handler[h].event.type = "paid"
  BY <1>1, AtWork DEF At, Fits
<1>3. CASE PaymentExists(handler[h].row, Sub(h))
  <2>1. Looks(h, Idle)
    BY <1>1, <1>2, <1>3 DEF Looks, Idle, Syncs
  <2> QED
    BY <2>1, IdleRequest, LooksInv
<1>4. CASE ~PaymentExists(handler[h].row, Sub(h))
  <2>1. /\ r \in Request /\ r.step = "pay" /\ r.event = handler[h].event
        /\ r.row = handler[h].row /\ r.payment = handler[h].payment
    BY <1>2 DEF Request, Step
  <2>2. r # Idle /\ Set(h, r)
    BY <1>1, <1>4, <2>1 DEF Idle
  <2> HIDE DEF r
  <2>3. Looks(h, r)
    BY <1>1, <1>2, <1>4, <2>1, <2>2, AtWork DEF Looks, Syncs, Fits
  <2> QED
    BY <2>1, <2>3, LooksInv
<1> QED
  BY <1>3, <1>4

\* Only the error in a payment's handler, and one before the invoice's row is
\* found, is swallowed: no event that makes a row or takes access away is lost.
LEMMA ThrowInv ==
    ASSUME Inv, NEW h \in Handlers, Throw(h) PROVE Inv'
<1>1. ~At(h, "idle") /\ Set(h, Idle) /\ UNCHANGED <<stripe, rows, payments, activation, met>>
  BY DEF Throw
<1>2. \/ pending' = pending \cup {handler[h].event}
      \/ UNCHANGED pending /\ handler[h].event.type \in {"failed", "paid"}
  BY <1>1, AtWork DEF Throw, At, Fits
<1>3. Looks(h, Idle)
  BY <1>1, <1>2 DEF Looks, Idle, Syncs
<1> QED
  BY <1>3, IdleRequest, LooksInv

\* A delivery on what a request or an activation works on is on record.
LEMMA MeetingNoted ==
    ASSUME NEW h \in Handlers, NEW e \in pending, NEW again \in BOOLEAN,
           Deliver(h, e, again), e.type \in RowEvents \cup {"paid"},
           NEW g \in Handlers,
           \/ e.type \in RowEvents /\ OnRow(g, e.sub)
           \/ e.type \in RowEvents /\ Activating("save") /\ activation.sub = e.sub
           \/ e.type = "paid" /\ OnPay(g, e.sub)
    PROVE  /\ e.type \in RowEvents => ~Apart("row", e.sub)'
           /\ e.type = "paid" => ~Apart("paid", e.sub)'
<1>1. "paid" \notin RowEvents
  BY DEF RowEvents
<1>2. Meets(e)
  BY <1>1 DEF Meets, OnRow, OnPay, Work, Sub
<1>3. met' = met \cup {Work(e)}
  BY <1>2 DEF Deliver
<1> QED
  BY <1>1, <1>3 DEF Apart, Work

LEMMA DeliverInv ==
    ASSUME Inv, NEW h \in Handlers, NEW e \in pending,
           NEW again \in BOOLEAN, Deliver(h, e, again)
    PROVE  Inv'
<1> DEFINE r == [Idle EXCEPT !.event = e, !.step = FirstStep(e.type)]
<1>1. /\ At(h, "idle") /\ Set(h, r)
      /\ pending' = IF again THEN pending ELSE pending \ {e}
      /\ UNCHANGED <<stripe, rows, payments, activation>> /\ Ids' = Ids
  BY DEF Deliver, Ids
<1>2. e \in Event /\ e.type \in EventType /\ e.sub \in Subs /\ stripe[e.sub] # "none"
  BY DEF Inv, Typed, TypeOK, Known, Event
<1>3. /\ FirstStep(e.type) \in {"check", "retrieve", "find", "current"}
      /\ Fits(FirstStep(e.type), e.type)
      /\ FirstStep(e.type) = "find" => e.type = "deleted"
      /\ e.type = "updated" => FirstStep(e.type) = "retrieve"
  BY <1>2 DEF FirstStep, EventType, Fits, Syncs
<1>4. /\ r \in Request /\ r.event = e /\ r.step = FirstStep(e.type)
      /\ r.row = 0 /\ r.payment = 0
  BY <1>2, <1>3 DEF Idle, Request, Step, StripeStatus
<1> HIDE DEF r
<1>5. /\ handler' \in [Handlers -> Request] /\ handler'[h] = r
      /\ \A g \in Handlers \ {h} : handler'[g] = handler[g]
  BY <1>1, <1>4, OneRequest DEF Inv
<1>6. h \notin Busy /\ Busy' = Busy \cup {h}
  BY <1>1, <1>3, <1>4, <1>5 DEF Busy, At
<1>7. met \subseteq met' /\ met' \subseteq met \cup {Work(e)}
      /\ (Meets(e) \/ met' = met)
  BY DEF Deliver
<1>8. \A on, s : Apart(on, s)' => Apart(on, s)
  BY <1>7 DEF Apart
<1>9. Typed'
  <2>1. pending' \subseteq Event
    BY <1>1 DEF Inv, Typed, TypeOK
  <2>2. r.event \in Event /\ r.seen \in StripeStatus
    BY <1>2, <1>4 DEF Request
  <2>3. met' \subseteq [on : {"row", "paid"}, sub : Subs]
    <3>1. Meets(e) => Work(e) \in [on : {"row", "paid"}, sub : Subs]
      BY <1>2 DEF Meets, Work, RowEvents
    <3> QED
      BY <1>7, <3>1 DEF Inv, Typed, TypeOK
  <2> QED
    BY <1>1, <1>4, <1>5, <2>1, <2>2, <2>3 DEF Inv, Typed, TypeOK
<1>10. Turns'
  BY <1>1 DEF Inv, Turns, Activating
<1>11. Known'
  <2>1. \A d \in pending' : stripe'[d.sub] # "none"
    BY <1>1 DEF Inv, Known
  <2>2. \A i \in DOMAIN rows' : rows'[i].sub # NoSub => stripe'[rows'[i].sub] # "none"
    BY <1>1 DEF Inv, Known
  <2>3. /\ handler'[h].event = e /\ Sub(h)' = e.sub
        /\ handler'[h].step = FirstStep(e.type)
    BY <1>4, <1>5 DEF Sub
  <2>4. \A g \in Busy : handler'[g] = handler[g] /\ Sub(g)' = Sub(g)
    BY <1>5, <1>6 DEF Sub, Busy
  <2> QED
    BY <1>1, <1>2, <1>3, <1>6, <2>1, <2>2, <2>3, <2>4 DEF Inv, Known
<1>12. Trials'
  BY <1>1 DEF Inv, Trials
<1>13. ASSUME NEW g \in Handlers, NEW s, OnRow(g, s)'
       PROVE  (g = h /\ e.type \in RowEvents /\ e.sub = s) \/ (g # h /\ OnRow(g, s))
  BY <1>4, <1>5, <1>6, <1>13 DEF OnRow, Busy, Sub
<1>14. ASSUME NEW g \in Handlers, NEW s, OnPay(g, s)'
       PROVE  (g = h /\ e.type = "paid" /\ e.sub = s) \/ (g # h /\ OnPay(g, s))
  BY <1>4, <1>5, <1>6, <1>14 DEF OnPay, Busy, Sub
<1>15. Separate'
  <2>1. ASSUME NEW s \in Subs, Apart("row", s)', NEW f \in Handlers, NEW g \in Handlers,
               OnRow(f, s)', OnRow(g, s)'
        PROVE  f = g
    <3>1. CASE f = h \/ g = h
      BY <1>13, <2>1, <3>1, MeetingNoted
    <3>2. CASE f # h /\ g # h
      BY <1>8, <1>13, <2>1, <3>2 DEF Inv, Separate
    <3> QED
      BY <3>1, <3>2
  <2>2. ASSUME NEW s \in Subs, Apart("row", s)', Activating("save")',
               activation'.sub = s, NEW g \in Handlers, OnRow(g, s)'
        PROVE  FALSE
    <3>1. Activating("save") /\ activation.sub = s
      BY <1>1, <2>2 DEF Activating
    <3>2. CASE g = h
      BY <1>13, <2>2, <3>1, <3>2, MeetingNoted
    <3>3. CASE g # h
      BY <1>8, <1>13, <2>2, <3>1, <3>3 DEF Inv, Separate
    <3> QED
      BY <3>2, <3>3
  <2>3. ASSUME NEW s \in Subs, Apart("paid", s)', NEW f \in Handlers, NEW g \in Handlers,
               OnPay(f, s)', OnPay(g, s)'
        PROVE  f = g
    <3>1. CASE f = h \/ g = h
      BY <1>14, <2>3, <3>1, MeetingNoted
    <3>2. CASE f # h /\ g # h
      BY <1>8, <1>14, <2>3, <3>2 DEF Inv, Separate
    <3> QED
      BY <3>1, <3>2
  <2> QED
    BY <2>1, <2>2, <2>3 DEF Separate
<1>16. \A g \in Handlers : At(g, "write")' \/ At(g, "pay")' \/ At(g, "mark")' =>
            g # h /\ handler'[g] = handler[g] /\ Sub(g)' = Sub(g)
  BY <1>3, <1>4, <1>5 DEF At, Sub
<1>17. Finds'
  <2>1. OneRowPerSubscription'
    BY <1>1, <1>8 DEF Inv, Finds, OneRowPerSubscription
  <2>2. ASSUME NEW g \in Handlers, At(g, "write")'
        PROVE  /\ handler'[g].row # 0 =>
                     handler'[g].row \in Ids /\ rows[handler'[g].row].sub = Sub(g)'
               /\ handler'[g].row = 0 /\ Apart("row", Sub(g))' => ~HasRow(Sub(g))'
    <3>1. handler'[g] = handler[g] /\ Sub(g)' = Sub(g) /\ At(g, "write")
      BY <1>16, <2>2 DEF At
    <3>2. Apart("row", Sub(g))' => Apart("row", Sub(g))
      BY <3>1, <1>7 DEF Apart
    <3> QED
      BY <1>1, <3>1, <3>2 DEF Inv, Finds, HasRow
  <2>3. Activating("save")' =>
            /\ activation.sub \in Subs /\ stripe[activation.sub] # "none"
            /\ Apart("row", activation.sub)' => ~HasRow(activation.sub)'
    BY <1>1, <1>7 DEF Inv, Finds, Activating, Apart, HasRow
  <2> QED
    BY <1>1, <2>1, <2>2, <2>3 DEF Finds
<1>18. Pays'
  <2>1. PaidOnce'
    BY <1>1, <1>8 DEF Inv, Pays, PaidOnce
  <2>2. \A g \in Handlers : Apart("paid", Sub(g))' /\ Sub(g)' = Sub(g) =>
                                Apart("paid", Sub(g))
    BY <1>7 DEF Apart
  <2> QED
    BY <1>1, <1>16, <2>1, <2>2 DEF Inv, Pays, PaymentExists, At
<1>19. RowComes'
  BY <1>1, <1>4, <1>5, <1>6 DEF Inv, RowComes, HasRow, Sub, Busy
<1>20. ASSUME NEW s \in Subs, RemedyComes(s), ~RemedyComes(s)'
       PROVE  /\ e = Remedy(s) /\ e = Remedy(s)' /\ e.sub = s
              /\ e.type \in {"updated", "deleted"} /\ e.type \in RowEvents
  BY <1>1, <1>20 DEF RemedyComes, Remedy, RowEvents
<1>21. Stale'
  <2>1. ASSUME NEW g \in Busy', handler'[g].event.type \in Syncs,
               handler'[g].step \in {"find", "write"}, Apart("row", Sub(g))',
               handler'[g].seen \notin Bad
        PROVE  RemedyComes(Sub(g))'
    <3>1. g # h
      BY <1>3, <1>4, <1>5, <2>1 DEF Syncs
    <3>2. g \in Busy /\ handler'[g] = handler[g] /\ Sub(g)' = Sub(g) /\ ~At(g, "idle")
      BY <1>5, <1>6, <2>1, <3>1 DEF Busy, Sub
    <3>3. Sub(g) \in Subs /\ g \in Handlers
      BY <3>2, AtWork DEF Busy
    <3>4. Apart("row", Sub(g))' => Apart("row", Sub(g))
      BY <3>2, <1>7 DEF Apart
    <3>5. RemedyComes(Sub(g))
      BY <2>1, <3>2, <3>4 DEF Inv, Stale
    <3>6. OnRow(g, Sub(g))
      BY <2>1, <3>2, <3>3 DEF OnRow, RowEvents, Syncs
    <3>7. PICK s \in Subs : s = Sub(g)
      BY <3>3
    <3>8. Apart("row", s)' /\ (RemedyComes(s)' => RemedyComes(Sub(g))')
      BY <2>1, <3>2, <3>7 DEF Apart, RemedyComes, Remedy
    <3>9. RemedyComes(s) /\ OnRow(g, s)
      BY <3>5, <3>6, <3>7
    <3>10. RemedyComes(s)'
      <4> SUFFICES ASSUME ~RemedyComes(s)' PROVE FALSE
        OBVIOUS
      <4>1. e.sub = s /\ e.type \in RowEvents
        BY <1>20, <3>9
      <4>2. OnRow(g, e.sub)
        BY <3>9, <4>1
      <4>3. ~Apart("row", e.sub)'
        BY <3>3, <4>1, <4>2, MeetingNoted
      <4> QED
        BY <3>8, <4>1, <4>3 DEF Apart
    <3> QED
      BY <3>8, <3>10
  <2>2. ASSUME Activating("save")'
        PROVE  /\ activation'.seen \notin Bad
               /\ Apart("row", activation.sub)' => RemedyComes(activation.sub)'
    <3> DEFINE s == activation.sub
    <3>1. Activating("save") /\ s \in Subs /\ activation'.seen \notin Bad
      BY <1>1, <2>2 DEF Activating, Inv, Finds, Stale
    <3>2. Apart("row", s) => RemedyComes(s)
      BY <3>1 DEF Inv, Stale
    <3>3. ASSUME Apart("row", s)', ~RemedyComes(s)' PROVE FALSE
      <4>1. Apart("row", s)
        BY <1>1, <1>7, <3>3 DEF Apart
      <4>2. RemedyComes(s) /\ ~RemedyComes(s)'
        BY <3>2, <3>3, <4>1
      <4>3. stripe' = stripe /\ activation' = activation
        BY <1>1
      <4>4. e.sub = s /\ e.type \in RowEvents
        BY <1>1, <4>2, <4>3 DEF RemedyComes, Remedy, RowEvents
      <4>5. ~Apart("row", e.sub)'
        BY <3>1, <4>4, MeetingNoted
      <4> QED
        BY <3>3, <4>3, <4>4, <4>5 DEF Apart
    <3> QED
      BY <3>1, <3>3
  <2> QED
    BY <2>1, <2>2 DEF Stale
<1>22. Alive'
  <2> SUFFICES ASSUME NEW i \in Ids, rows[i].status = "active",
                      Apart("row", rows[i].sub)', ~RemedyComes(rows[i].sub)'
               PROVE  \E g \in Busy' : handler'[g].event = Remedy(rows[i].sub)'
                                        /\ Remedies(g)'
    BY <1>1 DEF Alive
  <2>1. UNCHANGED Remedy(rows[i].sub) /\ Apart("row", rows[i].sub)
    BY <1>1, <1>7 DEF Remedy, Apart
  <2>2. CASE RemedyComes(rows[i].sub)
    <3>1. e = Remedy(rows[i].sub)
      BY <1>1, <2>1, <2>2 DEF RemedyComes, Remedy
    <3>2. e.type \in {"updated", "deleted"}
      BY <3>1 DEF Remedy
    <3>3. Remedies(h)'
      BY <1>3, <1>4, <1>5, <3>2 DEF Remedies, At
    <3> QED
      BY <1>4, <1>5, <1>6, <2>1, <3>1, <3>3
  <2>3. CASE ~RemedyComes(rows[i].sub)
    <3>1. PICK g \in Busy : handler[g].event = Remedy(rows[i].sub) /\ Remedies(g)
      BY <2>1, <2>3 DEF Inv, Alive
    <3>2. handler'[g] = handler[g] /\ g \in Busy'
      BY <1>5, <1>6 DEF Busy
    <3> QED
      BY <2>1, <3>1, <3>2 DEF Remedies, At
  <2> QED
    BY <2>2, <2>3
<1> QED
  BY <1>9, <1>10, <1>11, <1>12, <1>15, <1>17, <1>18, <1>19, <1>21, <1>22 DEF Inv

\* A request ends with the update of a row.  If it is to take the access away
\* it is the row of its subscription; if it is to give access, what takes it
\* away again is still to come.
LEMMA UpdateInv ==
    ASSUME Inv, NEW h \in Handlers, ~At(h, "idle"), Set(h, Idle),
           UNCHANGED <<stripe, pending, payments, activation, met>>,
           NEW i, NEW status \in {"active", "suspended", "cancelled"},
           rows' = Updated(i, status),
           handler[h].event.type \in Syncs => HasRow(Sub(h)),
           status = "active" /\ i \in Ids =>
               /\ rows[i].sub \in Subs
               /\ Apart("row", rows[i].sub) => RemedyComes(rows[i].sub),
           handler[h].event.type \in {"updated", "deleted"} /\ Apart("row", Sub(h)) =>
               \A j \in Ids : rows[j].sub = Sub(h) => j = i
    PROVE  Inv'
<1>1. RowUpdated(i, status)
  BY UpdatedRow DEF Inv, Typed
<1>2. /\ handler' \in [Handlers -> Request] /\ handler'[h] = Idle
      /\ \A g \in Handlers \ {h} : handler'[g] = handler[g]
  BY OneRequest, IdleRequest DEF Inv
<1>3. \A on, s : Apart(on, s)' <=> Apart(on, s)
  BY DEF Apart
<1>4. Busy' = Busy \ {h} /\ h \in Busy
  BY <1>2 DEF Busy, At, Idle
<1>5. /\ rows' \in Seq(Row) /\ DOMAIN rows' = DOMAIN rows /\ Ids' = Ids
      /\ \A j \in DOMAIN rows : /\ rows'[j].sub = rows[j].sub
                                /\ rows'[j] = rows[j] \/ (j = i /\ i \in Ids)
      /\ i \in Ids => rows'[i].status = status
  BY <1>1 DEF RowUpdated
<1>6. Ids \subseteq DOMAIN rows /\ DOMAIN rows \subseteq Nat
  BY DEF Ids, Inv, Typed, TypeOK
<1>7. Typed'
  <2>1. /\ Idle.event \in Event \cup {NoEvent} /\ Idle.seen \in StripeStatus
        /\ Idle.row = 0 /\ Idle.payment = 0
    BY DEF Idle, StripeStatus
  <2> QED
    BY <1>2, <1>5, <2>1 DEF Inv, Typed, TypeOK, Row
<1>8. Turns'
  BY DEF Inv, Turns, Activating
<1>9. \A g \in Busy' : /\ g \in Busy /\ g # h /\ g \in Handlers
                       /\ handler'[g] = handler[g] /\ Sub(g)' = Sub(g)
  BY <1>2, <1>4 DEF Busy, Sub
<1>10. Known'
  BY <1>5, <1>9 DEF Inv, Known
<1>11. Trials'
  BY <1>5 DEF Inv, Trials
<1>12. Separate'
  BY <1>2, StaySeparate DEF Inv, Idle, At
<1>13. \A s : HasRow(s)' <=> HasRow(s)
  BY <1>5, <1>6 DEF HasRow
<1>14. \A g \in Handlers : handler'[g].step # "idle" => g \in Busy'
  BY DEF Busy, At
<1>15. Finds'
  <2>1. OneRowPerSubscription'
    BY <1>3, <1>5, <1>6 DEF Inv, Finds, OneRowPerSubscription
  <2>2. ASSUME NEW g \in Handlers, At(g, "write")'
        PROVE  /\ handler'[g].row # 0 =>
                     handler'[g].row \in Ids' /\ rows'[handler'[g].row].sub = Sub(g)'
               /\ handler'[g].row = 0 /\ Apart("row", Sub(g))' => ~HasRow(Sub(g))'
    <3>1. handler'[g] = handler[g] /\ Sub(g)' = Sub(g) /\ At(g, "write")
      BY <1>9, <1>14, <2>2 DEF At
    <3>2. Apart("row", Sub(g))' <=> Apart("row", Sub(g))
      BY <3>1 DEF Apart
    <3>3. HasRow(Sub(g))' <=> HasRow(Sub(g))
      BY <1>5, <1>6, <3>1 DEF HasRow
    <3> QED
      BY <1>5, <1>6, <3>1, <3>2, <3>3 DEF Inv, Finds
  <2>3. Activating("save")' =>
            /\ activation.sub \in Subs /\ stripe[activation.sub] # "none"
            /\ Apart("row", activation.sub)' => ~HasRow(activation.sub)'
    BY <1>5, <1>6 DEF Inv, Finds, Activating, Apart, HasRow
  <2> QED
    BY <2>1, <2>2, <2>3 DEF Finds
<1>16. Pays'
  <2>1. PaidOnce'
    BY <1>3 DEF Inv, Pays, PaidOnce
  <2>2. ASSUME NEW g \in Handlers, At(g, "pay")' \/ At(g, "mark")'
        PROVE  handler'[g] = handler[g] /\ Sub(g)' = Sub(g)
    BY <1>9, <1>14, <2>2 DEF At
  <2> QED
    BY <2>1, <2>2 DEF Inv, Pays, PaymentExists, At, Apart
<1>17. RowComes'
  <2>1. \A t \in Subs : stripe'[t] = "none" \/ HasRow(t)
            \/ (\E e \in pending' : e.sub = t /\ e.type \in Syncs)
            \/ (\E g \in Busy : g # h /\ Sub(g) = t /\ handler[g].event.type \in Syncs)
    BY DEF Inv, RowComes
  <2>2. \A g \in Busy : g # h => g \in Busy'
    BY <1>4
  <2> QED
    BY <1>9, <1>13, <2>1, <2>2 DEF RowComes
<1>18. Stale'
  <2>1. ASSUME NEW g \in Busy', handler'[g].event.type \in Syncs,
               handler'[g].step \in {"find", "write"}, Apart("row", Sub(g))'
        PROVE  handler'[g].seen \in Bad \/ RemedyComes(Sub(g))'
    BY <1>9, <2>1 DEF Inv, Stale, Apart, RemedyComes, Remedy
  <2>2. Activating("save")' =>
            /\ activation.seen \notin Bad
            /\ Apart("row", activation.sub)' => RemedyComes(activation.sub)'
    BY DEF Inv, Stale, Activating, Apart, RemedyComes, Remedy
  <2> QED
    BY <2>1, <2>2 DEF Stale
<1>19. Alive'
  <2> SUFFICES ASSUME NEW j \in Ids, rows'[j].status = "active",
                      Apart("row", rows[j].sub), ~RemedyComes(rows[j].sub)
               PROVE  \E g \in Busy' : handler'[g].event = Remedy(rows[j].sub)
                                        /\ Remedies(g)'
    BY <1>3, <1>5, <1>6 DEF Alive, RemedyComes, Remedy, Apart
  <2>1. j # i
    BY <1>5, <1>6
  <2>2. rows[j].status = "active"
    BY <1>5, <1>6, <2>1
  <2>3. PICK g \in Busy : handler[g].event = Remedy(rows[j].sub) /\ Remedies(g)
    BY <2>2 DEF Inv, Alive
  <2>4. g # h
    BY <2>1, <2>3 DEF Remedy, Sub
  <2> QED
    BY <1>2, <1>4, <2>3, <2>4 DEF Remedies, At, Busy
<1> QED
  BY <1>7, <1>8, <1>10, <1>11, <1>12, <1>15, <1>16, <1>17, <1>18, <1>19 DEF Inv

\* A row is added for a subscription that nobody else is about to add one for,
\* by a request that ends or by an activation that does.
LEMMA AddedInv ==
    ASSUME Inv, NEW s \in Subs, stripe[s] # "none",
           UNCHANGED <<stripe, pending, payments, met>>,
           NEW status \in {"active", "suspended", "cancelled"},
           rows' = Inserted(s, status),
           handler' \in [Handlers -> Request],
           \A g \in Handlers : \/ handler'[g] = handler[g]
                               \/ /\ ~At(g, "idle") /\ handler'[g] = Idle
                                  /\ Sub(g) = s /\ handler[g].event.type \in Syncs,
           UNCHANGED activation \/ activation' = NotActivating,
           Apart("row", s) => /\ ~HasRow(s)
                              /\ \A g \in Handlers : ~OnRow(g, s)'
                              /\ ~(Activating("save")' /\ activation'.sub = s)
                              /\ status = "active" => RemedyComes(s)
    PROVE  Inv'
<1>1. RowAdded(s, status)
  BY AddedRow DEF Inv, Typed, RowStatus
<1>2. PICK n \in Nat \ DOMAIN rows :
          /\ DOMAIN rows' = DOMAIN rows \cup {n} /\ Ids' = Ids \cup {n}
          /\ rows'[n] = [sub |-> s, status |-> status]
          /\ \A j \in DOMAIN rows : rows'[j] = rows[j]
  BY <1>1 DEF RowAdded
<1>3. rows' \in Seq(Row) /\ rows'[n].sub = s /\ rows'[n].status = status
  BY <1>1, <1>2 DEF RowAdded
<1>4. \A on, t : Apart(on, t)' <=> Apart(on, t)
  BY DEF Apart
<1>5. Ids \subseteq DOMAIN rows
  BY DEF Ids
<1>6. \A t : HasRow(t)' <=> HasRow(t) \/ t = s
  BY <1>2, <1>3, <1>5 DEF HasRow
<1>7. \A g \in Handlers : handler'[g].step # "idle" =>
            g \in Busy /\ handler'[g] = handler[g] /\ Sub(g)' = Sub(g)
  BY DEF Busy, At, Sub, Idle
<1>8. Busy' \subseteq Busy /\ \A g \in Busy' : handler'[g].step # "idle" /\ g \in Handlers
  BY <1>7 DEF Busy, At
<1>9. NotActivating \in Activation /\ NotActivating.row = 0 /\ NotActivating.sub = NoSub
      /\ NotActivating.step = "idle"
  BY DEF NotActivating, Activation, ActivationStep, StripeStatus
<1>10. Activating("save")' => Activating("save") /\ activation' = activation
  BY <1>9 DEF Activating
<1>11. Typed'
  <2>1. rows' \in Seq([sub : Subs \cup {NoSub}, status : RowStatus])
    BY <1>3 DEF Row
  <2>2. payments' \in Seq([row : DOMAIN rows', invoice : Subs, status : PaymentStatus])
    BY <1>2, PaymentsStay DEF Inv, Typed
  <2>3. /\ Idle.event \in Event \cup {NoEvent} /\ Idle.seen \in StripeStatus
        /\ Idle.row = 0 /\ Idle.payment = 0
    BY DEF Idle, StripeStatus
  <2>4. ASSUME NEW g \in Handlers
        PROVE  /\ handler'[g].event \in Event \cup {NoEvent}
               /\ handler'[g].seen \in StripeStatus
               /\ handler'[g].row \in DOMAIN rows' \cup {0}
               /\ handler'[g].payment \in DOMAIN payments' \cup {0}
    BY <1>2, <2>3 DEF Inv, Typed, TypeOK
  <2>5. /\ activation'.sub \in Subs \cup {NoSub} /\ activation' \in Activation
        /\ activation'.row \in DOMAIN rows' \cup {0}
    BY <1>2, <1>9 DEF Inv, Typed, TypeOK
  <2> QED
    BY <2>1, <2>2, <2>4, <2>5 DEF Inv, Typed, TypeOK
<1>12. Turns'
  BY DEF Inv, Turns, Activating
<1>13. Known'
  <2>1. \A i \in DOMAIN rows' : rows'[i].sub # NoSub => stripe'[rows'[i].sub] # "none"
    BY <1>2, <1>3 DEF Inv, Known
  <2>2. \A g \in Busy' : /\ g \in Busy /\ handler'[g] = handler[g] /\ Sub(g)' = Sub(g)
    BY <1>7, <1>8
  <2> QED
    BY <2>1, <2>2 DEF Inv, Known
<1>14. Trials'
  BY <1>2, <1>3 DEF Inv, Trials
<1>15. Separate'
  BY <1>7, <1>10, StaySeparate DEF Inv, Busy, At
<1>16. Finds'
  <2>1. OneRowPerSubscription'
    BY <1>2, <1>3, <1>4, <1>5 DEF Inv, Finds, OneRowPerSubscription, HasRow
  <2>2. ASSUME NEW g \in Handlers, At(g, "write")'
        PROVE  /\ handler'[g].row # 0 =>
                     handler'[g].row \in Ids' /\ rows'[handler'[g].row].sub = Sub(g)'
               /\ handler'[g].row = 0 /\ Apart("row", Sub(g))' => ~HasRow(Sub(g))'
    <3>1. handler'[g] = handler[g] /\ Sub(g)' = Sub(g) /\ At(g, "write") /\ g \in Busy
          /\ ~At(g, "idle")
      BY <1>7, <2>2 DEF At
    <3>2. /\ handler[g].row # 0 =>
                handler[g].row \in Ids /\ rows[handler[g].row].sub = Sub(g)
          /\ handler[g].row = 0 /\ Apart("row", Sub(g)) => ~HasRow(Sub(g))
      BY <3>1 DEF Inv, Finds
    <3>3. handler[g].event.type \in RowEvents
      BY <3>1, AtWork DEF At, Fits, Syncs, RowEvents
    <3>4. OnRow(g, Sub(g))'
      BY <2>2, <3>1, <3>3 DEF OnRow, Busy, At
    <3>5. Apart("row", Sub(g)) => Sub(g) # s
      BY <3>1, <3>4 DEF OnRow
    <3>6. Apart("row", Sub(g))' <=> Apart("row", Sub(g))
      BY <3>1 DEF Apart
    <3>7. HasRow(Sub(g))' => HasRow(Sub(g)) \/ Sub(g) = s
      BY <1>2, <1>3, <1>5, <3>1 DEF HasRow
    <3> QED
      BY <1>2, <1>5, <3>1, <3>2, <3>5, <3>6, <3>7
  <2>3. Activating("save")' =>
            /\ activation'.sub \in Subs /\ stripe[activation'.sub] # "none"
            /\ Apart("row", activation.sub)' => ~HasRow(activation.sub)'
    <3> SUFFICES ASSUME Activating("save")'
                 PROVE  /\ activation'.sub \in Subs /\ stripe[activation'.sub] # "none"
                        /\ Apart("row", activation.sub)' => ~HasRow(activation.sub)'
      OBVIOUS
    <3>1. Activating("save") /\ activation' = activation
      BY <1>10
    <3>2. Apart("row", activation.sub)' => Apart("row", activation.sub) /\ activation.sub # s
      BY <3>1 DEF Apart
    <3>3. HasRow(activation.sub)' => HasRow(activation.sub) \/ activation.sub = s
      BY <1>2, <1>3, <1>5, <3>1 DEF HasRow
    <3> QED
      BY <3>1, <3>2, <3>3 DEF Inv, Finds
  <2> QED
    BY <2>1, <2>2, <2>3 DEF Finds
<1>17. Pays'
  <2>1. PaidOnce'
    BY <1>4 DEF Inv, Pays, PaidOnce
  <2>2. ASSUME NEW g \in Handlers, At(g, "pay")' \/ At(g, "mark")'
        PROVE  handler'[g] = handler[g] /\ Sub(g)' = Sub(g)
    BY <1>7, <2>2 DEF At
  <2> QED
    BY <2>1, <2>2 DEF Inv, Pays, PaymentExists, At, Apart
<1>18. RowComes'
  <2> SUFFICES ASSUME NEW t \in Subs, stripe[t] # "none", ~HasRow(t)'
               PROVE  \/ \E e \in pending : e.sub = t /\ e.type \in Syncs
                      \/ \E g \in Busy' : Sub(g)' = t /\ handler'[g].event.type \in Syncs
    BY DEF RowComes
  <2>1. ~HasRow(t) /\ t # s
    BY <1>6
  <2>2. \A g \in Busy : Sub(g) = t => g \in Busy' /\ handler'[g] = handler[g] /\ Sub(g)' = t
    BY <2>1 DEF Busy, At, Sub
  <2> QED
    BY <2>1, <2>2 DEF Inv, RowComes
<1>19. Stale'
  <2>1. ASSUME NEW g \in Busy', handler'[g].event.type \in Syncs,
               handler'[g].step \in {"find", "write"}, Apart("row", Sub(g))'
        PROVE  handler'[g].seen \in Bad \/ RemedyComes(Sub(g))'
    BY <1>7, <1>8, <2>1 DEF Inv, Stale, Apart, RemedyComes, Remedy
  <2>2. Activating("save")' =>
            /\ activation'.seen \notin Bad
            /\ Apart("row", activation.sub)' => RemedyComes(activation.sub)'
    BY <1>10 DEF Inv, Stale, Apart, RemedyComes, Remedy
  <2> QED
    BY <2>1, <2>2 DEF Stale
<1>20. Alive'
  <2> SUFFICES ASSUME NEW j \in Ids', rows'[j].status = "active",
                      Apart("row", rows'[j].sub), ~RemedyComes(rows'[j].sub)
               PROVE  \E g \in Busy' : handler'[g].event = Remedy(rows'[j].sub)
                                        /\ Remedies(g)'
    BY <1>4 DEF Alive, RemedyComes, Remedy, Apart
  <2>1. j # n
    BY <1>3
  <2>2. j \in Ids /\ rows'[j] = rows[j]
    BY <1>2, <1>5, <2>1
  <2>3. PICK g \in Busy : handler[g].event = Remedy(rows[j].sub) /\ Remedies(g)
    BY <2>2 DEF Inv, Alive
  <2>4. rows[j].sub # s
    BY <2>2 DEF HasRow
  <2>5. Sub(g) # s
    BY <2>3, <2>4 DEF Remedy, Sub
  <2>6. g \in Handlers /\ handler'[g] = handler[g]
    BY <2>5 DEF Busy
  <2> QED
    BY <2>2, <2>3, <2>6 DEF Remedies, At, Busy
<1> QED
  BY <1>11, <1>12, <1>13, <1>14, <1>15, <1>16, <1>17, <1>18, <1>19, <1>20 DEF Inv

\* A request ends with the first row of its subscription.
LEMMA InsertInv ==
    ASSUME Inv, NEW h \in Handlers, ~At(h, "idle"), Set(h, Idle),
           handler[h].event.type \in Syncs,
           UNCHANGED <<stripe, pending, payments, activation, met>>,
           NEW status \in {"active", "suspended", "cancelled"},
           rows' = Inserted(Sub(h), status),
           Apart("row", Sub(h)) => /\ ~HasRow(Sub(h))
                                   /\ status = "active" => RemedyComes(Sub(h))
    PROVE  Inv'
<1>1. PICK s \in Subs : s = Sub(h)
  BY AtWork
<1>2. stripe[s] # "none"
  BY <1>1, AtWork
<1>3. /\ handler' \in [Handlers -> Request] /\ handler'[h] = Idle
      /\ \A g \in Handlers \ {h} : handler'[g] = handler[g]
  BY OneRequest, IdleRequest DEF Inv
<1>4. OnRow(h, s)
  BY <1>1 DEF OnRow, Busy, Syncs, RowEvents
<1>5. ASSUME Apart("row", s), NEW g \in Handlers PROVE ~OnRow(g, s)'
  <2>1. CASE g = h
    BY <1>3, <2>1 DEF OnRow, Busy, At, Idle
  <2>2. CASE g # h
    <3>1. ~OnRow(g, s)
      BY <1>4, <1>5, <2>2 DEF Inv, Separate
    <3> QED
      BY <1>3, <2>2, <3>1 DEF OnRow, Busy, At, Sub
  <2> QED
    BY <2>1, <2>2
<1>6. Apart("row", s) => ~(Activating("save")' /\ activation'.sub = s)
  BY <1>4 DEF Inv, Separate, Activating
<1>7. \A g \in Handlers : \/ handler'[g] = handler[g]
                          \/ /\ ~At(g, "idle") /\ handler'[g] = Idle
                             /\ Sub(g) = s /\ handler[g].event.type \in Syncs
  BY <1>1, <1>3
<1>8. /\ rows' = Inserted(s, status)
      /\ Apart("row", s) => ~HasRow(s) /\ (status = "active" => RemedyComes(s))
  BY <1>1
<1> QED
  BY <1>2, <1>3, <1>5, <1>6, <1>7, <1>8, AddedInv

\* Nobody is let in on the word of an event: the status was read at Stripe
\* and, if that has changed since, the event about it is to come.
LEMMA WriteSyncedInv ==
    ASSUME Inv, NEW h \in Handlers, WriteSynced(h) PROVE Inv'
<1> DEFINE status == MapStripeStatus(handler[h].seen)
           i == handler[h].row
<1>1. /\ At(h, "write") /\ ~At(h, "idle") /\ handler[h].event.type # "deleted"
      /\ Set(h, Idle) /\ UNCHANGED <<stripe, pending, payments, activation, met>>
      /\ IF i # 0 THEN rows' = Updated(i, status) ELSE rows' = Inserted(Sub(h), status)
  BY DEF WriteSynced, At
<1>2. handler[h].event.type \in Syncs /\ Sub(h) \in Subs /\ h \in Busy
  BY <1>1, AtWork DEF At, Fits, Busy
<1>3. /\ status \in {"active", "suspended", "cancelled"}
      /\ status = "active" => handler[h].seen \notin Bad
  BY DEF MapStripeStatus, Bad
<1>4. Apart("row", Sub(h)) => handler[h].seen \in Bad \/ RemedyComes(Sub(h))
  BY <1>1, <1>2 DEF Inv, Stale, At
<1>5. /\ i # 0 => i \in Ids /\ rows[i].sub = Sub(h)
      /\ i = 0 /\ Apart("row", Sub(h)) => ~HasRow(Sub(h))
  BY <1>1 DEF Inv, Finds
<1> HIDE DEF status, i
<1>6. CASE i = 0
  BY <1>1, <1>2, <1>3, <1>4, <1>5, <1>6, InsertInv
<1>7. CASE i # 0
  <2>1. HasRow(Sub(h))
    BY <1>5, <1>7 DEF HasRow
  <2>2. Apart("row", Sub(h)) => \A j \in Ids : rows[j].sub = Sub(h) => j = i
    BY <1>2, <1>5, <1>7, SubscriptionAssumption DEF Inv, Finds, OneRowPerSubscription
  <2> QED
    BY <1>1, <1>2, <1>3, <1>4, <1>5, <1>7, <2>1, <2>2, UpdateInv
<1> QED
  BY <1>6, <1>7

LEMMA WriteCancelledInv ==
    ASSUME Inv, NEW h \in Handlers, WriteCancelled(h) PROVE Inv'
<1> DEFINE i == handler[h].row
<1>1. /\ At(h, "write") /\ ~At(h, "idle") /\ handler[h].event.type = "deleted"
      /\ Set(h, Idle) /\ UNCHANGED <<stripe, pending, payments, activation, met>>
      /\ rows' = Updated(i, "cancelled")
  BY DEF WriteCancelled, At
<1>2. Sub(h) \in Subs
  BY <1>1, AtWork
<1>3. /\ i # 0 => i \in Ids /\ rows[i].sub = Sub(h)
      /\ i = 0 /\ Apart("row", Sub(h)) => ~HasRow(Sub(h))
  BY <1>1 DEF Inv, Finds
<1>4. Apart("row", Sub(h)) => \A j \in Ids : rows[j].sub = Sub(h) => j = i
  BY <1>2, <1>3, SubscriptionAssumption
     DEF Inv, Finds, OneRowPerSubscription, HasRow
<1> HIDE DEF i
<1>5. handler[h].event.type \notin Syncs
  BY <1>1 DEF Syncs
<1> QED
  BY <1>1, <1>4, <1>5, UpdateInv

LEMMA SuspendInv ==
    ASSUME Inv, NEW h \in Handlers, Suspend(h) PROVE Inv'
<1> DEFINE i == handler[h].row
<1>1. /\ At(h, "suspend") /\ ~At(h, "idle")
      /\ Set(h, Idle) /\ UNCHANGED <<stripe, pending, payments, activation, met>>
      /\ rows' = Updated(i, "suspended")
  BY DEF Suspend, At
<1> HIDE DEF i
<1>2. handler[h].event.type = "failed"
  BY <1>1, AtWork DEF At, Fits
<1>3. handler[h].event.type \notin Syncs
      /\ handler[h].event.type \notin {"updated", "deleted"}
  BY <1>2 DEF Syncs
<1> QED
  BY <1>1, <1>3, UpdateInv
\* The handler of a paid invoice touches the payments only.
LEMMA PaysInv ==
    ASSUME Inv, NEW h \in Handlers, NEW r \in Request,
           ~At(h, "idle"), handler[h].event.type = "paid", Set(h, r),
           UNCHANGED <<stripe, pending, rows, activation, met>>,
           payments' \in Seq([row : DOMAIN rows, invoice : Subs, status : PaymentStatus]),
           DOMAIN payments \subseteq DOMAIN payments',
           r.row \in DOMAIN rows \cup {0}, r.payment \in DOMAIN payments' \cup {0},
           r = Idle \/ (r.event = handler[h].event /\ r.step = "mark"),
           Pays'
    PROVE  Inv'
<1>1. /\ handler' \in [Handlers -> Request] /\ handler'[h] = r
      /\ \A g \in Handlers \ {h} : handler'[g] = handler[g]
  BY OneRequest DEF Inv
<1>2. Ids' = Ids /\ \A on, s : Apart(on, s)' <=> Apart(on, s)
  BY DEF Ids, Apart
<1>3. h \in Busy /\ \/ r = Idle /\ Busy' = Busy \ {h}
                    \/ r.event = handler[h].event /\ r.step = "mark" /\ Busy' = Busy
  BY <1>1 DEF Busy, At, Idle
<1>4. handler[h].event \in Event /\ stripe[Sub(h)] # "none"
  BY AtWork
<1>5. r.step \notin {"write", "find", "retrieve", "check"}
  BY DEF Idle
<1>6. Typed'
  <2>1. r.event \in Event \cup {NoEvent} /\ r.seen \in StripeStatus
    BY DEF Request
  <2> QED
    BY <1>1, <2>1 DEF Inv, Typed, TypeOK
<1>7. Turns'
  BY DEF Inv, Turns, Activating
<1>8. \A g \in Busy' : g # h => /\ g \in Busy /\ g \in Handlers
                                /\ handler'[g] = handler[g] /\ Sub(g)' = Sub(g)
  BY <1>1, <1>3 DEF Busy, Sub
<1>9. h \in Busy' => /\ handler'[h] = r /\ r.event = handler[h].event
                     /\ r.step = "mark" /\ Sub(h)' = Sub(h)
  BY <1>1, <1>3 DEF Busy, Sub
<1>10. Known'
  <2>1. ASSUME NEW g \in Busy'
        PROVE  /\ handler'[g].event \in Event /\ stripe'[Sub(g)'] # "none"
               /\ Fits(handler'[g].step, handler'[g].event.type)
    <3>1. CASE g = h
      BY <1>4, <1>9, <2>1, <3>1 DEF Fits
    <3>2. CASE g # h
      BY <1>8, <2>1, <3>2 DEF Inv, Known
    <3> QED
      BY <3>1, <3>2
  <2> QED
    BY <2>1 DEF Inv, Known
<1>11. Trials'
  BY DEF Inv, Trials
<1>12. Separate'
  <2>1. ASSUME NEW g \in Handlers, handler'[g].step # "idle"
        PROVE  ~At(g, "idle") /\ handler'[g].event = handler[g].event
    BY <1>1, <1>8, <1>9, <2>1 DEF Busy, At
  <2> QED
    BY <2>1, StaySeparate DEF Inv
<1>13. \A g \in Handlers : handler'[g].step \in {"write", "find", "retrieve"} =>
            g # h /\ handler'[g] = handler[g] /\ Sub(g)' = Sub(g)
  BY <1>1, <1>5 DEF Sub
<1>14. Finds'
  <2>1. OneRowPerSubscription'
    BY <1>2 DEF Inv, Finds, OneRowPerSubscription
  <2>2. ASSUME NEW g \in Handlers, At(g, "write")'
        PROVE  /\ handler'[g].row # 0 =>
                     handler'[g].row \in Ids' /\ rows'[handler'[g].row].sub = Sub(g)'
               /\ handler'[g].row = 0 /\ Apart("row", Sub(g))' => ~HasRow(Sub(g))'
    BY <1>2, <1>13, <2>2 DEF Inv, Finds, At, Apart, HasRow
  <2>3. Activating("save")' =>
            /\ activation.sub \in Subs /\ stripe[activation.sub] # "none"
            /\ Apart("row", activation.sub)' => ~HasRow(activation.sub)'
    BY <1>2 DEF Inv, Finds, Activating, Apart, HasRow
  <2> QED
    BY <2>1, <2>2, <2>3 DEF Finds
<1>15. RowComes'
  <2>1. handler[h].event.type \notin Syncs
    BY DEF Syncs
  <2>2. \A g \in Busy : g # h => g \in Busy' /\ handler'[g] = handler[g] /\ Sub(g)' = Sub(g)
    BY <1>1, <1>3 DEF Busy, Sub
  <2> QED
    BY <1>2, <2>1, <2>2 DEF Inv, RowComes, HasRow
<1>16. Stale'
  <2>1. ASSUME NEW g \in Busy', handler'[g].event.type \in Syncs,
               handler'[g].step \in {"find", "write"}, Apart("row", Sub(g))'
        PROVE  handler'[g].seen \in Bad \/ RemedyComes(Sub(g))'
    <3>1. g # h
      BY <1>9, <2>1
    <3> QED
      BY <1>8, <2>1, <3>1 DEF Inv, Stale, Apart, RemedyComes, Remedy
  <2>2. Activating("save")' =>
            /\ activation.seen \notin Bad
            /\ Apart("row", activation.sub)' => RemedyComes(activation.sub)'
    BY DEF Inv, Stale, Activating, Apart, RemedyComes, Remedy
  <2> QED
    BY <2>1, <2>2 DEF Stale
<1>17. Alive'
  <2> SUFFICES ASSUME NEW i \in Ids, rows[i].status = "active",
                      Apart("row", rows[i].sub), ~RemedyComes(rows[i].sub)
               PROVE  \E g \in Busy' : handler'[g].event = Remedy(rows[i].sub)
                                        /\ Remedies(g)'
    BY <1>2 DEF Alive, RemedyComes, Remedy, Apart
  <2>1. PICK g \in Busy : handler[g].event = Remedy(rows[i].sub) /\ Remedies(g)
    BY DEF Inv, Alive
  <2>2. g # h
    BY <2>1 DEF Remedy
  <2> QED
    BY <1>1, <1>3, <2>1, <2>2 DEF Remedies, At, Busy
<1> QED
  BY <1>6, <1>7, <1>10, <1>11, <1>12, <1>14, <1>15, <1>16, <1>17 DEF Inv

Payment == [row : DOMAIN rows, invoice : Subs, status : PaymentStatus]

LEMMA CreatePaymentInv ==
    ASSUME Inv, NEW h \in Handlers, CreatePayment(h) PROVE Inv'
<1> DEFINE n == Len(payments) + 1
           p == [row |-> handler[h].row, invoice |-> Sub(h), status |-> "pending"]
           r == [handler[h] EXCEPT !.step = "mark", !.payment = Len(payments')]
<1>1. /\ At(h, "pay") /\ ~At(h, "idle") /\ handler[h].row \in Ids
      /\ payments' = Append(payments, p) /\ Set(h, r)
      /\ UNCHANGED <<stripe, pending, rows, activation, met>>
  BY DEF CreatePayment, At
<1>2. /\ handler[h] \in Request /\ handler[h].event.type = "paid" /\ Sub(h) \in Subs
      /\ handler[h].row \in DOMAIN rows
  BY <1>1, AtWork DEF At, Fits, Ids
<1>3. payments \in Seq(Payment) /\ p \in Payment
  BY <1>2 DEF Inv, Typed, TypeOK, Payment, PaymentStatus
<1>4. p.row = handler[h].row /\ p.invoice = Sub(h) /\ p.status = "pending"
  OBVIOUS
<1> HIDE DEF p
<1>5. /\ payments' \in Seq(Payment) /\ Len(payments') = n /\ n \in Nat
      /\ DOMAIN payments = 1..Len(payments) /\ DOMAIN payments' = 1..n
      /\ payments'[n] = p /\ \A i \in DOMAIN payments : payments'[i] = payments[i]
  BY <1>1, <1>3, AppendProperties, LenProperties
<1>6. DOMAIN payments' = DOMAIN payments \cup {n} /\ n \notin DOMAIN payments
  BY <1>3, <1>5
<1>7. /\ r \in Request /\ r.step = "mark" /\ r.event = handler[h].event
      /\ r.row = handler[h].row /\ r.payment = n
  BY <1>2, <1>5 DEF Request, Step
<1> HIDE DEF r, n
<1>8. handler'[h] = r /\ \A g \in Handlers \ {h} : handler'[g] = handler[g]
  BY <1>1, <1>7, OneRequest DEF Inv
<1>9. ASSUME NEW row, NEW invoice
      PROVE  PaymentExists(row, invoice)' => PaymentExists(row, invoice)
  BY <1>4, <1>5, <1>6 DEF PaymentExists
<1>10. Pays'
  <2>1. PaidOnce'
    BY <1>1, <1>4, <1>5, <1>6 DEF Inv, Pays, PaidOnce, Apart
  <2>2. ASSUME NEW g \in Handlers, At(g, "pay")' \/ At(g, "mark")'
        PROVE  /\ Apart("paid", Sub(g))' => ~PaymentExists(handler[g].row, Sub(g))'
               /\ At(g, "mark")' =>
                      /\ handler'[g].payment \in DOMAIN payments'
                      /\ payments'[handler'[g].payment].row = handler'[g].row
                      /\ payments'[handler'[g].payment].invoice = Sub(g)'
    <3>1. Sub(g)' = Sub(g) /\ handler'[g].row = handler[g].row
          /\ (At(g, "pay") \/ At(g, "mark"))
      BY <1>1, <1>7, <1>8, <2>2 DEF Sub, At
    <3>2. Apart("paid", Sub(g))' => ~PaymentExists(handler[g].row, Sub(g))
      BY <1>1, <3>1 DEF Inv, Pays, Apart
    <3>3. PaymentExists(handler[g].row, Sub(g))' => PaymentExists(handler[g].row, Sub(g))
      <4>1. PICK row, invoice : row = handler[g].row /\ invoice = Sub(g)
        OBVIOUS
      <4>2. PaymentExists(handler[g].row, Sub(g))' => PaymentExists(row, invoice)'
        BY <3>1, <4>1 DEF PaymentExists
      <4> QED
        BY <1>9, <4>1, <4>2
    <3>4. ASSUME At(g, "mark")'
          PROVE  /\ handler'[g].payment \in DOMAIN payments'
                 /\ payments'[handler'[g].payment].row = handler'[g].row
                 /\ payments'[handler'[g].payment].invoice = Sub(g)'
      <4>1. CASE g = h
        BY <1>4, <1>5, <1>6, <1>7, <1>8, <3>1, <4>1
      <4>2. CASE g # h
        <5>1. handler'[g] = handler[g] /\ At(g, "mark")
          BY <1>8, <3>4, <4>2 DEF At
        <5>2. /\ handler[g].payment \in DOMAIN payments
              /\ payments[handler[g].payment].row = handler[g].row
              /\ payments[handler[g].payment].invoice = Sub(g)
          BY <5>1 DEF Inv, Pays
        <5> QED
          BY <1>5, <1>6, <3>1, <5>1, <5>2
      <4> QED
        BY <4>1, <4>2
    <3> QED
      BY <3>2, <3>3, <3>4
  <2> QED
    BY <2>1, <2>2 DEF Pays
<1>11. payments' \in Seq([row : DOMAIN rows, invoice : Subs, status : PaymentStatus])
       /\ DOMAIN payments \subseteq DOMAIN payments'
  BY <1>5, <1>6 DEF Payment
<1>12. r.row \in DOMAIN rows \cup {0} /\ r.payment \in DOMAIN payments' \cup {0}
  BY <1>2, <1>6, <1>7
<1> QED
  BY <1>1, <1>2, <1>7, <1>10, <1>11, <1>12, PaysInv

LEMMA MarkAsPaidInv ==
    ASSUME Inv, NEW h \in Handlers, MarkAsPaid(h) PROVE Inv'
<1> DEFINE n == handler[h].payment
           p == [payments[n] EXCEPT !.status = "completed"]
<1>1. /\ At(h, "mark") /\ ~At(h, "idle") /\ Set(h, Idle)
      /\ payments' = [payments EXCEPT ![n].status = "completed"]
      /\ UNCHANGED <<stripe, pending, rows, activation, met>>
  BY DEF MarkAsPaid, At
<1>2. /\ handler[h].event.type = "paid" /\ Sub(h) \in Subs
      /\ OnPay(h, Sub(h))
  BY <1>1, AtWork DEF At, Fits, OnPay, Busy
<1>3. /\ n \in DOMAIN payments /\ payments[n].row = handler[h].row
      /\ payments[n].invoice = Sub(h)
      /\ Apart("paid", Sub(h)) => ~PaymentExists(handler[h].row, Sub(h))
  BY <1>1 DEF Inv, Pays
<1>4. payments \in Seq(Payment) /\ DOMAIN payments = 1..Len(payments)
  <2>1. payments \in Seq(Payment)
    BY DEF Inv, Typed, TypeOK, Payment
  <2> QED
    BY <2>1, LenProperties
<1>5. \A i \in DOMAIN payments : payments[i] \in Payment
  BY <1>4, ElementOfSeq
<1>6. /\ p \in Payment
      /\ p = [row |-> handler[h].row, invoice |-> Sub(h), status |-> "completed"]
      /\ p.row = handler[h].row /\ p.invoice = Sub(h)
  BY <1>3, <1>5 DEF Payment, PaymentStatus
<1>7. payments' = [payments EXCEPT ![n] = p]
  BY <1>1, <1>3
<1> HIDE DEF p
<1>8. /\ payments' \in Seq(Payment) /\ DOMAIN payments' = DOMAIN payments
      /\ payments'[n] = p
      /\ \A i \in DOMAIN payments : i # n => payments'[i] = payments[i]
  <2>1. payments' \in Seq(Payment)
    BY <1>3, <1>4, <1>6, <1>7, ExceptSeq
  <2> QED
    BY <1>3, <1>7, <2>1
<1>9. PaidOnce'
  <2>1. Apart("paid", Sub(h)) => \A i \in DOMAIN payments : i # n => payments'[i] # p
    BY <1>3, <1>6, <1>8 DEF PaymentExists
  <2> SUFFICES ASSUME NEW i \in DOMAIN payments, NEW j \in DOMAIN payments, i # j,
                      payments'[i].status = "completed", payments'[i] = payments'[j],
                      Apart("paid", payments'[i].invoice)
               PROVE  FALSE
    BY <1>1, <1>8 DEF PaidOnce, Apart
  <2>2. CASE i = n \/ j = n
    BY <1>6, <1>8, <2>1, <2>2
  <2>3. CASE i # n /\ j # n
    BY <1>8, <2>3 DEF Inv, Pays, PaidOnce
  <2> QED
    BY <2>2, <2>3
<1>10. handler'[h] = Idle /\ \A g \in Handlers \ {h} : handler'[g] = handler[g]
  BY <1>1, OneRequest, IdleRequest DEF Inv
<1>11. Pays'
  <2>1. ASSUME NEW g \in Handlers, At(g, "pay")' \/ At(g, "mark")'
        PROVE  /\ Apart("paid", Sub(g))' => ~PaymentExists(handler[g].row, Sub(g))'
               /\ At(g, "mark")' =>
                      /\ handler'[g].payment \in DOMAIN payments'
                      /\ payments'[handler'[g].payment].row = handler'[g].row
                      /\ payments'[handler'[g].payment].invoice = Sub(g)'
    <3>1. g # h /\ handler'[g] = handler[g] /\ Sub(g)' = Sub(g)
          /\ (At(g, "pay") \/ At(g, "mark")) /\ ~At(g, "idle")
      BY <1>10, <2>1 DEF Sub, At, Idle
    <3>2. ASSUME Apart("paid", Sub(g)) PROVE ~PaymentExists(handler[g].row, Sub(g))'
      <4>1. OnPay(g, Sub(g)) /\ Sub(g) \in Subs
        BY <3>1, AtWork DEF OnPay, Busy, At, Fits
      <4>2. Sub(g) # Sub(h)
        BY <1>2, <3>1, <3>2, <4>1 DEF Inv, Separate
      <4>3. ~PaymentExists(handler[g].row, Sub(g))
        BY <3>1, <3>2 DEF Inv, Pays
      <4>4. ASSUME NEW i \in DOMAIN payments
            PROVE  payments'[i] # [row |-> handler[g].row, invoice |-> Sub(g),
                                   status |-> "completed"]
        BY <1>6, <1>8, <4>2, <4>3 DEF PaymentExists
      <4> QED
        BY <1>8, <3>1, <4>4 DEF PaymentExists
    <3>3. ASSUME At(g, "mark")'
          PROVE  /\ handler'[g].payment \in DOMAIN payments'
                 /\ payments'[handler'[g].payment].row = handler'[g].row
                 /\ payments'[handler'[g].payment].invoice = Sub(g)'
      <4>1. /\ handler[g].payment \in DOMAIN payments
            /\ payments[handler[g].payment].row = handler[g].row
            /\ payments[handler[g].payment].invoice = Sub(g)
        BY <3>1, <3>3 DEF Inv, Pays, At
      <4> QED
        BY <1>3, <1>6, <1>8, <3>1, <4>1
    <3> QED
      BY <1>1, <3>1, <3>2, <3>3 DEF Apart
  <2> QED
    BY <1>9, <2>1 DEF Pays
<1>12. payments' \in Seq([row : DOMAIN rows, invoice : Subs, status : PaymentStatus])
       /\ DOMAIN payments \subseteq DOMAIN payments'
  BY <1>8 DEF Payment
<1>13. Idle.row = 0 /\ Idle.payment = 0
  BY DEF Idle
<1> QED
  BY <1>1, <1>2, <1>11, <1>12, <1>13, IdleRequest, PaysInv

-----------------------------------------------------------------------------
(* Stripe and the administrator.                                           *)

\* A subscription changes at Stripe, and what must be told of it is.
LEMMA StripeInv ==
    ASSUME Inv, NEW s \in Subs, NEW to \in StripeStatus \ {"none"},
           NEW types \in SUBSET EventType,
           stripe' = [stripe EXCEPT ![s] = to],
           pending' = pending \cup { [type |-> type, sub |-> s] : type \in types },
           UNCHANGED <<rows, payments, handler, met>>,
           to = "past_due" => "updated" \in types,
           to = "canceled" => "deleted" \in types,
           stripe[s] = "none" => "created" \in types,
           activation' \in Activation, activation'.row \in DOMAIN rows \cup {0},
           Turns',
           Activating("save")' =>
               \/ UNCHANGED activation
               \/ /\ activation'.sub = s /\ stripe[s] = "none"
                  /\ activation'.seen \notin Bad
    PROVE  Inv'
<1>1. /\ stripe' \in [Subs -> StripeStatus] /\ stripe'[s] = to
      /\ \A t \in Subs : t # s => stripe'[t] = stripe[t]
      /\ \A t \in Subs : stripe[t] # "none" => stripe'[t] # "none"
  BY DEF Inv, Typed, TypeOK
<1>2. /\ pending \subseteq pending'
      /\ \A type \in types : [type |-> type, sub |-> s] \in pending'
      /\ \A e \in pending' : e \in pending \/ e.sub = s
  OBVIOUS
<1>3. Ids' = Ids /\ Busy' = Busy
  BY DEF Ids, Busy, At
<1>4. pending' \subseteq Event
  BY DEF Inv, Typed, TypeOK, Event
<1>5. Typed'
  BY <1>1, <1>4 DEF Inv, Typed, TypeOK, Activation
<1>6. Known'
  <2>1. \A e \in pending' : stripe'[e.sub] # "none"
    <3>1. \A e \in pending : e.sub \in Subs /\ stripe[e.sub] # "none"
      BY DEF Inv, Known, Typed, TypeOK, Event
    <3> QED
      BY <3>1, <1>1, <1>2
  <2>2. \A i \in DOMAIN rows : rows[i].sub # NoSub => rows[i].sub \in Subs
    <3>1. rows \in Seq(Row) /\ DOMAIN rows = 1..Len(rows)
      <4>1. rows \in Seq(Row)
        BY DEF Inv, Typed, TypeOK, Row
      <4> QED
        BY <4>1, LenProperties
    <3>2. \A i \in DOMAIN rows : rows[i] \in Row
      BY <3>1, ElementOfSeq
    <3> QED
      BY <3>2 DEF Row
  <2>3. ASSUME NEW h \in Busy
        PROVE  /\ handler[h].event \in Event /\ stripe'[Sub(h)] # "none"
               /\ Fits(handler[h].step, handler[h].event.type)
    <3>1. Sub(h) \in Subs /\ stripe[Sub(h)] # "none" /\ handler[h].event \in Event
          /\ Fits(handler[h].step, handler[h].event.type)
      BY AtWork DEF Busy
    <3> QED
      BY <3>1, <1>1
  <2> QED
    BY <1>1, <1>3, <2>1, <2>2, <2>3 DEF Inv, Known, Sub
<1>7. Trials'
  BY DEF Inv, Trials
<1>8. \A on, t : Apart(on, t)' <=> Apart(on, t)
  BY DEF Apart
<1>9. stripe[s] = "none" => ~HasRow(s) /\ \A h \in Handlers : ~OnRow(h, s)
  BY SubscriptionAssumption DEF HasRow, OnRow, Inv, Known, Ids
<1>10. Separate'
  <2>1. ASSUME NEW t \in Subs, NEW h \in Handlers
        PROVE  (OnRow(h, t)' => OnRow(h, t)) /\ (OnPay(h, t)' => OnPay(h, t))
    BY <1>3 DEF OnRow, OnPay, Sub
  <2>2. ASSUME NEW t \in Subs, Apart("row", t)', Activating("save")', activation'.sub = t,
               NEW h \in Handlers, OnRow(h, t)'
        PROVE  FALSE
    <3>1. OnRow(h, t) /\ Apart("row", t)
      BY <1>8, <2>1, <2>2
    <3>2. UNCHANGED activation
      BY <1>9, <2>2, <3>1
    <3>3. Activating("save") /\ activation.sub = t
      BY <2>2, <3>2 DEF Activating
    <3> QED
      BY <3>1, <3>3 DEF Inv, Separate
  <2>3. ASSUME NEW t \in Subs, NEW g \in Handlers, NEW h \in Handlers, Apart("row", t)',
               OnRow(g, t)', OnRow(h, t)'
        PROVE  g = h
    <3>1. OnRow(g, t) /\ OnRow(h, t) /\ Apart("row", t)
      BY <1>8, <2>1, <2>3
    <3> QED
      BY <3>1 DEF Inv, Separate
  <2>4. ASSUME NEW t \in Subs, NEW g \in Handlers, NEW h \in Handlers, Apart("paid", t)',
               OnPay(g, t)', OnPay(h, t)'
        PROVE  g = h
    <3>1. OnPay(g, t) /\ OnPay(h, t) /\ Apart("paid", t)
      BY <1>8, <2>1, <2>4
    <3> QED
      BY <3>1 DEF Inv, Separate
  <2> QED
    BY <2>2, <2>3, <2>4 DEF Separate
<1>11. Finds'
  <2>1. Activating("save")' =>
            /\ activation'.sub \in Subs /\ stripe'[activation'.sub] # "none"
            /\ Apart("row", activation.sub)' => ~HasRow(activation.sub)'
    BY <1>1, <1>3, <1>8, <1>9 DEF Inv, Finds, Activating, HasRow, Apart
  <2>2. OneRowPerSubscription'
    BY <1>3, <1>8 DEF Inv, Finds, OneRowPerSubscription
  <2> QED
    BY <1>3, <2>1, <2>2 DEF Inv, Finds, HasRow, At, Sub, Apart
<1>12. Pays'
  BY DEF Inv, Pays, PaidOnce, PaymentExists, At, Sub, Apart
<1>13. RowComes'
  <2> SUFFICES ASSUME NEW t \in Subs, stripe'[t] # "none", ~HasRow(t)
               PROVE  \/ \E e \in pending' : e.sub = t /\ e.type \in Syncs
                      \/ \E h \in Busy : Sub(h) = t /\ handler[h].event.type \in Syncs
    BY <1>3 DEF RowComes, HasRow, Sub
  <2>1. CASE stripe[t] = "none"
    <3>1. t = s /\ [type |-> "created", sub |-> s] \in pending'
      BY <1>1, <1>2, <2>1
    <3> QED
      BY <3>1 DEF Syncs
  <2>2. CASE stripe[t] # "none"
    BY <1>2, <2>2 DEF Inv, RowComes
  <2> QED
    BY <2>1, <2>2
<1>14. RemedyComes(s)'
  BY <1>1, <1>2 DEF RemedyComes, Remedy, Bad
<1>15. ASSUME NEW t \in Subs, t # s
       PROVE  UNCHANGED Remedy(t) /\ (RemedyComes(t) => RemedyComes(t)')
  BY <1>1, <1>2, <1>15 DEF RemedyComes, Remedy
<1>16. Stale'
  <2>1. ASSUME NEW h \in Busy, handler[h].event.type \in Syncs,
               handler[h].step \in {"find", "write"}, Apart("row", Sub(h)),
               handler[h].seen \notin Bad
        PROVE  RemedyComes(Sub(h))'
    <3>1. Sub(h) \in Subs
      BY AtWork DEF Busy
    <3>2. RemedyComes(Sub(h))
      BY <2>1 DEF Inv, Stale
    <3>3. CASE Sub(h) = s
      BY <1>14, <3>3 DEF RemedyComes, Remedy, Sub
    <3>4. CASE Sub(h) # s
      BY <1>15, <3>1, <3>2, <3>4 DEF RemedyComes, Remedy, Sub
    <3> QED
      BY <3>3, <3>4
  <2>2. ASSUME Activating("save")', Apart("row", activation.sub)'
        PROVE  RemedyComes(activation.sub)'
    <3>1. CASE activation'.sub = s
      BY <1>14, <3>1 DEF RemedyComes, Remedy
    <3>2. CASE activation'.sub # s
      <4>1. activation' = activation /\ RemedyComes(activation.sub)
        BY <2>2, <3>2 DEF Inv, Stale, Activating, Apart
      <4>2. activation.sub \in Subs /\ activation.sub # s
        BY <2>2, <3>2, <4>1 DEF Inv, Finds, Activating
      <4> QED
        BY <1>15, <4>1, <4>2 DEF RemedyComes, Remedy
    <3> QED
      BY <3>1, <3>2
  <2>3. Activating("save")' => activation'.seen \notin Bad
    BY DEF Inv, Stale, Activating
  <2>4. \A h : Apart("row", Sub(h))' <=> Apart("row", Sub(h))
    BY DEF Apart, Sub
  <2>5. \A h : Sub(h)' = Sub(h)
    BY DEF Sub
  <2>6. \A h \in Busy' :
            /\ handler'[h].event.type \in Syncs /\ handler'[h].step \in {"find", "write"}
            /\ Apart("row", Sub(h))'
            => handler'[h].seen \in Bad \/ RemedyComes(Sub(h))'
    BY <1>3, <2>1, <2>4
  <2> QED
    BY <2>2, <2>3, <2>6 DEF Stale
<1>17. Alive'
  <2> SUFFICES ASSUME NEW i \in Ids, rows[i].status = "active",
                      Apart("row", rows[i].sub), ~RemedyComes(rows[i].sub)'
               PROVE  \E h \in Busy : handler[h].event = Remedy(rows[i].sub)'
                                       /\ Remedies(h)
    BY <1>3, <1>8 DEF Alive, Remedies, At
  <2>1. rows[i].sub \in Subs
    BY DEF Inv, Trials, Ids
  <2>2. rows[i].sub # s
    BY <1>14 DEF RemedyComes, Remedy
  <2>3. UNCHANGED Remedy(rows[i].sub) /\ ~RemedyComes(rows[i].sub)
    BY <1>15, <2>1, <2>2 DEF Remedy, RemedyComes
  <2> QED
    BY <2>3 DEF Inv, Alive
<1> QED
  BY <1>5, <1>6, <1>7, <1>10, <1>11, <1>12, <1>13, <1>16, <1>17 DEF Inv

LEMMA StripeStepInv ==
    ASSUME Inv, NEW s \in Subs, StripeStep(s) PROVE Inv'
<1>1. ASSUME NEW from, NEW to \in StripeStatus \ {"none"}, NEW types \in SUBSET EventType,
             to = "past_due" => "updated" \in types,
             to = "canceled" => "deleted" \in types,
             "none" \in from => "created" \in types,
             StripeChange(s, from, to, types)
      PROVE  Inv'
  <2>1. /\ stripe' = [stripe EXCEPT ![s] = to] /\ stripe[s] \in from
        /\ pending' = pending \cup { [type |-> type, sub |-> s] : type \in types }
        /\ UNCHANGED <<rows, payments, handler, activation, met>>
    BY <1>1 DEF StripeChange
  <2>2. activation' \in Activation /\ activation'.row \in DOMAIN rows \cup {0}
    BY <2>1 DEF Inv, Typed, TypeOK
  <2>3. Turns'
    BY <2>1 DEF Inv, Turns, Activating, At
  <2> QED
    BY <1>1, <2>1, <2>2, <2>3, StripeInv
<1>2. CASE Checkout(s)
  BY <1>1, <1>2 DEF Checkout, StripeStatus, EventType
<1>3. CASE InvoicePaid(s)
  BY <1>1, <1>3 DEF InvoicePaid, StripeStatus, EventType
<1>4. CASE InvoiceFails(s)
  BY <1>1, <1>4 DEF InvoiceFails, StripeStatus, EventType
<1>5. CASE NeverPaid(s)
  BY <1>1, <1>5 DEF NeverPaid, StripeStatus, EventType
<1>6. CASE CancelledAtStripe(s)
  BY <1>1, <1>6 DEF CancelledAtStripe, StripeStatus, EventType
<1> QED
  BY <1>2, <1>3, <1>4, <1>5, <1>6 DEF StripeStep

LEMMA CreateTrialInv ==
    ASSUME Inv, CreateTrial PROVE Inv'
<1>1. /\ rows' = Inserted(NoSub, "trial")
      /\ UNCHANGED <<stripe, pending, payments, handler, activation, met>>
  BY DEF CreateTrial
<1>2. RowAdded(NoSub, "trial")
  BY <1>1, AddedRow DEF Inv, Typed, RowStatus
<1>3. PICK n \in Nat \ DOMAIN rows :
          /\ DOMAIN rows' = DOMAIN rows \cup {n} /\ Ids' = Ids \cup {n}
          /\ rows'[n] = [sub |-> NoSub, status |-> "trial"]
          /\ \A j \in DOMAIN rows : rows'[j] = rows[j]
  BY <1>2 DEF RowAdded
<1>4. rows' \in Seq(Row) /\ rows'[n].sub = NoSub /\ rows'[n].status = "trial"
  BY <1>2, <1>3 DEF RowAdded
<1>5. Ids \subseteq DOMAIN rows /\ Busy' = Busy
  BY <1>1 DEF Ids, Busy, At
<1>6. NoSub \notin Subs
  BY SubscriptionAssumption
<1>7. \A t \in Subs : HasRow(t)' <=> HasRow(t)
  BY <1>3, <1>4, <1>5, <1>6 DEF HasRow
<1>8. Typed'
  <2>1. payments' \in Seq([row : DOMAIN rows', invoice : Subs, status : PaymentStatus])
    BY <1>1, <1>3, PaymentsStay DEF Inv, Typed
  <2>2. rows' \in Seq([sub : Subs \cup {NoSub}, status : RowStatus])
    BY <1>4 DEF Row
  <2>3. \A h \in Handlers : handler[h].row \in DOMAIN rows' \cup {0}
    BY <1>3 DEF Inv, Typed, TypeOK
  <2>4. activation.row \in DOMAIN rows' \cup {0}
    BY <1>3 DEF Inv, Typed, TypeOK
  <2> QED
    BY <1>1, <2>1, <2>2, <2>3, <2>4 DEF Inv, Typed, TypeOK
<1>9. Turns'
  BY <1>1 DEF Inv, Turns, Activating, At
<1>10. Known'
  BY <1>1, <1>3, <1>4, <1>5 DEF Inv, Known, Sub
<1>11. Trials'
  BY <1>3, <1>4 DEF Inv, Trials
<1>12. Finds'
  <2>1. OneRowPerSubscription'
    BY <1>1, <1>3, <1>4, <1>5 DEF Inv, Finds, OneRowPerSubscription, Apart
  <2>2. ASSUME NEW h \in Handlers, At(h, "write")
        PROVE  /\ handler[h].row # 0 =>
                     handler[h].row \in Ids' /\ rows'[handler[h].row].sub = Sub(h)
               /\ handler[h].row = 0 /\ Apart("row", Sub(h)) => ~HasRow(Sub(h))'
    <3>1. Sub(h) \in Subs
      BY <2>2, AtWork DEF At
    <3>2. /\ handler[h].row # 0 =>
                handler[h].row \in Ids /\ rows[handler[h].row].sub = Sub(h)
          /\ handler[h].row = 0 /\ Apart("row", Sub(h)) => ~HasRow(Sub(h))
      BY <2>2 DEF Inv, Finds
    <3>3. HasRow(Sub(h))' <=> HasRow(Sub(h))
      BY <1>1, <1>7, <3>1 DEF HasRow, Sub
    <3> QED
      BY <1>3, <1>5, <3>2, <3>3
  <2>3. Activating("save")' =>
            /\ activation.sub \in Subs /\ stripe[activation.sub] # "none"
            /\ Apart("row", activation.sub)' => ~HasRow(activation.sub)'
    BY <1>1, <1>7 DEF Inv, Finds, Activating, HasRow, Apart
  <2> QED
    BY <1>1, <2>1, <2>2, <2>3 DEF Finds, At, Sub, Apart
<1>13. Pays'
  BY <1>1 DEF Inv, Pays, PaidOnce, PaymentExists, At, Sub, Apart
<1>14. RowComes'
  BY <1>1, <1>5, <1>7 DEF Inv, RowComes, Sub
<1>15. Stale'
  BY <1>1, <1>5 DEF Inv, Stale, RemedyComes, Remedy, Activating, Sub, Apart
<1>16. Alive'
  <2> SUFFICES ASSUME NEW i \in Ids, rows[i].status = "active", Apart("row", rows[i].sub)
               PROVE  \/ RemedyComes(rows[i].sub)
                      \/ \E h \in Busy : handler[h].event = Remedy(rows[i].sub)
                                          /\ Remedies(h)
    BY <1>1, <1>3, <1>4, <1>5 DEF Alive, RemedyComes, Remedy, Remedies, At, Apart
  <2> QED
    BY DEF Inv, Alive
<1>17. Separate'
  BY <1>1, StaySeparate DEF Inv, At
<1> QED
  BY <1>8, <1>9, <1>10, <1>11, <1>12, <1>13, <1>14, <1>15, <1>16, <1>17 DEF Inv

\* An activation begins, or ends with an error, or goes on without a write.
LEMMA NothingWrittenInv ==
    ASSUME Inv, UNCHANGED <<stripe, pending, rows, payments, handler, met>>,
           activation' \in Activation, activation'.row \in DOMAIN rows \cup {0},
           activation'.step = "idle" => activation' = NotActivating,
           activation'.step # "save"
    PROVE  Inv'
<1>1. Ids' = Ids /\ Busy' = Busy /\ ~Activating("save")'
  BY DEF Ids, Busy, At, Activating
<1>2. Typed'
  BY DEF Inv, Typed, TypeOK, Activation
<1>3. Turns'
  BY DEF Turns, Activating
<1>4. Known' /\ Trials'
  BY <1>1 DEF Inv, Known, Trials, Sub
<1>5. Separate'
  BY <1>1, StaySeparate DEF Inv, At
<1>6. Finds' /\ Pays'
  BY <1>1 DEF Inv, Finds, Pays, OneRowPerSubscription, PaidOnce, PaymentExists, HasRow,
              At, Sub, Apart
<1>7. RowComes'
  BY <1>1 DEF Inv, RowComes, HasRow, Sub
<1>8. Stale'
  BY <1>1 DEF Inv, Stale, RemedyComes, Remedy, Sub, Apart
<1>9. Alive'
  BY <1>1 DEF Inv, Alive, RemedyComes, Remedy, Remedies, At, Apart
<1> QED
  BY <1>2, <1>3, <1>4, <1>5, <1>6, <1>7, <1>8, <1>9 DEF Inv

LEMMA ActivateInv ==
    ASSUME Inv, Activate PROVE Inv'
<1>1. /\ activation' \in {[NotActivating EXCEPT !.step = "cancel", !.row = Current],
                          [NotActivating EXCEPT !.step = "trials"]}
      /\ UNCHANGED <<stripe, pending, rows, payments, handler, met>>
  BY DEF Activate
<1>2. Current \in DOMAIN rows \cup {0} /\ Current \in Nat
  <2>1. Current \in DOMAIN rows \cup {0}
    BY CurrentIsRow DEF Inv, Typed, Ids
  <2> QED
    BY <2>1 DEF Inv, Typed, TypeOK
<1>3. ASSUME NEW row \in Nat, NEW step \in {"cancel", "trials"},
             activation' = [step |-> step, row |-> row, sub |-> NoSub, seen |-> "none"]
      PROVE  activation' \in Activation /\ activation'.row = row /\ activation'.step = step
  BY <1>3 DEF Activation, ActivationStep, StripeStatus
<1>4. \/ activation' = [step |-> "cancel", row |-> Current, sub |-> NoSub, seen |-> "none"]
      \/ activation' = [step |-> "trials", row |-> 0, sub |-> NoSub, seen |-> "none"]
  <2>1. CASE activation' = [NotActivating EXCEPT !.step = "cancel", !.row = Current]
    BY <2>1 DEF NotActivating
  <2>2. CASE activation' = [NotActivating EXCEPT !.step = "trials"]
    BY <2>2 DEF NotActivating
  <2> QED
    BY <1>1, <2>1, <2>2
<1>5. /\ activation' \in Activation /\ activation'.row \in {Current, 0}
      /\ activation'.step \in {"cancel", "trials"}
  BY <1>2, <1>3, <1>4
<1> QED
  BY <1>1, <1>2, <1>5, NothingWrittenInv

LEMMA ActivationThrowsInv ==
    ASSUME Inv, ActivationThrows PROVE Inv'
<1>1. /\ activation' = NotActivating
      /\ UNCHANGED <<stripe, pending, rows, payments, handler, met>>
  BY DEF ActivationThrows
<1>2. /\ NotActivating \in Activation /\ NotActivating.row = 0
      /\ NotActivating.step # "save"
  BY DEF NotActivating, Activation, ActivationStep, StripeStatus
<1> QED
  BY <1>1, <1>2, NothingWrittenInv

LEMMA CancelPreviousInv ==
    ASSUME Inv, NEW s \in Subs, CancelPrevious(s) PROVE Inv'
<1> DEFINE a == [activation EXCEPT !.step = "retire"]
<1>1. /\ activation' = a
      /\ UNCHANGED <<rows, payments, handler, met>>
      /\ \/ /\ stripe[s] \in {"incomplete", "active", "past_due"}
            /\ stripe' = [stripe EXCEPT ![s] = "canceled"]
            /\ pending' = pending \cup {[type |-> "deleted", sub |-> s]}
         \/ UNCHANGED <<stripe, pending>>
  BY DEF CancelPrevious
<1>2. a \in Activation /\ a.step = "retire" /\ a.row \in DOMAIN rows \cup {0}
  BY DEF Inv, Typed, TypeOK, Activation, ActivationStep
<1> HIDE DEF a
<1>3. CASE UNCHANGED <<stripe, pending>>
  BY <1>1, <1>2, <1>3, NothingWrittenInv
<1>4. CASE stripe[s] # "none" /\ stripe' = [stripe EXCEPT ![s] = "canceled"]
           /\ pending' = pending \cup {[type |-> "deleted", sub |-> s]}
  <2>1. pending' = pending \cup { [type |-> type, sub |-> s] : type \in {"deleted"} }
    BY <1>4
  <2>2. "canceled" \in StripeStatus \ {"none"} /\ {"deleted"} \in SUBSET EventType
    BY DEF StripeStatus, EventType
  <2>3. Turns' /\ ~Activating("save")'
    BY <1>1, <1>2 DEF Turns, Activating
  <2> QED
    BY <1>1, <1>2, <1>4, <2>1, <2>2, <2>3, StripeInv
<1> QED
  BY <1>1, <1>3, <1>4

LEMMA CreateAtStripeInv ==
    ASSUME Inv, NEW s \in Subs, NEW status \in {"incomplete", "active"},
           CreateAtStripe(s, status)
    PROVE  Inv'
<1> DEFINE a == [activation EXCEPT !.step = "save", !.sub = s, !.seen = status]
<1>1. /\ activation' = a /\ stripe[s] = "none"
      /\ stripe' = [stripe EXCEPT ![s] = status]
      /\ pending' = pending \cup {[type |-> "created", sub |-> s]}
      /\ UNCHANGED <<rows, payments, handler, met>>
  BY DEF CreateAtStripe
<1>2. /\ a \in Activation /\ a.step = "save" /\ a.row \in DOMAIN rows \cup {0}
      /\ a.sub = s /\ a.seen = status
  BY DEF Inv, Typed, TypeOK, Activation, ActivationStep, StripeStatus
<1> HIDE DEF a
<1>3. pending' = pending \cup { [type |-> type, sub |-> s] : type \in {"created"} }
  BY <1>1
<1>4. status \in StripeStatus \ {"none"} /\ {"created"} \in SUBSET EventType
      /\ status \notin Bad /\ status \notin {"past_due", "canceled"}
  BY DEF StripeStatus, EventType, Bad
<1>5. Turns'
  BY <1>1, <1>2 DEF Turns, Activating
<1> QED
  BY <1>1, <1>2, <1>3, <1>4, <1>5, StripeInv

\* The activation cancels the row of the subscription before, or deletes the
\* trials.
LEMMA RetiresInv ==
    ASSUME Inv, UNCHANGED <<stripe, pending, payments, handler, met>>,
           activation' \in Activation, activation'.row \in DOMAIN rows \cup {0},
           activation'.step \notin {"idle", "save"},
           rows' \in Seq(Row), DOMAIN rows' = DOMAIN rows, Ids' \subseteq Ids,
           \A j \in Ids \ Ids' : rows[j].status = "trial",
           \A j \in DOMAIN rows :
               /\ rows'[j].sub = rows[j].sub
               /\ rows'[j] = rows[j] \/ rows'[j].status \in {"cancelled", "deleted"}
    PROVE  Inv'
<1>1. Busy' = Busy /\ Ids \subseteq DOMAIN rows /\ ~Activating("save")'
  BY DEF Busy, At, Ids, Activating
<1>2. Typed'
  BY DEF Inv, Typed, TypeOK, Activation, Row
<1>3. Turns'
  BY DEF Turns, Activating
<1>4. Known'
  BY <1>1 DEF Inv, Known, Sub
<1>5. Trials'
  BY DEF Inv, Trials
<1>6. Separate'
  BY <1>1, StaySeparate DEF Inv, At
<1>7. ASSUME NEW t PROVE HasRow(t)' => HasRow(t)
  BY <1>1 DEF HasRow
<1>8. ASSUME NEW j \in Ids, rows[j].sub \in Subs
      PROVE  j \in Ids' /\ rows'[j].sub = rows[j].sub
  BY <1>1, <1>8, SubscriptionAssumption DEF Inv, Trials
<1>9. Finds'
  <2>1. OneRowPerSubscription'
    BY <1>1 DEF Inv, Finds, OneRowPerSubscription, Apart
  <2>2. ASSUME NEW g \in Handlers, At(g, "write")'
        PROVE  /\ handler'[g].row # 0 =>
                     handler'[g].row \in Ids' /\ rows'[handler'[g].row].sub = Sub(g)'
               /\ handler'[g].row = 0 /\ Apart("row", Sub(g))' => ~HasRow(Sub(g))'
    <3>1. At(g, "write") /\ ~At(g, "idle") /\ Sub(g)' = Sub(g)
      BY <2>2 DEF At, Sub
    <3>2. Sub(g) \in Subs
      BY <3>1, AtWork
    <3>3. /\ handler[g].row # 0 =>
                handler[g].row \in Ids /\ rows[handler[g].row].sub = Sub(g)
          /\ handler[g].row = 0 /\ Apart("row", Sub(g)) => ~HasRow(Sub(g))
      BY <3>1 DEF Inv, Finds
    <3>4. HasRow(Sub(g))' => HasRow(Sub(g))
      BY <1>1, <3>1 DEF HasRow
    <3>5. Apart("row", Sub(g))' => Apart("row", Sub(g))
      BY <3>1 DEF Apart
    <3> QED
      BY <1>8, <3>1, <3>2, <3>3, <3>4, <3>5
  <2> QED
    BY <1>1, <2>1, <2>2 DEF Finds
<1>10. Pays'
  BY DEF Inv, Pays, PaidOnce, PaymentExists, At, Sub, Apart
<1>11. RowComes'
  <2>1. ASSUME NEW t \in Subs, HasRow(t) PROVE HasRow(t)'
    <3>1. PICK j \in Ids : rows[j].sub = t
      BY <2>1 DEF HasRow
    <3> QED
      BY <1>8, <3>1 DEF HasRow
  <2> QED
    BY <1>1, <2>1 DEF Inv, RowComes, Sub
<1>12. Stale'
  BY <1>1 DEF Inv, Stale, RemedyComes, Remedy, Sub, Apart
<1>13. Alive'
  <2> SUFFICES ASSUME NEW j \in Ids', rows'[j].status = "active", Apart("row", rows'[j].sub)
               PROVE  \/ RemedyComes(rows'[j].sub)
                      \/ \E g \in Busy : handler[g].event = Remedy(rows'[j].sub)
                                          /\ Remedies(g)
    BY <1>1 DEF Alive, RemedyComes, Remedy, Remedies, At, Apart
  <2>1. j \in Ids /\ rows'[j] = rows[j]
    BY <1>1
  <2> QED
    BY <2>1 DEF Inv, Alive
<1> QED
  BY <1>2, <1>3, <1>4, <1>5, <1>6, <1>9, <1>10, <1>11, <1>12, <1>13 DEF Inv

LEMMA RetirePreviousInv ==
    ASSUME Inv, RetirePrevious PROVE Inv'
<1> DEFINE a == [NotActivating EXCEPT !.step = "trials"]
<1>1. /\ activation' = a
      /\ rows' = Updated(activation.row, "cancelled")
      /\ UNCHANGED <<stripe, pending, payments, handler, met>>
  BY DEF RetirePrevious
<1>2. a \in Activation /\ a.step = "trials" /\ a.row = 0
  BY DEF NotActivating, Activation, ActivationStep, StripeStatus
<1> HIDE DEF a
<1>3. RowUpdated(activation.row, "cancelled")
  BY <1>1, UpdatedRow DEF Inv, Typed
<1> QED
  BY <1>1, <1>2, <1>3, RetiresInv DEF RowUpdated

LEMMA DeleteTrialsInv ==
    ASSUME Inv, DeleteTrials PROVE Inv'
<1> DEFINE trials == { i \in Ids : rows[i].status = "trial" }
           a == [activation EXCEPT !.step = "create"]
<1>1. UNCHANGED <<stripe, pending, payments, handler, met>>
  BY DEF DeleteTrials
<1>2. CASE activation' = NotActivating /\ UNCHANGED rows
  <2>1. /\ NotActivating \in Activation /\ NotActivating.row = 0
        /\ NotActivating.step # "save"
    BY DEF NotActivating, Activation, ActivationStep, StripeStatus
  <2> QED
    BY <1>1, <1>2, <2>1, NothingWrittenInv
<1>3. CASE /\ activation' = a
           /\ rows' = [i \in DOMAIN rows |->
                          IF i \in trials THEN [rows[i] EXCEPT !.status = "deleted"]
                                          ELSE rows[i]]
  <2>1. a \in Activation /\ a.step = "create" /\ a.row \in DOMAIN rows \cup {0}
    BY DEF Inv, Typed, TypeOK, Activation, ActivationStep
  <2> HIDE DEF a
  <2>2. TrialsDeleted
    BY <1>3, DeletedTrials DEF Inv, Typed
  <2> QED
    BY <1>1, <1>3, <2>1, <2>2, RetiresInv DEF TrialsDeleted
<1> QED
  BY <1>2, <1>3 DEF DeleteTrials

\* The activation inserts its row without looking; where no event of the
\* subscription has met it, nothing else has.
LEMMA SaveActivatedInv ==
    ASSUME Inv, SaveActivated PROVE Inv'
<1> DEFINE status == MapStripeStatus(activation.seen)
<1>1. /\ Activating("save") /\ activation' = NotActivating
      /\ rows' = Inserted(activation.sub, status)
      /\ UNCHANGED <<stripe, pending, payments, handler, met>>
  BY DEF SaveActivated
<1>2. PICK s \in Subs : s = activation.sub
  BY <1>1 DEF Inv, Finds
<1>3. stripe[s] # "none" /\ (Apart("row", s) => ~HasRow(s) /\ RemedyComes(s))
  BY <1>1, <1>2 DEF Inv, Finds, Stale
<1>4. status \in {"active", "suspended", "cancelled"} /\ rows' = Inserted(s, status)
  BY <1>1, <1>2 DEF MapStripeStatus
<1>5. ~Activating("save")'
  BY <1>1 DEF Activating, NotActivating
<1>6. handler' \in [Handlers -> Request] /\ \A g \in Handlers : handler'[g] = handler[g]
  BY <1>1 DEF Inv, Typed
<1>7. Apart("row", s) => \A g \in Handlers : ~OnRow(g, s)'
  BY <1>1, <1>2 DEF Inv, Separate, OnRow, Busy, At, Sub
<1> HIDE DEF status
<1> QED
  BY <1>1, <1>3, <1>4, <1>5, <1>6, <1>7, AddedInv

-----------------------------------------------------------------------------
(* The theorems.                                                           *)

LEMMA InitInv == Init => Inv
<1> SUFFICES ASSUME Init PROVE Inv
  OBVIOUS
<1> DEFINE trial == [sub |-> NoSub, status |-> "trial"]
<1>1. /\ \A s \in Subs : stripe[s] = "none"
      /\ stripe \in [Subs -> StripeStatus] /\ pending = {} /\ payments = <<>>
      /\ handler = [h \in Handlers |-> Idle] /\ activation = NotActivating
      /\ rows = <<trial>> /\ met = {}
  BY DEF Init, StripeStatus
<1>2. /\ rows \in Seq(Row) /\ DOMAIN rows = {1} /\ rows[1] = trial
      /\ rows[1].sub = NoSub /\ rows[1].status = "trial"
  BY <1>1 DEF Row, RowStatus
<1>3. Idle.row = 0 /\ Idle.payment = 0 /\ Idle.step = "idle" /\ Idle.seen = "none"
      /\ Idle.event = NoEvent
  BY DEF Idle
<1>4. /\ NotActivating \in Activation /\ NotActivating.row = 0
      /\ NotActivating.sub = NoSub /\ NotActivating.step = "idle"
  BY DEF NotActivating, Activation, ActivationStep, StripeStatus
<1> HIDE DEF trial
<1>5. Busy = {} /\ \A h \in Handlers : handler[h] = Idle
  BY <1>1, <1>3 DEF Busy, At
<1>6. Typed
  <2>1. payments \in Seq([row : DOMAIN rows, invoice : Subs, status : PaymentStatus])
    BY <1>1
  <2>2. rows \in Seq([sub : Subs \cup {NoSub}, status : RowStatus])
    BY <1>2 DEF Row
  <2>3. handler \in [Handlers -> Request]
    BY <1>1, IdleRequest
  <2>4. "none" \in StripeStatus
    BY DEF StripeStatus
  <2> QED
    BY <1>1, <1>3, <1>4, <1>5, <2>1, <2>2, <2>3, <2>4 DEF Typed, TypeOK
<1>7. Turns
  BY <1>1, <1>4 DEF Turns, Activating
<1>8. Known /\ Trials /\ Separate
  BY <1>1, <1>2, <1>4, <1>5 DEF Known, Trials, Separate, OnRow, OnPay, Activating
<1>9. Finds
  <2>1. OneRowPerSubscription
    BY <1>2 DEF OneRowPerSubscription, Ids
  <2> QED
    BY <1>1, <1>3, <1>4, <1>5, <2>1 DEF Finds, At, Activating
<1>10. Pays
  BY <1>1, <1>3, <1>5 DEF Pays, PaidOnce, At
<1>11. RowComes
  BY <1>1 DEF RowComes
<1>12. Stale
  BY <1>1, <1>4, <1>5 DEF Stale, Activating
<1>13. Alive
  BY <1>2 DEF Alive, Ids
<1> QED
  BY <1>6, <1>7, <1>8, <1>9, <1>10, <1>11, <1>12, <1>13 DEF Inv

LEMMA WebhookStepInv ==
    ASSUME Inv, NEW h \in Handlers, WebhookStep(h) PROVE Inv'
<1>1. ASSUME NEW e \in pending, NEW again \in BOOLEAN, Deliver(h, e, again)
      PROVE  Inv'
  BY <1>1, DeliverInv
<1>2. CASE CheckExisting(h)
  BY <1>2, CheckExistingInv
<1>3. CASE Retrieve(h)
  BY <1>3, RetrieveInv
<1>4. CASE FindRow(h)
  BY <1>4, FindRowInv
<1>5. CASE WriteSynced(h)
  BY <1>5, WriteSyncedInv
<1>6. CASE WriteCancelled(h)
  BY <1>6, WriteCancelledInv
<1>7. CASE FindCurrent(h)
  BY <1>7, FindCurrentInv
<1>8. CASE Suspend(h)
  BY <1>8, SuspendInv
<1>9. CASE LookForPayment(h)
  BY <1>9, LookForPaymentInv
<1>10. CASE CreatePayment(h)
  BY <1>10, CreatePaymentInv
<1>11. CASE MarkAsPaid(h)
  BY <1>11, MarkAsPaidInv
<1>12. CASE Throw(h)
  BY <1>12, ThrowInv
<1> QED
  BY <1>1, <1>2, <1>3, <1>4, <1>5, <1>6, <1>7, <1>8, <1>9, <1>10, <1>11, <1>12
     DEF WebhookStep

LEMMA AdminStepInv ==
    ASSUME Inv, AdminStep PROVE Inv'
<1>1. CASE CreateTrial
  BY <1>1, CreateTrialInv
<1>2. CASE Activate
  BY <1>2, ActivateInv
<1>3. ASSUME NEW s \in Subs, CancelPrevious(s) PROVE Inv'
  BY <1>3, CancelPreviousInv
<1>4. CASE RetirePrevious
  BY <1>4, RetirePreviousInv
<1>5. CASE DeleteTrials
  BY <1>5, DeleteTrialsInv
<1>6. ASSUME NEW s \in Subs, NEW status \in {"incomplete", "active"},
             CreateAtStripe(s, status)
      PROVE  Inv'
  BY <1>6, CreateAtStripeInv
<1>7. CASE SaveActivated
  BY <1>7, SaveActivatedInv
<1>8. CASE ActivationThrows
  BY <1>8, ActivationThrowsInv
<1> QED
  BY <1>1, <1>2, <1>3, <1>4, <1>5, <1>6, <1>7, <1>8 DEF AdminStep

LEMMA StutterInv == ASSUME Inv, UNCHANGED vars PROVE Inv'
<1>1. UNCHANGED <<stripe, pending, rows, payments, handler, activation, met>>
  BY DEF vars
<1>2. Typed' /\ Turns' /\ Known' /\ Trials'
  BY <1>1 DEF Inv, Typed, TypeOK, Turns, Known, Trials, Busy, At, Sub, Activating
<1>3. Separate' /\ Finds' /\ Pays'
  BY <1>1 DEF Inv, Separate, OnRow, OnPay, Finds, Pays, OneRowPerSubscription, PaidOnce,
              PaymentExists, HasRow, Ids, Busy, At, Sub, Activating, Apart
<1>4. RowComes' /\ Stale' /\ Alive'
  BY <1>1 DEF Inv, RowComes, Stale, Alive, HasRow, RemedyComes, Remedy, Remedies,
              Ids, Busy, At, Sub, Activating, Apart
<1> QED
  BY <1>2, <1>3, <1>4 DEF Inv

\* Whatever order the events come in, however often, however many requests run
\* at a time and whatever fails on the way, the table, the events still to come
\* and what the requests hold fit together.
THEOREM TableFollowsStripe == Spec => []Inv
<1>1. Init => Inv
  BY InitInv
<1>2. Inv /\ [Next]_vars => Inv'
  BY StripeStepInv, WebhookStepInv, AdminStepInv, StutterInv DEF Next
<1> QED
  BY <1>1, <1>2, PTL DEF Spec

\* The two tables, the events and the requests are well formed.
THEOREM SubscriptionTypes == Spec => []TypeOK
<1>1. Inv => TypeOK
  BY DEF Inv, Typed
<1> QED
  BY <1>1, TableFollowsStripe, PTL

\* checkout.session.completed, customer.subscription.created and
\* activateSubscription between them store a second row of a subscription only
\* if two of them have worked on it at a time: nothing is locked between the
\* look for a row and the INSERT, and nothing else is needed to go wrong.
THEOREM OneRow == Spec => []OneRowPerSubscription
<1>1. Inv => OneRowPerSubscription
  BY DEF Inv, Finds
<1> QED
  BY <1>1, TableFollowsStripe, PTL

\* handleInvoicePaymentSucceeded records an invoice twice for a row only if two
\* deliveries of it have been handled at a time.
THEOREM InvoicePaidOnce == Spec => []PaidOnce
<1>1. Inv => PaidOnce
  BY DEF Inv, Pays
<1> QED
  BY <1>1, TableFollowsStripe, PTL

\* When all is handled, by however many requests at a time, what Stripe has has
\* a row: no event that makes one is lost.
THEOREM RowAtRest == Spec => []SubscriptionHasRow
<1>1. Inv => SubscriptionHasRow
  BY DEF Inv, RowComes, HasRow, SubscriptionHasRow, Rest
<1> QED
  BY <1>1, TableFollowsStripe, PTL

\* When all is handled, nobody is let in by a subscription that is over or in
\* arrears, unless two requests have worked on its row at a time, one with a
\* status read before the other's: syncSubscriptionFromStripe and
\* handleSubscriptionCancelled.
THEOREM AccessAtRest == Spec => []ActiveIsAlive
<1>1. Inv => ActiveIsAlive
  BY DEF Inv, Alive, RemedyComes, Bad, ActiveIsAlive, Rest
<1> QED
  BY <1>1, TableFollowsStripe, PTL
=============================================================================

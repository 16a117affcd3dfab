-------------------------- MODULE SubscriptionWebhook --------------------------
(***************************************************************************)
(* The subscription of one tenant, kept twice: at Stripe and in the table  *)
(* tenant_subscription.  stripe-webhook.controller.ts brings the table up  *)
(* to date, event by event; an administrator can put the tenant on a plan  *)
(* with activateSubscription, which writes both.                           *)
(*                                                                         *)
(* Stripe delivers an event again until a handler has answered 200, in no  *)
(* order, and sometimes again after that.  Its side, and the customer who  *)
(* pays there, is modelled from how the handlers use it.  A subscription   *)
(* has one invoice here, named like the subscription.                      *)
(*                                                                         *)
(* Every await of a handler is the end of a step, and nothing keeps other  *)
(* requests from coming between: webhook requests overlap with each other  *)
(* and with an activation.  Plans, prices, dates and the customer are left *)
(* out: they decide no branch that matters here.                           *)
(***************************************************************************)
EXTENDS Integers, FiniteSets, SequencesExt

CONSTANTS
    Subs,         \* ids Stripe may give to a subscription
    NoSub,        \* stripeSubscriptionId IS NULL
    Handlers,     \* webhook requests that can run at a time
    MaxRequests,  \* bound: requests, an activation included, at a time
    MaxRows,      \* bound: rows ever stored in the two tables
    MaxPending,   \* bound: events under way when Stripe adds one
    MaxAgain      \* bound: events under way when one is to come again

ASSUME SubscriptionAssumption ==
    /\ NoSub \notin Subs
    /\ {MaxRequests, MaxRows, MaxPending, MaxAgain} \subseteq Nat

VARIABLES
    stripe,     \* the status of each subscription at Stripe
    pending,    \* the events Stripe is still to deliver
    rows,       \* tenant_subscription in the order of id and createdAt
    payments,   \* payment in the order of id
    handler,    \* what each running webhook request knows
    activation, \* what the running activateSubscription knows
    met         \* history: what two requests have worked on at a time

vars == <<stripe, pending, rows, payments, handler, activation, met>>

-----------------------------------------------------------------------------
(* Statuses and rows.                                                      *)

StripeStatus == {"none", "incomplete", "incomplete_expired", "active",
                 "past_due", "canceled"}

\* Mutant: a subscription that owes its invoice counts as active.
MapStripeStatus_PastDueActive(status) ==
    IF status = "canceled" THEN "cancelled" ELSE "active"

\* Mutant: no mapping.
MapStripeStatus_Raw(status) == status

\* Whatever the switch does not name is active.
MapStripeStatus(status) ==
    CASE status = "past_due" -> "suspended"
      [] status = "canceled" -> "cancelled"
      [] OTHER               -> "active"

\* A deleted row keeps its place, so that a place is an id.
RowStatus     == {"trial", "active", "suspended", "cancelled", "deleted"}
PaymentStatus == {"pending", "completed"}

EventType == {"checkout", "created", "updated", "deleted", "paid", "failed"}
Event     == [type : EventType, sub : Subs]
NoEvent   == [type |-> "none", sub |-> NoSub]

Idle == [event |-> NoEvent, step |-> "idle", seen |-> "none", row |-> 0,
         payment |-> 0]

NotActivating == [step |-> "idle", row |-> 0, sub |-> NoSub, seen |-> "none"]

Ids == { i \in DOMAIN rows : rows[i].status # "deleted" }

\* Mutant: looks for any row of the tenant.
RowsOf_Tenant(sub) == IF Ids = {} THEN {0} ELSE Ids

\* Mutant: does not look.
RowsOf_None(sub) == {0}

\* findOne({ where: { stripeSubscriptionId } }): a row of it, 0 for none.
RowsOf(sub) ==
    LET found == { i \in Ids : rows[i].sub = sub }
    IN  IF found = {} THEN {0} ELSE found

\* findCurrentTenantSubscription: the newest active row, else the newest
\* trial.
Current ==
    LET With(status) == { i \in Ids : rows[i].status = status }
    IN  IF With("active") # {} THEN Max(With("active"))
        ELSE IF With("trial") # {} THEN Max(With("trial"))
        ELSE 0

\* An UPDATE by id; of a row deleted meanwhile it finds nothing.
Updated(i, status) ==
    IF i \in Ids THEN [rows EXCEPT ![i].status = status] ELSE rows

RowsLeft == Len(rows) + Len(payments) < MaxRows

Inserted(sub, status) == Append(rows, [sub |-> sub, status |-> status])

Init ==
    /\ stripe = [s \in Subs |-> "none"]
    /\ pending = {}
    /\ rows = <<[sub |-> NoSub, status |-> "trial"]>>
    /\ payments = <<>>
    /\ handler = [h \in Handlers |-> Idle]
    /\ activation = NotActivating
    /\ met = {}

-----------------------------------------------------------------------------
(* The requests at work.                                                   *)

Set(h, record)   == handler' = [handler EXCEPT ![h] = record]
At(h, step)      == handler[h].step = step
Sub(h)           == handler[h].event.sub
Activating(step) == activation.step = step

Busy == { h \in Handlers : ~At(h, "idle") }

EventsUnderWay == Cardinality(pending) + Cardinality(Busy)

MayStart == Cardinality(Busy) + (IF Activating("idle") THEN 0 ELSE 1) < MaxRequests

\* The events whose handler writes the row of their subscription.
RowEvents == {"checkout", "created", "updated", "deleted"}

\* What the handler of an event works on, for which nothing is locked: the row
\* of a subscription or the payment of its invoice.
Work(e) == [on |-> IF e.type \in RowEvents THEN "row" ELSE e.type, sub |-> e.sub]

\* A request at work, or an activation that is about to insert its row, works
\* on the same.
Meets(e) ==
    /\ e.type \in RowEvents \cup {"paid"}
    /\ \/ \E g \in Busy : Work(handler[g].event) = Work(e)
       \/ e.type \in RowEvents /\ Activating("save") /\ activation.sub = e.sub

-----------------------------------------------------------------------------
(* Stripe, the customer at its pages, and the events it emits.             *)

StripeChange(s, from, to, types) ==
    /\ stripe[s] \in from /\ EventsUnderWay <= MaxPending
    /\ stripe' = [stripe EXCEPT ![s] = to]
    /\ pending' = pending \cup { [type |-> type, sub |-> s] : type \in types }
    /\ UNCHANGED <<rows, payments, handler, activation, met>>

\* The customer pays on the page of createCheckoutSession.
Checkout(s)     == StripeChange(s, {"none"}, "active", {"checkout", "created", "paid"})
InvoicePaid(s)  == StripeChange(s, {"incomplete", "past_due"}, "active", {"updated", "paid"})
InvoiceFails(s) == StripeChange(s, {"active"}, "past_due", {"updated", "failed"})
NeverPaid(s)    == StripeChange(s, {"incomplete"}, "incomplete_expired", {"updated"})
CancelledAtStripe(s) == StripeChange(s, {"active", "past_due"}, "canceled", {"deleted"})

-----------------------------------------------------------------------------
(* The webhook requests.                                                   *)

FirstStep(type) ==
    CASE type = "created"                -> "check"
      [] type \in {"checkout", "updated"} -> "retrieve"
      [] type = "deleted"                -> "find"
      [] OTHER                           -> "current"

\* again: the event is delivered once more later on.
Deliver(h, e, again) ==
    /\ At(h, "idle") /\ MayStart /\ e \in pending
    /\ again => EventsUnderWay <= MaxAgain
    /\ Set(h, [Idle EXCEPT !.event = e, !.step = FirstStep(e.type)])
    /\ pending' = IF again THEN pending ELSE pending \ {e}
    /\ met' = IF Meets(e) THEN met \cup {Work(e)} ELSE met
    /\ UNCHANGED <<stripe, rows, payments, activation>>

\* handleSubscriptionCreated skips a subscription that has a row.
CheckExisting(h) ==
    /\ At(h, "check")
    /\ \E i \in RowsOf(Sub(h)) :
          Set(h, IF i = 0 THEN [handler[h] EXCEPT !.step = "retrieve"] ELSE Idle)
    /\ UNCHANGED <<stripe, pending, rows, payments, activation, met>>

\* syncSubscriptionFromStripe asks Stripe for the status of now, ...
Retrieve(h) ==
    /\ At(h, "retrieve")
    /\ Set(h, [handler[h] EXCEPT !.step = "find", !.seen = stripe[Sub(h)]])
    /\ UNCHANGED <<stripe, pending, rows, payments, activation, met>>

\* ... looks for the row (as handleSubscriptionCancelled does), ...
FindRow(h) ==
    /\ At(h, "find")
    /\ \E i \in RowsOf(Sub(h)) :
          Set(h, [handler[h] EXCEPT !.step = "write", !.row = i])
    /\ UNCHANGED <<stripe, pending, rows, payments, activation, met>>

\* ... and updates it or inserts one.
WriteSynced(h) ==
    /\ At(h, "write") /\ handler[h].event.type # "deleted"
    /\ LET status == MapStripeStatus(handler[h].seen)
       IN  IF handler[h].row # 0
           THEN rows' = Updated(handler[h].row, status)
           ELSE RowsLeft /\ rows' = Inserted(Sub(h), status)
    /\ Set(h, Idle)
    /\ UNCHANGED <<stripe, pending, payments, activation, met>>

\* handleSubscriptionCancelled; without a row there is nothing to cancel.
WriteCancelled(h) ==
    /\ At(h, "write") /\ handler[h].event.type = "deleted"
    /\ rows' = Updated(handler[h].row, "cancelled")
    /\ Set(h, Idle)
    /\ UNCHANGED <<stripe, pending, payments, activation, met>>

\* The invoice handlers work on the current row of the tenant, whichever
\* subscription the invoice is of.
FindCurrent(h) ==
    /\ At(h, "current")
    /\ LET next == IF handler[h].event.type = "failed" THEN "suspend" ELSE "payments"
       IN  Set(h, IF Current = 0 THEN Idle
                  ELSE [handler[h] EXCEPT !.row = Current, !.step = next])
    /\ UNCHANGED <<stripe, pending, rows, payments, activation, met>>

\* handleInvoicePaymentFailed.
Suspend(h) ==
    /\ At(h, "suspend")
    /\ rows' = Updated(handler[h].row, "suspended")
    /\ Set(h, Idle)
    /\ UNCHANGED <<stripe, pending, payments, activation, met>>

\* Mutant: the payments are not looked through.
PaymentExists_Never(row, invoice) == FALSE

\* A payment of this row carries the invoice, which markAsPaid writes.
PaymentExists(row, invoice) ==
    \E i \in DOMAIN payments :
        payments[i] = [row |-> row, invoice |-> invoice, status |-> "completed"]

\* handleInvoicePaymentSucceeded looks for the payment, ...
LookForPayment(h) ==
    /\ At(h, "payments")
    /\ Set(h, IF PaymentExists(handler[h].row, Sub(h)) THEN Idle
              ELSE [handler[h] EXCEPT !.step = "pay"])
    /\ UNCHANGED <<stripe, pending, rows, payments, activation, met>>

\* ... creates it (a row deleted meanwhile fails its foreign key), ...
CreatePayment(h) ==
    /\ At(h, "pay") /\ handler[h].row \in Ids
    /\ RowsLeft
    /\ payments' = Append(payments, [row |-> handler[h].row, invoice |-> Sub(h),
                                     status |-> "pending"])
    /\ Set(h, [handler[h] EXCEPT !.step = "mark", !.payment = Len(payments')])
    /\ UNCHANGED <<stripe, pending, rows, activation, met>>

\* ... and marks it as paid; nothing that follows matters here.
MarkAsPaid(h) ==
    /\ At(h, "mark")
    /\ payments' = [payments EXCEPT ![handler[h].payment].status = "completed"]
    /\ Set(h, Idle)
    /\ UNCHANGED <<stripe, pending, rows, activation, met>>

\* A call to Stripe or to the database fails.  The handler throws, so the
\* event comes again, except that an error is swallowed for an invoice that
\* was paid, and for one that was not when Stripe cannot tell its tenant.
Throw(h) ==
    /\ ~At(h, "idle")
    /\ \/ /\ handler[h].event.type # "paid"
          /\ pending' = pending \cup {handler[h].event}
       \/ /\ handler[h].event.type = "paid" \/ At(h, "current")
          /\ UNCHANGED pending
    /\ Set(h, Idle)
    /\ UNCHANGED <<stripe, rows, payments, activation, met>>

-----------------------------------------------------------------------------
(* The administrator.                                                      *)

\* Nothing looks whether the tenant has a subscription.
CreateTrial ==
    /\ RowsLeft
    /\ rows' = Inserted(NoSub, "trial")
    /\ UNCHANGED <<stripe, pending, payments, handler, activation, met>>

\* activateSubscription reads which row is current, ...
Activate ==
    /\ Activating("idle") /\ MayStart
    /\ LET atStripe == Current # 0 /\ rows[Current].sub # NoSub
       IN  activation' = IF atStripe
                         THEN [NotActivating EXCEPT !.step = "cancel", !.row = Current]
                         ELSE [NotActivating EXCEPT !.step = "trials"]
    /\ UNCHANGED <<stripe, pending, rows, payments, handler, met>>

\* ... cancels it at Stripe, where an error (it may be over there already)
\* is swallowed, ...
CancelPrevious(s) ==
    /\ Activating("cancel") /\ s = rows[activation.row].sub
    /\ \/ /\ stripe[s] \in {"incomplete", "active", "past_due"}
          /\ stripe' = [stripe EXCEPT ![s] = "canceled"]
          /\ pending' = pending \cup {[type |-> "deleted", sub |-> s]}
       \/ UNCHANGED <<stripe, pending>>
    /\ activation' = [activation EXCEPT !.step = "retire"]
    /\ UNCHANGED <<rows, payments, handler, met>>

\* ... then in the table, ...
RetirePrevious ==
    /\ Activating("retire")
    /\ rows' = Updated(activation.row, "cancelled")
    /\ activation' = [NotActivating EXCEPT !.step = "trials"]
    /\ UNCHANGED <<stripe, pending, payments, handler, met>>

\* ... deletes the trials, which a payment recorded on one forbids, ...
DeleteTrials ==
    LET trials == { i \in Ids : rows[i].status = "trial" }
    IN  /\ Activating("trials")
        /\ IF \E i \in DOMAIN payments : payments[i].row \in trials
           THEN activation' = NotActivating /\ UNCHANGED rows
           ELSE /\ activation' = [activation EXCEPT !.step = "create"]
                /\ rows' = [i \in DOMAIN rows |->
                               IF i \in trials THEN [rows[i] EXCEPT !.status = "deleted"]
                                               ELSE rows[i]]
        /\ UNCHANGED <<stripe, pending, payments, handler, met>>

\* ... subscribes at Stripe, to be charged or to be sent an invoice, ...
CreateAtStripe(s, status) ==
    /\ Activating("create") /\ stripe[s] = "none"
    /\ stripe' = [stripe EXCEPT ![s] = status]
    /\ pending' = pending \cup {[type |-> "created", sub |-> s]}
    /\ activation' = [activation EXCEPT !.step = "save", !.sub = s, !.seen = status]
    /\ UNCHANGED <<rows, payments, handler, met>>

\* ... and inserts the row, without looking for one.
SaveActivated ==
    /\ Activating("save")
    /\ RowsLeft
    /\ rows' = Inserted(activation.sub, MapStripeStatus(activation.seen))
    /\ activation' = NotActivating
    /\ UNCHANGED <<stripe, pending, payments, handler, met>>

ActivationThrows ==
    /\ ~Activating("idle")
    /\ activation' = NotActivating
    /\ UNCHANGED <<stripe, pending, rows, payments, handler, met>>

-----------------------------------------------------------------------------

StripeStep(s) ==
    \/ Checkout(s)
    \/ InvoicePaid(s)
    \/ InvoiceFails(s)
    \/ NeverPaid(s)
    \/ CancelledAtStripe(s)

WebhookStep(h) ==
    \/ \E e \in pending, again \in BOOLEAN : Deliver(h, e, again)
    \/ CheckExisting(h)
    \/ Retrieve(h)
    \/ FindRow(h)
    \/ WriteSynced(h)
    \/ WriteCancelled(h)
    \/ FindCurrent(h)
    \/ Suspend(h)
    \/ LookForPayment(h)
    \/ CreatePayment(h)
    \/ MarkAsPaid(h)
    \/ Throw(h)

AdminStep ==
    \/ CreateTrial
    \/ Activate
    \/ \E s \in Subs : CancelPrevious(s)
    \/ RetirePrevious
    \/ DeleteTrials
    \/ \E s \in Subs, status \in {"incomplete", "active"} : CreateAtStripe(s, status)
    \/ SaveActivated
    \/ ActivationThrows

Next ==
    \/ \E s \in Subs : StripeStep(s)
    \/ \E h \in Handlers : WebhookStep(h)
    \/ AdminStep

Spec == Init /\ [][Next]_vars

-----------------------------------------------------------------------------
(* Properties.                                                             *)

\* No two requests have worked on the row of s, or on the payment of its
\* invoice, at a time.
Apart(on, s) == [on |-> on, sub |-> s] \notin met

\* The type invariant: the two tables, the events and what the requests hold.
TypeOK ==
    /\ stripe \in [Subs -> StripeStatus]
    /\ pending \subseteq Event
    /\ rows \in Seq([sub : Subs \cup {NoSub}, status : RowStatus])
    /\ payments \in Seq([row : DOMAIN rows, invoice : Subs, status : PaymentStatus])
    /\ \A h \in Handlers : /\ handler[h].event \in Event \cup {NoEvent}
                           /\ handler[h].seen \in StripeStatus
                           /\ handler[h].row \in DOMAIN rows \cup {0}
                           /\ handler[h].payment \in DOMAIN payments \cup {0}
    /\ activation.sub \in Subs \cup {NoSub}
    /\ activation.row \in DOMAIN rows \cup {0}
    /\ met \subseteq [on : {"row", "paid"}, sub : Subs]

\* A subscription has a second row only if two requests have worked on its row
\* at a time: two of its events, or one of them and the end of
\* activateSubscription.  Nothing else duplicates it, neither repetitions,
\* reordering and failures nor whatever runs beside on other subscriptions and
\* on invoices.
OneRowPerSubscription ==
    \A i, j \in Ids :
        rows[i].sub = rows[j].sub /\ rows[i].sub # NoSub /\ i # j =>
            ~Apart("row", rows[i].sub)

\* No event is under way and nobody is at work.
Rest == /\ pending = {}
        /\ Busy = {}
        /\ Activating("idle")

\* Once all events are handled, in whatever order and however often, a row
\* that lets the tenant in is of a subscription that is neither over nor in
\* arrears at Stripe, or two requests have worked on it at a time: the handlers
\* ask Stripe instead of trusting the event, but several awaits before they
\* write.  What runs beside on other subscriptions and on invoices does no
\* harm.  (A subscription that was never paid lets the tenant in, see
\* MapStripeStatus.)
ActiveIsAlive ==
    Rest => \A i \in Ids :
                rows[i].status = "active" /\ Apart("row", rows[i].sub) =>
                    stripe[rows[i].sub] \notin {"past_due", "canceled"}

\* Once all events are handled, every subscription the customer has at
\* Stripe has a row, however many requests ran at a time, and even where an
\* activation failed half-way or a cancellation came first.
SubscriptionHasRow ==
    Rest => \A s \in Subs : stripe[s] # "none" => \E i \in Ids : rows[i].sub = s

\* An invoice is recorded as paid twice for a row only if two deliveries of it
\* were handled at a time: no repetition after that, no handler that failed
\* half-way and no other request makes a second payment.
PaidOnce ==
    \A i, j \in DOMAIN payments :
        payments[i].status = "completed" /\ payments[i] = payments[j] /\ i # j =>
            ~Apart("paid", payments[i].invoice)
=============================================================================

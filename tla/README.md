# Tasky API: verification of the ticket system

Tasky is a multi-tenant NestJS server over PostgreSQL (TypeORM), with Redis for
the notification stream and Stripe for billing. These modules model the part of
it whose correctness depends on the order of events: tickets and who holds
them, the lists and statistics made of their history, the deactivation of a
user, the numbering of tickets, the notification stream over several instances,
the sign-up of a tenant, and the subscription that a tenant has both at Stripe
and in the database. Paths below
are under `src/src/modules/` unless they say otherwise.

## 1. Inventory

| Component | State | Operations | What is hard about it | What makes it correct |
|---|---|---|---|---|
| Ticket workflow (`ticket/`, `ticket-target-user/`, `ticket-updates/`) | the ticket row, its ordered list of assignees, its reviewer, its history rows | 15 endpoints of `TicketController` that write | any order of calls by anybody with access; guards differ from handler to handler; each handler writes its history row by hand; statements of a handler are not a transaction | the current assignee is on the list; the history explains who holds the ticket; a closed ticket keeps its people |
| User deactivation (`user/user-deactivation.service.ts`) | a running loop over lists read once; `isActive` | preview, validation, hand over assignees, hand over reviews, deactivate | many steps with other requests in between; any of them can throw | a deactivated user holds nothing; nobody else is replaced; it ends |
| Ticket numbering (`create`) | `customId` per tenant, row locks, a connection pool | create, delete | READ COMMITTED and FOR UPDATE; a second connection inside a transaction; e-mail inside a transaction | numbers consecutive; the next number is free; every create ends |
| Tenant subscription, Stripe webhook, payments | rows of `tenant_subscription` and `payment`, the state at Stripe | 6 event types; trial, activation | events late, twice, out of order; the same fact in two places; partial failure | one row per subscription; who is let in agrees with Stripe; an invoice is recorded once |
| Ticket queries and views | none of its own | seven lists, board, archive, whom a change is told to | the same seven days computed three times; who is told and who may read collected apart | no ticket is in list and archive, time loses none; readers are told |
| Statistics (`stats/`), business hours | none | pages of tenant, department and user, ranking, trends, series | 3500 lines that compute the same figures several times from rows other code wrote by hand | pages agree; nothing is counted twice; a verdict stands |
| Notification stream (`notification/`, `redis.service.ts`) | tickets and streams in Maps of every instance, copies in Redis, a Redis channel | give out a ticket, connect, disconnect, save, read, publish | reconnection against finalize; late, double and reordered events; restarts, Redis away | a stream that is open is reached; events arrive; the badge is right |
| Preferences and dispatcher | rows, a cache of one minute per instance | get, update, notify | staleness across instances | an update is seen at last |
| Metered usage | a counter at Stripe | sync on each change of a user | calls nobody awaits, in any order | the last report is the last count |
| Sign-up (`sign-up/`, `tenant/`) | rows, encrypted columns, mailed links | create, update, approve, reject, resend, complete | ten writes without a transaction; overlapping approvals; search in an encrypted column | completed means whole; the link that counts is mailed |
| Authentication, verification codes | codes, rows | reset of a password | check-then-act; a mail before the row | a code is used once |
| Checklists, comments, files, reasons, categories, departments, legal documents, plans, permissions | one row each | CRUD | lost updates at most | - |
| Guards, interceptors, encryption, e-mail, S3, CNPJ | none | predicates, I/O | a retried handler runs again from its start | - |

How they interact. The ticket handlers call `NotificationDispatcher`, which reads
permissions (through the tenant's subscription) and preferences and sends e-mail;
an e-mail that fails throws into the handler. The deactivation calls the ticket
handlers in a loop and `UserService.update` at the end. `UserService` reports the
number of users to Stripe without awaiting it. The webhook and the administrator
write the same subscription rows, which guards and permissions read on every
request. `PROJECT.json` lists the components with what is and is not modelled,
and under "hazards" what is hard to test, each at its line, with the property
that covers it or the reason why none does.

## 2. Modules

    TicketRow              operators: one ticket's rows, guard and effect per handler
      TicketWorkflow       tickets and active users; one action per endpoint
        UserDeactivation   + the running deactivation, step by step, calling TicketRow
        TicketTimeline     + a clock, the stamps and the history rows
          TicketViews      the lists, the archive and who is told, over the rows
          TicketStats      the statistics, over the rows
    BusinessHours          operators: working time between two moments
    TicketNumbering        the transaction of create, locks and pool; independent
    SubscriptionWebhook    Stripe, its events, the two tables; independent
    StreamDesk             what stream tickets promise
      NotificationStream   Maps, Redis, connections and events; implements StreamDesk
    SignUp                 requests of a sign-up, step by step; independent

`*MC` modules give TLC a tenant; `*Proofs` modules hold the theorems, each extending the
module it is about (TicketTimelineProofs also holds those of TicketViews, TicketStats
and BusinessHours), and BoundedSets the facts they share: a bounded set of numbers holds
its maximum, a set of numbers that starts at 0 and goes on has them all, a fold exists,
a sum of the sizes of separate parts is the size of their union. The model follows how
the server runs: a handler is atomic where its interleavings are not the question
(TicketWorkflow), and one step per await where they are (UserDeactivation,
TicketNumbering, SubscriptionWebhook, NotificationStream, SignUp).

### TicketRow and TicketWorkflow

A ticket is a record: `status` (the keys of `TicketStatus` in English),
`targets` (the `ticket_target_user` rows by `order`), `current`, `reviewer`,
`requester`, `isPrivate`, `reason` (the cancellation-reason row, whose foreign key
blocks a delete; all others cascade), `trail` and `worked`. The last two are
what a reader of the `ticket_update` rows deduces: `trail.holder` follows
`fromUserId -> toUserId` row by row, `trail.status` is the last `toStatus`, and
`worked` collects the users a row put to work whose place on the list stands
since. Keeping the fold instead of the rows keeps the model finite.

Each handler `foo` is a guard `CanFoo` (all early returns that throw before the
first write) and an effect `FooDone` (all writes), in TicketRow; TicketWorkflow
makes an action of them. `findById`, which every handler calls first, is
`CheckTicketAccess`. Handlers that throw in the middle are modelled by what they
leave: `approve` and `reject` without a reviewer write the status and no history
row; `updateStatus` writes a row for four moves only, and `dataSource.transaction`
there does not roll back since its callback ignores the manager. In this module a
handler is one step; the deactivation is not.

Left out: `executeCustomStatusAction` (it needs a non-default status or an action
row, and no code stores either), the failing e-mail, texts, files and time stamps.
Every user has a department in the model. Where `addAssignee` moves two rows or
more, the unique index on the order may refuse the statement, depending on how the
rows lie on disk: nothing is written then, and the model leaves the refusal out.

### UserDeactivation

`job` is the one running request: `phase`, `todo` (the list the loop was given),
and `call` (the ticket whose list was read, with the order found for the leaving
user). Reading the order (`LookAtTargets`) and calling the handler (`HandOver`,
`HandOverRefused`) are two steps because `updateAssignee` starts with awaits of its
own. A handler that throws ends the job (`Fail`) with what was done so far. Other
requests (`OtherRequest`) are the actions of TicketWorkflow that move people or
close or delete a ticket.

### TicketNumbering

`create` is seven steps: begin, `SELECT ... FOR UPDATE`, read the last number when
the locks come, look the tenant up on a second connection, insert, mail, commit.
`wants` is the snapshot the statement found; after the wait PostgreSQL drops the
rows deleted meanwhile and does not see those inserted meanwhile, which is why two
creates can compute the same number. The unique index makes the second fail. The
ticket is for somebody else than its requester, so that there is someone to
notify. Deletes run among creates: one may come between any two steps, and waits
for rows a create has locked. `PoolSize` is the pool (10 by default). `keyPart` is what
the tenant's key holds after its first dash, which is what `parseInt` of the second
piece of `customId` reads then ("A-5": 5, "A-B": NaN), or `NoDash`; a key that is changed
between two creates is left out. `disturbed` is history: `Deleted` notes whether a delete
came while a create was under way that another had `Overtaken`, that is, a ticket was
committed which its statement had not found. No action reads it.

### SubscriptionWebhook

`stripe` is the status of each subscription at Stripe and `pending` the events not
yet delivered; the customer's and Stripe's own moves (`Checkout`, `InvoicePaid`,
`InvoiceFails`, `NeverPaid`, `CancelledAtStripe`) are external. Every await of a
webhook handler ends a step, so a handler asks Stripe (`Retrieve`), looks for the
row (`FindRow`) and writes (`WriteSynced`) in three. The `Handlers` run at a time and
beside an activation, as nothing in the code serializes them. `met` is history:
`Deliver` notes the row of a subscription, or the payment of an invoice, that another
request is at work on when this one starts (`Meets`); for the row that can also be an
activation that has subscribed at Stripe and not yet saved. No action reads it. `Deliver` may leave the event
for another delivery; `Throw` puts it back, except for the errors the code swallows.
`activateSubscription` is a second process with seven steps, any of which can
throw. A row that is deleted keeps its place with status "deleted", so that a place
is an id. `trialing` and `unpaid`, which no call here leads to, are left out of
`MapStripeStatus`; dates, plans and the customer are too, and a subscription has one
invoice.

### TicketTimeline, TicketViews

Each `LoggedFoo` is the action `Foo` of TicketWorkflow together with the stamps and
the row its handler writes: `action`, `fromStatus`, `toStatus`, the two users, and
`timeSecondsInLastStatus` as the handler looks it up. A request takes one tick of
the clock, so that no two rows have the same `createdAt`; `Wait` lets time pass.
`Served`, `Statuses`, `DueDates` and `Waits` pick the endpoints of an instance.

TicketViews has no actions. Its operators are the queries of `TicketService` as the
sets of tickets they return in the state at hand: `FindMany`, `FindByRequester`,
`FindByDepartment`, `FindByTargetUser`, `FindByReceived`, `FindBySearch`,
`FindArchived`, and `Hearers`, the users `notifyTicketUpdate` sends a change to.
Comparisons with SQL NULL are false, as in `Recent`.

### BusinessHours, TicketStats

A day has `DayTicks` ticks, and days 0 and 6 of a week are not worked.
`CalculateBusinessHours` is the service's walk over the days;
`WorkingTicks` counts what it should.

TicketStats follows `ticket-stats.service.ts` function by function, over the set of
tickets a page selects and the rows of TicketTimeline. `LifeCycle` folds
`analyzeTicketLifeCycle` over the rows of a ticket; `OpenOverdue`,
`VerificationOverdue` and `Metrics` are the loops that feed an index;
`TenantStats`, `DepartmentStats`, `UserStats`, `UserRanking`, `TicketTrends`,
`PerformanceTrends`, `ResolutionTime` and `DurationTimeSeries` are the pages. A rate or
an average is the pair of its numerator and its denominator, and an index the pairs
it is computed from: pages that agree on them agree on every rounding. Of the
Wilson score only the question whether it is a number is kept. The view
`ticket_stats` is read from its entity.

### StreamDesk, NotificationStream

StreamDesk has three variables: the tickets given out, those that have expired, and
for a user on an instance the connection that listens. NotificationStream has
the Map of tickets of every instance, the copies in Redis, whether an instance is
connected to it, the Map of streams, the connections as the server answers them,
requests between their write, their count and their event (`jobs`), and the messages
on the way to every instance (`channel`). `OpenStream` looks in the Map and asks Redis
otherwise; `RedisAnswers` is the other side of that await. `Listen` is
`getNotificationStream`: completing the old stream runs its finalize at once, inside
the call. A crash (`Restart`), a broken connection (`LoseRedis`) and a ticket Redis did
not take cost one of `MaxFailures`.

A page that is refused gets an Observable that never emits ("deaf"): the route has
no guard, so the fallback to `accessProfile` in the controller never finds one.
Tickets are refined by `Desk == INSTANCE StreamDesk WITH listening <- streams`: a
connection that asks Redis is a stutter, its answer is `Admitted`.

### SignUp

A Worker is a request with what it has read, `Dies` may end it before any step. An
encrypted value is its text and the initialization vector it was encrypted with;
`Matches` is a search, which encrypts what it looks for once more and
finds the rows whose vector happens to be equal. Vectors come from a small set, so two
are equal far more often than they are in the code: without that no sign-up would
ever be completed and nothing behind it could be checked. A tenant holds the sign-up it was
made from and what has been made for it (`Parts`), in the order of the code (`Then`).

## 3. Runs

| Run | Question | Result and size |
|---|---|---|
| WorkflowLifecycle | every endpoint on a ticket with up to two assignees, private or not, with a supervisor who is deactivated and back: `TypeOK`, `AwaitingIsAudited`, `CurrentIsTarget`, `TrailExplainsAssignee`, `TerminalKeepsPeople` | pass, 109,000 states |
| DeactivationAlone | two tickets, every start situation, deactivations one after the other, failed ones included: `InactiveHoldNothing`, `OnlyLeaverReplaced` | pass, 533,000 states |
| DeactivationShared | a deactivation among other requests: `EveryJobEnds` | pass, 168,000 states |
| Numbering | three creates and two deletes at a time, some requests failing, for a key without a dash and with one: `NumbersConsecutive`, `NextNumberFree`, `DashAllowsTwo`, `EveryCreateEnds` | pass, 292,000 states |
| SubscriptionSync | two requests at a time, webhook requests or an activation, every order, duplicate and failure: `TypeOK`, `OneRowPerSubscription`, `ActiveIsAlive`, `SubscriptionHasRow`, `PaidOnce` | pass, 3.4 million states up to symmetry |
| TicketLists | the lists after every sequence of requests and days on one ticket: `NowhereTwice` and `TimeLosesNothing` (list and archive fit together), `BoardShowsTheList`, `ReadersHear`, `RowsTellTheTrail` (the rows the handlers write tell what TicketWorkflow keeps as its trail) | pass, 92,000 states |
| Stats | the statistics over every history around a due date and a weekend: `RankingAgreesWithUserStats`, `CountedOnce`, `SupervisorPagesAgree`, `TrendsAddUp`, `SeriesAgree`, `StoredTimeIsTheSpan`, `BusinessTimeIsClose`, `VerdictStands` | pass, 67,300 states |
| StatsTenantScore | is the score of the tenant page a number? | violated: of two tickets sent on time one is approved, the other, which nobody reviews, is rejected: the rejection stamps `rejectedAt` and throws (`ticket/ticket.service.ts:1785`) before its row, so it is a success by its stamp and no trial by its rows; two successes in one trial make NaN |
| StreamTickets | two users, two instances, tickets, reconnections, restarts, Redis away: `ReachableStream`, `NoValidPageIsDeaf`, `ImplementsDesk` | pass, 173,000 states up to symmetry |
| StreamEvents | a notification, a ticket update and counts on the way to a connection, late, twice, reordered: `TypeOK`, `BadgeIsRight`, `EventsAreHeard` | pass, 54,800 states |
| SignUp | two requests at a time on a sign-up, dying anywhere: `TypeOK`, `CompletedIsWhole`, `ApprovedLinkMailed` | pass, 526,000 states up to symmetry |
| SignUpLink | does the mailed link lead to its sign-up? | violated: the token is looked for with another vector |

Every property of a passing run is broken by a mutant of the code: the operators
named `<Definition>_<Bug>` next to the definition they would replace
(`PROJECT.json`, "mutants").

What else TLC shows, in variations of these runs that are not kept as files:

Tickets and people:

- `WorkersAreKept` (TicketWorkflow: "Cannot remove target user who has already worked
  on the task", `ticket/ticket.service.ts:2640`) does not hold under
  WorkflowLifecycle.cfg. After a correction hands the ticket back to an earlier
  assignee, or somebody is inserted before, a later one who has worked can be removed:
  the guard compares places on the list.
- `InactiveHoldNothing` and `OnlyLeaverReplaced` do not hold under
  DeactivationShared.cfg: a ticket assigned to the leaving user after the lists were
  read stays with a deactivated user; and when the list moves between the read of the
  order and the call, somebody else is replaced.
- `updateAssignee` can put a user on a list twice. A deactivation then replaces
  the first of the two rows and leaves the second with a deactivated user. The
  runs and the theorems about the deactivation start from lists without doubles.
- `sendToNextDepartment` looks at no status: the current assignee of a closed
  ticket passes it on and reopens it. `TerminalKeepsPeople` says that this is the
  only way whose turn it is changes on a closed ticket.
- `removeAssignee` of the last assignee sends a ticket to verification that may
  have no reviewer, on which `approve` and `reject` then throw half-way.

Numbering:

- Without its condition (`disturbed`) `NextNumberFree` fails: two creates wait for the
  rows, the first commits, the newest row the second has found is deleted, and the second
  reads the one before. The highest id then has a number below the highest one, and
  from then on every create fails on the unique index until a ticket is deleted. That the
  condition is exact enough is the other half: with it the property holds while deletes
  and creates interleave freely, so no other interleaving shuts a tenant out.
- `DashAllowsTwo` is a property of the code that nobody wants: with a dash in its key a
  tenant has its first ticket, at most one more, and none after that.
- With as many creates as connections in the pool, `EveryCreateEnds` fails: all
  hold one connection and wait for a second (`tenantRepository.findOne` inside
  the transaction). Nothing in the code limits the requests.

Lists and statistics:

- `CompletedIsListed` (TicketViews: "Archived tickets: completed 7 days ago or
  earlier", `ticket/ticket.service.ts:2080`) does not hold under TicketLists.cfg: a
  ticket that `updateStatus` completes has no `completedAt` and is in no list and in no
  archive; the search finds it. One completed exactly seven days ago is in the list
  only, as the code compares with `<` where its comment says `<=`.
- `BusinessTimeIsExact` (`src/src/shared/services/business-hours.service.ts:18`) does not
  hold under Stats.cfg: the walk stops short of the last day when the hour of the end
  is before that of the start. `BusinessTimeIsClose` bounds the error by a day.
- The open tickets of the tenant page include canceled ones and those `updateStatus` has
  completed. The tenant's index divides by completed and rejected tickets, those of
  users and departments by closed ones.
- The page of a user divides the time to accept by tickets, the ranking by rows. A user
  with open overdue tickets only has the rates 0 in the ranking and on the page of the
  department, 100 % on the user's own. Overdue rates can be negative.
- A supervisor's page of the department leaves out verifications by its reviewers on
  tickets of other departments. A rejection stores the time since the verification
  began, whatever status it leaves. The trimestral trend looks at one day of ten.

Notification stream:

- With `Overlap = TRUE`, and without that antecedent, `BadgeIsRight` fails: of two
  requests about one user the second counts first and sends last, and the older number
  stays on the badge until the next event.
- `deleteByUuid` sends no count, and `markAsRead` accepts the notification of any user
  of the tenant and tells the caller instead of its owner: these are the notifications
  in `untold` by which `BadgeIsRight` lets the badge be too high.
- A ticket copied from Redis has no timer on that instance: "It will be cleaned up when
  it expires" (`notification/notification.service.ts:150`) holds for the instance that
  gave it out; elsewhere it stays in the Map unless it is used again.
- What is published while Redis is away is lost, for the pages on other instances.

Sign-up:

- The error 'Sign-up already exists' (`sign-up/sign-up.service.ts:52`) is never given: the
  CNPJ is looked for in an encrypted column, too.
- A completion that died after its tenant was saved leaves a name that refuses the retry
  with the same link (`tenant/tenant.service.ts:142`).
- An approval that read the row before the completion wrote it reopens a completed sign-up,
  with a new link; a rejection can mark it rejected. An update after the approval can take
  the CNPJ away that the approval asked for.
- The link never expires (the mail says 48 hours), and the trial of "14 days"
  (`sign-up/sign-up.service.ts:435`) is one of 30 (`createTrialSubscription`).
- Two sign-ups with one token, and two e-mail addresses, were checked as well
  (1.1 and 3.9 million states) and change nothing.

Subscription:

- Without their condition (`Apart`) three of the properties fail. `OneRowPerSubscription`:
  both look, neither finds, both insert, as checkout.session.completed and
  customer.subscription.created come together, or as the latter comes before
  `activateSubscription` has saved. `ActiveIsAlive`: one asks Stripe, the
  subscription is cancelled, the cancellation is handled, and the first writes "active".
  `PaidOnce`: a repetition of the event comes while its first delivery is being handled.
  What the properties state is that each of these takes two requests at work on that
  very row or invoice: not repetition, order or failure, and not what runs beside
  on other rows. `SubscriptionHasRow` needs no condition.
- Three requests at a time (two of the webhook and an activation, `MaxAgain = 2`: 5.8
  million states) and two subscriptions (`MaxPending = 0`, `MaxAgain = 1`: 5.0 million)
  were checked too and change nothing.
- A payment is recorded once per subscription row, not once per invoice: a
  redelivery after the tenant has changed its subscription records it again. A
  failure between `createPayment` and `markAsPaid` leaves a pending payment.
- An `invoice.payment_failed` that comes late, or is of another subscription,
  suspends the current row although Stripe has been paid, until the next event.

### Bounds

| Constant | Value | Why it is enough |
|---|---|---|
| `Users` | 3: a member and the supervisor of one department, the admin of another; in Stats 2, the supervisor and the admin | one of each role that a guard tells apart; two in one department for access through a colleague; in Stats somebody who works and somebody who reviews, in different departments |
| `Tickets` | 1; 2 in DeactivationAlone and StatsTenantScore | handlers touch one ticket, and a page is a sum over tickets; the loop of the deactivation needs two |
| `MaxTargets` | 2 | "before", "at" and "after" the current assignee; lists of three (MaxTargets = 3, the other bounds smaller) were checked for the two properties of the list and change nothing, and the theorems are about every length |
| `Requesters`, `Deactivatable`, `Privacy`, `Served`, `Statuses` | smaller than what the code allows | each is varied in the run whose properties depend on it |
| `StartRows` | tickets open, waiting or closed with one or two assignees | the situations the deactivation tells apart; TicketWorkflow reaches them |
| `Creators`, `Deleters`, `StartSizes`, `PoolSize`, `KeyParts` | 3, 2, {0, 3}, 6, {`NoDash`, `NaN`, 0, 4} | a create that overtakes another, with a delete before and after; an empty and a full table; one connection more than requests; keys without a dash, with letters after it, and with a digit that gives the first number again or another one (four creates with one delete, 503,000 states, change nothing) |
| `Subs`, `Handlers`, `MaxRequests`, `MaxRows`, `MaxPending`, `MaxAgain` | 1, 2, 2, 3 rows in the two tables, no change at Stripe while more than 1 event is under way, no repetition while more than 3 are | everything that two requests can do to one row, which is where they meet; a trial, a row and a payment of it or two; the two or three events of a change and those of the next one in any order. The theorems are about any number of subscriptions and requests |
| `MaxNow`, `MaxRows`, `Waits`, `ArchiveTicks` (lists) | 4, 3, {1, 2}, 1 | a ticket is completed, becomes archived and is older than the boundary; a submission, a verdict and one more |
| `MaxNow`, `MaxRows`, `Waits`, `DayTicks` (statistics) | 6, 4, {3}, 2 | a Thursday to a Saturday of the model with a due date in between: a submission before or after it, a verification and its verdict, a retraction and another submission (with a verdict where no reviewer is set, which writes no row); `PeriodDays` = 2 and `TrendDays` = 3, so that the oldest tickets fall out of the period and of the trend |
| `Connections`, `Tickets`, `MaxFailures` (stream) | 3, 2, 2 in StreamTickets; 1, 1, 0 in StreamEvents | a connection that is replaced twice and one of somebody else; a restart and a lost Redis; events and their counts need one page, and two instances to come twice |
| `MaxChannel` | 1 and 2 | two messages on the way overtake local ones |
| `Workers`, `Tokens`, `IVs`, `Keys` | 2, 3, 2, 2 | two requests at a time; approved, rejected and approved again, with one that overlaps; equal and different vectors; a tenant that is left and one that is made |


Deadlock is not checked in the runs where the system may stop: when all one-shot
requests are done (Numbering), nobody has to start a deactivation
(DeactivationShared), the bounded ids of Stripe (SubscriptionSync), the clock or the
rows (TicketLists, Stats), the tickets and failures (StreamTickets, StreamEvents) or the
tokens (SignUp) are used up. Symmetry is used in SubscriptionSync, StreamTickets and
SignUp, which check invariants and the safety part of a refinement; the runs with
liveness use none.

### Fairness

Weak fairness of the steps of a running request: Node resumes every `await`, and a
request that waits gets its lock or connection in turn (PostgreSQL and pg queue
them first come first served; `Before` is that order). No fairness for starting a
request, for other users, for the customer or for Stripe. The notification stream
adds weak fairness of `HandleRedisMessage`: the event loop reads the socket. Browsers,
clocks, Redis and the timer of a ticket owe nothing. The three liveness properties are
`EveryJobEnds`, `EveryCreateEnds` and `EventsAreHeard`.

## 4. Proofs

For every tenant, any number of tickets, instances, connections, requests, subscriptions
and events, and any length of the lists:

| Theorem | States |
|---|---|
| `TicketWorkflowProofs!Invariance` | the inductive invariant `IInv` |
| `TypeCorrect`, `CurrentAlwaysTarget`, `TrailAlwaysExplains`, `AwaitingAlwaysAudited` | the invariants of WorkflowLifecycle |
| `TerminalAlwaysKeepsPeople` | its action property |
| `UserDeactivationProofs!DeactivatedHoldNothing` | `InactiveHoldNothing` for `AloneSpec` |
| `NobodyElseReplaced` | `OnlyLeaverReplaced` for `AloneSpec` |
| `NotificationStreamProofs!TypeCorrect`, `StreamsReachable` | `TypeOK` and `ReachableStream` |
| `NoPageIsDeaf`, `BadgeAlwaysRight` | `NoValidPageIsDeaf` and `BadgeIsRight` |
| `Implementation` | NotificationStream implements StreamDesk |
| `SignUpProofs!TypeCorrect`, `CompletionIsWhole`, `LinkIsMailed` | the three invariants of SignUp |
| `TicketNumberingProofs!NumbersAreConsecutive`, `NextNumberIsFree`, `DashEndsAtTwo` | `NumbersConsecutive`, `NextNumberFree`, `DashAllowsTwo` |
| `SubscriptionWebhookProofs!TableFollowsStripe` | the inductive invariant `Inv` of the subscription |
| `SubscriptionTypes`, `OneRow`, `InvoicePaidOnce`, `RowAtRest`, `AccessAtRest` | the five invariants of SubscriptionSync |
| `TicketTimelineProofs!TimelineImplementsWorkflow` | TicketTimeline implements TicketWorkflow, so the theorems about the workflow hold of it |
| `TimelineInvariance` | the inductive invariant `TimelineInv` |
| `NowhereAlwaysOnce`, `BoardAlwaysShowsTheList`, `ReadersAlwaysHear`, `TimeNeverLoses` | the lists: `NowhereTwice`, `BoardShowsTheList`, `ReadersHear`, `TimeLosesNothing` |
| `RowsAlwaysTell` | `RowsTellTheTrail` |
| `VerdictAlwaysStands`, `StoredTimeAlwaysTheSpan` | what the pages read in a history: `VerdictStands`, `StoredTimeIsTheSpan` |
| `CountedAlwaysOnce`, `SupervisorPagesAlwaysAgree`, `RankingAlwaysAgrees` | the pages: `CountedOnce`, `SupervisorPagesAgree`, `RankingAgreesWithUserStats` |
| `SeriesAlwaysAgree`, `TrendsAlwaysAddUp` | the series: `SeriesAgree`, `TrendsAddUp` |
| `BusinessTimeAlwaysClose` | `BusinessTimeIsClose`, for every length of a day and every first weekday |

Assumptions: those of the modules (`UsersAssumption`, `WorkflowAssumption`,
`DeactivationAssumption`, `StreamAssumption`, `SignUpAssumption`, `NumberingAssumption`,
`SubscriptionAssumption`, `TimelineAssumption`, `BusinessHoursAssumption`,
`ViewsAssumption`, `StatsAssumption`); for the deactivation, that the tickets it starts from are sound
(`SoundRow`: the invariant of a row, and no user twice on its list). Nothing is assumed of
the order in which requests about numbers or subscriptions run. Where two that run at a time
break a property, the statement itself says which two, by a history variable (`disturbed`,
`met`), and TLC shows it broken without that condition (section 3).

Argument for the workflow. No property is inductive alone. `TypeOK` needs
`TrailExplainsAssignee`: a history row of a removal names NULL as its target, and
only because the holder of the trail is the current assignee, who is never removed
without a successor, does the trail keep naming a user. That in turn needs
`CurrentIsTarget` for the successor to exist. `RowInv` is the conjunction for one
row; TicketWorkflowProofs has one lemma per handler (guard and `RowInv` give `RowInv` of
the effect) and lifts them over `Write`. `RowsAlwaysTell` is the other direction of the
abstraction: the trail these theorems speak of is what the rows tell.

Argument for the deactivation. `AloneInv` says that everything the finished part
of the loop has passed no longer names the leaving user and that what is still to
come is in `todo`; that the replacement is active and not the leaving user; and
that the order in `call` is still the place of the leaving user, which is where
other requests break it.

Argument for the stream. `Inv` is `TypeOK /\ ReachableStream`. `ReachableStream` has two
halves that need each other: a served connection is the one its user's entry leads to,
which a new connection keeps only because the one it replaces is closed, and that is
known because the entry leads to a served connection of the same user and instance. A
finalize that deletes "the entry of the user" deletes its own for the same reason. The
refinement needs `TypeOK` for one thing: that a ticket in a Map or in Redis was given
out, so that a connection admitted by it is admitted by the desk.
`NoValidPageIsDeaf` is strengthened by `RedisKnows`: while nothing has failed, the copies
in Redis cover every ticket that may still be used, because the copy is written before the
ticket is answered. `BadgeIsRight` is not inductive, as a page at rest got its number from
a message and the message from a request: `Badges` says that a request counts right, that
there is one of a user, and that the last count on the way to an instance, or the page's
own if there is none, is right within `untold`.

Argument for the sign-up. `CompletedIsWhole` is strengthened by what a request under way
knows (`WorkersKnow`): between the save of the tenant and the end, the row with its key
is the one it made, and `has` what its place in the code says; keys are unique, so no
other request touches it. `ApprovedLinkMailed` is strengthened by `LinksMailed`: a token
in a row was mailed, is about to be, or its request died, whatever the status has become
since, as a rejection leaves the token and an approval draws a new one.

Argument for the numbering. While nothing has `disturbed` it, what a create knows of the
table (`CreatesKnow`): what there still is of the rows it found is either all there is, or
the number after their last is in use by now. So an insert that the unique index lets
through is of a create that has read the whole table, two of those would have the same
number and the second waits, and the row that is committed is one above all others, in id
and in number (`Ascending`). Among creates it is the unique index alone that keeps the
numbers consecutive, and the locks decide who fails. Deletes need the locks: one that comes
while nobody has been overtaken either waits, since a create has locked every row there is, or
leaves one that still waits with what is left of the table. A key with a dash needs
none of this (`DashInv`): what is read is always the same, so only two numbers are ever
offered (`FewNumbers`) and the index gives each away once (`NumbersUnique`).

Argument for the subscription. `Separate`: as long as the requests about a row have kept
apart, at most one of them is at work on it, be it of the webhook or the end of the
activation; `met` cannot have missed a meeting. Under that condition `Finds`: what a request has
found about the row of its subscription is still so when it writes; and `Pays`: the same
of a payment. Without a condition, `RowComes`: a subscription without a row has an event to
come, or being handled, that makes one; `Throw` keeps this because the handlers that
swallow an error are not those, and a request beside it can only add rows. `Stale` and
`Alive`, again apart: a status read before the subscription went bad, and a row written
from it, has the event about the change (`Remedy`) still to come or at work; that is the
reason why it does no harm that events are late, doubled or out of order.

Argument for the timeline. `TimelineInv` adds little to the `IInv` of the workflow: a stored
ticket has rows, written before now. The weight is in `TimelineSteps`: every endpoint does
one of four things to one ticket (`Begins`, `Grows`, `Stamps`, `Ends`) and the clock, or
time passes; what the four say of the row and the stamps is all that the theorems about
histories use of the endpoints. The lists follow from `TimelineInv` in each state, the
arithmetic of the seven days included.

Argument for the histories. What a fold makes of a row more is one step of it
(`TrailOfAppend`, `LifeOfAppend`, `FirstOfAppend`, for which BoundedSets shows that the
recursive function inside the community module's fold exists). `RowsTellTheTrail` is then
inductive. `VerdictStands` needs `LoopsAgree`: both loops find the same first submission
in every sequence of rows at all, and an endpoint that judges writes a row that changes
neither. `StoredTimeIsTheSpan` is strengthened to `SpansInv`: a row with a stored time
that does not reject has an entry before it, and no later row changes which one it is.

Argument for the pages. Only `RankingAgreesWithUserStats` and `SeriesAgree` use more of the
invariant than the types. The first comes down to the three sets a page selects (the closed
tickets, those that were verified, those that came back), which differ in the code and are
equal where the viewer sees the user ranked, since whoever is involved in a ticket is
assigned to it (`CurrentIsTarget`). The averages are taken over the same rows. `SeriesAgree`
uses `SpansInv`: a stored time says that there is an entry. For `TrendsAddUp`, `PointsTile`
shows that points one length apart cover what they look back on without overlap, and that
days, weeks and months are such points, as a division shifts by whole multiples.

Argument for the business hours. The loop visits each day of the interval once but perhaps
not the last (`LoopVisitsDays`), the hours of a day are its ticks (`HoursAreTicks`), and the
sum over separate days is the number of ticks (`PartsAddUp`); what is left out lies between
the last midnight and the end.

Three statements changed when their proof failed. `SeriesAgree` said that the durations of
the statuses measure no more rows than the pages; a rejection has a stored time whenever
a verification was begun, though only a plain update may say that the ticket entered the
status it leaves, so rejections are excepted now (TLC shows the old form violated when
updates are served too). `TimeLosesNothing` was false for a tenant without an admin, and is
about each admin now. `ViewsAssumption` now says that the values for "any" and "no such"
are neither users nor statuses.

With TLC only: liveness (`EveryJobEnds`, `EveryCreateEnds`, `EventsAreHeard`: fairness and
ENABLED are beyond the prover) and all violations. Every invariant and every action property
of a passing run is proved.

## 5. Not modelled

- The order of the statements inside a ticket handler, and with it the lost updates of
  two handlers on one ticket, the handler that `database-retry.interceptor.ts` runs again
  and what a failing mail leaves of `cancel` and `reject` (a status without its reason).
  The code promises nothing that two interleaved handlers keep: every read is before every
  lock, and there are no locks.
- `addAssignee` where it moves several rows: the unique index on the order may refuse the
  statement, depending on how the rows lie on disk.
- Preferences and their cache of one minute; two first requests of a user that insert the
  same row.
- Dates of a subscription (the end of a trial, the three days of grace), prorated prices,
  metered usage.
- Authentication and verification codes: hashes, signatures and clocks of libraries. The
  check of a code and its use are two steps.
- Counts by priority and by category and the paginated lists of the statistics.
- Checklists, comments, categories, departments, roles, legal documents, plans,
  permissions, files: one-row writes without a rule that relates two rows. Of two updates
  of a checklist item one is lost, and two new items may have one order.
- Encryption beyond `Sealed`, e-mail, S3 and the clients of Stripe and of the registry
  (I/O); migrations and seeds (schema, read from the entities).

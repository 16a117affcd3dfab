-------------------------- MODULE NotificationStream --------------------------
(***************************************************************************)
(* The server-sent events of notification.service.ts on several instances  *)
(* of the API that share a database and a Redis: stream tickets, the       *)
(* connections they open, and the events sent down them.                   *)
(*                                                                         *)
(* A ticket is kept in a Map of the instance that gave it out and, when    *)
(* Redis answers, in Redis; another instance copies it from there.  An     *)
(* event is emitted on the instance that handled the request and published *)
(* on a channel every instance subscribes to, that one included.           *)
(*                                                                         *)
(* An await is the end of a step.  Redis, the browsers and the clock are   *)
(* modelled from how the service uses them.  `failures' counts the         *)
(* restarts, the connections to Redis that broke and the tickets that were *)
(* not stored there, up to MaxFailures.                                    *)
(***************************************************************************)
EXTENDS Integers, FiniteSets, Sequences

CONSTANTS
    Instances, Users, Connections, NoConnection, Tickets, Holder,
    Notes,         \* notifications that may be saved
    Updates,       \* changes of tickets that may be broadcast
    NoEvent,
    Audience,      \* the users each of them is for; one for a notification
    Overlap,       \* whether requests about one user overlap
    MaxFailures,   \* bound: failures of a run
    MaxChannel     \* bound: messages on the way to an instance

Events == Notes \cup Updates

ASSUME StreamAssumption ==
    /\ NoConnection \notin Connections
    /\ Holder \in [Tickets -> Users]
    /\ IsFiniteSet(Notes) /\ NoEvent \notin Events
    /\ Audience \in [Events -> SUBSET Users]
    /\ \A n \in Notes : \E u \in Users : Audience[n] = {u}
    /\ Overlap \in BOOLEAN /\ MaxFailures \in Nat /\ MaxChannel \in Nat

VARIABLES
    issued,        \* tickets returned by createStreamTicket
    expired,       \* tickets whose expiresAt has passed
    streamTickets, \* this.streamTickets of each instance
    redisTickets,  \* the tickets Redis holds
    linked,        \* whether an instance is connected to Redis
    streams,       \* this.notificationStreams: who subscribed a user's Subject
    connection,    \* the connections as the server answers them
    fresh,         \* ticket updates not broadcast, notifications not saved
    unseen,        \* the saved notifications with seen = false
    untold,        \* notifications that left it without a word to their user
    jobs,          \* requests between their write and their event
    channel,       \* messages published and not yet received, per instance
    failures

ticketVars == <<issued, expired, streamTickets, redisTickets>>
eventVars  == <<fresh, unseen, untold, jobs>>
vars == <<ticketVars, linked, streams, connection, eventVars, channel, failures>>

-----------------------------------------------------------------------------
(* Connections, requests and messages.                                     *)

NoCount == Cardinality(Notes) + 1

Closed == [state |-> "closed"]

\* A connection waits for the answer of Redis, listens, or was given an
\* Observable that never emits; what it heard, and the last unseenCount of it.
Open(state, i, t) ==
    [state |-> state, at |-> i, ticket |-> t, heard |-> {}, count |-> NoCount]

OpenConnection ==
    [state : {"asking", "live", "deaf"}, at : Instances, ticket : Tickets,
     heard : SUBSET Events, count : Int]

UserOf(c) == Holder[connection[c].ticket]
Live(c)   == connection[c].state = "live"

Job == [user : Users, at : Instances, event : Events \cup {NoEvent},
        count : Int]

Message == [to : SUBSET Users, event : Events \cup {NoEvent}, count : Int]

Fails == failures < MaxFailures /\ failures' = failures + 1

Init ==
    /\ issued = {} /\ expired = {} /\ redisTickets = {}
    /\ streamTickets = [i \in Instances |-> {}]
    /\ linked = [i \in Instances |-> TRUE]
    /\ streams = [i \in Instances |-> [u \in Users |-> NoConnection]]
    /\ connection = [c \in Connections |-> Closed]
    /\ fresh = Events /\ unseen = {} /\ untold = {} /\ jobs = {}
    /\ channel = [i \in Instances |-> <<>>]
    /\ failures = 0

-----------------------------------------------------------------------------
(* Tickets.                                                                *)

\* Mutant: a ticket stays on the instance that gave it out.
StoreInRedis_Never(i, t) == UNCHANGED <<redisTickets, failures>>

\* A ticket Redis does not take is given out all the same.
StoreInRedis(i, t) ==
    \/ linked[i] /\ redisTickets' = redisTickets \cup {t} /\ UNCHANGED failures
    \/ linked[i] /\ Fails /\ UNCHANGED redisTickets
    \/ ~linked[i] /\ UNCHANGED <<redisTickets, failures>>

CreateStreamTicket(i, t) ==
    /\ t \notin issued
    /\ issued' = issued \cup {t}
    /\ streamTickets' = [streamTickets EXCEPT ![i] = @ \cup {t}]
    /\ StoreInRedis(i, t)
    /\ UNCHANGED <<expired, linked, streams, connection, eventVars, channel>>

\* Five minutes pass.
Expires(t) ==
    /\ t \in issued \ expired
    /\ expired' = expired \cup {t}
    /\ UNCHANGED <<issued, streamTickets, redisTickets, linked, streams,
                   connection, eventVars, channel, failures>>

\* Redis drops a key after its 300 seconds, which begin after those of the
\* ticket.
RedisExpires(t) ==
    /\ t \in redisTickets \cap expired
    /\ redisTickets' = redisTickets \ {t}
    /\ UNCHANGED <<issued, expired, streamTickets, linked, streams, connection,
                   eventVars, channel, failures>>

\* The timer of createStreamTicket.  It may find the clock at expiresAt and
\* leave the entry, and an entry copied from Redis has no timer: nothing makes
\* this step happen.
CleanUp(i, t) ==
    /\ t \in streamTickets[i] \cap expired
    /\ streamTickets' = [streamTickets EXCEPT ![i] = @ \ {t}]
    /\ UNCHANGED <<issued, expired, redisTickets, linked, streams, connection,
                   eventVars, channel, failures>>

-----------------------------------------------------------------------------
(* Streams.                                                                *)

Without(c) == [connection EXCEPT ![c] = Closed]

\* Mutant: the stream of before is completed when the new one is in the Map.
Listen_LateCleanup(c, i, t) ==
    LET old == streams[i][Holder[t]]
    IN  /\ streams' = [streams EXCEPT ![i][Holder[t]] =
                          IF old = NoConnection THEN c ELSE NoConnection]
        /\ connection' = [d \in Connections |->
               CASE d = c   -> Open("live", i, t)
                 [] d = old -> Closed
                 [] OTHER   -> connection[d]]

\* getNotificationStream: the stream of before is completed, which ends its
\* response, and its cleanup runs before the new one is put into the Map.
Listen(c, i, t) ==
    LET old == streams[i][Holder[t]]
    IN  /\ streams' = [streams EXCEPT ![i][Holder[t]] = c]
        /\ connection' = [d \in Connections |->
               CASE d = c   -> Open("live", i, t)
                 [] d = old -> Closed
                 [] OTHER   -> connection[d]]

\* Neither a ticket nor, without a guard on the route, a user.
Refuse(c, i, t) ==
    /\ connection' = [connection EXCEPT ![c] = Open("deaf", i, t)]
    /\ UNCHANGED streams

\* Mutant: what is in the Map is valid.
Judge_Trusting(c, i, t) ==
    /\ streamTickets' = [streamTickets EXCEPT ![i] = @ \cup {t}]
    /\ UNCHANGED redisTickets
    /\ Listen(c, i, t)

\* validateStreamTicket, the ticket found: an expired one is removed from the
\* Map and from Redis, another kept, also where it was copied from Redis.
Judge(c, i, t) ==
    \/ /\ t \in expired
       /\ streamTickets' = [streamTickets EXCEPT ![i] = @ \ {t}]
       /\ redisTickets' = IF linked[i] THEN redisTickets \ {t} ELSE redisTickets
       /\ Refuse(c, i, t)
    \/ /\ t \notin expired
       /\ streamTickets' = [streamTickets EXCEPT ![i] = @ \cup {t}]
       /\ UNCHANGED redisTickets
       /\ Listen(c, i, t)

\* A browser with a ticket connects, to any instance.
OpenStream(c, i, t) ==
    /\ connection[c].state = "closed" /\ t \in issued
    /\ \/ t \in streamTickets[i] /\ Judge(c, i, t)
       \/ /\ t \notin streamTickets[i] /\ linked[i]
          /\ connection' = [connection EXCEPT ![c] = Open("asking", i, t)]
          /\ UNCHANGED <<streamTickets, redisTickets, streams>>
       \/ /\ t \notin streamTickets[i] /\ ~linked[i]
          /\ Refuse(c, i, t)
          /\ UNCHANGED <<streamTickets, redisTickets>>
    /\ UNCHANGED <<issued, expired, linked, eventVars, channel, failures>>

\* The client of Redis repeats a question until it is connected again.
RedisAnswers(c) ==
    /\ connection[c].state = "asking"
    /\ LET i == connection[c].at  t == connection[c].ticket
       IN  /\ linked[i]
           /\ \/ t \in redisTickets /\ Judge(c, i, t)
              \/ /\ t \notin redisTickets /\ Refuse(c, i, t)
                 /\ UNCHANGED <<streamTickets, redisTickets>>
    /\ UNCHANGED <<issued, expired, linked, eventVars, channel, failures>>

\* The browser goes away, which unsubscribes: the entry of the user is
\* deleted, whoever put it there.
Disconnect(c) ==
    /\ connection[c].state # "closed"
    /\ connection' = Without(c)
    /\ streams' = IF Live(c)
                  THEN [streams EXCEPT
                           ![connection[c].at][UserOf(c)] = NoConnection]
                  ELSE streams
    /\ UNCHANGED <<ticketVars, linked, eventVars, channel, failures>>

\* A new process starts with empty Maps, not yet connected to Redis.
Restart(i) ==
    /\ Fails
    /\ streamTickets' = [streamTickets EXCEPT ![i] = {}]
    /\ streams' = [streams EXCEPT ![i] = [u \in Users |-> NoConnection]]
    /\ connection' = [c \in Connections |->
           IF connection[c].state # "closed" /\ connection[c].at = i
           THEN Closed ELSE connection[c]]
    /\ jobs' = { j \in jobs : j.at # i }
    /\ channel' = [channel EXCEPT ![i] = <<>>]
    /\ linked' = [linked EXCEPT ![i] = FALSE]
    /\ UNCHANGED <<issued, expired, redisTickets, fresh, unseen, untold>>

LoseRedis(i) ==
    /\ linked[i] /\ Fails
    /\ linked' = [linked EXCEPT ![i] = FALSE]
    /\ channel' = [channel EXCEPT ![i] = <<>>]
    /\ UNCHANGED <<ticketVars, streams, connection, eventVars>>

Reconnect(i) ==
    /\ ~linked[i]
    /\ linked' = [linked EXCEPT ![i] = TRUE]
    /\ UNCHANGED <<ticketVars, streams, connection, eventVars, channel, failures>>

-----------------------------------------------------------------------------
(* Events.                                                                 *)

\* emitToLocalStream for each user a message is for.
Heard(i, message) ==
    [c \in Connections |->
        IF \E u \in message.to : streams[i][u] = c
        THEN [connection[c] EXCEPT
                 !.heard = @ \cup ({message.event} \ {NoEvent}),
                 !.count = IF message.count = NoCount THEN @ ELSE message.count]
        ELSE connection[c]]

\* Mutant: nothing is published.
Published_Never(i, message) == channel

\* publish, which the origin receives as well.
Published(i, message) ==
    IF linked[i]
    THEN [k \in Instances |-> IF linked[k] THEN Append(channel[k], message)
                              ELSE channel[k]]
    ELSE channel

Sent(i, message) ==
    /\ \A k \in Instances : Len(channel[k]) < MaxChannel
    /\ connection' = Heard(i, message)
    /\ channel' = Published(i, message)

\* A request about user u has written and goes on to count.
Starts(i, u, event) ==
    /\ Overlap \/ \A j \in jobs : j.user # u
    /\ jobs' = jobs \cup
           {[user |-> u, at |-> i, event |-> event, count |-> NoCount]}

\* notify saves a notification its user has not turned off.
SaveNotification(i, n) ==
    /\ n \in fresh
    /\ \E u \in Audience[n] : Starts(i, u, n)
    /\ fresh' = fresh \ {n} /\ unseen' = unseen \cup {n}
    /\ UNCHANGED <<ticketVars, linked, streams, connection, untold, channel,
                   failures>>

UnseenOf(u) == { n \in unseen : u \in Audience[n] }

\* markAsSeen and markAllAsRead: all of the user.
MarkAsSeen(i, u) ==
    /\ UnseenOf(u) # {}
    /\ unseen' = unseen \ UnseenOf(u)
    /\ Starts(i, u, NoEvent)
    /\ UNCHANGED <<ticketVars, linked, streams, connection, fresh, untold,
                   channel, failures>>

\* markAsRead: one notification of the tenant, by any of its users, who is
\* sent the new count.
MarkAsRead(i, u, n) ==
    /\ n \in unseen
    /\ unseen' = unseen \ {n}
    /\ untold' = IF u \in Audience[n] THEN untold ELSE untold \cup {n}
    /\ Starts(i, u, NoEvent)
    /\ UNCHANGED <<ticketVars, linked, streams, connection, fresh, channel,
                   failures>>

\* deleteByUuid of one not seen, after which no count is sent.
DeleteNotification(n) ==
    /\ n \in unseen
    /\ unseen' = unseen \ {n} /\ untold' = untold \cup {n}
    /\ UNCHANGED <<ticketVars, linked, streams, connection, fresh, jobs,
                   channel, failures>>

\* Mutant: the notification at hand does not count.
CountUnseen_Others(u) == Cardinality(UnseenOf(u)) - 1

CountUnseen(u) == Cardinality(UnseenOf(u))

Count(j) ==
    /\ j.count = NoCount
    /\ jobs' = (jobs \ {j}) \cup {[j EXCEPT !.count = CountUnseen(j.user)]}
    /\ UNCHANGED <<ticketVars, linked, streams, connection, fresh, unseen,
                   untold, channel, failures>>

\* emitFromEntity and emitUnseenCount, the number counted.
Emit(j) ==
    /\ j.count # NoCount
    /\ Sent(j.at, [to |-> {j.user}, event |-> j.event, count |-> j.count])
    /\ jobs' = jobs \ {j}
    /\ UNCHANGED <<ticketVars, linked, streams, fresh, unseen, untold, failures>>

BroadcastTicketUpdate(i, x) ==
    /\ x \in fresh
    /\ fresh' = fresh \ {x}
    /\ Sent(i, [to |-> Audience[x], event |-> x, count |-> NoCount])
    /\ UNCHANGED <<ticketVars, linked, streams, unseen, untold, jobs, failures>>

\* Mutant: the list of users of a ticket update is taken for one user.
HandleRedisMessage_Single(i) ==
    /\ channel[i] # <<>>
    /\ connection' = IF Head(channel[i]).count # NoCount
                     THEN Heard(i, Head(channel[i])) ELSE connection
    /\ channel' = [channel EXCEPT ![i] = Tail(@)]
    /\ UNCHANGED <<ticketVars, linked, streams, eventVars, failures>>

HandleRedisMessage(i) ==
    /\ channel[i] # <<>>
    /\ connection' = Heard(i, Head(channel[i]))
    /\ channel' = [channel EXCEPT ![i] = Tail(@)]
    /\ UNCHANGED <<ticketVars, linked, streams, eventVars, failures>>

-----------------------------------------------------------------------------

Next ==
    \/ \E i \in Instances, t \in Tickets :
          CreateStreamTicket(i, t) \/ CleanUp(i, t)
    \/ \E t \in Tickets : Expires(t) \/ RedisExpires(t)
    \/ \E c \in Connections, i \in Instances, t \in Tickets : OpenStream(c, i, t)
    \/ \E c \in Connections : RedisAnswers(c) \/ Disconnect(c)
    \/ \E i \in Instances :
          Restart(i) \/ LoseRedis(i) \/ Reconnect(i) \/ HandleRedisMessage(i)
    \/ \E i \in Instances, n \in Notes : SaveNotification(i, n)
    \/ \E i \in Instances, u \in Users :
          MarkAsSeen(i, u) \/ \E n \in Notes : MarkAsRead(i, u, n)
    \/ \E n \in Notes : DeleteNotification(n)
    \/ \E i \in Instances, x \in Updates : BroadcastTicketUpdate(i, x)
    \/ \E j \in jobs : Count(j) \/ Emit(j)

\* The event loop goes on with a request whose query has answered and reads
\* the socket of Redis.  Browsers, clocks and Redis itself owe nothing.
Fairness ==
    /\ WF_vars(\E j \in jobs : Count(j)) /\ WF_vars(\E j \in jobs : Emit(j))
    /\ \A i \in Instances : WF_vars(HandleRedisMessage(i))

Spec == Init /\ [][Next]_vars /\ Fairness

-----------------------------------------------------------------------------
(* Properties.                                                             *)

\* The Maps, the rows and the messages have their shape: only tickets given out
\* are kept anywhere, and no count is negative.
TypeOK ==
    /\ issued \subseteq Tickets /\ expired \subseteq issued
    /\ streamTickets \in [Instances -> SUBSET issued]
    /\ redisTickets \subseteq issued
    /\ linked \in [Instances -> BOOLEAN]
    /\ streams \in [Instances -> [Users -> Connections \cup {NoConnection}]]
    /\ connection \in [Connections -> OpenConnection \cup {Closed}]
    /\ fresh \subseteq Events /\ unseen \subseteq Notes \ fresh
    /\ untold \subseteq Notes \ (fresh \cup unseen)
    /\ jobs \subseteq Job /\ \A j \in jobs : j.count >= 0
    /\ channel \in [Instances -> Seq(Message)]
    /\ failures \in Nat

\* A connection that is served is the one its user's entry of the Map leads to,
\* and an entry leads to such a connection: no stream is open that no event
\* reaches, whatever order connections are opened, replaced and closed in
\* (notification.service.ts:154).
ReachableStream ==
    /\ \A c \in Connections :
          Live(c) => streams[connection[c].at][UserOf(c)] = c
    /\ \A i \in Instances, u \in Users :
          LET c == streams[i][u]
          IN  c # NoConnection =>
                 Live(c) /\ connection[c].at = i /\ UserOf(c) = u

\* The Map of an instance, the copies in Redis and on other instances and the
\* questions under way amount to one desk: a ticket serves its own user, on
\* every instance, until it expires (notification.service.ts:113).
Desk == INSTANCE StreamDesk WITH listening <- streams

ImplementsDesk == Desk!DeskSpec

\* While nothing fails, a connection with a ticket that has not expired is never
\* left with a stream that says nothing: the copy in Redis is there before the
\* ticket is (notification.controller.ts:104).
NoValidPageIsDeaf ==
    \A c \in Connections :
        connection[c].state = "deaf" /\ connection[c].ticket \notin expired =>
            failures > 0

Pending(u, i) ==
    \/ \E j \in jobs : j.user = u
    \/ \E k \in 1..Len(channel[i]) : u \in channel[i][k].to

\* When the requests of a user come one after another and nothing failed, the
\* badge of a page at rest is right up to notifications that were deleted, or
\* read by somebody else: copies of an event that come late or twice leave no
\* older number on it, and it never hides a notification
\* (notification.service.ts:196).
BadgeIsRight ==
    ~Overlap /\ failures = 0 =>
        \A c \in Connections :
            /\ Live(c) /\ connection[c].count # NoCount
            /\ ~Pending(UserOf(c), connection[c].at)
            => connection[c].count - CountUnseen(UserOf(c))
                  \in 0..Cardinality(untold)

OnItsWay(e, i) ==
    \/ \E j \in jobs : j.event = e
    \/ \E k \in 1..Len(channel[i]) : channel[i][k].event = e

\* An event for a user reaches the connection that listens for them, on every
\* instance, or that connection is closed, as long as nothing fails.
EventsAreHeard ==
    \A c \in Connections, e \in Events :
        /\ Live(c) /\ UserOf(c) \in Audience[e]
        /\ OnItsWay(e, connection[c].at) /\ failures = 0
        ~> ~Live(c) \/ e \in connection[c].heard \/ failures > 0

=============================================================================

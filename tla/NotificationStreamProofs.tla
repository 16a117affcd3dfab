----------------------- MODULE NotificationStreamProofs -----------------------
(***************************************************************************)
(* The safety of NotificationStream for every number of instances, users,  *)
(* connections, tickets and notifications: the Map of streams leads to the *)
(* connections that are served, a good ticket is never forgotten, a badge  *)
(* at rest is right, and the whole implements StreamDesk.                  *)
(***************************************************************************)
EXTENDS NotificationStream, FiniteSetTheorems, TLAPS

\* The inductive invariant.  The types need the Map: only a connection that is
\* served, and so has the fields of an open one, is ever given an event.
Inv == TypeOK /\ ReachableStream

USE StreamAssumption

\* A number of notifications is a number.
LEMMA CountType ==
    ASSUME unseen \subseteq Notes, NEW u \in Users
    PROVE  CountUnseen(u) \in Nat
<1>1. UnseenOf(u) \subseteq Notes
  BY DEF UnseenOf
<1>2. IsFiniteSet(UnseenOf(u))
  BY <1>1, FS_Subset
<1> QED
  BY <1>2, FS_CardinalityType DEF CountUnseen

LEMMA NoCountType == NoCount \in Nat
BY FS_CardinalityType DEF NoCount

\* Nothing is stored and nobody is connected in the beginning.
LEMMA InitInv == Init => Inv
BY DEF Init, Inv, TypeOK, ReachableStream, Live, Closed

\* Receiving an event changes what a connection heard, and nothing else.
LEMMA HeardInv ==
    ASSUME Inv, NEW i \in Instances, NEW message \in Message,
           connection' = Heard(i, message), UNCHANGED <<issued, streams>>
    PROVE  /\ connection' \in [Connections -> OpenConnection \cup {Closed}]
           /\ ReachableStream'
<1>1. ASSUME NEW c \in Connections
      PROVE  /\ connection'[c] \in OpenConnection \cup {Closed}
             /\ connection'[c].state = connection[c].state
             /\ Live(c) => /\ connection'[c].at = connection[c].at
                           /\ connection'[c].ticket = connection[c].ticket
  <2>1. CASE \E u \in message.to : streams[i][u] = c
    <3>1. message.to \subseteq Users
      BY DEF Message
    <3>2. Live(c)
      BY <2>1, <3>1 DEF Inv, ReachableStream
    <3>3. connection[c] \in OpenConnection
      BY <3>2 DEF Inv, TypeOK, Live, Closed
    <3> DEFINE heard == connection[c].heard \cup ({message.event} \ {NoEvent})
               count == IF message.count = NoCount THEN connection[c].count
                        ELSE message.count
    <3>4. message.count \in Int /\ message.event \in Events \cup {NoEvent}
      BY DEF Message
    <3>5. heard \in SUBSET Events
      BY <3>3, <3>4 DEF OpenConnection
    <3>6. count \in Int
      BY <3>3, <3>4 DEF OpenConnection
    <3>7. connection'[c] =
            [connection[c] EXCEPT !.heard = heard, !.count = count]
      BY <2>1 DEF Heard
    <3> HIDE DEF heard, count
    <3>8. /\ connection'[c] \in OpenConnection
          /\ connection'[c].state = connection[c].state
          /\ connection'[c].at = connection[c].at
          /\ connection'[c].ticket = connection[c].ticket
      BY <3>3, <3>5, <3>6, <3>7 DEF OpenConnection
    <3> QED
      BY <3>8
  <2>2. CASE ~ \E u \in message.to : streams[i][u] = c
    <3>1. connection'[c] = connection[c]
      BY <2>2 DEF Heard
    <3> QED
      BY <3>1 DEF Inv, TypeOK
  <2> QED
    BY <2>1, <2>2
<1>2. connection' \in [Connections -> OpenConnection \cup {Closed}]
  BY <1>1 DEF Heard
<1>3. \A c \in Connections : Live(c)' <=> Live(c)
  BY <1>1 DEF Live
<1>4. \A c \in Connections : Live(c) => UserOf(c)' = UserOf(c)
  BY <1>1 DEF UserOf
<1>5. \A k \in Instances, u \in Users :
         streams[k][u] # NoConnection => streams[k][u] \in Connections
  BY DEF Inv, TypeOK
<1> QED
  BY <1>1, <1>2, <1>3, <1>4, <1>5 DEF Inv, ReachableStream

\* While the connections stay as they are, and the Map too, so does the other
\* half of the invariant.
LEMMA SameStreams ==
    ASSUME ReachableStream, UNCHANGED <<connection, streams>>
    PROVE  ReachableStream'
BY DEF ReachableStream, Live, UserOf

\* Giving out, forgetting and ageing tickets.
LEMMA TicketStepsInv ==
    ASSUME Inv, NEW i \in Instances, NEW t \in Tickets,
           \/ CreateStreamTicket(i, t) \/ CleanUp(i, t)
           \/ Expires(t) \/ RedisExpires(t)
    PROVE  Inv'
<1>1. CASE CreateStreamTicket(i, t)
  <2>1. redisTickets' \subseteq redisTickets \cup {t} /\ failures' \in Nat
    BY <1>1 DEF CreateStreamTicket, StoreInRedis, Fails, Inv, TypeOK
  <2>2. TypeOK'
    BY <1>1, <2>1
    DEF CreateStreamTicket, eventVars, Inv, TypeOK
  <2> QED
    BY <1>1, <2>2, SameStreams DEF CreateStreamTicket, Inv
<1>2. CASE CleanUp(i, t)
  BY <1>2, SameStreams DEF CleanUp, eventVars, Inv, TypeOK
<1>3. CASE Expires(t)
  BY <1>3, SameStreams DEF Expires, eventVars, Inv, TypeOK
<1>4. CASE RedisExpires(t)
  BY <1>4, SameStreams DEF RedisExpires, eventVars, Inv, TypeOK
<1> QED
  BY <1>1, <1>2, <1>3, <1>4

\* Changes of one connection that is not served and will not be.
LEMMA OtherConnection ==
    ASSUME Inv, NEW c \in Connections, ~Live(c), NEW row,
           row \in OpenConnection \cup {Closed}, row.state # "live",
           connection' = [connection EXCEPT ![c] = row], UNCHANGED streams
    PROVE  /\ connection' \in [Connections -> OpenConnection \cup {Closed}]
           /\ ReachableStream'
<1>1. connection' \in [Connections -> OpenConnection \cup {Closed}]
  BY DEF Inv, TypeOK
<1>2. \A d \in Connections :
         /\ Live(d)' <=> Live(d)
         /\ Live(d) => connection'[d] = connection[d]
  BY DEF Live, Inv, TypeOK
<1>3. \A k \in Instances, u \in Users :
         streams[k][u] # NoConnection => streams[k][u] \in Connections
  BY DEF Inv, TypeOK
<1> QED
  BY <1>1, <1>2, <1>3 DEF ReachableStream, Inv, UserOf

\* The record of an opened connection.
LEMMA OpenType ==
    ASSUME NEW state \in {"asking", "live", "deaf"}, NEW i \in Instances,
           NEW t \in Tickets
    PROVE  /\ Open(state, i, t) \in OpenConnection
           /\ Open(state, i, t).state = state
           /\ Open(state, i, t).at = i
           /\ Open(state, i, t).ticket = t
BY NoCountType DEF Open, OpenConnection

\* A connection that asks Redis, or is given a stream that says nothing.
LEMMA OtherOpened ==
    ASSUME Inv, NEW c \in Connections, ~Live(c), NEW i \in Instances,
           NEW t \in Tickets, NEW state \in {"asking", "deaf"},
           connection' = [connection EXCEPT ![c] = Open(state, i, t)],
           UNCHANGED streams
    PROVE  /\ connection' \in [Connections -> OpenConnection \cup {Closed}]
           /\ ReachableStream'
<1> DEFINE row == Open(state, i, t)
<1>1. row \in OpenConnection \cup {Closed} /\ row.state # "live"
  BY OpenType
<1>2. connection' = [connection EXCEPT ![c] = row]
  OBVIOUS
<1> HIDE DEF row
<1> QED
  BY <1>1, <1>2, OtherConnection

\* getNotificationStream: the connection takes the place of the one before.
LEMMA ListenInv ==
    ASSUME Inv, NEW c \in Connections, ~Live(c), NEW i \in Instances,
           NEW t \in Tickets, Listen(c, i, t)
    PROVE  /\ connection' \in [Connections -> OpenConnection \cup {Closed}]
           /\ streams' \in
                 [Instances -> [Users -> Connections \cup {NoConnection}]]
           /\ ReachableStream'
<1> DEFINE u == Holder[t]
           old == streams[i][u]
<1>1. u \in Users
  OBVIOUS
<1>2. /\ connection'[c] = Open("live", i, t)
      /\ \A d \in Connections \ {c} :
            connection'[d] = IF d = old THEN Closed ELSE connection[d]
  <2>1. old # c
    BY <1>1 DEF Inv, ReachableStream, StreamAssumption
  <2> QED
    BY <2>1 DEF Listen
<1>3. connection' \in [Connections -> OpenConnection \cup {Closed}]
  <2>1. \A d \in Connections : connection'[d] \in OpenConnection \cup {Closed}
    BY <1>2, OpenType DEF Inv, TypeOK
  <2> QED
    BY <2>1 DEF Listen
<1>4. streams' \in [Instances -> [Users -> Connections \cup {NoConnection}]]
  BY <1>1 DEF Listen, Inv, TypeOK
<1>5. /\ streams'[i][u] = c
      /\ \A k \in Instances, v \in Users :
            k # i \/ v # u => streams'[k][v] = streams[k][v]
  BY <1>1 DEF Listen, Inv, TypeOK
<1>6. /\ Live(c)' /\ connection'[c].at = i /\ UserOf(c)' = u
  BY <1>2, OpenType DEF Live, UserOf
<1>7. ASSUME NEW d \in Connections, d # c, Live(d)'
      PROVE  d # old /\ Live(d) /\ connection'[d] = connection[d]
  BY <1>2, <1>7 DEF Live, Closed
<1>8. ASSUME NEW d \in Connections, Live(d)'
      PROVE  streams'[connection'[d].at][UserOf(d)'] = d
  <2>1. CASE d = c
    BY <1>5, <1>6, <2>1
  <2>2. CASE d # c
    <3>1. d # old /\ Live(d) /\ connection'[d] = connection[d]
      BY <1>7, <1>8, <2>2
    <3>2. connection[d] \in OpenConnection
      BY <3>1 DEF Inv, TypeOK, Live, Closed
    <3>3. connection[d].at \in Instances /\ UserOf(d) \in Users
      BY <3>2 DEF OpenConnection, UserOf
    <3>4. streams[connection[d].at][UserOf(d)] = d
      BY <3>1 DEF Inv, ReachableStream
    <3> QED
      BY <1>5, <3>1, <3>3, <3>4 DEF UserOf
  <2> QED
    BY <2>1, <2>2
<1>9. ASSUME NEW k \in Instances, NEW v \in Users, NEW d,
             d = streams'[k][v], d # NoConnection
      PROVE  Live(d)' /\ connection'[d].at = k /\ UserOf(d)' = v
  <2>1. CASE k = i /\ v = u
    BY <1>5, <1>6, <1>9, <2>1
  <2>2. CASE k # i \/ v # u
    <3>1. d = streams[k][v] /\ d \in Connections
      BY <1>5, <1>9, <2>2 DEF Inv, TypeOK
    <3>2. Live(d) /\ connection[d].at = k /\ UserOf(d) = v
      BY <1>9, <3>1 DEF Inv, ReachableStream
    <3>3. d # c
      BY <3>2
    <3>4. d # old
      <4>1. old # NoConnection => connection[old].at = i /\ UserOf(old) = u
        BY <1>1 DEF Inv, ReachableStream
      <4> QED
        BY <2>2, <3>1, <3>2, <4>1
    <3>5. connection'[d] = connection[d]
      BY <1>2, <3>1, <3>3, <3>4
    <3> QED
      BY <3>1, <3>2, <3>5 DEF Live, UserOf
  <2> QED
    BY <2>1, <2>2
<1> QED
  BY <1>3, <1>4, <1>8, <1>9 DEF ReachableStream

\* validateStreamTicket with a ticket found: it is given out, so the Maps still
\* hold only such.
LEMMA JudgeInv ==
    ASSUME Inv, NEW c \in Connections, ~Live(c), NEW i \in Instances,
           NEW t \in issued, Judge(c, i, t),
           UNCHANGED <<issued, expired, linked, eventVars, channel, failures>>
    PROVE  Inv'
<1>1. t \in Tickets
  BY DEF Inv, TypeOK
<1>2. CASE t \in expired /\ Refuse(c, i, t)
                         /\ streamTickets' = [streamTickets EXCEPT ![i] = @ \ {t}]
  <2>1. /\ connection' \in [Connections -> OpenConnection \cup {Closed}]
        /\ ReachableStream'
    BY <1>1, <1>2, OtherOpened DEF Refuse
  <2>2. redisTickets' \subseteq redisTickets
    BY DEF Judge
  <2> QED
    BY <1>2, <2>1, <2>2 DEF Refuse, eventVars, Inv, TypeOK
<1>3. CASE t \notin expired /\ Listen(c, i, t)
  <2>1. /\ connection' \in [Connections -> OpenConnection \cup {Closed}]
        /\ streams' \in
              [Instances -> [Users -> Connections \cup {NoConnection}]]
        /\ ReachableStream'
    BY <1>1, <1>3, ListenInv
  <2>2. /\ streamTickets' = [streamTickets EXCEPT ![i] = @ \cup {t}]
        /\ UNCHANGED redisTickets
    BY <1>3 DEF Judge
  <2> QED
    BY <2>1, <2>2 DEF eventVars, Inv, TypeOK
<1> QED
  BY <1>2, <1>3 DEF Judge

\* A browser connects, with the ticket found, asked for or refused.
LEMMA OpenStreamInv ==
    ASSUME Inv, NEW c \in Connections, NEW i \in Instances, NEW t \in Tickets,
           OpenStream(c, i, t)
    PROVE  Inv'
<1>1. t \in issued /\ ~Live(c)
  BY DEF OpenStream, Live
<1>2. CASE t \in streamTickets[i] /\ Judge(c, i, t)
  BY <1>1, <1>2, JudgeInv DEF OpenStream
<1>3. CASE /\ t \notin streamTickets[i]
           /\ \E state \in {"asking", "deaf"} :
                 connection' = [connection EXCEPT ![c] = Open(state, i, t)]
           /\ UNCHANGED <<streamTickets, redisTickets, streams>>
  <2>1. /\ connection' \in [Connections -> OpenConnection \cup {Closed}]
        /\ ReachableStream'
    BY <1>1, <1>3, OtherOpened
  <2> QED
    BY <1>3, <2>1 DEF OpenStream, eventVars, Inv, TypeOK
<1> QED
  BY <1>2, <1>3 DEF OpenStream, Refuse

LEMMA RedisAnswersInv ==
    ASSUME Inv, NEW c \in Connections, RedisAnswers(c)
    PROVE  Inv'
<1> DEFINE i == connection[c].at
           t == connection[c].ticket
<1>1. ~Live(c) /\ i \in Instances /\ t \in Tickets
  BY DEF RedisAnswers, Inv, TypeOK, Live, OpenConnection, Closed
<1>2. CASE t \in redisTickets /\ Judge(c, i, t)
  <2>1. t \in issued
    BY <1>2 DEF Inv, TypeOK
  <2> QED
    BY <1>1, <1>2, <2>1, JudgeInv DEF RedisAnswers
<1>3. CASE Refuse(c, i, t) /\ UNCHANGED <<streamTickets, redisTickets>>
  <2>1. /\ connection' \in [Connections -> OpenConnection \cup {Closed}]
        /\ ReachableStream'
    BY <1>1, <1>3, OtherOpened DEF Refuse
  <2> QED
    BY <1>3, <2>1 DEF RedisAnswers, Refuse, eventVars, Inv, TypeOK
<1> QED
  BY <1>2, <1>3 DEF RedisAnswers

\* A connection that leaves takes its own entry of the Map with it.
LEMMA DisconnectInv ==
    ASSUME Inv, NEW c \in Connections, Disconnect(c)
    PROVE  Inv'
<1>1. CASE ~Live(c)
  <2>1. /\ connection' \in [Connections -> OpenConnection \cup {Closed}]
        /\ ReachableStream'
    <3>1. Closed.state # "live" /\ Closed \in OpenConnection \cup {Closed}
      BY DEF Closed
    <3> QED
      BY <1>1, <3>1, OtherConnection DEF Disconnect, Without
  <2> QED
    BY <1>1, <2>1 DEF Disconnect, ticketVars, eventVars, Inv, TypeOK
<1>2. CASE Live(c)
  <2> DEFINE i == connection[c].at
             u == UserOf(c)
  <2>1. i \in Instances /\ u \in Users
    BY <1>2 DEF Inv, TypeOK, Live, OpenConnection, Closed, UserOf
  <2>2. /\ streams'[i][u] = NoConnection
        /\ \A k \in Instances, v \in Users :
              k # i \/ v # u => streams'[k][v] = streams[k][v]
        /\ streams' \in
              [Instances -> [Users -> Connections \cup {NoConnection}]]
    BY <1>2, <2>1 DEF Disconnect, Inv, TypeOK
  <2>3. /\ connection' \in [Connections -> OpenConnection \cup {Closed}]
        /\ ~Live(c)'
        /\ \A d \in Connections \ {c} : connection'[d] = connection[d]
    BY DEF Disconnect, Without, Inv, TypeOK, Closed, Live
  <2>4. ASSUME NEW d \in Connections, Live(d)'
        PROVE  streams'[connection'[d].at][UserOf(d)'] = d
    <3>1. d # c /\ connection'[d] = connection[d] /\ Live(d)
      BY <2>3, <2>4 DEF Live
    <3>2. connection[d].at \in Instances /\ UserOf(d) \in Users
      BY <3>1 DEF Inv, TypeOK, Live, OpenConnection, Closed, UserOf
    <3>3. /\ streams[connection[d].at][UserOf(d)] = d
          /\ streams[i][u] = c
      BY <1>2, <3>1 DEF Inv, ReachableStream
    <3> QED
      BY <2>2, <3>1, <3>2, <3>3 DEF UserOf
  <2>5. ASSUME NEW k \in Instances, NEW v \in Users, NEW d,
               d = streams'[k][v], d # NoConnection
        PROVE  Live(d)' /\ connection'[d].at = k /\ UserOf(d)' = v
    <3>1. d = streams[k][v] /\ d \in Connections /\ (k # i \/ v # u)
      BY <2>2, <2>5 DEF Inv, TypeOK
    <3>2. Live(d) /\ connection[d].at = k /\ UserOf(d) = v
      BY <2>5, <3>1 DEF Inv, ReachableStream
    <3>3. d # c
      BY <3>1, <3>2
    <3> QED
      BY <2>3, <3>1, <3>2, <3>3 DEF Live, UserOf
  <2>6. ReachableStream'
    BY <2>4, <2>5 DEF ReachableStream
  <2> QED
    BY <2>2, <2>3, <2>6 DEF Disconnect, ticketVars, eventVars, Inv, TypeOK
<1> QED
  BY <1>1, <1>2

\* A process that starts again has neither streams nor connections.
LEMMA RestartInv ==
    ASSUME Inv, NEW i \in Instances, Restart(i)
    PROVE  Inv'
<1>1. /\ connection' \in [Connections -> OpenConnection \cup {Closed}]
      /\ \A c \in Connections :
            Live(c)' => Live(c) /\ connection[c].at # i
                        /\ connection'[c] = connection[c]
      /\ \A c \in Connections :
            Live(c) /\ connection[c].at # i => connection'[c] = connection[c]
  BY DEF Restart, Inv, TypeOK, Closed, Live
<1>2. /\ streams' \in
            [Instances -> [Users -> Connections \cup {NoConnection}]]
      /\ \A u \in Users : streams'[i][u] = NoConnection
      /\ \A k \in Instances \ {i} : streams'[k] = streams[k]
  BY DEF Restart, Inv, TypeOK
<1>3. ASSUME NEW c \in Connections, Live(c)'
      PROVE  streams'[connection'[c].at][UserOf(c)'] = c
  <2>1. /\ Live(c) /\ connection[c].at # i
        /\ connection'[c] = connection[c]
    BY <1>1, <1>3
  <2>2. connection[c].at \in Instances \ {i}
    BY <2>1 DEF Inv, TypeOK, Live, OpenConnection, Closed
  <2>3. streams[connection[c].at][UserOf(c)] = c
    BY <2>1 DEF Inv, ReachableStream
  <2> QED
    BY <1>2, <2>1, <2>2, <2>3 DEF UserOf
<1>4. ASSUME NEW k \in Instances, NEW u \in Users, NEW c,
             c = streams'[k][u], c # NoConnection
      PROVE  Live(c)' /\ connection'[c].at = k /\ UserOf(c)' = u
  <2>1. k # i /\ c = streams[k][u] /\ c \in Connections
    BY <1>2, <1>4 DEF Inv, TypeOK
  <2>2. Live(c) /\ connection[c].at = k /\ UserOf(c) = u
    BY <1>4, <2>1 DEF Inv, ReachableStream
  <2>3. connection'[c] = connection[c]
    BY <1>1, <2>1, <2>2
  <2> QED
    BY <2>2, <2>3 DEF Live, UserOf
<1>5. ReachableStream'
  BY <1>3, <1>4 DEF ReachableStream
<1>6. failures' \in Nat /\ <<>> \in Seq(Message)
  BY DEF Restart, Fails, Inv, TypeOK
<1>7. channel' \in [Instances -> Seq(Message)]
  BY <1>6 DEF Restart, Inv, TypeOK
<1> QED
  BY <1>1, <1>2, <1>5, <1>6, <1>7 DEF Restart, Inv, TypeOK

\* Redis going away and coming back.
LEMMA RedisStepsInv ==
    ASSUME Inv, NEW i \in Instances, LoseRedis(i) \/ Reconnect(i)
    PROVE  Inv'
<1>1. CASE LoseRedis(i)
  <2>1. failures' \in Nat /\ <<>> \in Seq(Message)
    BY <1>1 DEF LoseRedis, Fails, Inv, TypeOK
  <2>2. channel' \in [Instances -> Seq(Message)]
    BY <1>1, <2>1 DEF LoseRedis, Inv, TypeOK
  <2> QED
    BY <1>1, <2>1, <2>2, SameStreams
    DEF LoseRedis, ticketVars, eventVars, Inv, TypeOK
<1>2. CASE Reconnect(i)
  BY <1>2, SameStreams DEF Reconnect, ticketVars, eventVars, Inv, TypeOK
<1> QED
  BY <1>1, <1>2

\* A message that is sent has the shape of one on every channel it is put on.
LEMMA SentInv ==
    ASSUME Inv, NEW i \in Instances, NEW message \in Message,
           Sent(i, message), UNCHANGED <<issued, streams>>
    PROVE  /\ connection' \in [Connections -> OpenConnection \cup {Closed}]
           /\ ReachableStream'
           /\ channel' \in [Instances -> Seq(Message)]
<1>1. \A k \in Instances : Append(channel[k], message) \in Seq(Message)
  BY DEF Inv, TypeOK
<1>2. channel' \in [Instances -> Seq(Message)]
  BY <1>1 DEF Sent, Published, Inv, TypeOK
<1> QED
  BY <1>2, HeardInv DEF Sent

\* A request that starts has counted nothing, with the number above all counts.
LEMMA StartsInv ==
    ASSUME Inv, NEW i \in Instances, NEW u \in Users,
           NEW e \in Events \cup {NoEvent}, Starts(i, u, e)
    PROVE  jobs' \subseteq Job /\ \A j \in jobs' : j.count >= 0
BY NoCountType DEF Starts, Job, Inv, TypeOK

\* What happens to notifications and the requests about them.
LEMMA RequestInv ==
    ASSUME Inv, NEW i \in Instances, NEW n \in Notes, NEW u \in Users,
           \/ SaveNotification(i, n) \/ MarkAsSeen(i, u)
           \/ MarkAsRead(i, u, n) \/ DeleteNotification(n)
    PROVE  Inv'
<1>1. n \in Events \cup {NoEvent}
  BY DEF Events
<1>2. CASE SaveNotification(i, n)
  <2>1. PICK v \in Audience[n] : Starts(i, v, n)
    BY <1>2 DEF SaveNotification
  <2>2. v \in Users
    BY DEF Events
  <2>3. jobs' \subseteq Job /\ \A j \in jobs' : j.count >= 0
    BY <1>1, <2>1, <2>2, StartsInv
  <2> QED
    BY <1>2, <2>3, SameStreams DEF SaveNotification, ticketVars, Inv, TypeOK
<1>3. CASE MarkAsSeen(i, u)
  <2>1. jobs' \subseteq Job /\ \A j \in jobs' : j.count >= 0
    BY <1>3, StartsInv DEF MarkAsSeen
  <2> QED
    BY <1>3, <2>1, SameStreams DEF MarkAsSeen, ticketVars, Inv, TypeOK
<1>4. CASE MarkAsRead(i, u, n)
  <2>1. jobs' \subseteq Job /\ \A j \in jobs' : j.count >= 0
    BY <1>4, StartsInv DEF MarkAsRead
  <2>2. /\ unseen' \subseteq Notes \ fresh'
        /\ untold' \subseteq Notes \ (fresh' \cup unseen')
    BY <1>4 DEF MarkAsRead, Inv, TypeOK
  <2> QED
    BY <1>4, <2>1, <2>2, SameStreams DEF MarkAsRead, ticketVars, Inv, TypeOK
<1>5. CASE DeleteNotification(n)
  BY <1>5, SameStreams DEF DeleteNotification, ticketVars, Inv, TypeOK
<1> QED
  BY <1>2, <1>3, <1>4, <1>5

\* A request counts, with a number that is one, and is answered.
LEMMA JobInv ==
    ASSUME Inv, NEW j \in jobs, Count(j) \/ Emit(j)
    PROVE  Inv'
<1>1. j \in Job /\ j.count >= 0
  BY DEF Inv, TypeOK
<1>2. CASE Count(j)
  <2> DEFINE n == CountUnseen(j.user)
             counted == [j EXCEPT !.count = n]
  <2>1. n \in Nat
    BY <1>1, CountType DEF Inv, TypeOK, Job
  <2>2. jobs' = (jobs \ {j}) \cup {counted}
    BY <1>2 DEF Count
  <2> HIDE DEF n
  <2>3. counted \in Job /\ counted.count >= 0
    BY <1>1, <2>1 DEF Job
  <2> HIDE DEF counted
  <2> QED
    BY <1>2, <2>2, <2>3, SameStreams DEF Count, ticketVars, Inv, TypeOK
<1>3. CASE Emit(j)
  <2> DEFINE message ==
               [to |-> {j.user}, event |-> j.event, count |-> j.count]
  <2>1. message \in Message /\ j.at \in Instances
    BY <1>1 DEF Job, Message
  <2>2. Sent(j.at, message) /\ UNCHANGED <<issued, streams>>
    BY <1>3 DEF Emit, ticketVars
  <2> HIDE DEF message
  <2>3. /\ connection' \in [Connections -> OpenConnection \cup {Closed}]
        /\ ReachableStream'
        /\ channel' \in [Instances -> Seq(Message)]
    BY <2>1, <2>2, SentInv
  <2> QED
    BY <1>3, <2>3 DEF Emit, ticketVars, Inv, TypeOK
<1> QED
  BY <1>2, <1>3

\* An update of a ticket goes to everybody it concerns.
LEMMA BroadcastInv ==
    ASSUME Inv, NEW i \in Instances, NEW x \in Updates,
           BroadcastTicketUpdate(i, x)
    PROVE  Inv'
<1> DEFINE message == [to |-> Audience[x], event |-> x, count |-> NoCount]
<1>1. message \in Message
  BY NoCountType DEF Message, Events
<1>2. Sent(i, message) /\ UNCHANGED <<issued, streams>>
  BY DEF BroadcastTicketUpdate, ticketVars
<1> HIDE DEF message
<1>3. /\ connection' \in [Connections -> OpenConnection \cup {Closed}]
      /\ ReachableStream'
      /\ channel' \in [Instances -> Seq(Message)]
  BY <1>1, <1>2, SentInv
<1> QED
  BY <1>3 DEF BroadcastTicketUpdate, ticketVars, Inv, TypeOK

\* The first message of a channel is one, and so are those behind it.
LEMMA ReceiveInv ==
    ASSUME Inv, NEW i \in Instances, HandleRedisMessage(i)
    PROVE  Inv'
<1> DEFINE message == Head(channel[i])
<1>1. channel[i] \in Seq(Message) /\ channel[i] # <<>>
  BY DEF HandleRedisMessage, Inv, TypeOK
<1>2. message \in Message /\ Tail(channel[i]) \in Seq(Message)
  BY <1>1
<1>3. connection' = Heard(i, message) /\ UNCHANGED <<issued, streams>>
  BY DEF HandleRedisMessage, ticketVars
<1> HIDE DEF message
<1>4. /\ connection' \in [Connections -> OpenConnection \cup {Closed}]
      /\ ReachableStream'
  BY <1>2, <1>3, HeardInv
<1>5. channel' \in [Instances -> Seq(Message)]
  BY <1>2 DEF HandleRedisMessage, Inv, TypeOK
<1> QED
  BY <1>4, <1>5
  DEF HandleRedisMessage, ticketVars, eventVars, Inv, TypeOK

\* Every step keeps the invariant.
LEMMA NextInv == Inv /\ [Next]_vars => Inv'
<1> SUFFICES ASSUME Inv, [Next]_vars
             PROVE  Inv'
  OBVIOUS
<1>1. CASE UNCHANGED vars
  BY <1>1, SameStreams DEF vars, ticketVars, eventVars, Inv, TypeOK
<1>2. CASE \E i \in Instances, t \in Tickets :
              CreateStreamTicket(i, t) \/ CleanUp(i, t)
  BY <1>2, TicketStepsInv
<1>3. CASE \E t \in Tickets : Expires(t) \/ RedisExpires(t)
  <2>1. PICK t \in Tickets : Expires(t) \/ RedisExpires(t)
    BY <1>3
  <2> QED
    BY <2>1, SameStreams DEF Expires, RedisExpires, eventVars, Inv, TypeOK
<1>4. CASE \E c \in Connections, i \in Instances, t \in Tickets :
              OpenStream(c, i, t)
  BY <1>4, OpenStreamInv
<1>5. CASE \E c \in Connections : RedisAnswers(c) \/ Disconnect(c)
  BY <1>5, RedisAnswersInv, DisconnectInv
<1>6. CASE \E i \in Instances :
              \/ Restart(i) \/ LoseRedis(i) \/ Reconnect(i)
              \/ HandleRedisMessage(i)
  BY <1>6, RestartInv, RedisStepsInv, ReceiveInv
<1>7. CASE \E i \in Instances, n \in Notes : SaveNotification(i, n)
  <2>1. PICK i \in Instances, n \in Notes : SaveNotification(i, n)
    BY <1>7
  <2>2. PICK u \in Users : Audience[n] = {u}
    OBVIOUS
  <2> QED
    BY <2>1, RequestInv
<1>8. CASE \E i \in Instances, u \in Users :
              MarkAsSeen(i, u) \/ \E n \in Notes : MarkAsRead(i, u, n)
  <2>1. PICK i \in Instances, u \in Users :
           MarkAsSeen(i, u) \/ \E n \in Notes : MarkAsRead(i, u, n)
    BY <1>8
  <2>2. Notes # {}
    BY <2>1 DEF MarkAsSeen, UnseenOf, Inv, TypeOK
  <2> QED
    BY <2>1, <2>2, RequestInv
<1>9. CASE \E n \in Notes : DeleteNotification(n)
  <2>1. PICK n \in Notes : DeleteNotification(n)
    BY <1>9
  <2> QED
    BY <2>1, SameStreams DEF DeleteNotification, ticketVars, Inv, TypeOK
<1>10. CASE \E i \in Instances, x \in Updates : BroadcastTicketUpdate(i, x)
  BY <1>10, BroadcastInv
<1>11. CASE \E j \in jobs : Count(j) \/ Emit(j)
  BY <1>11, JobInv
<1> QED
  BY <1>1, <1>2, <1>3, <1>4, <1>5, <1>6, <1>7, <1>8, <1>9, <1>10, <1>11
  DEF Next

THEOREM Invariance == Spec => []Inv
<1>1. Init => Inv
  BY InitInv
<1>2. Inv /\ [Next]_vars => Inv'
  BY NextInv
<1> QED
  BY <1>1, <1>2, PTL DEF Spec

\* The rows, the Maps and the messages keep their shape, however many instances
\* and connections there are and whatever fails.
THEOREM TypeCorrect == Spec => []TypeOK
BY Invariance, PTL DEF Inv

\* A stream that is open is one its user's events are sent down.
THEOREM StreamsReachable == Spec => []ReachableStream
BY Invariance, PTL DEF Inv

-----------------------------------------------------------------------------
(* The copy in Redis.                                                      *)

\* While nothing failed Redis holds every ticket that has not expired.
RedisKnows ==
    failures = 0 =>
        (\A i \in Instances : linked[i]) /\ issued \ expired \subseteq redisTickets

\* Nobody connects with a ticket that was not given out.
OpenedWithTicket ==
    \A c \in Connections :
        connection[c].state # "closed" => connection[c].ticket \in issued

\* The inductive invariant of the answers of Redis.
Knows == RedisKnows /\ OpenedWithTicket /\ NoValidPageIsDeaf

\* What a message does to a connection: the count of its user, if it has one,
\* and no more than what the connection heard.
LEMMA HeardKeeps ==
    ASSUME Inv, NEW i \in Instances, NEW message \in Message,
           connection' = Heard(i, message), NEW c \in Connections
    PROVE  /\ connection'[c].state = connection[c].state
           /\ ~Live(c) => connection'[c] = connection[c]
           /\ Live(c) =>
                 /\ connection'[c].at = connection[c].at
                 /\ connection'[c].ticket = connection[c].ticket
                 /\ connection'[c].count =
                       IF /\ connection[c].at = i /\ UserOf(c) \in message.to
                          /\ message.count # NoCount
                       THEN message.count ELSE connection[c].count
<1>1. message.to \subseteq Users
  BY DEF Message
<1>2. CASE Live(c)
  <2>1. connection[c] \in OpenConnection
    BY <1>2 DEF Inv, TypeOK, Live, Closed
  <2>2. connection[c].at \in Instances /\ UserOf(c) \in Users
    BY <2>1 DEF OpenConnection, UserOf
  <2>3. (\E u \in message.to : streams[i][u] = c)
           <=> connection[c].at = i /\ UserOf(c) \in message.to
    <3>1. streams[connection[c].at][UserOf(c)] = c
      BY <1>2 DEF Inv, ReachableStream
    <3>2. \A u \in Users : streams[i][u] = c => connection[c].at = i /\ UserOf(c) = u
      BY DEF Inv, ReachableStream
    <3> QED
      BY <1>1, <3>1, <3>2
  <2> DEFINE heard == connection[c].heard \cup ({message.event} \ {NoEvent})
             count == IF message.count = NoCount THEN connection[c].count
                      ELSE message.count
  <2>4. connection'[c] =
           IF connection[c].at = i /\ UserOf(c) \in message.to
           THEN [connection[c] EXCEPT !.heard = heard, !.count = count]
           ELSE connection[c]
    BY <2>3 DEF Heard
  <2> HIDE DEF heard
  <2> QED
    BY <1>2, <2>1, <2>4 DEF OpenConnection
<1>3. CASE ~Live(c)
  <2>1. \A u \in message.to : streams[i][u] # c
    BY <1>1, <1>3 DEF Inv, ReachableStream
  <2>2. connection'[c] = connection[c]
    BY <2>1 DEF Heard
  <2> QED
    BY <1>3, <2>2
<1> QED
  BY <1>2, <1>3

\* Connections that stay, go, or hear something need no other ticket.
LEMMA KnownConnections ==
    ASSUME OpenedWithTicket, NoValidPageIsDeaf,
           issued \subseteq issued', expired \subseteq expired',
           failures \in Nat, failures' \in Nat, failures > 0 => failures' > 0,
           \A c \in Connections :
              \/ connection'[c] = Closed
              \/ /\ connection'[c].state = connection[c].state
                 /\ connection[c].state # "closed" =>
                       connection'[c].ticket = connection[c].ticket
              \/ /\ connection'[c].state # "closed"
                 /\ connection'[c].ticket \in issued'
                 /\ connection'[c].state = "deaf" =>
                       connection'[c].ticket \in expired' \/ failures' > 0
    PROVE  OpenedWithTicket' /\ NoValidPageIsDeaf'
BY DEF OpenedWithTicket, NoValidPageIsDeaf, Closed

\* A ticket that is judged is refused only when it has expired, and a live one
\* stays in Redis.
LEMMA JudgeKnows ==
    ASSUME Inv, Knows, NEW c \in Connections, NEW i \in Instances,
           NEW t \in issued, Judge(c, i, t),
           UNCHANGED <<issued, expired, linked, failures>>
    PROVE  Knows'
<1>1. t \in Tickets
  BY DEF Inv, TypeOK
<1>2. redisTickets \ redisTickets' \subseteq expired
  BY DEF Judge
<1>3. RedisKnows'
  BY <1>2 DEF Knows, RedisKnows
<1>4. ASSUME NEW d \in Connections
      PROVE  \/ connection'[d] = Closed
             \/ connection'[d] = connection[d]
             \/ /\ connection'[d].state # "closed"
                /\ connection'[d].ticket \in issued'
                /\ connection'[d].state = "deaf" => connection'[d].ticket \in expired'
  <2>1. CASE t \in expired /\ Refuse(c, i, t)
    <3>1. connection'[d] = IF d = c THEN Open("deaf", i, t) ELSE connection[d]
      BY <2>1 DEF Refuse, Inv, TypeOK
    <3> QED
      BY <1>1, <2>1, <3>1, OpenType
  <2>2. CASE Listen(c, i, t)
    <3>1. \/ connection'[d] = Open("live", i, t)
          \/ connection'[d] = Closed
          \/ connection'[d] = connection[d]
      BY <2>2 DEF Listen
    <3> QED
      BY <1>1, <3>1, OpenType
  <2> QED
    BY <2>1, <2>2 DEF Judge
<1>5. failures \in Nat /\ failures' \in Nat
  BY DEF Inv, TypeOK
<1> QED
  BY <1>3, <1>4, <1>5, KnownConnections DEF Knows

\* A browser connects: without Redis something has failed before.
LEMMA OpenStreamKnows ==
    ASSUME Inv, Knows, NEW c \in Connections, NEW i \in Instances,
           NEW t \in Tickets, OpenStream(c, i, t)
    PROVE  Knows'
<1>1. t \in issued /\ UNCHANGED <<issued, expired, linked, failures>>
  BY DEF OpenStream
<1>2. CASE Judge(c, i, t)
  BY <1>1, <1>2, JudgeKnows
<1>3. CASE /\ UNCHANGED redisTickets
           /\ \E state \in {"asking", "deaf"} :
                 /\ connection' = [connection EXCEPT ![c] = Open(state, i, t)]
                 /\ state = "deaf" => ~linked[i]
  <2>1. PICK state \in {"asking", "deaf"} :
           /\ connection' = [connection EXCEPT ![c] = Open(state, i, t)]
           /\ state = "deaf" => ~linked[i]
    BY <1>3
  <2>2. failures \in Nat /\ (~linked[i] => failures > 0)
    BY DEF Inv, TypeOK, Knows, RedisKnows
  <2>3. ASSUME NEW d \in Connections
        PROVE  \/ connection'[d] = connection[d]
               \/ /\ connection'[d].state = state
                  /\ connection'[d].ticket = t
    BY <2>1, OpenType DEF Inv, TypeOK
  <2>4. RedisKnows'
    BY <1>1, <1>3 DEF Knows, RedisKnows
  <2>5. OpenedWithTicket' /\ NoValidPageIsDeaf'
    BY <1>1, <2>1, <2>2, <2>3 DEF Knows, OpenedWithTicket, NoValidPageIsDeaf
  <2> QED
    BY <2>4, <2>5 DEF Knows
<1> QED
  BY <1>2, <1>3 DEF OpenStream, Refuse

\* Redis knows nothing of a ticket only if it has expired or something failed.
LEMMA RedisAnswersKnows ==
    ASSUME Inv, Knows, NEW c \in Connections, RedisAnswers(c)
    PROVE  Knows'
<1> DEFINE i == connection[c].at
           t == connection[c].ticket
<1>1. /\ i \in Instances /\ t \in Tickets /\ t \in issued
      /\ UNCHANGED <<issued, expired, linked, failures>>
  BY DEF RedisAnswers, Inv, TypeOK, OpenConnection, Closed, Knows,
         OpenedWithTicket
<1>2. CASE Judge(c, i, t)
  BY <1>1, <1>2, JudgeKnows
<1>3. CASE t \notin redisTickets /\ Refuse(c, i, t) /\ UNCHANGED redisTickets
  <2>1. failures \in Nat /\ (t \in expired \/ failures > 0)
    BY <1>1, <1>3 DEF Inv, TypeOK, Knows, RedisKnows
  <2> HIDE DEF i, t
  <2>2. ASSUME NEW d \in Connections
        PROVE  \/ connection'[d] = connection[d]
               \/ /\ connection'[d].state = "deaf"
                  /\ connection'[d].ticket = t
    BY <1>1, <1>3, OpenType DEF Refuse, Inv, TypeOK
  <2>3. RedisKnows'
    BY <1>1, <1>3 DEF Knows, RedisKnows
  <2>4. OpenedWithTicket' /\ NoValidPageIsDeaf'
    BY <1>1, <2>1, <2>2 DEF Knows, OpenedWithTicket, NoValidPageIsDeaf
  <2> QED
    BY <2>3, <2>4 DEF Knows
<1> QED
  BY <1>2, <1>3 DEF RedisAnswers

\* Every step keeps what Redis knows.
LEMMA NextKnows == Inv /\ Inv' /\ Knows /\ [Next]_vars => Knows'
<1> SUFFICES ASSUME Inv, Inv', Knows, [Next]_vars
             PROVE  Knows'
  OBVIOUS
<1>0. failures \in Nat /\ failures' \in Nat
  BY DEF Inv, TypeOK
<1>1. ASSUME UNCHANGED <<issued, expired, redisTickets, linked, failures>>,
             \A c \in Connections :
                \/ connection'[c] = Closed
                \/ /\ connection'[c].state = connection[c].state
                   /\ connection[c].state # "closed" =>
                         connection'[c].ticket = connection[c].ticket
      PROVE  Knows'
  BY <1>0, <1>1, KnownConnections DEF Knows, RedisKnows
<1>2. ASSUME NEW i \in Instances, NEW message \in Message,
             connection' = Heard(i, message)
      PROVE  \A c \in Connections :
                /\ connection'[c].state = connection[c].state
                /\ connection[c].state # "closed" =>
                      connection'[c].ticket = connection[c].ticket
  BY <1>2, HeardKeeps
<1>3. CASE UNCHANGED vars
  BY <1>1, <1>3 DEF vars, ticketVars
<1>4. ASSUME NEW i \in Instances, NEW t \in Tickets, CreateStreamTicket(i, t)
      PROVE  Knows'
  <2>1. RedisKnows'
    BY <1>0, <1>4 DEF CreateStreamTicket, StoreInRedis, Fails, Knows, RedisKnows
  <2>2. /\ issued \subseteq issued' /\ UNCHANGED <<expired, connection>>
        /\ failures > 0 => failures' > 0
    BY <1>0, <1>4 DEF CreateStreamTicket, StoreInRedis, Fails
  <2>3. OpenedWithTicket' /\ NoValidPageIsDeaf'
    BY <1>0, <2>2, KnownConnections DEF Knows
  <2> QED
    BY <2>1, <2>3 DEF Knows
<1>5. ASSUME NEW i \in Instances, NEW t \in Tickets, CleanUp(i, t)
      PROVE  Knows'
  BY <1>1, <1>5 DEF CleanUp
<1>6. ASSUME NEW t \in Tickets, Expires(t)
      PROVE  Knows'
  BY <1>6 DEF Expires, Knows, RedisKnows, OpenedWithTicket, NoValidPageIsDeaf
<1>7. ASSUME NEW t \in Tickets, RedisExpires(t)
      PROVE  Knows'
  BY <1>7 DEF RedisExpires, Knows, RedisKnows, OpenedWithTicket,
              NoValidPageIsDeaf
<1>8. ASSUME NEW c \in Connections, Disconnect(c)
      PROVE  Knows'
  <2>1. \A d \in Connections :
           connection'[d] = IF d = c THEN Closed ELSE connection[d]
    BY <1>8 DEF Disconnect, Without, Inv, TypeOK
  <2>2. UNCHANGED <<issued, expired, redisTickets, linked, failures>>
    BY <1>8 DEF Disconnect, ticketVars
  <2> QED
    BY <1>1, <2>1, <2>2
<1>9. ASSUME NEW i \in Instances, Restart(i) \/ LoseRedis(i)
      PROVE  Knows'
  <2>1. failures' > 0 /\ UNCHANGED <<issued, expired>>
    BY <1>0, <1>9 DEF Restart, LoseRedis, Fails, ticketVars
  <2>2. \A d \in Connections :
           connection'[d] = Closed \/ connection'[d] = connection[d]
    BY <1>9 DEF Restart, LoseRedis
  <2>3. RedisKnows'
    BY <2>1 DEF RedisKnows
  <2>4. OpenedWithTicket' /\ NoValidPageIsDeaf'
    BY <1>0, <2>1, <2>2, KnownConnections DEF Knows
  <2> QED
    BY <2>3, <2>4 DEF Knows
<1>10. ASSUME NEW i \in Instances, Reconnect(i)
       PROVE  Knows'
  <2>1. RedisKnows'
    BY <1>10 DEF Reconnect, ticketVars, Knows, RedisKnows
  <2>2. UNCHANGED <<issued, expired, connection, failures>>
    BY <1>10 DEF Reconnect, ticketVars
  <2> QED
    BY <1>0, <2>1, <2>2, KnownConnections DEF Knows
<1>11. ASSUME NEW i \in Instances, HandleRedisMessage(i)
       PROVE  Knows'
  <2>1. Head(channel[i]) \in Message
    BY <1>11 DEF HandleRedisMessage, Inv, TypeOK
  <2>2. connection' = Heard(i, Head(channel[i]))
    BY <1>11 DEF HandleRedisMessage
  <2>3. UNCHANGED <<issued, expired, redisTickets, linked, failures>>
    BY <1>11 DEF HandleRedisMessage, ticketVars
  <2> QED
    BY <1>1, <1>2, <2>1, <2>2, <2>3
<1>12. CASE \/ \E i \in Instances, n \in Notes : SaveNotification(i, n)
            \/ \E i \in Instances, u \in Users :
                  MarkAsSeen(i, u) \/ \E n \in Notes : MarkAsRead(i, u, n)
            \/ \E n \in Notes : DeleteNotification(n)
            \/ \E j \in jobs : Count(j)
  BY <1>1, <1>12 DEF SaveNotification, MarkAsSeen, MarkAsRead,
                     DeleteNotification, Count, ticketVars
<1>13. ASSUME NEW i \in Instances, NEW x \in Updates, BroadcastTicketUpdate(i, x)
       PROVE  Knows'
  <2> DEFINE message == [to |-> Audience[x], event |-> x, count |-> NoCount]
  <2>1. message \in Message
    BY NoCountType DEF Message, Events
  <2>2. /\ connection' = Heard(i, message)
        /\ UNCHANGED <<issued, expired, redisTickets, linked, failures>>
    BY <1>13 DEF BroadcastTicketUpdate, Sent, ticketVars
  <2> QED
    BY <1>1, <1>2, <2>1, <2>2
<1>14. ASSUME NEW j \in jobs, Emit(j)
       PROVE  Knows'
  <2> DEFINE message == [to |-> {j.user}, event |-> j.event, count |-> j.count]
  <2>1. j \in Job /\ j.at \in Instances /\ message \in Message
    BY DEF Inv, TypeOK, Job, Message
  <2>2. /\ connection' = Heard(j.at, message)
        /\ UNCHANGED <<issued, expired, redisTickets, linked, failures>>
    BY <1>14 DEF Emit, Sent, ticketVars
  <2> QED
    BY <1>1, <1>2, <2>1, <2>2
<1> QED
  BY <1>3, <1>4, <1>5, <1>6, <1>7, <1>8, <1>9, <1>10, <1>11, <1>12, <1>13,
     <1>14, OpenStreamKnows, RedisAnswersKnows
  DEF Next

\* No connection with a ticket that is good is left without its events while
\* nothing fails, wherever it was given out and wherever the browser connects.
THEOREM NoPageIsDeaf == Spec => []NoValidPageIsDeaf
<1>1. Init => Knows
  BY DEF Init, Knows, RedisKnows, OpenedWithTicket, NoValidPageIsDeaf, Closed
<1>2. Inv /\ Inv' /\ Knows /\ [Next]_vars => Knows'
  BY NextKnows
<1>3. Knows => NoValidPageIsDeaf
  BY DEF Knows
<1> QED
  BY <1>1, <1>2, <1>3, Invariance, PTL DEF Spec

-----------------------------------------------------------------------------
(* The badge.                                                              *)

\* The requests of a user come one after another, and nothing failed.
Calm == ~Overlap /\ failures = 0

\* A number that hides no notification and is too high by no more than those
\* that went without a word.
Right(n, u) == n - CountUnseen(u) \in 0..Cardinality(untold)

Busy(u) == \E j \in jobs : j.user = u

\* The messages under way to an instance that carry a count of the user.
Counts(i, u) ==
    { k \in 1..Len(channel[i]) :
        u \in channel[i][k].to /\ channel[i][k].count # NoCount }

OneRequest == \A j \in jobs, k \in jobs : j.user = k.user => j = k

CountedRight == \A j \in jobs : j.count # NoCount => Right(j.count, j.user)

\* The last count a page of the user has or will get is right.
LastWordRight(u, i) ==
    /\ \A k \in Counts(i, u) :
          (\A m \in Counts(i, u) : m <= k) => Right(channel[i][k].count, u)
    /\ Counts(i, u) = {} =>
          \A c \in Connections :
              /\ Live(c) /\ connection[c].at = i /\ UserOf(c) = u
              /\ connection[c].count # NoCount
              => Right(connection[c].count, u)

\* The inductive invariant of the counts: an older number is never the last
\* one, because a request counts after the one before it has emitted.
Badges ==
    Calm =>
        /\ OneRequest /\ CountedRight
        /\ \A u \in Users, i \in Instances : ~Busy(u) => LastWordRight(u, i)

\* One notification leaves without a word: the number of unseen ones drops by
\* one at most, and the margin grows by one.
LEMMA RightKept ==
    ASSUME TypeOK, NEW u \in Users, NEW n \in Int, Right(n, u),
           \/ UnseenOf(u)' = UnseenOf(u) /\ untold' = untold
           \/ \E note \in unseen :
                 /\ UnseenOf(u)' \in {UnseenOf(u), UnseenOf(u) \ {note}}
                 /\ untold' = untold \cup {note}
    PROVE  Right(n, u)'
<1> DEFINE U == UnseenOf(u)
<1>1. U \subseteq Notes /\ untold \subseteq Notes
  BY DEF UnseenOf, TypeOK
<1>2. IsFiniteSet(U) /\ IsFiniteSet(untold)
  BY <1>1, FS_Subset
<1>3. Cardinality(U) \in Nat /\ Cardinality(untold) \in Nat
  BY <1>2, FS_CardinalityType
<1>4. CASE UnseenOf(u)' = U /\ untold' = untold
  BY <1>4 DEF Right, CountUnseen
<1>5. ASSUME NEW note \in unseen, untold' = untold \cup {note},
             UnseenOf(u)' \in {U, U \ {note}}
      PROVE  Right(n, u)'
  <2>1. note \notin untold
    BY DEF TypeOK
  <2>2. Cardinality(untold') = Cardinality(untold) + 1
    BY <1>2, <1>5, <2>1, FS_AddElement
  <2>3. Cardinality(U \ {note}) \in {Cardinality(U), Cardinality(U) - 1}
    BY <1>2, FS_RemoveElement
  <2>4. Cardinality(UnseenOf(u)') \in {Cardinality(U), Cardinality(U) - 1}
    BY <1>5, <2>3
  <2> HIDE DEF U
  <2>5. CountUnseen(u)' \in {Cardinality(U), Cardinality(U) - 1}
    BY <2>4 DEF CountUnseen
  <2>6. n - Cardinality(U) \in 0..Cardinality(untold)
    BY DEF Right, CountUnseen, U
  <2> QED
    BY <1>3, <2>2, <2>5, <2>6 DEF Right
<1> QED
  BY <1>4, <1>5

\* While nothing is sent or heard, a count stays right for everybody who is
\* not busy.
LEMMA BadgesQuiet ==
    ASSUME TypeOK, Badges, UNCHANGED <<connection, channel, failures>>,
           Calm => OneRequest' /\ CountedRight',
           \A u \in Users :
              Calm /\ ~Busy(u)' =>
                 ~Busy(u) /\ \A n \in Int : Right(n, u) => Right(n, u)'
    PROVE  Badges'
<1> SUFFICES ASSUME Calm, NEW u \in Users, NEW i \in Instances, ~Busy(u)'
             PROVE  LastWordRight(u, i)'
  BY DEF Badges, Calm
<1>1. LastWordRight(u, i)
  BY DEF Badges
<1>2. /\ Counts(i, u)' = Counts(i, u)
      /\ \A k \in Counts(i, u) : channel[i][k].count \in Int
  <2>1. channel[i] \in Seq(Message)
    BY DEF TypeOK
  <2>2. \A k \in 1..Len(channel[i]) : channel[i][k] \in Message
    BY <2>1
  <2> QED
    BY <2>2 DEF Counts, Message
<1>3. \A c \in Connections : Live(c) => connection[c].count \in Int
  BY DEF TypeOK, Live, OpenConnection, Closed
<1> QED
  BY <1>1, <1>2, <1>3 DEF LastWordRight, Live, UserOf

\* Opening, closing and losing connections: a page that is new has no count.
LEMMA BadgesConnections ==
    ASSUME Badges, UNCHANGED <<unseen, untold, jobs, channel, failures>>,
           \A c \in Connections :
              Live(c)' => \/ connection'[c].count = NoCount
                          \/ connection'[c] = connection[c]
    PROVE  Badges'
<1> SUFFICES ASSUME Calm, NEW u \in Users, NEW i \in Instances, ~Busy(u)
             PROVE  LastWordRight(u, i)'
  BY DEF Badges, Calm, OneRequest, CountedRight, Busy, Right, CountUnseen,
         UnseenOf
<1>1. LastWordRight(u, i)
  BY DEF Badges
<1>2. Counts(i, u)' = Counts(i, u) /\ \A n : Right(n, u)' <=> Right(n, u)
  BY DEF Counts, Right, CountUnseen, UnseenOf
<1> QED
  BY <1>1, <1>2 DEF LastWordRight, Live, UserOf

\* A request that has written: its user is busy, and was not before.
LEMMA BadgesStarts ==
    ASSUME TypeOK, Badges, NEW i \in Instances, NEW u \in Users,
           NEW e, Starts(i, u, e), UNCHANGED <<connection, channel, failures>>,
           \A v \in Users \ {u} :
              \A n \in Int : Right(n, v) => Right(n, v)'
    PROVE  Badges'
<1> DEFINE new == [user |-> u, at |-> i, event |-> e, count |-> NoCount]
<1>1. jobs' = jobs \cup {new} /\ (Calm => \A j \in jobs : j.user # u)
  BY DEF Starts, Calm
<1>2. new.user = u /\ new.count = NoCount
  OBVIOUS
<1> HIDE DEF new
<1>3. ASSUME Calm
      PROVE  OneRequest' /\ CountedRight'
  <2>1. OneRequest /\ CountedRight
    BY <1>3 DEF Badges
  <2>2. \A j \in jobs : j.count \in Int /\ j.user \in Users
    BY DEF TypeOK, Job
  <2>3. OneRequest'
    BY <1>1, <1>2, <1>3, <2>1 DEF OneRequest
  <2>4. CountedRight'
    BY <1>1, <1>2, <1>3, <2>1, <2>2 DEF CountedRight
  <2> QED
    BY <2>3, <2>4
<1>4. ASSUME NEW v \in Users, ~Busy(v)'
      PROVE  v # u /\ ~Busy(v)
  BY <1>1, <1>2, <1>4 DEF Busy
<1> QED
  BY <1>3, <1>4, BadgesQuiet

\* Notifications are one user's, so what is written for one leaves the numbers
\* of the others alone.
LEMMA BadgesRequest ==
    ASSUME Inv, Badges, NEW i \in Instances, NEW u \in Users, NEW n \in Notes,
           SaveNotification(i, n) \/ MarkAsSeen(i, u) \/ MarkAsRead(i, u, n)
    PROVE  Badges'
<1>0. TypeOK
  BY DEF Inv
<1>1. PICK w \in Users : Audience[n] = {w}
  OBVIOUS
<1>2. CASE SaveNotification(i, n)
  <2>1. Starts(i, w, n) /\ UNCHANGED <<connection, channel, failures>>
    BY <1>1, <1>2 DEF SaveNotification
  <2>2. \A v \in Users \ {w} : UnseenOf(v)' = UnseenOf(v) /\ untold' = untold
    BY <1>1, <1>2 DEF SaveNotification, UnseenOf
  <2> QED
    BY <1>0, <2>1, <2>2, RightKept, BadgesStarts
<1>3. CASE MarkAsSeen(i, u)
  <2>1. Starts(i, u, NoEvent) /\ UNCHANGED <<connection, channel, failures>>
    BY <1>3 DEF MarkAsSeen
  <2>2. \A v \in Users \ {u} : UnseenOf(v)' = UnseenOf(v) /\ untold' = untold
    <3>1. \A m \in unseen : \E x \in Users : Audience[m] = {x}
      BY <1>0 DEF TypeOK
    <3> QED
      BY <1>3, <3>1 DEF MarkAsSeen, UnseenOf
  <2> QED
    BY <1>0, <2>1, <2>2, RightKept, BadgesStarts
<1>4. CASE MarkAsRead(i, u, n)
  <2>1. Starts(i, u, NoEvent) /\ UNCHANGED <<connection, channel, failures>>
    BY <1>4 DEF MarkAsRead
  <2>2. ASSUME NEW v \in Users \ {u}
        PROVE  \/ UnseenOf(v)' = UnseenOf(v) /\ untold' = untold
               \/ /\ n \in unseen
                  /\ UnseenOf(v)' \in {UnseenOf(v), UnseenOf(v) \ {n}}
                  /\ untold' = untold \cup {n}
    BY <1>1, <1>4 DEF MarkAsRead, UnseenOf
  <2> QED
    BY <1>0, <2>1, <2>2, RightKept, BadgesStarts
<1> QED
  BY <1>2, <1>3, <1>4

\* A notification is deleted, and nobody is told.
LEMMA BadgesDelete ==
    ASSUME TypeOK, Badges, NEW n \in Notes, DeleteNotification(n)
    PROVE  Badges'
<1>1. /\ UNCHANGED <<connection, channel, jobs, failures>>
      /\ n \in unseen /\ untold' = untold \cup {n}
      /\ \A v \in Users : UnseenOf(v)' \in {UnseenOf(v), UnseenOf(v) \ {n}}
  BY DEF DeleteNotification, UnseenOf
<1>2. \A v \in Users : \A m \in Int : Right(m, v) => Right(m, v)'
  BY <1>1, RightKept
<1>3. \A j \in jobs : j.count \in Int /\ j.user \in Users
  BY DEF TypeOK, Job
<1>4. Calm => OneRequest' /\ CountedRight'
  BY <1>1, <1>2, <1>3 DEF Badges, OneRequest, CountedRight
<1>5. \A v \in Users : ~Busy(v)' => ~Busy(v)
  BY <1>1 DEF Busy
<1> QED
  BY <1>1, <1>2, <1>4, <1>5, BadgesQuiet

\* What a request counts is right.
LEMMA BadgesCount ==
    ASSUME Inv, Badges, NEW j \in jobs, Count(j)
    PROVE  Badges'
<1> DEFINE n == CountUnseen(j.user)
           counted == [j EXCEPT !.count = n]
<1>0. TypeOK /\ j \in Job
  BY DEF Inv, TypeOK
<1>1. n \in Nat
  BY <1>0, CountType DEF TypeOK, Job
<1>2. /\ jobs' = (jobs \ {j}) \cup {counted}
      /\ UNCHANGED <<unseen, untold, connection, channel, failures>>
  BY DEF Count
<1>3. counted.user = j.user /\ counted.count = n
  BY <1>0 DEF Job
<1>4. \A v, m : Right(m, v)' <=> Right(m, v)
  BY <1>2 DEF Right, CountUnseen, UnseenOf
<1>5. Right(n, j.user)
  <2>1. Cardinality(untold) \in Nat
    BY <1>0, FS_Subset, FS_CardinalityType DEF TypeOK
  <2> QED
    BY <1>1, <2>1 DEF Right
<1> HIDE DEF n, counted
<1>6. ASSUME Calm
      PROVE  OneRequest' /\ CountedRight'
  <2>1. OneRequest /\ CountedRight
    BY <1>6 DEF Badges
  <2>2. OneRequest'
    BY <1>2, <1>3, <2>1 DEF OneRequest
  <2>3. ASSUME NEW k \in jobs', k.count # NoCount
        PROVE  Right(k.count, k.user)
    BY <1>2, <1>3, <1>5, <2>1, <2>3 DEF CountedRight
  <2>4. CountedRight'
    BY <1>4, <2>3 DEF CountedRight
  <2> QED
    BY <2>2, <2>4
<1>7. \A v \in Users : ~Busy(v)' => ~Busy(v)
  BY <1>2, <1>3 DEF Busy
<1> QED
  BY <1>0, <1>2, <1>4, <1>6, <1>7, BadgesQuiet

\* The answer of a request is the last word on the badge of its user, on every
\* instance; the other users do not hear it.
LEMMA BadgesEmit ==
    ASSUME Inv, RedisKnows, Badges, NEW j \in jobs, Emit(j)
    PROVE  Badges'
<1> DEFINE message == [to |-> {j.user}, event |-> j.event, count |-> j.count]
<1>1. /\ j \in Job /\ j.at \in Instances /\ j.user \in Users
      /\ message \in Message
  BY DEF Inv, TypeOK, Job, Message
<1>2. /\ message.to = {j.user} /\ message.count = j.count /\ j.count # NoCount
      /\ connection' = Heard(j.at, message)
      /\ channel' = Published(j.at, message)
      /\ jobs' = jobs \ {j}
      /\ UNCHANGED <<unseen, untold, failures, streams>>
  BY DEF Emit, Sent
<1> HIDE DEF message
<1> SUFFICES ASSUME Calm
             PROVE  /\ OneRequest' /\ CountedRight'
                    /\ \A u \in Users, i \in Instances :
                          ~Busy(u)' => LastWordRight(u, i)'
  BY <1>2 DEF Badges, Calm
<1>3. /\ OneRequest /\ CountedRight
      /\ \A u \in Users, i \in Instances : ~Busy(u) => LastWordRight(u, i)
  BY DEF Badges
<1>4. \A v, m : Right(m, v)' <=> Right(m, v)
  BY <1>2 DEF Right, CountUnseen, UnseenOf
<1>5. OneRequest' /\ CountedRight'
  BY <1>2, <1>3, <1>4 DEF OneRequest, CountedRight
<1>6. ASSUME NEW u \in Users, NEW i \in Instances, ~Busy(u)'
      PROVE  LastWordRight(u, i)'
  <2> DEFINE n == Len(channel[i])
  <2>1. /\ channel[i] \in Seq(Message) /\ n \in Nat
        /\ channel'[i] = Append(channel[i], message)
    BY <1>1, <1>2 DEF RedisKnows, Calm, Published, Inv, TypeOK
  <2>2. /\ Len(channel'[i]) = n + 1 /\ channel'[i][n + 1] = message
        /\ \A k \in 1..n : channel'[i][k] = channel[i][k]
    BY <1>1, <2>1
  <2> HIDE DEF n
  <2>3. CASE u = j.user
    <3>1. n + 1 \in Counts(i, u)' /\ \A k \in Counts(i, u)' : k <= n + 1
      BY <1>2, <2>1, <2>2, <2>3 DEF Counts
    <3>2. Right(j.count, u)
      BY <1>2, <1>3, <2>3 DEF CountedRight
    <3>3. \A k \in Counts(i, u)' :
             (\A m \in Counts(i, u)' : m <= k) => k = n + 1
      BY <2>1, <2>2, <3>1 DEF Counts
    <3> QED
      BY <1>2, <1>4, <2>2, <3>1, <3>2, <3>3 DEF LastWordRight
  <2>4. CASE u # j.user
    <3>1. LastWordRight(u, i)
      BY <1>2, <1>3, <1>6, <2>4 DEF Busy
    <3>2. Counts(i, u)' = Counts(i, u) /\ Counts(i, u) \subseteq 1..n
      BY <1>2, <2>1, <2>2, <2>4 DEF Counts, n
    <3>3. ASSUME NEW c \in Connections, Live(c)', UserOf(c)' = u
          PROVE  /\ Live(c) /\ UserOf(c) = u
                 /\ connection'[c].at = connection[c].at
                 /\ connection'[c].count = connection[c].count
      BY <1>1, <1>2, <2>4, <3>3, HeardKeeps DEF Live, UserOf
    <3> QED
      BY <1>4, <2>2, <3>1, <3>2, <3>3 DEF LastWordRight
  <2> QED
    BY <2>3, <2>4
<1> QED
  BY <1>5, <1>6

\* An update of a ticket carries no count.
LEMMA BadgesBroadcast ==
    ASSUME Inv, RedisKnows, Badges, NEW i \in Instances, NEW x \in Updates,
           BroadcastTicketUpdate(i, x)
    PROVE  Badges'
<1> DEFINE message == [to |-> Audience[x], event |-> x, count |-> NoCount]
<1>1. message \in Message
  BY NoCountType DEF Message, Events
<1>2. /\ message.count = NoCount
      /\ connection' = Heard(i, message)
      /\ channel' = Published(i, message)
      /\ UNCHANGED <<unseen, untold, jobs, failures, streams>>
  BY DEF BroadcastTicketUpdate, Sent
<1> HIDE DEF message
<1> SUFFICES ASSUME Calm, NEW u \in Users, NEW k \in Instances, ~Busy(u)
             PROVE  LastWordRight(u, k)'
  BY <1>2 DEF Badges, Calm, OneRequest, CountedRight, Busy, Right, CountUnseen,
              UnseenOf
<1>3. LastWordRight(u, k) /\ \A m : Right(m, u)' <=> Right(m, u)
  BY <1>2 DEF Badges, Right, CountUnseen, UnseenOf
<1>4. /\ channel[k] \in Seq(Message)
      /\ channel'[k] = Append(channel[k], message)
  BY <1>1, <1>2 DEF RedisKnows, Calm, Published, Inv, TypeOK
<1>5. /\ Len(channel'[k]) = Len(channel[k]) + 1
      /\ channel'[k][Len(channel[k]) + 1] = message
      /\ \A m \in 1..Len(channel[k]) : channel'[k][m] = channel[k][m]
      /\ Len(channel[k]) \in Nat
  BY <1>1, <1>4
<1>6. Counts(k, u)' = Counts(k, u) /\ Counts(k, u) \subseteq 1..Len(channel[k])
  BY <1>2, <1>5 DEF Counts
<1>7. ASSUME NEW c \in Connections, Live(c)'
      PROVE  /\ Live(c) /\ UserOf(c)' = UserOf(c)
             /\ connection'[c].at = connection[c].at
             /\ connection'[c].count = connection[c].count
  BY <1>1, <1>2, <1>7, HeardKeeps DEF Live, UserOf
<1> QED
  BY <1>3, <1>5, <1>6, <1>7 DEF LastWordRight

\* A message is received: if it was the last word, the pages have it now.
LEMMA BadgesReceive ==
    ASSUME Inv, Badges, NEW i \in Instances, HandleRedisMessage(i)
    PROVE  Badges'
<1> DEFINE message == Head(channel[i])
<1>1. channel[i] \in Seq(Message) /\ channel[i] # <<>>
  BY DEF HandleRedisMessage, Inv, TypeOK
<1>2. message \in Message /\ message = channel[i][1]
  BY <1>1
<1>3. /\ connection' = Heard(i, message)
      /\ channel' = [channel EXCEPT ![i] = Tail(@)]
      /\ UNCHANGED <<unseen, untold, jobs, failures, streams>>
  BY DEF HandleRedisMessage, eventVars
<1> HIDE DEF message
<1> SUFFICES ASSUME Calm, NEW u \in Users, NEW k \in Instances, ~Busy(u)
             PROVE  LastWordRight(u, k)'
  BY <1>3 DEF Badges, Calm, OneRequest, CountedRight, Busy, Right, CountUnseen,
              UnseenOf
<1>4. LastWordRight(u, k) /\ \A m : Right(m, u)' <=> Right(m, u)
  BY <1>3 DEF Badges, Right, CountUnseen, UnseenOf
<1>5. ASSUME NEW c \in Connections, Live(c)', connection'[c].at = k,
             UserOf(c)' = u
      PROVE  /\ Live(c) /\ connection[c].at = k /\ UserOf(c) = u
             /\ connection'[c].count =
                   IF k = i /\ u \in message.to /\ message.count # NoCount
                   THEN message.count ELSE connection[c].count
  BY <1>2, <1>3, <1>5, HeardKeeps DEF Live, UserOf
<1>6. CASE k # i
  <2>1. channel'[k] = channel[k]
    BY <1>3, <1>6 DEF Inv, TypeOK
  <2>2. Counts(k, u)' = Counts(k, u)
    BY <2>1 DEF Counts
  <2> QED
    BY <1>4, <1>5, <1>6, <2>1, <2>2 DEF LastWordRight
<1>7. CASE k = i
  <2> DEFINE n == Len(channel[i])
  <2>1. /\ n \in Nat \ {0} /\ Len(channel'[i]) = n - 1
        /\ \A m \in 1..(n - 1) : channel'[i][m] = channel[i][m + 1]
    <3>1. channel'[i] = Tail(channel[i])
      BY <1>3 DEF Inv, TypeOK
    <3> QED
      BY <1>1, <3>1
  <2> HIDE DEF n
  <2>2. \A m \in 1..(n - 1) :
           m \in Counts(i, u)' <=> m + 1 \in Counts(i, u)
    BY <2>1 DEF Counts, n
  <2>3. Counts(i, u)' \subseteq 1..(n - 1) /\ Counts(i, u) \subseteq 1..n
    BY <2>1 DEF Counts, n
  <2>4. 1 \in Counts(i, u) <=> u \in message.to /\ message.count # NoCount
    BY <1>2, <2>1 DEF Counts, n
  <2>5. ASSUME NEW m \in Counts(i, u)', \A l \in Counts(i, u)' : l <= m
        PROVE  Right(channel'[i][m].count, u)
    <3>1. m + 1 \in Counts(i, u) /\ channel'[i][m] = channel[i][m + 1]
      BY <2>1, <2>2, <2>3
    <3>2. ASSUME NEW l \in Counts(i, u), l > m + 1
          PROVE  FALSE
      <4>1. l - 1 \in 1..(n - 1) /\ (l - 1) + 1 = l
        BY <2>1, <2>3, <3>2
      <4>2. l - 1 \in Counts(i, u)'
        BY <2>2, <4>1
      <4> QED
        BY <2>3, <2>5, <3>2, <4>1, <4>2
    <3>3. \A l \in Counts(i, u) : l <= m + 1
      BY <2>1, <2>3, <3>2
    <3> QED
      BY <1>4, <1>7, <3>1, <3>3 DEF LastWordRight
  <2>6. ASSUME Counts(i, u)' = {}, NEW c \in Connections, Live(c)',
               connection'[c].at = i, UserOf(c)' = u,
               connection'[c].count # NoCount
        PROVE  Right(connection'[c].count, u)
    <3>1. \A l \in Counts(i, u) : l = 1
      <4> SUFFICES ASSUME NEW l \in Counts(i, u), l # 1
                   PROVE  FALSE
        OBVIOUS
      <4>1. l - 1 \in 1..(n - 1) /\ (l - 1) + 1 = l
        BY <2>1, <2>3
      <4> QED
        BY <2>2, <2>6, <4>1
    <3>2. CASE 1 \in Counts(i, u)
      <4>1. Right(channel[i][1].count, u)
        BY <1>4, <1>7, <3>1, <3>2 DEF LastWordRight
      <4> QED
        BY <1>2, <1>5, <1>7, <2>4, <2>6, <3>2, <4>1
    <3>3. CASE 1 \notin Counts(i, u)
      <4>1. Counts(i, u) = {}
        BY <3>1, <3>3
      <4> QED
        BY <1>4, <1>5, <1>7, <2>4, <2>6, <3>3, <4>1 DEF LastWordRight
    <3> QED
      BY <3>2, <3>3
  <2> QED
    BY <1>4, <1>7, <2>5, <2>6 DEF LastWordRight
<1> QED
  BY <1>6, <1>7

\* A failure ends the promise.
LEMMA BadgesFailed ==
    ASSUME TypeOK, NEW i \in Instances, Restart(i) \/ LoseRedis(i)
    PROVE  Badges'
<1>1. failures' # 0
  BY DEF Restart, LoseRedis, Fails, TypeOK
<1> QED
  BY <1>1 DEF Badges, Calm

\* Every step keeps the badges right.
LEMMA NextBadges == Inv /\ Knows /\ Badges /\ [Next]_vars => Badges'
<1> SUFFICES ASSUME Inv, Knows, Badges, [Next]_vars
             PROVE  Badges'
  OBVIOUS
<1>0. TypeOK /\ RedisKnows
  BY DEF Inv, Knows
<1>1. ASSUME UNCHANGED <<unseen, untold, jobs, channel, connection>>,
             failures' = failures \/ failures' = failures + 1
      PROVE  Badges'
  <2>1. CASE failures' = failures
    BY <1>1, <2>1, BadgesConnections
  <2>2. CASE failures' = failures + 1
    <3>1. failures' # 0
      BY <1>0, <2>2 DEF TypeOK
    <3> QED
      BY <3>1 DEF Badges, Calm
  <2> QED
    BY <1>1, <2>1, <2>2
<1>2. CASE UNCHANGED vars
  BY <1>1, <1>2 DEF vars, eventVars
<1>3. ASSUME NEW i \in Instances, NEW t \in Tickets,
             CreateStreamTicket(i, t) \/ CleanUp(i, t)
      PROVE  Badges'
  BY <1>1, <1>3
  DEF CreateStreamTicket, StoreInRedis, Fails, CleanUp, eventVars
<1>4. ASSUME NEW t \in Tickets, Expires(t) \/ RedisExpires(t)
      PROVE  Badges'
  BY <1>1, <1>4 DEF Expires, RedisExpires, eventVars
<1>5. ASSUME NEW c \in Connections, NEW i \in Instances, NEW t \in Tickets,
             Judge(c, i, t) \/ Refuse(c, i, t)
      PROVE  \A d \in Connections :
                Live(d)' => \/ connection'[d].count = NoCount
                            \/ connection'[d] = connection[d]
  <2>1. CASE Refuse(c, i, t)
    BY <1>0, <2>1 DEF Refuse, Open, Live, TypeOK
  <2>2. CASE Listen(c, i, t)
    <3>1. \A d \in Connections :
             \/ connection'[d] = Open("live", i, t)
             \/ connection'[d] = Closed
             \/ connection'[d] = connection[d]
      BY <2>2 DEF Listen
    <3> QED
      BY <3>1 DEF Open, Live, Closed
  <2> QED
    BY <1>5, <2>1, <2>2 DEF Judge
<1>6. ASSUME NEW c \in Connections, NEW i \in Instances, NEW t \in Tickets,
             OpenStream(c, i, t)
      PROVE  Badges'
  <2>1. UNCHANGED <<unseen, untold, jobs, channel, failures>>
    BY <1>6 DEF OpenStream, eventVars
  <2>2. \A d \in Connections :
           Live(d)' => \/ connection'[d].count = NoCount
                       \/ connection'[d] = connection[d]
    <3>1. CASE connection' = [connection EXCEPT ![c] = Open("asking", i, t)]
      BY <1>0, <3>1 DEF Open, TypeOK
    <3> QED
      BY <1>5, <1>6, <3>1 DEF OpenStream
  <2> QED
    BY <2>1, <2>2, BadgesConnections
<1>7. ASSUME NEW c \in Connections, RedisAnswers(c)
      PROVE  Badges'
  <2>1. UNCHANGED <<unseen, untold, jobs, channel, failures>>
    BY <1>7 DEF RedisAnswers, eventVars
  <2>2. connection[c].at \in Instances /\ connection[c].ticket \in Tickets
    BY <1>0, <1>7 DEF RedisAnswers, TypeOK, OpenConnection, Closed
  <2> QED
    BY <1>5, <1>7, <2>1, <2>2, BadgesConnections DEF RedisAnswers
<1>8. ASSUME NEW c \in Connections, Disconnect(c)
      PROVE  Badges'
  <2>1. UNCHANGED <<unseen, untold, jobs, channel, failures>>
    BY <1>8 DEF Disconnect, eventVars
  <2>2. \A d \in Connections : Live(d)' => connection'[d] = connection[d]
    BY <1>0, <1>8 DEF Disconnect, Without, Live, Closed, TypeOK
  <2> QED
    BY <2>1, <2>2, BadgesConnections
<1>9. ASSUME NEW i \in Instances,
             \/ Restart(i) \/ LoseRedis(i) \/ Reconnect(i)
             \/ HandleRedisMessage(i)
      PROVE  Badges'
  <2>1. CASE Reconnect(i)
    BY <1>1, <2>1 DEF Reconnect, eventVars
  <2> QED
    BY <1>0, <1>9, <2>1, BadgesFailed, BadgesReceive
<1>10. ASSUME NEW i \in Instances, NEW n \in Notes, SaveNotification(i, n)
       PROVE  Badges'
  <2>1. PICK u \in Users : Audience[n] = {u}
    OBVIOUS
  <2> QED
    BY <1>10, BadgesRequest
<1>11. ASSUME NEW i \in Instances, NEW u \in Users,
              MarkAsSeen(i, u) \/ \E n \in Notes : MarkAsRead(i, u, n)
       PROVE  Badges'
  <2>1. Notes # {}
    BY <1>0, <1>11 DEF MarkAsSeen, UnseenOf, TypeOK
  <2> QED
    BY <1>11, <2>1, BadgesRequest
<1>12. ASSUME NEW n \in Notes, DeleteNotification(n)
       PROVE  Badges'
  BY <1>0, <1>12, BadgesDelete
<1>13. ASSUME NEW i \in Instances, NEW x \in Updates, BroadcastTicketUpdate(i, x)
       PROVE  Badges'
  BY <1>0, <1>13, BadgesBroadcast
<1>14. ASSUME NEW j \in jobs, Count(j) \/ Emit(j)
       PROVE  Badges'
  BY <1>0, <1>14, BadgesCount, BadgesEmit
<1> QED
  BY <1>2, <1>3, <1>4, <1>6, <1>7, <1>8, <1>9, <1>10, <1>11, <1>12, <1>13, <1>14
  DEF Next

\* However many instances send each other copies of the counts, a page that has
\* nothing left to hear shows a number that hides no notification.
THEOREM BadgeAlwaysRight == Spec => []BadgeIsRight
<1>1. Init => Badges
  BY DEF Init, Badges, OneRequest, CountedRight, LastWordRight, Counts, Live,
         Closed
<1>2. Inv /\ Knows /\ Badges /\ [Next]_vars => Badges'
  BY NextBadges
<1>3. Inv /\ Badges => BadgeIsRight
  <2> SUFFICES ASSUME Inv, Badges, Calm, NEW c \in Connections, Live(c),
                      connection[c].count # NoCount,
                      ~Pending(UserOf(c), connection[c].at)
               PROVE  Right(connection[c].count, UserOf(c))
    BY DEF BadgeIsRight, Calm, Right
  <2>1. connection[c].at \in Instances /\ UserOf(c) \in Users
    BY DEF Inv, TypeOK, Live, OpenConnection, Closed, UserOf
  <2>2. ~Busy(UserOf(c)) /\ Counts(connection[c].at, UserOf(c)) = {}
    BY DEF Pending, Busy, Counts
  <2> QED
    BY <2>1, <2>2 DEF Badges, LastWordRight
<1>4. Init => Knows
  BY DEF Init, Knows, RedisKnows, OpenedWithTicket, NoValidPageIsDeaf, Closed
<1>5. Inv /\ Inv' /\ Knows /\ [Next]_vars => Knows'
  BY NextKnows
<1> QED
  BY <1>1, <1>2, <1>3, <1>4, <1>5, Invariance, PTL DEF Spec

-----------------------------------------------------------------------------
(* The refinement.                                                         *)

\* The step of the desk that a judged ticket is: a connection admitted, or none.
LEMMA JudgeDesk ==
    ASSUME NEW c \in Connections, NEW i \in Instances, NEW t \in Tickets,
           t \in issued, Judge(c, i, t), UNCHANGED <<issued, expired>>
    PROVE  [Desk!DeskNext]_(Desk!deskVars)
<1>1. CASE t \in expired /\ Refuse(c, i, t)
  BY <1>1 DEF Refuse, Desk!deskVars
<1>2. CASE t \notin expired /\ Listen(c, i, t)
  <2>1. Desk!Admitted(c, i, t)
    BY <1>2 DEF Listen, Desk!Admitted
  <2> QED
    BY <2>1 DEF Desk!DeskNext
<1> QED
  BY <1>1, <1>2 DEF Judge

\* A browser connects: the ticket is judged at once, asked for, or refused.
LEMMA OpenStreamDesk ==
    ASSUME NEW c \in Connections, NEW i \in Instances, NEW t \in Tickets,
           OpenStream(c, i, t)
    PROVE  [Desk!DeskNext]_(Desk!deskVars)
<1>1. t \in issued /\ UNCHANGED <<issued, expired>>
  BY DEF OpenStream
<1>2. CASE Judge(c, i, t)
  BY <1>1, <1>2, JudgeDesk
<1>3. CASE UNCHANGED streams
  BY <1>1, <1>3 DEF Desk!deskVars
<1> QED
  BY <1>2, <1>3 DEF OpenStream, Refuse

\* Redis answers: what it holds was given out, so the answer admits nobody else.
LEMMA RedisAnswersDesk ==
    ASSUME Inv, NEW c \in Connections, RedisAnswers(c)
    PROVE  [Desk!DeskNext]_(Desk!deskVars)
<1> DEFINE i == connection[c].at
           t == connection[c].ticket
<1>1. i \in Instances /\ t \in Tickets /\ UNCHANGED <<issued, expired>>
  BY DEF RedisAnswers, Inv, TypeOK, OpenConnection, Closed
<1>2. CASE t \in redisTickets /\ Judge(c, i, t)
  <2>1. t \in issued
    BY <1>2 DEF Inv, TypeOK
  <2> QED
    BY <1>1, <1>2, <2>1, JudgeDesk
<1>3. CASE UNCHANGED streams
  BY <1>1, <1>3 DEF Desk!deskVars
<1> QED
  BY <1>2, <1>3 DEF RedisAnswers, Refuse

\* The entry deleted by a connection that leaves is its own, so the desk sees
\* its user leave.
LEMMA DisconnectDesk ==
    ASSUME Inv, NEW c \in Connections, Disconnect(c)
    PROVE  [Desk!DeskNext]_(Desk!deskVars)
<1>1. UNCHANGED <<issued, expired>>
  BY DEF Disconnect, ticketVars
<1>2. CASE ~Live(c)
  BY <1>1, <1>2 DEF Disconnect, Desk!deskVars
<1>3. CASE Live(c)
  <2> DEFINE i == connection[c].at
             u == UserOf(c)
  <2>1. i \in Instances /\ u \in Users
    BY <1>3 DEF Inv, TypeOK, Live, OpenConnection, Closed, UserOf
  <2>2. streams[i][u] = c /\ c # NoConnection
    BY <1>3 DEF Inv, ReachableStream
  <2>3. streams' = [streams EXCEPT ![i][u] = NoConnection]
    BY <1>3 DEF Disconnect
  <2> HIDE DEF i, u
  <2>4. Desk!Leaves(i, u)
    BY <1>1, <2>2, <2>3 DEF Desk!Leaves
  <2> QED
    BY <2>1, <2>4 DEF Desk!DeskNext
<1> QED
  BY <1>2, <1>3

\* Every step is one of the desk, or the desk does not see it.
LEMMA NextDesk == Inv /\ [Next]_vars => [Desk!DeskNext]_(Desk!deskVars)
<1> SUFFICES ASSUME Inv, [Next]_vars
             PROVE  [Desk!DeskNext]_(Desk!deskVars)
  OBVIOUS
<1>1. CASE UNCHANGED <<issued, expired, streams>>
  BY <1>1 DEF Desk!deskVars
<1>2. CASE UNCHANGED vars
  BY <1>1, <1>2 DEF vars, ticketVars
<1>3. ASSUME NEW i \in Instances, NEW t \in Tickets, CreateStreamTicket(i, t)
      PROVE  [Desk!DeskNext]_(Desk!deskVars)
  <2>1. Desk!Issue(t)
    BY <1>3 DEF CreateStreamTicket, Desk!Issue
  <2> QED
    BY <2>1 DEF Desk!DeskNext
<1>4. ASSUME NEW i \in Instances, NEW t \in Tickets, CleanUp(i, t)
      PROVE  [Desk!DeskNext]_(Desk!deskVars)
  BY <1>1, <1>4 DEF CleanUp
<1>5. ASSUME NEW t \in Tickets, Expires(t)
      PROVE  [Desk!DeskNext]_(Desk!deskVars)
  <2>1. Desk!Expires(t)
    BY <1>5 DEF Expires, Desk!Expires
  <2> QED
    BY <2>1 DEF Desk!DeskNext
<1>6. ASSUME NEW t \in Tickets, RedisExpires(t)
      PROVE  [Desk!DeskNext]_(Desk!deskVars)
  BY <1>1, <1>6 DEF RedisExpires
<1>7. ASSUME NEW i \in Instances, Restart(i)
      PROVE  [Desk!DeskNext]_(Desk!deskVars)
  <2>1. Desk!Restarted(i)
    BY <1>7 DEF Restart, Desk!Restarted
  <2> QED
    BY <2>1 DEF Desk!DeskNext
<1>8. ASSUME NEW i \in Instances,
             LoseRedis(i) \/ Reconnect(i) \/ HandleRedisMessage(i)
      PROVE  [Desk!DeskNext]_(Desk!deskVars)
  BY <1>1, <1>8 DEF LoseRedis, Reconnect, HandleRedisMessage, ticketVars
<1>9. ASSUME NEW i \in Instances, NEW n \in Notes,
             SaveNotification(i, n)
      PROVE  [Desk!DeskNext]_(Desk!deskVars)
  BY <1>1, <1>9 DEF SaveNotification, ticketVars
<1>10. ASSUME NEW i \in Instances, NEW u \in Users,
              MarkAsSeen(i, u) \/ \E n \in Notes : MarkAsRead(i, u, n)
       PROVE  [Desk!DeskNext]_(Desk!deskVars)
  BY <1>1, <1>10 DEF MarkAsSeen, MarkAsRead, ticketVars
<1>11. ASSUME NEW n \in Notes, DeleteNotification(n)
       PROVE  [Desk!DeskNext]_(Desk!deskVars)
  BY <1>1, <1>11 DEF DeleteNotification, ticketVars
<1>12. ASSUME NEW i \in Instances, NEW x \in Updates,
              BroadcastTicketUpdate(i, x)
       PROVE  [Desk!DeskNext]_(Desk!deskVars)
  BY <1>1, <1>12 DEF BroadcastTicketUpdate, ticketVars
<1>13. ASSUME NEW j \in jobs, Count(j) \/ Emit(j)
       PROVE  [Desk!DeskNext]_(Desk!deskVars)
  BY <1>1, <1>13 DEF Count, Emit, ticketVars
<1> QED
  BY <1>2, <1>3, <1>4, <1>5, <1>6, <1>7, <1>8, <1>9, <1>10, <1>11, <1>12,
     <1>13, OpenStreamDesk, RedisAnswersDesk, DisconnectDesk
  DEF Next

\* The Maps, Redis, and the questions between them implement the desk: nobody
\* listens but with a ticket given out and not expired, for that ticket's user,
\* one connection to a user and instance, and nobody is dropped by a stranger.
THEOREM Implementation == Spec => ImplementsDesk
<1>1. Init => Desk!DeskInit
  BY DEF Init, Desk!DeskInit
<1>2. Inv /\ [Next]_vars => [Desk!DeskNext]_(Desk!deskVars)
  BY NextDesk
<1> QED
  BY <1>1, <1>2, Invariance, PTL DEF Spec, ImplementsDesk, Desk!DeskSpec
=============================================================================

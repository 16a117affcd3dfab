------------------------ MODULE TicketNumberingProofs ------------------------
(***************************************************************************)
(* The numbers of tickets, for any number of concurrent requests, any size *)
(* of the pool and of the table.  It is the unique index that keeps them   *)
(* consecutive: the row locks are not used.                                *)
(***************************************************************************)
EXTENDS TicketNumbering, BoundedSets, FiniteSetTheorems, TLAPS

Stage == {"start", "done", "failed"} \cup Running

Typed ==
    /\ lastId \in Nat
    /\ Ids \subseteq 1..lastId
    /\ keyPart \in Nat \cup {NaN, NoDash} /\ disturbed \in BOOLEAN
    /\ \A i \in Ids : rows[i] \in Nat \cup {NaN}
    /\ pc \in [Requests -> Stage]
    /\ wants \in [Requests -> SUBSET (1..lastId)]
    /\ number \in [Requests -> Nat \cup {NaN}]
    /\ mine \in [Requests -> Nat]
    /\ \A c \in Creators : pc[c] = "mail" => mine[c] \in 1..lastId

\* Without a "-" every number is one.
Numeric == ~Dashed =>
    /\ \A i \in Ids : rows[i] \in Nat
    /\ \A c \in Creators : number[c] \in Nat

DeletesDisturb == disturbed => \E d \in Deleters : pc[d] = "done"

Undisturbed == ~Dashed /\ ~disturbed

Ascending == \A i, j \in Ids : i < j => rows[i] < rows[j]

\* What there is of the rows a create has found, since some may be deleted
\* while it waits.
Found(c) == wants[c] \cap Ids

\* It is the table as it is, or its number is in use.
Reads(c) == Found(c) = Ids \/ Taken(NextNumber(Found(c)))

\* A create that has inserted its row has the next number and the newest id,
\* and it is the only one.
Inserts(c) ==
    /\ Found(c) = Ids
    /\ \A i \in Ids : i < mine[c]
    /\ \A q \in Creators : mine[c] \notin wants[q]
    /\ \A q \in Creators : pc[q] = "mail" => q = c

Knows(c) ==
    /\ pc[c] \in {"locking"} \cup Locked => Reads(c)
    /\ pc[c] \in Locked => /\ wants[c] \subseteq Ids
                          /\ number[c] = NextNumber(Found(c))
    /\ pc[c] = "mail" => Inserts(c)

CreatesKnow == \A c \in Creators : Knows(c)

Inv == /\ Typed /\ Numeric /\ DeletesDisturb
       /\ Undisturbed => Ascending /\ CreatesKnow
       /\ NumbersConsecutive

-----------------------------------------------------------------------------
(* The last ticket and the next number.                                    *)

\* The last of some tickets, and what is read of it.
LEMMA LastOf ==
    ASSUME Typed, NEW W \in SUBSET Ids
    PROVE  /\ W = {} => NextNumber(W) = 1
           /\ W # {} => /\ Max(W) \in W
                        /\ \A i \in W : i <= Max(W)
                        /\ NextNumber(W) = After(ParsedNumber(rows[Max(W)]))
           /\ NextNumber(W) \in Nat \cup {NaN}
<1>1. CASE W = {}
  BY <1>1 DEF NextNumber
<1>2. CASE W # {}
  <2>1. W \subseteq Nat /\ lastId \in Nat /\ \A i \in W : i <= lastId
    BY DEF Typed
  <2>2. Max(W) \in W /\ \A i \in W : i <= Max(W)
    BY <1>2, <2>1, MaxOfBounded
  <2>3. NextNumber(W) = After(ParsedNumber(rows[Max(W)]))
    BY <1>2 DEF NextNumber
  <2>4. ParsedNumber(rows[Max(W)]) \in Nat \cup {NaN}
    BY <2>2 DEF ParsedNumber, Typed, Dashed
  <2>5. After(ParsedNumber(rows[Max(W)])) \in Nat \cup {NaN}
    BY <2>4 DEF After
  <2> QED
    BY <1>2, <2>2, <2>3, <2>5
<1> QED
  BY <1>1, <1>2

\* Without a "-" it is the number after that of the last.
LEMMA NextAfterLast ==
    ASSUME Typed, Numeric, ~Dashed, NEW W \in SUBSET Ids
    PROVE  /\ NextNumber(W) \in Nat
           /\ W = {} => NextNumber(W) = 1
           /\ W # {} => /\ Max(W) \in W
                        /\ \A i \in W : i <= Max(W)
                        /\ NextNumber(W) = rows[Max(W)] + 1
<1>1. CASE W = {}
  BY <1>1, LastOf
<1>2. CASE W # {}
  <2>1. /\ Max(W) \in W /\ \A i \in W : i <= Max(W)
        /\ NextNumber(W) = After(ParsedNumber(rows[Max(W)]))
    BY <1>2, LastOf
  <2>2. ParsedNumber(rows[Max(W)]) = rows[Max(W)] /\ rows[Max(W)] \in Nat
    BY <2>1 DEF ParsedNumber, Numeric
  <2>3. After(rows[Max(W)]) = rows[Max(W)] + 1
    BY <2>2, NumberingAssumption DEF After
  <2> QED
    BY <1>2, <2>1, <2>2, <2>3
<1> QED
  BY <1>1, <1>2

\* What was created one after the other is numbered in order: a number above
\* all others for an id above all others.
LEMMA LastIsHighest ==
    ASSUME Typed, Numeric, Ascending, ~Dashed
    PROVE  \A i \in Ids : rows[i] \in Nat /\ rows[i] < NextNumber(Ids)
<1> SUFFICES ASSUME NEW i \in Ids PROVE rows[i] \in Nat /\ rows[i] < NextNumber(Ids)
  OBVIOUS
<1>1. /\ Max(Ids) \in Ids /\ i <= Max(Ids)
      /\ NextNumber(Ids) = rows[Max(Ids)] + 1
  BY NextAfterLast
<1>2. i \in Nat /\ Max(Ids) \in Nat /\ rows[i] \in Nat /\ rows[Max(Ids)] \in Nat
  <2>1. Ids \subseteq Nat
    BY DEF Typed
  <2> QED
    BY <1>1, <2>1 DEF Numeric
<1>3. i < Max(Ids) => rows[i] < rows[Max(Ids)]
  BY <1>1 DEF Ascending
<1> QED
  BY <1>1, <1>2, <1>3

\* So the next number is in nobody's hands.
LEMMA AscendingLeavesNextFree ==
    ASSUME Typed, Numeric, Ascending, ~Dashed
    PROVE  ~Taken(NextNumber(Ids))
BY LastIsHighest DEF Taken

-----------------------------------------------------------------------------
(* The invariant holds initially.                                          *)

LEMMA InitInv == Init => Inv
<1> SUFFICES ASSUME Init PROVE Inv
  OBVIOUS
<1>1. PICK n \in StartSizes : rows = Numbered(n) /\ lastId = n
  BY DEF Init
<1>2. n \in Nat /\ Ids = 1..n /\ \A i \in Ids : rows[i] = i
  BY <1>1, NumberingAssumption DEF Numbered, Ids
<1>3. \A p \in Requests : pc[p] = "start"
  BY DEF Init
<1>4. Typed
  <2>1. pc \in [Requests -> Stage] /\ wants \in [Requests -> SUBSET (1..lastId)]
    BY DEF Init, Stage
  <2>2. number \in [Requests -> Nat] /\ mine \in [Requests -> Nat]
    BY DEF Init
  <2>3. \A c \in Creators : pc[c] # "mail"
    BY <1>3 DEF Requests
  <2>4. keyPart \in Nat \cup {NaN, NoDash} /\ disturbed \in BOOLEAN
    BY NumberingAssumption DEF Init
  <2>5. number \in [Requests -> Nat \cup {NaN}]
    BY <2>2
  <2> QED
    BY <1>1, <1>2, <2>1, <2>2, <2>3, <2>4, <2>5 DEF Typed
<1>5. Numeric /\ DeletesDisturb
  BY <1>2 DEF Init, Numeric, DeletesDisturb, Requests
<1>6. Ascending
  BY <1>2 DEF Ascending
<1>7. CreatesKnow
  BY <1>3 DEF CreatesKnow, Knows, Requests, Locked
<1>8. NumbersConsecutive
  <2> SUFFICES ASSUME NEW i \in Ids
               PROVE  rows[i] = Cardinality({ j \in Ids : j <= i })
    BY DEF NumbersConsecutive
  <2>1. { j \in Ids : j <= i } = 1..i /\ i \in Nat /\ i >= 1
    BY <1>2
  <2>2. Cardinality(1..i) = i
    BY <2>1, FS_Interval
  <2> QED
    BY <1>2, <2>1, <2>2
<1> QED
  BY <1>4, <1>5, <1>6, <1>7, <1>8 DEF Inv

-----------------------------------------------------------------------------
(* Steps that leave the table alone.                                       *)

\* Request p goes to another stage and no row changes.
Moves(p, next) ==
    /\ UNCHANGED <<rows, keyPart, disturbed>>
    /\ lastId' \in Nat /\ lastId' >= lastId
    /\ pc' = [pc EXCEPT ![p] = next]
    /\ p \in Deleters => pc[p] # "done" /\ next # "done"
    /\ wants'[p] \subseteq wants[p] \cup Ids \/ p \notin Creators
    /\ \A q \in Requests \ {p} : /\ wants'[q] = wants[q]
                                 /\ number'[q] = number[q]
                                 /\ mine'[q] = mine[q]

\* What the others know stays true, as long as p is not the second to insert.
LEMMA MoveKeepsInv ==
    ASSUME Inv, NEW p \in Requests, NEW next \in Stage, Moves(p, next),
           Undisturbed /\ next = "mail" => \A q \in Creators \ {p} : pc[q] # "mail",
           Typed', p \in Creators /\ ~Dashed => number'[p] \in Nat,
           Undisturbed /\ p \in Creators => Knows(p)'
    PROVE  Inv'
<1>1. pc \in [Requests -> Stage] /\ lastId \in Nat
  BY DEF Inv, Typed
<1>2. pc'[p] = next /\ \A q \in Requests \ {p} : pc'[q] = pc[q]
  BY <1>1 DEF Moves
<1>3. /\ \A d \in Deleters : pc[d] = "done" => pc'[d] = "done"
      /\ \A d \in Deleters : pc'[d] = "done" => pc[d] = "done"
  BY <1>2 DEF Requests, Moves
<1>4. Undisturbed' = Undisturbed /\ Dashed' = Dashed
  BY DEF Undisturbed, Dashed, Moves
<1>5. Ids' = Ids /\ (Undisturbed => Ascending')
  BY DEF Inv, Ids, Ascending, Moves
<1>6. NumbersConsecutive'
  BY <1>3, <1>4, <1>5 DEF Inv, NumbersConsecutive, Moves
<1>7. DeletesDisturb'
  BY <1>3 DEF Inv, DeletesDisturb, Moves
<1>8. Numeric'
  <2>1. \A c \in Creators : c = p \/ c \in Requests \ {p}
    BY DEF Requests
  <2>2. ~Dashed => \A c \in Creators : number'[c] \in Nat
    BY <2>1 DEF Inv, Numeric, Moves
  <2>3. ~Dashed => \A i \in Ids' : rows'[i] \in Nat
    BY <1>5 DEF Inv, Numeric, Moves
  <2> QED
    BY <2>2, <2>3, <1>4 DEF Numeric
<1>9. ASSUME Undisturbed, NEW q \in Creators \ {p}
      PROVE  Knows(q)'
  <2>1. Knows(q) /\ q \in Requests \ {p}
    BY <1>9 DEF Inv, CreatesKnow, Requests
  <2>2. /\ pc'[q] = pc[q] /\ wants'[q] = wants[q]
        /\ number'[q] = number[q] /\ mine'[q] = mine[q]
    BY <1>2, <2>1 DEF Moves
  <2>3. Found(q)' = Found(q)
    BY <1>5, <2>2 DEF Found
  <2>4. NextNumber(Found(q))' = NextNumber(Found(q))
    BY <2>3 DEF NextNumber, ParsedNumber, Dashed, Moves
  <2>5. Reads(q)' = Reads(q)
    BY <1>5, <2>3, <2>4 DEF Reads, Taken, Moves
  <2>6. ASSUME pc[q] = "mail", Inserts(q) PROVE Inserts(q)'
    <3>1. Found(q)' = Ids' /\ \A i \in Ids' : i < mine'[q]
      BY <2>6, <2>2, <2>3, <1>5 DEF Inserts
    <3>2. ASSUME NEW r \in Creators, pc'[r] = "mail" PROVE r = q
      <4>1. r \in Requests
        BY DEF Requests
      <4>2. CASE r = p
        BY <4>2, <3>2, <1>2, <1>9, <2>6
      <4>3. CASE r # p
        BY <4>1, <4>3, <3>2, <1>2, <2>6 DEF Inserts
      <4> QED
        BY <4>2, <4>3
    <3>3. ASSUME NEW r \in Creators PROVE mine'[q] \notin wants'[r]
      <4>1. mine[q] \notin wants[r] /\ mine[q] \notin Ids
        <5>1. mine[q] \in Nat
          BY <2>1 DEF Inv, Typed
        <5> QED
          BY <5>1, <2>6, <3>3 DEF Inserts
      <4>2. CASE r = p
        BY <4>1, <4>2, <2>2, <3>3 DEF Moves
      <4>3. CASE r # p
        BY <4>1, <4>3, <2>2, <3>3 DEF Moves, Requests
      <4> QED
        BY <4>2, <4>3
    <3> QED
      BY <3>1, <3>2, <3>3 DEF Inserts
  <2>7. Ids' = Ids
    BY <1>5
  <2> QED
    BY <2>1, <2>2, <2>3, <2>4, <2>5, <2>6, <2>7 DEF Knows
<1> QED
  BY <1>4, <1>5, <1>6, <1>7, <1>8, <1>9 DEF Inv, CreatesKnow

-----------------------------------------------------------------------------
(* The steps of a create.                                                  *)

LEMMA BeginInv ==
    ASSUME Inv, NEW c \in Creators, Begin(c) PROVE Inv'
<1>1. c \in Requests /\ c \notin Deleters /\ "begun" \in Stage
  BY NumberingAssumption DEF Requests, Stage, Running
<1>2. pc[c] = "start" /\ pc' = [pc EXCEPT ![c] = "begun"]
  BY DEF Begin
<1>3. UNCHANGED <<rows, lastId, wants, number, mine, keyPart, disturbed>> /\ lastId \in Nat
  BY DEF Begin, kept, Inv, Typed
<1>4. pc'[c] = "begun"
  BY <1>1, <1>2 DEF Inv, Typed
<1>5. Typed'
  BY <1>1, <1>2, <1>3 DEF Inv, Typed, Ids
<1>6. ~Dashed => number'[c] \in Nat
  BY <1>3 DEF Inv, Numeric
<1>7. Knows(c)'
  BY <1>4 DEF Knows, Locked
<1>8. Moves(c, "begun")
  BY <1>1, <1>2, <1>3 DEF Moves
<1> QED
  BY <1>1, <1>5, <1>6, <1>7, <1>8, MoveKeepsInv

LEMMA SelectForUpdateInv ==
    ASSUME Inv, NEW c \in Creators, SelectForUpdate(c) PROVE Inv'
<1>1. c \in Requests /\ c \notin Deleters /\ "locking" \in Stage
  BY NumberingAssumption DEF Requests, Stage, Running
<1>2. pc[c] = "begun" /\ pc' = [pc EXCEPT ![c] = "locking"]
  BY DEF SelectForUpdate
<1>3. /\ UNCHANGED <<rows, lastId, number, mine, keyPart, disturbed>> /\ lastId \in Nat
      /\ wants' = [wants EXCEPT ![c] = Ids] /\ Ids \subseteq 1..lastId
  BY DEF SelectForUpdate, kept, Inv, Typed
<1>4. pc'[c] = "locking" /\ wants'[c] = Ids /\ Ids' = Ids
  BY <1>1, <1>2, <1>3 DEF Inv, Typed, Ids
<1>5. Typed'
  <2>1. pc' \in [Requests -> Stage] /\ wants' \in [Requests -> SUBSET (1..lastId)]
    BY <1>1, <1>2, <1>3 DEF Inv, Typed
  <2>2. \A q \in Creators : pc'[q] = "mail" => pc[q] = "mail"
    BY <1>1, <1>2 DEF Inv, Typed, Requests
  <2> QED
    BY <1>3, <2>1, <2>2 DEF Inv, Typed, Ids
<1>6. ~Dashed => number'[c] \in Nat
  BY <1>3 DEF Inv, Numeric
<1>7. Knows(c)'
  BY <1>4 DEF Knows, Locked, Reads, Found
<1>8. Moves(c, "locking")
  BY <1>1, <1>2, <1>3, <1>4 DEF Moves, Inv, Typed
<1> QED
  BY <1>1, <1>5, <1>6, <1>7, <1>8, MoveKeepsInv

\* What create reads once it has the locks is what is left of the table, or a
\* number that is in use.
LEMMA ReadLastTicketInv ==
    ASSUME Inv, NEW c \in Creators, ReadLastTicket(c) PROVE Inv'
<1>1. c \in Requests /\ c \notin Deleters /\ "tenant" \in Stage
  BY NumberingAssumption DEF Requests, Stage, Running, Locked
<1>2. pc[c] = "locking" /\ pc' = [pc EXCEPT ![c] = "tenant"]
  BY DEF ReadLastTicket
<1>3. /\ UNCHANGED <<rows, lastId, mine, keyPart, disturbed>> /\ lastId \in Nat
      /\ wants' = [wants EXCEPT ![c] = @ \cap Ids] /\ Ids \subseteq 1..lastId
      /\ number' = [number EXCEPT ![c] = NextNumber(Found(c))]
  BY DEF ReadLastTicket, Found, kept, Inv, Typed
<1>4. /\ pc'[c] = "tenant" /\ wants'[c] = Found(c) /\ Ids' = Ids
      /\ number'[c] = NextNumber(Found(c)) /\ Found(c) \in SUBSET Ids
  BY <1>1, <1>2, <1>3 DEF Inv, Typed, Found, Ids
<1>5. NextNumber(Found(c)) \in Nat \cup {NaN}
  BY <1>4, LastOf DEF Inv
<1>6. ~Dashed => number'[c] \in Nat
  BY <1>4, NextAfterLast DEF Inv
<1>7. Typed'
  <2>1. pc' \in [Requests -> Stage] /\ wants' \in [Requests -> SUBSET (1..lastId)]
    BY <1>1, <1>2, <1>3 DEF Inv, Typed
  <2>2. \A q \in Creators : pc'[q] = "mail" => pc[q] = "mail"
    BY <1>1, <1>2 DEF Inv, Typed, Requests
  <2>3. number' \in [Requests -> Nat \cup {NaN}]
    BY <1>3, <1>5 DEF Inv, Typed
  <2> QED
    BY <1>3, <2>1, <2>2, <2>3 DEF Inv, Typed, Ids
<1>8. Found(c)' = Found(c)
  BY <1>4 DEF Found
<1>9. NextNumber(Found(c))' = NextNumber(Found(c))
  BY <1>3, <1>8 DEF NextNumber, ParsedNumber, Dashed
<1>10. ASSUME Undisturbed PROVE Knows(c)'
  <2>1. Reads(c)
    BY <1>2, <1>10 DEF Inv, CreatesKnow, Knows
  <2>2. Reads(c)'
    BY <1>3, <1>4, <1>8, <1>9, <2>1 DEF Reads, Taken
  <2> QED
    BY <1>4, <1>9, <2>2 DEF Knows
<1>11. Moves(c, "tenant")
  BY <1>1, <1>2, <1>3, <1>4 DEF Moves, Found, Inv, Typed
<1> QED
  BY <1>1, <1>6, <1>7, <1>10, <1>11, MoveKeepsInv

\* Between the reading and the inserting, and after a failure, only the stage
\* changes.
LEMMA WaitingInv ==
    ASSUME Inv, NEW c \in Creators, pc[c] \in Locked,
           NEW next \in {"looking", "insert", "failed"},
           pc' = [pc EXCEPT ![c] = next], lastId' \in {lastId, lastId + 1},
           UNCHANGED <<rows, wants, number, mine, keyPart, disturbed>>
    PROVE  Inv'
<1>1. c \in Requests /\ c \notin Deleters /\ next \in Stage
  BY NumberingAssumption DEF Requests, Stage, Running, Locked
<1>2. lastId \in Nat /\ lastId' \in Nat /\ lastId' >= lastId
  BY DEF Inv, Typed
<1>3. pc'[c] = next
  BY <1>1 DEF Inv, Typed
<1>4. Typed'
  <2>1. pc' \in [Requests -> Stage]
    BY <1>1 DEF Inv, Typed
  <2>2. \A q \in Creators : pc'[q] = "mail" => pc[q] = "mail"
    BY <1>1, <1>3 DEF Inv, Typed, Requests
  <2>3. Ids' = Ids /\ 1..lastId \subseteq 1..lastId'
    BY <1>2 DEF Ids
  <2>4. wants' \in [Requests -> SUBSET (1..lastId')]
    BY <2>3 DEF Inv, Typed
  <2> QED
    BY <1>2, <2>1, <2>2, <2>3, <2>4 DEF Inv, Typed
<1>5. ~Dashed => number'[c] \in Nat
  BY DEF Inv, Numeric
<1>6. ASSUME Undisturbed PROVE Knows(c)'
  <2>1. Reads(c) /\ number[c] = NextNumber(Found(c)) /\ wants[c] \subseteq Ids
    BY <1>6 DEF Inv, CreatesKnow, Knows
  <2>2. Found(c)' = Found(c) /\ Ids' = Ids
    BY DEF Found, Ids
  <2>3. NextNumber(Found(c))' = NextNumber(Found(c))
    BY <2>2 DEF NextNumber, ParsedNumber, Dashed
  <2>4. Reads(c)'
    BY <2>1, <2>2, <2>3 DEF Reads, Taken
  <2> QED
    BY <1>3, <2>1, <2>2, <2>3, <2>4 DEF Knows
<1>7. Moves(c, next)
  BY <1>1, <1>2 DEF Moves
<1> QED
  BY <1>1, <1>4, <1>5, <1>6, <1>7, MoveKeepsInv

\* The insert succeeds only for a create that has read the whole table, and
\* waits while another such create has inserted.
LEMMA InsertedInv ==
    ASSUME Inv, NEW c \in Creators, pc[c] = "insert", ~Contested(c),
           ~Taken(number[c]), pc' = [pc EXCEPT ![c] = "mail"],
           lastId' = lastId + 1, mine' = [mine EXCEPT ![c] = lastId'],
           UNCHANGED <<rows, wants, number, keyPart, disturbed>>
    PROVE  Inv'
<1>1. c \in Requests /\ c \notin Deleters /\ "mail" \in Stage
  BY NumberingAssumption DEF Requests, Stage, Running, Locked
<1>2. lastId \in Nat /\ lastId' \in Nat /\ lastId' >= lastId /\ lastId' \in 1..lastId'
  BY DEF Inv, Typed
<1>3. pc'[c] = "mail" /\ mine'[c] = lastId'
      /\ \A q \in Requests \ {c} : pc'[q] = pc[q] /\ mine'[q] = mine[q]
  BY <1>1 DEF Inv, Typed
<1>4. Typed'
  <2>1. pc' \in [Requests -> Stage] /\ mine' \in [Requests -> Nat]
    BY <1>1, <1>2 DEF Inv, Typed
  <2>2. Ids' = Ids /\ 1..lastId \subseteq 1..lastId'
    BY <1>2 DEF Ids
  <2>3. ASSUME NEW q \in Creators, pc'[q] = "mail" PROVE mine'[q] \in 1..lastId'
    <3>1. CASE q = c
      BY <3>1, <1>2, <1>3
    <3>2. CASE q # c
      BY <3>2, <2>3, <2>2, <1>3 DEF Inv, Typed, Requests
    <3> QED
      BY <3>1, <3>2
  <2>4. wants' \in [Requests -> SUBSET (1..lastId')]
    BY <2>2 DEF Inv, Typed
  <2> QED
    BY <1>2, <2>1, <2>2, <2>3, <2>4 DEF Inv, Typed
<1>5. ~Dashed => number'[c] \in Nat
  BY DEF Inv, Numeric
<1>6. ASSUME Undisturbed PROVE Found(c) = Ids /\ number[c] = NextNumber(Ids)
  <2>1. Reads(c) /\ number[c] = NextNumber(Found(c))
    BY <1>6 DEF Inv, CreatesKnow, Knows, Locked
  <2> QED
    BY <2>1 DEF Reads
<1>7. Undisturbed => \A q \in Creators \ {c} : pc[q] # "mail"
  <2> SUFFICES ASSUME Undisturbed, NEW q \in Creators \ {c}, pc[q] = "mail" PROVE FALSE
    OBVIOUS
  <2>1. Inserts(q) /\ number[q] = NextNumber(Found(q))
    BY DEF Inv, CreatesKnow, Knows, Locked
  <2>2. number[q] = number[c]
    BY <2>1, <1>6 DEF Inserts
  <2> QED
    BY <2>2 DEF Contested
<1>8. ASSUME Undisturbed PROVE Knows(c)'
  <2>1. Found(c)' = Ids /\ Ids' = Ids /\ wants'[c] \subseteq Ids
    BY <1>6, <1>8 DEF Ids, Found, Inv, CreatesKnow, Knows, Locked
  <2>2. number'[c] = NextNumber(Found(c))'
    BY <1>6, <1>8, <2>1 DEF NextNumber, ParsedNumber, Dashed
  <2>3. \A i \in Ids' : i < mine'[c]
    BY <2>1, <1>2, <1>3 DEF Inv, Typed
  <2>4. \A q \in Creators : pc'[q] = "mail" => q = c
    BY <1>3, <1>7, <1>8 DEF Requests
  <2>5. \A q \in Creators : mine'[c] \notin wants'[q]
    <3>1. \A q \in Creators : wants[q] \subseteq 1..lastId
      BY DEF Inv, Typed, Requests
    <3>2. lastId' \notin 1..lastId
      BY <1>2
    <3> QED
      BY <1>3, <3>1, <3>2
  <2> QED
    BY <2>1, <2>2, <2>3, <2>4, <2>5 DEF Knows, Reads, Inserts
<1>9. Moves(c, "mail")
  BY <1>1, <1>2, <1>3 DEF Moves
<1> QED
  BY <1>1, <1>4, <1>5, <1>7, <1>8, <1>9, MoveKeepsInv

LEMMA InsertTicketInv ==
    ASSUME Inv, NEW c \in Creators, InsertTicket(c) PROVE Inv'
<1>1. CASE Taken(number[c])
  BY <1>1, WaitingInv DEF InsertTicket, RolledBack, Locked, kept
<1>2. CASE ~Taken(number[c])
  BY <1>2, InsertedInv DEF InsertTicket, kept
<1> QED
  BY <1>1, <1>2

LEMMA NextIsCount ==
    ASSUME Typed, Numeric, ~Dashed,
           \A i \in Ids : rows[i] = Cardinality({ j \in Ids : j <= i })
    PROVE  IsFiniteSet(Ids) /\ NextNumber(Ids) = Cardinality(Ids) + 1
<1>1. IsFiniteSet(Ids)
  <2>1. IsFiniteSet(1..lastId) /\ Ids \subseteq 1..lastId
    BY FS_Interval DEF Typed
  <2> QED
    BY <2>1, FS_Subset
<1>2. CASE Ids = {}
  BY <1>1, <1>2, NextAfterLast, FS_EmptySet
<1>3. CASE Ids # {}
  <2>1. /\ Max(Ids) \in Ids /\ \A i \in Ids : i <= Max(Ids)
        /\ NextNumber(Ids) = rows[Max(Ids)] + 1
    BY <1>3, NextAfterLast
  <2>2. { j \in Ids : j <= Max(Ids) } = Ids
    BY <2>1
  <2> QED
    BY <1>1, <2>1, <2>2
<1> QED
  BY <1>1, <1>2, <1>3

\* The new row is the last, and a create that has read the table without it
\* has read a number that is now in use.
LEMMA CommitInv ==
    ASSUME Inv, NEW c \in Creators, Commit(c) PROVE Inv'
<1> DEFINE m == mine[c]
           n == number[c]
<1>1. c \in Requests /\ c \notin Deleters /\ "done" \in Stage
  BY NumberingAssumption DEF Requests, Stage
<1>2. /\ pc[c] = "mail" /\ pc' = [pc EXCEPT ![c] = "done"]
      /\ rows' = [i \in Ids \cup {m} |-> IF i = m THEN n ELSE rows[i]]
      /\ UNCHANGED <<lastId, wants, number, mine, keyPart, disturbed>>
  BY DEF Commit, kept
<1>3. pc'[c] = "done" /\ \A q \in Requests \ {c} : pc'[q] = pc[q]
  BY <1>1, <1>2 DEF Inv, Typed
<1>4. m \in 1..lastId /\ lastId \in Nat /\ n \in Nat \cup {NaN} /\ Ids \subseteq Nat
  BY <1>1, <1>2 DEF Inv, Typed
<1>5. /\ Ids' = Ids \cup {m}
      /\ rows'[m] = n
      /\ \A i \in Ids : i # m => rows'[i] = rows[i]
  BY <1>2 DEF Ids
<1>6. Typed'
  <2>1. Ids' \subseteq 1..lastId' /\ \A i \in Ids' : rows'[i] \in Nat \cup {NaN}
    BY <1>2, <1>4, <1>5 DEF Inv, Typed
  <2>2. pc' \in [Requests -> Stage]
    BY <1>1, <1>2 DEF Inv, Typed
  <2>3. \A q \in Creators : pc'[q] = "mail" => pc[q] = "mail"
    BY <1>3 DEF Requests
  <2> QED
    BY <1>2, <2>1, <2>2, <2>3 DEF Inv, Typed
<1>7. Numeric'
  BY <1>2, <1>5 DEF Inv, Numeric, Dashed
<1>8. \A d \in Deleters : pc'[d] = pc[d]
  BY <1>1, <1>3 DEF Requests
<1>9. /\ Undisturbed' = Undisturbed /\ Dashed' = Dashed
      /\ DeletesDisturb'
  BY <1>2, <1>8 DEF Undisturbed, Dashed, Inv, DeletesDisturb
<1>10. ASSUME Undisturbed
       PROVE  /\ Ascending /\ Inserts(c)
              /\ n = NextNumber(Ids)
              /\ \A i \in Ids : i < m /\ i # m
  <2>1. Ascending /\ Inserts(c) /\ n = NextNumber(Found(c))
    BY <1>2, <1>10 DEF Inv, CreatesKnow, Knows, Locked
  <2>2. Found(c) = Ids /\ \A i \in Ids : i < m
    BY <2>1 DEF Inserts
  <2>3. \A i \in Ids : i # m
    BY <2>2, <1>4
  <2> QED
    BY <2>1, <2>2, <2>3
<1>11. ASSUME Undisturbed PROVE Ascending'
  <2> SUFFICES ASSUME NEW i \in Ids', NEW j \in Ids', i < j
               PROVE  rows'[i] < rows'[j]
    BY DEF Ascending
  <2>1. CASE i \in Ids /\ j \in Ids
    BY <2>1, <1>5, <1>10, <1>11 DEF Ascending
  <2>2. CASE i \in Ids /\ j = m
    <3>1. rows[i] < NextNumber(Ids)
      BY <2>2, <1>10, <1>11, LastIsHighest DEF Inv, Undisturbed
    <3> QED
      BY <2>2, <3>1, <1>5, <1>10, <1>11
  <2>3. CASE i = m
    <3>1. m \in Nat /\ j \in Nat
      BY <1>4, <1>5
    <3>2. j = m \/ j < m
      BY <1>5, <1>10, <1>11
    <3>3. ~(m < j)
      BY <3>1, <3>2
    <3> QED
      BY <2>3, <3>3
  <2> QED
    BY <2>1, <2>2, <2>3, <1>5
<1>12. ASSUME Undisturbed, NEW q \in Creators PROVE Knows(q)'
  <2>1. CASE q = c
    BY <2>1, <1>3 DEF Knows, Locked
  <2>2. CASE q # c
    <3>1. q \in Requests /\ pc'[q] = pc[q] /\ Knows(q)
      BY <2>2, <1>3, <1>12 DEF Requests, Inv, CreatesKnow
    <3>2. pc[q] # "mail" /\ m \notin wants[q]
      BY <2>2, <1>10, <1>12 DEF Inserts
    <3>3. Found(q)' = Found(q) /\ Found(q) \in SUBSET Ids
      BY <1>2, <1>5, <3>2 DEF Found
    <3>4. NextNumber(Found(q))' = NextNumber(Found(q))
      <4>1. Found(q) # {} => Max(Found(q)) \in Ids
        BY <3>3, LastOf DEF Inv
      <4>2. Found(q) # {} => rows'[Max(Found(q))] = rows[Max(Found(q))]
        BY <4>1, <1>5, <1>10, <1>12
      <4> QED
        BY <3>3, <4>2, <1>2 DEF NextNumber, ParsedNumber, Dashed
    <3>5. ASSUME Reads(q) PROVE Reads(q)'
      <4>1. \A x : Taken(x) => \E i \in Ids' : rows'[i] = x
        BY <1>5, <1>10, <1>12 DEF Taken
      <4>2. \E i \in Ids' : rows'[i] = n
        BY <1>5
      <4>3. \E i \in Ids' : rows'[i] = NextNumber(Found(q))
        BY <3>5, <4>1, <4>2, <1>10, <1>12 DEF Reads
      <4> QED
        BY <4>3, <3>4 DEF Reads, Taken
    <3> QED
      BY <1>2, <1>5, <3>1, <3>2, <3>4, <3>5 DEF Knows, Locked
  <2> QED
    BY <2>1, <2>2
<1>13. NumbersConsecutive'
  <2> SUFFICES ASSUME ~Dashed, \A d \in Deleters : pc'[d] # "done", NEW i \in Ids'
               PROVE  rows'[i] = Cardinality({ j \in Ids' : j <= i })
    BY <1>9 DEF NumbersConsecutive
  <2>1. Undisturbed
    BY <1>8 DEF Undisturbed, Inv, DeletesDisturb, Typed
  <2>2. \A k \in Ids : rows[k] = Cardinality({ j \in Ids : j <= k })
    BY <1>8 DEF Inv, NumbersConsecutive
  <2>3. CASE i \in Ids
    <3>1. { j \in Ids' : j <= i } = { j \in Ids : j <= i }
      BY <2>1, <2>3, <1>4, <1>5, <1>10
    <3>2. rows'[i] = rows[i]
      BY <2>1, <2>3, <1>5, <1>10
    <3>3. rows[i] = Cardinality({ j \in Ids : j <= i })
      BY <2>2, <2>3
    <3> QED
      BY <3>1, <3>2, <3>3
  <2>4. CASE i = m
    <3>1. { j \in Ids' : j <= m } = Ids \cup {m}
      <4>1. m \in Nat /\ Ids \subseteq Nat
        BY <1>4
      <4>2. \A j \in Ids : j < m
        BY <2>1, <1>10
      <4>3. m <= m /\ \A j \in Ids : j <= m
        BY <4>1, <4>2
      <4> QED
        BY <4>3, <1>5
    <3>2. IsFiniteSet(Ids) /\ NextNumber(Ids) = Cardinality(Ids) + 1
      BY <2>2, NextIsCount DEF Inv
    <3>3. m \notin Ids
      BY <2>1, <1>10
    <3>4. Cardinality(Ids \cup {m}) = Cardinality(Ids) + 1
      BY <3>2, <3>3, FS_AddElement
    <3> QED
      BY <2>1, <2>4, <3>1, <3>2, <3>4, <1>5, <1>10
  <2> QED
    BY <2>3, <2>4, <1>5
<1> QED
  BY <1>6, <1>7, <1>9, <1>11, <1>12, <1>13 DEF Inv, CreatesKnow

-----------------------------------------------------------------------------
(* The steps of a delete.                                                  *)

LEMMA DeleteFromInv ==
    ASSUME Inv, NEW d \in Deleters, NEW i \in Ids, DeleteFrom(d, i) PROVE Inv'
<1>1. d \in Requests /\ d \notin Creators /\ "deleting" \in Stage
  BY NumberingAssumption DEF Requests, Stage, Running
<1>2. /\ pc[d] = "start" /\ pc' = [pc EXCEPT ![d] = "deleting"]
      /\ wants' = [wants EXCEPT ![d] = {i}]
      /\ UNCHANGED <<rows, lastId, number, mine, keyPart, disturbed>>
      /\ lastId \in Nat /\ i \in 1..lastId
  BY DEF DeleteFrom, kept, Inv, Typed
<1>3. Typed'
  <2>1. pc' \in [Requests -> Stage] /\ wants' \in [Requests -> SUBSET (1..lastId)]
    BY <1>1, <1>2 DEF Inv, Typed
  <2>2. \A q \in Creators : pc'[q] = pc[q]
    BY <1>1, <1>2 DEF Inv, Typed, Requests
  <2> QED
    BY <1>2, <2>1, <2>2 DEF Inv, Typed, Ids
<1>4. Moves(d, "deleting")
  BY <1>1, <1>2 DEF Moves, Inv, Typed
<1> QED
  BY <1>1, <1>3, <1>4, MoveKeepsInv

\* A delete waits for a create that has locked the whole table, and leaves
\* one that waits for the rest of the table with what is left of it.
LEMMA DeletedInv ==
    ASSUME Inv, NEW d \in Deleters, Deleted(d) PROVE Inv'
<1>1. d \in Requests /\ d \notin Creators /\ "done" \in Stage
  BY NumberingAssumption DEF Requests, Stage
<1>2. /\ pc[d] = "deleting" /\ LocksFree(d) /\ pc' = [pc EXCEPT ![d] = "done"]
      /\ rows' = [i \in Ids \ wants[d] |-> rows[i]]
      /\ disturbed' = (disturbed \/ \E c \in Creators : Overtaken(c))
      /\ UNCHANGED <<lastId, wants, number, mine, keyPart>>
  BY DEF Deleted
<1>3. Ids' = Ids \ wants[d] /\ \A i \in Ids' : rows'[i] = rows[i]
  BY <1>2 DEF Ids
<1>4. pc'[d] = "done" /\ \A q \in Requests \ {d} : pc'[q] = pc[q]
  BY <1>1, <1>2 DEF Inv, Typed
<1>5. \A q \in Creators : q \in Requests /\ pc'[q] = pc[q]
  BY <1>1, <1>4 DEF Requests
<1>6. Typed'
  <2>1. pc' \in [Requests -> Stage]
    BY <1>1, <1>2 DEF Inv, Typed
  <2>2. Ids' \subseteq 1..lastId' /\ \A i \in Ids' : rows'[i] \in Nat \cup {NaN}
    BY <1>2, <1>3 DEF Inv, Typed
  <2>3. disturbed' \in BOOLEAN
    BY <1>2
  <2> QED
    BY <1>2, <1>5, <2>1, <2>2, <2>3 DEF Inv, Typed
<1>7. Numeric' /\ DeletesDisturb' /\ NumbersConsecutive'
  BY <1>2, <1>3, <1>4 DEF Inv, Numeric, Dashed, DeletesDisturb, NumbersConsecutive
<1>8. ASSUME Undisturbed' PROVE Ascending' /\ CreatesKnow'
  <2>1. Undisturbed /\ \A c \in Creators : ~Overtaken(c)
    BY <1>2, <1>8 DEF Undisturbed, Dashed
  <2>2. Ascending'
    BY <1>3, <2>1 DEF Inv, Ascending
  <2>3. ASSUME NEW c \in Creators PROVE Knows(c)'
    <3>1. Knows(c)
      BY <2>1 DEF Inv, CreatesKnow
    <3>2. pc[c] \in {"locking"} \cup Locked => Ids \subseteq wants[c]
      BY <2>1 DEF Overtaken
    <3>3. ASSUME pc[c] \in {"locking"} \cup Locked PROVE Reads(c)'
      BY <1>2, <1>3, <3>2, <3>3 DEF Reads, Found
    <3>4. ASSUME pc[c] \in Locked
          PROVE  /\ Ids' = Ids /\ Found(c)' = Found(c)
                 /\ NextNumber(Found(c))' = NextNumber(Found(c))
                 /\ wants[c] \subseteq Ids /\ number[c] = NextNumber(Found(c))
      <4>1. c \in Requests \ {d}
        BY <1>1, <1>5
      <4>2. wants[c] \cap (wants[d] \cap Ids) = {}
        BY <1>2, <3>4, <4>1 DEF LocksFree
      <4>3. Ids' = Ids
        BY <1>3, <3>2, <3>4, <4>2
      <4>4. Found(c)' = Found(c) /\ Found(c) \in SUBSET Ids
        BY <1>2, <4>3 DEF Found
      <4>5. Found(c) # {} => Max(Found(c)) \in Ids
        BY <4>4, LastOf DEF Inv
      <4>6. NextNumber(Found(c))' = NextNumber(Found(c))
        BY <1>2, <1>3, <4>3, <4>4, <4>5 DEF NextNumber, ParsedNumber, Dashed
      <4> QED
        BY <3>1, <3>4, <4>3, <4>4, <4>6 DEF Knows
    <3>5. ASSUME pc[c] = "mail" PROVE Inserts(c)'
      <4>1. Inserts(c) /\ Ids' = Ids /\ Found(c)' = Found(c)
        BY <3>1, <3>4, <3>5 DEF Knows, Locked
      <4> QED
        BY <4>1, <1>2, <1>5 DEF Inserts
    <3> QED
      BY <1>2, <1>5, <3>3, <3>4, <3>5 DEF Knows
  <2> QED
    BY <2>2, <2>3 DEF CreatesKnow
<1> QED
  BY <1>6, <1>7, <1>8 DEF Inv

-----------------------------------------------------------------------------
(* A key with a "-".                                                       *)

\* The numbers a create may come up with.
Offered == {1, After(keyPart)}

\* The unique index, for committed rows and for those inserted.
NumbersUnique ==
    /\ \A i, j \in Ids : rows[i] = rows[j] => i = j
    /\ \A c \in Creators : pc[c] = "mail" => ~Taken(number[c])
    /\ \A c, q \in Creators :
           pc[c] = "mail" /\ pc[q] = "mail" /\ number[c] = number[q] => c = q

FewNumbers == Dashed =>
    /\ \A i \in Ids : rows[i] \in Offered
    /\ \A c \in Creators : pc[c] \in Locked => number[c] \in Offered

DashInv == NumbersUnique /\ FewNumbers

LEMMA InitDash == Init => DashInv
<1> SUFFICES ASSUME Init PROVE DashInv
  OBVIOUS
<1>1. PICK n \in StartSizes : rows = Numbered(n) /\ (Dashed => n <= 1)
  BY DEF Init
<1>2. n \in Nat /\ Ids = 1..n /\ \A i \in Ids : rows[i] = i
  BY <1>1, NumberingAssumption DEF Numbered, Ids
<1>3. \A c \in Creators : pc[c] = "start"
  BY DEF Init, Requests
<1>4. Dashed => \A i \in Ids : rows[i] = 1
  BY <1>1, <1>2
<1> QED
  BY <1>2, <1>3, <1>4 DEF DashInv, NumbersUnique, FewNumbers, Offered, Locked

\* Only the reading gives a create a number, only the inserting lets it be
\* the last to have it, and no other step adds a row.
LEMMA SameNumbers ==
    ASSUME Inv, DashInv, NEW p \in Requests, NEW next,
           pc' = [pc EXCEPT ![p] = next], next # "mail",
           p \in Creators /\ next \in Locked => pc[p] \in Locked,
           Ids' \subseteq Ids, \A i \in Ids' : rows'[i] = rows[i],
           UNCHANGED <<number, keyPart>>
    PROVE  DashInv'
<1>1. \A q \in Creators : pc'[q] = "mail" => pc[q] = "mail"
  BY DEF Inv, Typed, Requests
<1>2. \A q \in Creators : pc'[q] \in Locked => pc[q] \in Locked
  BY DEF Inv, Typed, Requests
<1>3. Offered' = Offered /\ Dashed' = Dashed
  BY DEF Offered, After, Dashed
<1>4. NumbersUnique'
  BY <1>1 DEF DashInv, NumbersUnique, Taken
<1>5. FewNumbers'
  BY <1>2, <1>3 DEF DashInv, FewNumbers
<1> QED
  BY <1>4, <1>5 DEF DashInv

LEMMA ReadDash ==
    ASSUME Inv, DashInv, NEW c \in Creators, ReadLastTicket(c) PROVE DashInv'
<1>1. /\ pc' = [pc EXCEPT ![c] = "tenant"]
      /\ number' = [number EXCEPT ![c] = NextNumber(Found(c))]
      /\ UNCHANGED <<rows, keyPart>> /\ c \in Requests
  BY DEF ReadLastTicket, Found, kept, Requests
<1>2. /\ pc'[c] = "tenant" /\ number'[c] = NextNumber(Found(c))
      /\ \A q \in Creators \ {c} : pc'[q] = pc[q] /\ number'[q] = number[q]
      /\ Ids' = Ids /\ Offered' = Offered /\ Dashed' = Dashed
  BY <1>1 DEF Inv, Typed, Requests, Ids, Offered, After, Dashed
<1>3. Dashed => NextNumber(Found(c)) \in Offered
  <2>1. Found(c) \in SUBSET Ids
    BY DEF Found
  <2> QED
    BY <2>1, LastOf DEF Inv, Offered, ParsedNumber
<1>4. NumbersUnique'
  BY <1>1, <1>2 DEF DashInv, NumbersUnique, Taken
<1>5. FewNumbers'
  BY <1>1, <1>2, <1>3 DEF DashInv, FewNumbers
<1> QED
  BY <1>4, <1>5 DEF DashInv

LEMMA InsertedDash ==
    ASSUME Inv, DashInv, NEW c \in Creators, InsertTicket(c), ~Taken(number[c])
    PROVE  DashInv'
<1>1. /\ pc' = [pc EXCEPT ![c] = "mail"] /\ pc[c] = "insert" /\ ~Contested(c)
      /\ UNCHANGED <<rows, number, keyPart>> /\ c \in Requests
  BY DEF InsertTicket, kept, Requests
<1>2. /\ \A q \in Creators \ {c} : pc'[q] = pc[q]
      /\ Ids' = Ids /\ Offered' = Offered /\ Dashed' = Dashed
  BY <1>1 DEF Inv, Typed, Requests, Ids, Offered, After, Dashed
<1>3. NumbersUnique'
  BY <1>1, <1>2 DEF DashInv, NumbersUnique, Taken, Contested
<1>4. FewNumbers'
  BY <1>1, <1>2 DEF DashInv, FewNumbers, Locked
<1> QED
  BY <1>3, <1>4 DEF DashInv

LEMMA CommitDash ==
    ASSUME Inv, DashInv, NEW c \in Creators, Commit(c) PROVE DashInv'
<1> DEFINE m == mine[c]
<1>1. /\ pc' = [pc EXCEPT ![c] = "done"] /\ pc[c] = "mail"
      /\ rows' = [i \in Ids \cup {m} |-> IF i = m THEN number[c] ELSE rows[i]]
      /\ UNCHANGED <<number, keyPart>> /\ c \in Requests
  BY DEF Commit, kept, Requests
<1>2. /\ pc'[c] = "done" /\ \A q \in Creators \ {c} : pc'[q] = pc[q]
      /\ Ids' = Ids \cup {m} /\ rows'[m] = number[c]
      /\ \A i \in Ids' : i # m => i \in Ids /\ rows'[i] = rows[i]
      /\ Offered' = Offered /\ Dashed' = Dashed
  BY <1>1 DEF Inv, Typed, Requests, Ids, Offered, After, Dashed
<1>3. \A i \in Ids : rows[i] # number[c]
  BY <1>1 DEF DashInv, NumbersUnique, Taken
<1>4. \A i, j \in Ids' : rows'[i] = rows'[j] => i = j
  BY <1>2, <1>3 DEF DashInv, NumbersUnique
<1>5. ASSUME NEW q \in Creators, pc'[q] = "mail" PROVE ~Taken(number[q])'
  <2>1. q # c /\ pc[q] = "mail"
    BY <1>2, <1>5
  <2>2. number[q] # number[c] /\ \A i \in Ids : rows[i] # number[q]
    BY <1>1, <2>1 DEF DashInv, NumbersUnique, Taken
  <2> QED
    BY <1>1, <1>2, <2>2 DEF Taken
<1>6. NumbersUnique'
  BY <1>1, <1>2, <1>4, <1>5 DEF DashInv, NumbersUnique
<1>7. FewNumbers'
  BY <1>1, <1>2 DEF DashInv, FewNumbers, Locked
<1> QED
  BY <1>6, <1>7 DEF DashInv

LEMMA NextDash == ASSUME Inv, DashInv, [Next]_vars PROVE DashInv'
<1>1. ASSUME NEW c \in Creators, CreateStep(c) PROVE DashInv'
  <2> c \in Requests
    BY DEF Requests
  <2>1. CASE Begin(c)
    BY <2>1, SameNumbers DEF Begin, kept, Locked, Ids
  <2>2. CASE SelectForUpdate(c)
    BY <2>2, SameNumbers DEF SelectForUpdate, kept, Locked, Ids
  <2>3. CASE ReadLastTicket(c)
    BY <2>3, ReadDash
  <2>4. CASE FindTenant(c)
    BY <2>4, SameNumbers DEF FindTenant, kept, Locked, Ids
  <2>5. CASE TenantFound(c)
    BY <2>5, SameNumbers DEF TenantFound, kept, Locked, Ids
  <2>6. CASE InsertTicket(c) /\ ~Taken(number[c])
    BY <2>6, InsertedDash
  <2>7. CASE InsertTicket(c) /\ Taken(number[c])
    BY <2>7, SameNumbers DEF InsertTicket, RolledBack, kept, Locked, Ids
  <2>8. CASE MailFails(c)
    BY <2>8, SameNumbers DEF MailFails, RolledBack, kept, Locked, Ids
  <2>9. CASE Commit(c)
    BY <2>9, CommitDash
  <2> QED
    BY <1>1, <2>1, <2>2, <2>3, <2>4, <2>5, <2>6, <2>7, <2>8, <2>9 DEF CreateStep
<1>2. ASSUME NEW d \in Deleters, DeleteStep(d) PROVE DashInv'
  <2> d \in Requests /\ d \notin Creators
    BY NumberingAssumption DEF Requests
  <2>1. CASE Deleted(d)
    BY <2>1, SameNumbers DEF Deleted, Ids
  <2>2. CASE \E i \in Ids : DeleteFrom(d, i)
    BY <2>2, SameNumbers DEF DeleteFrom, kept, Ids
  <2> QED
    BY <1>2, <2>1, <2>2 DEF DeleteStep
<1>3. CASE UNCHANGED vars
  BY <1>3 DEF vars, DashInv, NumbersUnique, FewNumbers, Offered, After, Dashed,
              Taken, Ids
<1> QED
  BY <1>1, <1>2, <1>3 DEF Next

\* Different tickets, different numbers, and two of those at the most.
LEMMA FewTickets == ASSUME DashInv PROVE DashAllowsTwo
<1> SUFFICES ASSUME Dashed PROVE Cardinality(Ids) <= 2
  BY DEF DashAllowsTwo
<1> DEFINE f == [i \in Ids |-> rows[i]]
<1>1. f \in [Ids -> Offered] /\ \A i, j \in Ids : f[i] = f[j] => i = j
  BY DEF DashInv, NumbersUnique, FewNumbers
<1>2. f \in Injection(Ids, Offered)
  BY <1>1, Zenon DEF Injection, IsInjective
<1>3. IsFiniteSet(Offered) /\ Cardinality(Offered) \in Nat /\ Cardinality(Offered) <= 2
  <2>1. IsFiniteSet({1}) /\ Cardinality({1}) = 1
    BY FS_Singleton
  <2>2. Offered = {1} \cup {After(keyPart)}
    BY DEF Offered
  <2>3. /\ IsFiniteSet({1} \cup {After(keyPart)})
        /\ \/ Cardinality({1} \cup {After(keyPart)}) = Cardinality({1})
           \/ Cardinality({1} \cup {After(keyPart)}) = Cardinality({1}) + 1
    BY <2>1, FS_AddElement
  <2> QED
    BY <2>1, <2>2, <2>3
<1>4. IsFiniteSet(Ids) /\ Cardinality(Ids) <= Cardinality(Offered)
  BY <1>2, <1>3, FS_Injection
<1>5. Cardinality(Ids) \in Nat
  BY <1>4, FS_CardinalityType
<1> QED
  BY <1>3, <1>4, <1>5

-----------------------------------------------------------------------------
(* The theorems.                                                           *)

LEMMA CreateStepInv ==
    ASSUME Inv, NEW c \in Creators, CreateStep(c) PROVE Inv'
<1>1. CASE Begin(c)
  BY <1>1, BeginInv
<1>2. CASE SelectForUpdate(c)
  BY <1>2, SelectForUpdateInv
<1>3. CASE ReadLastTicket(c)
  BY <1>3, ReadLastTicketInv
<1>4. CASE FindTenant(c)
  BY <1>4, WaitingInv DEF FindTenant, Locked, kept
<1>5. CASE TenantFound(c)
  BY <1>5, WaitingInv DEF TenantFound, Locked, kept
<1>6. CASE InsertTicket(c)
  BY <1>6, InsertTicketInv
<1>7. CASE MailFails(c)
  BY <1>7, WaitingInv DEF MailFails, RolledBack, Locked, kept
<1>8. CASE Commit(c)
  BY <1>8, CommitInv
<1> QED
  BY <1>1, <1>2, <1>3, <1>4, <1>5, <1>6, <1>7, <1>8 DEF CreateStep

LEMMA NextInv == ASSUME Inv, [Next]_vars PROVE Inv'
<1>1. ASSUME NEW c \in Creators, CreateStep(c) PROVE Inv'
  BY <1>1, CreateStepInv
<1>2. ASSUME NEW d \in Deleters, DeleteStep(d) PROVE Inv'
  BY <1>2, DeleteFromInv, DeletedInv DEF DeleteStep
<1>3. CASE UNCHANGED vars
  BY <1>3 DEF vars, Inv, Typed, Numeric, DeletesDisturb, Undisturbed, Dashed,
              Ascending, CreatesKnow, Knows, Reads, Inserts, Found, Taken,
              NextNumber, ParsedNumber, Ids, NumbersConsecutive
<1> QED
  BY <1>1, <1>2, <1>3 DEF Next

\* What create knows of the table while it runs, whatever runs beside it.
THEOREM CreatesReadTheTable == Spec => []Inv
<1>1. Init => Inv
  BY InitInv
<1>2. Inv /\ [Next]_vars => Inv'
  BY NextInv
<1> QED
  BY <1>1, <1>2, PTL DEF Spec

\* As long as no ticket has been deleted, the tickets of a tenant whose key
\* has no "-" are numbered 1, 2, 3, ... in the order of their ids, however
\* many creates run at once: create of ticket.service.ts.
THEOREM NumbersAreConsecutive == Spec => []NumbersConsecutive
<1>1. Inv => NumbersConsecutive
  BY DEF Inv
<1> QED
  BY <1>1, CreatesReadTheTable, PTL

\* However many creates and deletes run side by side, the next create of a
\* tenant whose key has no "-" has a free number, unless a delete came while a
\* create was under way that another had overtaken: create and deleteTicket
\* of ticket.service.ts.
THEOREM NextNumberIsFree == Spec => []NextNumberFree
<1>1. Inv => NextNumberFree
  BY AscendingLeavesNextFree DEF Inv, Undisturbed, NextNumberFree
<1> QED
  BY <1>1, CreatesReadTheTable, PTL

\* A tenant whose key has a "-" never has a third ticket, whatever it holds
\* after it and however its creates and deletes interleave.
THEOREM DashEndsAtTwo == Spec => []DashAllowsTwo
<1>1. Init => Inv /\ DashInv
  BY InitInv, InitDash
<1>2. Inv /\ DashInv /\ [Next]_vars => (Inv /\ DashInv)'
  BY NextInv, NextDash
<1>3. DashInv => DashAllowsTwo
  BY FewTickets
<1> QED
  BY <1>1, <1>2, <1>3, PTL DEF Spec
=============================================================================

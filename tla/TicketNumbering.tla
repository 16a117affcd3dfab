---------------------------- MODULE TicketNumbering ----------------------------
(***************************************************************************)
(* The number in a ticket's customId ("CDV-17"), and the transaction of    *)
(* TicketService.create that picks it: lock the tenant's tickets, read the *)
(* number of the one with the highest id, look the tenant up on another    *)
(* connection, insert number + 1 under a unique index, send e-mail, commit.*)
(* Requests run concurrently, on a pool of connections, with requests that *)
(* delete a ticket.                                                        *)
(*                                                                         *)
(* PostgreSQL at READ COMMITTED: SELECT ... FOR UPDATE locks the rows that *)
(* were committed when it began.  After waiting it drops those deleted in  *)
(* the meantime and does not see those inserted in the meantime.           *)
(***************************************************************************)
EXTENDS Integers, FiniteSets, SequencesExt

CONSTANTS
    Creators,    \* requests to create a ticket
    Deleters,    \* requests to delete one
    PoolSize,    \* connections of the pool
    StartSizes,  \* how many tickets the tenant may have in the beginning
    NaN,         \* what parseInt makes of no number
    NoDash,      \* a tenant.customKey without a "-"
    KeyParts     \* what the key may hold after its first "-"

ASSUME NumberingAssumption ==
    /\ Creators \cap Deleters = {}
    /\ PoolSize \in Nat \ {0}
    /\ StartSizes \subseteq Nat
    /\ NaN \notin Nat /\ NoDash \notin Nat \cup {NaN}
    /\ KeyParts \subseteq Nat \cup {NaN, NoDash}

VARIABLES
    rows,    \* the committed tickets: number by id
    lastId,  \* the id sequence, which no rollback turns back
    pc,      \* where each request stands
    wants,   \* the rows its statement found and locks
    number,  \* the number a create has computed
    mine,    \* the id of the row a create has inserted
    queue,   \* the requests waiting for row locks, first come first served
    keyPart, \* what parseInt reads after the first "-" of the key, or NoDash
    disturbed \* history: whether a delete has come between the statement of a
              \* create and its end, after another create had overtaken it

kept == <<keyPart, disturbed>>
vars == <<rows, lastId, pc, wants, number, mine, queue, keyPart, disturbed>>

Requests == Creators \cup Deleters
Ids      == DOMAIN rows

\* The stages of a create, in order, and the one of a delete.
Locked  == {"tenant", "looking", "insert", "mail"}
Running == {"begun", "locking", "deleting"} \cup Locked

\* A tenant whose tickets were created one after the other.
Numbered(n) == [i \in 1..n |-> i]

Dashed == keyPart # NoDash

Init ==
    /\ keyPart \in KeyParts
    /\ \E n \in StartSizes : /\ rows = Numbered(n) /\ lastId = n
                             /\ Dashed => n <= 1
    /\ pc = [p \in Requests |-> "start"]
    /\ wants = [p \in Requests |-> {}]
    /\ number = [p \in Requests |-> 0]
    /\ mine = [p \in Requests |-> 0]
    /\ queue = <<>>
    /\ disturbed = FALSE

-----------------------------------------------------------------------------
(* Connections and locks.                                                  *)

\* A transaction holds a connection; the look-ups that do not go through its
\* manager, of the tenant and later of the permissions and preferences of
\* whom to notify, take a second one.
InUse == Cardinality({ p \in Requests : pc[p] \in Running })
            + Cardinality({ p \in Requests : pc[p] = "looking" })

FreeConnection == InUse < PoolSize

Before(q, p) ==
    \E i, j \in DOMAIN queue : i < j /\ queue[i] = q /\ queue[j] = p

\* Mutant: a rollback does not release the locks.
LocksFree_KeptOnFailure(p) ==
    \A q \in Requests \ {p} :
        pc[q] \in Locked \cup {"failed"} \/ Before(q, p) =>
            wants[q] \cap wants[p] \cap Ids = {}

\* The rows p waits for are neither locked nor wanted by an earlier request.
LocksFree(p) ==
    LET ids == wants[p] \cap Ids
    IN  \A q \in Requests \ {p} :
            pc[q] \in Locked \/ Before(q, p) => wants[q] \cap ids = {}

-----------------------------------------------------------------------------
(* The number.                                                             *)

\* parseInt(customId.split('-')[1]): with a "-" in the key it is not the
\* number that follows the first one, but the rest of the key.
ParsedNumber(n) == IF Dashed THEN keyPart ELSE n

After(n) == IF n = NaN THEN NaN ELSE n + 1

\* Mutant: counts the tickets instead of reading the last one.
NextNumber_ByCount(ids) == Cardinality(ids) + 1

\* lastTicket ? parseInt(...) + 1 : 1, for the rows with these ids.
NextNumber(ids) ==
    IF ids = {} THEN 1 ELSE After(ParsedNumber(rows[Max(ids)]))

\* Mutant: no unique index.
Taken_Never(n) == FALSE

\* The unique index on (tenantId, customId): a committed row has the number.
Taken(n) == \E i \in Ids : rows[i] = n

\* A row with the number is inserted and not yet committed: insert waits.
Contested(c) ==
    \E q \in Creators \ {c} : pc[q] = "mail" /\ number[q] = number[c]

-----------------------------------------------------------------------------
(* create.                                                                 *)

Begin(c) ==
    /\ pc[c] = "start"
    /\ FreeConnection
    /\ pc' = [pc EXCEPT ![c] = "begun"]
    /\ UNCHANGED <<rows, lastId, wants, number, mine, queue, kept>>

SelectForUpdate(c) ==
    /\ pc[c] = "begun"
    /\ pc' = [pc EXCEPT ![c] = "locking"]
    /\ wants' = [wants EXCEPT ![c] = Ids]
    /\ queue' = Append(queue, c)
    /\ UNCHANGED <<rows, lastId, number, mine, kept>>

ReadLastTicket(c) ==
    /\ pc[c] = "locking"
    /\ LocksFree(c)
    /\ pc' = [pc EXCEPT ![c] = "tenant"]
    /\ wants' = [wants EXCEPT ![c] = @ \cap Ids]
    /\ number' = [number EXCEPT ![c] = NextNumber(wants[c] \cap Ids)]
    /\ queue' = Remove(queue, c)
    /\ UNCHANGED <<rows, lastId, mine, kept>>

FindTenant(c) ==
    /\ pc[c] = "tenant"
    /\ FreeConnection
    /\ pc' = [pc EXCEPT ![c] = "looking"]
    /\ UNCHANGED <<rows, lastId, wants, number, mine, queue, kept>>

TenantFound(c) ==
    /\ pc[c] = "looking"
    /\ pc' = [pc EXCEPT ![c] = "insert"]
    /\ UNCHANGED <<rows, lastId, wants, number, mine, queue, kept>>

\* The transaction throws: its locks, its row and its connection go.
RolledBack(c) == pc' = [pc EXCEPT ![c] = "failed"]

InsertTicket(c) ==
    /\ pc[c] = "insert"
    /\ ~Contested(c)
    /\ lastId' = lastId + 1
    /\ IF Taken(number[c])
       THEN RolledBack(c) /\ UNCHANGED mine
       ELSE /\ pc' = [pc EXCEPT ![c] = "mail"]
            /\ mine' = [mine EXCEPT ![c] = lastId']
    /\ UNCHANGED <<rows, wants, number, queue, kept>>

\* The notifications of create, for a ticket that is somebody else's to do,
\* are part of the transaction: an e-mail that cannot be sent throws.
MailFails(c) ==
    /\ pc[c] = "mail"
    /\ FreeConnection
    /\ RolledBack(c)
    /\ UNCHANGED <<rows, lastId, wants, number, mine, queue, kept>>

Commit(c) ==
    /\ pc[c] = "mail"
    /\ FreeConnection
    /\ pc' = [pc EXCEPT ![c] = "done"]
    /\ rows' = [i \in Ids \cup {mine[c]} |->
                    IF i = mine[c] THEN number[c] ELSE rows[i]]
    /\ UNCHANGED <<lastId, wants, number, mine, queue, kept>>

-----------------------------------------------------------------------------
(* deleteTicket: reads the row, then removes it in a transaction.          *)

DeleteFrom(d, i) ==
    /\ pc[d] = "start"
    /\ i \in Ids
    /\ FreeConnection
    /\ pc' = [pc EXCEPT ![d] = "deleting"]
    /\ wants' = [wants EXCEPT ![d] = {i}]
    /\ queue' = Append(queue, d)
    /\ UNCHANGED <<rows, lastId, number, mine, kept>>

\* A ticket was created that the statement of create c did not find.
Overtaken(c) == pc[c] \in {"locking"} \cup Locked /\ ~(Ids \subseteq wants[c])

Deleted(d) ==
    /\ pc[d] = "deleting"
    /\ LocksFree(d)
    /\ pc' = [pc EXCEPT ![d] = "done"]
    /\ rows' = [i \in Ids \ wants[d] |-> rows[i]]
    /\ queue' = Remove(queue, d)
    /\ disturbed' = (disturbed \/ \E c \in Creators : Overtaken(c))
    /\ UNCHANGED <<lastId, wants, number, mine, keyPart>>

-----------------------------------------------------------------------------

CreateStep(c) ==
    \/ Begin(c)
    \/ SelectForUpdate(c)
    \/ ReadLastTicket(c)
    \/ FindTenant(c)
    \/ TenantFound(c)
    \/ InsertTicket(c)
    \/ MailFails(c)
    \/ Commit(c)

DeleteStep(d) == Deleted(d) \/ \E i \in Ids : DeleteFrom(d, i)

Next == (\E c \in Creators : CreateStep(c)) \/ (\E d \in Deleters : DeleteStep(d))

\* The pool hands out connections, and PostgreSQL locks, in the order they
\* were asked for, and every await is resumed.
Spec == /\ Init /\ [][Next]_vars
        /\ \A c \in Creators : WF_vars(CreateStep(c))
        /\ \A d \in Deleters : WF_vars(Deleted(d))

-----------------------------------------------------------------------------
(* Properties.                                                             *)

\* Until a ticket is deleted, concurrent creates number the tickets 1, 2, 3,
\* ... in the order of their ids, whichever of them fail on the unique index
\* or on an e-mail and whatever ids those used up (a key without a "-").
NumbersConsecutive ==
    ~Dashed /\ (\A d \in Deleters : pc[d] # "done") =>
        \A i \in Ids : rows[i] = Cardinality({ j \in Ids : j <= i })

\* @Index(['tenantId', 'customId'], { unique: true }) (ticket.entity.ts:34):
\* the number a create would compute from the tickets there are is free, with
\* creates and deletes running side by side.  Where it is not, no ticket can
\* be created until one is deleted.  The one way to get there, for a key
\* without a "-", is a delete while a create that another has overtaken is
\* under way: what its statement locked is no longer the end of the table.
NextNumberFree == ~Dashed /\ ~disturbed => ~Taken(NextNumber(Ids))

\* A tenant whose key holds a "-" never has a third ticket: the last one's
\* number is never read, and what is read instead can be used once.
DashAllowsTwo == Dashed => Cardinality(Ids) <= 2

\* A create that is asked for ends, with a ticket or an error: neither the
\* row locks nor the connections make everyone wait for everyone, as long as
\* fewer requests run than the pool has connections.
EveryCreateEnds ==
    \A c \in Creators : (pc[c] = "start") ~> (pc[c] \in {"done", "failed"})
=============================================================================

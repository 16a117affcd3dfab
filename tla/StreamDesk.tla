------------------------------ MODULE StreamDesk ------------------------------
(***************************************************************************)
(* What the stream of notifications promises, without saying where tickets *)
(* are kept: a user who is logged in is given tickets, a ticket opens      *)
(* streams of its own user until it expires, as often as the browser       *)
(* reconnects, and an instance of the API sends the events of a user down  *)
(* one connection, the one opened last.                                    *)
(*                                                                         *)
(* NotificationStream, with its Map of tickets on every instance, the      *)
(* copies in Redis and the questions under way between them, implements    *)
(* this.                                                                   *)
(***************************************************************************)
CONSTANTS
    Instances,     \* running processes of the API
    Users,
    Connections,   \* connections of browsers to GET /notifications/stream
    NoConnection,
    Tickets,       \* stream tickets that may be given out
    Holder         \* the user each ticket is given to

VARIABLES
    issued,     \* tickets given out
    expired,    \* those older than five minutes
    listening   \* on an instance, the connection that hears for a user

deskVars == <<issued, expired, listening>>

DeskInit ==
    /\ issued = {} /\ expired = {}
    /\ listening = [i \in Instances |-> [u \in Users |-> NoConnection]]

Issue(t) ==
    /\ t \notin issued
    /\ issued' = issued \cup {t}
    /\ UNCHANGED <<expired, listening>>

Expires(t) ==
    /\ t \in issued \ expired
    /\ expired' = expired \cup {t}
    /\ UNCHANGED <<issued, listening>>

\* A ticket that has not expired puts its connection in the place of the one
\* that listened for the user on that instance.
Admitted(c, i, t) ==
    /\ t \in issued \ expired
    /\ listening' = [listening EXCEPT ![i][Holder[t]] = c]
    /\ UNCHANGED <<issued, expired>>

Leaves(i, u) ==
    /\ listening[i][u] # NoConnection
    /\ listening' = [listening EXCEPT ![i][u] = NoConnection]
    /\ UNCHANGED <<issued, expired>>

Restarted(i) ==
    /\ listening' = [listening EXCEPT ![i] = [u \in Users |-> NoConnection]]
    /\ UNCHANGED <<issued, expired>>

DeskNext ==
    \/ \E t \in Tickets : Issue(t) \/ Expires(t)
    \/ \E c \in Connections, i \in Instances, t \in Tickets : Admitted(c, i, t)
    \/ \E i \in Instances :
          Restarted(i) \/ \E u \in Users : Leaves(i, u)

DeskSpec == DeskInit /\ [][DeskNext]_deskVars
=============================================================================

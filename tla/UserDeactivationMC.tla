-------------------------- MODULE UserDeactivationMC --------------------------
(* The tenant TLC checks UserDeactivation on: a member and the supervisor of *)
(* one department, the admin of another, and the tickets they may hold.      *)
EXTENDS UserDeactivation

CONSTANTS ana, bia, caio, sales, board

MCUsers       == {ana, bia, caio}
MCAdmins      == {caio}
MCSupervisors == {bia}
MCDeptOf      == (ana :> sales) @@ (bia :> sales) @@ (caio :> board)

MCTicket(status, targets, current, reviewer, isPrivate) ==
    [ status |-> status, targets |-> targets, current |-> current,
      reviewer |-> reviewer, requester |-> ana, isPrivate |-> isPrivate,
      reason |-> status = Canceled, trail |-> [holder |-> current, status |-> status],
      worked |-> {} ]

MCShortLists == { <<ana>>, <<bia>>, <<ana, bia>>, <<bia, ana>>, <<bia, caio>>, <<caio, bia>> }

\* Tickets in the three situations the deactivation tells apart.
MCStartRows ==
    UNION { { MCTicket(status, targets, current, reviewer, reviewer = NoUser) :
                current \in Range(targets) } :
              status \in {Pending, AwaitingVerification, Canceled},
              targets \in MCShortLists, reviewer \in {bia, NoUser} }

\* Tickets for others to work on meanwhile.
MCStartRaces ==
    { MCTicket(Pending, targets, targets[1], bia, TRUE) : targets \in MCShortLists }
=============================================================================

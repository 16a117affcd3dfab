---------------------------- MODULE TicketStatsMC ----------------------------
(* The tenant of the statistics: a supervisor and an admin of different      *)
(* departments, so that each ticket has somebody who only reviews it.  A     *)
(* Thursday begins at 0, the weekend two days later.                         *)
EXTENDS TicketStats

CONSTANTS ana, caio, sales, board

MCUsers       == {ana, caio}
MCAdmins      == {caio}
MCSupervisors == {ana}
MCDeptOf      == (ana :> sales) @@ (caio :> board)
MCDueDates    == {3}
=============================================================================

--------------------------- MODULE TicketTimelineMC ---------------------------
(* The tenant of TicketWorkflowMC for the lists: a member and the supervisor *)
(* of one department, the admin of another.  Days do not matter here.        *)
EXTENDS TicketViews

CONSTANTS ana, bia, caio, sales, board

MCUsers       == {ana, bia, caio}
MCAdmins      == {caio}
MCSupervisors == {bia}
MCDeptOf      == (ana :> sales) @@ (bia :> sales) @@ (caio :> board)
MCDueDates    == {NoDate}
=============================================================================

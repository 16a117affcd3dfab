--------------------------- MODULE TicketWorkflowMC ---------------------------
(* The tenant TLC checks TicketWorkflow on: a member and the supervisor of   *)
(* one department, the admin of another.                                     *)
EXTENDS TicketWorkflow

CONSTANTS ana, bia, caio, sales, board

MCUsers       == {ana, bia, caio}
MCAdmins      == {caio}
MCSupervisors == {bia}
MCDeptOf      == (ana :> sales) @@ (bia :> sales) @@ (caio :> board)
=============================================================================

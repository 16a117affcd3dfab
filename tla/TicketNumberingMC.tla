-------------------------- MODULE TicketNumberingMC --------------------------
(* The requests TLC checks TicketNumbering on: interchangeable creates and   *)
(* deletes.  With symmetry only where no liveness is checked.                *)
EXTENDS TicketNumbering, TLC

MCSymmetry == Permutations(Creators) \cup Permutations(Deleters)
=============================================================================

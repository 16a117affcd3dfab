------------------------- MODULE NotificationStreamMC -------------------------
(* The deployments TLC checks NotificationStream on: notifications for one    *)
(* user, updates of tickets for everybody, and tickets for the user or, with  *)
(* several, for both.                                                         *)
EXTENDS NotificationStream, TLC

CONSTANTS u1, u2, t1

MCHolder   == [t \in Tickets |-> IF t = t1 THEN u1 ELSE u2]
MCAudience == [e \in Events |-> IF e \in Notes THEN {u1} ELSE Users]

MCSymmetry == Permutations(Instances) \cup Permutations(Connections)
=============================================================================

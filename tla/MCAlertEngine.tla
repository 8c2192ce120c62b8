--------------------------- MODULE MCAlertEngine ----------------------------
(* AlertEngine for TLC: vehicles are model values, and a run chooses the   *)
(* readings its question is about.                                         *)
EXTENDS AlertEngine, TLC

Calm == [geofence |-> FALSE, low_battery |-> FALSE, anomaly |-> FALSE]
Stray == [Calm EXCEPT !.geofence = TRUE]
InTrouble == [geofence |-> TRUE, low_battery |-> TRUE, anomaly |-> TRUE]

OnlyCalm == {Calm}
CalmToTrouble == {Calm, Stray, InTrouble}

Symmetry == Permutations(Vehicles)

=============================================================================

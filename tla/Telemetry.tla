------------------------------ MODULE Telemetry ------------------------------
(***************************************************************************)
(* Validate of internal/telemetry/telemetry.go: which of the messages it   *)
(* can decode the ingestion service takes in.  NaN, which JSON cannot      *)
(* carry, is left out, and with it the check of the temperature.           *)
(*                                                                         *)
(* Numbers are whole: percents, metres per second, headings of which a     *)
(* full circle has Turn, and cells of the map, which go MaxLat north and   *)
(* south of the equator and MaxLon east and west of Greenwich.             *)
(***************************************************************************)
EXTENDS Integers

CONSTANTS
  Turn,   \* 360 degrees, in units of a published heading
  MaxLat, \* 90 degrees, in cells of the map
  MaxLon  \* 180 degrees, in cells of the map

ASSUME TurnAssumption == Turn \in Nat \ {0}
ASSUME MapAssumption == MaxLat \in Nat /\ MaxLon \in Nat

validStatuses == {"ok", "active", "idle", "returning", "low_batt", "fault", "offline"}

OnMap(lat, lon) == lat \in -MaxLat .. MaxLat /\ lon \in -MaxLon .. MaxLon

(* A heading of 360 is out of range, and a status may be missing. *)
Validate(m) ==
  /\ m.vehicleId # "" /\ m.ts # 0
  /\ OnMap(m.lat, m.lon)
  /\ m.headingDeg \in 0 .. Turn - 1
  /\ m.speed >= 0
  /\ m.batteryPct \in 0 .. 100
  /\ m.status \in {""} \cup validStatuses

=============================================================================

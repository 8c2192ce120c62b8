----------------------------- MODULE VehicleSim -----------------------------
(***************************************************************************)
(* A vehicle of the simulated fleet: sim/vehicle.py, and the loop and the  *)
(* command handler of sim/spawn.py that drive it.  The loop steps and      *)
(* publishes every vehicle, the MQTT client's thread applies commands;     *)
(* both hold one lock, so each is one action.                              *)
(*                                                                         *)
(* Battery is in percent and a heading in 1/Fine of the unit it is rounded *)
(* to when it is published.  A position is a cell of the service's map, or *)
(* one beside the map, which stands for all that lies farther out.  How    *)
(* far a step goes is left open, and so is the bearing of a place.         *)
(* Speeds, which stay above zero, and temperatures are left out.           *)
(***************************************************************************)
EXTENDS Telemetry

CONSTANTS
  Fine,      \* steps of a heading per unit of a published one, odd: no ties
  Charge,    \* percents of battery a vehicle starts with, 80 or more
  Drain,     \* percents of battery a step takes
  MaxAge     \* bound: steps after which no vehicle changes with age

ASSUME SimAssumption ==
  /\ Fine \in Nat /\ Fine % 2 = 1 /\ Drain \in Nat \ {0} /\ MaxAge \in Nat
  /\ Charge \in 80 .. 100
  /\ Turn % 4 = 0

VARIABLES
  status, fault, heading, battery,  \* the Vehicle's
  lat, lon,     \* its position
  age,          \* _age, up to MaxAge
  silentAfter,  \* _silent_after
  reading,      \* the message published last
  course        \* the heading to base, if the operator's last word was to return

simVars == <<status, fault, heading, battery, lat, lon, age, silentAfter, reading, course>>

NoReading == [vehicleId |-> ""]
NoCourse == -1

Headings == 0 .. Turn * Fine - 1
East == (Turn * Fine) \div 4
Low == 15

is_silent(f, a) == f = "silent" /\ a >= silentAfter

(* The random walk, in either direction. *)
Near(h) == {(h + d) % (Turn * Fine) : d \in -1 .. 1}

(* Which way north, and which way east, a heading leads. *)
Direction(x) == IF x > 0 THEN 1 ELSE IF x < 0 THEN -1 ELSE 0

Northward(h) == IF h < 2 * East THEN Direction(East - h) ELSE Direction(h - 3 * East)
Eastward(h) == IF h = 0 THEN 0 ELSE Direction(2 * East - h)

(* A step stays in its cell or goes on, any distance: near a pole a degree *)
(* of longitude is short.                                                  *)
Onward(x, way, limit) == {y \in -limit - 1 .. limit + 1 : y = x \/ way * (y - x) > 0}

(* Beyond a pole the cosine of the latitude may have either sign.          *)
Sideways(h) == IF lat \in -MaxLat .. MaxLat THEN {Eastward(h)} ELSE {-1, 1}

(* Mutant of Drained: without the floor at 0. *)
DrainedBelow(b) == b - (IF fault = "drain" THEN 8 * Drain ELSE Drain)

Drained(b) ==
  LET drain == IF fault = "drain" THEN 8 * Drain ELSE Drain IN
  IF b > drain THEN b - drain ELSE 0

(* round(heading % 360.0, 2): to the nearest unit, which may be the next   *)
(* full turn.  The position is published as it is, on the map or off it.   *)
telemetry(s, h, b, y, x) ==
  [vehicleId |-> "veh", ts |-> 1, lat |-> y, lon |-> x, speed |-> 5,
   headingDeg |-> (2 * h + Fine) \div (2 * Fine), batteryPct |-> b, status |-> s]

-----------------------------------------------------------------------------
(* One turn of the loop for this vehicle: step, then publish. *)

step ==
  /\ age' = IF age < MaxAge THEN age + 1 ELSE age
  /\ heading' \in CASE fault = "stray" -> {East}
                    [] fault # "stray" /\ status # "returning" -> Near(heading)
                    [] OTHER -> {heading}
  /\ lat' \in Onward(lat, Northward(heading'), MaxLat)
  /\ \E way \in Sideways(heading') : lon' \in Onward(lon, way, MaxLon)
  /\ battery' = Drained(battery)
  /\ status' = IF battery' <= Low THEN "low_batt"
               ELSE IF status # "returning" THEN "active" ELSE status
  /\ reading' = IF is_silent(fault, age') THEN reading
                ELSE telemetry(status', heading', battery', lat', lon')
  /\ UNCHANGED <<fault, silentAfter, course>>

(* apply_command.  set_geofence changes nothing, nor does a command of     *)
(* another type.  A reroute may name no target.                            *)

(* Mutant of ReturnToBase: a fault outlives the recall. *)
ReturnAstray(bearing) ==
  /\ status' = "returning" /\ heading' = bearing
  /\ course' = bearing
  /\ UNCHANGED <<fault, battery, lat, lon, age, silentAfter, reading>>

ReturnToBase(bearing) ==
  /\ status' = "returning" /\ fault' = "none" /\ heading' = bearing
  /\ course' = bearing
  /\ UNCHANGED <<battery, lat, lon, age, silentAfter, reading>>

Reroute(target) ==
  /\ status' = "active" /\ heading' = target /\ course' = NoCourse
  /\ UNCHANGED <<fault, battery, lat, lon, age, silentAfter, reading>>

(* spawn: somewhere on the map, with a fault or without. *)
SimInit ==
  /\ status = "active" /\ fault \in {"none", "stray", "drain", "silent", "hot"}
  /\ heading \in Headings /\ battery = Charge
  /\ lat \in -MaxLat .. MaxLat /\ lon \in -MaxLon .. MaxLon
  /\ age = 0 /\ silentAfter \in 1 .. MaxAge
  /\ reading = NoReading /\ course = NoCourse

SimNext ==
  \/ step
  \/ \E h \in Headings : ReturnToBase(h) \/ Reroute(h)

SimSpec == SimInit /\ [][SimNext]_simVars

-----------------------------------------------------------------------------
(* Properties                                                              *)

(* Values have their types. *)
SimTypeOK ==
  /\ status \in {"active", "returning", "low_batt"}
  /\ fault \in {"none", "stray", "drain", "silent", "hot"}
  /\ heading \in Headings /\ course \in Headings \cup {NoCourse}
  /\ lat \in -MaxLat - 1 .. MaxLat + 1 /\ lon \in -MaxLon - 1 .. MaxLon + 1
  /\ battery \in 0 .. 100 /\ age \in 0 .. MaxAge /\ silentAfter \in 1 .. MaxAge

(* A vehicle told to return does: whatever fault it had, it holds the      *)
(* course to base until another command or a low battery ends it.  (From   *)
(* then on its status is low_batt and its heading random again.)  It does  *)
(* not stop at the base: nothing in the code looks whether it is there.    *)
RecallHolds ==
  course # NoCourse =>
    /\ fault = "none"
    /\ battery > Low => status = "returning" /\ heading = course

(* Simulator and service agree on what a reading may be, in every state    *)
(* of a vehicle, but at the edges of the circle and of the map: the        *)
(* service turns down a heading that is rounded up to a full turn, and a   *)
(* vehicle that has driven past a pole or the date line.                   *)
RejectedAtTheEdges ==
  reading # NoReading /\ ~ Validate(reading) =>
    reading.headingDeg = Turn \/ ~ OnMap(reading.lat, reading.lon)

-----------------------------------------------------------------------------
(* What the documentation says and the code does not do.                   *)

(* README.md: no valid message is dropped; a vehicle's own readings, taken *)
(* anywhere on the map, are valid.                                         *)
ReadingsAreValid ==
  reading # NoReading /\ OnMap(reading.lat, reading.lon) => Validate(reading)

=============================================================================

-------------------------- MODULE ComponentsProofs --------------------------
(***************************************************************************)
(* Proofs about the components that are checked by themselves: a vehicle   *)
(* of the simulated fleet, for any circle of headings, any fineness of the *)
(* heading it keeps and any drain; the geofence, for any grid and any      *)
(* number of vertices; the anomaly detector, for any values, window and    *)
(* threshold; and the histogram, for any latencies and capacity.  At the   *)
(* end, that the behaviors TLC explores of all of them and of the feed of  *)
(* alerts in one run are behaviors of each.                                *)
(***************************************************************************)
EXTENDS MCComponents, AlertFeedProofs,
  SequenceTheorems, FunctionTheorems, FiniteSetTheorems, TLAPS

-----------------------------------------------------------------------------
(* The vehicle.  SimInv is inductive: what is published is always a        *)
(* reading of a state with values in their types, and a vehicle told to    *)
(* return keeps its course while its battery lasts, because the battery    *)
(* never recovers.                                                         *)

ReadingInRange ==
  reading # NoReading =>
    \E s \in {"active", "returning", "low_batt"}, h \in Headings, b \in 0 .. 100, y, x \in Int :
      reading = telemetry(s, h, b, y, x)

SimInv == SimTypeOK /\ RecallHolds /\ ReadingInRange

-----------------------------------------------------------------------------
(* Arithmetic of the circle.                                               *)

LEMMA ModInRange ==
  ASSUME NEW a \in Int, NEW n \in Nat \ {0}
  PROVE  a % n \in 0 .. n - 1
OBVIOUS

LEMMA QuarterInRange ==
  ASSUME NEW n \in Nat \ {0}
  PROVE  n \div 4 \in 0 .. n - 1
OBVIOUS

LEMMA DivUpto ==
  ASSUME NEW a \in Nat, NEW n \in Nat \ {0}, NEW t \in Nat, a < n * (t + 1)
  PROVE  a \div n \in 0 .. t
<1> DEFINE q == a \div n
<1>1. q \in Int /\ n * q <= a /\ a < n * (q + 1) /\ q >= 0 OBVIOUS
<1> HIDE DEF q
<1>2. q < t + 1
  <2> SUFFICES ASSUME q >= t + 1 PROVE FALSE
    BY <1>1
  <2>1. n * q >= n * (t + 1) BY <1>1
  <2> QED BY <1>1, <2>1
<1>3. q \in 0 .. t BY <1>1, <1>2
<1> QED BY <1>3 DEF q

LEMMA Circle == Turn * Fine \in Nat \ {0}
BY TurnAssumption, SimAssumption

LEMMA HeadingFacts ==
  /\ East \in Headings
  /\ \A h \in Headings : Near(h) \subseteq Headings
<1> DEFINE n == Turn * Fine
<1>1. n \in Nat \ {0} BY Circle
<1> HIDE DEF n
<1>2. n \div 4 \in 0 .. n - 1 BY <1>1, QuarterInRange
<1>3. ASSUME NEW h \in 0 .. n - 1, NEW d \in -1 .. 1 PROVE (h + d) % n \in 0 .. n - 1
  BY <1>1, <1>3, ModInRange
<1> QED BY <1>2, <1>3 DEF n, East, Headings, Near

(* A heading is published as a whole unit of the circle, a full turn       *)
(* included.                                                               *)
LEMMA PublishedHeading ==
  ASSUME NEW h \in Headings
  PROVE  (2 * h + Fine) \div (2 * Fine) \in 0 .. Turn
<1>1. Turn \in Nat /\ Fine \in Nat \ {0} /\ h \in Nat /\ h <= Turn * Fine - 1
  BY TurnAssumption, SimAssumption, Circle DEF Headings
<1>2. 2 * h + Fine < 2 * Fine * (Turn + 1)
  <2>1. 2 * Fine * (Turn + 1) = 2 * (Turn * Fine) + 2 * Fine BY <1>1
  <2>2. Turn * Fine \in Nat BY Circle
  <2> HIDE DEF Headings
  <2> QED BY <1>1, <2>1, <2>2
<1>3. 2 * Fine \in Nat \ {0} /\ 2 * h + Fine \in Nat BY <1>1
<1> QED BY <1>1, <1>2, <1>3, DivUpto

LEMMA DrainedFacts ==
  ASSUME NEW b \in 0 .. 100
  PROVE  Drained(b) \in 0 .. 100 /\ Drained(b) <= b
<1>1. PICK d \in Nat \ {0} : d = IF fault = "drain" THEN 8 * Drain ELSE Drain
  BY SimAssumption
<1> QED BY <1>1 DEF Drained

-----------------------------------------------------------------------------
LEMMA StepInd ==
  ASSUME SimInv, step
  PROVE  SimInv'
<1> USE DEF SimInv, SimTypeOK
<1>1. battery' \in 0 .. 100 /\ battery' <= battery BY DrainedFacts DEF step
<1>2. heading' \in Headings
  <2>1. CASE fault = "stray" BY <2>1, HeadingFacts DEF step
  <2>2. CASE fault # "stray" /\ status # "returning" BY <2>2, HeadingFacts DEF step
  <2>3. CASE fault # "stray" /\ status = "returning" BY <2>3 DEF step
  <2> QED BY <2>1, <2>2, <2>3
<1>3. status' \in {"active", "returning", "low_batt"} BY DEF step
<1>4. /\ lat' \in -MaxLat - 1 .. MaxLat + 1 /\ lon' \in -MaxLon - 1 .. MaxLon + 1
      /\ lat' \in Int /\ lon' \in Int
  BY MapAssumption DEF step, Onward
<1>5. SimTypeOK'
  <2>1. age' \in 0 .. MaxAge BY SimAssumption DEF step
  <2>2. UNCHANGED <<fault, silentAfter, course>> BY DEF step
  <2> QED BY <1>1, <1>2, <1>3, <1>4, <2>1, <2>2
<1>6. RecallHolds'
  <2>1. battery' > Low => battery > Low BY <1>1 DEF Low
  <2>2. ASSUME course # NoCourse, battery' > Low
        PROVE  status' = "returning" /\ heading' = course
    <3>1. fault = "none" /\ status = "returning" /\ heading = course
      BY <2>1, <2>2 DEF RecallHolds
    <3>2. heading' = heading BY <3>1 DEF step
    <3>3. status' = "returning" BY <1>1, <2>2, <3>1 DEF step, Low
    <3> QED BY <3>1, <3>2, <3>3
  <2>3. UNCHANGED <<fault, course>> BY DEF step
  <2> QED BY <2>2, <2>3 DEF RecallHolds
<1>7. ReadingInRange'
  <2>1. CASE reading' = reading BY <2>1 DEF ReadingInRange, telemetry
  <2>2. CASE reading' = telemetry(status', heading', battery', lat', lon')
    BY <1>1, <1>2, <1>3, <1>4, <2>2 DEF ReadingInRange, telemetry
  <2> QED BY <2>1, <2>2 DEF step
<1> QED BY <1>5, <1>6, <1>7

LEMMA CommandInd ==
  ASSUME SimInv, NEW h \in Headings, ReturnToBase(h) \/ Reroute(h)
  PROVE  SimInv'
<1> USE DEF SimInv, SimTypeOK
<1>1. UNCHANGED <<battery, lat, lon, age, silentAfter, reading>> /\ heading' = h
  BY DEF ReturnToBase, Reroute
<1>2. ReadingInRange' BY <1>1 DEF ReadingInRange, telemetry
<1>3. SimTypeOK' BY <1>1 DEF ReturnToBase, Reroute
<1>4. RecallHolds' BY <1>1 DEF ReturnToBase, Reroute, RecallHolds
<1> QED BY <1>2, <1>3, <1>4

LEMMA SimInd ==
  ASSUME SimInv, [SimNext]_simVars
  PROVE  SimInv'
<1>1. CASE UNCHANGED simVars
  BY <1>1 DEF simVars, SimInv, SimTypeOK, RecallHolds, ReadingInRange, telemetry
<1> QED BY <1>1, StepInd, CommandInd DEF SimNext

LEMMA SimInitially == SimInit => SimInv
BY SimAssumption, MapAssumption DEF SimInit, SimInv, SimTypeOK, RecallHolds, ReadingInRange

LEMMA SimInvHolds == SimSpec => []SimInv
BY SimInitially, SimInd, PTL DEF SimSpec

(* A vehicle's values have their types: step keeps its heading on the      *)
(* circle and its battery between empty and full.                          *)
THEOREM VehicleIsTyped == SimSpec => []SimTypeOK
BY SimInvHolds, PTL DEF SimInv

(* A vehicle told to return (apply_command) holds its course to base,      *)
(* whatever fault it had, until another command or a low battery.          *)
THEOREM RecallIsObeyed == SimSpec => []RecallHolds
BY SimInvHolds, PTL DEF SimInv

(* A vehicle's readings (step, telemetry) are valid to the service         *)
(* (Validate), but for a heading that is rounded up to a full turn and a   *)
(* position off the map: its battery, status and speed never make the      *)
(* service drop one.                                                       *)
THEOREM OnlyTheEdgesAreRejected == SimSpec => []RejectedAtTheEdges
<1>1. SimInv => RejectedAtTheEdges
  <2> SUFFICES ASSUME SimInv, reading # NoReading, ~ Validate(reading),
                      OnMap(reading.lat, reading.lon)
               PROVE  reading.headingDeg = Turn
    BY DEF RejectedAtTheEdges
  <2>1. PICK s \in {"active", "returning", "low_batt"}, h \in Headings, b \in 0 .. 100,
             y, x \in Int :
          reading = telemetry(s, h, b, y, x)
    BY DEF SimInv, ReadingInRange
  <2>2. reading.headingDeg \in 0 .. Turn BY <2>1, PublishedHeading DEF telemetry
  <2>3. reading.headingDeg \notin 0 .. Turn - 1
    <3>1. /\ reading.vehicleId = "veh" /\ reading.ts = 1 /\ reading.speed = 5
          /\ reading.batteryPct = b /\ reading.status = s
      BY <2>1 DEF telemetry
    <3>2. s \in validStatuses BY DEF validStatuses
    <3>3. reading.vehicleId # "" /\ reading.ts # 0 /\ reading.speed >= 0 BY <3>1
    <3>4. reading.batteryPct \in 0 .. 100 BY <3>1
    <3>5. reading.status \in {""} \cup validStatuses BY <3>1, <3>2
    <3> QED BY <3>3, <3>4, <3>5 DEF Validate
  <2> QED BY <2>2, <2>3, TurnAssumption
<1> QED BY <1>1, SimInvHolds, PTL

-----------------------------------------------------------------------------
(* The geofence.  A property of every fence is a matter of geometry; that  *)
(* a behavior only adds vertices leaves nothing else to show.  The key is  *)
(* that a fence spans a height an even number of times, so that a point    *)
(* outside the bounding box is never odd, and the box may be forgotten.    *)

(* Signs.                                                                  *)

LEMMA Signs ==
  ASSUME NEW a \in Int, NEW b \in Int
  PROVE  /\ a * b \in Int /\ a * b = b * a
         /\ a > 0 /\ b > 0 => a * b > 0
         /\ a > 0 /\ b >= 0 => a * b >= 0
         /\ a >= 0 /\ b >= 0 => a * b >= 0
         /\ a > 0 /\ b <= 0 => a * b <= 0
         /\ a > 0 /\ b < 0 => a * b < 0
         /\ a < 0 /\ b > 0 => a * b < 0
         /\ a < 0 /\ b >= 0 => a * b <= 0
         /\ a < 0 /\ b <= 0 => a * b >= 0
         /\ a < 0 /\ b < 0 => a * b > 0
         /\ a <= 0 /\ b > 0 => a * b <= 0
         /\ a <= 0 /\ b <= 0 => a * b >= 0
         /\ a >= 0 /\ b <= 0 => a * b <= 0
         /\ a = 0 => a * b = 0
OBVIOUS

(* Side, seen from the point: the ends are x1, y1 and x2, y2 away from it. *)
LEMMA SideFrom ==
  ASSUME NEW a \in Point, NEW b \in Point, NEW p \in Point
  PROVE  /\ Side(a, b, p) \in Int
         /\ Side(a, b, p) = (a.lon - p.lon) * (b.lat - p.lat) - (b.lon - p.lon) * (a.lat - p.lat)
<1>1. /\ a.lat \in Int /\ a.lon \in Int /\ b.lat \in Int /\ b.lon \in Int
      /\ p.lat \in Int /\ p.lon \in Int
  BY GridAssumption DEF Point
<1>2. \A ay, ax, by, bx, py, px \in Int :
        /\ (bx - ax) * (py - ay) - (by - ay) * (px - ax) \in Int
        /\ (bx - ax) * (py - ay) - (by - ay) * (px - ax)
             = (ax - px) * (by - py) - (bx - px) * (ay - py)
  OBVIOUS
<1> QED BY <1>1, <1>2 DEF Side

(* An edge is crossed the same way from either end. *)
LEMMA CrossesBack ==
  ASSUME NEW a \in Point, NEW b \in Point, NEW p \in Point
  PROVE  Crosses(a, b, p) <=> Crosses(b, a, p)
<1>1. /\ a.lat \in Int /\ b.lat \in Int /\ p.lat \in Int BY GridAssumption DEF Point
<1>2. PICK s, r : s = Side(a, b, p) /\ r = Side(b, a, p) OBVIOUS
<1>3. s \in Int /\ r \in Int /\ r = - s
  <2>1. \A u, v \in Int : u \in Int /\ v \in Int /\ u - v = - (v - u) OBVIOUS
  <2>2. PICK u, v : /\ u = (a.lon - p.lon) * (b.lat - p.lat)
                    /\ v = (b.lon - p.lon) * (a.lat - p.lat)
    OBVIOUS
  <2>3. u \in Int /\ v \in Int
    <3>1. a.lon \in Int /\ b.lon \in Int /\ p.lon \in Int BY GridAssumption DEF Point
    <3> QED BY <1>1, <2>2, <3>1
  <2>4. s = u - v /\ r = v - u BY <1>2, <2>2, SideFrom
  <2> QED BY <2>3, <2>4
<1> QED BY <1>1, <1>2, <1>3 DEF Crosses, Spans

(* An edge that is crossed has an end to the right of the point, and one   *)
(* that lies to the right of it is crossed if it spans its height.         *)
LEMMA CrossesRight ==
  ASSUME NEW a \in Point, NEW b \in Point, NEW p \in Point
  PROVE  /\ Crosses(a, b, p) => a.lon > p.lon \/ b.lon > p.lon
         /\ Spans(a, b, p) /\ a.lon > p.lon /\ b.lon > p.lon => Crosses(a, b, p)
<1>1. /\ a.lat \in Int /\ a.lon \in Int /\ b.lat \in Int /\ b.lon \in Int
      /\ p.lat \in Int /\ p.lon \in Int
  BY GridAssumption DEF Point
<1>2. PICK ax, ay, bx, by : /\ ax = a.lon - p.lon /\ ay = a.lat - p.lat
                            /\ bx = b.lon - p.lon /\ by = b.lat - p.lat
  OBVIOUS
<1>3. ax \in Int /\ ay \in Int /\ bx \in Int /\ by \in Int BY <1>1, <1>2
<1>4. PICK u, v, s : u = ax * by /\ v = bx * ay /\ s = Side(a, b, p) OBVIOUS
<1>5. s = u - v BY <1>2, <1>4, SideFrom
<1>6. /\ u \in Int /\ v \in Int
      /\ ax > 0 /\ by > 0 => u > 0
      /\ ax > 0 /\ by <= 0 => u <= 0
      /\ ax <= 0 /\ by > 0 => u <= 0
      /\ ax <= 0 /\ by <= 0 => u >= 0
      /\ bx > 0 /\ ay > 0 => v > 0
      /\ bx > 0 /\ ay <= 0 => v <= 0
      /\ bx <= 0 /\ ay > 0 => v <= 0
      /\ bx <= 0 /\ ay <= 0 => v >= 0
  BY <1>3, <1>4, Signs
<1>7. /\ (a.lon > p.lon <=> ax > 0) /\ (b.lon > p.lon <=> bx > 0)
      /\ (a.lat > p.lat <=> ay > 0) /\ (b.lat > p.lat <=> by > 0)
      /\ (b.lat > a.lat <=> by > ay)
  BY <1>1, <1>2
<1>8. Crosses(a, b, p) <=> (ay > 0) # (by > 0) /\ IF by > ay THEN s > 0 ELSE s < 0
  BY <1>4, <1>7 DEF Crosses, Spans
<1>9. Spans(a, b, p) <=> (ay > 0) # (by > 0) BY <1>7 DEF Spans
<1> QED BY <1>3, <1>5, <1>6, <1>7, <1>8, <1>9

-----------------------------------------------------------------------------
(* Counting. *)

LEMMA FiniteDisjoint ==
  ASSUME NEW S, NEW T, IsFiniteSet(S), IsFiniteSet(T), S \cap T = {}
  PROVE  Cardinality(S \cup T) = Cardinality(S) + Cardinality(T)
<1>1. Cardinality(S \cap T) = 0 BY FS_EmptySet
<1>2. Cardinality(S) \in Nat /\ Cardinality(T) \in Nat BY FS_CardinalityType
<1>3. Cardinality(S \cup T) = Cardinality(S) + Cardinality(T) - Cardinality(S \cap T)
  BY FS_Union
<1> QED BY <1>1, <1>2, <1>3

LEMMA EvenDifference ==
  ASSUME NEW A, NEW B, IsFiniteSet(A), IsFiniteSet(B), Cardinality(A) = Cardinality(B)
  PROVE  Cardinality((A \ B) \cup (B \ A)) % 2 = 0
<1>1. PICK X, Y, Z : X = A \ B /\ Y = B \ A /\ Z = A \cap B OBVIOUS
<1>2. X \in SUBSET A /\ Y \in SUBSET B /\ Z \in SUBSET A BY <1>1
<1>3. IsFiniteSet(X) /\ IsFiniteSet(Y) /\ IsFiniteSet(Z) BY <1>2, FS_Subset
<1>4. /\ Cardinality(X) \in Nat /\ Cardinality(Y) \in Nat /\ Cardinality(Z) \in Nat
  BY <1>3, FS_CardinalityType
<1>5. X \cap Z = {} /\ Y \cap Z = {} /\ X \cap Y = {} /\ A = X \cup Z /\ B = Y \cup Z
  BY <1>1
<1>6. \A S, T : IsFiniteSet(S) /\ IsFiniteSet(T) /\ S \cap T = {} =>
        Cardinality(S \cup T) = Cardinality(S) + Cardinality(T)
  BY FiniteDisjoint
<1>7. /\ Cardinality(A) = Cardinality(X) + Cardinality(Z)
      /\ Cardinality(B) = Cardinality(Y) + Cardinality(Z)
      /\ Cardinality(X \cup Y) = Cardinality(X) + Cardinality(Y)
  BY <1>3, <1>5, <1>6
<1>8. PICK x, y, z : x = Cardinality(X) /\ y = Cardinality(Y) /\ z = Cardinality(Z) OBVIOUS
<1>9. x \in Nat /\ y \in Nat /\ z \in Nat /\ x + z = y + z BY <1>4, <1>7, <1>8
<1>10. (x + y) % 2 = 0
  <2>1. x = y BY <1>9
  <2>2. x + y = 2 * x BY <1>9, <2>1
  <2>3. \A c \in Nat : (2 * c) % 2 = 0 OBVIOUS
  <2> QED BY <1>9, <2>2, <2>3
<1> QED BY <1>1, <1>7, <1>8, <1>10

(* What holds of as many vertices as of their predecessors changes an even *)
(* number of times on the way around.                                      *)
LEMMA AroundTwice ==
  ASSUME NEW n \in Nat \ {0}, NEW A \in SUBSET (1 .. n)
  PROVE  LET B == {i \in 1 .. n : (IF i = 1 THEN n ELSE i - 1) \in A}
         IN  Cardinality((A \ B) \cup (B \ A)) % 2 = 0
<1> DEFINE B == {i \in 1 .. n : (IF i = 1 THEN n ELSE i - 1) \in A}
           After(i) == IF i = n THEN 1 ELSE i + 1
           f == [i \in A |-> After(i)]
<1>1. IsFiniteSet(A)
  <2>1. IsFiniteSet(1 .. n) BY FS_Interval
  <2> QED BY <2>1, FS_Subset
<1>2. \A i \in A : After(i) \in B OBVIOUS
<1>3. \A i, j \in A : After(i) = After(j) => i = j OBVIOUS
<1>4. \A j \in B : \E i \in A : After(i) = j OBVIOUS
<1> HIDE DEF B, After
<1>5. f \in Bijection(A, B)
  <2>1. f \in [A -> B] /\ \A i \in A : f[i] = After(i) BY <1>2
  <2> HIDE DEF f
  <2> QED BY <2>1, <1>3, <1>4, Fun_IsBij
<1>6. IsFiniteSet(B) /\ Cardinality(B) = Cardinality(A)
  BY <1>1, <1>5, FS_Bijection DEF ExistsBijection
<1>7. Cardinality((A \ B) \cup (B \ A)) % 2 = 0 BY <1>1, <1>6, EvenDifference
<1> QED BY <1>7 DEF B

LEMMA SpansAreEven ==
  ASSUME NEW s \in Seq(Point), Len(s) > 0, NEW p \in Point
  PROVE  Cardinality({i \in DOMAIN s : Spans(Before(s, i), s[i], p)}) % 2 = 0
<1>1. PICK n : n = Len(s) OBVIOUS
<1>2. n \in Nat \ {0} /\ DOMAIN s = 1 .. n BY <1>1, LenProperties
<1> DEFINE Above(i) == s[i].lat > p.lat
           Prev(i) == IF i = 1 THEN n ELSE i - 1
           A == {i \in 1 .. n : Above(i)}
           B == {i \in 1 .. n : Prev(i) \in A}
<1>3. Cardinality((A \ B) \cup (B \ A)) % 2 = 0
  <2>1. A \in SUBSET (1 .. n) OBVIOUS
  <2> HIDE DEF A
  <2> QED BY <1>2, <2>1, AroundTwice
<1>4. ASSUME NEW i \in 1 .. n PROVE Spans(Before(s, i), s[i], p) <=> (Prev(i) \in A) # (i \in A)
  <2>1. Prev(i) \in 1 .. n BY <1>2
  <2>2. Before(s, i) = s[Prev(i)] BY <1>1 DEF Before
  <2>3. (Prev(i) \in A <=> Above(Prev(i))) /\ (i \in A <=> Above(i)) BY <2>1
  <2> QED BY <2>2, <2>3 DEF Spans
<1>5. {i \in DOMAIN s : Spans(Before(s, i), s[i], p)} = (A \ B) \cup (B \ A)
  <2> HIDE DEF Prev
  <2>1. ASSUME NEW i \in 1 .. n
        PROVE  Spans(Before(s, i), s[i], p) <=> i \in (A \ B) \cup (B \ A)
    <3>1. i \in B <=> Prev(i) \in A OBVIOUS
    <3> QED BY <1>4, <3>1
  <2>2. (A \ B) \cup (B \ A) \subseteq 1 .. n OBVIOUS
  <2> HIDE DEF A, B
  <2> QED BY <1>2, <2>1, <2>2
<1> QED BY <1>3, <1>5

-----------------------------------------------------------------------------
(* The fence. *)

LEMMA VertexFacts ==
  ASSUME NEW s \in Seq(Point), Len(s) > 0
  PROVE  /\ Len(s) \in Nat /\ DOMAIN s = 1 .. Len(s)
         /\ \A i \in DOMAIN s : s[i] \in Point /\ Before(s, i) \in Point
         /\ \A i \in DOMAIN s : \E j \in DOMAIN s : Before(s, i) = s[j]
<1>1. Len(s) \in Nat /\ DOMAIN s = 1 .. Len(s) BY LenProperties
<1>2. \A i \in DOMAIN s : s[i] \in Point BY <1>1, ElementOfSeq
<1>3. ASSUME NEW i \in DOMAIN s PROVE \E j \in DOMAIN s : Before(s, i) = s[j]
  <2>1. CASE i = 1
    <3>1. Len(s) \in DOMAIN s BY <1>1
    <3> QED BY <2>1, <3>1 DEF Before
  <2>2. CASE i # 1
    <3>1. i - 1 \in DOMAIN s BY <1>1, <2>2
    <3> QED BY <2>2, <3>1 DEF Before
  <2> QED BY <2>1, <2>2
<1> QED BY <1>1, <1>2, <1>3

LEMMA CrossingsFinite ==
  ASSUME NEW s \in Seq(Point), NEW p
  PROVE  IsFiniteSet(Crossings(s, p)) /\ Cardinality(Crossings(s, p)) \in Nat
<1>1. DOMAIN s = 1 .. Len(s) /\ Len(s) \in Nat BY LenProperties
<1>2. IsFiniteSet(1 .. Len(s)) BY <1>1, FS_Interval
<1>3. Crossings(s, p) \in SUBSET (1 .. Len(s)) BY <1>1 DEF Crossings
<1>4. IsFiniteSet(Crossings(s, p)) BY <1>2, <1>3, FS_Subset
<1> QED BY <1>4, FS_CardinalityType

(* The bounding box takes nothing away. *)
LEMMA OddInBox ==
  ASSUME NEW s \in Seq(Point), Len(s) > 0, NEW p \in Point,
         Cardinality(Crossings(s, p)) % 2 = 1
  PROVE  InBox(s, p)
<1> DEFINE n == Len(s)
<1>1. /\ DOMAIN s = 1 .. n /\ n \in Nat
      /\ \A i \in DOMAIN s : s[i] \in Point /\ Before(s, i) \in Point
      /\ \A i \in DOMAIN s : \E j \in DOMAIN s : Before(s, i) = s[j]
  BY VertexFacts
<1>2. p.lat \in Int /\ p.lon \in Int /\ \A i \in DOMAIN s : s[i].lat \in Int /\ s[i].lon \in Int
  BY <1>1, GridAssumption DEF Point
<1>3. Crossings(s, p) # {}
  <2>1. ~ (0 % 2 = 1) OBVIOUS
  <2> QED BY <2>1, FS_EmptySet
<1>4. PICK i \in DOMAIN s : Crosses(Before(s, i), s[i], p) BY <1>3 DEF Crossings
<1>5. PICK j \in DOMAIN s : Before(s, i) = s[j] BY <1>1
<1>6. (s[j].lat > p.lat) # (s[i].lat > p.lat) BY <1>4, <1>5 DEF Crosses, Spans
<1>7. (\E y \in Lats(s) : y <= p.lat) /\ (\E y \in Lats(s) : p.lat <= y)
  <2>1. s[i].lat \in Lats(s) /\ s[j].lat \in Lats(s) BY DEF Lats
  <2> QED BY <1>2, <1>6, <2>1
<1>8. \E x \in Lons(s) : p.lon <= x
  <2>1. s[i].lon \in Lons(s) /\ s[j].lon \in Lons(s) BY DEF Lons
  <2>2. s[j].lon > p.lon \/ s[i].lon > p.lon BY <1>1, <1>4, <1>5, CrossesRight
  <2> QED BY <1>2, <2>1, <2>2
<1>9. \E x \in Lons(s) : x <= p.lon
  <2>1. SUFFICES ASSUME \A x \in Lons(s) : ~ (x <= p.lon) PROVE FALSE
    OBVIOUS
  <2>2. \A k \in DOMAIN s : s[k].lon > p.lon
    <3>1. \A k \in DOMAIN s : s[k].lon \in Lons(s) BY DEF Lons
    <3>2. \A u, v \in Int : ~ (u <= v) => u > v OBVIOUS
    <3> QED BY <1>2, <2>1, <3>1, <3>2
  <2>3. ASSUME NEW k \in DOMAIN s
        PROVE  Crosses(Before(s, k), s[k], p) <=> Spans(Before(s, k), s[k], p)
    <3>1. Before(s, k).lon > p.lon /\ s[k].lon > p.lon BY <1>1, <2>2
    <3>2. Before(s, k) \in Point /\ s[k] \in Point BY <1>1
    <3> QED BY <3>1, <3>2, CrossesRight DEF Crosses
  <2>4. Crossings(s, p) = {k \in DOMAIN s : Spans(Before(s, k), s[k], p)}
    BY <2>3 DEF Crossings
  <2>5. Cardinality(Crossings(s, p)) % 2 = 0 BY <2>4, SpansAreEven
  <2> QED BY <2>5
<1> QED BY <1>7, <1>8, <1>9 DEF InBox

LEMMA ContainsIfOdd ==
  ASSUME NEW s \in Seq(Point), Len(s) >= 3, NEW p \in Point
  PROVE  Contains(s, p) <=> Cardinality(Crossings(s, p)) % 2 = 1
<1>1. Len(s) > 0 /\ ~ (Len(s) < 3) BY LenProperties
<1> QED BY <1>1, OddInBox DEF Contains

Bit(b) == IF b THEN 1 ELSE 0

LEMMA OneLess ==
  ASSUME NEW S, IsFiniteSet(S), NEW e
  PROVE  /\ IsFiniteSet(S \ {e}) /\ Cardinality(S \ {e}) \in Nat
         /\ Cardinality(S) = Cardinality(S \ {e}) + Bit(e \in S)
<1>1. IsFiniteSet(S \ {e}) BY FS_RemoveElement
<1>2. Cardinality(S \ {e}) \in Nat /\ Cardinality(S) \in Nat BY <1>1, FS_CardinalityType
<1>3. Cardinality(S \ {e}) = IF e \in S THEN Cardinality(S) - 1 ELSE Cardinality(S)
  BY FS_RemoveElement
<1> QED BY <1>1, <1>2, <1>3 DEF Bit

-----------------------------------------------------------------------------
(* Triangles. *)

LEMMA TriangleCrossings ==
  ASSUME NEW t \in Seq(Point), Len(t) = 3, NEW p \in Point
  PROVE  Contains(t, p) <=>
           (Bit(Crosses(t[3], t[1], p)) + Bit(Crosses(t[1], t[2], p))
              + Bit(Crosses(t[2], t[3], p))) % 2 = 1
<1>1. Contains(t, p) <=> Cardinality(Crossings(t, p)) % 2 = 1
  <2>1. Len(t) >= 3 OBVIOUS
  <2> QED BY <2>1, ContainsIfOdd
<1>2. DOMAIN t = 1 .. 3 BY LenProperties
<1>3. /\ Before(t, 1) = t[3] /\ Before(t, 2) = t[1] /\ Before(t, 3) = t[2]
  BY DEF Before
<1>4. PICK C : C = Crossings(t, p) OBVIOUS
<1>5. /\ C \subseteq 1 .. 3
      /\ 1 \in C <=> Crosses(t[3], t[1], p)
      /\ 2 \in C <=> Crosses(t[1], t[2], p)
      /\ 3 \in C <=> Crosses(t[2], t[3], p)
  BY <1>2, <1>3, <1>4 DEF Crossings
<1>6. PICK C1, C2, C3 : C1 = C \ {1} /\ C2 = C1 \ {2} /\ C3 = C2 \ {3} OBVIOUS
<1>7. IsFiniteSet(C) BY <1>4, CrossingsFinite
<1>8. /\ IsFiniteSet(C1) /\ Cardinality(C1) \in Nat
      /\ Cardinality(C) = Cardinality(C1) + Bit(1 \in C)
  BY <1>6, <1>7, OneLess
<1>9. /\ IsFiniteSet(C2) /\ Cardinality(C2) \in Nat
      /\ Cardinality(C1) = Cardinality(C2) + Bit(2 \in C1)
  BY <1>6, <1>8, OneLess
<1>10. Cardinality(C2) = Cardinality(C3) + Bit(3 \in C2)
  BY <1>6, <1>9, OneLess
<1>11. C3 = {} /\ (2 \in C1 <=> 2 \in C) /\ (3 \in C2 <=> 3 \in C)
  <2>1. C \subseteq {1, 2, 3} BY <1>5
  <2> QED BY <1>6, <2>1
<1>12. Cardinality(C3) = 0 BY <1>11, FS_EmptySet
<1>13. Cardinality(C) = Bit(1 \in C) + Bit(2 \in C) + Bit(3 \in C)
  <2>1. Bit(2 \in C1) = Bit(2 \in C) /\ Bit(3 \in C2) = Bit(3 \in C)
    BY <1>11 DEF Bit
  <2>2. Bit(1 \in C) \in Nat /\ Bit(2 \in C) \in Nat /\ Bit(3 \in C) \in Nat
    BY DEF Bit
  <2> QED BY <1>8, <1>9, <1>10, <1>12, <2>1, <2>2
<1> QED BY <1>1, <1>4, <1>5, <1>13 DEF Bit

(* The three sides, weighted with the heights of the vertices opposite to  *)
(* them, balance: on that rests that the inside is odd and the outside is  *)
(* not.                                                                    *)
LEMMA Balance ==
  ASSUME NEW x1 \in Int, NEW y1 \in Int, NEW x2 \in Int, NEW y2 \in Int,
         NEW x3 \in Int, NEW y3 \in Int
  PROVE  (x1 * y2 - x2 * y1) * y3 + (x2 * y3 - x3 * y2) * y1 + (x3 * y1 - x1 * y3) * y2 = 0
OBVIOUS

(* Crosses, for an edge from height y to height z above the point, which   *)
(* has it on the side s.                                                   *)
Cross(y, z, s) == (y > 0) # (z > 0) /\ IF z > y THEN s > 0 ELSE s < 0

LEMMA SidesDecide ==
  ASSUME NEW s1 \in Int, NEW s2 \in Int, NEW s3 \in Int,
         NEW y1 \in Int, NEW y2 \in Int, NEW y3 \in Int,
         s1 * y3 + s2 * y1 + s3 * y2 = 0,
         y1 = 0 /\ y2 = 0 => s1 = 0,
         y2 = 0 /\ y3 = 0 => s2 = 0,
         y3 = 0 /\ y1 = 0 => s3 = 0,
         NEW b1 \in {0, 1}, b1 = 1 <=> Cross(y1, y2, s1),
         NEW b2 \in {0, 1}, b2 = 1 <=> Cross(y2, y3, s2),
         NEW b3 \in {0, 1}, b3 = 1 <=> Cross(y3, y1, s3)
  PROVE  /\ s1 > 0 /\ s2 > 0 /\ s3 > 0 => (b3 + b1 + b2) % 2 = 1
         /\ s1 < 0 /\ s2 < 0 /\ s3 < 0 => (b3 + b1 + b2) % 2 = 1
         /\ (s1 > 0 \/ s2 > 0 \/ s3 > 0) /\ (s1 < 0 \/ s2 < 0 \/ s3 < 0) =>
            (b3 + b1 + b2) % 2 = 0
<1>1. PICK m1, m2, m3 : m1 = s1 * y3 /\ m2 = s2 * y1 /\ m3 = s3 * y2 OBVIOUS
<1>2. m1 + m2 + m3 = 0 BY <1>1
<1> DEFINE Sign(m, a, b) ==
             /\ m \in Int
             /\ a > 0 /\ b > 0 => m > 0
             /\ a > 0 /\ b <= 0 => m <= 0
             /\ a > 0 /\ b < 0 => m < 0
             /\ a < 0 /\ b > 0 => m < 0
             /\ a < 0 /\ b <= 0 => m >= 0
             /\ a < 0 /\ b < 0 => m > 0
             /\ a <= 0 /\ b > 0 => m <= 0
             /\ a <= 0 /\ b <= 0 => m >= 0
             /\ a >= 0 /\ b > 0 => m >= 0
             /\ a >= 0 /\ b <= 0 => m <= 0
<1>3. Sign(m1, s1, y3) BY <1>1, Signs
<1>4. Sign(m2, s2, y1) BY <1>1, Signs
<1>5. Sign(m3, s3, y2) BY <1>1, Signs
<1> USE DEF Cross
<1>6. s1 > 0 /\ s2 > 0 /\ s3 > 0 => b3 + b1 + b2 = 1
  BY <1>2, <1>3, <1>4, <1>5
<1>7. s1 < 0 /\ s2 < 0 /\ s3 < 0 => b3 + b1 + b2 = 1
  BY <1>2, <1>3, <1>4, <1>5
<1>8. (s1 > 0 \/ s2 > 0 \/ s3 > 0) /\ (s1 < 0 \/ s2 < 0 \/ s3 < 0) => b3 + b1 + b2 \in {0, 2}
  BY <1>2, <1>3, <1>4, <1>5
<1> QED BY <1>6, <1>7, <1>8

LEMMA CrossesFrom ==
  ASSUME NEW a \in Point, NEW b \in Point, NEW p \in Point,
         NEW y, NEW z, y = a.lat - p.lat, z = b.lat - p.lat,
         NEW s, s = Side(a, b, p)
  PROVE  Bit(Crosses(a, b, p)) \in {0, 1} /\ (Bit(Crosses(a, b, p)) = 1 <=> Cross(y, z, s))
<1>1. a.lat \in Int /\ b.lat \in Int /\ p.lat \in Int BY GridAssumption DEF Point
<1>2. (a.lat > p.lat <=> y > 0) /\ (b.lat > p.lat <=> z > 0) /\ (b.lat > a.lat <=> z > y)
  BY <1>1
<1> QED BY <1>2 DEF Crosses, Spans, Bit, Cross

LEMMA TriangleSides ==
  ASSUME NEW t \in Seq(Point), Len(t) = 3, NEW p \in Point
  PROVE  /\ Inside(t, p) => Contains(t, p)
         /\ Outside(t, p) => ~ Contains(t, p)
<1>1. PICK a, b, c : a = t[1] /\ b = t[2] /\ c = t[3] OBVIOUS
<1>2. a \in Point /\ b \in Point /\ c \in Point
  <2>1. 1 \in 1 .. Len(t) /\ 2 \in 1 .. Len(t) /\ 3 \in 1 .. Len(t) OBVIOUS
  <2> QED BY <1>1, <2>1, ElementOfSeq
<1>3. PICK x1, y1, x2, y2, x3, y3 :
        /\ x1 = a.lon - p.lon /\ x2 = b.lon - p.lon /\ x3 = c.lon - p.lon
        /\ y1 = a.lat - p.lat /\ y2 = b.lat - p.lat /\ y3 = c.lat - p.lat
  OBVIOUS
<1>4. /\ x1 \in Int /\ x2 \in Int /\ x3 \in Int /\ y1 \in Int /\ y2 \in Int /\ y3 \in Int
  <2>1. /\ a.lat \in Int /\ b.lat \in Int /\ c.lat \in Int /\ p.lat \in Int
        /\ a.lon \in Int /\ b.lon \in Int /\ c.lon \in Int /\ p.lon \in Int
    BY <1>2, GridAssumption DEF Point
  <2>2. \A u, v \in Int : u - v \in Int OBVIOUS
  <2> QED BY <1>3, <2>1, <2>2
<1>5. PICK s1, s2, s3 : s1 = Side(a, b, p) /\ s2 = Side(b, c, p) /\ s3 = Side(c, a, p)
  OBVIOUS
<1>6. /\ s1 \in Int /\ s2 \in Int /\ s3 \in Int
      /\ s1 = x1 * y2 - x2 * y1 /\ s2 = x2 * y3 - x3 * y2 /\ s3 = x3 * y1 - x1 * y3
  BY <1>2, <1>3, <1>5, SideFrom
<1>7. s1 * y3 + s2 * y1 + s3 * y2 = 0 BY <1>4, <1>6, Balance
<1>8. /\ y1 = 0 /\ y2 = 0 => s1 = 0
      /\ y2 = 0 /\ y3 = 0 => s2 = 0
      /\ y3 = 0 /\ y1 = 0 => s3 = 0
  BY <1>4, <1>6
<1>9. PICK b1, b2, b3 : /\ b1 = Bit(Crosses(a, b, p)) /\ b2 = Bit(Crosses(b, c, p))
                        /\ b3 = Bit(Crosses(c, a, p))
  OBVIOUS
<1>10. b1 \in {0, 1} /\ (b1 = 1 <=> Cross(y1, y2, s1))
  BY <1>2, <1>3, <1>5, <1>9, CrossesFrom
<1>11. b2 \in {0, 1} /\ (b2 = 1 <=> Cross(y2, y3, s2))
  BY <1>2, <1>3, <1>5, <1>9, CrossesFrom
<1>12. b3 \in {0, 1} /\ (b3 = 1 <=> Cross(y3, y1, s3))
  BY <1>2, <1>3, <1>5, <1>9, CrossesFrom
<1>13. PICK n : n = b3 + b1 + b2 OBVIOUS
<1>14. /\ s1 > 0 /\ s2 > 0 /\ s3 > 0 => n % 2 = 1
       /\ s1 < 0 /\ s2 < 0 /\ s3 < 0 => n % 2 = 1
       /\ (s1 > 0 \/ s2 > 0 \/ s3 > 0) /\ (s1 < 0 \/ s2 < 0 \/ s3 < 0) => n % 2 = 0
  BY <1>4, <1>6, <1>7, <1>8, <1>10, <1>11, <1>12, <1>13, SidesDecide
<1>15. Contains(t, p) <=> n % 2 = 1
  BY <1>1, <1>9, <1>13, TriangleCrossings
<1>16. Sides(t, p) = {s1, s2, s3} BY <1>1, <1>5 DEF Sides
<1> QED BY <1>14, <1>15, <1>16 DEF Inside, Outside

-----------------------------------------------------------------------------
(* Cutting a vertex off. *)

LEMMA CutFacts ==
  ASSUME NEW f \in Seq(Point), NEW n, n = Len(f), n > 3,
         NEW g, g = SubSeq(f, 1, n - 1), NEW t, t = <<f[1], f[n - 1], f[n]>>
  PROVE  /\ n \in Nat /\ DOMAIN f = 1 .. n
         /\ g \in Seq(Point) /\ Len(g) = n - 1 /\ DOMAIN g = 1 .. n - 1
         /\ \A i \in 1 .. n - 1 : g[i] = f[i]
         /\ t \in Seq(Point) /\ Len(t) = 3
         /\ t[1] = f[1] /\ t[2] = f[n - 1] /\ t[3] = f[n]
<1>1. n \in Nat /\ DOMAIN f = 1 .. n BY LenProperties
<1>2. \A i \in 1 .. n : f[i] \in Point BY <1>1, ElementOfSeq
<1>3. \A i \in 1 .. n - 1 : f[i] \in Point BY <1>1, <1>2
<1>4. /\ SubSeq(f, 1, n - 1) \in Seq(Point)
      /\ Len(SubSeq(f, 1, n - 1)) = IF 1 <= n - 1 THEN n - 1 - 1 + 1 ELSE 0
      /\ \A i \in 1 .. n - 1 - 1 + 1 : SubSeq(f, 1, n - 1)[i] = f[1 + i - 1]
  BY <1>1, <1>3, SubSeqProperties
<1>5. g \in Seq(Point) /\ Len(g) = n - 1 BY <1>1, <1>4
<1>6. \A i \in 1 .. n - 1 : g[i] = f[i]
  <2>1. \A i \in 1 .. n - 1 : i \in 1 .. n - 1 - 1 + 1 /\ 1 + i - 1 = i BY <1>1
  <2> QED BY <1>4, <2>1
<1>7. f[1] \in Point /\ f[n - 1] \in Point /\ f[n] \in Point BY <1>1, <1>2
<1>8. t \in Seq(Point) /\ Len(t) = 3 /\ t[1] = f[1] /\ t[2] = f[n - 1] /\ t[3] = f[n]
  BY <1>7
<1> QED BY <1>1, <1>5, <1>6, <1>8, LenProperties

(* Both parts cross the cut, so it does not count. *)
LEMMA CutParity ==
  ASSUME NEW f \in Seq(Point), NEW n, n = Len(f), n > 3, NEW p \in Point
  PROVE  Contains(f, p) <=>
           Contains(SubSeq(f, 1, n - 1), p) # Contains(<<f[1], f[n - 1], f[n]>>, p)
<1>1. PICK g, t : g = SubSeq(f, 1, n - 1) /\ t = <<f[1], f[n - 1], f[n]>> OBVIOUS
<1>2. /\ n \in Nat /\ DOMAIN f = 1 .. n
      /\ g \in Seq(Point) /\ Len(g) = n - 1 /\ DOMAIN g = 1 .. n - 1
      /\ \A i \in 1 .. n - 1 : g[i] = f[i]
      /\ t \in Seq(Point) /\ Len(t) = 3
      /\ t[1] = f[1] /\ t[2] = f[n - 1] /\ t[3] = f[n]
  BY <1>1, CutFacts
<1>3. f[1] \in Point /\ f[n - 1] \in Point /\ f[n] \in Point BY <1>2, ElementOfSeq
<1>4. PICK x, y, z : /\ x = Bit(Crosses(f[n - 1], f[n], p))
                     /\ y = Bit(Crosses(f[n], f[1], p))
                     /\ z = Bit(Crosses(f[n - 1], f[1], p))
  OBVIOUS
<1>5. x \in {0, 1} /\ y \in {0, 1} /\ z \in {0, 1} BY <1>4 DEF Bit
<1>6. z = Bit(Crosses(f[1], f[n - 1], p)) BY <1>3, <1>4, CrossesBack DEF Bit
<1>7. Contains(t, p) <=> (y + z + x) % 2 = 1
  BY <1>2, <1>4, <1>6, TriangleCrossings
<1>8. PICK C, D : C = Crossings(f, p) /\ D = Crossings(g, p) OBVIOUS
<1>9. PICK M : M = D \ {1} OBVIOUS
<1>10. /\ IsFiniteSet(M) /\ Cardinality(M) \in Nat
       /\ Cardinality(D) = Cardinality(M) + Bit(1 \in D)
  <2>1. IsFiniteSet(D) BY <1>2, <1>8, CrossingsFinite
  <2> QED BY <1>9, <2>1, OneLess
<1>11. 1 \in D <=> Crosses(f[n - 1], f[1], p)
  BY <1>2, <1>8 DEF Crossings, Before
<1>12. 1 \in C <=> Crosses(f[n], f[1], p)
  BY <1>2, <1>8 DEF Crossings, Before
<1>13. n \in C <=> Crosses(f[n - 1], f[n], p)
  BY <1>2, <1>8 DEF Crossings, Before
<1>14. (C \ {1}) \ {n} = M
  <2>1. C \subseteq 1 .. n /\ D \subseteq 1 .. n - 1 BY <1>2, <1>8 DEF Crossings
  <2>2. ASSUME NEW i \in 2 .. n - 1 PROVE i \in C <=> i \in D
    <3>1. i \in 1 .. n /\ i \in 1 .. n - 1 /\ i - 1 \in 1 .. n - 1 /\ i # 1 BY <1>2
    <3>2. Before(f, i) = f[i - 1] /\ Before(g, i) = f[i - 1] /\ g[i] = f[i]
      BY <1>2, <3>1 DEF Before
    <3> QED BY <1>2, <1>8, <3>1, <3>2 DEF Crossings
  <2>3. \A i \in 1 .. n : i # 1 /\ i # n => i \in 2 .. n - 1 BY <1>2
  <2>4. \A i \in 1 .. n - 1 : i # 1 => i \in 2 .. n - 1 BY <1>2
  <2>5. \A i \in 2 .. n - 1 : i # 1 /\ i # n BY <1>2
  <2> QED BY <1>9, <2>1, <2>2, <2>3, <2>4, <2>5
<1>15. PICK E : E = C \ {1} OBVIOUS
<1>16. /\ IsFiniteSet(E) /\ Cardinality(E) \in Nat
       /\ Cardinality(C) = Cardinality(E) + Bit(1 \in C)
  <2>1. IsFiniteSet(C) BY <1>8, CrossingsFinite
  <2> QED BY <1>15, <2>1, OneLess
<1>17. Cardinality(E) = Cardinality(E \ {n}) + Bit(n \in E) BY <1>16, OneLess
<1>18. n \in E <=> n \in C BY <1>2, <1>15
<1>19. PICK k : k = Cardinality(M) OBVIOUS
<1>20. Cardinality(C) = k + x + y
  <2>1. Bit(n \in E) = x /\ Bit(1 \in C) = y BY <1>4, <1>12, <1>13, <1>18 DEF Bit
  <2> QED BY <1>5, <1>10, <1>14, <1>15, <1>16, <1>17, <1>19, <2>1
<1>21. Cardinality(D) = k + z
  <2>1. Bit(1 \in D) = z BY <1>4, <1>11 DEF Bit
  <2> QED BY <1>10, <1>19, <2>1
<1>22. Contains(f, p) <=> (k + x + y) % 2 = 1
  <2>1. Len(f) >= 3 BY <1>2
  <2> QED BY <1>8, <1>20, <2>1, ContainsIfOdd
<1>23. Contains(g, p) <=> (k + z) % 2 = 1
  <2>1. Len(g) >= 3 BY <1>2
  <2> QED BY <1>2, <1>8, <1>21, <2>1, ContainsIfOdd
<1>24. (k + x + y) % 2 = 1 <=> ((k + z) % 2 = 1) # ((y + z + x) % 2 = 1)
  <2>1. k \in Nat BY <1>10, <1>19
  <2>2. \A a \in Nat : a % 2 \in {0, 1} /\ (a + 1) % 2 = 1 - (a % 2) /\ (a + 2) % 2 = a % 2
    OBVIOUS
  <2> HIDE DEF Bit
  <2>3. \A a \in Nat : (a + 1) + 1 = a + 2 /\ a + 0 = a OBVIOUS
  <2> QED BY <1>5, <2>1, <2>2, <2>3
<1>25. Contains(f, p) \in BOOLEAN /\ Contains(g, p) \in BOOLEAN /\ Contains(t, p) \in BOOLEAN
  BY DEF Contains
<1>26. Contains(f, p) <=> Contains(g, p) # Contains(t, p)
  BY <1>7, <1>22, <1>23, <1>24, <1>25
<1> QED BY <1>1, <1>26

-----------------------------------------------------------------------------
LEMMA FenceTypes == FenceSpec => []FenceTypeOK
<1>1. FenceInit => FenceTypeOK
  BY GridAssumption, EmptySeq DEF FenceInit, FenceTypeOK
<1>2. FenceTypeOK /\ [FenceNext]_fence => FenceTypeOK'
  <2>1. ASSUME FenceTypeOK, NEW pt \in Point, AddVertex(pt) PROVE FenceTypeOK'
    <3>1. fence' \in Seq(Point) /\ Len(fence') = Len(fence) + 1
      BY <2>1, AppendProperties DEF FenceTypeOK, AddVertex
    <3>2. Len(fence) \in Nat BY <2>1, LenProperties DEF FenceTypeOK
    <3> QED BY <2>1, <3>1, <3>2, GridAssumption DEF FenceTypeOK, AddVertex
  <2>2. ASSUME FenceTypeOK, UNCHANGED fence PROVE FenceTypeOK'
    BY <2>2 DEF FenceTypeOK
  <2> QED BY <2>1, <2>2 DEF FenceNext
<1> QED BY <1>1, <1>2, PTL DEF FenceSpec

(* For every triangle and every point, on any grid, counting crossings     *)
(* agrees with the sides of the edges (Contains).                          *)
THEOREM TrianglesAreExact == FenceSpec => []TrianglesByTheirSides
<1>1. FenceTypeOK => TrianglesByTheirSides
  BY TriangleSides DEF FenceTypeOK, TrianglesByTheirSides
<1> QED BY <1>1, FenceTypes, PTL

(* Whatever the shape of a fence and however many vertices it has, cutting *)
(* one off splits it in two without gap or overlap (NewPolygon, Contains). *)
THEOREM FencesAreSumsOfTriangles == FenceSpec => []CutsLoseNothing
<1>1. FenceTypeOK => CutsLoseNothing
  BY CutParity DEF FenceTypeOK, CutsLoseNothing
<1> QED BY <1>1, FenceTypes, PTL

-----------------------------------------------------------------------------
(* Sums.  SumFunction is a fold, over an order of its own choosing.  That  *)
(* it adds up to the total for every finite set and every function is      *)
(* shown by induction on the size of the set, and so is the existence of   *)
(* the table of totals (Totals): the least size at which it would fail,    *)
(* if there were one, is not the least.                                    *)

(* Every set of naturals has a least element. *)
LEMMA Least ==
  ASSUME NEW T \in SUBSET Nat, T # {}
  PROVE  \E n \in T : \A m \in T : n <= m
<1>1. PICK R : R = OpToRel(<, Nat) OBVIOUS
<1>2. IsWellFoundedOn(R, Nat) BY <1>1, NatLessThanWellFounded
<1>3. PICK n \in T : \A m \in T : ~ (<<m, n>> \in R) BY <1>2, WFMin
<1>4. \A x, y \in Nat : x < y => <<x, y>> \in R BY <1>1 DEF OpToRel
<1>5. \A m \in T : ~ (m < n) BY <1>3, <1>4
<1>6. \A m \in T : n <= m BY <1>5
<1> QED BY <1>6

LEMMA Induct ==
  ASSUME NEW S \in SUBSET Nat, 0 \in S, \A n \in S : n + 1 \in S
  PROVE  S = Nat
<1> SUFFICES ASSUME Nat \ S # {} PROVE FALSE OBVIOUS
<1>1. PICK n \in Nat \ S : \A m \in Nat \ S : n <= m
  <2>1. Nat \ S \in SUBSET Nat OBVIOUS
  <2> QED BY <2>1, Least
<1>2. n # 0 /\ n - 1 \in Nat OBVIOUS
<1>3. n - 1 \in S BY <1>1, <1>2
<1> QED BY <1>2, <1>3

(* total gives every part of D the sum of f over it. *)
Totals(D, f, total) ==
  /\ total \in [SUBSET D -> Int] /\ total[{}] = 0
  /\ \A s \in SUBSET D : \A x \in s : total[s] = f[x] + total[s \ {x}]

LEMMA SmallerSet ==
  ASSUME NEW s, IsFiniteSet(s), NEW x \in s
  PROVE  /\ IsFiniteSet(s \ {x}) /\ Cardinality(s) \in Nat
         /\ Cardinality(s) = Cardinality(s \ {x}) + 1
         /\ Cardinality(s \ {x}) \in Nat
<1>1. Cardinality(s) \in Nat BY FS_CardinalityType
<1>2. /\ IsFiniteSet(s \ {x})
      /\ Cardinality(s \ {x}) = Cardinality(s) - 1
  BY FS_RemoveElement
<1>3. Cardinality(s \ {x}) \in Nat BY <1>2, FS_CardinalityType
<1> QED BY <1>1, <1>2, <1>3

LEMMA TotalsExist ==
  ASSUME NEW D, IsFiniteSet(D), NEW f \in [D -> Int]
  PROVE  \E total : Totals(D, f, total)
<1> DEFINE Has(n) == \A E, g : IsFiniteSet(E) /\ Cardinality(E) = n /\ g \in [E -> Int] =>
                       \E total : Totals(E, g, total)
           S == {n \in Nat : Has(n)}
<1>1. Has(0)
  <2>1. SUFFICES ASSUME NEW E, NEW g, IsFiniteSet(E), Cardinality(E) = 0
                 PROVE  \E total : Totals(E, g, total)
    OBVIOUS
  <2>2. E = {} BY <2>1, FS_EmptySet
  <2>3. Totals(E, g, [s \in SUBSET E |-> 0]) BY <2>2 DEF Totals
  <2> QED BY <2>3
<1>2. ASSUME NEW n \in Nat, Has(n) PROVE Has(n + 1)
  <2> SUFFICES ASSUME NEW E, NEW g, IsFiniteSet(E), Cardinality(E) = n + 1, g \in [E -> Int]
               PROVE  \E total : Totals(E, g, total)
    OBVIOUS
  <2>1. PICK d : d \in E BY FS_EmptySet
  <2> DEFINE C == E \ {d}
  <2>2. IsFiniteSet(C) /\ Cardinality(C) = n BY <2>1, SmallerSet
  <2>3. [x \in C |-> g[x]] \in [C -> Int] OBVIOUS
  <2>4. PICK part : Totals(C, [x \in C |-> g[x]], part) BY <1>2, <2>2, <2>3
  <2> DEFINE total == [s \in SUBSET E |-> IF d \in s THEN g[d] + part[s \ {d}] ELSE part[s]]
  <2>5. \A s \in SUBSET E : s \ {d} \in SUBSET C /\ (d \notin s => s \in SUBSET C) OBVIOUS
  <2>6. \A s \in SUBSET E : total[s] \in Int /\ total[s] = IF d \in s THEN g[d] + part[s \ {d}] ELSE part[s]
    BY <2>1, <2>4, <2>5 DEF Totals
  <2>7. total \in [SUBSET E -> Int] /\ total[{}] = 0 BY <2>4, <2>6 DEF Totals
  <2> HIDE DEF total
  <2>8. ASSUME NEW s \in SUBSET E, NEW x \in s PROVE total[s] = g[x] + total[s \ {x}]
    <3>1. s \ {x} \in SUBSET E OBVIOUS
    <3>2. CASE x = d
      <4>1. d \notin s \ {x} BY <3>2
      <4> QED BY <2>6, <3>1, <3>2, <4>1
    <3>3. CASE x # d /\ d \in s
      <4>1. PICK t : t = s \ {d} OBVIOUS
      <4>2. t \in SUBSET C /\ x \in t /\ t \ {x} \in SUBSET C /\ (s \ {x}) \ {d} = t \ {x}
        BY <3>3, <4>1
      <4>3. part[t] = g[x] + part[t \ {x}] BY <2>4, <4>2 DEF Totals
      <4>4. part[t \ {x}] \in Int /\ g[d] \in Int /\ g[x] \in Int BY <2>4, <4>2, <3>3 DEF Totals
      <4>5. total[s] = g[d] + part[t] BY <2>6, <3>3, <4>1
      <4>6. total[s \ {x}] = g[d] + part[t \ {x}] BY <2>6, <3>1, <3>3, <4>2
      <4> QED BY <4>3, <4>4, <4>5, <4>6
    <3>4. CASE d \notin s
      <4>1. s \in SUBSET C /\ x \in C BY <3>4
      <4>2. part[s] = g[x] + part[s \ {x}] BY <2>4, <4>1 DEF Totals
      <4> QED BY <2>6, <3>1, <3>4, <4>2
    <3> QED BY <3>2, <3>3, <3>4
  <2>9. Totals(E, g, total) BY <2>7, <2>8 DEF Totals
  <2> QED BY <2>9
<1> HIDE DEF Has
<1>3. S \in SUBSET Nat /\ 0 \in S /\ \A n \in S : n + 1 \in S BY <1>1, <1>2
<1>4. S = Nat
  <2> HIDE DEF S
  <2> QED BY <1>3, Induct
<1>5. Cardinality(D) \in Nat BY FS_CardinalityType
<1>6. Has(Cardinality(D)) BY <1>4, <1>5
<1> QED BY <1>6 DEF Has

(* A sum that takes the elements in any order is the total. *)
LEMMA SumIsTotal ==
  ASSUME NEW f, IsFiniteSet(DOMAIN f), NEW total, Totals(DOMAIN f, f, total)
  PROVE  SumFunction(f) = total[DOMAIN f]
<1> DEFINE Body(g) == [s \in SUBSET DOMAIN f |->
                         IF s = {} THEN 0
                         ELSE f[CHOOSE x \in s : TRUE] + g[s \ {CHOOSE x \in s : TRUE}]]
<1>1. SumFunction(f) = (CHOOSE g : g = Body(g))[DOMAIN f]
  BY DEF SumFunction, SumFunctionOnSet, FoldFunctionOnSet, MapThenFoldSet
<1>2. total = Body(total)
  <2>1. total = [s \in SUBSET DOMAIN f |-> total[s]] BY DEF Totals
  <2>2. ASSUME NEW s \in SUBSET DOMAIN f, s # {}
        PROVE  total[s] = f[CHOOSE x \in s : TRUE] + total[s \ {CHOOSE x \in s : TRUE}]
    <3>1. PICK x : x = CHOOSE y \in s : TRUE OBVIOUS
    <3>2. x \in s BY <2>2, <3>1
    <3>3. total[s] = f[x] + total[s \ {x}] BY <3>2 DEF Totals
    <3> QED BY <3>1, <3>3
  <2>3. total[{}] = 0 BY DEF Totals
  <2> QED BY <2>1, <2>2, <2>3
<1>3. PICK iter : iter = CHOOSE g : g = Body(g) OBVIOUS
<1>4. iter = Body(iter)
  <2> HIDE DEF Body
  <2> QED BY <1>2, <1>3, Zenon
<1> DEFINE Bad == {n \in Nat : \E s \in SUBSET DOMAIN f : Cardinality(s) = n /\ iter[s] # total[s]}
<1>5. ASSUME Bad # {} PROVE FALSE
  <2>1. PICK n \in Bad : \A m \in Bad : n <= m
    <3>1. Bad \in SUBSET Nat OBVIOUS
    <3> HIDE DEF Bad
    <3> QED BY <1>5, <3>1, Least
  <2>2. PICK s \in SUBSET DOMAIN f : Cardinality(s) = n /\ iter[s] # total[s] OBVIOUS
  <2>3. IsFiniteSet(s) BY FS_Subset
  <2>4. s # {} BY <1>4, <2>2 DEF Totals
  <2>5. PICK x : x = CHOOSE y \in s : TRUE OBVIOUS
  <2>6. x \in s BY <2>4, <2>5
  <2>7. iter[s] = f[x] + iter[s \ {x}]
    <3>1. Body(iter)[s] = f[x] + iter[s \ {x}] BY <2>4, <2>5
    <3> QED BY <1>4, <3>1
  <2>8. total[s] = f[x] + total[s \ {x}] BY <2>6 DEF Totals
  <2>9. iter[s \ {x}] # total[s \ {x}] BY <2>2, <2>7, <2>8
  <2>10. Cardinality(s \ {x}) \in Nat /\ Cardinality(s \ {x}) < n BY <2>2, <2>3, <2>6, SmallerSet
  <2>11. Cardinality(s \ {x}) \in Bad BY <2>9, <2>10
  <2>12. n \in Nat OBVIOUS
  <2> HIDE DEF Bad
  <2>13. n <= Cardinality(s \ {x}) BY <2>1, <2>11
  <2> QED BY <2>10, <2>12, <2>13
<1>6. Cardinality(DOMAIN f) \in Nat /\ DOMAIN f \in SUBSET DOMAIN f BY FS_CardinalityType
<1>7. iter[DOMAIN f] = total[DOMAIN f] BY <1>5, <1>6
<1> QED BY <1>1, <1>3, <1>7

-----------------------------------------------------------------------------
(* What sums of the same numbers have to do with each other: parts of a    *)
(* set, other names for its elements, linear combinations, and sums over   *)
(* pairs.                                                                  *)

LEMMA TotalIsInt ==
  ASSUME NEW D, NEW f, NEW total, Totals(D, f, total), NEW s \in SUBSET D
  PROVE  total[s] \in Int
BY DEF Totals

(* Parts that add up, one element at a time, to G[D]. *)
LEMMA SumBySteps ==
  ASSUME NEW D, IsFiniteSet(D), NEW f \in [D -> Int], NEW G \in [SUBSET D -> Int],
         G[{}] = 0, \A s \in SUBSET D : \A x \in s : G[s] = f[x] + G[s \ {x}]
  PROVE  SumFunction(f) = G[D]
<1>1. DOMAIN f = D OBVIOUS
<1>2. Totals(DOMAIN f, f, G) BY <1>1 DEF Totals
<1> QED BY <1>1, <1>2, SumIsTotal

LEMMA SumIsInt ==
  ASSUME NEW D, IsFiniteSet(D), NEW f \in [D -> Int]
  PROVE  SumFunction(f) \in Int
<1>1. PICK total : Totals(D, f, total) BY TotalsExist
<1>2. DOMAIN f = D OBVIOUS
<1>3. SumFunction(f) = total[D] BY <1>1, <1>2, SumIsTotal
<1>4. D \in SUBSET D OBVIOUS
<1> QED BY <1>1, <1>3, <1>4, TotalIsInt

LEMMA SumOfNone ==
  ASSUME NEW f \in [{} -> Int]
  PROVE  SumFunction(f) = 0
<1>1. IsFiniteSet({}) BY FS_EmptySet
<1> DEFINE G == [s \in SUBSET {} |-> 0]
<1>2. G \in [SUBSET {} -> Int] /\ G[{}] = 0 OBVIOUS
<1>3. \A s \in SUBSET {} : \A x \in s : G[s] = f[x] + G[s \ {x}] OBVIOUS
<1> HIDE DEF G
<1> QED BY <1>1, <1>2, <1>3, SumBySteps

(* The totals of f restricted to a part of its domain. *)
LEMMA TotalsOfPart ==
  ASSUME NEW D, NEW f \in [D -> Int], NEW total, Totals(D, f, total), NEW A \in SUBSET D,
         IsFiniteSet(D)
  PROVE  SumFunction([x \in A |-> f[x]]) = total[A]
<1> DEFINE G == [s \in SUBSET A |-> total[s]]
           g == [x \in A |-> f[x]]
<1>1. IsFiniteSet(A) BY FS_Subset
<1>2. g \in [A -> Int] OBVIOUS
<1>3. \A s \in SUBSET A : s \in SUBSET D OBVIOUS
<1>4. G \in [SUBSET A -> Int] /\ G[{}] = 0 BY <1>3 DEF Totals
<1>5. ASSUME NEW s \in SUBSET A, NEW x \in s PROVE G[s] = g[x] + G[s \ {x}]
  <2>1. s \in SUBSET D /\ s \ {x} \in SUBSET A /\ x \in A OBVIOUS
  <2>2. total[s] = f[x] + total[s \ {x}] BY <2>1 DEF Totals
  <2> QED BY <2>1, <2>2
<1>6. G[A] = total[A] OBVIOUS
<1> HIDE DEF G, g
<1>7. SumFunction(g) = G[A] BY <1>1, <1>2, <1>4, <1>5, SumBySteps
<1> QED BY <1>6, <1>7 DEF g

(* The sum over the union of two parts. *)
LEMMA SumOfParts ==
  ASSUME NEW D, IsFiniteSet(D), NEW f \in [D -> Int], NEW A \in SUBSET D
  PROVE  SumFunction(f) = SumFunction([x \in A |-> f[x]]) + SumFunction([x \in D \ A |-> f[x]])
<1> DEFINE B == D \ A
           g == [x \in B |-> f[x]]
<1>1. PICK total : Totals(D, f, total) BY TotalsExist
<1> DEFINE G == [s \in SUBSET B |-> total[A \cup s] - total[A]]
<1>2. IsFiniteSet(B) BY FS_Subset
<1>3. g \in [B -> Int] OBVIOUS
<1>4. \A s \in SUBSET B : A \cup s \in SUBSET D OBVIOUS
<1>5. \A s \in SUBSET B : total[A \cup s] \in Int BY <1>1, <1>4, TotalIsInt
<1>6. total[A] \in Int BY <1>1, TotalIsInt
<1>7. G \in [SUBSET B -> Int] BY <1>5, <1>6
<1>8. G[{}] = 0
  <2>1. A \cup {} = A OBVIOUS
  <2>2. G[{}] = total[A] - total[A] BY <2>1
  <2> QED BY <1>6, <2>2
<1>9. ASSUME NEW s \in SUBSET B, NEW x \in s PROVE G[s] = g[x] + G[s \ {x}]
  <2>1. A \cup s \in SUBSET D /\ x \in A \cup s /\ (A \cup s) \ {x} = A \cup (s \ {x})
    OBVIOUS
  <2>2. total[A \cup s] = f[x] + total[A \cup (s \ {x})] BY <1>1, <2>1 DEF Totals
  <2>3. s \ {x} \in SUBSET B /\ f[x] \in Int /\ g[x] = f[x] OBVIOUS
  <2>4. total[A \cup (s \ {x})] \in Int BY <1>5, <2>3
  <2>5. G[s] = total[A \cup s] - total[A] OBVIOUS
  <2>6. G[s \ {x}] = total[A \cup (s \ {x})] - total[A] BY <2>3
  <2> HIDE DEF G, g, B
  <2> QED BY <1>6, <2>2, <2>3, <2>4, <2>5, <2>6
<1>10. G[B] = total[D] - total[A]
  <2>1. A \cup B = D OBVIOUS
  <2>2. B \in SUBSET B OBVIOUS
  <2> QED BY <2>1, <2>2
<1> HIDE DEF G
<1>11. SumFunction(g) = G[B]
  <2> HIDE DEF g, B
  <2> QED BY <1>2, <1>3, <1>7, <1>8, <1>9, SumBySteps
<1>12. SumFunction([x \in A |-> f[x]]) = total[A] BY <1>1, TotalsOfPart
<1>13. SumFunction(f) = total[D] 
  <2>1. DOMAIN f = D OBVIOUS
  <2> QED BY <1>1, <2>1, SumIsTotal
<1>14. total[D] \in Int
  <2>1. D \in SUBSET D OBVIOUS
  <2> QED BY <1>1, <2>1, TotalIsInt
<1> QED BY <1>6, <1>10, <1>11, <1>12, <1>13, <1>14

(* The order in which the elements are named does not matter. *)
LEMMA SumRenamed ==
  ASSUME NEW D, IsFiniteSet(D), NEW E, IsFiniteSet(E), NEW f \in [D -> Int],
         NEW p \in Bijection(E, D), NEW g \in [E -> Int], \A e \in E : g[e] = f[p[e]]
  PROVE  SumFunction(g) = SumFunction(f)
<1> DEFINE Image(s) == {p[e] : e \in s}
<1>1. PICK total : Totals(D, f, total) BY TotalsExist
<1>2. /\ p \in [E -> D]
      /\ \A a, b \in E : p[a] = p[b] => a = b
      /\ \A d \in D : \E e \in E : p[e] = d
  BY Fun_BijectionProperties
<1> DEFINE G == [s \in SUBSET E |-> total[Image(s)]]
<1>3. \A s \in SUBSET E : Image(s) \in SUBSET D BY <1>2
<1>5. G \in [SUBSET E -> Int] BY <1>1, <1>3, TotalIsInt
<1>6. G[{}] = 0
  <2>1. Image({}) = {} OBVIOUS
  <2>2. G[{}] = total[Image({})] OBVIOUS
  <2> QED BY <1>1, <2>1, <2>2 DEF Totals
<1>7. ASSUME NEW s \in SUBSET E, NEW x \in s PROVE G[s] = g[x] + G[s \ {x}]
  <2>1. Image(s) \in SUBSET D /\ p[x] \in Image(s) BY <1>3
  <2>2. Image(s) \ {p[x]} = Image(s \ {x}) BY <1>2
  <2>3. total[Image(s)] = f[p[x]] + total[Image(s) \ {p[x]}] BY <1>1, <2>1 DEF Totals
  <2>4. s \ {x} \in SUBSET E /\ x \in E OBVIOUS
  <2>5. G[s] = total[Image(s)] /\ G[s \ {x}] = total[Image(s \ {x})] /\ g[x] = f[p[x]]
    BY <2>4
  <2> HIDE DEF G, Image
  <2> QED BY <2>2, <2>3, <2>5
<1>8. G[E] = total[D]
  <2>1. Image(E) = D BY <1>2
  <2>2. E \in SUBSET E OBVIOUS
  <2> QED BY <2>1, <2>2
<1> HIDE DEF G
<1>9. SumFunction(g) = G[E]
  <2>1. \A s \in SUBSET E : \A x \in s : G[s] = g[x] + G[s \ {x}] BY <1>7
  <2> QED BY <1>5, <1>6, <2>1, SumBySteps
<1>10. SumFunction(f) = total[D]
  <2>1. DOMAIN f = D OBVIOUS
  <2> QED BY <1>1, <2>1, SumIsTotal
<1> QED BY <1>8, <1>9, <1>10

LEMMA Distributes ==
  ASSUME NEW a \in Int, NEW x \in Int, NEW y \in Int
  PROVE  a * (x + y) = a * x + a * y
OBVIOUS

(* The sum is linear. *)
LEMMA SumIsLinear ==
  ASSUME NEW D, IsFiniteSet(D), NEW f \in [D -> Int], NEW g \in [D -> Int],
         NEW a \in Int, NEW b \in Int,
         NEW h \in [D -> Int], \A x \in D : h[x] = a * f[x] + b * g[x]
  PROVE  SumFunction(h) = a * SumFunction(f) + b * SumFunction(g)
<1>1. PICK F : Totals(D, f, F) BY TotalsExist
<1>2. PICK H : Totals(D, g, H) BY TotalsExist
<1> DEFINE G == [s \in SUBSET D |-> a * F[s] + b * H[s]]
<1>3. \A s \in SUBSET D : F[s] \in Int /\ H[s] \in Int BY <1>1, <1>2, TotalIsInt
<1>4. G \in [SUBSET D -> Int] BY <1>3
<1>5. G[{}] = 0
  <2>1. F[{}] = 0 /\ H[{}] = 0 BY <1>1, <1>2 DEF Totals
  <2>2. G[{}] = a * F[{}] + b * H[{}] OBVIOUS
  <2> QED BY <2>1, <2>2
<1>6. ASSUME NEW s \in SUBSET D, NEW x \in s PROVE G[s] = h[x] + G[s \ {x}]
  <2>1. x \in D /\ s \ {x} \in SUBSET D OBVIOUS
  <2>2. F[s] = f[x] + F[s \ {x}] /\ H[s] = g[x] + H[s \ {x}] BY <1>1, <1>2 DEF Totals
  <2>3. f[x] \in Int /\ g[x] \in Int /\ F[s \ {x}] \in Int /\ H[s \ {x}] \in Int
    BY <1>3, <2>1
  <2>4. a * F[s] = a * f[x] + a * F[s \ {x}] BY <2>2, <2>3, Distributes
  <2>5. b * H[s] = b * g[x] + b * H[s \ {x}] BY <2>2, <2>3, Distributes
  <2>6. G[s] = a * F[s] + b * H[s] /\ G[s \ {x}] = a * F[s \ {x}] + b * H[s \ {x}]
        /\ h[x] = a * f[x] + b * g[x]
    BY <2>1
  <2>7. a * f[x] \in Int /\ a * F[s \ {x}] \in Int /\ b * g[x] \in Int /\ b * H[s \ {x}] \in Int
    BY <2>3
  <2> HIDE DEF G
  <2> QED BY <2>4, <2>5, <2>6, <2>7
<1>7. G[D] = a * F[D] + b * H[D]
  <2>1. D \in SUBSET D OBVIOUS
  <2> QED BY <2>1
<1>8. SumFunction(f) = F[D] /\ SumFunction(g) = H[D]
  <2>1. DOMAIN f = D /\ DOMAIN g = D OBVIOUS
  <2> QED BY <1>1, <1>2, <2>1, SumIsTotal
<1> HIDE DEF G
<1>9. SumFunction(h) = G[D]
  <2>1. \A s \in SUBSET D : \A x \in s : G[s] = h[x] + G[s \ {x}] BY <1>6
  <2>2. IsFiniteSet(D) /\ h \in [D -> Int] OBVIOUS
  <2> QED BY ONLY <1>4, <1>5, <2>1, <2>2, SumBySteps, ZenonT(30)
<1> QED BY <1>7, <1>8, <1>9

LEMMA SumAdds ==
  ASSUME NEW D, IsFiniteSet(D), NEW f \in [D -> Int], NEW g \in [D -> Int],
         NEW h \in [D -> Int], \A x \in D : h[x] = f[x] + g[x]
  PROVE  SumFunction(h) = SumFunction(f) + SumFunction(g)
<1>1. PICK one : one = 1 OBVIOUS
<1>2. \A e \in Int : one * e = e BY <1>1
<1>3. one \in Int BY <1>1
<1>4. \A x \in D : h[x] = one * f[x] + one * g[x]
  <2>1. \A x \in D : f[x] \in Int /\ g[x] \in Int OBVIOUS
  <2> QED BY <1>2, <2>1, Zenon
<1>5. SumFunction(h) = one * SumFunction(f) + one * SumFunction(g)
  BY <1>3, <1>4, SumIsLinear
<1>6. SumFunction(f) \in Int /\ SumFunction(g) \in Int BY SumIsInt
<1> QED BY <1>2, <1>5, <1>6

(* The sum of a constant. *)
LEMMA SumOfSame ==
  ASSUME NEW D, IsFiniteSet(D), NEW c \in Int, NEW h \in [D -> Int], \A x \in D : h[x] = c
  PROVE  SumFunction(h) = c * Cardinality(D)
<1> DEFINE G == [s \in SUBSET D |-> c * Cardinality(s)]
<1>1. \A s \in SUBSET D : IsFiniteSet(s) BY FS_Subset
<1>2. \A s \in SUBSET D : Cardinality(s) \in Int
  <2>1. \A s \in SUBSET D : Cardinality(s) \in Nat BY <1>1, FS_CardinalityType
  <2> QED BY <2>1
<1>3. G \in [SUBSET D -> Int] BY <1>2
<1>4. G[{}] = 0
  <2>1. Cardinality({}) = 0 BY FS_EmptySet
  <2> QED BY <2>1
<1>5. ASSUME NEW s \in SUBSET D, NEW x \in s PROVE G[s] = h[x] + G[s \ {x}]
  <2>1. x \in D /\ s \ {x} \in SUBSET D /\ IsFiniteSet(s) BY <1>1
  <2>2. Cardinality(s) = Cardinality(s \ {x}) + 1 /\ Cardinality(s \ {x}) \in Nat
    BY <2>1, SmallerSet
  <2>3. c * Cardinality(s) = c * Cardinality(s \ {x}) + c * 1 BY <2>2, Distributes
  <2>4. G[s] = c * Cardinality(s) /\ G[s \ {x}] = c * Cardinality(s \ {x}) /\ h[x] = c
    BY <2>1
  <2>5. c * Cardinality(s \ {x}) \in Int BY <2>2
  <2> HIDE DEF G
  <2> QED BY <2>3, <2>4, <2>5
<1>6. G[D] = c * Cardinality(D)
  <2>1. D \in SUBSET D OBVIOUS
  <2> QED BY <2>1
<1> HIDE DEF G
<1>7. SumFunction(h) = G[D]
  <2>1. \A s \in SUBSET D : \A x \in s : G[s] = h[x] + G[s \ {x}] BY <1>5
  <2>2. IsFiniteSet(D) /\ h \in [D -> Int] OBVIOUS
  <2> QED BY ONLY <1>3, <1>4, <2>1, <2>2, SumBySteps, ZenonT(30)
<1> QED BY <1>6, <1>7

(* f is a table with a number for every pair, h has the sum of each row. *)
RowSums(D, f, h) ==
  /\ f \in [D \X D -> Int] /\ h \in [D -> Int]
  /\ \A x \in D : h[x] = SumFunction([y \in D |-> f[<<x, y>>]])

(* A sum over pairs is taken row by row. *)
LEMMA SumOfPairs ==
  ASSUME NEW D, IsFiniteSet(D), NEW f, NEW h, RowSums(D, f, h)
  PROVE  SumFunction(f) = SumFunction(h)
<1>0. /\ f \in [D \X D -> Int] /\ h \in [D -> Int]
      /\ \A x \in D : h[x] = SumFunction([y \in D |-> f[<<x, y>>]])
  BY DEF RowSums
<1>1. IsFiniteSet(D \X D) BY FS_Product
<1> DEFINE Row(x) == SumFunction([y \in D |-> f[<<x, y>>]])
           Part(A) == SumFunction([z \in A |-> f[z]])
           G == [s \in SUBSET D |-> Part(s \X D)]
<1>2. ASSUME NEW A \in SUBSET (D \X D) PROVE Part(A) \in Int
  <2>1. [z \in A |-> f[z]] \in [A -> Int] BY <1>0
  <2>2. IsFiniteSet(A) BY <1>1, FS_Subset
  <2> QED BY <2>1, <2>2, SumIsInt
<1>3. \A s \in SUBSET D : s \X D \in SUBSET (D \X D) OBVIOUS
<1>4. G \in [SUBSET D -> Int]
  <2> HIDE DEF Part
  <2> QED BY <1>2, <1>3
<1>5. G[{}] = 0
  <2>1. {} \X D = {} OBVIOUS
  <2>2. [z \in {} |-> f[z]] \in [{} -> Int] OBVIOUS
  <2>3. Part({}) = 0 BY <2>2, SumOfNone
  <2>4. G[{}] = Part({} \X D) OBVIOUS
  <2> HIDE DEF Part, G
  <2> QED BY <2>1, <2>3, <2>4
<1>6. ASSUME NEW s \in SUBSET D, NEW x \in s PROVE G[s] = h[x] + G[s \ {x}]
  <2> DEFINE A == s \X D
             B == {x} \X D
             g == [z \in A |-> f[z]]
  <2>1. x \in D /\ s \ {x} \in SUBSET D /\ B \in SUBSET A /\ A \ B = (s \ {x}) \X D
    OBVIOUS
  <2>2. IsFiniteSet(A) /\ g \in [A -> Int] BY <1>0, <1>1, <1>3, FS_Subset
  <2>3. SumFunction(g) = SumFunction([z \in B |-> g[z]]) + SumFunction([z \in A \ B |-> g[z]])
    <3> HIDE DEF A, B, g
    <3>1. IsFiniteSet(A) /\ g \in [A -> Int] /\ B \in SUBSET A BY <2>1, <2>2
    <3> QED BY ONLY <3>1, SumOfParts, ZenonT(30)
  <2>4. [z \in B |-> g[z]] = [z \in B |-> f[z]] /\ [z \in A \ B |-> g[z]] = [z \in A \ B |-> f[z]]
    OBVIOUS
  <2>5. Part(A) = Part(B) + Part((s \ {x}) \X D) BY <2>1, <2>3, <2>4
  <2>6. Part(B) = Row(x)
    <3> DEFINE r == [z \in B |-> f[z]]
               p == [y \in D |-> <<x, y>>]
    <3>1. r \in [B -> Int] /\ IsFiniteSet(B) BY <2>1, <2>2, FS_Subset
    <3>2. p \in Bijection(D, B)
      <4>1. p \in [D -> B] /\ (\A a, b \in D : p[a] = p[b] => a = b) /\ \A d \in B : \E e \in D : p[e] = d
        OBVIOUS
      <4> HIDE DEF p, B
      <4> QED BY <4>1, Fun_IsBij
    <3> DEFINE e == [y \in D |-> f[<<x, y>>]]
    <3>3. e \in [D -> Int] /\ \A y \in D : e[y] = r[p[y]] BY <1>0, <2>1
    <3>4. SumFunction(e) = SumFunction(r)
      <4> HIDE DEF r, p, B, e
      <4>1. IsFiniteSet(D) OBVIOUS
      <4> QED BY ONLY <3>1, <3>2, <3>3, <4>1, SumRenamed, SMTT(30)
    <3> QED BY <3>4
  <2>7. G[s] = Part(A) /\ G[s \ {x}] = Part((s \ {x}) \X D) /\ h[x] = Row(x)
    <3> HIDE DEF Part
    <3> QED BY <2>1 DEF RowSums
  <2> HIDE DEF Part, Row, G, A, B
  <2> QED BY <2>5, <2>6, <2>7
<1>7. G[D] = Part(D \X D)
  <2>1. D \in SUBSET D OBVIOUS
  <2> HIDE DEF Part
  <2> QED BY <2>1
<1>8. Part(D \X D) = SumFunction(f)
  <2>1. [z \in D \X D |-> f[z]] = f BY <1>0
  <2> QED BY <2>1
<1>9. SumFunction(h) = G[D]
  <2> HIDE DEF G
  <2>1. \A s \in SUBSET D : \A x \in s : G[s] = h[x] + G[s \ {x}] BY <1>6
  <2>2. IsFiniteSet(D) /\ h \in [D -> Int] BY <1>0
  <2> QED BY ONLY <1>4, <1>5, <2>1, <2>2, SumBySteps, ZenonT(30)
<1> HIDE DEF G
<1> QED BY <1>7, <1>8, <1>9

-----------------------------------------------------------------------------
(* Rings.  The detector keeps its window, and the histogram its samples,   *)
(* in a buffer that is filled and then overwritten in turn.  Unrolled from *)
(* the slot that is next, a ring is the last values in the order they      *)
(* came, and a reordering of the buffer.                                   *)

(* The values of a ring, oldest first, when k is overwritten next. *)
Unroll(b, k) == SubSeq(b, k + 1, Len(b)) \o SubSeq(b, 1, k)

LEMMA UnrollElements ==
  ASSUME NEW V, NEW b \in Seq(V), NEW k \in 0 .. Len(b)
  PROVE  /\ Unroll(b, k) \in Seq(V) /\ Len(Unroll(b, k)) = Len(b)
         /\ \A i \in 1 .. Len(b) :
              Unroll(b, k)[i] = IF k + i <= Len(b) THEN b[k + i] ELSE b[k + i - Len(b)]
<1> DEFINE s == SubSeq(b, k + 1, Len(b))
           t == SubSeq(b, 1, k)
<1>1. Len(b) \in Nat /\ k \in Nat /\ k <= Len(b) OBVIOUS
<1>2. /\ s \in Seq(V) /\ Len(s) = Len(b) - k
      /\ \A i \in 1 .. Len(b) - k : s[i] = b[k + i]
  BY <1>1, SubSeqProperties
<1>3. t \in Seq(V) /\ Len(t) = k /\ \A i \in 1 .. k : t[i] = b[i]
  BY <1>1, SubSeqProperties
<1>4. Unroll(b, k) = s \o t BY DEF Unroll
<1> HIDE DEF s, t
<1>5. /\ s \o t \in Seq(V) /\ Len(s \o t) = Len(b)
      /\ \A i \in 1 .. Len(b) : (s \o t)[i] = IF i <= Len(s) THEN s[i] ELSE t[i - Len(s)]
  BY <1>1, <1>2, <1>3, ConcatProperties
<1>6. ASSUME NEW i \in 1 .. Len(b)
      PROVE  (s \o t)[i] = IF k + i <= Len(b) THEN b[k + i] ELSE b[k + i - Len(b)]
  <2>1. CASE i <= Len(b) - k BY <1>1, <1>2, <1>5, <2>1
  <2>2. CASE ~ (i <= Len(b) - k)
    <3>1. i - Len(s) \in 1 .. k /\ i - Len(s) = k + i - Len(b) BY <1>1, <1>2, <2>2
    <3> QED BY <1>1, <1>2, <1>3, <1>5, <2>2, <3>1
  <2> QED BY <2>1, <2>2
<1> QED BY <1>4, <1>5, <1>6

LEMMA UnrollPermutes ==
  ASSUME NEW V, NEW b \in Seq(V), NEW k \in Nat, k < Len(b) \/ k = 0
  PROVE  \E p \in Bijection(1 .. Len(b), 1 .. Len(b)) :
           Unroll(b, k) = [i \in 1 .. Len(b) |-> b[p[i]]]
<1> DEFINE n == Len(b)
           p == [i \in 1 .. n |-> IF k + i <= n THEN k + i ELSE k + i - n]
<1>1. n \in Nat /\ k \in 0 .. n OBVIOUS
<1>2. p \in [1 .. n -> 1 .. n] OBVIOUS
<1>3. \A i, j \in 1 .. n : p[i] = p[j] => i = j BY <1>1
<1>4. ASSUME NEW j \in 1 .. n PROVE \E i \in 1 .. n : p[i] = j
  <2>1. CASE j > k
    <3>1. j - k \in 1 .. n /\ p[j - k] = j BY <1>1, <2>1
    <3> QED BY <3>1
  <2>2. CASE j <= k
    <3>1. j - k + n \in 1 .. n /\ p[j - k + n] = j BY <1>1, <2>2
    <3> QED BY <3>1
  <2> QED BY <1>1, <2>1, <2>2
<1>5. p \in Bijection(1 .. n, 1 .. n)
  <2> HIDE DEF p, n
  <2> QED BY <1>2, <1>3, <1>4, Fun_IsBij
<1>6. /\ Unroll(b, k) \in Seq(V) /\ Len(Unroll(b, k)) = n
      /\ \A i \in 1 .. n : Unroll(b, k)[i] = IF k + i <= n THEN b[k + i] ELSE b[k + i - n]
  BY <1>1, UnrollElements
<1>7. \A i \in 1 .. n : Unroll(b, k)[i] = b[p[i]] BY <1>6
<1>8. Unroll(b, k) = [i \in 1 .. n |-> Unroll(b, k)[i]] BY <1>6
<1>9. Unroll(b, k) = [i \in 1 .. n |-> b[p[i]]] BY <1>7, <1>8
<1> HIDE DEF p
<1> QED BY <1>5, <1>9

(* b with v in slot k is d, and the slot after k, around the end, is m. *)
Overwritten(b, k, v, d, m) ==
  /\ Len(d) = Len(b) /\ m = IF k + 1 < Len(b) THEN k + 1 ELSE 0
  /\ \A i \in 1 .. Len(b) : d[i] = IF i = k + 1 THEN v ELSE b[i]

LEMMA SlotOverwritten ==
  ASSUME NEW V, NEW b \in Seq(V), NEW k \in 0 .. Len(b) - 1, NEW v \in V
  PROVE  /\ [b EXCEPT ![k + 1] = v] \in Seq(V)
         /\ Overwritten(b, k, v, [b EXCEPT ![k + 1] = v], (k + 1) % Len(b))
<1> DEFINE d == [b EXCEPT ![k + 1] = v]
<1>0. d \in Seq(V) /\ Len(d) = Len(b) /\ \A i \in 1 .. Len(b) : d[i] = IF i = k + 1 THEN v ELSE b[i]
  OBVIOUS
<1> HIDE DEF d
<1>1. PICK c : c = Len(b) OBVIOUS
<1>2. c \in Nat /\ k \in 0 .. c - 1 BY <1>1
<1>3. (k + 1) % c = IF k + 1 < c THEN k + 1 ELSE 0
  <2>1. CASE k + 1 < c BY <1>2, <2>1
  <2>2. CASE ~ (k + 1 < c)
    <3>1. k + 1 = c BY <1>2, <2>2
    <3>2. c % c = 0 BY <1>2
    <3> QED BY <2>2, <3>1, <3>2
  <2> QED BY <2>1, <2>2
<1>4. Overwritten(b, k, v, d, (k + 1) % Len(b)) BY <1>0, <1>1, <1>3 DEF Overwritten
<1> QED BY <1>0, <1>4 DEF d

(* A full ring of c slots: overwriting the oldest value slides the window. *)
LEMMA RingSlides ==
  ASSUME NEW V, NEW c \in Nat \ {0}, NEW b \in Seq(V), Len(b) = c, NEW k \in 0 .. c - 1, NEW v \in V,
         NEW d \in Seq(V), NEW m, Overwritten(b, k, v, d, m)
  PROVE  Unroll(d, m) = Append(Tail(Unroll(b, k)), v)
<1> DEFINE u == Unroll(b, k)
<1>1. /\ d \in Seq(V) /\ Len(d) = c /\ \A i \in 1 .. c : d[i] = IF i = k + 1 THEN v ELSE b[i]
  BY DEF Overwritten
<1>2. m = IF k + 1 < c THEN k + 1 ELSE 0 BY DEF Overwritten
<1>3. m \in 0 .. c - 1 /\ m \in 0 .. Len(d) /\ k \in 0 .. Len(b) BY <1>1, <1>2
<1>4. /\ Unroll(d, m) \in Seq(V) /\ Len(Unroll(d, m)) = c
      /\ \A i \in 1 .. c : Unroll(d, m)[i] = IF m + i <= c THEN d[m + i] ELSE d[m + i - c]
  <2>1. d \in Seq(V) /\ Len(d) = c /\ m \in 0 .. Len(d) BY <1>1, <1>3
  <2> QED BY ONLY <2>1, UnrollElements
<1>5. /\ u \in Seq(V) /\ Len(u) = c
      /\ \A i \in 1 .. c : u[i] = IF k + i <= c THEN b[k + i] ELSE b[k + i - c]
  <2>1. b \in Seq(V) /\ Len(b) = c /\ k \in 0 .. Len(b) BY <1>3
  <2> QED BY ONLY <2>1, UnrollElements
<1> HIDE DEF u
<1>6. /\ Tail(u) \in Seq(V) /\ Len(Tail(u)) = c - 1
      /\ \A i \in 1 .. c - 1 : Tail(u)[i] = u[i + 1]
  <2>1. u # << >> BY <1>5
  <2> QED BY <1>5, <2>1, HeadTailProperties
<1>7. /\ Append(Tail(u), v) \in Seq(V) /\ Len(Append(Tail(u), v)) = c
      /\ \A i \in 1 .. c : Append(Tail(u), v)[i] = IF i < c THEN u[i + 1] ELSE v
  BY <1>6, AppendProperties
<1>8. ASSUME NEW i \in 1 .. c PROVE Unroll(d, m)[i] = Append(Tail(u), v)[i]
  <2>1. CASE k + 1 < c
    <3>1. m = k + 1 BY <1>2, <2>1
    <3>2. CASE i = c
      <4>1. Unroll(d, m)[i] = d[k + 1] BY <1>4, <2>1, <3>1, <3>2
      <4>2. k + 1 \in 1 .. c OBVIOUS
      <4> QED BY <1>1, <1>7, <3>2, <4>1, <4>2
    <3>3. CASE i < c
      <4>1. Append(Tail(u), v)[i] = IF k + i + 1 <= c THEN b[k + i + 1] ELSE b[k + i + 1 - c]
        BY <1>5, <1>7, <3>3
      <4>2. Unroll(d, m)[i] = IF k + i + 1 <= c THEN d[k + i + 1] ELSE d[k + i + 1 - c]
        <5>1. m \in Int /\ i \in Int /\ k \in Int /\ c \in Int BY <1>3
        <5>2. m + i = k + i + 1 /\ m + i - c = k + i + 1 - c BY <3>1, <5>1
        <5>3. CASE k + i + 1 <= c BY <1>4, <5>2, <5>3
        <5>4. CASE ~ (k + i + 1 <= c) BY <1>4, <5>2, <5>4
        <5> QED BY <5>3, <5>4
      <4>3. CASE k + i + 1 <= c
        <5>1. k + i + 1 \in 1 .. c /\ k + i + 1 # k + 1 BY <4>3
        <5>2. d[k + i + 1] = b[k + i + 1] BY <1>1, <5>1
        <5> QED BY ONLY <4>1, <4>2, <4>3, <5>2, Zenon
      <4>4. CASE ~ (k + i + 1 <= c)
        <5>1. k + i + 1 - c \in 1 .. c /\ k + i + 1 - c # k + 1 BY <3>3, <4>4
        <5>2. d[k + i + 1 - c] = b[k + i + 1 - c] BY <1>1, <5>1
        <5> QED BY ONLY <4>1, <4>2, <4>4, <5>2, Zenon
      <4> QED BY <4>3, <4>4
    <3>4. i = c \/ i < c OBVIOUS
    <3> QED BY ONLY <3>2, <3>3, <3>4, Zenon
  <2>2. CASE ~ (k + 1 < c)
    <3>1. m = 0 /\ k = c - 1 BY <1>2, <2>2
    <3>2. Unroll(d, m)[i] = d[i] BY <1>4, <3>1
    <3>3. CASE i < c
      <4>1. Append(Tail(u), v)[i] = b[i] BY <1>5, <1>7, <3>1, <3>3
      <4>2. i # k + 1 BY <3>1, <3>3
      <4>3. d[i] = b[i] BY <1>1, <4>2
      <4> QED BY ONLY <3>2, <4>1, <4>3, Zenon
    <3>4. CASE i = c BY <1>1, <1>7, <3>1, <3>2, <3>4
    <3>5. i = c \/ i < c OBVIOUS
    <3> QED BY ONLY <3>3, <3>4, <3>5, Zenon
  <2> QED BY <2>1, <2>2
<1>9. Unroll(d, m) = Append(Tail(u), v) BY <1>4, <1>7, <1>8, SeqEqual
<1> QED BY <1>9 DEF u

-----------------------------------------------------------------------------
(* The detector's arithmetic.  With n values of sum S and of squares Q,    *)
(* both the code's n^3 var (Spread) and the textbook's sum over all pairs  *)
(* come down to n Q - S^2: the one is n times this, the other twice.       *)

Squares(b) == SumFunction([i \in DOMAIN b |-> b[i] * b[i]])

LEMMA SeqFacts ==
  ASSUME NEW b \in Seq(Int)
  PROVE  /\ Len(b) \in Nat /\ DOMAIN b = 1 .. Len(b) /\ b \in [DOMAIN b -> Int]
         /\ IsFiniteSet(DOMAIN b) /\ Cardinality(DOMAIN b) = Len(b)
         /\ [i \in DOMAIN b |-> b[i] * b[i]] \in [DOMAIN b -> Int]
         /\ SumFunction(b) \in Int /\ Squares(b) \in Int
<1>1. Len(b) \in Nat /\ DOMAIN b = 1 .. Len(b) /\ b \in [DOMAIN b -> Int] OBVIOUS
<1>2. IsFiniteSet(1 .. Len(b)) /\ Cardinality(1 .. Len(b)) = IF 1 > Len(b) THEN 0 ELSE Len(b) - 1 + 1
  <2>1. 1 \in Int /\ Len(b) \in Int BY <1>1
  <2> QED BY ONLY <2>1, FS_Interval, ZenonT(30)
<1>3. IsFiniteSet(DOMAIN b) /\ Cardinality(DOMAIN b) = Len(b) BY <1>1, <1>2
<1> DEFINE q == [i \in DOMAIN b |-> b[i] * b[i]]
<1>4. q \in [DOMAIN b -> Int] BY <1>1
<1>5. SumFunction(b) \in Int BY <1>1, <1>3, SumIsInt
<1>6. SumFunction(q) \in Int
  <2> HIDE DEF q
  <2> QED BY <1>3, <1>4, SumIsInt
<1> QED BY <1>1, <1>3, <1>4, <1>5, <1>6 DEF Squares

(* A quadratic form of the elements, from their sum and that of their squares. *)
LEMMA SumOfQuadratic ==
  ASSUME NEW b \in Seq(Int), NEW x \in Int, NEW y \in Int, NEW z \in Int
  PROVE  SumFunction([i \in DOMAIN b |-> x * (b[i] * b[i]) + y * b[i] + z])
           = x * Squares(b) + y * SumFunction(b) + z * Len(b)
<1> DEFINE D == DOMAIN b
           q == [i \in D |-> b[i] * b[i]]
           h == [i \in D |-> x * q[i] + y * b[i]]
           c == [i \in D |-> z]
<1>1. /\ b \in [D -> Int] /\ IsFiniteSet(D) /\ Cardinality(D) = Len(b)
      /\ q \in [D -> Int] /\ SumFunction(b) \in Int /\ SumFunction(q) \in Int /\ Len(b) \in Nat
  BY SeqFacts DEF Squares
<1>2. SumFunction(h) = x * SumFunction(q) + y * SumFunction(b)
  <2>2. h \in [D -> Int] /\ \A i \in D : h[i] = x * q[i] + y * b[i]
    <3> HIDE DEF q, D
    <3> QED BY <1>1
  <2> HIDE DEF q, D, h
  <2>1. IsFiniteSet(D) /\ q \in [D -> Int] /\ b \in [D -> Int] /\ x \in Int /\ y \in Int
    BY <1>1
  <2> QED BY ONLY <2>1, <2>2, SumIsLinear, SMTT(30)
<1>3. h \in [D -> Int] /\ c \in [D -> Int]
  <2> HIDE DEF q, D
  <2> QED BY <1>1
<1>4. SumFunction(c) = z * Len(b)
  <2>1. IsFiniteSet(D) /\ z \in Int /\ c \in [D -> Int] /\ \A i \in D : c[i] = z BY <1>1
  <2>2. SumFunction(c) = z * Cardinality(D)
    <3> HIDE DEF D, c
    <3> QED BY ONLY <2>1, SumOfSame, ZenonT(30)
  <2> QED BY <1>1, <2>2
<1> DEFINE g == [i \in D |-> x * (b[i] * b[i]) + y * b[i] + z]
<1>5. g \in [D -> Int] /\ \A i \in D : g[i] = h[i] + c[i]
  <2>1. ASSUME NEW i \in D PROVE g[i] \in Int /\ g[i] = h[i] + c[i]
    <3>1. /\ b[i] \in Int /\ h[i] = x * (b[i] * b[i]) + y * b[i] /\ c[i] = z
          /\ g[i] = x * (b[i] * b[i]) + y * b[i] + z
      BY <1>1
    <3>2. h[i] \in Int BY <1>3
    <3> HIDE DEF g, h, c, D
    <3> QED BY <3>1, <3>2
  <2>2. g = [i \in D |-> g[i]] OBVIOUS
  <2> HIDE DEF g, h, c, D
  <2> QED BY <2>1, <2>2
<1> HIDE DEF h, c, q, g, D
<1>6. SumFunction(g) = SumFunction(h) + SumFunction(c)
  <2>1. PICK E, hh, cc, gg : E = D /\ hh = h /\ cc = c /\ gg = g OBVIOUS
  <2>2. /\ IsFiniteSet(E) /\ hh \in [E -> Int] /\ cc \in [E -> Int] /\ gg \in [E -> Int]
        /\ \A i \in E : gg[i] = hh[i] + cc[i]
    BY <1>1, <1>3, <1>5, <2>1
  <2>4. \A f1, f2, f3 \in [E -> Int] :
          (\A i \in E : f3[i] = f1[i] + f2[i]) => SumFunction(f3) = SumFunction(f1) + SumFunction(f2)
    BY ONLY <2>2, SumAdds, ZenonT(30)
  <2>3. SumFunction(gg) = SumFunction(hh) + SumFunction(cc) BY ONLY <2>2, <2>4, Zenon
  <2> QED BY <2>1, <2>3
<1>7. SumFunction(h) \in Int /\ SumFunction(c) \in Int BY <1>1, <1>3, SumIsInt
<1>8. SumFunction(g) = x * SumFunction(q) + y * SumFunction(b) + z * Len(b)
  BY <1>2, <1>4, <1>6, <1>7
<1>9. SumFunction(q) = Squares(b) BY DEF Squares, q, D
<1> QED BY <1>8, <1>9 DEF g, D

LEMMA SpreadIs ==
  ASSUME NEW b \in Seq(Int)
  PROVE  Spread(b) = Len(b) * (Len(b) * Squares(b) - SumFunction(b) * SumFunction(b))
<1> DEFINE n == Len(b)  S == SumFunction(b)  Q == Squares(b)
<1>1. n \in Int /\ S \in Int /\ Q \in Int /\ b \in [DOMAIN b -> Int] BY SeqFacts
<1> HIDE DEF n, S, Q
<1>2. \A e \in Int : (n * e - S) * (n * e - S) = (n * n) * (e * e) + (-(2 * n * S)) * e + S * S
  BY <1>1
<1>3. [i \in DOMAIN b |-> Scaled(b, b[i]) * Scaled(b, b[i])]
        = [i \in DOMAIN b |-> (n * n) * (b[i] * b[i]) + (-(2 * n * S)) * b[i] + S * S]
  <2>1. \A i \in DOMAIN b : b[i] \in Int BY <1>1
  <2>2. \A e : Scaled(b, e) = n * e - S BY DEF Scaled, Sum, n, S
  <2>3. \A i \in DOMAIN b : Scaled(b, b[i]) * Scaled(b, b[i])
                              = (n * n) * (b[i] * b[i]) + (-(2 * n * S)) * b[i] + S * S
    BY <1>2, <2>1, <2>2
  <2> QED BY <2>3
<1>4. n * n \in Int /\ -(2 * n * S) \in Int /\ S * S \in Int BY <1>1
<1>5. SumFunction([i \in DOMAIN b |-> (n * n) * (b[i] * b[i]) + (-(2 * n * S)) * b[i] + S * S])
        = (n * n) * Q + (-(2 * n * S)) * S + (S * S) * n
  BY <1>4, SumOfQuadratic DEF n, S, Q
<1>6. (n * n) * Q + (-(2 * n * S)) * S + (S * S) * n = n * (n * Q - S * S) BY <1>1
<1>7. Spread(b) = n * (n * Q - S * S) BY <1>3, <1>5, <1>6 DEF Spread
<1> QED BY <1>7 DEF n, S, Q

Pairs(w) == SumFunction([p \in (DOMAIN w) \X (DOMAIN w) |-> (w[p[1]] - w[p[2]]) * (w[p[1]] - w[p[2]])])

LEMMA PairsAre ==
  ASSUME NEW w \in Seq(Int)
  PROVE  Pairs(w) = 2 * (Len(w) * Squares(w) - SumFunction(w) * SumFunction(w))
<1> DEFINE n == Len(w)  S == SumFunction(w)  Q == Squares(w)  D == DOMAIN w
           f == [p \in D \X D |-> (w[p[1]] - w[p[2]]) * (w[p[1]] - w[p[2]])]
<1>1. n \in Int /\ S \in Int /\ Q \in Int /\ w \in [D -> Int] /\ IsFiniteSet(D) BY SeqFacts
<1>3. f \in [D \X D -> Int]
  <2>1. \A p \in D \X D : w[p[1]] \in Int /\ w[p[2]] \in Int BY <1>1
  <2> QED BY <2>1
<1> HIDE DEF n, S, Q
<1>5. ASSUME NEW x \in D
      PROVE  SumFunction([y \in D |-> f[<<x, y>>]]) = n * (w[x] * w[x]) + (-(2 * S)) * w[x] + Q
  <2>1. PICK e : e = w[x] OBVIOUS
  <2>2. e \in Int BY <1>1, <2>1
  <2>3. \A a \in Int : (e - a) * (e - a) = 1 * (a * a) + (-(2 * e)) * a + e * e BY <2>2
  <2>4. [y \in D |-> f[<<x, y>>]] = [y \in D |-> 1 * (w[y] * w[y]) + (-(2 * e)) * w[y] + e * e]
    <3>1. \A y \in D : w[y] \in Int /\ f[<<x, y>>] = (e - w[y]) * (e - w[y]) BY <1>1, <2>1
    <3>2. \A y \in D : f[<<x, y>>] = 1 * (w[y] * w[y]) + (-(2 * e)) * w[y] + e * e
      BY ONLY <2>3, <3>1, ZenonT(30)
    <3> HIDE DEF f
    <3> QED BY <3>2
  <2>5. 1 \in Int /\ -(2 * e) \in Int /\ e * e \in Int BY <2>2
  <2>6. SumFunction([y \in D |-> 1 * (w[y] * w[y]) + (-(2 * e)) * w[y] + e * e])
          = 1 * Q + (-(2 * e)) * S + (e * e) * n
    BY <2>5, SumOfQuadratic DEF n, S, Q
  <2>7. 1 * Q + (-(2 * e)) * S + (e * e) * n = n * (e * e) + (-(2 * S)) * e + Q BY <1>1, <2>2
  <2> HIDE DEF f
  <2> QED BY <2>1, <2>4, <2>6, <2>7
<1> DEFINE h == [x \in D |-> n * (w[x] * w[x]) + (-(2 * S)) * w[x] + Q]
<1>4. h \in [D -> Int] /\ \A x \in D : h[x] = SumFunction([y \in D |-> f[<<x, y>>]])
  <2>1. \A x \in D : n * (w[x] * w[x]) + (-(2 * S)) * w[x] + Q \in Int
    <3>1. \A x \in D : w[x] \in Int BY <1>1
    <3>2. \A e \in Int : n * (e * e) + (-(2 * S)) * e + Q \in Int BY <1>1
    <3> QED BY ONLY <3>1, <3>2, Zenon
  <2> HIDE DEF f, D
  <2> QED BY <1>5, <2>1
<1>6. SumFunction(f) = SumFunction(h)
  <2> HIDE DEF f, D, h
  <2>1. RowSums(D, f, h)
    <3> HIDE DEF f, h, D
    <3> QED BY <1>3, <1>4 DEF RowSums
  <2>2. IsFiniteSet(D) BY <1>1
  <2> HIDE DEF f, D, h
  <2> QED BY ONLY <2>1, <2>2, SumOfPairs, ZenonT(30)
<1>7. -(2 * S) \in Int BY <1>1
<1>8. SumFunction(h) = n * Q + (-(2 * S)) * S + Q * n
  BY <1>1, <1>7, SumOfQuadratic DEF n, S, Q
<1>9. n * Q + (-(2 * S)) * S + Q * n = 2 * (n * Q - S * S) BY <1>1
<1>10. Pairs(w) = SumFunction(f) BY DEF Pairs
<1> HIDE DEF f
<1> HIDE DEF h
<1>11. Pairs(w) = 2 * (n * Q - S * S) BY <1>6, <1>8, <1>9, <1>10
<1> QED BY <1>11 DEF n, S, Q

LEMMA ScalesUp ==
  ASSUME NEW n \in Nat \ {0}, NEW x \in Int, NEW y \in Int
  PROVE  n * x > n * y <=> x > y
OBVIOUS

(* In whatever order the values are kept, the code's verdict is the one of *)
(* the textbook.                                                           *)
LEMMA VerdictIsTextbook ==
  ASSUME NEW b \in Seq(Int), NEW p \in Bijection(1 .. Len(b), 1 .. Len(b)),
         NEW w, w = [i \in 1 .. Len(b) |-> b[p[i]]], NEW v \in Int
  PROVE  Anomalous(b, v) <=> Textbook(w, v)
<1> DEFINE n == Len(b)  S == SumFunction(b)  Q == Squares(b)
<1>1. n \in Nat /\ S \in Int /\ Q \in Int /\ b \in [1 .. n -> Int] /\ IsFiniteSet(1 .. n)
      /\ DOMAIN b = 1 .. n
  BY SeqFacts
<1>2. p \in [1 .. n -> 1 .. n] BY Fun_BijectionProperties
<1>3. w \in Seq(Int) /\ Len(w) = n /\ DOMAIN w = 1 .. n BY <1>1, <1>2
<1>4. SumFunction(w) = S
  <2>1. PICK E : E = 1 .. n OBVIOUS
  <2>2. /\ IsFiniteSet(E) /\ b \in [E -> Int] /\ p \in Bijection(E, E)
        /\ w \in [E -> Int] /\ \A i \in E : w[i] = b[p[i]]
    BY <1>1, <1>2, <2>1
  <2>3. PICK bb, ww : bb = b /\ ww = w OBVIOUS
  <2>4. /\ IsFiniteSet(E) /\ bb \in [E -> Int] /\ p \in Bijection(E, E)
        /\ ww \in [E -> Int] /\ \A i \in E : ww[i] = bb[p[i]]
    BY <2>2, <2>3
  <2>5. SumFunction(ww) = SumFunction(bb) BY ONLY <2>4, SumRenamed, SMTT(30)
  <2> QED BY <2>3, <2>5
<1>5. Squares(w) = Q
  <2> DEFINE q == [i \in 1 .. n |-> b[i] * b[i]]
  <2>1. q \in [1 .. n -> Int] BY <1>1
  <2> DEFINE u == [i \in 1 .. n |-> w[i] * w[i]]
  <2>2. u \in [1 .. n -> Int]
    <3>1. \A i \in 1 .. n : w[i] \in Int BY <1>3
    <3> QED BY <3>1
  <2>3. \A i \in 1 .. n : u[i] = q[p[i]] BY <1>2
  <2>4. SumFunction(u) = SumFunction(q)
    <3> HIDE DEF q, u
    <3>1. PICK E : E = 1 .. n OBVIOUS
    <3>2. /\ IsFiniteSet(E) /\ p \in Bijection(E, E) /\ q \in [E -> Int] /\ u \in [E -> Int]
          /\ \A i \in E : u[i] = q[p[i]]
      BY <1>1, <2>1, <2>2, <2>3, <3>1
    <3> QED BY ONLY <3>2, SumRenamed, SMTT(30)
  <2> QED BY <1>1, <1>3, <2>4 DEF Squares
<1>6. PICK R : R = n * Q - S * S OBVIOUS
<1> HIDE DEF S, Q
<1>7. R \in Int BY <1>1, <1>6
<1>8. Spread(b) = n * R
  <2>1. Spread(b) = Len(b) * (Len(b) * Squares(b) - SumFunction(b) * SumFunction(b)) BY SpreadIs
  <2> QED BY <1>6, <2>1 DEF S, Q
<1>9. Pairs(w) = 2 * R
  <2>1. Pairs(w) = 2 * (Len(w) * Squares(w) - SumFunction(w) * SumFunction(w)) BY <1>3, PairsAre
  <2> QED BY <1>3, <1>4, <1>5, <1>6, <2>1
<1>10. PICK t : t = n * v - S OBVIOUS
<1>11. t \in Int /\ (n * v > S <=> t > 0) BY <1>1, <1>10
<1>12. Anomalous(b, v) <=>
         /\ n >= window \div 2 /\ n >= 2 /\ n * R > 0
         /\ t > 0 /\ n * t * t > K * K * (n * R)
  <2>1. Scaled(b, v) = t BY <1>10 DEF Scaled, Sum, S
  <2> QED BY <1>8, <2>1 DEF Anomalous, Exceeds
<1>13. Textbook(w, v) <=>
         /\ n >= 2 /\ 2 * n + 1 >= window /\ 2 * R > 0
         /\ n * v > S /\ 2 * t * t > K * K * (2 * R)
  BY <1>3, <1>4, <1>9, <1>10 DEF Textbook, Pairs
<1>14. n >= window \div 2 <=> 2 * n + 1 >= window
  <2>1. window \in Int BY DetectorAssumption DEF window
  <2> HIDE DEF n
  <2> QED BY <1>1, <2>1
<1>15. ASSUME n >= 2 PROVE (n * R > 0 <=> 2 * R > 0) /\ (n * t * t > K * K * (n * R) <=> 2 * t * t > K * K * (2 * R))
  <2>1. PICK x : x = t * t OBVIOUS
  <2>2. PICK y : y = K * K * R OBVIOUS
  <2>3. K \in Int BY DetectorAssumption
  <2>4. x \in Int /\ y \in Int BY <1>7, <1>11, <2>1, <2>2, <2>3
  <2>5. n \in Nat \ {0} BY <1>1, <1>15
  <2> HIDE DEF n
  <2>6. n * t * t = n * x /\ 2 * t * t = 2 * x BY <1>11, <2>1, <2>5
  <2>7. K * K * (n * R) = n * y /\ K * K * (2 * R) = 2 * y BY <1>7, <2>2, <2>3, <2>5
  <2>8. (n * x > n * y) <=> x > y BY <2>4, <2>5, ScalesUp
  <2>9. (2 * x > 2 * y) <=> x > y BY <2>4
  <2>10. (n * R > n * 0) <=> R > 0
    <3>1. 0 \in Int OBVIOUS
    <3> QED BY <1>7, <2>5, <3>1, ScalesUp
  <2>11. n * 0 = 0 /\ (2 * R > 0 <=> R > 0) BY <1>7, <2>5
  <2> QED BY <2>6, <2>7, <2>8, <2>9, <2>10, <2>11
<1> HIDE DEF n
<1> QED BY <1>11, <1>12, <1>13, <1>14, <1>15, Zenon

-----------------------------------------------------------------------------
(* The detector.  TypeOK is inductive, and under it every step is one of   *)
(* the rolling window on the unrolled ring: what push does is a slide, and *)
(* what Anomalous says of the ring is what Textbook says of the window.    *)

LEMMA WiderSeq ==
  ASSUME NEW S, NEW T, S \subseteq T, NEW s \in Seq(S)
  PROVE  s \in Seq(T) /\ Len(s) \in Nat
<1>1. Len(s) \in Nat /\ s \in [1 .. Len(s) -> S] BY LenProperties
<1>2. s \in [1 .. Len(s) -> T] BY <1>1
<1> QED BY <1>1, <1>2

LEMMA WindowType == window \in Nat \ {0, 1}
BY DetectorAssumption DEF window

LEMMA DetectorInit == Init => TypeOK /\ Unrolled = <<>>
<1> SUFFICES ASSUME Init PROVE TypeOK /\ Unrolled = <<>>
  OBVIOUS
<1>1. buf = <<>> /\ idx = 0 /\ verdict = FALSE /\ seen = <<>> BY DEF Init
<1>2. TypeOK
  <2>1. <<>> \in Seq(Values) /\ Len(<<>>) = 0 BY EmptySeq
  <2>2. buf \in Seq(Values) /\ seen \in Seq(Values) /\ Len(buf) = 0 BY ONLY <1>1, <2>1, Zenon
  <2>3. Len(buf) <= window /\ idx \in 0 .. window - 1 BY <1>1, <2>2, WindowType
  <2>4. verdict \in BOOLEAN BY <1>1
  <2> QED BY <1>1, <2>2, <2>3, <2>4 DEF TypeOK
<1>3. PICK b, k : b = buf /\ k = idx OBVIOUS
<1>4. b \in Seq(Values) /\ Len(b) = 0 /\ k \in 0 .. Len(b) BY <1>1, <1>3
<1>5. Unroll(b, k) \in Seq(Values) /\ Len(Unroll(b, k)) = 0 BY <1>4, UnrollElements
<1>6. Unroll(b, k) = <<>> BY <1>5
<1> QED BY <1>2, <1>3, <1>6 DEF Unrolled, Unroll

(* Whatever is pushed, the buffer keeps its shape and, unrolled, slides. *)
LEMMA PushSlides ==
  ASSUME TypeOK, NEW v \in Values, push(v)
  PROVE  /\ buf' \in Seq(Values) /\ Len(buf') <= window
         /\ idx' \in 0 .. window - 1 /\ (Len(buf') < window => idx' = 0)
         /\ Unrolled' = Rolling!Slide(v)
<1>1. PICK c, b, k : c = window /\ b = buf /\ k = idx OBVIOUS
<1>2. PICK d, m : d = buf' /\ m = idx' OBVIOUS
<1>3. /\ c \in Nat \ {0} /\ b \in Seq(Values) /\ Len(b) <= c /\ k \in 0 .. c - 1
      /\ Len(b) < c => k = 0
  BY <1>1, WindowType DEF TypeOK
<1>4. IF Len(b) < c THEN d = Append(b, v) /\ m = k ELSE d = [b EXCEPT ![k + 1] = v] /\ m = (k + 1) % c
  BY <1>1, <1>2 DEF push
<1>5. Rolling!Slide(v) = IF Len(Unroll(b, k)) < c THEN Append(Unroll(b, k), v) ELSE Append(Tail(Unroll(b, k)), v)
  BY <1>1 DEF Rolling!Slide, Unrolled, Unroll
<1>6. k \in 0 .. Len(b) BY <1>3
<1>7. Len(Unroll(b, k)) = Len(b) /\ Unroll(b, k) \in Seq(Values) BY <1>3, <1>6, UnrollElements
<1>8. /\ d \in Seq(Values) /\ Len(d) <= c /\ m \in 0 .. c - 1 /\ (Len(d) < c => m = 0)
      /\ Unroll(d, m) = IF Len(b) < c THEN Append(Unroll(b, k), v) ELSE Append(Tail(Unroll(b, k)), v)
  <2>1. CASE Len(b) < c
    <3>1. k = 0 /\ m = 0 /\ d = Append(b, v) BY <1>3, <1>4, <2>1
    <3>2. /\ d \in Seq(Values) /\ Len(d) = Len(b) + 1
          /\ \A i \in 1 .. Len(b) : d[i] = b[i]
          /\ d[Len(b) + 1] = v
      BY <1>3, <3>1, AppendProperties
    <3>3. Unroll(b, k) = b
      <4>1. \A i \in 1 .. Len(b) : Unroll(b, k)[i] = IF k + i <= Len(b) THEN b[k + i] ELSE b[k + i - Len(b)]
        BY <1>3, <1>6, UnrollElements
      <4>2. \A i \in 1 .. Len(b) : Unroll(b, k)[i] = b[i] BY <1>3, <3>1, <4>1
      <4> QED BY <1>3, <1>7, <4>2, SeqEqual
    <3>4. Unroll(d, m) = d
      <4>1. m \in 0 .. Len(d) BY <3>1, <3>2
      <4>2. /\ Unroll(d, m) \in Seq(Values) /\ Len(Unroll(d, m)) = Len(d)
            /\ \A i \in 1 .. Len(d) : Unroll(d, m)[i] = IF m + i <= Len(d) THEN d[m + i] ELSE d[m + i - Len(d)]
        BY <3>2, <4>1, UnrollElements
      <4>3. \A i \in 1 .. Len(d) : Unroll(d, m)[i] = d[i] BY <3>1, <3>2, <4>2
      <4> QED BY <3>2, <4>2, <4>3, SeqEqual
    <3>5. Len(b) \in Nat BY <1>3
    <3> QED BY <1>3, <2>1, <3>1, <3>2, <3>3, <3>4, <3>5
  <2>2. CASE ~ (Len(b) < c)
    <3>1. Len(b) = c /\ d = [b EXCEPT ![k + 1] = v] /\ m = (k + 1) % c BY <1>3, <1>4, <2>2
    <3>2. b \in Seq(Values) /\ k \in 0 .. Len(b) - 1 /\ v \in Values /\ m = (k + 1) % Len(b)
      BY <1>3, <3>1
    <3>4. d \in Seq(Values) /\ Overwritten(b, k, v, d, m) BY ONLY <3>1, <3>2, SlotOverwritten
    <3>6. c \in Nat \ {0} /\ Len(b) = c /\ k \in 0 .. c - 1 BY <1>3, <3>1
    <3>5. Unroll(d, m) = Append(Tail(Unroll(b, k)), v) BY ONLY <3>2, <3>4, <3>6, RingSlides
    <3>3. d \in Seq(Values) /\ Len(d) = c /\ m \in 0 .. c - 1 /\ Unroll(d, m) = Append(Tail(Unroll(b, k)), v)
      BY <3>4, <3>5, <3>6 DEF Overwritten
    <3> QED BY <1>3, <2>2, <3>3
  <2> QED BY <2>1, <2>2
<1>9. Unrolled' = Unroll(d, m) BY <1>2 DEF Unrolled, Unroll
<1> QED BY <1>1, <1>2, <1>5, <1>7, <1>8, <1>9

LEMMA DetectorStep == TypeOK /\ [Next]_vars => TypeOK' /\ [Rolling!Next]_(Rolling!vars)
<1> SUFFICES ASSUME TypeOK, [Next]_vars PROVE TypeOK' /\ [Rolling!Next]_(Rolling!vars)
  OBVIOUS
<1>1. CASE Next
  <2>1. PICK v \in Values : Observe(v) BY <1>1 DEF Next
  <2>2. push(v) /\ verdict' = Anomalous(buf, v) /\ seen' = Append(seen, v) BY <2>1 DEF Observe
  <2>3. /\ buf' \in Seq(Values) /\ Len(buf') <= window
        /\ idx' \in 0 .. window - 1 /\ (Len(buf') < window => idx' = 0)
        /\ Unrolled' = Rolling!Slide(v)
    BY <2>2, PushSlides
  <2>4. verdict' = Textbook(Unrolled, v)
    <3>1. PICK b, k : b = buf /\ k = idx OBVIOUS
    <3>2. Values \subseteq Int BY DetectorAssumption
    <3>3. b \in Seq(Values) /\ b \in Seq(Int) /\ k \in Nat /\ (k < Len(b) \/ k = 0) /\ v \in Int
      <4>1. b \in Seq(Values) /\ Len(b) <= window /\ k \in 0 .. window - 1 /\ (Len(b) < window => k = 0)
        BY <3>1 DEF TypeOK
      <4>2. b \in Seq(Int) /\ Len(b) \in Nat BY <3>2, <4>1, WiderSeq
      <4>3. v \in Int BY <3>2
      <4> QED BY <4>1, <4>2, <4>3, WindowType
    <3>4. PICK p \in Bijection(1 .. Len(b), 1 .. Len(b)) : Unroll(b, k) = [i \in 1 .. Len(b) |-> b[p[i]]]
      BY <3>3, UnrollPermutes
    <3>5. PICK w : w = Unroll(b, k) OBVIOUS
    <3>6. w = [i \in 1 .. Len(b) |-> b[p[i]]] BY <3>4, <3>5
    <3>7. Anomalous(b, v) <=> Textbook(w, v) BY <3>3, <3>6, VerdictIsTextbook
    <3>8. w = Unrolled BY <3>1, <3>5 DEF Unrolled, Unroll
    <3>9. Anomalous(b, v) \in BOOLEAN /\ Textbook(w, v) \in BOOLEAN BY DEF Anomalous, Textbook
    <3>10. Anomalous(b, v) = Textbook(w, v)
      <4>1. CASE Anomalous(b, v)
        <5>1. Anomalous(b, v) = TRUE BY <3>9, <4>1
        <5>2. Textbook(w, v) = TRUE BY <3>7, <3>9, <4>1
        <5> QED BY <5>1, <5>2
      <4>2. CASE ~ Anomalous(b, v)
        <5>1. Anomalous(b, v) = FALSE BY <3>9, <4>2
        <5>2. Textbook(w, v) = FALSE BY <3>7, <3>9, <4>2
        <5> QED BY <5>1, <5>2
      <4> QED BY <4>1, <4>2
    <3> QED BY <2>2, <3>1, <3>8, <3>10
  <2>5. Rolling!Next BY <2>1, <2>3, <2>4 DEF Rolling!Next, Rolling!Observe
  <2>6. verdict' \in BOOLEAN BY <2>2 DEF Anomalous
  <2>7. seen' \in Seq(Values) BY <2>2 DEF TypeOK
  <2>8. TypeOK' BY <2>3, <2>6, <2>7 DEF TypeOK, window
  <2> QED BY <2>5, <2>8
<1>2. CASE UNCHANGED vars
  <2>1. TypeOK' BY <1>2 DEF vars, TypeOK, window
  <2>2. UNCHANGED Rolling!vars BY <1>2 DEF vars, Rolling!vars, Unrolled
  <2> QED BY <2>1, <2>2
<1> QED BY <1>1, <1>2

LEMMA DetectorTypes == Spec => []TypeOK
BY DetectorInit, DetectorStep, PTL DEF Spec

(* The detector's buffer never outgrows its window, and its position is    *)
(* that of a value in it (ring.push).                                      *)
THEOREM DetectorIsTyped == Spec => []TypeOK
BY DetectorTypes

(* The detector implements the rolling window it stands for: whatever      *)
(* values Observe is called with and whatever the window and k, each is    *)
(* judged against the last window values before it, by their mean and      *)
(* deviation, and then takes the place of the oldest.                      *)
THEOREM DetectorRolls == Spec => RollsOverHistory
<1>1. Init => Rolling!Init BY DetectorInit DEF Rolling!Init, Init
<1> QED BY <1>1, DetectorInit, DetectorStep, PTL DEF Spec, RollsOverHistory, Rolling!Spec

-----------------------------------------------------------------------------
(* Order and rank.  Values can be put in order (sort.Float64s), in one way *)
(* as far as the values go, and what is in place r + 1 has rank r.         *)

(* p puts s in order. *)
Orders(p, s) ==
  /\ p \in Bijection(DOMAIN s, DOMAIN s)
  /\ \A i, j \in DOMAIN s : i < j => s[p[i]] <= s[p[j]]

LEMMA OrderExists ==
  ASSUME NEW s \in Seq(Nat)
  PROVE  \E p : Orders(p, s)
<1> DEFINE D == DOMAIN s
           Less(j, i) == s[j] < s[i] \/ (s[j] = s[i] /\ j < i)
           NotAfter(i) == {j \in D : j = i \/ Less(j, i)}
           rank == [i \in D |-> Cardinality(NotAfter(i))]
<1>1. /\ Len(s) \in Nat /\ D = 1 .. Len(s) /\ IsFiniteSet(D) /\ Cardinality(D) = Len(s)
      /\ \A i \in D : i \in Nat /\ s[i] \in Nat
  <2>1. Len(s) \in Nat /\ D = 1 .. Len(s) /\ \A i \in D : i \in Nat /\ s[i] \in Nat OBVIOUS
  <2>2. 1 \in Int /\ Len(s) \in Int BY <2>1
  <2>3. IsFiniteSet(1 .. Len(s)) /\ Cardinality(1 .. Len(s)) = IF 1 > Len(s) THEN 0 ELSE Len(s) - 1 + 1
    BY ONLY <2>2, FS_Interval, ZenonT(30)
  <2> QED BY <2>1, <2>3
<1>2. \A i, j \in D : i = j \/ Less(i, j) \/ Less(j, i) BY <1>1
<1>3. \A i, j, k \in D : Less(i, j) /\ Less(j, k) => Less(i, k) BY <1>1
<1>4. \A i, j \in D : Less(i, j) => i # j /\ ~ Less(j, i) BY <1>1
<1>5. \A i \in D : NotAfter(i) \in SUBSET D /\ i \in NotAfter(i) OBVIOUS
<1>6. \A i \in D : rank[i] = Cardinality(NotAfter(i)) OBVIOUS
<1> HIDE DEF Less
<1>7. ASSUME NEW i \in D PROVE IsFiniteSet(NotAfter(i)) /\ rank[i] \in D
  <2>1. IsFiniteSet(NotAfter(i)) /\ Cardinality(NotAfter(i)) <= Cardinality(D) BY <1>1, <1>5, FS_Subset
  <2>2. Cardinality(NotAfter(i)) \in Nat BY <2>1, FS_CardinalityType
  <2>3. Cardinality(NotAfter(i)) # 0 BY <1>5, <2>1, FS_EmptySet
  <2> HIDE DEF NotAfter, rank
  <2> QED BY <1>1, <1>6, <2>1, <2>2, <2>3
<1>8. ASSUME NEW i \in D, NEW j \in D, Less(i, j) PROVE rank[i] < rank[j]
  <2>1. NotAfter(i) \subseteq NotAfter(j) BY <1>3, <1>8
  <2>2. j \in NotAfter(j) /\ j \notin NotAfter(i) BY <1>4, <1>8
  <2>3. NotAfter(i) # NotAfter(j) BY <2>2
  <2> HIDE DEF NotAfter, rank, D
  <2>4. IsFiniteSet(NotAfter(j)) /\ rank[i] \in Nat /\ rank[j] \in Nat BY <1>1, <1>7
  <2>5. Cardinality(NotAfter(i)) <= Cardinality(NotAfter(j)) /\ Cardinality(NotAfter(i)) # Cardinality(NotAfter(j))
    BY <2>1, <2>3, <2>4, FS_Subset
  <2> QED BY <1>6, <2>4, <2>5
<1>9. rank \in [D -> D] BY <1>7
<1> HIDE DEF rank, NotAfter, D
<1>10. \A i, j \in D : rank[i] = rank[j] => i = j
  <2>1. SUFFICES ASSUME NEW i \in D, NEW j \in D, rank[i] = rank[j], i # j PROVE FALSE
    OBVIOUS
  <2>2. rank[i] < rank[j] \/ rank[j] < rank[i] BY <1>2, <1>8, <2>1
  <2>3. rank[i] \in Nat /\ rank[j] \in Nat
    <3>1. rank[i] \in D /\ rank[j] \in D BY <1>9
    <3> QED BY <1>1, <3>1
  <2> QED BY <2>1, <2>2, <2>3
<1>11. rank \in Injection(D, D) BY <1>9, <1>10, Fun_IsInj
<1>12. rank \in Surjection(D, D) BY <1>1, <1>11, FS_Injection
<1>13. rank \in Bijection(D, D) BY <1>11, <1>12, Fun_IsBij
<1> DEFINE p == Inverse(rank, D, D)
<1>14. p \in Bijection(D, D) /\ \A i \in D : p[rank[i]] = i BY <1>13, Fun_BijInverse
<1> HIDE DEF p
<1>15. p \in [D -> D] BY <1>14, Fun_BijectionProperties
<1>16. ASSUME NEW i \in D PROVE rank[p[i]] = i
  <2>1. PICK k \in D : rank[k] = i BY <1>13, Fun_BijectionProperties
  <2> QED BY <1>14, <2>1
<1>17. ASSUME NEW i \in D, NEW j \in D, i < j PROVE s[p[i]] <= s[p[j]]
  <2>1. PICK a, b : a = p[i] /\ b = p[j] OBVIOUS
  <2>2. a \in D /\ b \in D /\ rank[a] = i /\ rank[b] = j BY <1>15, <1>16, <2>1
  <2>3. i \in Nat /\ j \in Nat BY <1>1
  <2>4. a # b /\ ~ (rank[b] < rank[a]) BY <1>17, <2>2, <2>3
  <2>5. Less(a, b) BY <1>2, <1>8, <2>2, <2>4
  <2>6. s[a] <= s[b] BY <1>1, <2>2, <2>5 DEF Less
  <2> QED BY <2>1, <2>6
<1>18. Orders(p, s) BY <1>14, <1>17 DEF Orders, D
<1> QED BY <1>18

(* w has the values of s in another order. *)
Reorders(g, s, w) == g \in Bijection(DOMAIN s, DOMAIN s) /\ w = [i \in DOMAIN s |-> s[g[i]]]

(* Values can be put in order whatever order they are in. *)
LEMMA OrderOfReordered ==
  ASSUME NEW s \in Seq(Nat), NEW p, Orders(p, s), NEW g, NEW w, Reorders(g, s, w)
  PROVE  \E q : Orders(q, w) /\ \A i \in DOMAIN s : w[q[i]] = s[p[i]]
<1> DEFINE D == DOMAIN s
           h == Inverse(g, D, D)
           q == [i \in D |-> h[p[i]]]
<1>1. p \in Bijection(D, D) /\ \A i, j \in D : i < j => s[p[i]] <= s[p[j]] BY DEF Orders
<1>2. DOMAIN w = D /\ w = [i \in D |-> s[g[i]]] /\ g \in Bijection(D, D) BY DEF Reorders
<1> HIDE DEF D
<1>3. h \in Bijection(D, D) /\ \A i \in D : h[g[i]] = i BY <1>2, Fun_BijInverse
<1>4. g \in [D -> D] /\ \A d \in D : \E e \in D : g[e] = d BY <1>2, Fun_BijectionProperties
<1>5. p \in [D -> D] BY <1>1, Fun_BijectionProperties
<1> HIDE DEF h
<1>6. q \in Bijection(D, D) BY <1>1, <1>3, Fun_BijTransitive
<1>7. h \in [D -> D] BY <1>3, Fun_BijectionProperties
<1>8. ASSUME NEW i \in D PROVE w[q[i]] = s[p[i]]
  <2>1. PICK e \in D : g[e] = p[i] BY <1>4, <1>5
  <2>2. h[p[i]] = e BY <1>3, <2>1
  <2>3. q[i] = e BY <2>2
  <2>4. w[e] = s[g[e]] BY <1>2
  <2> QED BY <2>1, <2>3, <2>4
<1> HIDE DEF q
<1>9. Orders(q, w)
  <2>1. \A i, j \in D : i < j => w[q[i]] <= w[q[j]]
    <3>1. SUFFICES ASSUME NEW i \in D, NEW j \in D, i < j PROVE w[q[i]] <= w[q[j]]
      OBVIOUS
    <3>2. s[p[i]] <= s[p[j]] BY <1>1, <3>1
    <3>3. w[q[i]] = s[p[i]] /\ w[q[j]] = s[p[j]] BY <1>8
    <3> QED BY <3>2, <3>3
  <2> QED BY <1>2, <1>6, <2>1 DEF Orders
<1> QED BY <1>8, <1>9 DEF D

LEMMA CountUpto ==
  ASSUME NEW n \in Nat
  PROVE  IsFiniteSet(1 .. n) /\ Cardinality(1 .. n) = n
<1>1. 1 \in Int /\ n \in Int OBVIOUS
<1>2. IsFiniteSet(1 .. n) /\ Cardinality(1 .. n) = IF 1 > n THEN 0 ELSE n - 1 + 1
  BY ONLY <1>1, FS_Interval, ZenonT(30)
<1> QED BY <1>2

(* The value in place r + 1 of the order has rank r. *)
LEMMA PlaceIsRank ==
  ASSUME NEW s \in Seq(Nat), NEW p, Orders(p, s), NEW r \in Nat, r < Len(s)
  PROVE  HasRank(s[p[r + 1]], r, s)
<1> DEFINE D == DOMAIN s
           v == s[p[r + 1]]
           below == {i \in D : s[i] < v}
           upto == {i \in D : s[i] <= v}
           h == Inverse(p, D, D)
<1>1. p \in Bijection(D, D) /\ \A i, j \in D : i < j => s[p[i]] <= s[p[j]] BY DEF Orders
<1>2. /\ D = 1 .. Len(s) /\ Len(s) \in Nat /\ r + 1 \in D
      /\ \A i \in D : i \in Nat /\ s[i] \in Nat
  OBVIOUS
<1> HIDE DEF D
<1>3. /\ p \in [D -> D] /\ \A i, j \in D : p[i] = p[j] => i = j
      /\ \A d \in D : \E e \in D : p[e] = d
  BY <1>1, Fun_BijectionProperties
<1>4. p[r + 1] \in D /\ v \in Nat BY <1>2, <1>3
<1>5. h \in Bijection(D, D) /\ \A i \in D : h[p[i]] = i BY <1>1, Fun_BijInverse
<1> HIDE DEF h
<1>6. h \in [D -> D] /\ \A i, j \in D : h[i] = h[j] => i = j BY <1>5, Fun_BijectionProperties
<1>7. ASSUME NEW i \in below PROVE h[i] \in 1 .. r
  <2>1. PICK e \in D : p[e] = i BY <1>3
  <2>2. h[i] = e /\ s[p[e]] < v BY <1>5, <2>1
  <2>3. ~ (r + 1 < e)
    <3>1. r + 1 < e => s[p[r + 1]] <= s[p[e]] BY <1>1, <1>2
    <3>2. s[p[e]] \in Nat BY <1>2, <1>3
    <3> QED BY <1>4, <2>2, <3>1, <3>2
  <2>4. e # r + 1 BY <1>4, <2>2
  <2> QED BY <1>2, <2>2, <2>3, <2>4
<1>8. Cardinality(below) <= r
  <2> DEFINE f == [i \in below |-> h[i]]
  <2>1. f \in [below -> 1 .. r] BY <1>7
  <2>2. \A i, j \in below : f[i] = f[j] => i = j BY <1>6
  <2>3. f \in Injection(below, 1 .. r)
    <3> HIDE DEF f, below
    <3> QED BY <2>1, <2>2, Fun_IsInj
  <2>4. IsFiniteSet(1 .. r) /\ Cardinality(1 .. r) = r BY CountUpto
  <2> HIDE DEF f, below
  <2> QED BY <2>3, <2>4, FS_Injection
<1>9. Cardinality(upto) > r
  <2> DEFINE f == [i \in 1 .. r + 1 |-> p[i]]
  <2>1. \A i \in 1 .. r + 1 : i \in D /\ p[i] \in D
    <3>1. \A i \in 1 .. r + 1 : i \in D BY <1>2
    <3> QED BY <1>3, <3>1
  <2>2. \A i \in 1 .. r + 1 : s[p[i]] <= v
    <3>1. SUFFICES ASSUME NEW i \in 1 .. r + 1 PROVE s[p[i]] <= v
      OBVIOUS
    <3>2. CASE i = r + 1 BY <1>4, <3>2
    <3>3. CASE i # r + 1
      <4>1. i < r + 1 BY <3>3
      <4> QED BY <1>1, <1>2, <2>1, <4>1
    <3> QED BY <3>2, <3>3
  <2>3. f \in [1 .. r + 1 -> upto] BY <2>1, <2>2
  <2>4. \A i, j \in 1 .. r + 1 : f[i] = f[j] => i = j BY <1>3, <2>1
  <2>5. f \in Injection(1 .. r + 1, upto)
    <3> HIDE DEF f, upto
    <3> QED BY <2>3, <2>4, Fun_IsInj
  <2>6. r + 1 \in Nat OBVIOUS
  <2>7. Cardinality(1 .. r + 1) = r + 1 BY <2>6, CountUpto
  <2>8. upto \in SUBSET D /\ IsFiniteSet(D) BY <1>2, CountUpto
  <2>9. IsFiniteSet(upto) BY <2>8, FS_Subset
  <2>10. Cardinality(upto) \in Nat BY <2>9, FS_CardinalityType
  <2> HIDE DEF f, upto
  <2>11. Cardinality(1 .. r + 1) <= Cardinality(upto) BY <2>5, <2>9, FS_Injection
  <2> QED BY <2>7, <2>10, <2>11
<1> QED BY <1>4, <1>8, <1>9 DEF HasRank, D

-----------------------------------------------------------------------------
(* A quantile of the values has its rank in every rotation of them. *)
LEMMA QuantileHasRank ==
  ASSUME NEW s \in Seq(Nat), s # <<>>, NEW k \in Nat, k < Len(s), NEW c \in 0 .. 100
  PROVE  HasRank(Quantile(s, c), (c * (Len(s) - 1)) \div 100, Unroll(s, k))
<1>1. PICK p : p = CHOOSE o \in Bijection(DOMAIN s, DOMAIN s) :
                     \A i, j \in DOMAIN s : i < j => s[o[i]] <= s[o[j]]
  OBVIOUS
<1>2. Orders(p, s)
  <2>1. \E o \in Bijection(DOMAIN s, DOMAIN s) : \A i, j \in DOMAIN s : i < j => s[o[i]] <= s[o[j]]
    BY OrderExists DEF Orders
  <2> QED BY <1>1, <2>1, Zenon DEF Orders
<1>3. PICK n : n = Len(s) OBVIOUS
<1>4. n \in Nat \ {0} /\ DOMAIN s = 1 .. n BY <1>3
<1>5. PICK r : r = (c * (n - 1)) \div 100 OBVIOUS
<1>6. r \in 0 .. n - 1
  <2>1. n - 1 \in Nat /\ c \in Nat /\ c <= 100 BY <1>4
  <2>2. PICK t : t = n - 1 OBVIOUS
  <2>3. c * t \in Nat /\ c * t < 100 * (t + 1)
    <3>1. PICK e : e = 100 - c OBVIOUS
    <3>2. e \in Nat /\ t \in Nat /\ c + e = 100 BY <2>1, <2>2, <3>1
    <3>3. c * t \in Nat /\ e * t \in Nat BY <2>1, <3>2
    <3>4. (c + e) * t = c * t + e * t BY <2>1, <3>2
    <3> QED BY <3>2, <3>3, <3>4
  <2>4. (c * t) \div 100 \in 0 .. t
    <3>1. /\ c * t \in Nat /\ 100 \in Nat \ {0} /\ t \in Nat
          /\ c * t < 100 * (t + 1)
      BY <2>1, <2>2, <2>3
    <3> QED BY ONLY <3>1, DivUpto
  <2> QED BY <1>5, <2>2, <2>4
<1>7. Quantile(s, c) = s[p[r + 1]]
  <2>1. Sorted(s) = [i \in DOMAIN s |-> s[p[i]]] BY <1>1 DEF Sorted
  <2>2. r + 1 \in DOMAIN s BY <1>4, <1>6
  <2>3. Sorted(s)[r + 1] = s[p[r + 1]] BY <2>1, <2>2
  <2>4. Quantile(s, c) = Sorted(s)[r + 1] BY <1>3, <1>5 DEF Quantile
  <2> QED BY <2>3, <2>4
<1>8. PICK g \in Bijection(1 .. Len(s), 1 .. Len(s)) : Unroll(s, k) = [i \in 1 .. Len(s) |-> s[g[i]]]
  BY UnrollPermutes
<1>9. PICK w : w = Unroll(s, k) OBVIOUS
<1>10. g \in Bijection(DOMAIN s, DOMAIN s) /\ w = [i \in DOMAIN s |-> s[g[i]]]
  BY <1>3, <1>4, <1>8, <1>9
<1>11. PICK q : Orders(q, w) /\ \A i \in DOMAIN s : w[q[i]] = s[p[i]]
  <2>1. s \in Seq(Nat) /\ Orders(p, s) BY <1>2
  <2>2. Reorders(g, s, w) BY <1>10 DEF Reorders
  <2> QED BY ONLY <2>1, <2>2, OrderOfReordered
<1>12. w \in Seq(Nat) /\ Len(w) = n BY <1>3, <1>9, UnrollElements
<1>13. HasRank(w[q[r + 1]], r, w)
  <2>1. w \in Seq(Nat) /\ Orders(q, w) /\ r \in Nat /\ r < Len(w) BY <1>4, <1>6, <1>11, <1>12
  <2> QED BY ONLY <2>1, PlaceIsRank
<1>14. w[q[r + 1]] = s[p[r + 1]] BY <1>4, <1>6, <1>11
<1> QED BY <1>3, <1>5, <1>7, <1>9, <1>13, <1>14

-----------------------------------------------------------------------------
(* What is retained of the first n observed. *)
Kept(o, n) == SubSeq(o, IF n > cap THEN n - cap + 1 ELSE 1, n)

LEMMA UnrolledFromStart ==
  ASSUME NEW V, NEW b \in Seq(V)
  PROVE  Unroll(b, 0) = b
<1>1. Len(b) \in Nat /\ 0 \in 0 .. Len(b) OBVIOUS
<1>2. /\ Unroll(b, 0) \in Seq(V) /\ Len(Unroll(b, 0)) = Len(b)
      /\ \A i \in 1 .. Len(b) : Unroll(b, 0)[i] = IF 0 + i <= Len(b) THEN b[0 + i] ELSE b[0 + i - Len(b)]
  BY <1>1, UnrollElements
<1>3. \A i \in 1 .. Len(b) : Unroll(b, 0)[i] = b[i] BY <1>1, <1>2
<1> QED BY <1>2, <1>3, SeqEqual

LEMMA CapType == cap \in Nat \ {0}
BY HistogramAssumption DEF cap

LEMMA PartOfAppended ==
  ASSUME NEW V, NEW o \in Seq(V), NEW v \in V, NEW m \in Nat \ {0}, NEW n \in 0 .. Len(o)
  PROVE  SubSeq(Append(o, v), m, n) = SubSeq(o, m, n)
<1>1. /\ Append(o, v) \in Seq(V) /\ Len(Append(o, v)) = Len(o) + 1 /\ Len(o) \in Nat
      /\ \A i \in 1 .. Len(o) : Append(o, v)[i] = o[i]
  BY AppendProperties
<1>2. PICK t : t = Append(o, v) OBVIOUS
<1>3. \A i \in m .. n : o[i] \in V /\ t[i] = o[i] BY <1>1, <1>2
<1>4. /\ SubSeq(o, m, n) \in Seq(V) /\ Len(SubSeq(o, m, n)) = IF m <= n THEN n - m + 1 ELSE 0
      /\ \A i \in 1 .. n - m + 1 : SubSeq(o, m, n)[i] = o[m + i - 1]
  BY <1>3, SubSeqProperties
<1>5. /\ SubSeq(t, m, n) \in Seq(V) /\ Len(SubSeq(t, m, n)) = IF m <= n THEN n - m + 1 ELSE 0
      /\ \A i \in 1 .. n - m + 1 : SubSeq(t, m, n)[i] = t[m + i - 1]
  BY <1>3, SubSeqProperties
<1>6. \A i \in 1 .. Len(SubSeq(o, m, n)) : i \in 1 .. n - m + 1 /\ m + i - 1 \in m .. n BY <1>4
<1>7. \A i \in 1 .. Len(SubSeq(o, m, n)) : SubSeq(t, m, n)[i] = SubSeq(o, m, n)[i]
  BY <1>3, <1>4, <1>5, <1>6
<1>8. SubSeq(t, m, n) = SubSeq(o, m, n) BY <1>4, <1>5, <1>7, SeqEqual
<1> QED BY <1>2, <1>8

LEMMA KeptBefore ==
  ASSUME NEW o \in Seq(Latencies), NEW v \in Latencies, NEW n \in 0 .. Len(o)
  PROVE  Kept(Append(o, v), n) = Kept(o, n)
<1>1. PICK m : m = IF n > cap THEN n - cap + 1 ELSE 1 OBVIOUS
<1>2. m \in Nat \ {0} BY <1>1, CapType
<1> QED BY <1>1, <1>2, PartOfAppended DEF Kept

LEMMA WholeSeq ==
  ASSUME NEW V, NEW o \in Seq(V)
  PROVE  SubSeq(o, 1, Len(o)) = o
OBVIOUS

LEMMA KeptNow ==
  ASSUME NEW o \in Seq(Latencies), NEW v \in Latencies
  PROVE  /\ Kept(o, Len(o)) \in Seq(Latencies)
         /\ Len(Kept(o, Len(o))) = IF Len(o) < cap THEN Len(o) ELSE cap
         /\ Kept(Append(o, v), Len(o) + 1)
              = IF Len(o) < cap THEN Append(Kept(o, Len(o)), v)
                ELSE Append(Tail(Kept(o, Len(o))), v)
<1>1. PICK c, n, t : c = cap /\ n = Len(o) /\ t = Append(o, v) OBVIOUS
<1>2. /\ t \in Seq(Latencies) /\ Len(t) = n + 1 /\ n \in Nat
      /\ \A i \in 1 .. n : t[i] = o[i] /\ o[i] \in Latencies
      /\ t[n + 1] = v
  BY <1>1, AppendProperties
<1>3. c \in Nat \ {0} BY <1>1, CapType
<1>4. CASE n < c
  <2>1. Kept(o, n) = o
    <3>1. ~ (n > c) BY <1>2, <1>3, <1>4
    <3>2. Kept(o, n) = SubSeq(o, 1, Len(o)) BY <1>1, <3>1 DEF Kept
    <3> QED BY <3>2, WholeSeq
  <2>2. Kept(t, n + 1) = t
    <3>1. ~ (n + 1 > c) BY <1>2, <1>3, <1>4
    <3>2. Kept(t, n + 1) = SubSeq(t, 1, Len(t)) BY <1>1, <1>2, <3>1 DEF Kept
    <3> QED BY <1>2, <3>2, WholeSeq
  <2> QED BY <1>1, <1>4, <2>1, <2>2
<1>5. CASE ~ (n < c)
  <2>0. PICK l : l = n + 1 OBVIOUS
  <2> DEFINE u == SubSeq(o, n - c + 1, n)
             w == SubSeq(t, l - c + 1, l)
  <2>1. Kept(o, n) = u
    <3>1. CASE n > c BY <1>1, <3>1 DEF Kept
    <3>2. CASE n = c
      <4>1. ~ (n > c) /\ n - c + 1 = 1 BY <1>2, <1>3, <3>2
      <4> QED BY <1>1, <4>1 DEF Kept
    <3> QED BY <1>2, <1>3, <1>5, <3>1, <3>2
  <2>2. Kept(t, n + 1) = w
    <3>1. l > c BY <1>2, <1>3, <1>5, <2>0
    <3>2. Kept(t, l) = w BY <1>1, <3>1 DEF Kept
    <3> QED BY <2>0, <3>2
  <2>3. /\ u \in Seq(Latencies) /\ Len(u) = c
        /\ \A i \in 1 .. c : u[i] = o[n - c + i]
    <3>1. PICK m : m = n - c + 1 OBVIOUS
    <3>2. m \in Int /\ n \in Int /\ m <= n /\ n - m + 1 = c BY <1>2, <1>3, <1>5, <3>1
    <3>3. \A i \in m .. n : o[i] \in Latencies BY <1>2, <1>3, <1>5, <3>1
    <3>4. /\ SubSeq(o, m, n) \in Seq(Latencies) /\ Len(SubSeq(o, m, n)) = c
          /\ \A i \in 1 .. c : SubSeq(o, m, n)[i] = o[m + i - 1]
      BY <3>2, <3>3, SubSeqProperties
    <3>5. \A i \in 1 .. c : m + i - 1 = n - c + i BY <1>2, <1>3, <3>1
    <3> QED BY <3>1, <3>4, <3>5
  <2>4. /\ w \in Seq(Latencies) /\ Len(w) = c
        /\ \A i \in 1 .. c : w[i] = t[n - c + i + 1]
    <3>1. PICK m : m = l - c + 1 OBVIOUS
    <3>2. m \in Int /\ l \in Int /\ m <= l /\ l - m + 1 = c BY <1>2, <1>3, <1>5, <2>0, <3>1
    <3>3. \A i \in m .. l : t[i] \in Latencies BY <1>2, <1>3, <1>5, <2>0, <3>1
    <3>4. /\ SubSeq(t, m, l) \in Seq(Latencies) /\ Len(SubSeq(t, m, l)) = c
          /\ \A i \in 1 .. c : SubSeq(t, m, l)[i] = t[m + i - 1]
      BY <3>2, <3>3, SubSeqProperties
    <3>5. \A i \in 1 .. c : m + i - 1 = n - c + i + 1 BY <1>2, <1>3, <2>0, <3>1
    <3> QED BY <3>1, <3>4, <3>5
  <2> HIDE DEF u, w
  <2>5. /\ Tail(u) \in Seq(Latencies) /\ Len(Tail(u)) = c - 1
        /\ \A i \in 1 .. c - 1 : Tail(u)[i] = u[i + 1]
    <3>1. u # << >> BY <1>3, <2>3
    <3> QED BY <2>3, <3>1, HeadTailProperties
  <2>6. /\ Append(Tail(u), v) \in Seq(Latencies) /\ Len(Append(Tail(u), v)) = c
        /\ \A i \in 1 .. c - 1 : Append(Tail(u), v)[i] = u[i + 1]
        /\ Append(Tail(u), v)[c] = v
    BY <1>3, <2>5, AppendProperties
  <2>7. ASSUME NEW i \in 1 .. c PROVE w[i] = Append(Tail(u), v)[i]
    <3>1. w[i] = t[n - c + i + 1] BY <2>4
    <3>2. CASE i = c
      <4>1. n - c + i + 1 = n + 1 BY <1>2, <1>3, <3>2
      <4> QED BY <1>2, <2>6, <3>1, <3>2, <4>1
    <3>3. CASE i # c
      <4>1. i \in 1 .. c - 1 /\ i + 1 \in 1 .. c /\ n - c + i + 1 \in 1 .. n BY <1>2, <1>3, <1>5, <3>3
      <4>2. Append(Tail(u), v)[i] = u[i + 1] BY <2>6, <4>1
      <4>3. u[i + 1] = o[n - c + (i + 1)] BY <2>3, <4>1
      <4>4. n - c + (i + 1) = n - c + i + 1 BY <1>2, <1>3
      <4>5. t[n - c + i + 1] = o[n - c + i + 1] BY <1>2, <4>1
      <4> QED BY <3>1, <4>2, <4>3, <4>4, <4>5
    <3> QED BY <3>2, <3>3
  <2>8. w = Append(Tail(u), v) BY <2>4, <2>6, <2>7, SeqEqual
  <2> QED BY <1>1, <1>5, <2>1, <2>2, <2>3, <2>8
<1> QED BY <1>4, <1>5

-----------------------------------------------------------------------------
LEMMA SumOfOne ==
  ASSUME NEW d, NEW f \in [{d} -> Int]
  PROVE  SumFunction(f) = f[d]
<1> DEFINE G == [s \in SUBSET {d} |-> IF s = {} THEN 0 ELSE f[d]]
<1>1. IsFiniteSet({d}) BY FS_Singleton
<1>2. G \in [SUBSET {d} -> Int] /\ G[{}] = 0 OBVIOUS
<1>3. ASSUME NEW s \in SUBSET {d}, NEW x \in s PROVE G[s] = f[x] + G[s \ {x}]
  <2>1. x = d /\ s = {d} /\ s \ {x} = {} OBVIOUS
  <2>2. G[s] = f[d] /\ G[s \ {x}] = 0 /\ f[d] \in Int BY <2>1
  <2> HIDE DEF G
  <2> QED BY <2>1, <2>2
<1>4. G[{d}] = f[d] OBVIOUS
<1> HIDE DEF G
<1>5. \A s \in SUBSET {d} : \A x \in s : G[s] = f[x] + G[s \ {x}] BY <1>3
<1>6. SumFunction(f) = G[{d}] BY <1>1, <1>2, <1>5, SumBySteps
<1> QED BY <1>4, <1>6

LEMMA SumOfAppended ==
  ASSUME NEW o \in Seq(Int), NEW v \in Int
  PROVE  SumFunction(Append(o, v)) = SumFunction(o) + v /\ SumFunction(o) \in Int
<1>1. PICK t, n : t = Append(o, v) /\ n = Len(o) OBVIOUS
<1>2. /\ t \in Seq(Int) /\ Len(t) = n + 1 /\ n \in Nat
      /\ \A i \in 1 .. n : t[i] = o[i]
      /\ t[n + 1] = v
  BY <1>1, AppendProperties
<1>3. t \in [1 .. n + 1 -> Int] /\ o \in [1 .. n -> Int]
  <2>1. t \in [1 .. Len(t) -> Int] /\ o \in [1 .. Len(o) -> Int] BY <1>2, LenProperties
  <2> QED BY <1>1, <1>2, <2>1
<1>4. IsFiniteSet(1 .. n) /\ IsFiniteSet(1 .. n + 1)
  <2>1. n + 1 \in Nat BY <1>2
  <2> QED BY <1>2, <2>1, CountUpto
<1>5. 1 .. n \in SUBSET (1 .. n + 1) /\ (1 .. n + 1) \ (1 .. n) = {n + 1} BY <1>2
<1>6. PICK D, A, B : D = 1 .. n + 1 /\ A = 1 .. n /\ B = {n + 1} OBVIOUS
<1>7. SumFunction(t) = SumFunction([x \in A |-> t[x]]) + SumFunction([x \in B |-> t[x]])
  <2>1. IsFiniteSet(D) /\ t \in [D -> Int] /\ A \in SUBSET D BY <1>3, <1>4, <1>5, <1>6
  <2>2. SumFunction(t) = SumFunction([x \in A |-> t[x]]) + SumFunction([x \in D \ A |-> t[x]])
    BY ONLY <2>1, SumOfParts, ZenonT(30)
  <2> QED BY <1>5, <1>6, <2>2
<1>8. [x \in A |-> t[x]] = o BY <1>2, <1>3, <1>6
<1>9. SumFunction([x \in B |-> t[x]]) = v
  <2>1. PICK f : f = [x \in B |-> t[x]] OBVIOUS
  <2>2. f \in [{n + 1} -> Int] /\ f[n + 1] = v BY <1>2, <1>6, <2>1
  <2>3. SumFunction(f) = v BY <2>2, SumOfOne
  <2> QED BY <2>1, <2>3
<1>10. SumFunction(o) \in Int BY <1>3, <1>4, SumIsInt
<1> QED BY <1>1, <1>7, <1>8, <1>9, <1>10

LEMMA SumOfEmpty == SumFunction(<<>>) = 0
<1>1. <<>> \in [{} -> Int] OBVIOUS
<1> QED BY <1>1, SumOfNone

-----------------------------------------------------------------------------
(* The histogram.  HistInv is inductive: unrolled, the samples are the     *)
(* last observations there is room for; the totals are those of all of     *)
(* them; and each line of the report holds of the observations there were  *)
(* when it was written, which are the first ones of those there are now.   *)

Entries == [value : Nat, of : Nat]

(* What ScrapeIsTrue says of one line, when o has been observed. *)
LineHolds(i, e, o) ==
  IF i > Len(Quantiles) THEN e.value = SumFunction(SubSeq(o, 1, e.of))
  ELSE IF Kept(o, e.of) = <<>> THEN e.value = 0
  ELSE HasRank(e.value, (Quantiles[i] * (Len(Kept(o, e.of)) - 1)) \div 100, Kept(o, e.of))

RingHolds ==
  /\ Len(samples) = IF Len(observed) < cap THEN Len(observed) ELSE cap
  /\ Len(samples) < cap => slot = 0
  /\ Unroll(samples, slot) = Kept(observed, Len(observed))

TotalsHold == count = Len(observed) /\ sum = SumFunction(observed)

LinesHold ==
  /\ report \in Seq(Entries)
  /\ \A i \in 1 .. Len(report) :
       report[i].of <= Len(observed) /\ LineHolds(i, report[i], observed)

HistInv == HistogramTypeOK /\ RingHolds /\ TotalsHold /\ LinesHold

LEMMA ScrapeFollows == HistInv => ScrapeIsTrue
<1> SUFFICES ASSUME HistInv, NEW i \in DOMAIN report
             PROVE  LET n == report[i].of  s == Retained(n) IN
                    IF i > Len(Quantiles) THEN report[i].value = SumFunction(SubSeq(observed, 1, n))
                    ELSE IF s = <<>> THEN report[i].value = 0
                    ELSE HasRank(report[i].value, (Quantiles[i] * (Len(s) - 1)) \div 100, s)
  BY DEF ScrapeIsTrue
<1>1. i \in 1 .. Len(report) BY DEF HistInv, LinesHold
<1>2. LineHolds(i, report[i], observed) BY <1>1 DEF HistInv, LinesHold
<1>3. \A n : Retained(n) = Kept(observed, n) BY DEF Retained, Kept
<1> QED BY <1>2, <1>3 DEF LineHolds

LEMMA QuantilesType ==
  Len(Quantiles) = 3 /\ \A i \in 1 .. 3 : Quantiles[i] \in 0 .. 100
BY DEF Quantiles

LEMMA LaterHolds ==
  ASSUME NEW o \in Seq(Latencies), NEW v \in Latencies, NEW i, NEW e \in Entries, e.of <= Len(o),
         LineHolds(i, e, o)
  PROVE  LineHolds(i, e, Append(o, v))
<1>1. PICK n : n = e.of OBVIOUS
<1>2. Len(o) \in Nat BY LenProperties
<1>3. n \in 0 .. Len(o) BY <1>1, <1>2 DEF Entries
<1>4. Kept(Append(o, v), n) = Kept(o, n) BY <1>3, KeptBefore
<1>5. SubSeq(Append(o, v), 1, n) = SubSeq(o, 1, n)
  <2>1. 1 \in Nat \ {0} OBVIOUS
  <2> QED BY <1>3, <2>1, PartOfAppended
<1> QED BY <1>1, <1>4, <1>5 DEF LineHolds

LEMMA NatLatencies == Latencies \subseteq Nat
BY HistogramAssumption

LEMMA LineNow ==
  ASSUME HistInv, NEW i \in 1 .. 4
  PROVE  /\ Line(i) \in Entries /\ Line(i).of <= Len(observed)
         /\ LineHolds(i, Line(i), observed)
<1>1. PICK s, k, o, n : s = samples /\ k = slot /\ o = observed /\ n = Len(observed) OBVIOUS
<1>2. /\ s \in Seq(Latencies) /\ k \in Nat /\ o \in Seq(Latencies) /\ n = Len(o) /\ n \in Nat
      /\ count = n /\ sum = SumFunction(o) /\ sum \in Nat
      /\ Unroll(s, k) = Kept(o, n) /\ k \in 0 .. cap - 1
      /\ Len(s) = (IF n < cap THEN n ELSE cap) /\ (Len(s) < cap => k = 0)
  BY <1>1, CapType DEF HistInv, HistogramTypeOK, RingHolds, TotalsHold
<1>3. CASE i > Len(Quantiles)
  <2>1. Line(i) = [value |-> sum, of |-> n] BY <1>2, <1>3 DEF Line
  <2>2. PICK e : e = Line(i) OBVIOUS
  <2>3. e.value = sum /\ e.of = n /\ e \in Entries BY <1>2, <2>1, <2>2 DEF Entries
  <2>4. SubSeq(o, 1, n) = o BY <1>2, WholeSeq
  <2>5. LineHolds(i, e, o) BY <1>2, <1>3, <2>3, <2>4 DEF LineHolds
  <2> QED BY <1>1, <1>2, <2>2, <2>3, <2>5
<1>4. CASE ~ (i > Len(Quantiles))
  <2>1. PICK c : c = Quantiles[i] OBVIOUS
  <2>2. c \in 0 .. 100 BY <1>4, <2>1, QuantilesType
  <2>3. Line(i) = [value |-> Quantile(s, c), of |-> n] BY <1>1, <1>4, <2>1 DEF Line
  <2>4. PICK e : e = Line(i) OBVIOUS
  <2>5. e.value = Quantile(s, c) /\ e.of = n /\ e = [value |-> Quantile(s, c), of |-> n] BY <2>3, <2>4
  <2>6. PICK w : w = Kept(o, n) OBVIOUS
  <2>7. Len(s) \in Nat /\ k \in 0 .. Len(s) BY <1>2, CapType
  <2>8. w \in Seq(Latencies) /\ Len(w) = Len(s) BY <1>2, <2>6, <2>7, UnrollElements
  <2>9. CASE s = <<>>
    <3>1. w = <<>> BY <2>8, <2>9
    <3>2. Quantile(s, c) = 0 BY <2>9 DEF Quantile
    <3>3. LineHolds(i, e, o) BY <1>4, <2>5, <2>6, <3>1, <3>2 DEF LineHolds
    <3>4. e \in Entries BY <1>2, <2>5, <3>2 DEF Entries
    <3> QED BY <1>1, <1>2, <2>4, <2>5, <3>3, <3>4
  <2>10. CASE s # <<>>
    <3>1. s \in Seq(Nat) BY <1>2, NatLatencies, WiderSeq
    <3>2. Len(s) # 0 BY <1>2, <2>10
    <3>3. k < Len(s) BY <1>2, <2>7, <3>2, CapType
    <3>4. HasRank(Quantile(s, c), (c * (Len(s) - 1)) \div 100, w)
      <4>1. w = Unroll(s, k) BY <1>2, <2>6
      <4>2. s \in Seq(Nat) /\ s # <<>> /\ k \in Nat /\ k < Len(s) /\ c \in 0 .. 100
        BY <1>2, <2>2, <2>10, <3>1, <3>3
      <4>3. HasRank(Quantile(s, c), (c * (Len(s) - 1)) \div 100, Unroll(s, k))
        BY ONLY <4>2, QuantileHasRank
      <4> QED BY <4>1, <4>3
    <3>5. w # <<>> BY <2>8, <3>2
    <3>6. LineHolds(i, e, o) BY <1>4, <2>1, <2>5, <2>6, <2>8, <3>4, <3>5 DEF LineHolds
    <3>7. Quantile(s, c) \in Nat
      <4>1. PICK j \in DOMAIN w : w[j] = Quantile(s, c) BY <3>4 DEF HasRank
      <4>2. w[j] \in Latencies BY <2>8
      <4> QED BY <4>1, <4>2, NatLatencies
    <3>8. e \in Entries BY <1>2, <2>5, <3>7 DEF Entries
    <3> QED BY <1>1, <1>2, <2>4, <2>5, <3>6, <3>8
  <2> QED BY <2>9, <2>10
<1> QED BY <1>3, <1>4

LEMMA HistInitially == HistogramInit => HistInv
<1> SUFFICES ASSUME HistogramInit PROVE HistInv
  OBVIOUS
<1>1. /\ samples = <<>> /\ slot = 0 /\ count = 0 /\ sum = 0
      /\ report = <<>> /\ observed = <<>>
  BY DEF HistogramInit
<1>2. <<>> \in Seq(Latencies) /\ <<>> \in Seq(Entries) /\ Len(<<>>) = 0 BY EmptySeq
<1>3. PICK c : c = cap OBVIOUS
<1>4. c \in Nat \ {0} BY <1>3, CapType
<1>5. HistogramTypeOK BY <1>1, <1>2, <1>3, <1>4, QuantilesType DEF HistogramTypeOK
<1>6. RingHolds
  <2>1. PICK b, o, k : b = samples /\ o = observed /\ k = slot OBVIOUS
  <2>2. b \in Seq(Latencies) /\ Len(b) = 0 /\ k \in 0 .. Len(b) /\ o \in Seq(Latencies) /\ Len(o) = 0
    BY <1>1, <1>2, <2>1
  <2>3. Unroll(b, k) \in Seq(Latencies) /\ Len(Unroll(b, k)) = 0 BY <2>2, UnrollElements
  <2>4. Kept(o, Len(o)) = o
    <3>1. ~ (Len(o) > c) BY <1>4, <2>2
    <3> QED BY <1>3, <2>2, <3>1, WholeSeq DEF Kept
  <2>5. Unroll(b, k) = <<>> /\ o = <<>> BY <1>1, <2>1, <2>3
  <2> QED BY <1>1, <1>2, <1>3, <1>4, <2>1, <2>4, <2>5 DEF RingHolds
<1>7. TotalsHold BY <1>1, <1>2, SumOfEmpty DEF TotalsHold
<1>8. LinesHold BY <1>1, <1>2 DEF LinesHold
<1> QED BY <1>5, <1>6, <1>7, <1>8 DEF HistInv

LEMMA RecordKeeps ==
  ASSUME HistInv, NEW v \in Latencies, Record(v), observed' = Append(observed, v)
  PROVE  /\ samples' \in Seq(Latencies) /\ Len(samples') <= cap /\ slot' \in 0 .. cap - 1
         /\ RingHolds'
<1>1. PICK c, b, k, o, n : c = cap /\ b = samples /\ k = slot /\ o = observed /\ n = Len(observed)
  OBVIOUS
<1>2. PICK d, m : d = samples' /\ m = slot' OBVIOUS
<1>3. /\ c \in Nat \ {0} /\ b \in Seq(Latencies) /\ Len(b) \in Nat /\ k \in 0 .. c - 1
      /\ o \in Seq(Latencies) /\ n = Len(o) /\ n \in Nat
      /\ Len(b) = (IF n < c THEN n ELSE c) /\ (Len(b) < c => k = 0)
      /\ Unroll(b, k) = Kept(o, n)
  BY <1>1, CapType DEF HistInv, HistogramTypeOK, RingHolds
<1>4. IF Len(b) < c THEN d = Append(b, v) /\ m = k ELSE d = [b EXCEPT ![k + 1] = v] /\ m = (k + 1) % c
  BY <1>1, <1>2 DEF Record
<1>5. PICK t : t = Append(o, v) OBVIOUS
<1>6. t \in Seq(Latencies) /\ Len(t) = n + 1 BY <1>3, <1>5, AppendProperties
<1>7. Kept(t, n + 1) = IF n < c THEN Append(Kept(o, n), v) ELSE Append(Tail(Kept(o, n)), v)
  BY <1>1, <1>3, <1>5, KeptNow
<1>8. /\ d \in Seq(Latencies) /\ m \in 0 .. c - 1 /\ (Len(d) < c => m = 0)
      /\ Len(d) = (IF n + 1 < c THEN n + 1 ELSE c)
      /\ Unroll(d, m) = Kept(t, n + 1)
  <2>1. CASE n < c
    <3>1. Len(b) = n /\ k = 0 /\ m = 0 /\ d = Append(b, v) BY <1>3, <1>4, <2>1
    <3>2. d \in Seq(Latencies) /\ Len(d) = n + 1 BY <1>3, <3>1, AppendProperties
    <3>3. Unroll(b, 0) = b BY <1>3, UnrolledFromStart
    <3>4. Unroll(d, 0) = d BY <3>2, UnrolledFromStart
    <3>5. Unroll(d, m) = Kept(t, n + 1) BY <1>3, <1>7, <2>1, <3>1, <3>3, <3>4
    <3> QED BY <1>3, <2>1, <3>1, <3>2, <3>5
  <2>2. CASE ~ (n < c)
    <3>1. Len(b) = c /\ d = [b EXCEPT ![k + 1] = v] /\ m = (k + 1) % c BY <1>3, <1>4, <2>2
    <3>2. b \in Seq(Latencies) /\ k \in 0 .. Len(b) - 1 /\ v \in Latencies /\ m = (k + 1) % Len(b)
      BY <1>3, <3>1
    <3>3. d \in Seq(Latencies) /\ Overwritten(b, k, v, d, m) BY ONLY <3>1, <3>2, SlotOverwritten
    <3>4. c \in Nat \ {0} /\ Len(b) = c /\ k \in 0 .. c - 1 BY <1>3, <3>1
    <3>5. Unroll(d, m) = Append(Tail(Unroll(b, k)), v) BY ONLY <3>2, <3>3, <3>4, RingSlides
    <3>6. Len(d) = c /\ m \in 0 .. c - 1 BY <3>3, <3>4 DEF Overwritten
    <3> QED BY <1>3, <1>7, <2>2, <3>3, <3>5, <3>6
  <2> QED BY <2>1, <2>2
<1>9. Len(d) <= c BY <1>3, <1>8
<1>10. cap' = cap BY DEF cap
<1>11. observed' = t /\ Len(observed') = n + 1 BY <1>1, <1>5, <1>6
<1>12. Kept(observed, Len(observed))' = Kept(t, n + 1) BY <1>11 DEF Kept, cap
<1>13. Unroll(samples, slot)' = Unroll(d, m) BY <1>2 DEF Unroll
<1>14. c = cap /\ d = samples' /\ m = slot' BY <1>1, <1>2
<1> HIDE DEF cap
<1>15. RingHolds'
  <2>1. Len(samples)' = (IF Len(observed)' < cap' THEN Len(observed)' ELSE cap')
    BY <1>8, <1>10, <1>11, <1>14
  <2>2. Len(samples)' < cap' => slot' = 0 BY <1>8, <1>10, <1>14
  <2> QED BY <1>8, <1>12, <1>13, <2>1, <2>2 DEF RingHolds
<1> QED BY <1>8, <1>9, <1>14, <1>15

LEMMA HistStep == HistInv /\ [HistogramNext]_histogramVars => HistInv'
<1> SUFFICES ASSUME HistInv, [HistogramNext]_histogramVars PROVE HistInv'
  OBVIOUS
<1>0. cap' = cap /\ Quantiles' = Quantiles BY DEF cap, Quantiles
<1>1. ASSUME NEW v \in Latencies, ObserveLatency(v) PROVE HistInv'
  <2>1. /\ Record(v) /\ count' = count + 1 /\ sum' = sum + v
        /\ observed' = Append(observed, v) /\ report' = report
    BY <1>1 DEF ObserveLatency
  <2>2. /\ samples' \in Seq(Latencies) /\ Len(samples') <= cap /\ slot' \in 0 .. cap - 1
        /\ RingHolds'
    BY <2>1, RecordKeeps
  <2>3. PICK o, t : o = observed /\ t = observed' OBVIOUS
  <2>4. o \in Seq(Latencies) /\ t = Append(o, v) BY <2>1, <2>3 DEF HistInv, HistogramTypeOK
  <2>5. t \in Seq(Latencies) /\ Len(t) = Len(o) + 1 /\ Len(o) \in Nat BY <2>4, AppendProperties
  <2>6. v \in Nat BY NatLatencies
  <2>7. sum \in Nat /\ count \in Nat /\ Len(report) <= Len(Quantiles) + 1
    BY DEF HistInv, HistogramTypeOK
  <2>8. HistogramTypeOK'
    <3>1. sum' \in Nat /\ count' \in Nat /\ observed' \in Seq(Latencies) BY <2>1, <2>3, <2>5, <2>6, <2>7
    <3>2. Len(report)' <= Len(Quantiles)' + 1 BY <1>0, <2>1, <2>7
    <3> QED BY <1>0, <2>2, <3>1, <3>2 DEF HistogramTypeOK
  <2>9. TotalsHold'
    <3>1. o \in Seq(Int) /\ v \in Int
      <4>1. Latencies \subseteq Int BY NatLatencies
      <4> QED BY <2>4, <2>6, <4>1, WiderSeq
    <3>2. SumFunction(t) = SumFunction(o) + v BY <2>4, <3>1, SumOfAppended
    <3>3. count = Len(o) /\ sum = SumFunction(o) BY <2>3 DEF HistInv, TotalsHold
    <3>4. count' = Len(t) /\ sum' = SumFunction(t) BY <2>1, <2>5, <3>2, <3>3
    <3> QED BY <2>3, <3>4 DEF TotalsHold
  <2>10. LinesHold'
    <3>1. report \in Seq(Entries) BY DEF HistInv, LinesHold
    <3>2. ASSUME NEW i \in 1 .. Len(report)
          PROVE  report[i].of <= Len(t) /\ LineHolds(i, report[i], t)
      <4>1. PICK e : e = report[i] OBVIOUS
      <4>2. e.of <= Len(o) /\ LineHolds(i, e, o) BY <2>3, <4>1 DEF HistInv, LinesHold
      <4>3. e \in Entries BY <3>1, <4>1
      <4>4. LineHolds(i, e, t) BY <2>4, <4>2, <4>3, LaterHolds
      <4>5. e.of \in Nat BY <4>3 DEF Entries
      <4> QED BY <2>5, <4>1, <4>2, <4>4, <4>5
    <3>3. \A i, e : LineHolds(i, e, observed)' = LineHolds(i, e, observed')
      BY DEF LineHolds, Kept, cap, HasRank, Quantiles
    <3> QED BY <2>1, <2>3, <3>1, <3>2, <3>3 DEF LinesHold
  <2> QED BY <2>2, <2>8, <2>9, <2>10 DEF HistInv
<1>2. ASSUME ScrapeLine PROVE HistInv'
  <2>1. /\ report' = IF Len(report) > Len(Quantiles) THEN <<Line(1)>>
                     ELSE Append(report, Line(Len(report) + 1))
        /\ UNCHANGED <<samples, slot, count, sum, observed>>
    BY <1>2 DEF ScrapeLine
  <2>2. report \in Seq(Entries) /\ Len(report) \in Nat /\ Len(report) <= 4 /\ Len(Quantiles) = 3
    BY QuantilesType DEF HistInv, HistogramTypeOK, LinesHold
  <2>3. PICK r, x : r = report /\ x = report' OBVIOUS
  <2>4. /\ x \in Seq(Entries) /\ Len(x) <= 4
        /\ \A i \in 1 .. Len(x) : x[i].of <= Len(observed) /\ LineHolds(i, x[i], observed)
    <3>1. CASE Len(r) > Len(Quantiles)
      <4>1. PICK e : e = Line(1) OBVIOUS
      <4>2. e \in Entries /\ e.of <= Len(observed) /\ LineHolds(1, e, observed)
        <5>1. 1 \in 1 .. 4 OBVIOUS
        <5> QED BY <4>1, <5>1, LineNow
      <4>3. x = <<e>> BY <2>1, <2>3, <3>1, <4>1
      <4>4. x \in Seq(Entries) /\ Len(x) = 1 /\ x[1] = e BY <4>2, <4>3
      <4>5. \A i \in 1 .. Len(x) : i = 1 /\ x[i] = e BY <4>4
      <4> QED BY <4>2, <4>4, <4>5
    <3>2. CASE ~ (Len(r) > Len(Quantiles))
      <4>1. PICK l, e : l = Len(r) + 1 /\ e = Line(l) OBVIOUS
      <4>2. l \in 1 .. 4 BY <2>2, <2>3, <3>2, <4>1
      <4>3. e \in Entries /\ e.of <= Len(observed) /\ LineHolds(l, e, observed) BY <4>1, <4>2, LineNow
      <4>4. x = Append(r, e) /\ r \in Seq(Entries) BY <2>1, <2>2, <2>3, <3>2, <4>1
      <4>5. /\ x \in Seq(Entries) /\ Len(x) = l /\ x[l] = e
            /\ \A i \in 1 .. Len(r) : x[i] = r[i]
        BY <4>1, <4>3, <4>4, AppendProperties
      <4>6. ASSUME NEW i \in 1 .. Len(x) PROVE x[i].of <= Len(observed) /\ LineHolds(i, x[i], observed)
        <5>1. CASE i = l BY <4>3, <4>5, <5>1
        <5>2. CASE i # l
          <6>1. i \in 1 .. Len(r) BY <2>2, <2>3, <4>1, <4>5, <5>2
          <6>2. r[i].of <= Len(observed) /\ LineHolds(i, r[i], observed) BY <2>3, <6>1 DEF HistInv, LinesHold
          <6> QED BY <4>5, <6>1, <6>2
        <5> QED BY <5>1, <5>2
      <4> QED BY <4>2, <4>5, <4>6
    <3> QED BY <3>1, <3>2
  <2>5. HistogramTypeOK' BY <1>0, <2>1, <2>2, <2>3, <2>4 DEF HistInv, HistogramTypeOK
  <2>6. RingHolds' BY <2>1 DEF HistInv, RingHolds, Unroll, Kept, cap
  <2>7. TotalsHold' BY <2>1 DEF HistInv, TotalsHold
  <2>8. \A i, e : LineHolds(i, e, observed)' = LineHolds(i, e, observed)
    BY <2>1 DEF LineHolds, Kept, cap, HasRank, Quantiles
  <2>9. LinesHold' BY <2>1, <2>3, <2>4, <2>8 DEF LinesHold
  <2> QED BY <2>5, <2>6, <2>7, <2>9 DEF HistInv
<1>3. CASE UNCHANGED histogramVars
  <2>1. UNCHANGED <<samples, slot, count, sum, observed, report>> BY <1>3 DEF histogramVars
  <2>2. HistogramTypeOK' BY <1>0, <2>1 DEF HistInv, HistogramTypeOK
  <2>3. RingHolds' BY <2>1 DEF HistInv, RingHolds, Unroll, Kept, cap
  <2>4. TotalsHold' BY <2>1 DEF HistInv, TotalsHold
  <2>5. \A i, e : LineHolds(i, e, observed)' = LineHolds(i, e, observed)
    BY <2>1 DEF LineHolds, Kept, cap, HasRank, Quantiles
  <2>6. LinesHold' BY <2>1, <2>5 DEF HistInv, LinesHold
  <2> QED BY <2>2, <2>3, <2>4, <2>6 DEF HistInv
<1> QED BY <1>1, <1>2, <1>3 DEF HistogramNext

LEMMA HistInvHolds == HistogramSpec => []HistInv
BY HistInitially, HistStep, PTL DEF HistogramSpec

(* The histogram's ring stays within its capacity, its slot within the     *)
(* ring, and a report within its lines (Observe, Handler).                 *)
THEOREM HistogramIsTyped == HistogramSpec => []HistogramTypeOK
BY HistInvHolds, PTL DEF HistInv

(* Whatever is observed between the lines of a report, each quantile has   *)
(* its rank among the last observations at one moment of the scrape, and   *)
(* the sum is that of as many observations as the count says (Observe,     *)
(* Quantile, Handler).                                                     *)
THEOREM ReportsAreTrue == HistogramSpec => []ScrapeIsTrue
BY HistInvHolds, ScrapeFollows, PTL

-----------------------------------------------------------------------------
(* One run of all components.  They share no variable, so a step of one is *)
(* a stutter of the others.                                                *)

LEMMA StepOfEach ==
  ComponentsNext => /\ [Next]_vars /\ [FenceNext]_fence /\ [SimNext]_simVars
                    /\ [HistogramNext]_histogramVars /\ [FeedNext]_feedVars
BY DEF ComponentsNext

LEMMA StutterOfEach ==
  UNCHANGED <<running, vars, fence, simVars, histogramVars, feedVars>> =>
    /\ [Next]_vars /\ [FenceNext]_fence /\ [SimNext]_simVars
    /\ [HistogramNext]_histogramVars /\ [FeedNext]_feedVars
OBVIOUS

(* A behavior of the run that checks the components together is a behavior *)
(* of each of them by itself, so what is proved of each holds in it.       *)
THEOREM ComponentsAreSeparate ==
  ComponentsSpec => Spec /\ FenceSpec /\ SimSpec /\ HistogramSpec /\ FeedSpec
<1>1. ComponentsInit => Init /\ FenceInit /\ SimInit /\ HistogramInit /\ FeedInit
  BY DEF ComponentsInit
<1> QED
  BY <1>1, StepOfEach, StutterOfEach, PTL
  DEF ComponentsSpec, Spec, FenceSpec, SimSpec, HistogramSpec, FeedSpec

(* Values have their types in all components, whichever runs.              *)
THEOREM ComponentsAreTyped == ComponentsSpec => []ComponentsTypeOK
BY ComponentsAreSeparate, DetectorIsTyped, FenceTypes, VehicleIsTyped, HistogramIsTyped,
   FeedIsTyped, PTL
DEF ComponentsTypeOK

=============================================================================

-------------------------- MODULE AlertEngineProofs --------------------------
(***************************************************************************)
(* Proofs about the alert service, for any fleet, any readings, any        *)
(* threshold of lost-comms and any number of restarts.                     *)
(*                                                                         *)
(* The inductive invariant relates four places a lost-comms alert may be   *)
(* in: the flag of its vehicle, the sweeper's list of alerts to fire, the  *)
(* alerts fired, and, by way of the clock, the alerts still to come: a     *)
(* message that arrives now is younger than every gap reported so far.     *)
(***************************************************************************)
EXTENDS AlertEngine, SequenceTheorems, FiniteSetTheorems, TLAPS

ConsumerPc == EdgeTypes \cup {"idle", "anomaly", "done"} \cup Firing
NextPc == {"idle", "low_battery", "anomaly", "done"}

(* The goroutines hold a message and an alert where they need one. *)
Goroutines ==
  /\ consumer \in [pc : ConsumerPc, next : NextPc,
                   msg : Message \cup {None}, alert : Alert \cup {None}]
  /\ consumer.pc # "idle" => consumer.msg \in Message
  /\ consumer.pc \in Firing =>
       consumer.alert \in Alert /\ consumer.next # "idle"
  /\ sweeper \in [pc : {"rest", "sweep", "fire"} \cup Firing, at : Nat,
                  out : SUBSET Alert, alert : Alert \cup {None}]
  /\ sweeper.pc \in Firing => sweeper.alert \in Alert
  /\ sweeper.at <= now

LostComms(a) == a.type = "lost_comms"

(* The alerts about gaps: those fired and those the sweeper is to fire. *)
Pending == sweeper.out

GapOf(a, b) == a.v = b.v /\ a.ts = b.ts

(* A gap is over before the sweep that reports it. *)
Past(a) == a.ts < a.at /\ a.at <= now

GapInv ==
  /\ \A v \in DOMAIN lastSeen : lastSeen[v].last <= now
  /\ sweeper.pc \in {"rest", "sweep"} => Pending = {}
  /\ \A a \in Pending : LostComms(a) /\ Past(a)
  /\ \A i \in DOMAIN fired : LostComms(fired[i]) => Past(fired[i])
  /\ \A a, b \in Pending : a.v = b.v => a = b
  /\ \A a \in Pending : \A i \in DOMAIN fired :
       ~ (LostComms(fired[i]) /\ GapOf(a, fired[i]))

EngineTypes == TypeOK /\ Goroutines

LostInv == GapInv /\ OneAlertPerGap /\ LostFlagIsHonest

EngineInv == EngineTypes /\ LostInv

(* What LostFlagIsHonest says of the flag of v: the last gap is reported.  *)
OfGap(a, v) == a.v = v /\ LostComms(a) /\ a.ts = lastSeen[v].last

Reported(v) ==
  (\E i \in DOMAIN fired : OfGap(fired[i], v)) \/ (\E a \in Pending : OfGap(a, v))

-----------------------------------------------------------------------------
(* Lists of alerts. *)

LEMMA PushedList ==
  ASSUME recent \in Seq(Alert), NEW a \in Alert, recent' = <<a>> \o recent
  PROVE  /\ recent' \in Seq(Alert) /\ Len(recent') = Len(recent) + 1
         /\ \A i \in DOMAIN recent' :
              recent'[i] = a \/ \E j \in DOMAIN recent : recent'[i] = recent[j]
<1>1. PICK b, r : b = <<a>> /\ r = recent OBVIOUS
<1>2. b \in Seq(Alert) /\ Len(b) = 1 /\ b[1] = a BY <1>1
<1>3. r \in Seq(Alert) BY <1>1
<1>4. PICK s : s = b \o r OBVIOUS
<1>5. /\ s \in Seq(Alert) /\ Len(s) = Len(b) + Len(r)
      /\ \A i \in 1 .. Len(b) + Len(r) : s[i] = IF i <= Len(b) THEN b[i] ELSE r[i - Len(b)]
  BY <1>2, <1>3, <1>4, ConcatProperties
<1>6. Len(r) \in Nat /\ DOMAIN r = 1 .. Len(r) /\ DOMAIN s = 1 .. Len(s)
  BY <1>3, <1>5, LenProperties
<1>7. ASSUME NEW i \in DOMAIN s PROVE s[i] = a \/ \E j \in DOMAIN r : s[i] = r[j]
  <2>1. i \in 1 .. Len(b) + Len(r) BY <1>5, <1>6
  <2>2. CASE i = 1
    <3>1. s[i] = b[1] BY <1>2, <1>5, <2>1, <2>2
    <3> QED BY <1>2, <3>1
  <2>3. CASE i # 1
    <3>1. ~ (i <= Len(b)) /\ i - Len(b) \in DOMAIN r BY <1>2, <1>6, <2>1, <2>3
    <3>2. s[i] = r[i - Len(b)] BY <1>5, <2>1, <3>1
    <3> QED BY <3>1, <3>2
  <2> QED BY <2>2, <2>3
<1>8. recent' = s BY <1>1, <1>4
<1>9. Len(s) = Len(r) + 1 BY <1>2, <1>5, <1>6
<1> QED BY <1>1, <1>5, <1>7, <1>8, <1>9

LEMMA TrimmedList ==
  ASSUME recent \in Seq(Alert), recent' = Capped(recent)
  PROVE  /\ recent' \in Seq(Alert)
         /\ Len(recent') = IF Len(recent) > RecentMax THEN RecentMax ELSE Len(recent)
         /\ \A i \in DOMAIN recent' : i \in DOMAIN recent /\ recent'[i] = recent[i]
<1>1. PICK s : s = recent OBVIOUS
<1>2. s \in Seq(Alert) /\ Len(s) \in Nat /\ DOMAIN s = 1 .. Len(s)
  BY <1>1, LenProperties
<1>3. PICK n : n = IF Len(s) > RecentMax THEN RecentMax ELSE Len(s) OBVIOUS
<1>4. n \in Nat /\ n <= Len(s)
  <2>1. PICK k, r : k = Len(s) /\ r = RecentMax OBVIOUS
  <2>2. k \in Nat /\ r \in Nat BY <1>2, <2>1, EngineAssumption
  <2>3. n = IF k > r THEN r ELSE k BY <1>3, <2>1
  <2> QED BY <2>1, <2>2, <2>3
<1>5. \A i \in 1 .. n : s[i] \in Alert
  <2>1. \A i \in 1 .. n : i \in 1 .. Len(s) BY <1>2, <1>4
  <2> QED BY <1>2, <2>1, ElementOfSeq
<1>6. PICK q : q = SubSeq(s, 1, n) OBVIOUS
<1>7. /\ q \in Seq(Alert) /\ Len(q) = n /\ \A i \in 1 .. n : q[i] = s[i]
  <2>1. /\ SubSeq(s, 1, n) \in Seq(Alert)
        /\ Len(SubSeq(s, 1, n)) = IF 1 <= n THEN n - 1 + 1 ELSE 0
        /\ \A i \in 1 .. n - 1 + 1 : SubSeq(s, 1, n)[i] = s[1 + i - 1]
    BY <1>4, <1>5, SubSeqProperties
  <2>2. \A i \in 1 .. n : i \in 1 .. n - 1 + 1 /\ 1 + i - 1 = i BY <1>4
  <2> QED BY <1>4, <1>6, <2>1, <2>2
<1>8. DOMAIN q = 1 .. n BY <1>7, LenProperties
<1>9. recent' = q BY <1>1, <1>3, <1>6 DEF Capped
<1>10. \A i \in 1 .. n : i \in 1 .. Len(s) BY <1>2, <1>4
<1> QED BY <1>1, <1>2, <1>3, <1>7, <1>8, <1>9, <1>10

LEMMA AppendAlert ==
  ASSUME NEW s \in Seq(Alert), NEW a \in Alert
  PROVE  /\ Append(s, a) \in Seq(Alert)
         /\ DOMAIN Append(s, a) = DOMAIN s \cup {Len(s) + 1}
         /\ Len(s) + 1 \notin DOMAIN s
         /\ Append(s, a)[Len(s) + 1] = a
         /\ \A i \in DOMAIN s : Append(s, a)[i] = s[i]
<1>1. /\ Append(s, a) \in Seq(Alert) /\ Len(Append(s, a)) = Len(s) + 1
      /\ \A i \in 1 .. Len(s) : Append(s, a)[i] = s[i]
      /\ Append(s, a)[Len(s) + 1] = a
  BY AppendProperties
<1>2. Len(s) \in Nat /\ DOMAIN s = 1 .. Len(s) /\ DOMAIN Append(s, a) = 1 .. Len(s) + 1
  BY <1>1, LenProperties
<1> QED BY <1>1, <1>2

LEMMA RedisTypes ==
  ASSUME published \in Seq(Alert), recent \in Seq(Alert),
         TrimAlerts \/ \E a \in Alert : PublishAlert(a) \/ PushAlert(a)
  PROVE  published' \in Seq(Alert) /\ recent' \in Seq(Alert)
<1>1. \A a \in Alert : Append(published, a) \in Seq(Alert) BY AppendProperties
<1>2. recent' = Capped(recent) => recent' \in Seq(Alert) BY TrimmedList
<1>3. ASSUME NEW a \in Alert PROVE recent' = <<a>> \o recent => recent' \in Seq(Alert)
  BY PushedList
<1> QED BY <1>1, <1>2, <1>3 DEF PublishAlert, PushAlert, TrimAlerts

-----------------------------------------------------------------------------
(* The types. *)

LEMMA SeenTypes ==
  ASSUME EngineTypes, NEW m \in Message, Seen(m)
  PROVE  EngineTypes'
<1> USE DEF EngineTypes, TypeOK, Goroutines, Firing
<1>1. m.v \in Vehicles BY DEF Message
<1>2. /\ DOMAIN lastSeen' = DOMAIN lastSeen \cup {m.v}
      /\ \A v \in DOMAIN lastSeen' :
           lastSeen'[v] = IF v = m.v THEN [last |-> now, lostFired |-> FALSE] ELSE lastSeen[v]
  BY DEF Seen, Put
<1>3. history' \in [Vehicles -> Seq(Message)]
  <2>1. Append(history[m.v], m) \in Seq(Message) BY <1>1, AppendProperties
  <2> QED BY <1>1, <2>1 DEF Seen
<1>4. /\ consumer'.pc = "geofence" /\ consumer'.msg = m
      /\ consumer' \in [pc : ConsumerPc, next : NextPc,
                        msg : Message \cup {None}, alert : Alert \cup {None}]
  BY DEF Seen, Idle, ConsumerPc, NextPc, EdgeTypes
<1>5. /\ DOMAIN lastSeen' \subseteq Vehicles
      /\ \A v \in DOMAIN lastSeen' : lastSeen'[v] \in [last : Nat, lostFired : BOOLEAN]
  <2>1. [last |-> now, lostFired |-> FALSE] \in [last : Nat, lostFired : BOOLEAN] OBVIOUS
  <2> QED BY <1>1, <1>2, <2>1
<1>6. UNCHANGED <<now, active, sweeper, fired, published, recent, restarts>>
  BY DEF Seen, redis
<1>7. TypeOK' BY <1>3, <1>4, <1>5, <1>6 DEF ConsumerPc
<1>8. Goroutines' BY <1>4, <1>6
<1> QED BY <1>7, <1>8

LEMMA ProceedTypes ==
  ASSUME EngineTypes, consumer.pc # "idle", NEW next \in NextPc \ {"idle"},
         NEW alerts \in SUBSET Alert, Proceed(next, alerts)
  PROVE  /\ consumer' \in [pc : ConsumerPc, next : NextPc,
                           msg : Message \cup {None}, alert : Alert \cup {None}]
         /\ consumer'.msg \in Message
         /\ consumer'.pc \in Firing =>
              consumer'.alert \in Alert /\ consumer'.next # "idle"
         /\ fired' \in Seq(Alert)
<1> USE DEF EngineTypes, TypeOK, Goroutines, Firing
<1>1. CASE alerts = {} /\ consumer' = [consumer EXCEPT !.pc = next] /\ UNCHANGED fired
  BY <1>1 DEF NextPc, ConsumerPc, EdgeTypes
<1>2. ASSUME NEW a \in alerts,
             consumer' = [consumer EXCEPT !.pc = "publish", !.next = next, !.alert = a],
             fired' = Append(fired, a)
      PROVE  /\ consumer' \in [pc : ConsumerPc, next : NextPc,
                               msg : Message \cup {None}, alert : Alert \cup {None}]
             /\ consumer'.msg \in Message
             /\ consumer'.alert \in Alert /\ consumer'.next # "idle"
             /\ fired' \in Seq(Alert)
  BY <1>2, AppendAlert DEF ConsumerPc
<1> QED BY <1>1, <1>2 DEF Proceed

LEMMA ConsumerTypes ==
  ASSUME EngineTypes, ConsumerStep
  PROVE  EngineTypes'
<1> USE DEF EngineTypes, TypeOK, Goroutines, Firing
<1> DEFINE Consumer == [pc : ConsumerPc, next : NextPc,
                        msg : Message \cup {None}, alert : Alert \cup {None}]
           Busy == /\ consumer' \in Consumer
                   /\ consumer'.pc # "idle" => consumer'.msg \in Message
                   /\ consumer'.pc \in Firing =>
                        consumer'.alert \in Alert /\ consumer'.next # "idle"
<1>1. ASSUME NEW v \in Vehicles, NEW type \in Types PROVE newAlert(v, type, now) \in Alert
  BY DEF newAlert, Alert
<1>2. ASSUME Busy, fired' \in Seq(Alert), active' \subseteq Vehicles \X EdgeTypes,
             UNCHANGED <<now, lastSeen, sweeper, history, redis, restarts>>
      PROVE  EngineTypes'
  BY <1>2 DEF redis, ConsumerPc
<1>3. ASSUME NEW type \in EdgeTypes, NEW next \in NextPc \ {"idle"}, transition(type, next)
      PROVE  EngineTypes'
  <2>1. consumer.pc # "idle" /\ consumer.msg.v \in Vehicles
    BY <1>3 DEF transition, EdgeTypes, Message
  <2>2. type \in Types BY DEF Types
  <2>3. Busy /\ fired' \in Seq(Alert)
    BY <1>1, <1>3, <2>1, <2>2, ProceedTypes DEF transition
  <2>4. active' \subseteq Vehicles \X EdgeTypes BY <1>3, <2>1 DEF transition
  <2> QED BY <1>2, <1>3, <2>3, <2>4 DEF transition
<1>4. CASE Anomaly
  <2>1. consumer.pc # "idle" /\ consumer.msg.v \in Vehicles BY <1>4 DEF Anomaly, Message
  <2>2. "anomaly" \in Types /\ "done" \in NextPc \ {"idle"} BY DEF Types, NextPc
  <2>3. Busy /\ fired' \in Seq(Alert)
    BY <1>1, <1>4, <2>1, <2>2, ProceedTypes DEF Anomaly
  <2> QED BY <1>2, <1>4, <2>3 DEF Anomaly
<1>5. CASE Done
  <2>1. Busy BY <1>5 DEF Done, Idle, ConsumerPc, NextPc
  <2> QED BY <1>2, <1>5, <2>1 DEF Done
<1>6. CASE ConsumerPublishes \/ ConsumerPushes
  <2>1. consumer.alert \in Alert /\ consumer.next # "idle" /\ consumer.msg \in Message
    BY <1>6 DEF ConsumerPublishes, ConsumerPushes, Firing
  <2>2. published' \in Seq(Alert) /\ recent' \in Seq(Alert)
    BY <1>6, <2>1, RedisTypes DEF ConsumerPublishes, ConsumerPushes
  <2>3. ASSUME NEW to \in Firing, consumer' = [consumer EXCEPT !.pc = to] PROVE Busy
    BY <2>1, <2>3 DEF ConsumerPc
  <2>4. Busy BY <1>6, <2>3 DEF ConsumerPublishes, ConsumerPushes, Firing
  <2> QED BY <1>6, <2>2, <2>4 DEF ConsumerPublishes, ConsumerPushes, ConsumerPc
<1>7. CASE ConsumerTrims
  <2>1. consumer.next \in NextPc \ {"idle"} /\ consumer.msg \in Message
    BY <1>7 DEF ConsumerTrims, Firing
  <2>2. published' \in Seq(Alert) /\ recent' \in Seq(Alert)
    BY <1>7, RedisTypes DEF ConsumerTrims
  <2>3. NextPc \subseteq ConsumerPc /\ \A n \in NextPc : n \notin Firing
    BY DEF NextPc, ConsumerPc, EdgeTypes, Firing
  <2>4. Busy BY <1>7, <2>1, <2>3 DEF ConsumerTrims
  <2> QED BY <1>7, <2>2, <2>4 DEF ConsumerTrims, ConsumerPc
<1>8. /\ "geofence" \in EdgeTypes /\ "low_battery" \in EdgeTypes
      /\ "low_battery" \in NextPc \ {"idle"} /\ "anomaly" \in NextPc \ {"idle"}
  BY DEF EdgeTypes, NextPc
<1> QED
  BY <1>3, <1>4, <1>5, <1>6, <1>7, <1>8 DEF ConsumerStep, Geofence, LowBattery

LEMMA SweeperTypes ==
  ASSUME EngineTypes, SweeperStep
  PROVE  EngineTypes'
<1> USE DEF EngineTypes, TypeOK, Goroutines, Firing
<1>1. CASE SweepTick
  <2>1. sweeper' = [pc |-> "sweep", at |-> now, out |-> {}, alert |-> None]
    BY <1>1 DEF SweepTick, Resting
  <2>2. UNCHANGED <<now, lastSeen, active, consumer, history, fired, published, recent, restarts>>
    BY <1>1 DEF SweepTick, redis
  <2> QED BY <2>1, <2>2
<1>2. CASE SweepLostComms
  <2>1. \A v \in DOMAIN lastSeen :
          [v |-> v, type |-> "lost_comms", ts |-> lastSeen[v].last, at |-> sweeper.at] \in Alert
    BY DEF Alert, Types
  <2> DEFINE late == {v \in DOMAIN lastSeen :
                        ~ lastSeen[v].lostFired /\ sweeper.at - lastSeen[v].last > LostCommsAfter}
             found == {[v |-> v, type |-> "lost_comms", ts |-> lastSeen[v].last,
                        at |-> sweeper.at] : v \in late}
  <2>2. found \in SUBSET Alert BY <2>1
  <2>3. sweeper' = [sweeper EXCEPT !.pc = "fire", !.out = found]
    BY <1>2 DEF SweepLostComms
  <2>4. /\ DOMAIN lastSeen' \subseteq Vehicles
        /\ \A v \in DOMAIN lastSeen' : lastSeen'[v] \in [last : Nat, lostFired : BOOLEAN]
    BY <1>2 DEF SweepLostComms
  <2> HIDE DEF found
  <2>5. /\ sweeper'.pc = "fire" /\ sweeper'.at = sweeper.at
        /\ sweeper'.out \subseteq Alert /\ sweeper'.alert \in Alert \cup {None}
        /\ sweeper' \in [pc : {"rest", "sweep", "fire"} \cup Firing, at : Nat,
                         out : SUBSET Alert, alert : Alert \cup {None}]
    BY <2>2, <2>3
  <2> QED BY <1>2, <2>4, <2>5 DEF SweepLostComms, redis
<1>3. CASE SweepEnds
  BY <1>3 DEF SweepEnds, Resting, redis
<1>4. ASSUME NEW a \in sweeper.out, SweeperFires(a) PROVE EngineTypes'
  <2>1. a \in Alert OBVIOUS
  <2>2. fired' \in Seq(Alert) BY <1>4, <2>1, AppendAlert DEF SweeperFires
  <2> QED BY <1>4, <2>1, <2>2 DEF SweeperFires, redis
<1>5. CASE SweeperPublishes \/ SweeperPushes \/ SweeperTrims
  <2>1. sweeper.alert \in Alert
    BY <1>5 DEF SweeperPublishes, SweeperPushes, SweeperTrims, Firing
  <2>2. published' \in Seq(Alert) /\ recent' \in Seq(Alert)
    BY <1>5, <2>1, RedisTypes DEF SweeperPublishes, SweeperPushes, SweeperTrims
  <2>3. /\ \/ \E to \in Firing : sweeper' = [sweeper EXCEPT !.pc = to]
           \/ sweeper' = [sweeper EXCEPT !.pc = "fire", !.alert = None]
        /\ UNCHANGED <<now, lastSeen, active, consumer, history, fired, restarts>>
    BY <1>5 DEF SweeperPublishes, SweeperPushes, SweeperTrims, Firing
  <2>4. "fire" \notin Firing BY DEF Firing
  <2> QED BY <2>1, <2>2, <2>3, <2>4
<1> QED BY <1>1, <1>2, <1>3, <1>4, <1>5 DEF SweeperStep

LEMMA NextTypes ==
  ASSUME EngineTypes, [Next]_vars
  PROVE  EngineTypes'
<1>1. CASE Tick BY <1>1 DEF Tick, EngineTypes, TypeOK, Goroutines, redis
<1>2. CASE Restart
  BY <1>2, EngineAssumption
  DEF Restart, EngineTypes, TypeOK, Goroutines, redis, Idle, Resting, ConsumerPc, NextPc,
      Firing
<1>3. CASE UNCHANGED vars BY <1>3 DEF vars, EngineTypes, TypeOK, Goroutines, redis
<1> QED
  BY <1>1, <1>2, <1>3, SeenTypes, ConsumerTypes, SweeperTypes DEF Next

-----------------------------------------------------------------------------
(* Gaps are reported once. *)

LEMMA FlagIsReported ==
  LostFlagIsHonest <=> \A v \in DOMAIN lastSeen : lastSeen[v].lostFired <=> Reported(v)
BY DEF LostFlagIsHonest, Reported, OfGap, LostComms, Pending

(* Steps that fire no alert about a gap, and look at no vehicle. *)
LEMMA QuietSteps ==
  ASSUME EngineInv, UNCHANGED <<now, lastSeen, Pending>>,
         sweeper'.pc \in {"rest", "sweep"} => Pending = {},
         \/ fired' = fired
         \/ \E a \in Alert : ~ LostComms(a) /\ fired' = Append(fired, a)
  PROVE  LostInv'
<1> USE DEF EngineInv, EngineTypes, LostInv
<1>1. /\ DOMAIN fired \subseteq DOMAIN fired'
      /\ \A i \in DOMAIN fired : fired'[i] = fired[i]
      /\ \A i \in DOMAIN fired' \ DOMAIN fired : ~ LostComms(fired'[i])
  <2>1. CASE fired' = fired BY <2>1
  <2>2. ASSUME NEW a \in Alert, ~ LostComms(a), fired' = Append(fired, a)
        PROVE  /\ DOMAIN fired \subseteq DOMAIN fired'
               /\ \A i \in DOMAIN fired : fired'[i] = fired[i]
               /\ \A i \in DOMAIN fired' \ DOMAIN fired : ~ LostComms(fired'[i])
    BY <2>2, AppendAlert DEF TypeOK
  <2> QED BY <2>1, <2>2
<1>2. GapInv' BY <1>1 DEF GapInv, Pending, Past, LostComms, GapOf
<1>3. OneAlertPerGap' BY <1>1 DEF OneAlertPerGap, LostComms
<1>4. LostFlagIsHonest'
  <2>1. ASSUME NEW v \in DOMAIN lastSeen PROVE Reported(v)' <=> Reported(v)
    BY <1>1 DEF Reported, OfGap, Pending, LostComms
  <2> QED BY <2>1, FlagIsReported DEF LostFlagIsHonest, Reported, OfGap, LostComms, Pending
<1> QED BY <1>2, <1>3, <1>4

(* A message starts a new gap, which is of now: no report is of now.       *)
LEMMA SeenLost ==
  ASSUME EngineInv, NEW m \in Message, Seen(m)
  PROVE  LostInv'
<1> USE DEF EngineInv, EngineTypes, LostInv
<1>1. /\ DOMAIN lastSeen' = DOMAIN lastSeen \cup {m.v}
      /\ lastSeen'[m.v] = [last |-> now, lostFired |-> FALSE]
      /\ \A v \in DOMAIN lastSeen' : v # m.v => v \in DOMAIN lastSeen /\ lastSeen'[v] = lastSeen[v]
      /\ UNCHANGED <<now, sweeper, fired>>
  BY DEF Seen, Put
<1>2. GapInv'
  BY <1>1 DEF GapInv, Pending, Past, LostComms, GapOf, TypeOK
<1>3. OneAlertPerGap' BY <1>1 DEF OneAlertPerGap
<1>4. ASSUME NEW a \in Alert, Past(a) PROVE a.ts # now
  BY <1>4 DEF Past, Alert, TypeOK
<1>5. ASSUME NEW v \in DOMAIN lastSeen' PROVE lastSeen'[v].lostFired <=> Reported(v)'
  <2>1. CASE v = m.v
    <3>1. ~ Reported(v)'
      BY <1>1, <1>4, <2>1 DEF Reported, OfGap, GapInv, Pending, LostComms, TypeOK
    <3> QED BY <1>1, <2>1, <3>1
  <2>2. CASE v # m.v
    <3>1. v \in DOMAIN lastSeen /\ lastSeen'[v] = lastSeen[v] BY <1>1, <2>2
    <3>2. Reported(v)' <=> Reported(v) BY <1>1, <3>1 DEF Reported, OfGap, Pending, LostComms
    <3> QED BY <3>1, <3>2, FlagIsReported
  <2> QED BY <2>1, <2>2
<1>6. LostFlagIsHonest'
  BY <1>5 DEF LostFlagIsHonest, Reported, OfGap, LostComms, Pending
<1> QED BY <1>2, <1>3, <1>6

(* A sweep puts the vehicles it marks on its list, none of which had a     *)
(* report of this gap.                                                     *)
LEMMA SweepLost ==
  ASSUME EngineInv, SweepLostComms
  PROVE  LostInv'
<1> USE DEF EngineInv, EngineTypes, LostInv
<1> DEFINE late == {v \in DOMAIN lastSeen :
                      ~ lastSeen[v].lostFired /\ sweeper.at - lastSeen[v].last > LostCommsAfter}
           Report(v) == [v |-> v, type |-> "lost_comms", ts |-> lastSeen[v].last,
                         at |-> sweeper.at]
<1>1. /\ Pending = {} /\ Pending' = {Report(v) : v \in late} /\ sweeper'.pc = "fire"
      /\ DOMAIN lastSeen' = DOMAIN lastSeen
      /\ \A v \in DOMAIN lastSeen :
           /\ lastSeen'[v].last = lastSeen[v].last
           /\ lastSeen'[v].lostFired = (IF v \in late THEN TRUE ELSE lastSeen[v].lostFired)
      /\ UNCHANGED <<now, fired>>
  BY DEF SweepLostComms, GapInv, Pending, Goroutines, TypeOK
<1>2. \A v \in late : ~ Reported(v) BY FlagIsReported
<1>3. ASSUME NEW a \in Pending'
      PROVE  a.v \in late /\ a = Report(a.v) /\ LostComms(a) /\ Past(a)'
  <2>1. PICK v \in late : a = Report(v) BY <1>1
  <2>2. /\ lastSeen[v].last \in Nat /\ sweeper.at \in Nat /\ sweeper.at <= now /\ now' = now
        /\ sweeper.at - lastSeen[v].last > LostCommsAfter
    BY <1>1 DEF TypeOK, Goroutines
  <2> QED BY <2>1, <2>2, EngineAssumption DEF LostComms, Past
<1>4. ASSUME NEW a \in Pending', NEW i \in DOMAIN fired, LostComms(fired[i])
      PROVE  ~ GapOf(a, fired[i])
  BY <1>2, <1>3, <1>4 DEF Reported, OfGap, GapOf
<1>5. GapInv'
  <2>1. \A v \in DOMAIN lastSeen' : lastSeen'[v].last <= now' BY <1>1 DEF GapInv
  <2>2. \A i \in DOMAIN fired' : LostComms(fired'[i]) => Past(fired[i])'
    BY <1>1 DEF GapInv, Past
  <2>3. \A a, b \in Pending' : a.v = b.v => a = b BY <1>3
  <2> QED BY <1>1, <1>3, <1>4, <2>1, <2>2, <2>3 DEF GapInv, LostComms, Past, GapOf
<1>6. OneAlertPerGap' BY <1>1 DEF OneAlertPerGap
<1>7. ASSUME NEW v \in DOMAIN lastSeen' PROVE lastSeen'[v].lostFired <=> Reported(v)'
  <2>1. Reported(v)' <=> v \in late \/ Reported(v)
    <3>1. (\E a \in Pending' : OfGap(a, v)') <=> v \in late
      <4>1. ASSUME NEW a \in Pending', OfGap(a, v)' PROVE v \in late
        BY <1>3, <4>1 DEF OfGap
      <4>2. ASSUME v \in late, NEW a, a = Report(v)
            PROVE  a \in Pending' /\ OfGap(a, v)'
        <5>1. a \in Pending' BY <1>1, <4>2
        <5>2. a.v = v /\ a.type = "lost_comms" /\ a.ts = lastSeen'[v].last BY <1>1, <4>2
        <5> QED BY <5>1, <5>2 DEF OfGap, LostComms
      <4>3. PICK a : a = Report(v) OBVIOUS
      <4> QED BY <4>1, <4>2, <4>3
    <3>2. (\E i \in DOMAIN fired' : OfGap(fired[i], v)') <=> Reported(v)
      BY <1>1 DEF Reported, OfGap, LostComms
    <3> QED BY <3>1, <3>2 DEF Reported, OfGap, LostComms
  <2> QED BY <1>1, <2>1, FlagIsReported
<1>8. LostFlagIsHonest'
  BY <1>7 DEF LostFlagIsHonest, Reported, OfGap, LostComms, Pending
<1> QED BY <1>5, <1>6, <1>8

(* An alert that is fired leaves the list. *)
LEMMA FireLost ==
  ASSUME EngineInv, NEW a \in sweeper.out, SweeperFires(a)
  PROVE  LostInv'
<1> USE DEF EngineInv, EngineTypes, LostInv
<1>1. /\ a \in Alert /\ LostComms(a) /\ Past(a)
      /\ Pending' = Pending \ {a} /\ sweeper'.pc = "publish"
      /\ fired' = Append(fired, a) /\ UNCHANGED <<now, lastSeen>>
  BY DEF SweeperFires, Goroutines, TypeOK, GapInv, Pending
<1> DEFINE n == Len(fired) + 1
<1>2. /\ DOMAIN fired' = DOMAIN fired \cup {n} /\ n \notin DOMAIN fired
      /\ fired'[n] = a /\ \A i \in DOMAIN fired : fired'[i] = fired[i]
  BY <1>1, AppendAlert DEF TypeOK
<1> HIDE DEF n
<1>3. \A i \in DOMAIN fired : ~ (LostComms(fired[i]) /\ GapOf(a, fired[i]))
  BY DEF GapInv, Pending
<1>4. \A b \in Pending' : ~ GapOf(b, a) BY <1>1 DEF GapInv, GapOf, Pending
<1>5. GapInv'
  BY <1>1, <1>2, <1>4 DEF GapInv, Past, LostComms, GapOf
<1>6. OneAlertPerGap'
  BY <1>2, <1>3 DEF OneAlertPerGap, LostComms, GapOf
<1>7. ASSUME NEW v \in DOMAIN lastSeen PROVE Reported(v)' <=> Reported(v)
  <2>1. a \in Pending BY DEF Pending
  <2> QED BY <1>1, <1>2, <2>1 DEF Reported, OfGap, LostComms
<1>8. LostFlagIsHonest'
  <2>1. \A v \in DOMAIN lastSeen : lastSeen[v].lostFired <=> Reported(v)' BY <1>7, FlagIsReported
  <2> QED BY <1>1, <2>1 DEF LostFlagIsHonest, Reported, OfGap, LostComms, Pending
<1> QED BY <1>5, <1>6, <1>8

LEMMA TickLost ==
  ASSUME EngineInv, Tick
  PROVE  LostInv'
<1> USE DEF EngineInv, EngineTypes, LostInv
<1>1. now' = now + 1 /\ now \in Nat /\ UNCHANGED <<lastSeen, sweeper, fired>>
  BY DEF Tick, TypeOK
<1>2. ASSUME NEW a \in Alert, Past(a) PROVE Past(a)'
  BY <1>1, <1>2 DEF Past, Alert
<1>3. \A i \in DOMAIN fired : fired[i] \in Alert BY DEF TypeOK
<1>4. GapInv'
  <2>1. \A v \in DOMAIN lastSeen : lastSeen[v].last <= now' BY <1>1 DEF GapInv, TypeOK
  <2>2. \A b \in Pending' : LostComms(b) /\ Past(b)'
    BY <1>1, <1>2 DEF GapInv, Pending, TypeOK
  <2>3. \A i \in DOMAIN fired : LostComms(fired[i]) => Past(fired[i])'
    BY <1>1, <1>2, <1>3 DEF GapInv, Past
  <2> QED BY <1>1, <2>1, <2>2, <2>3 DEF GapInv, Pending, Past, LostComms, GapOf
<1>5. OneAlertPerGap' /\ LostFlagIsHonest' BY <1>1 DEF OneAlertPerGap, LostFlagIsHonest
<1> QED BY <1>4, <1>5

(* A restart forgets the flags, not the time of the reports. *)
LEMMA RestartLost ==
  ASSUME EngineInv, Restart
  PROVE  LostInv'
<1>1. /\ DOMAIN lastSeen' = {} /\ Pending' = {} /\ UNCHANGED <<now, fired>>
  BY DEF Restart, Pending, Resting
<1> QED
  BY <1>1
  DEF EngineInv, LostInv, GapInv, Past, LostComms, OneAlertPerGap, LostFlagIsHonest

LEMMA ConsumerLost ==
  ASSUME EngineInv, ConsumerStep
  PROVE  LostInv'
<1> USE DEF EngineInv, EngineTypes
<1>1. sweeper.pc \in {"rest", "sweep"} => Pending = {} BY DEF LostInv, GapInv
<1>2. ASSUME NEW next, NEW alerts \in SUBSET Alert, Proceed(next, alerts),
             \A a \in alerts : ~ LostComms(a), UNCHANGED <<now, lastSeen, sweeper>>
      PROVE  LostInv'
  BY <1>1, <1>2, QuietSteps DEF Proceed, Pending
<1>3. ASSUME NEW type \in EdgeTypes, NEW next, transition(type, next) PROVE LostInv'
  <2>1. newAlert(consumer.msg.v, type, now) \in Alert
    BY <1>3 DEF transition, Goroutines, EdgeTypes, Message, Alert, newAlert, Types, TypeOK
  <2>2. ~ LostComms(newAlert(consumer.msg.v, type, now))
    BY DEF newAlert, LostComms, EdgeTypes
  <2> QED BY <1>2, <1>3, <2>1, <2>2 DEF transition
<1>4. CASE Anomaly
  <2>1. newAlert(consumer.msg.v, "anomaly", now) \in Alert
    BY <1>4 DEF Anomaly, Goroutines, Message, Alert, newAlert, Types, TypeOK
  <2>2. ~ LostComms(newAlert(consumer.msg.v, "anomaly", now))
    BY DEF newAlert, LostComms
  <2> QED BY <1>2, <1>4, <2>1, <2>2 DEF Anomaly
<1>5. CASE UNCHANGED <<now, lastSeen, sweeper, fired>>
  BY <1>1, <1>5, QuietSteps DEF Pending
<1> QED
  BY <1>3, <1>4, <1>5
  DEF ConsumerStep, Geofence, LowBattery, Done, ConsumerPublishes, ConsumerPushes,
      ConsumerTrims,
      EdgeTypes

LEMMA SweeperLost ==
  ASSUME EngineInv, SweeperStep
  PROVE  LostInv'
<1> USE DEF EngineInv, EngineTypes
<1>1. /\ sweeper.pc \in {"rest", "sweep"} => Pending = {}
      /\ sweeper \in [pc : {"rest", "sweep", "fire"} \cup Firing, at : Nat,
                      out : SUBSET Alert, alert : Alert \cup {None}]
  BY DEF LostInv, GapInv, Goroutines
<1>2. CASE SweepTick
  BY <1>1, <1>2, QuietSteps DEF SweepTick, Resting, Pending
<1>3. CASE SweepEnds
  BY <1>1, <1>3, QuietSteps DEF SweepEnds, Resting, Pending
<1>4. CASE SweeperPublishes
  BY <1>1, <1>4, QuietSteps DEF SweeperPublishes, Pending
<1>5. CASE SweeperPushes \/ SweeperTrims
  BY <1>1, <1>5, QuietSteps DEF SweeperPushes, SweeperTrims, Pending
<1> QED BY <1>2, <1>3, <1>4, <1>5, SweepLost, FireLost DEF SweeperStep

LEMMA EngineInd ==
  ASSUME EngineInv, [Next]_vars
  PROVE  EngineInv'
<1>1. EngineTypes' BY NextTypes DEF EngineInv
<1>2. CASE UNCHANGED vars
  <2>1. UNCHANGED <<now, lastSeen, Pending, fired, sweeper>> BY <1>2 DEF vars, Pending
  <2>2. sweeper'.pc \in {"rest", "sweep"} => Pending = {}
    BY <2>1 DEF EngineInv, LostInv, GapInv
  <2>3. LostInv' BY <2>1, <2>2, QuietSteps
  <2> QED BY <1>1, <2>3 DEF EngineInv
<1>3. ASSUME NEW m \in Message, Seen(m) PROVE EngineInv'
  BY <1>1, <1>3, SeenLost DEF EngineInv
<1>4. CASE ConsumerStep BY <1>1, <1>4, ConsumerLost DEF EngineInv
<1>5. CASE SweeperStep BY <1>1, <1>5, SweeperLost DEF EngineInv
<1>6. CASE Tick BY <1>1, <1>6, TickLost DEF EngineInv
<1>7. CASE Restart BY <1>1, <1>7, RestartLost DEF EngineInv
<1> QED BY <1>2, <1>3, <1>4, <1>5, <1>6, <1>7 DEF Next

LEMMA EngineInit == Init => EngineInv
<1> SUFFICES ASSUME Init PROVE EngineInv
  OBVIOUS
<1>1. EngineTypes
  BY EmptySeq, EngineAssumption
  DEF Init, EngineTypes, TypeOK, Goroutines, Idle, Resting, ConsumerPc, NextPc, Firing
<1>2. LostInv
  BY EmptySeq DEF Init, LostInv, GapInv, Pending, Resting, OneAlertPerGap, LostFlagIsHonest
<1> QED BY <1>1, <1>2 DEF EngineInv

LEMMA EngineInvHolds == Spec => []EngineInv
BY EngineInit, EngineInd, PTL DEF Spec

(* Every variable of the alert service holds a value of its type.          *)
THEOREM EngineIsTyped == Spec => []TypeOK
BY EngineInvHolds, PTL DEF EngineInv, EngineTypes

(* One gap in a vehicle's telemetry is reported once, in any interleaving  *)
(* of ProcessTelemetry and SweepLostComms and across restarts.             *)
THEOREM GapsAreReportedOnce == Spec => []OneAlertPerGap
BY EngineInvHolds, PTL DEF EngineInv, LostInv

(* A vehicle is marked as reported lost exactly when the alert about its   *)
(* last message was fired or is on the sweeper's list (SweepLostComms).    *)
THEOREM FlagIsHonest == Spec => []LostFlagIsHonest
BY EngineInvHolds, PTL DEF EngineInv, LostInv

-----------------------------------------------------------------------------
(* Alerts go out. *)

Bit(b) == IF b THEN 1 ELSE 0

At(s, a) == {i \in DOMAIN s : s[i] = a}

Among(a, s) == \E i \in DOMAIN s : s[i] = a

(* A goroutine is about to publish, push or trim. *)
Busy(p) == p.pc \in Firing

Unpushed(p) == p.pc \in {"publish", "push"}

(* What the goroutines have yet to publish: how often an alert, how many   *)
(* in all; and how many they have yet to push.                             *)
Held(a) ==
  Bit(consumer.pc = "publish" /\ consumer.alert = a)
    + Bit(sweeper.pc = "publish" /\ sweeper.alert = a)
Unpublished == Bit(consumer.pc = "publish") + Bit(sweeper.pc = "publish")
Unlisted == Bit(Unpushed(consumer)) + Bit(Unpushed(sweeper))

(* The list holds the n alerts pushed, or at least a full list of them. *)
Listed(n) ==
  /\ n >= 0 /\ Len(recent) <= n /\ Len(recent) <= RecentMax + Untrimmed
  /\ Len(recent) = n \/ Len(recent) >= RecentMax

(* What was fired and is not on the stream, or not on the list, is with a  *)
(* goroutine.                                                              *)
Outgoing ==
  /\ \A a \in Alert : Cardinality(At(fired, a)) = Cardinality(At(published, a)) + Held(a)
  /\ Len(fired) = Len(published) + Unpublished
  /\ Listed(Len(fired) - Unlisted)
  /\ \A i \in DOMAIN recent : Among(recent[i], fired)
  /\ Busy(consumer) => Among(consumer.alert, fired)
  /\ Busy(sweeper) => Among(sweeper.alert, fired)

Fires(a) == fired' = Append(fired, a) /\ UNCHANGED <<published, recent>>
HeldMore(a) == \A x \in Alert : Held(x)' = Held(x) + Bit(a = x)
(* A goroutine that has an alert to deliver had it before, or it is a.    *)
Carries(a) ==
  /\ Busy(consumer)' => \/ consumer'.alert = a
                        \/ Busy(consumer) /\ consumer'.alert = consumer.alert
  /\ Busy(sweeper)' => \/ sweeper'.alert = a
                       \/ Busy(sweeper) /\ sweeper'.alert = sweeper.alert
HeldLess(a) == \A x \in Alert : Held(x) = Held(x)' + Bit(a = x)

OutInv == restarts = 0 /\ ~ RedisMayFail => Outgoing

LEMMA OneMore ==
  ASSUME NEW s \in Seq(Alert), NEW a \in Alert, NEW b \in Alert, NEW t, t = Append(s, a)
  PROVE  /\ IsFiniteSet(At(s, b)) /\ Cardinality(At(s, b)) \in Nat
         /\ a = b => Cardinality(At(t, b)) = Cardinality(At(s, b)) + 1
         /\ a # b => Cardinality(At(t, b)) = Cardinality(At(s, b))
<1>1. /\ DOMAIN t = DOMAIN s \cup {Len(s) + 1} /\ Len(s) + 1 \notin DOMAIN s
      /\ t[Len(s) + 1] = a /\ \A i \in DOMAIN s : t[i] = s[i]
  BY AppendAlert
<1>2. IsFiniteSet(At(s, b))
  <2>1. DOMAIN s = 1 .. Len(s) /\ Len(s) \in Nat BY LenProperties
  <2>2. IsFiniteSet(1 .. Len(s)) BY <2>1, FS_Interval
  <2>3. At(s, b) \in SUBSET (1 .. Len(s)) BY <2>1 DEF At
  <2> QED BY <2>2, <2>3, FS_Subset
<1>3. Cardinality(At(s, b)) \in Nat BY <1>2, FS_CardinalityType
<1>4. CASE a = b
  <2>1. At(t, b) = At(s, b) \cup {Len(s) + 1} /\ Len(s) + 1 \notin At(s, b)
    BY <1>1, <1>4 DEF At
  <2>2. Cardinality(At(t, b)) = Cardinality(At(s, b)) + 1
    BY <1>2, <2>1, FS_AddElement
  <2> QED BY <1>2, <1>3, <1>4, <2>2
<1>5. CASE a # b
  <2>1. At(t, b) = At(s, b) BY <1>1, <1>5 DEF At
  <2> QED BY <1>2, <1>3, <1>5, <2>1
<1> QED BY <1>4, <1>5

LEMMA AtType ==
  \A s \in Seq(Alert) : \A b \in Alert : Cardinality(At(s, b)) \in Nat
<1> SUFFICES ASSUME NEW s \in Seq(Alert), NEW b \in Alert PROVE Cardinality(At(s, b)) \in Nat
  OBVIOUS
<1> QED BY OneMore

LEMMA HeldType ==
  ASSUME NEW a
  PROVE  Held(a) \in Nat /\ Unpublished \in Nat /\ Unlisted \in Nat /\ Untrimmed \in Nat
BY DEF Held, Unpublished, Unlisted, Untrimmed, Bit

LEMMA FireOut ==
  ASSUME EngineTypes, Outgoing, NEW a \in Alert,
         Fires(a), HeldMore(a),
         Unpublished' = Unpublished + 1, Unlisted' = Unlisted + 1, UNCHANGED Untrimmed,
         Carries(a)
  PROVE  Outgoing'
<1>1. PICK f, g : f = fired /\ g = Append(f, a) OBVIOUS
<1>2. f \in Seq(Alert) /\ fired' = g /\ UNCHANGED <<published, recent>>
  BY <1>1 DEF EngineTypes, TypeOK, Fires
<1>3. /\ DOMAIN g = DOMAIN f \cup {Len(f) + 1} /\ g[Len(f) + 1] = a
      /\ \A i \in DOMAIN f : g[i] = f[i]
  BY <1>1, <1>2, AppendAlert
<1>4. Len(g) = Len(f) + 1 /\ Len(f) \in Nat
  BY <1>1, <1>2, AppendProperties, LenProperties
<1>5. \A x : Among(x, f) => Among(x, g) BY <1>3 DEF Among
<1>6. Among(a, g) BY <1>3 DEF Among
<1>7. ASSUME NEW x \in Alert
      PROVE  Cardinality(At(g, x)) = Cardinality(At(published, x)) + Held(x)'
  <2>1. PICK k, l, h : /\ k = Cardinality(At(f, x)) /\ l = Cardinality(At(published, x))
                       /\ h = Held(x)
    OBVIOUS
  <2>2. k \in Nat /\ Cardinality(At(g, x)) = k + Bit(a = x)
    <3>1. f \in Seq(Alert) /\ g = Append(f, a) /\ a \in Alert /\ x \in Alert BY <1>1, <1>2
    <3>2. /\ Cardinality(At(f, x)) \in Nat
          /\ a = x => Cardinality(At(g, x)) = Cardinality(At(f, x)) + 1
          /\ a # x => Cardinality(At(g, x)) = Cardinality(At(f, x))
      BY ONLY <3>1, OneMore, ZenonT(30)
    <3> QED BY <2>1, <3>2 DEF Bit
  <2>3. l \in Nat BY <2>1, AtType DEF EngineTypes, TypeOK
  <2>4. k = l + h BY <1>1, <2>1 DEF Outgoing
  <2>5. h \in Nat /\ Bit(a = x) \in Nat BY <2>1, HeldType DEF Bit
  <2>6. Held(x)' = h + Bit(a = x) BY <2>1 DEF HeldMore
  <2> QED BY <2>1, <2>2, <2>3, <2>4, <2>5, <2>6
<1>8. Len(g) = Len(published) + Unpublished'
  <2>1. Len(published) \in Nat BY LenProperties DEF EngineTypes, TypeOK
  <2>2. Len(f) = Len(published) + Unpublished BY <1>1 DEF Outgoing
  <2>3. Unpublished \in Nat BY HeldType
  <2> QED BY <1>4, <2>1, <2>2, <2>3
<1>9. Len(g) - Unlisted' = Len(f) - Unlisted
  <2>1. Unlisted \in Nat BY HeldType
  <2> QED BY <1>4, <2>1
<1>10. \A i \in DOMAIN recent : Among(recent[i], g) BY <1>1, <1>5 DEF Outgoing
<1>11. /\ Busy(consumer)' => Among(consumer'.alert, g)
       /\ Busy(sweeper)' => Among(sweeper'.alert, g)
  BY <1>1, <1>5, <1>6 DEF Outgoing, Carries
<1>12. Listed(Len(fired) - Unlisted)'
  <2>1. (Len(fired) - Unlisted)' = Len(fired) - Unlisted BY <1>1, <1>2, <1>9
  <2> QED BY <1>2, <2>1 DEF Outgoing, Listed
<1> QED BY <1>2, <1>7, <1>8, <1>10, <1>11, <1>12 DEF Outgoing, Busy

LEMMA PublishOut ==
  ASSUME EngineTypes, Outgoing, NEW a \in Alert, PublishAlert(a), ~ RedisMayFail,
         UNCHANGED fired,
         HeldLess(a),
         Unpublished = Unpublished' + 1, Unlisted' = Unlisted, UNCHANGED Untrimmed,
         Busy(consumer)' => Busy(consumer) /\ consumer'.alert = consumer.alert,
         Busy(sweeper)' => Busy(sweeper) /\ sweeper'.alert = sweeper.alert
  PROVE  Outgoing'
<1>1. PICK f, g : f = published /\ g = Append(f, a) OBVIOUS
<1>2. f \in Seq(Alert) /\ published' = g /\ recent' = recent
  BY <1>1 DEF EngineTypes, TypeOK, PublishAlert
<1>3. Len(g) = Len(f) + 1 /\ Len(f) \in Nat
  BY <1>1, <1>2, AppendProperties, LenProperties
<1>4. ASSUME NEW x \in Alert
      PROVE  Cardinality(At(fired, x)) = Cardinality(At(g, x)) + Held(x)'
  <2>1. PICK k, l : /\ k = Cardinality(At(f, x)) /\ l = Cardinality(At(fired, x))
    OBVIOUS
  <2>2. k \in Nat /\ Cardinality(At(g, x)) = k + Bit(a = x)
    <3>1. f \in Seq(Alert) /\ g = Append(f, a) /\ a \in Alert /\ x \in Alert BY <1>1, <1>2
    <3>2. /\ Cardinality(At(f, x)) \in Nat
          /\ a = x => Cardinality(At(g, x)) = Cardinality(At(f, x)) + 1
          /\ a # x => Cardinality(At(g, x)) = Cardinality(At(f, x))
      BY ONLY <3>1, OneMore, ZenonT(30)
    <3> QED BY <2>1, <3>2 DEF Bit
  <2>3. l = k + Held(x) BY <1>1, <2>1 DEF Outgoing
  <2>4. Held(x)' \in Nat /\ Bit(a = x) \in Nat BY DEF Bit, Held
  <2>5. Held(x) = Held(x)' + Bit(a = x) BY DEF HeldLess
  <2> QED BY <2>1, <2>2, <2>3, <2>4, <2>5
<1>5. Len(fired) = Len(g) + Unpublished'
  <2>1. Len(fired) = Len(f) + Unpublished BY <1>1 DEF Outgoing
  <2>2. Unpublished' \in Nat BY DEF Unpublished, Bit
  <2> QED BY <1>3, <2>1, <2>2
<1> QED BY <1>2, <1>4, <1>5 DEF Outgoing, Listed, Among, Busy

LEMMA PushOut ==
  ASSUME EngineTypes, Outgoing, NEW a \in Alert, PushAlert(a), ~ RedisMayFail, Among(a, fired),
         UNCHANGED fired,
         \A x \in Alert : Held(x)' = Held(x),
         Unpublished' = Unpublished, Unlisted = Unlisted' + 1, Untrimmed' = Untrimmed + 1,
         Busy(consumer)' => Busy(consumer) /\ consumer'.alert = consumer.alert,
         Busy(sweeper)' => Busy(sweeper) /\ sweeper'.alert = sweeper.alert
  PROVE  Outgoing'
<1>1. recent \in Seq(Alert) /\ recent' = <<a>> \o recent /\ UNCHANGED published
  BY DEF PushAlert, EngineTypes, TypeOK
<1>2. /\ Len(recent') = Len(recent) + 1
      /\ \A i \in DOMAIN recent' :
           recent'[i] = a \/ \E j \in DOMAIN recent : recent'[i] = recent[j]
  BY <1>1, PushedList
<1>3. \A i \in DOMAIN recent' : Among(recent'[i], fired) BY <1>2 DEF Outgoing
<1>4. Listed(Len(fired) - Unlisted)'
  <2>1. PICK n, m, k, u : /\ n = Len(fired) - Unlisted /\ m = Len(fired) - Unlisted'
                          /\ k = Len(recent) /\ u = Untrimmed
    OBVIOUS
  <2>2. Len(fired) \in Nat /\ k \in Nat
    BY <2>1, LenProperties DEF EngineTypes, TypeOK
  <2>3. Unlisted \in Nat /\ Unlisted' \in Nat /\ u \in Nat
    BY <2>1 DEF Unlisted, Untrimmed, Bit
  <2>4. n \in Int /\ m = n + 1 BY <2>1, <2>2, <2>3
  <2>5. n >= 0 /\ k <= n /\ k <= RecentMax + u /\ (k = n \/ k >= RecentMax)
    BY <2>1 DEF Outgoing, Listed
  <2>6. m >= 0 /\ k + 1 <= m /\ k + 1 <= RecentMax + (u + 1) /\ (k + 1 = m \/ k + 1 >= RecentMax)
    BY <2>2, <2>3, <2>4, <2>5, EngineAssumption
  <2> QED BY <1>2, <2>1, <2>6 DEF Listed
<1> QED BY <1>1, <1>3, <1>4 DEF Outgoing, Among, Busy

LEMMA TrimOut ==
  ASSUME EngineTypes, Outgoing, TrimAlerts, ~ RedisMayFail, UNCHANGED fired,
         \A x \in Alert : Held(x)' = Held(x),
         Unpublished' = Unpublished, Unlisted = Unlisted', Untrimmed = Untrimmed' + 1,
         Busy(consumer)' => Busy(consumer) /\ consumer'.alert = consumer.alert,
         Busy(sweeper)' => Busy(sweeper) /\ sweeper'.alert = sweeper.alert
  PROVE  Outgoing'
<1>1. recent \in Seq(Alert) /\ recent' = Capped(recent) /\ UNCHANGED published
  BY DEF TrimAlerts, EngineTypes, TypeOK
<1>2. /\ Len(recent') = IF Len(recent) > RecentMax THEN RecentMax ELSE Len(recent)
      /\ \A i \in DOMAIN recent' : i \in DOMAIN recent /\ recent'[i] = recent[i]
  BY <1>1, TrimmedList
<1>3. \A i \in DOMAIN recent' : Among(recent'[i], fired) BY <1>2 DEF Outgoing
<1>4. Listed(Len(fired) - Unlisted)'
  <2>1. PICK n, k, u : n = Len(fired) - Unlisted /\ k = Len(recent) /\ u = Untrimmed'
    OBVIOUS
  <2>2. Len(fired) \in Nat /\ k \in Nat
    BY <2>1, LenProperties DEF EngineTypes, TypeOK
  <2>3. n \in Int /\ u \in Nat BY <2>1, <2>2 DEF Unlisted, Untrimmed, Bit
  <2>4. n >= 0 /\ k <= n /\ (k = n \/ k >= RecentMax) BY <2>1 DEF Outgoing, Listed
  <2>5. PICK l : l = IF k > RecentMax THEN RecentMax ELSE k OBVIOUS
  <2>6. l <= n /\ l <= RecentMax + u /\ (l = n \/ l >= RecentMax)
    BY <2>2, <2>3, <2>4, <2>5, EngineAssumption
  <2> QED BY <1>2, <2>1, <2>4, <2>5, <2>6 DEF Listed
<1> QED BY <1>1, <1>3, <1>4 DEF Outgoing, Among, Busy

LEMMA QuietOut ==
  ASSUME Outgoing, UNCHANGED <<fired, published, recent>>,
         UNCHANGED consumer \/ ~ (Busy(consumer) \/ Busy(consumer)'),
         UNCHANGED sweeper \/ ~ (Busy(sweeper) \/ Busy(sweeper)')
  PROVE  Outgoing'
<1>1. \A x \in Alert : Held(x)' = Held(x) BY DEF Held, Busy, Firing, Bit
<1>2. Unpublished' = Unpublished BY DEF Unpublished, Busy, Firing, Bit
<1>3. Unlisted' = Unlisted BY DEF Unlisted, Unpushed, Busy, Firing, Bit
<1>4. Untrimmed' = Untrimmed BY DEF Untrimmed, Busy, Firing
<1> QED BY <1>1, <1>2, <1>3, <1>4 DEF Outgoing, Listed, Among, Busy

(* A rule looks at the message: it hands on an alert, or nothing.          *)
LEMMA ProceedOut ==
  ASSUME EngineTypes, Outgoing, ~ Busy(consumer), NEW next \in NextPc,
         NEW alerts \in SUBSET Alert, Proceed(next, alerts),
         UNCHANGED <<sweeper, published, recent>>
  PROVE  Outgoing'
<1>1. CASE consumer' = [consumer EXCEPT !.pc = next] /\ UNCHANGED fired
  <2>1. consumer'.pc = next BY <1>1 DEF EngineTypes, Goroutines
  <2>2. ~ Busy(consumer)' BY <2>1 DEF Busy, NextPc, Firing
  <2> QED BY <1>1, <2>2, QuietOut
<1>2. ASSUME NEW a \in alerts,
             consumer' = [consumer EXCEPT !.pc = "publish", !.next = next, !.alert = a],
             fired' = Append(fired, a)
      PROVE  Outgoing'
  <2>1. consumer'.pc = "publish" /\ consumer'.alert = a
    BY <1>2 DEF EngineTypes, Goroutines
  <2>2. consumer.pc \notin {"publish", "push", "trim"} BY DEF Busy, Firing
  <2>3. HeldMore(a) BY <2>1, <2>2 DEF HeldMore, Held, Bit
  <2>4. Unpublished' = Unpublished + 1 BY <2>1, <2>2 DEF Unpublished, Bit
  <2>5. Unlisted' = Unlisted + 1 /\ UNCHANGED Untrimmed
    BY <2>1, <2>2 DEF Unlisted, Unpushed, Untrimmed, Bit
  <2>6. Carries(a) BY <2>1 DEF Carries, Busy
  <2>7. Fires(a) /\ a \in Alert BY <1>2 DEF Fires
  <2> QED BY <2>3, <2>4, <2>5, <2>6, <2>7, FireOut
<1> QED BY <1>1, <1>2 DEF Proceed

LEMMA ConsumerOut ==
  ASSUME EngineTypes, Outgoing, ~ RedisMayFail, ConsumerStep
  PROVE  Outgoing'
<1>1. ASSUME NEW v \in Vehicles, NEW type \in Types PROVE newAlert(v, type, now) \in Alert
  BY DEF newAlert, Alert, EngineTypes, TypeOK
<1>2. ASSUME NEW type \in EdgeTypes, NEW next \in NextPc, transition(type, next)
      PROVE  Outgoing'
  <2>1. consumer.pc = type /\ consumer.msg.v \in Vehicles /\ type \in Types
    BY <1>2 DEF transition, EdgeTypes, Message, Types, EngineTypes, Goroutines
  <2>2. ~ Busy(consumer) BY <2>1 DEF Busy, EdgeTypes, Firing
  <2> QED BY <1>1, <1>2, <2>1, <2>2, ProceedOut DEF transition, redis
<1>3. CASE Anomaly
  <2>1. consumer.pc = "anomaly" /\ consumer.msg.v \in Vehicles
    BY <1>3 DEF Anomaly, Message, EngineTypes, Goroutines
  <2>2. ~ Busy(consumer) BY <2>1 DEF Busy, Firing
  <2>3. "anomaly" \in Types /\ "done" \in NextPc BY DEF Types, NextPc
  <2> QED BY <1>1, <1>3, <2>1, <2>2, <2>3, ProceedOut DEF Anomaly, redis
<1>4. CASE Done
  <2>1. ~ (Busy(consumer) \/ Busy(consumer)') BY <1>4 DEF Done, Idle, Busy, Firing
  <2> QED BY <1>4, <2>1, QuietOut DEF Done, redis
<1>5. CASE ConsumerPublishes
  <2> DEFINE a == consumer.alert
  <2>1. a \in Alert /\ PublishAlert(a) /\ UNCHANGED <<sweeper, fired>>
    BY <1>5 DEF ConsumerPublishes, EngineTypes, Goroutines, Firing
  <2>2. consumer.pc = "publish" /\ consumer'.pc = "push" /\ consumer'.alert = a
    BY <1>5 DEF ConsumerPublishes, EngineTypes, Goroutines, Firing
  <2>3. HeldLess(a) BY <2>1, <2>2 DEF HeldLess, Held, Bit
  <2>4. Unpublished = Unpublished' + 1 BY <2>1, <2>2 DEF Unpublished, Bit
  <2>5. Unlisted' = Unlisted /\ UNCHANGED Untrimmed
    BY <2>1, <2>2 DEF Unlisted, Unpushed, Untrimmed, Bit
  <2>6. Busy(consumer) /\ (Busy(sweeper)' => Busy(sweeper) /\ sweeper'.alert = sweeper.alert)
    BY <2>1, <2>2 DEF Busy, Firing
  <2> QED BY <2>1, <2>2, <2>3, <2>4, <2>5, <2>6, PublishOut
<1>6. CASE ConsumerPushes
  <2> DEFINE a == consumer.alert
  <2>0. consumer.pc = "push" /\ PushAlert(a) /\ UNCHANGED <<sweeper, fired>>
    BY <1>6 DEF ConsumerPushes
  <2>1. consumer'.pc = "trim" /\ consumer'.alert = a /\ a \in Alert
    BY <1>6 DEF ConsumerPushes, EngineTypes, Goroutines, Firing
  <2>2. Among(a, fired) /\ Busy(consumer) BY <2>0 DEF Outgoing, Busy, Firing
  <2>3. \A x \in Alert : Held(x)' = Held(x) BY <2>0, <2>1 DEF Held, Bit
  <2>4. Unpublished' = Unpublished BY <2>0, <2>1 DEF Unpublished, Bit
  <2>5. Unlisted = Unlisted' + 1 /\ Untrimmed' = Untrimmed + 1
    BY <2>0, <2>1 DEF Unlisted, Unpushed, Untrimmed, Bit
  <2>6. Busy(sweeper)' => Busy(sweeper) /\ sweeper'.alert = sweeper.alert
    BY <2>0 DEF Busy
  <2> QED BY <2>0, <2>1, <2>2, <2>3, <2>4, <2>5, <2>6, PushOut
<1>8. CASE ConsumerTrims
  <2>1. consumer.pc = "trim" /\ TrimAlerts /\ UNCHANGED <<sweeper, fired>>
    BY <1>8 DEF ConsumerTrims
  <2>2. consumer'.pc \notin {"publish", "push", "trim"}
    BY <1>8 DEF ConsumerTrims, EngineTypes, Goroutines, NextPc, Firing
  <2>3. \A x \in Alert : Held(x)' = Held(x) BY <2>1, <2>2 DEF Held, Bit
  <2>4. Unpublished' = Unpublished BY <2>1, <2>2 DEF Unpublished, Bit
  <2>5. Unlisted = Unlisted' /\ Untrimmed = Untrimmed' + 1
    BY <2>1, <2>2 DEF Unlisted, Unpushed, Untrimmed, Bit
  <2>6. /\ ~ Busy(consumer)'
        /\ Busy(sweeper)' => Busy(sweeper) /\ sweeper'.alert = sweeper.alert
    BY <2>1, <2>2 DEF Busy, Firing
  <2> QED BY <2>1, <2>3, <2>4, <2>5, <2>6, TrimOut
<1>7. /\ "geofence" \in EdgeTypes /\ "low_battery" \in EdgeTypes
      /\ "low_battery" \in NextPc /\ "anomaly" \in NextPc
  BY DEF EdgeTypes, NextPc
<1> QED
  BY <1>2, <1>3, <1>4, <1>5, <1>6, <1>7, <1>8 DEF ConsumerStep, Geofence, LowBattery

LEMMA SweeperOut ==
  ASSUME EngineTypes, Outgoing, ~ RedisMayFail, SweeperStep
  PROVE  Outgoing'
<1>1. CASE SweepTick \/ SweepLostComms \/ SweepEnds
  <2>1. UNCHANGED <<consumer, fired, published, recent>>
    BY <1>1 DEF SweepTick, SweepLostComms, SweepEnds, redis
  <2>2. ~ Busy(sweeper)
    BY <1>1 DEF SweepTick, SweepLostComms, SweepEnds, Busy, Firing, Resting
  <2>3. sweeper'.pc \in {"sweep", "fire", "rest"}
    <3>1. CASE SweepTick
      <4>1. sweeper' = [pc |-> "sweep", at |-> now, out |-> {}, alert |-> None]
        BY <3>1 DEF SweepTick, Resting
      <4> QED BY <4>1
    <3>3. CASE SweepEnds BY <3>3 DEF SweepEnds, Resting
    <3>2. ASSUME NEW out, sweeper' = [sweeper EXCEPT !.pc = "fire", !.out = out]
          PROVE  sweeper'.pc = "fire"
      BY <3>2 DEF EngineTypes, Goroutines
    <3> QED BY <1>1, <3>1, <3>2, <3>3, Zenon DEF SweepLostComms
  <2>4. ~ Busy(sweeper)' BY <2>3 DEF Busy, Firing
  <2> QED BY <2>1, <2>2, <2>4, QuietOut
<1>2. ASSUME NEW a \in sweeper.out, SweeperFires(a) PROVE Outgoing'
  <2>1. /\ a \in Alert /\ Fires(a) /\ UNCHANGED consumer
        /\ sweeper.pc = "fire" /\ sweeper'.pc = "publish" /\ sweeper'.alert = a
    BY <1>2 DEF SweeperFires, Fires, redis, EngineTypes, Goroutines
  <2>3. HeldMore(a) BY <2>1 DEF HeldMore, Held, Bit
  <2>4. Unpublished' = Unpublished + 1 BY <2>1 DEF Unpublished, Bit
  <2>5. Unlisted' = Unlisted + 1 /\ UNCHANGED Untrimmed
    BY <2>1 DEF Unlisted, Unpushed, Untrimmed, Bit
  <2>6. Carries(a) BY <2>1 DEF Carries, Busy
  <2> QED BY <2>1, <2>3, <2>4, <2>5, <2>6, FireOut
<1>3. CASE SweeperPublishes
  <2> DEFINE a == sweeper.alert
  <2>1. a \in Alert /\ PublishAlert(a) /\ UNCHANGED <<consumer, fired>>
    BY <1>3 DEF SweeperPublishes, EngineTypes, Goroutines
  <2>2. sweeper.pc = "publish" /\ sweeper'.pc = "push" /\ sweeper'.alert = a
    BY <1>3 DEF SweeperPublishes, EngineTypes, Goroutines
  <2>3. HeldLess(a) BY <2>1, <2>2 DEF HeldLess, Held, Bit
  <2>4. Unpublished = Unpublished' + 1 BY <2>1, <2>2 DEF Unpublished, Bit
  <2>5. Unlisted' = Unlisted /\ UNCHANGED Untrimmed
    BY <2>1, <2>2 DEF Unlisted, Unpushed, Untrimmed, Bit
  <2>6. Busy(sweeper) /\ (Busy(consumer)' => Busy(consumer) /\ consumer'.alert = consumer.alert)
    BY <2>1, <2>2 DEF Busy, Firing
  <2> QED BY <2>1, <2>2, <2>3, <2>4, <2>5, <2>6, PublishOut
<1>4. CASE SweeperPushes
  <2> DEFINE a == sweeper.alert
  <2>0. sweeper.pc = "push" /\ PushAlert(a) /\ UNCHANGED <<consumer, fired>>
    BY <1>4 DEF SweeperPushes
  <2>1. sweeper'.pc = "trim" /\ sweeper'.alert = a /\ a \in Alert
    BY <1>4 DEF SweeperPushes, EngineTypes, Goroutines, Firing
  <2>2. Among(a, fired) /\ Busy(sweeper) BY <2>0 DEF Outgoing, Busy, Firing
  <2>3. \A x \in Alert : Held(x)' = Held(x) BY <2>0, <2>1 DEF Held, Bit
  <2>4. Unpublished' = Unpublished BY <2>0, <2>1 DEF Unpublished, Bit
  <2>5. Unlisted = Unlisted' + 1 /\ Untrimmed' = Untrimmed + 1
    BY <2>0, <2>1 DEF Unlisted, Unpushed, Untrimmed, Bit
  <2>6. Busy(consumer)' => Busy(consumer) /\ consumer'.alert = consumer.alert
    BY <2>0 DEF Busy
  <2> QED BY <2>0, <2>1, <2>2, <2>3, <2>4, <2>5, <2>6, PushOut
<1>5. CASE SweeperTrims
  <2>1. sweeper.pc = "trim" /\ TrimAlerts /\ UNCHANGED <<consumer, fired>>
    BY <1>5 DEF SweeperTrims
  <2>2. sweeper'.pc \notin {"publish", "push", "trim"}
    BY <1>5 DEF SweeperTrims, EngineTypes, Goroutines, NextPc, Firing
  <2>3. \A x \in Alert : Held(x)' = Held(x) BY <2>1, <2>2 DEF Held, Bit
  <2>4. Unpublished' = Unpublished BY <2>1, <2>2 DEF Unpublished, Bit
  <2>5. Unlisted = Unlisted' /\ Untrimmed = Untrimmed' + 1
    BY <2>1, <2>2 DEF Unlisted, Unpushed, Untrimmed, Bit
  <2>6. /\ ~ Busy(sweeper)'
        /\ Busy(consumer)' => Busy(consumer) /\ consumer'.alert = consumer.alert
    BY <2>1, <2>2 DEF Busy, Firing
  <2> QED BY <2>1, <2>3, <2>4, <2>5, <2>6, TrimOut
<1> QED BY <1>1, <1>2, <1>3, <1>4, <1>5 DEF SweeperStep

LEMMA NextOut ==
  ASSUME EngineTypes, OutInv, [Next]_vars
  PROVE  OutInv'
<1> SUFFICES ASSUME restarts' = 0, ~ RedisMayFail PROVE Outgoing' BY DEF OutInv
<1>1. ~ Restart BY DEF Restart, EngineTypes, TypeOK
<1>2. restarts = 0
  BY <1>1 DEF Next, Seen, ConsumerStep, Geofence, LowBattery, transition, Anomaly, Done,
     ConsumerPublishes, ConsumerPushes, ConsumerTrims, SweeperStep, SweepTick, SweepLostComms, SweepEnds,
     SweeperFires, SweeperPublishes, SweeperPushes, SweeperTrims, Tick, vars
<1>3. Outgoing BY <1>2 DEF OutInv
<1>4. ASSUME NEW m \in Message, Seen(m) PROVE Outgoing'
  <2>1. UNCHANGED <<sweeper, fired, published, recent>> BY <1>4 DEF Seen, redis
  <2>2. ~ (Busy(consumer) \/ Busy(consumer)') BY <1>4 DEF Seen, Idle, Busy, Firing
  <2> QED BY <1>3, <2>1, <2>2, QuietOut
<1>5. CASE Tick \/ UNCHANGED vars
  <2>1. UNCHANGED <<consumer, sweeper, fired, published, recent>>
    BY <1>5 DEF Tick, vars, redis
  <2> QED BY <1>3, <2>1, QuietOut
<1> QED BY <1>1, <1>3, <1>4, <1>5, ConsumerOut, SweeperOut DEF Next

LEMMA InitOut ==
  ASSUME Init
  PROVE  Outgoing
<1>1. fired = <<>> /\ published = <<>> /\ recent = <<>> /\ Len(<<>>) = 0 BY DEF Init
<1>2. consumer.pc = "idle" /\ sweeper.pc = "rest" BY DEF Init, Idle, Resting
<1>3. ASSUME NEW a \in Alert
      PROVE  Cardinality(At(fired, a)) = Cardinality(At(published, a)) + Held(a)
  <2>1. Held(a) = 0 BY <1>2 DEF Held, Bit
  <2>2. published = fired /\ published \in Seq(Alert) BY <1>1
  <2>3. Cardinality(At(published, a)) \in Nat BY <2>2, AtType
  <2> QED BY <2>1, <2>2, <2>3
<1>4. Unpublished = 0 /\ Unlisted = 0 /\ Untrimmed = 0
  BY <1>2 DEF Unpublished, Unlisted, Unpushed, Untrimmed, Bit
<1>5. ~ Busy(consumer) /\ ~ Busy(sweeper) BY <1>2 DEF Busy, Firing
<1>6. DOMAIN recent = {} BY <1>1
<1> QED BY <1>1, <1>3, <1>4, <1>5, <1>6, EngineAssumption DEF Outgoing, Listed

(* What AlertsGoOut says of two goroutines at rest. *)
Delivered ==
  /\ \A i \in DOMAIN fired :
       LET Same(a) == a = fired[i] IN Count(published, Same) = Count(fired, Same)
  /\ Len(published) = Len(fired)
  /\ Len(recent) = (IF Len(fired) > RecentMax THEN RecentMax ELSE Len(fired))

LEMMA RestDelivers ==
  ASSUME EngineTypes, Outgoing, consumer = Idle, sweeper.pc \in {"rest", "sweep"}
  PROVE  Delivered
<1>2. consumer.pc = "idle" BY DEF Idle
<1>3. Unpublished = 0 /\ Unlisted = 0 /\ Untrimmed = 0
  BY <1>2 DEF Unpublished, Unlisted, Unpushed, Untrimmed, Bit
<1>4. Len(fired) \in Nat /\ Len(published) \in Nat /\ Len(recent) \in Nat
  BY LenProperties DEF EngineTypes, TypeOK
<1>5. Len(published) = Len(fired) BY <1>3, <1>4 DEF Outgoing
<1>6. Len(recent) = (IF Len(fired) > RecentMax THEN RecentMax ELSE Len(fired))
  BY <1>3, <1>4, EngineAssumption DEF Outgoing, Listed
<1>7. ASSUME NEW i \in DOMAIN fired
      PROVE  LET Same(a) == a = fired[i] IN Count(published, Same) = Count(fired, Same)
  <2>1. PICK x : x = fired[i] OBVIOUS
  <2>2. x \in Alert BY <2>1, ElementOfSeq, LenProperties DEF EngineTypes, TypeOK
  <2>3. Held(x) = 0 BY <1>2 DEF Held, Bit
  <2>4. Cardinality(At(published, x)) \in Nat BY <2>2, AtType DEF EngineTypes, TypeOK
  <2>5. Cardinality(At(fired, x)) = Cardinality(At(published, x))
    BY <2>2, <2>3, <2>4 DEF Outgoing
  <2> QED BY <2>1, <2>5 DEF Count, At
<1> QED BY <1>5, <1>6, <1>7 DEF Delivered

LEMMA OutIsOut ==
  ASSUME EngineTypes, OutInv
  PROVE  AlertsGoOut
<1> SUFFICES ASSUME ~ RedisMayFail, restarts = 0
             PROVE  /\ Len(recent) <= RecentMax + Untrimmed
                    /\ \A i \in DOMAIN recent : \E j \in DOMAIN fired : fired[j] = recent[i]
                    /\ consumer = Idle /\ sweeper.pc \in {"rest", "sweep"} => Delivered
  BY DEF AlertsGoOut, Delivered
<1>0. Outgoing BY DEF OutInv
<1>1. Len(recent) <= RecentMax + Untrimmed BY <1>0 DEF Outgoing, Listed
<1>2. \A i \in DOMAIN recent : \E j \in DOMAIN fired : fired[j] = recent[i]
  BY <1>0 DEF Outgoing, Among
<1>3. ASSUME consumer = Idle, sweeper.pc \in {"rest", "sweep"} PROVE Delivered
  BY <1>0, <1>3, RestDelivers
<1> QED BY <1>1, <1>2, <1>3

(* As long as Redis answers and the service lives, what was fired went out *)
(* on the stream once and the list of recent alerts is full or has all of  *)
(* them, whichever of the consumer and the sweeper fired it and however    *)
(* their publishes, pushes and trims interleave (fire in alerts/main.go);  *)
(* the list is never longer than its cap and the trims to come.            *)
THEOREM AlertsReachTheStream == Spec => []AlertsGoOut
<1>1. Init => OutInv BY InitOut DEF OutInv
<1>2. EngineInv /\ OutInv /\ [Next]_vars => OutInv' BY NextOut DEF EngineInv
<1>3. EngineInv /\ OutInv => AlertsGoOut BY OutIsOut DEF EngineInv
<1> QED BY <1>1, <1>2, <1>3, EngineInvHolds, PTL DEF Spec

-----------------------------------------------------------------------------
(* Alerts are due. *)

Rules == EdgeTypes \cup {"anomaly"}

(* The rule the consumer looks at next, once its alert is away, if any.    *)
Stage == IF Busy(consumer) THEN consumer.next ELSE consumer.pc

(* The stages at which a rule has yet to look at the message. *)
Before(type) ==
  IF type = "geofence" THEN {"geofence"}
  ELSE IF type = "low_battery" THEN {"geofence", "low_battery"} ELSE Rules

Owed(v, type) == Stage \in Before(type) /\ consumer.msg.v = v

(* How many messages of v the rule looked at. *)
Judged(v, type) == IF Owed(v, type) THEN Len(history[v]) - 1 ELSE Len(history[v])

(* The alerts of a rule among f, and the messages among the first n of h   *)
(* that call for one.                                                      *)
FiredOf(f, v, type) == {i \in DOMAIN f : f[i].v = v /\ f[i].type = type}
Calls(h, type, i) ==
  h[i].reading[type] /\ (type \in EdgeTypes => i = 1 \/ ~ h[i - 1].reading[type])
CalledOf(h, type, n) == {i \in 1 .. n : Calls(h, type, i)}

(* The message the rules look at is the last of its vehicle. *)
Current ==
  Stage \in Rules =>
    LET h == history[consumer.msg.v] IN Len(h) > 0 /\ h[Len(h)] = consumer.msg

(* A rule fired for the messages it looked at what they call for, and its  *)
(* key is active if it holds of the last of them.                          *)
DueAt(v, type, n) ==
  /\ Cardinality(FiredOf(fired, v, type)) = Cardinality(CalledOf(history[v], type, n))
  /\ type \in EdgeTypes =>
       (<<v, type>> \in active <=> n > 0 /\ history[v][n].reading[type])

AllDue == \A v \in Vehicles : \A type \in Rules : DueAt(v, type, Judged(v, type))

DueInv == restarts = 0 => Current /\ AllDue

LEMMA FiredMore ==
  \A f \in Seq(Alert) : \A a \in Alert : \A v, type :
    /\ Cardinality(FiredOf(f, v, type)) \in Nat
    /\ a.v = v /\ a.type = type =>
         Cardinality(FiredOf(Append(f, a), v, type)) = Cardinality(FiredOf(f, v, type)) + 1
    /\ ~ (a.v = v /\ a.type = type) => FiredOf(Append(f, a), v, type) = FiredOf(f, v, type)
<1> SUFFICES ASSUME NEW f \in Seq(Alert), NEW a \in Alert, NEW v, NEW type
             PROVE  LET g == Append(f, a) IN
                    /\ Cardinality(FiredOf(f, v, type)) \in Nat
                    /\ a.v = v /\ a.type = type =>
                         Cardinality(FiredOf(g, v, type)) = Cardinality(FiredOf(f, v, type)) + 1
                    /\ ~ (a.v = v /\ a.type = type) => FiredOf(g, v, type) = FiredOf(f, v, type)
  OBVIOUS
<1> DEFINE g == Append(f, a)
           n == Len(f) + 1
<1>1. /\ DOMAIN g = DOMAIN f \cup {n} /\ n \notin DOMAIN f
      /\ g[n] = a /\ \A i \in DOMAIN f : g[i] = f[i]
  BY AppendAlert
<1> HIDE DEF g, n
<1>2. IsFiniteSet(FiredOf(f, v, type))
  <2>1. DOMAIN f = 1 .. Len(f) /\ Len(f) \in Nat BY LenProperties
  <2>2. IsFiniteSet(1 .. Len(f)) BY <2>1, FS_Interval
  <2>3. FiredOf(f, v, type) \in SUBSET (1 .. Len(f)) BY <2>1 DEF FiredOf
  <2> QED BY <2>2, <2>3, FS_Subset
<1>3. Cardinality(FiredOf(f, v, type)) \in Nat BY <1>2, FS_CardinalityType
<1>4. CASE a.v = v /\ a.type = type
  <2>1. FiredOf(g, v, type) = FiredOf(f, v, type) \cup {n} /\ n \notin FiredOf(f, v, type)
    BY <1>1, <1>4 DEF FiredOf
  <2>2. Cardinality(FiredOf(g, v, type)) = Cardinality(FiredOf(f, v, type)) + 1
    BY <1>2, <2>1, FS_AddElement
  <2> QED BY <1>3, <1>4, <2>2 DEF g
<1>5. CASE ~ (a.v = v /\ a.type = type)
  <2>1. FiredOf(g, v, type) = FiredOf(f, v, type) BY <1>1, <1>5 DEF FiredOf
  <2> QED BY <1>3, <1>5, <2>1 DEF g
<1> QED BY <1>4, <1>5 DEF g

LEMMA CallsEdge ==
  ASSUME NEW h, NEW type \in EdgeTypes, NEW n \in Nat
  PROVE  Calls(h, type, n + 1) <=> h[n + 1].reading[type] /\ (n = 0 \/ ~ h[n].reading[type])
<1>1. n + 1 - 1 = n /\ (n + 1 = 1 <=> n = 0) OBVIOUS
<1>2. h[n + 1 - 1] = h[n] BY <1>1
<1>3. Calls(h, type, n + 1) <=>
        h[n + 1].reading[type] /\ (n + 1 = 1 \/ ~ h[n + 1 - 1].reading[type])
  BY DEF Calls
<1> QED BY <1>1, <1>2, <1>3, Zenon

LEMMA CalledMore ==
  ASSUME NEW h, NEW type, NEW n \in Nat
  PROVE  /\ Cardinality(CalledOf(h, type, n)) \in Nat
         /\ Calls(h, type, n + 1) =>
              Cardinality(CalledOf(h, type, n + 1)) = Cardinality(CalledOf(h, type, n)) + 1
         /\ ~ Calls(h, type, n + 1) => CalledOf(h, type, n + 1) = CalledOf(h, type, n)
<1>1. 1 .. n + 1 = (1 .. n) \cup {n + 1} /\ n + 1 \notin 1 .. n OBVIOUS
<1>2. IsFiniteSet(CalledOf(h, type, n))
  <2>1. IsFiniteSet(1 .. n) BY FS_Interval
  <2>2. CalledOf(h, type, n) \in SUBSET (1 .. n) BY DEF CalledOf
  <2> QED BY <2>1, <2>2, FS_Subset
<1>3. Cardinality(CalledOf(h, type, n)) \in Nat BY <1>2, FS_CardinalityType
<1>4. CASE Calls(h, type, n + 1)
  <2>1. /\ CalledOf(h, type, n + 1) = CalledOf(h, type, n) \cup {n + 1}
        /\ n + 1 \notin CalledOf(h, type, n)
    BY <1>1, <1>4 DEF CalledOf
  <2>2. Cardinality(CalledOf(h, type, n + 1)) = Cardinality(CalledOf(h, type, n)) + 1
    BY <1>2, <2>1, FS_AddElement
  <2> QED BY <1>3, <1>4, <2>2
<1>5. CASE ~ Calls(h, type, n + 1)
  <2>1. CalledOf(h, type, n + 1) = CalledOf(h, type, n) BY <1>1, <1>5 DEF CalledOf
  <2> QED BY <1>3, <1>5, <2>1
<1> QED BY <1>4, <1>5

(* What was called for up to a message does not depend on later ones. *)
LEMMA CalledKept ==
  ASSUME NEW h, NEW k, NEW type, NEW n \in Nat, \A i \in 1 .. n : h[i] = k[i]
  PROVE  CalledOf(h, type, n) = CalledOf(k, type, n)
<1>1. ASSUME NEW i \in 1 .. n PROVE Calls(h, type, i) <=> Calls(k, type, i)
  <2>1. CASE i = 1 BY <2>1 DEF Calls
  <2>2. CASE i # 1
    <3>1. i - 1 \in 1 .. n BY <2>2
    <3> QED BY <3>1 DEF Calls
  <2> QED BY <2>1, <2>2
<1> QED BY <1>1 DEF CalledOf

LEMMA JudgedType ==
  ASSUME EngineTypes, Current, NEW v \in Vehicles, NEW type \in Rules
  PROVE  /\ Judged(v, type) \in Nat /\ Judged(v, type) <= Len(history[v])
         /\ Owed(v, type) => Judged(v, type) + 1 = Len(history[v])
         /\ Len(history[v]) \in Nat
<1>1. Len(history[v]) \in Nat
  BY LenProperties DEF EngineTypes, TypeOK
<1>2. ASSUME Owed(v, type) PROVE Len(history[v]) > 0
  <2>1. Stage \in Rules /\ consumer.msg.v = v
    BY <1>2 DEF Owed, Before, Rules, EdgeTypes
  <2> QED BY <2>1 DEF Current
<1> QED BY <1>1, <1>2 DEF Judged

(* Steps that do not concern a rule's view of a vehicle. *)
LEMMA DueKept ==
  ASSUME NEW v, NEW type, NEW n \in Nat, DueAt(v, type, n),
         \A i \in 1 .. n : history'[v][i] = history[v][i],
         FiredOf(fired, v, type)' = FiredOf(fired, v, type),
         <<v, type>> \in active' <=> <<v, type>> \in active
  PROVE  DueAt(v, type, n)'
<1>1. CalledOf(history[v], type, n)' = CalledOf(history[v], type, n)
  <2>1. PICK h, k : h = history[v] /\ k = history'[v] OBVIOUS
  <2>2. \A i \in 1 .. n : k[i] = h[i] BY <2>1
  <2>3. CalledOf(k, type, n) = CalledOf(h, type, n) BY <2>2, CalledKept
  <2> QED BY <2>1, <2>3
<1>2. n > 0 => history'[v][n] = history[v][n]
  <2>1. n > 0 => n \in 1 .. n OBVIOUS
  <2> QED BY <2>1
<1> QED BY <1>1, <1>2 DEF DueAt

(* A rule looks at one more message, and fires if it calls for it. *)
LEMMA DueStep ==
  ASSUME fired \in Seq(Alert), NEW v, NEW type, NEW n \in Nat, DueAt(v, type, n),
         UNCHANGED history,
         Calls(history[v], type, n + 1) =>
           \E a \in Alert : a.v = v /\ a.type = type /\ fired' = Append(fired, a),
         ~ Calls(history[v], type, n + 1) => UNCHANGED fired,
         type \in EdgeTypes => (<<v, type>> \in active' <=> history[v][n + 1].reading[type])
  PROVE  DueAt(v, type, n + 1)'
<1>1. PICK f, g, h : f = fired /\ g = fired' /\ h = history[v] OBVIOUS
<1>2. Cardinality(FiredOf(f, v, type)) = Cardinality(CalledOf(h, type, n))
  BY <1>1 DEF DueAt
<1>3. /\ Calls(h, type, n + 1) =>
           Cardinality(CalledOf(h, type, n + 1)) = Cardinality(CalledOf(h, type, n)) + 1
      /\ ~ Calls(h, type, n + 1) => CalledOf(h, type, n + 1) = CalledOf(h, type, n)
  BY ONLY n \in Nat, CalledMore, ZenonT(30)
<1>4. Cardinality(FiredOf(g, v, type)) = Cardinality(CalledOf(h, type, n + 1))
  <2>1. CASE Calls(h, type, n + 1)
    <3>1. PICK a \in Alert : a.v = v /\ a.type = type /\ g = Append(f, a) BY <1>1, <2>1
    <3>2. f \in Seq(Alert) /\ a \in Alert BY <1>1
    <3>3. a.v = v /\ a.type = type =>
            Cardinality(FiredOf(g, v, type)) = Cardinality(FiredOf(f, v, type)) + 1
      BY ONLY <3>1, <3>2, FiredMore, SMTT(30)
    <3> QED BY <1>2, <1>3, <2>1, <3>1, <3>3
  <2>2. CASE ~ Calls(h, type, n + 1)
    <3>1. g = f BY <1>1, <2>2
    <3> QED BY <1>2, <1>3, <2>2, <3>1
  <2> QED BY <2>1, <2>2
<1>5. Cardinality(FiredOf(fired, v, type))' = Cardinality(CalledOf(history[v], type, n + 1))'
  BY <1>1, <1>4
<1>6. n + 1 > 0 OBVIOUS
<1> QED BY <1>5, <1>6 DEF DueAt

Follows(type, next) ==
  \/ type = "geofence" /\ next = "low_battery"
  \/ type = "low_battery" /\ next = "anomaly"
  \/ type = "anomaly" /\ next = "done"

LEMMA ProceedStage ==
  ASSUME EngineTypes, NEW type \in Rules, consumer.pc = type, NEW next, Follows(type, next),
         NEW alerts, Proceed(next, alerts)
  PROVE  /\ Stage = type /\ Stage' = next /\ consumer'.msg = consumer.msg
         /\ alerts = {} => UNCHANGED fired
         /\ alerts # {} => \E a \in alerts : fired' = Append(fired, a)
<1>1. type \notin Firing /\ next \notin Firing
  BY DEF Rules, EdgeTypes, Follows, Firing
<1>2. Stage = type BY <1>1 DEF Stage, Busy
<1>3. CASE alerts = {} /\ consumer' = [consumer EXCEPT !.pc = next] /\ UNCHANGED fired
  <2>1. consumer'.pc = next /\ consumer'.msg = consumer.msg
    BY <1>3 DEF EngineTypes, Goroutines
  <2>2. Stage' = next BY <1>1, <2>1 DEF Stage, Busy
  <2> QED BY <1>2, <1>3, <2>1, <2>2
<1>4. ASSUME NEW a \in alerts,
             consumer' = [consumer EXCEPT !.pc = "publish", !.next = next, !.alert = a],
             fired' = Append(fired, a)
      PROVE  /\ Stage = type /\ Stage' = next /\ consumer'.msg = consumer.msg
             /\ alerts = {} => UNCHANGED fired
             /\ alerts # {} => \E b \in alerts : fired' = Append(fired, b)
  <2>1. consumer'.pc = "publish" /\ consumer'.next = next /\ consumer'.msg = consumer.msg
    BY <1>4 DEF EngineTypes, Goroutines
  <2>2. Stage' = next BY <2>1 DEF Stage, Busy, Firing
  <2> QED BY <1>2, <1>4, <2>1, <2>2
<1> QED BY <1>3, <1>4 DEF Proceed

LEMMA RuleDue ==
  ASSUME EngineTypes, Current, AllDue,
         NEW type \in Rules, consumer.pc = type, NEW next, Follows(type, next),
         NEW fires \in BOOLEAN,
         fires <=> /\ consumer.msg.reading[type]
                   /\ type \in EdgeTypes => <<consumer.msg.v, type>> \notin active,
         Proceed(next, IF fires THEN {newAlert(consumer.msg.v, type, now)} ELSE {}),
         \A v \in Vehicles, t \in Rules : v # consumer.msg.v \/ t # type =>
           (<<v, t>> \in active' <=> <<v, t>> \in active),
         type \in EdgeTypes =>
           (<<consumer.msg.v, type>> \in active' <=> consumer.msg.reading[type]),
         UNCHANGED history
  PROVE  Current' /\ AllDue'
<1>1. PICK w, a : w = consumer.msg.v /\ a = newAlert(w, type, now) OBVIOUS
<1>2. /\ Stage = type /\ Stage' = next /\ consumer'.msg = consumer.msg
      /\ ~ fires => UNCHANGED fired
      /\ fires => fired' = Append(fired, a)
  BY <1>1, ProceedStage
<1>3. w \in Vehicles
  BY <1>1 DEF EngineTypes, Goroutines, Message, Rules, EdgeTypes
<1>4. a \in Alert /\ a.v = w /\ a.type = type
  BY <1>1, <1>3 DEF newAlert, Alert, Rules, Types, EngineTypes, TypeOK
<1>5. /\ type \in Before(type) /\ next \notin Before(type)
      /\ \A t \in Rules : t # type => (type \in Before(t) <=> next \in Before(t))
  BY DEF Before, Rules, EdgeTypes, Follows
<1>6. Current'
  BY <1>2 DEF Current
<1>7. ASSUME NEW v \in Vehicles, NEW t \in Rules PROVE DueAt(v, t, Judged(v, t))'
  <2>1. PICK n : n = Judged(v, t) OBVIOUS
  <2>2. n \in Nat /\ DueAt(v, t, n) /\ (Owed(v, t) => n + 1 = Len(history[v]))
    BY <2>1, JudgedType DEF AllDue
  <2>3. CASE v = w /\ t = type
    <3>1. Owed(v, t) /\ ~ Owed(v, t)' BY <1>1, <1>2, <1>5, <2>3 DEF Owed
    <3>2. Judged(v, t)' = n + 1 BY <2>2, <3>1 DEF Judged
    <3>3. history[v][n + 1] = consumer.msg
      BY <1>1, <1>2, <2>2, <2>3, <3>1 DEF Current
    <3>4. fires <=> Calls(history[v], t, n + 1)
      <4>1. CASE type \in EdgeTypes
        <5>1. <<v, t>> \in active <=> n > 0 /\ history[v][n].reading[t]
          BY <2>2, <2>3, <4>1 DEF DueAt
        <5>2. n = 0 <=> ~ (n > 0) BY <2>2
        <5>3. /\ fires <=> consumer.msg.reading[t] /\ <<v, t>> \notin active
              /\ history[v][n + 1].reading[t] = consumer.msg.reading[t]
          BY <1>1, <2>3, <3>3, <4>1
        <5>4. Calls(history[v], t, n + 1) <=>
                history[v][n + 1].reading[t] /\ (n = 0 \/ ~ history[v][n].reading[t])
          <6>1. t \in EdgeTypes BY <2>3, <4>1
          <6> QED BY <2>2, <6>1, CallsEdge, Zenon
        <5> QED BY <5>1, <5>2, <5>3, <5>4
      <4>2. CASE type \notin EdgeTypes BY <1>1, <2>3, <3>3, <4>2 DEF Calls
      <4> QED BY <4>1, <4>2
    <3>5. Calls(history[v], t, n + 1) =>
            \E b \in Alert : b.v = v /\ b.type = t /\ fired' = Append(fired, b)
      BY <1>2, <1>4, <2>3, <3>4
    <3>6. ~ Calls(history[v], t, n + 1) => UNCHANGED fired BY <1>2, <3>4
    <3>7. t \in EdgeTypes => (<<v, t>> \in active' <=> history[v][n + 1].reading[t])
      BY <1>1, <2>3, <3>3
    <3>8. fired \in Seq(Alert) BY DEF EngineTypes, TypeOK
    <3>9. DueAt(v, t, n + 1)' BY <2>2, <3>5, <3>6, <3>7, <3>8, DueStep
    <3> QED BY <3>2, <3>9
  <2>4. CASE v # w \/ t # type
    <3>1. Owed(v, t)' <=> Owed(v, t) BY <1>1, <1>2, <1>5, <2>4 DEF Owed
    <3>2. Judged(v, t)' = n BY <2>1, <3>1 DEF Judged
    <3>3. FiredOf(fired, v, t)' = FiredOf(fired, v, t)
      <4>1. CASE fires
        <5>1. PICK f, g : f = fired /\ g = fired' OBVIOUS
        <5>2. f \in Seq(Alert) /\ g = Append(f, a) /\ a \in Alert
          BY <1>2, <1>4, <4>1, <5>1 DEF EngineTypes, TypeOK
        <5>3. ~ (a.v = v /\ a.type = t) BY <1>4, <2>4
        <5>4. FiredOf(g, v, t) = FiredOf(f, v, t)
          BY ONLY <5>2, <5>3, FiredMore, SMTT(30)
        <5> QED BY <5>1, <5>4
      <4>2. CASE ~ fires BY <1>2, <4>2
      <4> QED BY <4>1, <4>2
    <3>4. <<v, t>> \in active' <=> <<v, t>> \in active BY <1>1, <2>4
    <3>5. \A i \in 1 .. n : history'[v][i] = history[v][i] OBVIOUS
    <3>6. DueAt(v, t, n)' BY <2>2, <3>3, <3>4, <3>5, DueKept
    <3> QED BY <3>2, <3>6
  <2> QED BY <2>3, <2>4
<1> QED BY <1>6, <1>7 DEF AllDue

(* A message is owed to every rule, and none has looked at it. *)
LEMMA SeenDue ==
  ASSUME EngineTypes, Current, AllDue, NEW m \in Message, Seen(m)
  PROVE  Current' /\ AllDue'
<1>1. consumer.pc = "idle" /\ consumer'.pc = "geofence" /\ consumer'.msg = m
  BY DEF Seen, Idle
<1>2. Stage = "idle" /\ Stage' = "geofence" BY <1>1 DEF Stage, Busy, Firing
<1>3. m.v \in Vehicles BY DEF Message
<1>4. /\ history'[m.v] = Append(history[m.v], m)
      /\ \A v \in Vehicles : v # m.v => history'[v] = history[v]
      /\ fired' = fired /\ active' = active
  BY <1>3 DEF Seen, EngineTypes, TypeOK
<1>5. ASSUME NEW v \in Vehicles
      PROVE  /\ Len(history[v]) \in Nat
             /\ \A i \in 1 .. Len(history[v]) : history'[v][i] = history[v][i]
             /\ v = m.v => /\ Len(history'[v]) = Len(history[v]) + 1
                           /\ history'[v][Len(history[v]) + 1] = m
             /\ v # m.v => history'[v] = history[v]
  <2>1. PICK h, k : h = history[v] /\ k = history'[v] OBVIOUS
  <2>2. h \in Seq(Message) BY <2>1 DEF EngineTypes, TypeOK
  <2>3. Len(h) \in Nat BY <2>2, LenProperties
  <2>4. CASE v = m.v
    <3>1. k = Append(h, m) BY <1>4, <2>1, <2>4
    <3>2. /\ Len(k) = Len(h) + 1 /\ k[Len(h) + 1] = m
          /\ \A i \in 1 .. Len(h) : k[i] = h[i]
      BY <2>2, <3>1, AppendProperties
    <3> QED BY <2>1, <2>3, <2>4, <3>2
  <2>5. CASE v # m.v BY <1>4, <2>1, <2>3, <2>5
  <2> QED BY <2>4, <2>5
<1>6. Current'
  <2>1. PICK n : n = Len(history[m.v]) OBVIOUS
  <2>2. n \in Nat /\ Len(history'[m.v]) = n + 1 /\ history'[m.v][n + 1] = m
    BY <1>3, <1>5, <2>1
  <2>3. Len(history'[m.v]) > 0 /\ history'[m.v][Len(history'[m.v])] = m BY <2>2
  <2> QED BY <1>1, <2>3 DEF Current
<1>7. ASSUME NEW v \in Vehicles, NEW t \in Rules PROVE DueAt(v, t, Judged(v, t))'
  <2>1. ~ Owed(v, t) BY <1>2 DEF Owed, Before, Rules, EdgeTypes
  <2>2. Owed(v, t)' <=> v = m.v BY <1>1, <1>2 DEF Owed, Before, Rules, EdgeTypes
  <2>3. PICK n : n = Len(history[v]) OBVIOUS
  <2>4. n \in Nat /\ Judged(v, t) = n BY <1>5, <2>1, <2>3 DEF Judged
  <2>5. Judged(v, t)' = n BY <1>5, <2>2, <2>3, <2>4 DEF Judged
  <2>6. DueAt(v, t, n) BY <2>4 DEF AllDue
  <2>7. \A i \in 1 .. n : history'[v][i] = history[v][i] BY <1>5, <2>3
  <2>8. FiredOf(fired, v, t)' = FiredOf(fired, v, t) BY <1>4
  <2>9. DueAt(v, t, n)' BY <1>4, <2>4, <2>6, <2>7, <2>8, DueKept
  <2> QED BY <2>5, <2>9
<1> QED BY <1>6, <1>7 DEF AllDue

LEMMA QuietDue ==
  ASSUME EngineTypes, Current, AllDue, UNCHANGED <<history, active>>,
         \/ Stage' = Stage /\ consumer'.msg = consumer.msg
         \/ Stage \notin Rules /\ Stage' \notin Rules,
         \A v \in Vehicles, t \in Rules : FiredOf(fired, v, t)' = FiredOf(fired, v, t)
  PROVE  Current' /\ AllDue'
<1>1. Current' BY DEF Current
<1>2. ASSUME NEW v \in Vehicles, NEW t \in Rules PROVE DueAt(v, t, Judged(v, t))'
  <2>1. Owed(v, t)' <=> Owed(v, t) BY DEF Owed, Before, Rules, EdgeTypes
  <2>2. PICK n : n = Judged(v, t) OBVIOUS
  <2>3. n \in Nat /\ DueAt(v, t, n) BY <2>2, JudgedType DEF AllDue
  <2>4. Judged(v, t)' = n BY <2>1, <2>2 DEF Judged
  <2>5. \A i \in 1 .. n : history'[v][i] = history[v][i] OBVIOUS
  <2>6. DueAt(v, t, n)' BY <2>3, <2>5, DueKept
  <2> QED BY <2>4, <2>6
<1> QED BY <1>1, <1>2 DEF AllDue

LEMMA ConsumerDue ==
  ASSUME EngineTypes, Current, AllDue, ConsumerStep
  PROVE  Current' /\ AllDue'
<1>1. ASSUME NEW type \in EdgeTypes, NEW next, Follows(type, next), transition(type, next)
      PROVE  Current' /\ AllDue'
  <2> DEFINE m == consumer.msg
             key == <<m.v, type>>
             fires == m.reading[type] /\ key \notin active
  <2>1. /\ consumer.pc = type /\ UNCHANGED history
        /\ active' = IF m.reading[type] THEN active \cup {key} ELSE active \ {key}
        /\ Proceed(next, IF fires THEN {newAlert(m.v, type, now)} ELSE {})
    BY <1>1 DEF transition
  <2>2. type \in Rules /\ fires \in BOOLEAN BY DEF Rules
  <2>3. key \in active' <=> m.reading[type] BY <2>1
  <2>4. \A v \in Vehicles, t \in Rules : v # m.v \/ t # type =>
          (<<v, t>> \in active' <=> <<v, t>> \in active)
    BY <2>1
  <2>5. fires <=> m.reading[type] /\ (type \in EdgeTypes => key \notin active) OBVIOUS
  <2> HIDE DEF fires
  <2> QED BY <1>1, <2>1, <2>2, <2>3, <2>4, <2>5, RuleDue
<1>2. CASE Anomaly
  <2> DEFINE m == consumer.msg
             type == "anomaly"
  <2>1. /\ consumer.pc = type /\ UNCHANGED <<history, active>>
        /\ Proceed("done", IF m.reading.anomaly THEN {newAlert(m.v, type, now)} ELSE {})
    BY <1>2 DEF Anomaly
  <2>2. type \in Rules /\ type \notin EdgeTypes /\ Follows(type, "done")
    BY DEF Rules, EdgeTypes, Follows
  <2>3. m.reading[type] = m.reading.anomaly OBVIOUS
  <2>4. m.reading[type] \in BOOLEAN
    BY <2>1, EngineAssumption DEF EngineTypes, Goroutines, Message
  <2> QED BY <2>1, <2>2, <2>3, <2>4, RuleDue
<1>3. CASE Done
  <2>1. Stage = "done" /\ Stage' = "idle" BY <1>3 DEF Done, Idle, Stage, Busy, Firing
  <2>2. UNCHANGED <<history, active, fired>> BY <1>3 DEF Done
  <2> QED BY <2>1, <2>2, QuietDue DEF Rules, EdgeTypes
<1>4. CASE ConsumerPublishes \/ ConsumerPushes
  <2>1. /\ {consumer.pc, consumer'.pc} \subseteq Firing
        /\ consumer'.next = consumer.next /\ consumer'.msg = consumer.msg
    BY <1>4 DEF ConsumerPublishes, ConsumerPushes, EngineTypes, Goroutines, Firing
  <2>2. Stage' = Stage BY <2>1 DEF Stage, Busy
  <2>3. UNCHANGED <<history, active, fired>>
    BY <1>4 DEF ConsumerPublishes, ConsumerPushes
  <2> QED BY <2>1, <2>2, <2>3, QuietDue
<1>5. CASE ConsumerTrims
  <2>1. /\ consumer.pc \in Firing /\ consumer'.pc = consumer.next
        /\ consumer.next \in NextPc /\ consumer'.msg = consumer.msg
    BY <1>5 DEF ConsumerTrims, EngineTypes, Goroutines, Firing
  <2>2. Stage' = Stage BY <2>1 DEF Stage, Busy, NextPc, Firing
  <2>3. UNCHANGED <<history, active, fired>> BY <1>5 DEF ConsumerTrims
  <2> QED BY <2>1, <2>2, <2>3, QuietDue
<1>6. /\ "geofence" \in EdgeTypes /\ "low_battery" \in EdgeTypes
      /\ Follows("geofence", "low_battery") /\ Follows("low_battery", "anomaly")
  BY DEF EdgeTypes, Follows
<1> QED
  BY <1>1, <1>2, <1>3, <1>4, <1>5, <1>6 DEF ConsumerStep, Geofence, LowBattery

(* What the sweeper fires is no rule's alert. *)
LEMMA SweeperDue ==
  ASSUME EngineInv, Current, AllDue, SweeperStep
  PROVE  Current' /\ AllDue'
<1>1. EngineTypes /\ UNCHANGED <<history, active, consumer>>
  BY DEF EngineInv, SweeperStep, SweepTick, SweepLostComms, SweepEnds, SweeperFires,
     SweeperPublishes, SweeperPushes, SweeperTrims
<1>2. Stage' = Stage /\ consumer'.msg = consumer.msg BY <1>1 DEF Stage, Busy
<1>3. ASSUME NEW v \in Vehicles, NEW t \in Rules
      PROVE  FiredOf(fired, v, t)' = FiredOf(fired, v, t)
  <2>1. ASSUME NEW a \in sweeper.out, SweeperFires(a)
        PROVE  FiredOf(fired, v, t)' = FiredOf(fired, v, t)
    <3>1. PICK f, g : f = fired /\ g = fired' OBVIOUS
    <3>2. f \in Seq(Alert) /\ a \in Alert /\ g = Append(f, a)
      BY <1>1, <2>1, <3>1 DEF SweeperFires, EngineTypes, TypeOK, Goroutines
    <3>3. a.type = "lost_comms" BY DEF EngineInv, LostInv, GapInv, Pending, LostComms
    <3>4. ~ (a.v = v /\ a.type = t) BY <3>3 DEF Rules, EdgeTypes
    <3>5. FiredOf(g, v, t) = FiredOf(f, v, t)
      BY ONLY <3>2, <3>4, FiredMore, SMTT(30)
    <3> QED BY <3>1, <3>5
  <2>2. CASE UNCHANGED fired BY <2>2
  <2> QED
    BY <2>1, <2>2
    DEF SweeperStep, SweepTick, SweepLostComms, SweepEnds, SweeperPublishes, SweeperPushes, SweeperTrims
<1> QED BY <1>1, <1>2, <1>3, QuietDue

LEMMA NextDue ==
  ASSUME EngineInv, DueInv, [Next]_vars
  PROVE  DueInv'
<1> SUFFICES ASSUME restarts' = 0 PROVE Current' /\ AllDue' BY DEF DueInv
<1>1. EngineTypes /\ ~ Restart BY DEF Restart, EngineInv, EngineTypes, TypeOK
<1>2. restarts = 0
  BY <1>1 DEF Next, Seen, ConsumerStep, Geofence, LowBattery, transition, Anomaly, Done,
     ConsumerPublishes, ConsumerPushes, ConsumerTrims, SweeperStep, SweepTick, SweepLostComms, SweepEnds,
     SweeperFires, SweeperPublishes, SweeperPushes, SweeperTrims, Tick, vars
<1>3. Current /\ AllDue BY <1>2 DEF DueInv
<1>4. CASE Tick \/ UNCHANGED vars
  <2>1. UNCHANGED <<consumer, history, active, fired>> BY <1>4 DEF Tick, vars
  <2>2. Stage' = Stage /\ consumer'.msg = consumer.msg BY <2>1 DEF Stage, Busy
  <2> QED BY <1>1, <1>3, <2>1, <2>2, QuietDue
<1> QED BY <1>1, <1>3, <1>4, SeenDue, ConsumerDue, SweeperDue DEF Next

LEMMA InitDue ==
  ASSUME Init
  PROVE  DueInv
<1>1. Stage = "idle" BY DEF Init, Idle, Stage, Busy
<1>2. Current BY <1>1 DEF Current, Rules, EdgeTypes
<1>3. ASSUME NEW v \in Vehicles, NEW t \in Rules PROVE DueAt(v, t, Judged(v, t))
  <2>1. Judged(v, t) = 0
    BY <1>1 DEF Judged, Owed, Before, Rules, EdgeTypes, Init
  <2>2. FiredOf(fired, v, t) = {} BY DEF Init, FiredOf
  <2>3. CalledOf(history[v], t, 0) = {} BY DEF CalledOf
  <2>4. <<v, t>> \notin active BY DEF Init
  <2> QED BY <2>1, <2>2, <2>3, <2>4 DEF DueAt
<1> QED BY <1>2, <1>3 DEF DueInv, AllDue

LEMMA DueIsDue ==
  ASSUME EngineTypes, DueInv
  PROVE  AlertsAreDue
<1> SUFFICES ASSUME consumer = Idle, restarts = 0, NEW v \in Vehicles
             PROVE  /\ \A type \in EdgeTypes :
                         LET Of(a) == a.v = v /\ a.type = type IN
                         Count(fired, Of) = Cardinality(Edges(history[v], type))
                    /\ LET Of(a) == a.v = v /\ a.type = "anomaly"
                           Hot(m) == m.reading.anomaly IN
                       Count(fired, Of) = Count(history[v], Hot)
  BY DEF AlertsAreDue
<1>1. AllDue /\ Stage = "idle" BY DEF DueInv, Stage, Busy, Idle
<1>2. PICK h, n : h = history[v] /\ n = Len(h) OBVIOUS
<1>3. n \in Nat /\ DOMAIN h = 1 .. n BY <1>2, LenProperties DEF EngineTypes, TypeOK
<1>4. ASSUME NEW t \in Rules
      PROVE  Cardinality(FiredOf(fired, v, t)) = Cardinality(CalledOf(h, t, n))
  <2>1. Judged(v, t) = n BY <1>1, <1>2 DEF Judged, Owed, Before, Rules, EdgeTypes
  <2> QED BY <1>1, <1>2, <2>1 DEF AllDue, DueAt
<1>5. ASSUME NEW t \in EdgeTypes
      PROVE  LET Of(a) == a.v = v /\ a.type = t IN
             Count(fired, Of) = Cardinality(Edges(history[v], t))
  <2>1. t \in Rules BY DEF Rules
  <2>2. CalledOf(h, t, n) = Edges(h, t) BY <1>3 DEF CalledOf, Calls, Edges
  <2>3. Cardinality(FiredOf(fired, v, t)) = Cardinality(Edges(history[v], t))
    BY <1>2, <1>4, <2>1, <2>2
  <2> QED BY <2>3 DEF Count, FiredOf
<1>6. LET Of(a) == a.v = v /\ a.type = "anomaly"
          Hot(m) == m.reading.anomaly IN
      Count(fired, Of) = Count(history[v], Hot)
  <2>1. "anomaly" \in Rules /\ "anomaly" \notin EdgeTypes BY DEF Rules, EdgeTypes
  <2>2. CalledOf(h, "anomaly", n) = {i \in DOMAIN h : h[i].reading.anomaly}
    BY <1>3, <2>1 DEF CalledOf, Calls
  <2>3. Cardinality(FiredOf(fired, v, "anomaly"))
          = Cardinality({i \in DOMAIN history[v] : history[v][i].reading.anomaly})
    BY <1>2, <1>4, <2>1, <2>2
  <2> QED BY <2>3 DEF Count, FiredOf
<1> QED BY <1>5, <1>6

(* In one life of the service, the alerts fired for a vehicle are those    *)
(* its messages call for: one per excursion, as evalGeofence and           *)
(* evalLowBattery see it through transition, and one per anomalous sample; *)
(* whatever the sweeper fires in between.                                  *)
THEOREM AlertsAreCalledFor == Spec => []AlertsAreDue
<1>1. Init => DueInv BY InitDue
<1>2. EngineInv /\ DueInv /\ [Next]_vars => DueInv' BY NextDue
<1>3. EngineInv /\ DueInv => AlertsAreDue BY DueIsDue DEF EngineInv
<1> QED BY <1>1, <1>2, <1>3, EngineInvHolds, PTL DEF Spec

=============================================================================

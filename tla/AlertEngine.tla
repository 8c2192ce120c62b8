----------------------------- MODULE AlertEngine -----------------------------
(***************************************************************************)
(* The alert service: the rule engine of internal/alertengine/engine.go    *)
(* and the two goroutines of alerts/main.go that drive it, the telemetry   *)
(* consumer and the lost-comms sweeper.                                    *)
(*                                                                         *)
(* The engine's lock is held for one look at the state at a time.  The     *)
(* consumer takes it three times per message, and both goroutines fire     *)
(* their alerts after releasing it, so the vehicle may have moved on by    *)
(* the time an alert goes out.  What the rules look at is abstracted to    *)
(* their verdicts: a message says whether the vehicle is outside the       *)
(* fence, low on battery, and whether its temperature is anomalous.        *)
(***************************************************************************)
EXTENDS Integers, Sequences, FiniteSets

CONSTANTS
  Vehicles,
  Readings,        \* the verdicts of the rules on one message
  LostCommsAfter,  \* cfg.LostCommsAfter, in ticks of the clock
  RecentMax,       \* recentAlertsMax
  None,            \* "no alert", "no message"
  RedisMayFail,    \* whether publishing or recording an alert may fail
  MaxMessages,     \* bound: messages of one vehicle
  LastMessage,     \* bound: the last tick at which messages arrive
  MaxRestarts      \* bound: restarts of the service

ASSUME EngineAssumption ==
  /\ Readings \subseteq [geofence : BOOLEAN, low_battery : BOOLEAN, anomaly : BOOLEAN]
  /\ LostCommsAfter \in Nat /\ RecentMax \in Nat \ {0} /\ LastMessage \in Nat
  /\ MaxMessages \in Nat /\ MaxRestarts \in Nat /\ RedisMayFail \in BOOLEAN

VARIABLES
  now,       \* the clock
  lastSeen,  \* Engine.lastSeen: the vehicles seen, to [last, lostFired]
  active,    \* Engine.active: the keys that are true
  consumer,  \* the consumer: what it does next, its message and alert
  sweeper,   \* the sweeper: its tick, the alerts to fire and the one it fires
  history,   \* the messages the engine was given, by vehicle
  fired,     \* the alerts fire was called with, in order
  published, \* the alert stream
  recent,    \* Redis: the list alerts:recent, newest first
  restarts   \* restarts of the service so far

redis == <<published, recent>>
vars == <<now, lastSeen, active, consumer, sweeper, history, fired, redis, restarts>>

MaxTime == LastMessage + LostCommsAfter + 1

EdgeTypes == {"geofence", "low_battery"}
Types == EdgeTypes \cup {"anomaly", "lost_comms"}

Message == [v : Vehicles, reading : Readings]

(* ts is the time of the observation the alert is about, at the time it    *)
(* was detected.                                                           *)
Alert == [v : Vehicles, type : Types, ts : Nat, at : Nat]

newAlert(v, type, ts) == [v |-> v, type |-> type, ts |-> ts, at |-> now]

Put(m, k, v) == [i \in DOMAIN m \cup {k} |-> IF i = k THEN v ELSE m[i]]

-----------------------------------------------------------------------------
(* fire: the alert goes out on the stream, then on the capped list by an   *)
(* LPUSH and an LTRIM of one pipeline, which is no transaction: the other  *)
(* goroutine's commands may come in between.  Each is best effort.         *)

(* What a goroutine that fires an alert does next with it.                 *)
Firing == {"publish", "push", "trim"}

PublishAlert(a) ==
  /\ \/ published' = Append(published, a)
     \/ RedisMayFail /\ UNCHANGED published
  /\ UNCHANGED recent

(* Mutant of Capped: off by one at the end of the list.                    *)
CappedShort(s) == SubSeq(s, 1, IF Len(s) >= RecentMax THEN RecentMax - 1 ELSE Len(s))

Capped(s) == SubSeq(s, 1, IF Len(s) > RecentMax THEN RecentMax ELSE Len(s))

PushAlert(a) ==
  /\ \/ recent' = <<a>> \o recent
     \/ RedisMayFail /\ UNCHANGED recent
  /\ UNCHANGED published

TrimAlerts ==
  /\ \/ recent' = Capped(recent)
     \/ RedisMayFail /\ UNCHANGED recent
  /\ UNCHANGED published

-----------------------------------------------------------------------------
(* ProcessTelemetry, in the consumer's goroutine. *)

Idle == [pc |-> "idle", next |-> "idle", msg |-> None, alert |-> None]

(* Mutant of Seen: lost-comms is not armed again.                          *)
SeenKeepsFlag(m) ==
  LET flag == m.v \in DOMAIN lastSeen /\ lastSeen[m.v].lostFired IN
  /\ consumer = Idle /\ now <= LastMessage /\ Len(history[m.v]) < MaxMessages
  /\ lastSeen' = Put(lastSeen, m.v, [last |-> now, lostFired |-> flag])
  /\ consumer' = [Idle EXCEPT !.pc = "geofence", !.msg = m]
  /\ history' = [history EXCEPT ![m.v] = Append(@, m)]
  /\ UNCHANGED <<now, active, sweeper, fired, redis, restarts>>

(* Any message re-arms lost-comms. *)
Seen(m) ==
  /\ consumer = Idle /\ now <= LastMessage /\ Len(history[m.v]) < MaxMessages
  /\ lastSeen' = Put(lastSeen, m.v, [last |-> now, lostFired |-> FALSE])
  /\ consumer' = [Idle EXCEPT !.pc = "geofence", !.msg = m]
  /\ history' = [history EXCEPT ![m.v] = Append(@, m)]
  /\ UNCHANGED <<now, active, sweeper, fired, redis, restarts>>

(* The consumer goes on to next, by way of firing an alert if it has one.  *)
Proceed(next, alerts) ==
  \/ alerts = {} /\ consumer' = [consumer EXCEPT !.pc = next] /\ UNCHANGED fired
  \/ \E a \in alerts :
       /\ consumer' = [consumer EXCEPT !.pc = "publish", !.next = next, !.alert = a]
       /\ fired' = Append(fired, a)

(* Mutant of transition: a condition that clears is not recorded.          *)
transitionOnce(type, next) ==
  LET m == consumer.msg
      key == <<m.v, type>> IN
  /\ consumer.pc = type
  /\ active' = IF m.reading[type] THEN active \cup {key} ELSE active
  /\ Proceed(next, IF m.reading[type] /\ key \notin active
                   THEN {newAlert(m.v, type, now)} ELSE {})
  /\ UNCHANGED <<now, lastSeen, sweeper, history, redis, restarts>>

(* An alert on the edge from FALSE to TRUE only. *)
transition(type, next) ==
  LET m == consumer.msg
      key == <<m.v, type>> IN
  /\ consumer.pc = type
  /\ active' = IF m.reading[type] THEN active \cup {key} ELSE active \ {key}
  /\ Proceed(next, IF m.reading[type] /\ key \notin active
                   THEN {newAlert(m.v, type, now)} ELSE {})
  /\ UNCHANGED <<now, lastSeen, sweeper, history, redis, restarts>>

Geofence == transition("geofence", "low_battery")
LowBattery == transition("low_battery", "anomaly")

(* Every anomalous sample fires. *)
Anomaly ==
  LET m == consumer.msg IN
  /\ consumer.pc = "anomaly"
  /\ Proceed("done", IF m.reading.anomaly THEN {newAlert(m.v, "anomaly", now)} ELSE {})
  /\ UNCHANGED <<now, lastSeen, active, sweeper, history, redis, restarts>>

Done ==
  /\ consumer.pc = "done" /\ consumer' = Idle
  /\ UNCHANGED <<now, lastSeen, active, sweeper, history, fired, redis, restarts>>

ConsumerPublishes ==
  /\ consumer.pc = "publish" /\ consumer' = [consumer EXCEPT !.pc = "push"]
  /\ PublishAlert(consumer.alert)
  /\ UNCHANGED <<now, lastSeen, active, sweeper, history, fired, restarts>>

ConsumerPushes ==
  /\ consumer.pc = "push" /\ consumer' = [consumer EXCEPT !.pc = "trim"]
  /\ PushAlert(consumer.alert)
  /\ UNCHANGED <<now, lastSeen, active, sweeper, history, fired, restarts>>

ConsumerTrims ==
  /\ consumer.pc = "trim"
  /\ consumer' = [consumer EXCEPT !.pc = consumer.next, !.alert = None]
  /\ TrimAlerts
  /\ UNCHANGED <<now, lastSeen, active, sweeper, history, fired, restarts>>

ConsumerStep ==
  \/ Geofence \/ LowBattery \/ Anomaly \/ Done
  \/ ConsumerPublishes \/ ConsumerPushes \/ ConsumerTrims

-----------------------------------------------------------------------------
(* SweepLostComms, in the sweeper's goroutine.  The time it judges by is   *)
(* that of the tick, which may be old when it gets the lock.               *)

Resting == [pc |-> "rest", at |-> 0, out |-> {}, alert |-> None]

SweepTick ==
  /\ sweeper = Resting /\ sweeper' = [Resting EXCEPT !.pc = "sweep", !.at = now]
  /\ UNCHANGED <<now, lastSeen, active, consumer, history, fired, redis, restarts>>

(* Mutants of SweepLostComms: a vehicle reported lost is not marked, or    *)
(* every vehicle is.                                                       *)
SweepMarking(marked(_, _)) ==
  LET late == {v \in DOMAIN lastSeen :
                 ~ lastSeen[v].lostFired /\ sweeper.at - lastSeen[v].last > LostCommsAfter}
  IN
  /\ sweeper.pc = "sweep"
  /\ lastSeen' = [v \in DOMAIN lastSeen |->
                    IF marked(v, late) THEN [lastSeen[v] EXCEPT !.lostFired = TRUE]
                    ELSE lastSeen[v]]
  /\ sweeper' = [sweeper EXCEPT !.pc = "fire",
       !.out = {[v |-> v, type |-> "lost_comms", ts |-> lastSeen[v].last,
                 at |-> sweeper.at] : v \in late}]
  /\ UNCHANGED <<now, active, consumer, history, fired, redis, restarts>>

SweepMarksNone == SweepMarking(LAMBDA v, late : FALSE)

SweepMarksAll == SweepMarking(LAMBDA v, late : TRUE)

SweepLostComms ==
  LET late == {v \in DOMAIN lastSeen :
                 ~ lastSeen[v].lostFired /\ sweeper.at - lastSeen[v].last > LostCommsAfter}
  IN
  /\ sweeper.pc = "sweep"
  /\ lastSeen' = [v \in DOMAIN lastSeen |->
                    IF v \in late THEN [lastSeen[v] EXCEPT !.lostFired = TRUE]
                    ELSE lastSeen[v]]
  /\ sweeper' = [sweeper EXCEPT !.pc = "fire",
       !.out = {[v |-> v, type |-> "lost_comms", ts |-> lastSeen[v].last,
                 at |-> sweeper.at] : v \in late}]
  /\ UNCHANGED <<now, active, consumer, history, fired, redis, restarts>>

(* Mutant of SweeperFires: the alert is not kept for what fire does next.  *)
SweeperFiresNone(a) ==
  /\ sweeper.pc = "fire"
  /\ sweeper' = [sweeper EXCEPT !.pc = "publish", !.out = @ \ {a}]
  /\ fired' = Append(fired, a)
  /\ UNCHANGED <<now, lastSeen, active, consumer, history, redis, restarts>>

SweeperFires(a) ==
  /\ sweeper.pc = "fire"
  /\ sweeper' = [sweeper EXCEPT !.pc = "publish", !.out = @ \ {a}, !.alert = a]
  /\ fired' = Append(fired, a)
  /\ UNCHANGED <<now, lastSeen, active, consumer, history, redis, restarts>>

SweeperPublishes ==
  /\ sweeper.pc = "publish" /\ sweeper' = [sweeper EXCEPT !.pc = "push"]
  /\ PublishAlert(sweeper.alert)
  /\ UNCHANGED <<now, lastSeen, active, consumer, history, fired, restarts>>

SweeperPushes ==
  /\ sweeper.pc = "push" /\ sweeper' = [sweeper EXCEPT !.pc = "trim"]
  /\ PushAlert(sweeper.alert)
  /\ UNCHANGED <<now, lastSeen, active, consumer, history, fired, restarts>>

SweeperTrims ==
  /\ sweeper.pc = "trim"
  /\ sweeper' = [sweeper EXCEPT !.pc = "fire", !.alert = None]
  /\ TrimAlerts
  /\ UNCHANGED <<now, lastSeen, active, consumer, history, fired, restarts>>

SweepEnds ==
  /\ sweeper.pc = "fire" /\ sweeper.out = {} /\ sweeper' = Resting
  /\ UNCHANGED <<now, lastSeen, active, consumer, history, fired, redis, restarts>>

SweeperStep ==
  \/ SweepTick \/ SweepLostComms \/ SweepEnds
  \/ \E a \in sweeper.out : SweeperFires(a)
  \/ SweeperPublishes \/ SweeperPushes \/ SweeperTrims

-----------------------------------------------------------------------------
Tick ==
  /\ now < MaxTime
  /\ now' = now + 1
  /\ UNCHANGED <<lastSeen, active, consumer, sweeper, history, fired, redis, restarts>>

(* The service dies and starts again: the rules' state was in memory.      *)
Restart ==
  /\ restarts < MaxRestarts /\ restarts' = restarts + 1
  /\ lastSeen' = <<>> /\ active' = {} /\ consumer' = Idle /\ sweeper' = Resting
  /\ UNCHANGED <<now, history, fired, redis>>

Init ==
  /\ now = 1 /\ restarts = 0
  /\ lastSeen = <<>> /\ active = {}
  /\ consumer = Idle /\ sweeper = Resting
  /\ history = [v \in Vehicles |-> <<>>]
  /\ fired = <<>> /\ published = <<>> /\ recent = <<>>

Next ==
  \/ \E m \in Message : Seen(m)
  \/ ConsumerStep \/ SweeperStep
  \/ Tick \/ Restart

Spec == Init /\ [][Next]_vars

(* Both goroutines are scheduled, the sweep's ticker fires, time passes.   *)
(* No vehicle has to report.                                               *)
FairSpec ==
  Spec /\ WF_vars(ConsumerStep) /\ WF_vars(SweeperStep) /\ WF_vars(Tick)

-----------------------------------------------------------------------------
(* Properties                                                              *)

(* Values have their types. *)
TypeOK ==
  /\ now \in Nat /\ restarts \in 0 .. MaxRestarts
  /\ DOMAIN lastSeen \subseteq Vehicles
  /\ \A v \in DOMAIN lastSeen : lastSeen[v] \in [last : Nat, lostFired : BOOLEAN]
  /\ active \subseteq Vehicles \X EdgeTypes
  /\ consumer.pc \in EdgeTypes \cup {"idle", "anomaly", "done"} \cup Firing
  /\ consumer.msg \in Message \cup {None} /\ consumer.alert \in Alert \cup {None}
  /\ sweeper.pc \in {"rest", "sweep", "fire"} \cup Firing
  /\ sweeper.out \subseteq Alert /\ sweeper.alert \in Alert \cup {None}
  /\ history \in [Vehicles -> Seq(Message)]
  /\ {fired, published, recent} \subseteq Seq(Alert)

Count(s, P(_)) == Cardinality({i \in DOMAIN s : P(s[i])})

(* The messages of h that raise the condition of a rule: TRUE where the    *)
(* message before, if any, said FALSE.                                     *)
Edges(h, type) == {i \in DOMAIN h : h[i].reading[type] /\ (i = 1 \/ ~ h[i - 1].reading[type])}

(* Between two messages, the alerts fired so far are exactly those that    *)
(* the messages call for: one per excursion out of the fence or below the  *)
(* battery threshold, however long it lasts, and one per anomalous sample. *)
(* A restart forgets who is alerting, so this is about one life.           *)
AlertsAreDue ==
  consumer = Idle /\ restarts = 0 =>
    \A v \in Vehicles :
      /\ \A type \in EdgeTypes :
           LET Of(a) == a.v = v /\ a.type = type IN
           Count(fired, Of) = Cardinality(Edges(history[v], type))
      /\ LET Of(a) == a.v = v /\ a.type = "anomaly"
             Hot(m) == m.reading.anomaly IN
         Count(fired, Of) = Count(history[v], Hot)

(* One gap in a vehicle's telemetry is reported once, though the sweep     *)
(* runs again and again while it lasts: two lost-comms alerts of a vehicle *)
(* are about different last messages, across restarts too.                 *)
OneAlertPerGap ==
  \A i, j \in DOMAIN fired :
    /\ fired[i].type = "lost_comms" /\ fired[j].type = "lost_comms"
    /\ fired[i].v = fired[j].v /\ fired[i].ts = fired[j].ts
    => i = j

(* Firing is left to after the lock, and the vehicle may report in between:*)
(* still a vehicle is marked as reported lost exactly when the alert about *)
(* its last message has been fired or is about to be.                      *)
LostFlagIsHonest ==
  \A v \in DOMAIN lastSeen :
    LET OfGap(a) == a.v = v /\ a.type = "lost_comms" /\ a.ts = lastSeen[v].last
        reported == \/ \E i \in DOMAIN fired : OfGap(fired[i])
                    \/ \E a \in sweeper.out : OfGap(a)
    IN lastSeen[v].lostFired <=> reported

(* How far the list may be over its cap: by one for each goroutine that is *)
(* between its push and its trim.                                          *)
Untrimmed == (IF consumer.pc = "trim" THEN 1 ELSE 0) + (IF sweeper.pc = "trim" THEN 1 ELSE 0)

(* As long as Redis answers, the pushes and trims of the two goroutines    *)
(* may mix in any order, yet the list never has more alerts over its cap   *)
(* than there are goroutines about to trim it.  Once both are at rest      *)
(* every alert fired went out on the stream once, in whatever order, and   *)
(* the list has as many alerts as there are or fit.                        *)
AlertsGoOut ==
  ~ RedisMayFail /\ restarts = 0 =>
    /\ Len(recent) <= RecentMax + Untrimmed
    /\ \A i \in DOMAIN recent : \E j \in DOMAIN fired : fired[j] = recent[i]
    /\ consumer = Idle /\ sweeper.pc \in {"rest", "sweep"} =>
         /\ \A i \in DOMAIN fired :
              LET Same(a) == a = fired[i] IN Count(published, Same) = Count(fired, Same)
         /\ Len(published) = Len(fired)
         /\ Len(recent) = (IF Len(fired) > RecentMax THEN RecentMax ELSE Len(fired))

ReportedLost(v) ==
  v \in DOMAIN lastSeen /\
  \E i \in DOMAIN fired :
    fired[i].v = v /\ fired[i].type = "lost_comms" /\ fired[i].ts = lastSeen[v].last

(* A vehicle that falls silent for good, which they all do in the end of a *)
(* bounded behavior, is reported lost: after each gap that was reported    *)
(* the alert is armed again for the next.  A restart forgets the vehicle.  *)
SilentIsReported ==
  \A v \in Vehicles :
    v \in DOMAIN lastSeen ~> ReportedLost(v) \/ v \notin DOMAIN lastSeen

=============================================================================

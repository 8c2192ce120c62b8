------------------------------ MODULE AlertFeed ------------------------------
(***************************************************************************)
(* The way of an alert to the list an operator reads: fire of              *)
(* alerts/main.go, the two ways on from there - the stream bus:alerts and  *)
(* the list alerts:recent in Redis -, the API, and a page (App.tsx).       *)
(*                                                                         *)
(* fire runs in two goroutines, the one that evaluates telemetry and the   *)
(* one that sweeps for silent vehicles, and holds no lock.  It publishes   *)
(* an alert first and puts it on the list after.  The page asks once for   *)
(* the list, and meanwhile and from then on gets alerts pushed, on a       *)
(* channel they share with the fleet frames.                               *)
(*                                                                         *)
(* Alerts are numbered in the order they are fired.                        *)
(***************************************************************************)
EXTENDS Integers, Sequences

Lists == INSTANCE SequencesExt

CONSTANTS
  Firers,      \* the goroutines that fire
  RecentMax,   \* recentAlertsMax, 500
  RangeMax,    \* alerts the API reads from the list, 200
  MaxAlerts,   \* MAX_ALERTS of the page, 200
  PushSize,    \* frames on their way to the page
  MaxFired,    \* bound: alerts
  MaxCuts      \* bound: broken connections and restarts of the API

ASSUME FeedAssumption ==
  /\ MaxAlerts \in Nat \ {0} /\ RangeMax \in Nat /\ RecentMax \in Nat
  /\ MaxAlerts <= RangeMax /\ RangeMax <= RecentMax
  /\ PushSize \in Nat \ {0} /\ MaxFired \in Nat /\ MaxCuts \in Nat

VARIABLES
  fired,     \* alerts fired so far
  firing,    \* the alert each firer has published and not yet recorded, or 0
  bus,       \* alerts on the API's subscription
  recent,    \* Redis: alerts:recent, newest first
  live,      \* whether the page's websocket is open
  pushes,    \* frames between the hub and the page: an alert, or 0 for the fleet
  request,   \* the page's GET /api/alerts
  answer,    \* what the API has answered
  alerts,    \* the state alerts of the page, newest first
  cuts,
  recorded,  \* all alerts put on the list, in that order
  read,      \* how many of them the answer that was loaded could know
  arrived    \* alerts pushed to the page, since the answer if it was loaded

service == <<fired, firing>>
feedPage == <<request, answer, alerts, read, arrived>>
feedVars == <<service, bus, recent, recorded, live, pushes, feedPage, cuts>>

Upto(s, n) == IF Len(s) > n THEN SubSeq(s, 1, n) ELSE s

-----------------------------------------------------------------------------
(* fire. *)

(* Whether the stream's message reaches the API depends on Redis and on    *)
(* the API being subscribed; the error is ignored.                         *)
PublishAlert(f) ==
  /\ firing[f] = 0 /\ fired < MaxFired
  /\ fired' = fired + 1 /\ firing' = [firing EXCEPT ![f] = fired + 1]
  /\ bus' \in {bus, Append(bus, fired + 1)}
  /\ UNCHANGED <<recent, recorded, live, pushes, feedPage, cuts>>

(* Mutant of Recorded: RPush for LPush.                                    *)
RecordedLast(a) == Upto(Append(recent, a), RecentMax)

(* LPush and LTrim. *)
Recorded(a) == Upto(<<a>> \o recent, RecentMax)

(* The pipeline may fail, or be cut off between its commands. *)
RecordAlert(f) ==
  /\ firing[f] # 0 /\ firing' = [firing EXCEPT ![f] = 0]
  /\ \/ /\ recent' \in {Recorded(firing[f]), <<firing[f]>> \o recent}
        /\ recorded' = Append(recorded, firing[f])
     \/ UNCHANGED <<recent, recorded>>
  /\ UNCHANGED <<fired, bus, live, pushes, feedPage, cuts>>

-----------------------------------------------------------------------------
(* The API. *)

Room == Len(pushes) < PushSize

consumeAlerts ==
  /\ bus # <<>> /\ bus' = Tail(bus)
  /\ pushes' = IF live /\ Room THEN Append(pushes, Head(bus)) ELSE pushes
  /\ UNCHANGED <<service, recent, recorded, live, feedPage, cuts>>

broadcastFleet ==
  /\ live /\ Room /\ pushes' = Append(pushes, 0)
  /\ UNCHANGED <<service, bus, recent, recorded, live, feedPage, cuts>>

(* LRange.  What the page knows of the list is up to here. *)
handleAlerts ==
  /\ request = "asked" /\ request' = "answered"
  /\ answer' = Upto(recent, RangeMax) /\ read' = Len(recorded)
  /\ UNCHANGED <<service, bus, recent, recorded, live, pushes, alerts, arrived, cuts>>

-----------------------------------------------------------------------------
(* The page. *)

initialAlerts ==
  /\ request = "idle" /\ request' = "asked"
  /\ UNCHANGED <<service, bus, recent, recorded, live, pushes,
                 answer, alerts, read, arrived, cuts>>

(* Mutant of setAlerts: the answer is put after what was pushed before it. *)
setAlertsAfter == Upto(alerts \o answer, MaxAlerts)

setAlerts == Upto(answer, MaxAlerts)

(* The answer replaces the list. *)
LoadAlerts ==
  /\ request = "answered" /\ request' = "loaded"
  /\ alerts' = setAlerts /\ arrived' = <<>>
  /\ UNCHANGED <<service, bus, recent, recorded, live, pushes, answer, read, cuts>>

(* The error is swallowed, and the page keeps what was pushed. *)
Unanswered ==
  IF request \in {"asked", "answered"}
  THEN request' = "failed" /\ read' = 0 ELSE UNCHANGED <<request, read>>

RequestFails ==
  /\ request \in {"asked", "answered"} /\ Unanswered
  /\ UNCHANGED <<service, bus, recent, recorded, live, pushes,
                 answer, alerts, arrived, cuts>>

onFrame ==
  /\ pushes # <<>> /\ pushes' = Tail(pushes)
  /\ IF Head(pushes) = 0 THEN UNCHANGED <<alerts, arrived>>
     ELSE /\ alerts' = Upto(<<Head(pushes)>> \o alerts, MaxAlerts)
          /\ arrived' = Append(arrived, Head(pushes))
  /\ UNCHANGED <<service, bus, recent, recorded, live, request, answer, read, cuts>>

Connect ==
  /\ ~ live /\ live' = TRUE
  /\ UNCHANGED <<service, bus, recent, recorded, pushes, feedPage, cuts>>

(* The connection cuts, and with a restart of the API also its           *)
(* subscription and a request under way.                                   *)
Disconnect(restart) ==
  /\ live \/ restart
  /\ cuts < MaxCuts /\ cuts' = cuts + 1
  /\ live' = FALSE /\ pushes' = <<>>
  /\ IF restart THEN bus' = <<>> /\ Unanswered ELSE UNCHANGED <<bus, request, read>>
  /\ UNCHANGED <<service, recent, recorded, answer, alerts, arrived>>

FeedInit ==
  /\ fired = 0 /\ firing = [f \in Firers |-> 0] /\ bus = <<>>
  /\ recent = <<>> /\ recorded = <<>> /\ live = FALSE /\ pushes = <<>>
  /\ request = "idle" /\ answer = <<>> /\ alerts = <<>> /\ cuts = 0
  /\ read = 0 /\ arrived = <<>>

FeedNext ==
  \/ \E f \in Firers : PublishAlert(f) \/ RecordAlert(f)
  \/ consumeAlerts \/ broadcastFleet \/ handleAlerts
  \/ initialAlerts \/ LoadAlerts \/ RequestFails \/ onFrame \/ Connect
  \/ \E restart \in BOOLEAN : Disconnect(restart)

FeedSpec == FeedInit /\ [][FeedNext]_feedVars

-----------------------------------------------------------------------------
(* Properties                                                              *)

Alerts == 1 .. fired

(* Values have their types, and nothing is left of a closed connection.    *)
FeedTypeOK ==
  /\ fired \in 0 .. MaxFired /\ firing \in [Firers -> {0} \cup Alerts]
  /\ {bus, recent, recorded, answer, arrived, alerts} \subseteq Seq(Alerts)
  /\ pushes \in Seq({0} \cup Alerts) /\ Len(pushes) <= PushSize
  /\ live \in BOOLEAN /\ (~ live => pushes = <<>>)
  /\ request \in {"idle", "asked", "answered", "loaded", "failed"}
  /\ Len(answer) <= RangeMax /\ Len(alerts) <= MaxAlerts
  /\ read \in 0 .. Len(recorded) /\ cuts \in 0 .. MaxCuts

(* When the fetch is over, the page lists what an endless log would have   *)
(* at its top: the alerts pushed since the answer over those recorded      *)
(* before it was read, newest first.  So no alert goes missing whose       *)
(* recording the read has seen or whose frame comes after the answer,      *)
(* whatever the lists are cut to; one that is in neither - pushed before   *)
(* the answer and recorded after the read - does.                          *)
FeedIsHistory ==
  request \in {"loaded", "failed"} =>
    alerts = Upto(Lists!Reverse(arrived) \o Lists!Reverse(SubSeq(recorded, 1, read)), MaxAlerts)

(* An alert is pushed once, and listed twice only where the push and the   *)
(* fetch meet: in a frame after the answer and in the answer.              *)
RepeatsOnlyAtTheFetch ==
  \A i, j \in DOMAIN alerts :
    i < j /\ alerts[i] = alerts[j] =>
      request = "loaded" /\ i <= Len(arrived) /\ j > Len(arrived)

-----------------------------------------------------------------------------
(* What the code assumes and does not keep.                                *)

(* AlertsPanel.tsx keys the entries of the list by the alerts' ids.        *)
ListedOnce ==
  \A i, j \in DOMAIN alerts : alerts[i] = alerts[j] => i = j

=============================================================================

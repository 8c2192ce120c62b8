------------------------------ MODULE FleetView ------------------------------
(***************************************************************************)
(* The fleet as an operator sees it: from the twin and the telemetry       *)
(* stream in Redis, through the API's live view (the map latest of         *)
(* api/main.go), to the vehicles on a dashboard page (App.tsx).            *)
(*                                                                         *)
(* The API reads its view from the twin before it subscribes to the stream *)
(* and then lets each message overwrite its vehicle's entry.  A page asks  *)
(* once for the fleet, which the API answers from the twin, and opens a    *)
(* websocket, on which it gets the API's whole view every 750 ms.          *)
(***************************************************************************)
EXTENDS Integers, Sequences, FiniteSets

CONSTANTS
  Vehicles,
  MaxTs,        \* bound: time stamps of one vehicle
  MaxMessages,  \* bound: messages ingestion takes in
  SendSize,     \* frames on their way to the page
  None,         \* "no frame"
  MaxBreaks,    \* bound: breaks of the page's connection
  MaxRestarts   \* bound: restarts of the API

ASSUME ViewAssumption ==
  SendSize \in Nat \ {0} /\ {MaxTs, MaxMessages, MaxBreaks, MaxRestarts} \subseteq Nat

(* Telemetry is told apart by its vehicle and its time stamp. *)
Messages == [v : Vehicles, ts : 1 .. MaxTs]

VARIABLES
  twin,       \* Redis: the time stamp in the hash of each vehicle in the fleet set
  fresh,      \* messages ingestion has yet to write to the twin
  written,    \* messages written to the twin and yet to be published
  stream,     \* messages on the API's subscription
  subscribed, \* whether the API is subscribed
  api,        \* "down", "seeding" or "serving"
  seed,       \* the twin as far as the API has read it
  latest,     \* server.latest
  frame,      \* the frame broadcastFleet holds, or None
  ws,         \* whether the page's websocket is open
  frames,     \* the frames between the hub and the page
  fetch,      \* the page's GET /api/fleet, and what the API has read for it
  vehicles,   \* the state vehicles of the page
  breaks, restarts,
  taken,      \* all messages that consumeTelemetry took
  born        \* how many of them in earlier lives of the API

ingestion == <<twin, fresh, written>>
server == <<api, seed, latest, subscribed>>
page == <<fetch, vehicles>>
ghosts == <<breaks, restarts, taken, born>>
vars == <<ingestion, stream, server, frame, ws, frames, page, ghosts>>

Put(m, k, v) == [i \in DOMAIN m \cup {k} |-> IF i = k THEN v ELSE m[i]]

(* m overwritten by n. *)
Merge(m, n) == [i \in DOMAIN m \cup DOMAIN n |-> IF i \in DOMAIN n THEN n[i] ELSE m[i]]

(* An entry of the view or of the page: the time stamp shown and how many  *)
(* messages the API had taken from the stream when it was made.            *)
Entry(ts, pos) == [ts |-> ts, pos |-> pos]

-----------------------------------------------------------------------------
(* Ingestion, whose workers handle the messages of a vehicle in any order: *)
(* the twin first, then the stream, which only a subscriber gets, and not  *)
(* even that when a Redis call fails.                                      *)

Update(m) ==
  /\ m \in fresh /\ fresh' = fresh \ {m}
  /\ Cardinality(Messages \ fresh) < MaxMessages
  /\ twin' = Put(twin, m.v, m.ts)
  /\ written' = written \cup {m}
  /\ UNCHANGED <<stream, server, frame, ws, frames, page, ghosts>>

PublishTelemetry(m) ==
  /\ m \in written /\ written' = written \ {m}
  /\ \/ subscribed /\ stream' = Append(stream, m)
     \/ UNCHANGED stream
  /\ UNCHANGED <<twin, fresh, server, frame, ws, frames, page, ghosts>>

-----------------------------------------------------------------------------
(* Snapshot: the members of the fleet set, then their hashes one by one. *)

Reading == [todo |-> DOMAIN twin, got |-> <<>>]

ReadHash(r, v) ==
  [r EXCEPT !.todo = @ \ {v}, !.got = Put(@, v, twin[v])]

Nothing == [todo |-> {}, got |-> <<>>]

Dated(got, pos) == [v \in DOMAIN got |-> Entry(got[v], pos)]

-----------------------------------------------------------------------------
(* main of the API, consumeTelemetry and broadcastFleet. *)

StartSeed ==
  /\ api = "down" /\ api' = "seeding" /\ seed' = Reading
  /\ UNCHANGED <<ingestion, stream, latest, subscribed, frame, ws, frames, page, ghosts>>

SeedReads(v) ==
  /\ v \in seed.todo /\ seed' = ReadHash(seed, v)
  /\ UNCHANGED <<ingestion, stream, api, latest, subscribed, frame, ws, frames, page, ghosts>>

(* A snapshot that failed seeds nothing, and nobody is told. *)
Serve ==
  /\ api = "seeding" /\ api' = "serving" /\ seed' = Nothing
  /\ \/ seed.todo = {} /\ latest' = Merge(latest, Dated(seed.got, Len(taken)))
     \/ UNCHANGED latest
  /\ UNCHANGED <<ingestion, stream, subscribed, frame, ws, frames, page, ghosts>>

(* Mutant of SubscribeTelemetry: it does not wait for the seed.            *)
SubscribeEarly ==
  /\ api # "down" /\ ~ subscribed /\ subscribed' = TRUE
  /\ UNCHANGED <<ingestion, stream, api, seed, latest, frame, ws, frames, page, ghosts>>

SubscribeTelemetry ==
  /\ api = "serving" /\ ~ subscribed /\ subscribed' = TRUE
  /\ UNCHANGED <<ingestion, stream, api, seed, latest, frame, ws, frames, page, ghosts>>

consumeTelemetry ==
  /\ stream # <<>> /\ stream' = Tail(stream)
  /\ taken' = Append(taken, Head(stream))
  /\ latest' = Put(latest, Head(stream).v, Entry(Head(stream).ts, Len(taken) + 1))
  /\ UNCHANGED <<ingestion, api, seed, subscribed, frame, ws, frames, page,
                 breaks, restarts, born>>

(* broadcastFleet copies the view, when there is anybody to send it to, and *)
(* broadcasts the copy later.                                               *)
FleetTick ==
  /\ api = "serving" /\ frame = None /\ ws /\ frame' = latest
  /\ UNCHANGED <<ingestion, stream, server, ws, frames, page, ghosts>>

(* Mutant of broadcast: off by one at the capacity.                        *)
broadcastOneMore ==
  /\ frame # None /\ frame' = None
  /\ frames' = IF ws /\ Len(frames) <= SendSize THEN Append(frames, frame) ELSE frames
  /\ UNCHANGED <<ingestion, stream, server, ws, page, ghosts>>

broadcast ==
  /\ frame # None /\ frame' = None
  /\ frames' = IF ws /\ Len(frames) < SendSize THEN Append(frames, frame) ELSE frames
  /\ UNCHANGED <<ingestion, stream, server, ws, page, ghosts>>

-----------------------------------------------------------------------------
(* The page. *)

initialFleet ==
  /\ api = "serving" /\ fetch.pc = "idle"
  /\ fetch' = [pc |-> "reading", twin |-> Reading]
  /\ UNCHANGED <<ingestion, stream, server, frame, ws, frames, vehicles, ghosts>>

FetchReads(v) ==
  /\ v \in fetch.twin.todo /\ fetch' = [fetch EXCEPT !.twin = ReadHash(@, v)]
  /\ UNCHANGED <<ingestion, stream, server, frame, ws, frames, vehicles, ghosts>>

Fetched == [pc |-> "done", twin |-> Nothing]

(* setVehicles(map): the answer replaces what frames have brought so far. *)
FetchLoads ==
  /\ fetch.pc = "reading" /\ fetch.twin.todo = {} /\ fetch' = Fetched
  /\ vehicles' = Dated(fetch.twin.got, 0)
  /\ UNCHANGED <<ingestion, stream, server, frame, ws, frames, ghosts>>

(* The error is swallowed, and the fetch is not made again. *)
FetchFails ==
  /\ fetch.pc # "done" /\ fetch' = Fetched
  /\ UNCHANGED <<ingestion, stream, server, frame, ws, frames, vehicles, ghosts>>

(* Mutant of open: a connection that broke is not opened again.            *)
openOnce ==
  /\ ~ ws /\ api = "serving" /\ breaks = 0 /\ ws' = TRUE
  /\ UNCHANGED <<ingestion, stream, server, frame, frames, page, ghosts>>

open ==
  /\ ~ ws /\ api = "serving" /\ ws' = TRUE
  /\ UNCHANGED <<ingestion, stream, server, frame, frames, page, ghosts>>

onclose ==
  /\ ws /\ breaks < MaxBreaks /\ breaks' = breaks + 1
  /\ ws' = FALSE /\ frames' = <<>>
  /\ UNCHANGED <<ingestion, stream, server, frame, page, restarts, taken, born>>

(* Mutant of applyFleet: a frame replaces the fleet.                       *)
ReplaceFleet ==
  /\ frames # <<>> /\ frames' = Tail(frames)
  /\ vehicles' = Head(frames)
  /\ UNCHANGED <<ingestion, stream, server, frame, ws, fetch, ghosts>>

applyFleet ==
  /\ frames # <<>> /\ frames' = Tail(frames)
  /\ vehicles' = Merge(vehicles, Head(frames))
  /\ UNCHANGED <<ingestion, stream, server, frame, ws, fetch, ghosts>>

-----------------------------------------------------------------------------
(* The API dies and starts again.  Connections and requests die with it.   *)
Restart ==
  /\ api # "down" /\ restarts < MaxRestarts /\ restarts' = restarts + 1
  /\ api' = "down" /\ seed' = Nothing /\ latest' = <<>> /\ subscribed' = FALSE
  /\ stream' = <<>> /\ frame' = None /\ ws' = FALSE /\ frames' = <<>>
  /\ fetch' = IF fetch.pc = "reading" THEN Fetched ELSE fetch
  /\ born' = Len(taken)
  /\ UNCHANGED <<ingestion, vehicles, breaks, taken>>

Init ==
  /\ twin = <<>> /\ fresh = Messages /\ written = {} /\ stream = <<>>
  /\ api = "down" /\ seed = Nothing /\ latest = <<>> /\ subscribed = FALSE
  /\ frame = None /\ ws = FALSE /\ frames = <<>>
  /\ fetch = [pc |-> "idle", twin |-> Nothing] /\ vehicles = <<>>
  /\ breaks = 0 /\ restarts = 0 /\ taken = <<>> /\ born = 0

ServerStep ==
  \/ StartSeed \/ (\E v \in seed.todo : SeedReads(v)) \/ Serve \/ SubscribeTelemetry
  \/ consumeTelemetry

FetchStep == (\E v \in fetch.twin.todo : FetchReads(v)) \/ FetchLoads \/ FetchFails

Next ==
  \/ \E m \in Messages : Update(m) \/ PublishTelemetry(m)
  \/ ServerStep \/ FleetTick \/ broadcast
  \/ initialFleet \/ FetchStep \/ open \/ onclose \/ applyFleet
  \/ Restart

Spec == Init /\ [][Next]_vars

(* The API's goroutines run and its ticker fires; the page's request ends, *)
(* it opens a websocket again two seconds after it closed and handles what *)
(* comes.  Nothing is asked of ingestion or of a page that never asks.     *)
FairSpec ==
  /\ Spec
  /\ WF_vars(ServerStep) /\ WF_vars(FleetTick) /\ WF_vars(broadcast)
  /\ WF_vars(fetch.pc = "reading" /\ FetchStep) /\ WF_vars(open) /\ WF_vars(applyFleet)

-----------------------------------------------------------------------------
(* Properties                                                              *)

Fleets(T) == UNION {[D -> T] : D \in SUBSET Vehicles}

Entries == [ts : 1 .. MaxTs, pos : 0 .. Len(taken)]

Readings == [todo : SUBSET Vehicles, got : Fleets(1 .. MaxTs)]

(* Values have their types, and nothing is left of a closed connection.    *)
TypeOK ==
  /\ twin \in Fleets(1 .. MaxTs) /\ fresh \subseteq Messages /\ written \subseteq Messages
  /\ stream \in Seq(Messages) /\ taken \in Seq(Messages) /\ born \in 0 .. Len(taken)
  /\ api \in {"down", "seeding", "serving"} /\ subscribed \in BOOLEAN
  /\ seed \in Readings /\ latest \in Fleets(Entries)
  /\ frame = None \/ frame \in Fleets(Entries)
  /\ \A i \in DOMAIN frames : frames[i] \in Fleets(Entries)
  /\ ws \in BOOLEAN /\ Len(frames) <= SendSize /\ (~ ws => frames = <<>>)
  /\ fetch \in [pc : {"idle", "reading", "done"}, twin : Readings]
  /\ vehicles \in Fleets(Entries)

(* The seed is read from the twin, which may be older than the stream: it  *)
(* never hides a message.  The view of a vehicle is the last message taken *)
(* for it since the API started, if there was one.                         *)
ViewIsNewest ==
  \A i \in born + 1 .. Len(taken) :
    (\A j \in i + 1 .. Len(taken) : taken[j].v # taken[i].v) =>
      taken[i].v \in DOMAIN latest /\ latest[taken[i].v] = Entry(taken[i].ts, i)

(* Once its fetch is over, a page never loses a vehicle and never steps    *)
(* back to what the API knew earlier, whatever frames are dropped and      *)
(* whenever the connection breaks or the API restarts with less than it    *)
(* had.  The answer itself, read from the twin earlier, may take it back.  *)
OnlyForward ==
  [][fetch.pc = "done" =>
       \A v \in DOMAIN vehicles :
         v \in DOMAIN vehicles' /\ vehicles'[v].pos >= vehicles[v].pos]_vars

(* The page ends up showing what the API knows: an old answer to the fetch,*)
(* a frame lost to a full channel and a broken connection are all repaired *)
(* by later frames.                                                        *)
PageConverges ==
  <>[](api = "serving" /\ \A v \in DOMAIN latest :
         v \in DOMAIN vehicles /\ vehicles[v] = latest[v])

=============================================================================

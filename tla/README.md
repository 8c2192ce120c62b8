# SwarmControl in TLA+

SwarmControl ingests the telemetry of a fleet of simulated vehicles, keeps their
latest state, raises alerts, shows all of it on a dashboard and sends commands
back. This directory models the parts of it that are concurrent, stateful or
easy to get subtly wrong, checks them with TLC on small instances, and proves
every safety and action property with TLAPS for all instances. Every definition is
translated from the code; `PROJECT.json` maps each to its lines.

## 1. The system

```
 sim/spawn.py --MQTT--> ingestion --batches--> Postgres
      ^                    |--twin, stream--> Redis --> alerts --stream, list--> Redis
      |                                         \--> api (fleet view, hub) --ws--> dashboard
      '---MQTT---- command <------HTTP proxy-------- api <--------HTTP------------'
                      '--upserts--> command_log
```

| component | state | operations | interacts by |
|---|---|---|---|
| command service (`command/main.go`, `internal/command/tracker.go`) | commands by id, a sequence number, all under one mutex; rows of `command_log` | create, mark sent, ack, undelivered sweep, persist a snapshot | HTTP goroutines, MQTT ack goroutines, a ticker; MQTT publish; Postgres upsert |
| command path (`command/main.go`, `internal/mqttutil`, broker, `sim/spawn.py`) | messages in the MQTT client, at the broker, acks under way | publish at QoS 1, deliver, execute, ack, disconnect, reconnect, restart | MQTT sessions: persistent for the service, clean for the fleet |
| ingestion service (`ingestion/main.go`, `internal/store`, `internal/twin`, `internal/bus`) | bounded queue, batch, fan-out channel, counters; telemetry table, twin hashes | receive, enqueue or drop, offer, batch, flush, update twin, publish, shut down | a goroutine per MQTT message, one writer, several workers |
| alert service (`alerts/main.go`, `internal/alertengine/engine.go`) | last-seen map with the lost flag, active conditions; recent-alerts list | process a message, sweep for lost comms, fire | consumer goroutine and sweep ticker share the engine; Redis stream and list |
| anomaly detector (`internal/alertengine/anomaly.go`) | a ring of temperatures per vehicle | observe | called by the engine |
| websocket hub (`api/hub.go`, two goroutines of `api/main.go`) | clients, a bounded channel each | register, read, write, broadcast, unregister | two broadcasters; two goroutines per connection |
| API fleet view (`api/main.go`) | latest state by vehicle | seed, consume, snapshot, broadcast | Redis subscription, HTTP, the hub |
| command proxy and operator (`api/main.go`, `App.tsx`) | what the operator was told | forward, relay, give up | HTTP to the command service, with a timeout |
| alert feed (`alerts/main.go`, `internal/bus`, `api/main.go`, `App.tsx`) | the stream and the capped list in Redis; the page's list | publish, record, push, fetch, load | two firing goroutines; subscription, websocket, one fetch |
| geofence (`geofence.go`) | a polygon and its bounding box | contains | a pure function the engine calls |
| metrics (`internal/metrics`) | a ring of samples, totals | observe, scrape | any goroutine observes, HTTP goroutines scrape |
| vehicle simulator (`sim/vehicle.py`, `sim/spawn.py`) | status, fault, heading, position, battery, age | step, publish, apply a command | a loop and an MQTT thread share a lock |
| telemetry parsing (`internal/telemetry`) | none | validate | called for each message |
| dashboard (`App.tsx`, `datasource.ts`), demo engine (`demo/engine.ts`) | vehicles, alerts, trails; a simulated fleet | initial fetches, websocket frames, send | fetch and websocket |

What is hard, and what makes each component correct:

- **command service.** MQTT callbacks run concurrently (`SetOrderMatters(false)`),
  so an ack may be handled before the HTTP goroutine marked its command sent, may
  come twice, or after the sweep flagged the command. Snapshots are persisted
  after the mutex is released and overtake each other. *Correct when* commands
  are never confused, records are consistent with their timestamps, no
  transition goes back, the log holds nothing that was not so.
- **command path.** Loss (clean session), messages sent again (QoS 1) and applied
  again, a handler that gives up while the client keeps sending, a restart with acks of the earlier
  life under way. *Correct when* "applied" is never a guess and what can be
  delivered is.
- **command proxy and operator.** The proxy gives up after 5 s while the service
  carries on, and the operator sends the command again. *Correct when* "Sent" is
  true and every execution is accounted for: a post makes at most one command, and a
  command is executed at most as often as the MQTT client sent it.
- **ingestion.** Backpressure or drop at a full queue, shedding at a full fan-out,
  failing inserts, a shutdown at any moment. *Correct when* every message is in
  exactly one place, the counters agree, Redis never holds up the database path.
- **alert service.** The sweep decides under the lock and fires after it; Redis
  may fail between publishing and recording; edges over long runs of messages.
  *Correct when* each excursion and each gap is reported once, and silence always is.
- **anomaly detector.** A ring overwritten in place. *Correct when* a value is
  judged against exactly the window before it.
- **API fleet view and dashboard.** A seed read before the subscription, frames
  copied under the lock and sent later, a fetch answered after newer frames, broken
  connections, an API that restarts. *Correct when* the seed hides no message, a page
  that has the answer to its fetch never steps back, and it ends up showing what the API knows.
- **alert feed.** An alert goes out by two ways, one after the other; a fetch answered
  after newer pushes replaces them; frames share a channel that may be full.
  *Correct when* the page lists what was recorded before its read and pushed after
  its answer, newest first.
- **vehicle simulator and parsing.** Commands between steps, a status that a low
  battery overwrites, a heading rounded for the wire, a position that is never wrapped.
  *Correct when* a recalled vehicle holds its course and readings are accepted, except
  at the edges of the circle and of the map.
- **metrics.** A ring overwritten in place, read line by line while it is
  observed into. *Correct when* each figure is true of one moment.
- **geofence.** Rays through vertices and along edges. *Correct when* each point is
  inside or outside once, by whichever edges it is counted.
- **websocket hub.** A channel closed outside the lock while broadcasts run, slow
  and dead clients. *Correct when* nothing is sent on a closed channel, all clients
  see one order, only a client that is a full channel behind loses a frame, nobody
  blocks anybody, nothing leaks.

The hazards are listed one by one, at their lines, in `PROJECT.json`.

## 2. Modules

| module | models |
|---|---|
| `CommandService` | tracker and goroutines of the command service |
| `CommandDelivery` | abstract: what the command path promises an operator |
| `CommandChannel` | EXTENDS `CommandService`: MQTT client, broker, fleet, crash and restart; implements `CommandDelivery` |
| `CommandProxy` | EXTENDS `CommandChannel`: the API's command proxy and the operator |
| `Ingestion` | message goroutines, batch writer, workers, shutdown |
| `AlertEngine` | consumer and sweeper over the rules' state, stream and list |
| `RollingWindow` | abstract: a value is judged against the last values before it |
| `AnomalyDetector` | the ring and the arithmetic; implements `RollingWindow` |
| `Geofence` | the fence's bounding box and ray casting |
| `WsHub` | connections, hub, broadcasters |
| `FleetView` | twin and stream, the API's live view, one dashboard page |
| `AlertFeed` | fire's two writes, the stream and the list in Redis, the API, the page's list |
| `Telemetry` | which messages ingestion accepts |
| `VehicleSim` | EXTENDS `Telemetry`: a simulated vehicle, its commands and its readings |
| `Histogram` | the latency histogram and a scrape of it |
| `*Proofs` | theorems about the module of that name; `CommandProxyProofs` covers `CommandChannel` too, `ComponentsProofs` what `MCComponents` runs, the feed apart |
| `MC*` | what TLC needs of a module above: symmetry, small sets of values. `MCComponents` runs five that share nothing, one in each behavior. The others are run as they are |

Operators marked "Mutant of X" are plausible bugs in X. No specification uses
them: with one in the place of X, a run must fail, which shows that its property
depends on that code.

**Correspondence.** One critical section is one action; what happens after an
unlock, a channel operation or a network call is another.

- `CommandService`: `cmds` is `Tracker.cmds`, `http[h]` the program counter of a
  `handleCreate` goroutine with its snapshot. `Create`, `MarkSent`, `Ack` and
  `SweepUndelivered` are the critical sections; `Emit*` are the persister calls
  after them; `Publish` and `PublishFails` are the two ways the token can end
  (a timeout's `false` is ignored by the code: `Publish`, then `MarkSent`). Ids
  are pairs of second and sequence number; a body is an element of `Requests`.
- `CommandChannel`: `outbox` is the client's in-memory store, `toFleet` counts the copies
  of each message in the fleet's clean session, `acks` is what the broker keeps for the
  service's persistent one. A message stays in `outbox` or `acks` when its
  acknowledgement is lost, and is sent again. `spawn.py` keeps no record of ids, so each
  copy is applied: `executions` counts that, and `sends` how often the client sent each
  message, `MaxSends` times at most. `Restart` empties all that was
  in memory and keeps `log`, the broker and the vehicles. Vehicles are reached
  only while `fleetUp`; `Known` are the requests for a vehicle `spawn.py` has.
- `CommandProxy`: what the operator sees follows from the steps of the service, so
  `OperatorSees` is conjoined to `ChannelNext` and sets the three variables of this
  module: `caller[h]` is the proxy's request that handler `h` serves, `posts` counts the
  requests, `told` the commands whose 202 was relayed. `GiveUp` is the 5 s timeout.
- `Ingestion`: a message is a vehicle and a time stamp and stands for its
  goroutine. `dropOnFull` is the configuration a process was started
  with. The gauge is read and stored in two steps, as in the code. `late` is
  an insert begun under a cancelled context, which fails; one cut off by
  the cancellation may or may not have stored its rows. `Offer` on a closed
  channel panics and ends the process.
- `AlertEngine`: a reading says which rules it breaks; the geofence and anomaly
  verdicts are inputs here. `consumer` and `sweeper` are the two goroutines; after
  firing, each publishes on the stream, then pushes to the list and trims it.
  `sweeper.at` is the time of the tick, which may be old when the lock is taken.
  LPUSH and LTRIM are two steps, each of which may fail: a pipeline is no transaction.
- `AnomalyDetector`: integers, multiplied out, in place of `float64`. What rounding
  does to a comparison at the very threshold is not modelled.
- `Geofence`: the crossing of an edge is compared by the sign of a product in place of
  a division. Latitude and longitude are plane coordinates, as in the code.
  `fence` grows by one vertex at a time only to enumerate the fences.
- `WsHub`: a broadcast takes the lock, offers its frame to the clients one by one
  in any order (a Go map's), and unlocks. `delivered` is what was written to the
  connection, `missed` what the client was refused; frames are numbered in the order of the
  lock. A write may fail at any time, which covers deadlines, pings and clients that stop reading.
- `FleetView`: `latest` is the API's map, `vehicles` the page's state. Entries carry
  a time stamp and a ghost, `pos`, which counts the messages the API had taken when
  the entry was made. Reading the twin is one step per hash, as the
  pipeline of `Snapshot` is not atomic. `frames` stands for the client's channel in the hub and
  the socket; the hub's inner workings are `WsHub`'s. A break of the API's own
  Redis connection shows as messages that are not appended to `stream`. A page is one
  load: what it does after a reload is a new page.

- `AlertFeed`: alerts are numbered in the order they are fired. `firing[f]` is an alert
  between `PublishAlert` and the pipeline of LPUSH and LTRIM, `bus` the API's
  subscription, `pushes` the page's channel at the hub, which fleet frames (0) share.
  `recorded`, `read` and `arrived` are ghosts: what the list would be if it were never
  cut, how much of it the answer saw, and what was pushed since. One goroutine
  broadcasts alerts, so `consumeAlerts` is one step; the hub's lock is `WsHub`'s.
- `VehicleSim`: the loop steps and publishes under the lock that the command handler
  takes, so `step` and each command are one action. Headings are whole numbers, `Fine`
  to a unit of the wire. `lat` and `lon` are a cell of the map that the service accepts
  or one beside it; a step stays in its cell or goes on in the direction of the heading,
  how far is left open, and nothing wraps. `course` is a ghost: the heading of a recall
  that nothing has ended yet. The bearing to a target may be any.
- `Telemetry`: `Validate` on whole numbers; a full turn has `Turn` units, and the map goes
  `MaxLat` and `MaxLon` cells either way.
- `Histogram`: `ScrapeLine` is one critical section of `Handler`; `report` holds the lines
  of a scrape, each with the number of observations it is about.

## 3. Runs

Eight runs pass, each within three minutes on two workers.

| run | question | instance | states |
|---|---|---|---|
| `CommandProxy_safety` | is everything on the way from a click to a vehicle and back true, in any interleaving? does the path implement `CommandDelivery`? | 2 handlers, 1 ack goroutine, 2 commands, one request for an unknown vehicle, each sent up to twice, disconnection, a proxy that gives up | 1311 k |
| `CommandChannel_restart` | a restart with acks under way; delivery and resolution | 1 command per life, sent up to twice, 1 restart, failing inserts | 273 k |
| `Ingestion` | conservation through backpressure and shutdown; does anything get stuck? | 2 messages of a vehicle, 2 workers, queue of 1, either policy for a full queue, failing inserts and Redis, stop | 170 k |
| `AlertEngine_safety` | right alerts, all out | 1 vehicle, 3 messages of 3 kinds, list of 2 | 1018 k |
| `AlertEngine_lostcomms` | gaps: once each, and always | 2 vehicles, failing Redis, 1 restart | 329 k |
| `Components` | five questions: is the ring the window? does counting crossings tell inside from outside? does a recalled vehicle hold its course, and which of its readings are valid? are a scrape's figures true? does the page list the right alerts? | window 3, 7 values of 4; all fences of up to 5 vertices on a 3 by 3 grid; 12 headings, on the map or off it on any side; ring of 3, 5 observations; 4 alerts, lists of 3 and 2, channel of 1, 1 break or restart | 820 k |
| `WsHub` | no panic, one order, nobody refused who keeps up, no block, no leak | 2 clients, channel of 1, 2 frames | 77 k |
| `FleetView` | does a page end up right, never stepping back once it has the answer to its fetch? | 2 vehicles, any 2 of 4 messages, channel of 1, 1 break, 1 restart | 408 k |

**Bounds, and why they suffice.** Each names itself in its module (`MaxSeq`,
`LastIssue`, `MaxTs`, `MaxBreaks`, `MaxMessages`, `LastMessage`, `MaxRestarts`, `MaxSeen`,
`MaxFrames`, `MaxSends`, `MaxFired`, `MaxCuts`, `MaxObserved`, `MaxAge`, `MaxVertices`) and is a
guard of the action it caps.

- Two handlers, an ack goroutine and the sweep give the pairwise races: two creates in a
  second, ack against `MarkSent` against sweep, a duplicate ack. The clock runs to
  `LastIssue + AckTimeout + 1`, so every command that is marked sent can outlive its
  timeout. What the bounds cut off in `CommandService` - two goroutines with the same
  ack, failing inserts together with all the rest, the state "acked", which the
  fleet never reports - is covered by the proofs of the same properties.
- A message that is sent twice has two copies under way, executed one after the other,
  one lost with the connection, or one in each life of the service.
- `QueueSize` 1 fills the queue with one message while another waits or is dropped; a
  batch of 2 is flushed full and by timeout.
- Three messages let a condition rise, hold or fall, and rise again; a list of 2
  is trimmed, also after both goroutines have pushed. Two gaps with sweeps at any moment between.
- A 3 by 3 grid has points inside, outside, on edges and level with vertices; five
  vertices make convex, dented, crossing and degenerate fences, since any may be given.
- Seven values wrap a ring of three twice, with a spike (9 among -1, 0, 1).
- With a channel of 1, one frame fills it and a second is refused, or is written
  by the other broadcaster.
- Four alerts are more than the page's list, of 2, and Redis's, of 3, hold; they come from two
  goroutines before, during and after one fetch.
- Five observations overwrite a ring of three, and a scrape of four lines has
  room for them between any two. The heading is in thirds of a unit, so it is
  rounded up, down and not at all. One cell of map tells on from off it, on each side.
- Two messages are the newer and the older of one vehicle or one of each of two, in
  every order at the twin and on the stream; one restart meets each of them.

`CHECK_DEADLOCK FALSE` is set everywhere because bounded systems run out of
input, and ingestion may exit; `NothingIsStuck`, `HubNeverBlocks` and `NoLeak`
ask the question that the deadlock check would have.
`SYMMETRY` is used where no liveness is checked only, over sets of model values.

**Fairness.** Weak fairness of what a goroutine does when it can run is the Go
scheduler's; of sweeps, that tickers fire; of `Tick`, that time passes; of
`BrokerReceives` and `AckArrives`, that the MQTT client retransmits at QoS 1
until answered; of `FleetConnects`, paho's reconnect loop. Strong fairness of
`Lock` and `Unregister` in `WsHub` is that of `sync.Mutex`, whose starvation mode
hands the lock to whoever waited over 1 ms. *Not* assumed: that operators send
commands, that vehicles report or answer by themselves, that Redis answers (the
ingestion workers get no fairness), that inserts succeed, that a websocket client
reads frames (in `WsHub`; a page of `FleetView` that is open does), that an API page
is ever fetched. `HandedOverIsApplied` excepts a broken fleet connection and a restart, which lose
what was under way (section 5).

## 4. Proofs

Every invariant and action property of a passing run is also a theorem, for all
values of the constants: any number of goroutines, vehicles, clients or messages, any
capacity, timeout and bound. Liveness stays with TLC (below). A proof module holds
the invariant of its component, the lemmas and the theorems; `PROJECT.json` says of
each theorem what it establishes. In all of them the preservation proof has a step
for each action; only the last steps are temporal.

| module | theorems (of a run's property where the name says nothing: in parentheses) |
|---|---|
| `CommandServiceProofs` | `TypeCorrect` (`TypeOK`), `CommandsAreDistinct` (`IdsUnique`), `RecordsTellTheTruth` (`RecordConsistent`), `LogLagsTracker` (`LogNeverAhead`), `LifecycleIsMonotone` (`NeverBackwards`) |
| `CommandProxyProofs` | `PathContainsService`: the service on the command path behaves as `CommandService`; `PathKeepsPromise` (`DeliveryPromise`): the path implements `CommandDelivery`; `AppliedIsTrue` (`AppliedWasExecuted`), `SentIsNoGuess` (`SentIsTrue`), `ExecutedOnRequest` (`ExecutedWasAsked`) |
| `IngestionProofs` | `IngestionIsTyped` (`TypeOK`), `NothingIsLostUncounted` (`Conservation`), `FansOutOnce` (`FanoutOnce`) |
| `AlertEngineProofs` | `EngineIsTyped` (`TypeOK`), `GapsAreReportedOnce` (`OneAlertPerGap`), `FlagIsHonest` (`LostFlagIsHonest`), `AlertsReachTheStream` (`AlertsGoOut`), `AlertsAreCalledFor` (`AlertsAreDue`) |
| `WsHubProofs` | `HubTypes` (`TypeOK`), `HubDoesNotPanic` (`NeverSendsOnClosed`), `ClientsSeeOneOrder` (`OneOrder`), `OnlyTheSlowMiss` (`MissedWhenFull`) |
| `FleetViewProofs` | `ViewIsTyped` (`TypeOK`), `SeedHidesNothing` (`ViewIsNewest`), `PageStepsForward` (`OnlyForward`) |
| `AlertFeedProofs` | `FeedIsTyped`, `PageShowsHistory` (`FeedIsHistory`), `RepeatsAreOfTheFetch` (`RepeatsOnlyAtTheFetch`) |
| `ComponentsProofs` | `VehicleIsTyped`, `RecallIsObeyed` (`RecallHolds`), `OnlyTheEdgesAreRejected` (`RejectedAtTheEdges`); `TrianglesAreExact` (`TrianglesByTheirSides`), `FencesAreSumsOfTriangles` (`CutsLoseNothing`); `DetectorIsTyped`, `DetectorRolls` (`RollsOverHistory`): the detector implements `RollingWindow`; `HistogramIsTyped`, `ReportsAreTrue` (`ScrapeIsTrue`); `ComponentsAreSeparate`, `ComponentsAreTyped` (`ComponentsTypeOK`) |

**Assumptions.** Each is an `ASSUME` of the module that declares the constants, and TLC
evaluates it in a run. They say that capacities, times and bounds are naturals
(`TimeAssumption`, `SizeAssumption`, `EngineAssumption`, `ViewAssumption`,
`HistogramAssumption`, `DetectorAssumption`, `GridAssumption`), positive where the code
divides by them or makes a channel of them (`HubAssumption`, `SimAssumption`,
`TurnAssumption`, `MapAssumption`); that the value standing for nothing is nothing else
(`NoneAssumption`, `NobodyAssumption`); that `spawn.py`'s vehicles are among those asked for
(`ChannelAssumption`); and that the page keeps no more alerts than the API reads, and the
API no more than Redis has (`FeedAssumption`: 200, 200, 500). One theorem has a
hypothesis of its own: `AppliedIsTrue` assumes `~ FastRestart`, because a crash and a
restart in the same second give an id out twice (section 5).

**Arguments.** What each invariant is, and what it needs beyond the properties it is for:

- *Command service* (`TrackerInv`). `MarkSent` looks its command up by the id in the
  handler's copy, so the snapshots goroutines hold must all have been in the tracker
  (`Held`); a new command is filed under an unused key only because of `IdsUnique`; and that
  `Sent`, `Acked` and `Undelivered` make a *later* stage rests on `RecordConsistent`. Rows of
  the log are no part of it: a row is a snapshot a goroutine held (`LogSteps`).
- *Command path* (`PathInv`, `LifeInv`). A message under way or executed is `Genuine`, of a
  command in the table, or `Stale`, of an earlier life, whose ids are of an earlier second.
  Across restarts either may be; within one life everything is genuine, which gives the
  implementation of `CommandDelivery`. For the operator, `SentInv` follows the id
  from the handler to the 202, and `AskedInv` counts: as many commands with a
  body as posts of it. `CopiesOK` counts the rest: the copies of a message under way and
  its executions are together at most what the client sent.
- *Ingestion* (`IngestInv`). `QueueInv` gives each message its place on the way to the table
  and counts the goroutines that are between the queue and the counter; `FanInv` does the
  same for the fan-out. Queue, batch and channel hold nothing twice, so their lengths are
  the cardinalities of what is in them.
- *Alert service* (`EngineInv`, `OutInv`, `DueInv`). `GapInv` places a lost-comms alert: with its
  vehicle's flag, on the sweeper's list, fired, or still to come, and then of a gap younger
  than all before. `OutInv` counts an alert, fired is published plus held, and the list: what was pushed,
  cut to its cap but for one alert for each goroutine between its push and its trim
  (`Listed`). `DueInv` replays
  the history: the active conditions, and the alerts fired, are those the messages so
  far call for, up to the rule the consumer is at.
- *Websocket hub* (`HubInv`). `Wiring` says which of the client map, the closed channels and
  the goroutines of a connection go together; `Order`, that what a client was offered is an
  interval of the frames, from the one after it joined. What waits in a client's channel is
  in order and disjoint from what was written and what was missed (`WaitingIsUnwritten`),
  so a full channel is `SendSize` unwritten frames.
- *Fleet view* (`ViewInv`). `Unserved`: nothing is taken from the stream in a life before the
  seed is merged. `InOrder`: what is closer to the page is never newer than what comes after.
- *Alert feed* (`FeedInv`). `History`: each list is the top of an endless one. `Once`: alerts
  are on their way in the order they were fired, and the endless lists name each once.
- *Vehicle* (`SimInv`). A recall holds because the battery never recovers; a reading is
  always one of a state in range, but for its position.
- *Geofence*. Properties of all fences, so nothing but the fence's type is inductive.
  A fence spans a height an even number of times (`SpansAreEven`), so a point outside the
  bounding box is never odd (`OddInBox`), and whether a point is inside is the parity of
  the edges it crosses; the parities of the parts of a cut add up.
- *Detector*. Unrolled from its position, the ring is the window, and overwriting the oldest
  slot is a slide (`RingSlides`). With n values of sum S and squares Q, the code's
  `Spread` is n(nQ - S²) and the textbook's sum over all pairs is 2(nQ - S²)
  (`SpreadIs`, `PairsAre`), so both come to the same verdict, in whatever order the ring
  holds the values.
- *Histogram* (`HistInv`). The ring holds the last observations (`KeptNow`), a line, once
  written, is about a prefix of what was observed and later ones leave it alone
  (`LaterHolds`), and what is in place r + 1 of an order has rank r (`PlaceIsRank`).
- *All components in one run*. They share no variable, so each step is a step of one
  and a stutter of the others, and what is proved of each holds in the run.

The library's induction theorems, which take an operator, cannot be used, so induction
over data is done with sets: a set of naturals that is not empty has a least element
(`Least`, from the well-foundedness of `<`), and the least size for which a statement
fails is impossible. That gives sums over finite sets (`TotalsExist`, `SumIsTotal`),
from which all facts about `SumFunction` follow.

*Only model-checked:* liveness - `HandedOverIsApplied`, `SentIsResolved`, `NothingIsStuck`,
`SilentIsReported`, `HubNeverBlocks`, `NoLeak`, `PageConverges` - which, as `ENABLED`, is
outside TLAPS's reach. The four violations are of course refuted, not proved.

## 5. Where the code and what is said of it part

Four runs, expected to fail, show a disagreement each; `findings` quotes both sides.

- `CommandService_logsettles`: `command_log` may keep an older snapshot for
  ever, although no write failed (`tracker.go:171`).
- `Ingestion_twin`: the twin may end up older than the vehicle's newest message
  (`twin.go:56`).
- `VehicleSim_heading`: a vehicle heading just short of north publishes a heading of
  360.0, which validation rejects (`vehicle.py:128`, `telemetry.go:67`).
  On the map, `RejectedAtTheEdges` shows, nothing else of it is; off the map see below.
- `AlertFeed_once`: a page lists an alert twice, under one React key, if it was fetched
  and then pushed (`App.tsx:57`). `RepeatsOnlyAtTheFetch` shows that this is the only way.

More, seen while modelling, present as behaviours of the models, without a run of
their own:

- An ack handled before `MarkSent` leaves `sentAt` nil for ever (`tracker.go:85`), while
  README.md:292 measures the round trip from it.
- A command whose publish failed stays pending and is never swept
  (`tracker.go:123` asks for `sentAt`), while `tracker.go:1-3` has every command
  applied or flagged.
- A vehicle that drives past the date line or a pole has every reading rejected from then
  on, and so falls silent for the service: `step` integrates its position without wrapping
  it (`vehicle.py:99-100`), `telemetry` publishes it as it is, and `Validate` drops a
  longitude beyond 180 and a latitude beyond 90 (`telemetry.go:61-66`).
- A command that QoS 1 delivers twice is applied twice (`spawn.py:82`): nothing looks
  whether its id was seen before.
- A second ack of an applied command moves `appliedAt` to its own time (`tracker.go:103`);
  the state and the times of the first send and ack stay.
- The answer to the page's initial fetch may take a vehicle back to what the twin held
  earlier, until its next frame (`App.tsx:45`); `OnlyForward` is about the time after it.
- Commands to a disconnected fleet are lost (`spawn.py:66`, clean session), while
  `deploy/mosquitto.conf:4-5` says they are delivered on reconnect.
- A restart within one second may give an id out twice (`tracker.go:182`), and a
  late ack then applies a command nobody executed. `FastRestart` allows it; the
  runs set it to FALSE, so `AppliedWasExecuted` is a claim about restarts that take
  a second or more.
- On shutdown `Run` loses the rows left in its queue, and its last insert runs under
  the cancelled context (`store.go:106`), while store.go:82 says that it flushes any
  remaining rows.
- A vehicle first reported between the API's seed and its subscription is
  missing from the view until its next message (`api/main.go:72`).
- An alert pushed while the page's initial fetch is under way and recorded after the
  API read the list is gone from the page when the answer comes (`App.tsx:49`).
- A command the proxy gave up on may be executed all the same: the operator who
  reads "Command failed" and repeats it has it executed twice (`api/main.go:278`).
- The quantiles, sum and count of one scrape may be of different moments, so that a
  p50 may exceed the p95 below it (`metrics.go:162`).
- A recalled vehicle whose battery runs low wanders off its course to base
  (`vehicle.py:114`).
- `ingest_queue_depth` may stay wrong at rest (`store.go:65`).
- A message goroutine that reaches the fan-out after its close panics
  (`ingestion/main.go:94`).
- After a restart of the alert service, a vehicle already silent is never reported
  (`engine.go:103`).
- After a perfectly flat window no spike is anomalous (`anomaly.go:46`).
- A client whose channel is full is refused alerts too, for good (`hub.go:103`), while
  `hub.go:20-21` says that alerts are pushed as they arrive. `MissedWhenFull` says only
  that this happens to nobody who keeps up.
- The list of recent alerts may be longer than its cap for a while, by one alert for each
  goroutine between its push and its trim, and for longer when the trim fails
  (`alerts/main.go:57-60`).

## 6. Not modelled

`PROJECT.json` lists each part with its reason. Left out for good:

- the history query: one read of the database and its SQL;
- HTTP, JSON and SQL formats, configuration, the schema, rendering, trails;
- rounding of floating point, but where a reading is published (`VehicleSim`);
- the demo engine: one thread without failures, and nothing relies on it;
- counters and gauges of the metrics registry, but for those of `Ingestion`;
- a payload that makes the fleet's command handler raise (`vehicle.py:145`), which ends
  paho's network thread (a target or heading is a number in the models):
  to the command path this is a fleet that is gone for good;
- a page on which the operator's posts never reach the command service: nothing changes.

Not checked for want of a promise: that telemetry which QoS 1 delivers twice is
stored once (the table has no key), and that rows of `command_log` from an earlier
life of the command service are ever brought up to date (it is not read back).

## 7. Plan

All components worth it are modelled and every safety and action property is proved.
What could still be added:

1. that sent commands of one life end up resolved *if* the sweep runs and time passes, as
   a safety fact: after the sweep at a time no command is older than the timeout and
   still "sent";
2. that `TwinIsLatest` fails by at most what is in the workers' hands: the newest
   message of a vehicle is in the twin, or is being overtaken;
3. the same for `LogSettles`: a row that lags is followed by a failed or an overtaken write.

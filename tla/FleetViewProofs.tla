--------------------------- MODULE FleetViewProofs ---------------------------
(***************************************************************************)
(* Proofs about the fleet as an operator sees it, for any fleet, any       *)
(* number of messages and of frames on their way, and any number of        *)
(* restarts and broken connections.                                        *)
(*                                                                         *)
(* ViewInv is inductive.  Two parts of it carry the weight: Unserved, by   *)
(* which nothing was taken from the stream in this life before the seed is *)
(* merged, and InOrder, by which what is closer to the page is never newer *)
(* than what comes after it.                                               *)
(***************************************************************************)
EXTENDS FleetView, SequenceTheorems, TLAPS

Views == Fleets(Entries)

(* What is still to be read of the twin is there: the twin never forgets.  *)
Typed ==
  /\ TypeOK
  /\ frames \in Seq(Views)
  /\ seed.todo \subseteq DOMAIN twin /\ fetch.twin.todo \subseteq DOMAIN twin

(* The API subscribes when it is done with its seed. *)
Unserved ==
  /\ api # "serving" => born = Len(taken)
  /\ subscribed => api = "serving"
  /\ ~ subscribed => stream = <<>>

(* n is no older than m where both know a vehicle. *)
Before(m, n) == \A v \in DOMAIN m \cap DOMAIN n : m[v].pos <= n[v].pos

InOrder ==
  /\ \A i, j \in DOMAIN frames : i < j => Before(frames[i], frames[j])
  /\ frame # None => Before(frame, latest) /\ Before(vehicles, frame)
  /\ frame # None => \A i \in DOMAIN frames : Before(frames[i], frame)
  /\ \A i \in DOMAIN frames : Before(frames[i], latest) /\ Before(vehicles, frames[i])
  /\ Before(vehicles, latest)

ViewInv == Typed /\ Unserved /\ ViewIsNewest /\ InOrder

-----------------------------------------------------------------------------
(* Maps of the vehicles that are known. *)

LEMMA FleetIsMap ==
  ASSUME NEW T, NEW m
  PROVE  m \in Fleets(T) <=> DOMAIN m \subseteq Vehicles /\ m \in [DOMAIN m -> T]
BY DEF Fleets

LEMMA FleetsGrow ==
  ASSUME NEW S, NEW T, S \subseteq T
  PROVE  Fleets(S) \subseteq Fleets(T)
<1> SUFFICES ASSUME NEW m \in Fleets(S) PROVE m \in Fleets(T)
  OBVIOUS
<1>1. DOMAIN m \subseteq Vehicles /\ m \in [DOMAIN m -> S] BY FleetIsMap
<1>2. m \in [DOMAIN m -> T] BY <1>1
<1> QED BY <1>1, <1>2, FleetIsMap

LEMMA NoFleet == \A T : <<>> \in Fleets(T)
<1> SUFFICES ASSUME NEW T PROVE <<>> \in Fleets(T)
  OBVIOUS
<1>1. DOMAIN <<>> = {} /\ <<>> \in [DOMAIN <<>> -> T] OBVIOUS
<1> QED BY <1>1, FleetIsMap

LEMMA PutMap ==
  ASSUME NEW m, NEW k, NEW e
  PROVE  /\ DOMAIN Put(m, k, e) = DOMAIN m \cup {k}
         /\ \A i \in DOMAIN m \cup {k} : Put(m, k, e)[i] = IF i = k THEN e ELSE m[i]
BY DEF Put

LEMMA PutIn ==
  ASSUME NEW T, NEW m \in Fleets(T), NEW k \in Vehicles, NEW e \in T
  PROVE  Put(m, k, e) \in Fleets(T)
<1>1. DOMAIN m \subseteq Vehicles /\ m \in [DOMAIN m -> T] BY FleetIsMap
<1>2. DOMAIN Put(m, k, e) = DOMAIN m \cup {k} BY DEF Put
<1>3. Put(m, k, e) \in [DOMAIN m \cup {k} -> T] BY <1>1 DEF Put
<1> QED BY <1>1, <1>2, <1>3, FleetIsMap

LEMMA MergeFacts ==
  ASSUME NEW T, NEW m \in Fleets(T), NEW n \in Fleets(T)
  PROVE  /\ Merge(m, n) \in Fleets(T)
         /\ DOMAIN Merge(m, n) = DOMAIN m \cup DOMAIN n
         /\ \A i \in DOMAIN m \cup DOMAIN n :
              Merge(m, n)[i] = IF i \in DOMAIN n THEN n[i] ELSE m[i]
<1>1. /\ DOMAIN m \subseteq Vehicles /\ m \in [DOMAIN m -> T]
      /\ DOMAIN n \subseteq Vehicles /\ n \in [DOMAIN n -> T]
  BY FleetIsMap
<1>2. /\ DOMAIN Merge(m, n) = DOMAIN m \cup DOMAIN n
      /\ \A i \in DOMAIN m \cup DOMAIN n :
           Merge(m, n)[i] = IF i \in DOMAIN n THEN n[i] ELSE m[i]
  BY DEF Merge
<1>3. Merge(m, n) \in [DOMAIN m \cup DOMAIN n -> T] BY <1>1 DEF Merge
<1> QED BY <1>1, <1>2, <1>3, FleetIsMap

LEMMA DatedFacts ==
  ASSUME NEW got \in Fleets(1 .. MaxTs), NEW n \in Nat, NEW pos \in 0 .. n
  PROVE  /\ Dated(got, pos) \in Fleets([ts : 1 .. MaxTs, pos : 0 .. n])
         /\ DOMAIN Dated(got, pos) = DOMAIN got
         /\ \A v \in DOMAIN got : Dated(got, pos)[v].pos = pos
<1>1. DOMAIN got \subseteq Vehicles /\ got \in [DOMAIN got -> 1 .. MaxTs] BY FleetIsMap
<1>2. /\ DOMAIN Dated(got, pos) = DOMAIN got
      /\ \A v \in DOMAIN got : Dated(got, pos)[v] = [ts |-> got[v], pos |-> pos]
  BY DEF Dated, Entry
<1>3. Dated(got, pos) \in [DOMAIN got -> [ts : 1 .. MaxTs, pos : 0 .. n]]
  BY <1>1 DEF Dated, Entry
<1>4. PICK T : T = [ts : 1 .. MaxTs, pos : 0 .. n] OBVIOUS
<1>5. PICK d : d = Dated(got, pos) OBVIOUS
<1>6. d \in Fleets(T)
  <2>1. DOMAIN d \subseteq Vehicles /\ d \in [DOMAIN d -> T]
    BY <1>1, <1>2, <1>3, <1>4, <1>5
  <2> QED BY <2>1, FleetIsMap
<1>7. \A v \in DOMAIN got : Dated(got, pos)[v].pos = pos BY <1>2
<1> QED BY <1>2, <1>4, <1>5, <1>6, <1>7

LEMMA ReadFacts ==
  ASSUME NEW r \in Readings, NEW v \in r.todo, twin \in Fleets(1 .. MaxTs),
         r.todo \subseteq DOMAIN twin
  PROVE  ReadHash(r, v) \in Readings /\ ReadHash(r, v).todo \subseteq r.todo
<1>1. twin[v] \in 1 .. MaxTs /\ v \in Vehicles BY FleetIsMap DEF Readings
<1>2. r.got \in Fleets(1 .. MaxTs) /\ r.todo \in SUBSET Vehicles BY DEF Readings
<1>3. Put(r.got, v, twin[v]) \in Fleets(1 .. MaxTs) BY <1>1, <1>2, PutIn
<1>4. ReadHash(r, v) = [todo |-> r.todo \ {v}, got |-> Put(r.got, v, twin[v])]
  <2>1. PICK t, g : r = [todo |-> t, got |-> g] BY DEF Readings
  <2>2. PICK p : p = Put(g, v, twin[v]) OBVIOUS
  <2>3. ReadHash(r, v) = [r EXCEPT !.todo = t \ {v}, !.got = p]
    BY <2>1, <2>2 DEF ReadHash
  <2> QED BY <2>1, <2>2, <2>3
<1> QED BY <1>2, <1>3, <1>4 DEF Readings

LEMMA ReadingFacts ==
  ASSUME twin \in Fleets(1 .. MaxTs)
  PROVE  Reading \in Readings /\ Reading.todo \subseteq DOMAIN twin
BY FleetIsMap, NoFleet DEF Reading, Readings

LEMMA NothingFacts == Nothing \in Readings /\ Nothing.todo = {}
BY NoFleet DEF Nothing, Readings

-----------------------------------------------------------------------------
(* The types. *)

LEMMA TypedFacts ==
  ASSUME Typed
  PROVE  /\ Len(taken) \in Nat /\ Len(taken) \in 0 .. Len(taken)
         /\ twin \in Fleets(1 .. MaxTs) /\ seed \in Readings /\ fetch.twin \in Readings
         /\ latest \in Views /\ vehicles \in Views
         /\ frame # None => frame \in Views
         /\ frames \in Seq(Views) /\ Len(frames) \in Nat
BY LenProperties DEF Typed, TypeOK, Views

(* All of the types but those of ingestion. *)
LEMMA IngestionTypes ==
  ASSUME Typed, NEW m \in Messages, Update(m) \/ PublishTelemetry(m)
  PROVE  Typed'
<1> USE DEF server, page, ghosts
<1>1. m.v \in Vehicles /\ m.ts \in 1 .. MaxTs BY DEF Messages
<1>2. UNCHANGED <<server, frame, ws, frames, page, ghosts>> BY DEF Update, PublishTelemetry
<1>3. UNCHANGED <<Entries, Views>> BY <1>2 DEF Entries, Views
<1>4. /\ twin' \in Fleets(1 .. MaxTs) /\ DOMAIN twin \subseteq DOMAIN twin'
      /\ fresh' \subseteq Messages /\ written' \subseteq Messages /\ stream' \in Seq(Messages)
  <2>1. CASE Update(m)
    <3>1. twin' = Put(twin, m.v, m.ts) BY <2>1 DEF Update
    <3>2. PICK T : T = 1 .. MaxTs OBVIOUS
    <3>3. twin \in Fleets(T) /\ m.ts \in T BY <1>1, <3>2, TypedFacts
    <3>4. PICK t, k, e : t = twin /\ k = m.v /\ e = m.ts OBVIOUS
    <3>5. Put(t, k, e) \in Fleets(T) /\ DOMAIN Put(t, k, e) = DOMAIN t \cup {k}
      <4>1. t \in Fleets(T) /\ k \in Vehicles /\ e \in T BY <1>1, <3>3, <3>4
      <4> QED BY <4>1, PutIn, PutMap
    <3>6. twin' \in Fleets(T) /\ DOMAIN twin \subseteq DOMAIN twin'
      BY <3>1, <3>4, <3>5
    <3> QED BY <2>1, <3>2, <3>6 DEF Update, Typed, TypeOK
  <2>2. CASE PublishTelemetry(m)
    <3>1. Append(stream, m) \in Seq(Messages) BY AppendProperties DEF Typed, TypeOK
    <3>2. UNCHANGED <<twin, fresh>> /\ written' = written \ {m} /\ stream' \in Seq(Messages)
      BY <2>2, <3>1 DEF PublishTelemetry, Typed, TypeOK
    <3> QED BY <3>2, TypedFacts DEF Typed, TypeOK
  <2> QED BY <2>1, <2>2
<1> QED BY <1>2, <1>3, <1>4 DEF Typed, TypeOK, Views

LEMMA SeedTypes ==
  ASSUME Typed, StartSeed \/ (\E v \in seed.todo : SeedReads(v)) \/ Serve \/ SubscribeTelemetry
  PROVE  Typed'
<1> USE DEF ingestion, page, ghosts
<1>1. UNCHANGED <<ingestion, stream, frame, ws, frames, page, ghosts>>
  BY DEF StartSeed, SeedReads, Serve, SubscribeTelemetry
<1>2. UNCHANGED <<Entries, Views>> BY <1>1 DEF Entries, Views
<1>3. seed' \in Readings /\ seed'.todo \subseteq DOMAIN twin
  <2>1. CASE StartSeed BY <2>1, ReadingFacts, TypedFacts DEF StartSeed
  <2>2. ASSUME NEW v \in seed.todo, SeedReads(v)
        PROVE  seed' \in Readings /\ seed'.todo \subseteq DOMAIN twin
    <3>1. seed \in Readings /\ twin \in Fleets(1 .. MaxTs) /\ seed.todo \subseteq DOMAIN twin
      BY TypedFacts DEF Typed
    <3>2. ReadHash(seed, v) \in Readings /\ ReadHash(seed, v).todo \subseteq seed.todo
      BY <3>1, ReadFacts
    <3> QED BY <2>2, <3>1, <3>2 DEF SeedReads
  <2>3. CASE Serve BY <2>3, NothingFacts DEF Serve
  <2>4. CASE SubscribeTelemetry BY <2>4, TypedFacts DEF SubscribeTelemetry, Typed
  <2> QED BY <2>1, <2>2, <2>3, <2>4
<1>4. latest' \in Views
  <2>1. CASE latest' = latest BY <2>1, TypedFacts
  <2>2. CASE latest' = Merge(latest, Dated(seed.got, Len(taken)))
    <3>1. PICK d : d = Dated(seed.got, Len(taken)) OBVIOUS
    <3>2. seed.got \in Fleets(1 .. MaxTs) BY TypedFacts DEF Readings
    <3>3. d \in Views BY <3>1, <3>2, TypedFacts, DatedFacts DEF Views, Entries
    <3>4. Merge(latest, d) \in Views BY <3>3, TypedFacts, MergeFacts DEF Views
    <3> QED BY <2>2, <3>1, <3>4
  <2> QED BY <2>1, <2>2 DEF StartSeed, SeedReads, Serve, SubscribeTelemetry
<1>5. api' \in {"down", "seeding", "serving"} /\ subscribed' \in BOOLEAN
  BY DEF StartSeed, SeedReads, Serve, SubscribeTelemetry, Typed, TypeOK
<1> QED BY <1>1, <1>2, <1>3, <1>4, <1>5 DEF Typed, TypeOK, Views

LEMMA ConsumeTypes ==
  ASSUME Typed, consumeTelemetry
  PROVE  /\ Typed'
         /\ taken' = Append(taken, Head(stream)) /\ Len(taken') = Len(taken) + 1
         /\ Head(stream) \in Messages
         /\ DOMAIN latest' = DOMAIN latest \cup {Head(stream).v}
         /\ \A v \in DOMAIN latest' :
              latest'[v] = IF v = Head(stream).v THEN Entry(Head(stream).ts, Len(taken) + 1)
                           ELSE latest[v]
<1> USE DEF ingestion, page
<1>1. PICK h : h = Head(stream) OBVIOUS
<1>2. h \in Messages /\ stream' \in Seq(Messages) /\ h.v \in Vehicles /\ h.ts \in 1 .. MaxTs
  <2>1. stream # <<>> /\ stream \in Seq(Messages) /\ stream' = Tail(stream)
    BY DEF consumeTelemetry, Typed, TypeOK
  <2>2. h \in Messages /\ stream' \in Seq(Messages) BY <1>1, <2>1, HeadTailProperties
  <2> QED BY <2>2 DEF Messages
<1>3. /\ taken' = Append(taken, h) /\ taken' \in Seq(Messages) /\ Len(taken') = Len(taken) + 1
      /\ Len(taken) \in Nat
  BY <1>1, <1>2, AppendProperties, TypedFacts DEF consumeTelemetry, Typed, TypeOK
<1>4. PICK T : T = Entries' OBVIOUS
<1>5. Views \subseteq Fleets(T) /\ Entry(h.ts, Len(taken) + 1) \in T
  <2>1. Entries \subseteq T BY <1>3, <1>4 DEF Entries
  <2>2. Entry(h.ts, Len(taken) + 1) \in T BY <1>2, <1>3, <1>4 DEF Entries, Entry
  <2> QED BY <2>1, <2>2, FleetsGrow DEF Views
<1>6. latest' = Put(latest, h.v, Entry(h.ts, Len(taken) + 1)) BY <1>1 DEF consumeTelemetry
<1>7. PICK e : e = Entry(h.ts, Len(taken) + 1) OBVIOUS
<1>8. /\ latest' \in Fleets(T) /\ DOMAIN latest' = DOMAIN latest \cup {h.v}
      /\ \A v \in DOMAIN latest' : latest'[v] = IF v = h.v THEN e ELSE latest[v]
  <2>1. latest \in Fleets(T) /\ e \in T BY <1>5, <1>7, TypedFacts
  <2>2. latest' = Put(latest, h.v, e) BY <1>6, <1>7
  <2>3. PICK m, k : m = latest /\ k = h.v OBVIOUS
  <2>4. /\ Put(m, k, e) \in Fleets(T) /\ DOMAIN Put(m, k, e) = DOMAIN m \cup {k}
        /\ \A v \in DOMAIN m \cup {k} : Put(m, k, e)[v] = IF v = k THEN e ELSE m[v]
    <3>1. m \in Fleets(T) /\ k \in Vehicles BY <1>2, <2>1, <2>3
    <3>2. Put(m, k, e) \in Fleets(T) BY <2>1, <3>1, PutIn
    <3>3. DOMAIN Put(m, k, e) = DOMAIN m \cup {k} BY PutMap
    <3>4. \A v \in DOMAIN m \cup {k} : Put(m, k, e)[v] = IF v = k THEN e ELSE m[v]
      BY DEF Put
    <3> QED BY <3>2, <3>3, <3>4
  <2> QED BY <2>2, <2>3, <2>4
<1>9. Typed'
  <2>1. UNCHANGED <<ingestion, api, seed, subscribed, frame, ws, frames, page, born>>
    BY DEF consumeTelemetry
  <2>2. Views' = Fleets(T) BY <1>4 DEF Views
  <2>3. frames' \in Seq(Views')
    BY <1>5, <2>1, <2>2, TypedFacts, SeqMonotonic
  <2>4. vehicles' \in Views' /\ (frame' # None => frame' \in Views')
    BY <1>5, <2>1, <2>2, TypedFacts
  <2>5. \A i \in DOMAIN frames' : frames'[i] \in Views'
    BY <2>3, LenProperties, ElementOfSeq
  <2>6. born' \in 0 .. Len(taken') BY <1>3, <2>1 DEF Typed, TypeOK
  <2> QED
    BY <1>2, <1>3, <1>8, <2>1, <2>2, <2>3, <2>4, <2>5, <2>6 DEF Typed, TypeOK, Views
<1> QED BY <1>1, <1>2, <1>3, <1>7, <1>8, <1>9

(* What a step of the frames leaves: no frame is lost or changed on its    *)
(* way but at the two ends.                                                *)
LEMMA FrameTypes ==
  ASSUME Typed, FleetTick \/ broadcast \/ open \/ onclose \/ applyFleet
  PROVE  Typed'
<1> USE DEF ingestion, server, page, ghosts
<1>1. UNCHANGED <<ingestion, stream, server, fetch, restarts, taken, born>>
  BY DEF FleetTick, broadcast, open, onclose, applyFleet
<1>2. UNCHANGED <<Entries, Views>> BY <1>1 DEF Entries, Views
<1>3. frame' = None \/ frame' \in Views
  BY TypedFacts DEF FleetTick, broadcast, open, onclose, applyFleet
<1>4. ws' \in BOOLEAN BY DEF FleetTick, broadcast, open, onclose, applyFleet, Typed, TypeOK
<1>5. /\ frames' \in Seq(Views) /\ Len(frames') <= SendSize /\ (~ ws' => frames' = <<>>)
      /\ vehicles' \in Views
  <2>1. CASE UNCHANGED <<ws, frames, vehicles>>
    BY <2>1 DEF Typed, TypeOK, Views
  <2>2. CASE open BY <2>2 DEF open, Typed, TypeOK, Views
  <2>3. CASE onclose
    BY <2>3, EmptySeq, ViewAssumption DEF onclose, Typed, TypeOK, Views
  <2>4. CASE applyFleet
    <3>1. PICK h : h = Head(frames) OBVIOUS
    <3>2. /\ h \in Views /\ frames' \in Seq(Views) /\ Len(frames') = Len(frames) - 1
      BY <2>4, <3>1, TypedFacts, HeadTailProperties DEF applyFleet
    <3>3. Merge(vehicles, h) \in Views BY <3>2, TypedFacts, MergeFacts DEF Views
    <3>4. frames # <<>> /\ ws' = ws /\ vehicles' = Merge(vehicles, h)
      BY <2>4, <3>1 DEF applyFleet
    <3> QED BY <3>2, <3>3, <3>4, TypedFacts, ViewAssumption DEF Typed, TypeOK
  <2>5. CASE ws /\ Len(frames) < SendSize /\ frame # None /\ frames' = Append(frames, frame)
             /\ UNCHANGED <<ws, vehicles>>
    BY <2>5, TypedFacts, AppendProperties, ViewAssumption
  <2> QED
    BY <2>1, <2>2, <2>3, <2>4, <2>5 DEF FleetTick, broadcast
<1>6. \A i \in DOMAIN frames' : frames'[i] \in Views
  BY <1>5, LenProperties, ElementOfSeq
<1> QED BY <1>1, <1>2, <1>3, <1>4, <1>5, <1>6 DEF Typed, TypeOK, Views

FetchStates == [pc : {"idle", "reading", "done"}, twin : Readings]

LEMMA FetchTypes ==
  ASSUME Typed, initialFleet \/ FetchStep
  PROVE  Typed'
<1> USE DEF ingestion, server, ghosts
<1>1. UNCHANGED <<ingestion, stream, server, frame, ws, frames, ghosts>>
  BY DEF initialFleet, FetchStep, FetchReads, FetchLoads, FetchFails
<1>2. UNCHANGED <<Entries, Views>> BY <1>1 DEF Entries, Views
<1>3. Fetched \in FetchStates /\ Fetched.twin.todo = {}
  BY NothingFacts DEF Fetched, FetchStates
<1>4. fetch \in FetchStates BY DEF Typed, TypeOK, FetchStates
<1>5. fetch' \in FetchStates /\ fetch'.twin.todo \subseteq DOMAIN twin
  <2>1. CASE initialFleet
    BY <2>1, ReadingFacts, TypedFacts DEF initialFleet, FetchStates
  <2>2. ASSUME NEW v \in fetch.twin.todo, FetchReads(v)
        PROVE  fetch' \in FetchStates /\ fetch'.twin.todo \subseteq DOMAIN twin
    <3>1. /\ fetch.twin \in Readings /\ twin \in Fleets(1 .. MaxTs)
          /\ fetch.twin.todo \subseteq DOMAIN twin
      BY TypedFacts DEF Typed
    <3>2. PICK r : r = ReadHash(fetch.twin, v) OBVIOUS
    <3>3. r \in Readings /\ r.todo \subseteq fetch.twin.todo
      BY <3>1, <3>2, ReadFacts
    <3>4. fetch' = [fetch EXCEPT !.twin = r] BY <2>2, <3>2 DEF FetchReads
    <3> QED BY <1>4, <3>1, <3>3, <3>4 DEF FetchStates
  <2>3. CASE FetchLoads \/ FetchFails
    BY <1>3, <2>3 DEF FetchLoads, FetchFails
  <2> QED BY <2>1, <2>2, <2>3 DEF FetchStep
<1>6. vehicles' \in Views
  <2>1. CASE vehicles' = vehicles BY <2>1, TypedFacts
  <2>2. CASE vehicles' = Dated(fetch.twin.got, 0)
    <3>1. fetch.twin.got \in Fleets(1 .. MaxTs) BY TypedFacts DEF Readings
    <3>2. 0 \in 0 .. Len(taken) BY TypedFacts
    <3> QED BY <2>2, <3>1, <3>2, TypedFacts, DatedFacts DEF Views, Entries
  <2> QED
    BY <2>1, <2>2 DEF initialFleet, FetchStep, FetchReads, FetchLoads, FetchFails
<1> QED BY <1>1, <1>2, <1>5, <1>6 DEF Typed, TypeOK, Views, FetchStates

LEMMA RestartTypes ==
  ASSUME Typed, Restart
  PROVE  Typed'
<1> USE DEF ingestion
<1>1. UNCHANGED <<ingestion, vehicles, taken>> BY DEF Restart
<1>2. UNCHANGED <<Entries, Views>> BY <1>1 DEF Entries, Views
<1>3. /\ stream' \in Seq(Messages) /\ frames' \in Seq(Views) /\ Len(frames') = 0
      /\ DOMAIN frames' = {} /\ frames' = <<>>
  BY EmptySeq DEF Restart
<1>4. Fetched \in FetchStates /\ Fetched.twin.todo = {}
  BY NothingFacts DEF Fetched, FetchStates
<1>5. fetch' \in FetchStates /\ fetch'.twin.todo \subseteq DOMAIN twin
  BY <1>4 DEF Restart, Typed, TypeOK, FetchStates
<1>6. seed' \in Readings /\ seed'.todo = {} BY NothingFacts DEF Restart
<1>7. latest' \in Views BY NoFleet DEF Restart, Views
<1>8. ws' \in BOOLEAN /\ subscribed' \in BOOLEAN BY DEF Restart
<1>9. /\ api' = "down" /\ frame' = None /\ born' \in 0 .. Len(taken)
      /\ Len(frames') <= SendSize
  BY <1>3, TypedFacts, ViewAssumption DEF Restart
<1> QED
  BY <1>1, <1>2, <1>3, <1>5, <1>6, <1>7, <1>8, <1>9 DEF Typed, TypeOK, Views, FetchStates

LEMMA NextTypes ==
  ASSUME Typed, [Next]_vars
  PROVE  Typed'
<1>1. CASE UNCHANGED vars
  <2>1. /\ UNCHANGED <<twin, fresh, written, stream, api, seed, latest, subscribed, frame, ws>>
        /\ UNCHANGED <<frames, fetch, vehicles, taken, born>>
    BY <1>1 DEF vars, ingestion, server, page, ghosts
  <2>2. UNCHANGED <<Entries, Views>> BY <2>1 DEF Entries, Views
  <2> QED BY <2>1, <2>2 DEF Typed, TypeOK, Views
<1> QED
  BY <1>1, IngestionTypes, SeedTypes, ConsumeTypes, FrameTypes, FetchTypes, RestartTypes
  DEF Next, ServerStep

-----------------------------------------------------------------------------
(* What the API serves.                                                    *)

LEMMA ServedInd ==
  ASSUME Typed, Unserved, ViewIsNewest, [Next]_vars
  PROVE  Unserved' /\ ViewIsNewest'
<1>1. Len(taken) \in Nat /\ born \in Nat BY TypedFacts DEF Typed, TypeOK
<1>2. CASE consumeTelemetry
  <2>1. PICK h, n : h = Head(stream) /\ n = Len(taken) + 1 OBVIOUS
  <2>2. /\ taken' = Append(taken, h) /\ Len(taken') = n /\ taken \in Seq(Messages)
        /\ h \in Messages
        /\ DOMAIN latest' = DOMAIN latest \cup {h.v}
        /\ \A v \in DOMAIN latest' :
             latest'[v] = IF v = h.v THEN Entry(h.ts, n) ELSE latest[v]
    BY <1>2, <2>1, ConsumeTypes DEF Typed, TypeOK
  <2>3. taken'[n] = h /\ \A i \in 1 .. Len(taken) : taken'[i] = taken[i]
    BY <2>1, <2>2, AppendProperties
  <2>4. UNCHANGED <<api, subscribed, born>> /\ api = "serving" /\ subscribed
    BY <1>2 DEF consumeTelemetry, Unserved
  <2>5. Unserved' BY <2>4 DEF Unserved
  <2>6. ASSUME NEW i \in born + 1 .. n, \A j \in i + 1 .. n : taken'[j].v # taken'[i].v
        PROVE  taken'[i].v \in DOMAIN latest' /\ latest'[taken'[i].v] = Entry(taken'[i].ts, i)
    <3>1. CASE i = n BY <2>2, <2>3, <3>1
    <3>2. CASE i < n
      <4>1. i \in born + 1 .. Len(taken) /\ i \in 1 .. Len(taken) /\ n \in i + 1 .. n
        BY <1>1, <2>1, <3>2
      <4>2. taken'[i] = taken[i] /\ h.v # taken[i].v BY <2>3, <2>6, <4>1
      <4>3. \A j \in i + 1 .. Len(taken) : taken[j].v # taken[i].v
        <5>1. ASSUME NEW j \in i + 1 .. Len(taken) PROVE taken[j].v # taken[i].v
          <6>1. j \in i + 1 .. n /\ j \in 1 .. Len(taken) BY <1>1, <2>1, <4>1
          <6> QED BY <2>3, <2>6, <4>2, <6>1
        <5> QED BY <5>1
      <4>4. taken[i].v \in DOMAIN latest /\ latest[taken[i].v] = Entry(taken[i].ts, i)
        BY <4>1, <4>3 DEF ViewIsNewest
      <4> QED BY <2>2, <4>2, <4>4
    <3> QED BY <1>1, <2>1, <3>1, <3>2
  <2>7. ViewIsNewest' BY <2>2, <2>4, <2>6 DEF ViewIsNewest
  <2> QED BY <2>5, <2>7
<1>3. CASE Serve
  <2>1. /\ api = "seeding" /\ api' = "serving" /\ UNCHANGED <<subscribed, stream, taken, born>>
    BY <1>3 DEF Serve, ghosts
  <2>2. born + 1 .. Len(taken) = {} BY <1>1, <2>1 DEF Unserved
  <2> QED BY <2>1, <2>2 DEF Unserved, ViewIsNewest
<1>4. CASE Restart
  <2>1. /\ api' = "down" /\ subscribed' = FALSE /\ stream' = <<>>
        /\ taken' = taken /\ born' = Len(taken)
    BY <1>4 DEF Restart
  <2>2. born' + 1 .. Len(taken') = {} BY <1>1, <2>1
  <2> QED BY <2>1, <2>2 DEF Unserved, ViewIsNewest
<1>5. ASSUME UNCHANGED <<taken, born, latest>>,
             api' # "serving" => api # "serving",
             subscribed' => subscribed \/ api' = "serving",
             subscribed => subscribed' /\ api' = api,
             ~ subscribed' => stream' = <<>>
      PROVE  Unserved' /\ ViewIsNewest'
  BY <1>5 DEF Unserved, ViewIsNewest
<1>6. ASSUME NEW m \in Messages, PublishTelemetry(m) PROVE Unserved' /\ ViewIsNewest'
  <2>1. UNCHANGED <<api, subscribed, taken, born, latest>> /\ (~ subscribed => stream' = stream)
    BY <1>6 DEF PublishTelemetry, server, ghosts
  <2> QED BY <1>5, <2>1 DEF Unserved
<1>7. CASE StartSeed \/ SubscribeTelemetry
  <2>1. UNCHANGED <<taken, born, latest, stream>>
    BY <1>7 DEF StartSeed, SubscribeTelemetry, ghosts
  <2> QED BY <1>5, <1>7, <2>1 DEF StartSeed, SubscribeTelemetry, Unserved
<1>8. ASSUME UNCHANGED <<taken, born, latest, stream, api, subscribed>>
      PROVE  Unserved' /\ ViewIsNewest'
  BY <1>8 DEF Unserved, ViewIsNewest
<1>9. ASSUME (\E m \in Messages : Update(m)) \/ (\E v \in seed.todo : SeedReads(v)) \/ FleetTick
             \/ broadcast \/ initialFleet \/ FetchStep \/ open \/ onclose \/ applyFleet
             \/ UNCHANGED vars
      PROVE  Unserved' /\ ViewIsNewest'
  BY <1>8, <1>9
  DEF Update, SeedReads, FleetTick, broadcast, initialFleet, FetchStep, FetchReads, FetchLoads,
      FetchFails, open, onclose, applyFleet, vars, server, ghosts
<1> QED BY <1>2, <1>3, <1>4, <1>6, <1>7, <1>9 DEF Next, ServerStep

-----------------------------------------------------------------------------
(* The order of what is on its way.                                        *)

LEMMA ViewFacts ==
  ASSUME Typed, NEW m \in Views
  PROVE  \A v \in DOMAIN m : m[v].pos \in Nat /\ m[v].pos <= Len(taken)
<1> SUFFICES ASSUME NEW v \in DOMAIN m
             PROVE  m[v].pos \in Nat /\ m[v].pos <= Len(taken)
  OBVIOUS
<1>1. m \in [DOMAIN m -> Entries] BY FleetIsMap DEF Views
<1>2. m[v] \in Entries BY <1>1
<1> QED BY <1>2, TypedFacts DEF Entries

LEMMA QuietOrder ==
  ASSUME InOrder, UNCHANGED <<frames, frame, latest, vehicles>>
  PROVE  InOrder'
BY DEF InOrder, Before

(* What is new in the view is newer than all that is on its way. *)
LEMMA ConsumeOrder ==
  ASSUME Typed, InOrder, consumeTelemetry
  PROVE  InOrder'
<1>1. PICK h, n : h = Head(stream) /\ n = Len(taken) + 1 OBVIOUS
<1>2. /\ DOMAIN latest' = DOMAIN latest \cup {h.v}
      /\ \A v \in DOMAIN latest' :
           latest'[v] = IF v = h.v THEN Entry(h.ts, n) ELSE latest[v]
  BY <1>1, ConsumeTypes
<1>3. UNCHANGED <<frames, frame, vehicles>> BY DEF consumeTelemetry, page
<1>4. ASSUME NEW m \in Views, Before(m, latest) PROVE Before(m, latest')
  <2>1. Entry(h.ts, n).pos = n BY DEF Entry
  <2>2. \A v \in DOMAIN m : m[v].pos \in Nat /\ m[v].pos <= n
    BY <1>1, ViewFacts, TypedFacts
  <2> QED BY <1>2, <1>4, <2>1, <2>2 DEF Before
<1>5. \A i \in DOMAIN frames : frames[i] \in Views
  BY DEF Typed, TypeOK, Views
<1>6. vehicles \in Views /\ (frame # None => frame \in Views) BY TypedFacts
<1>7. /\ Before(vehicles, latest')
      /\ frame # None => Before(frame, latest')
      /\ \A i \in DOMAIN frames : Before(frames[i], latest')
  BY <1>4, <1>5, <1>6 DEF InOrder
<1> QED BY <1>3, <1>7 DEF InOrder, Before

LEMMA ServeOrder ==
  ASSUME Typed, InOrder, Serve
  PROVE  InOrder'
<1>1. UNCHANGED <<frames, frame, vehicles>> BY DEF Serve, page
<1>2. CASE latest' = latest BY <1>1, <1>2, QuietOrder
<1>3. CASE latest' = Merge(latest, Dated(seed.got, Len(taken)))
  <2>1. PICK d : d = Dated(seed.got, Len(taken)) OBVIOUS
  <2>2. d \in Views /\ \A v \in DOMAIN d : d[v].pos = Len(taken)
    <3>1. seed.got \in Fleets(1 .. MaxTs) BY TypedFacts DEF Readings
    <3> QED BY <2>1, <3>1, TypedFacts, DatedFacts DEF Views, Entries
  <2>3. /\ DOMAIN latest' = DOMAIN latest \cup DOMAIN d
        /\ \A v \in DOMAIN latest' : latest'[v] = IF v \in DOMAIN d THEN d[v] ELSE latest[v]
    BY <1>3, <2>1 DEF Merge
  <2>4. ASSUME NEW m \in Views, Before(m, latest) PROVE Before(m, latest')
    BY <2>2, <2>3, <2>4, ViewFacts DEF Before
  <2>5. \A i \in DOMAIN frames : frames[i] \in Views
    BY DEF Typed, TypeOK, Views
  <2>6. vehicles \in Views /\ (frame # None => frame \in Views) BY TypedFacts
  <2>7. /\ Before(vehicles, latest')
        /\ frame # None => Before(frame, latest')
        /\ \A i \in DOMAIN frames : Before(frames[i], latest')
    BY <2>4, <2>5, <2>6 DEF InOrder
  <2> QED BY <1>1, <2>7 DEF InOrder, Before
<1> QED BY <1>2, <1>3 DEF Serve

LEMMA FrameOrder ==
  ASSUME Typed, InOrder, FleetTick \/ broadcast \/ open \/ onclose
  PROVE  InOrder'
<1>1. UNCHANGED <<latest, vehicles>>
  BY DEF FleetTick, broadcast, open, onclose, server, page
<1>2. CASE FleetTick
  <2>1. frame' = latest /\ UNCHANGED frames BY <1>2 DEF FleetTick
  <2>2. Before(latest, latest) BY ViewFacts, TypedFacts DEF Before
  <2> QED BY <1>1, <2>1, <2>2 DEF InOrder, Before
<1>3. CASE broadcast
  <2>1. frame # None /\ frame' = None BY <1>3 DEF broadcast
  <2>2. CASE frames' = frames BY <1>1, <2>1, <2>2 DEF InOrder, Before
  <2>3. CASE frames' = Append(frames, frame)
    <3>1. PICK n : n = Len(frames) OBVIOUS
    <3>2. /\ n \in Nat /\ DOMAIN frames = 1 .. n /\ DOMAIN frames' = 1 .. n + 1
          /\ frames'[n + 1] = frame /\ \A i \in 1 .. n : frames'[i] = frames[i]
      BY <2>1, <2>3, <3>1, TypedFacts, AppendProperties, LenProperties
    <3>3. ASSUME NEW i \in DOMAIN frames', NEW j \in DOMAIN frames', i < j
          PROVE  Before(frames'[i], frames'[j])
      <4>1. i \in 1 .. n BY <3>2, <3>3
      <4>2. CASE j = n + 1 BY <2>1, <3>2, <4>1, <4>2 DEF InOrder
      <4>3. CASE j # n + 1
        <5>1. j \in 1 .. n BY <3>2, <4>3
        <5> QED BY <3>2, <3>3, <4>1, <5>1 DEF InOrder
      <4> QED BY <4>2, <4>3
    <3>4. ASSUME NEW i \in DOMAIN frames'
          PROVE  Before(frames'[i], latest) /\ Before(vehicles, frames'[i])
      <4>1. CASE i = n + 1 BY <2>1, <3>2, <4>1 DEF InOrder
      <4>2. CASE i # n + 1
        <5>1. i \in 1 .. n BY <3>2, <4>2
        <5> QED BY <3>2, <5>1 DEF InOrder
      <4> QED BY <4>1, <4>2
    <3> QED BY <1>1, <2>1, <3>3, <3>4 DEF InOrder, Before
  <2> QED BY <1>3, <2>2, <2>3 DEF broadcast
<1>4. CASE open BY <1>1, <1>4, QuietOrder DEF open
<1>5. CASE onclose
  <2>1. DOMAIN frames' = {} /\ frame' = frame BY <1>5 DEF onclose
  <2> QED BY <1>1, <2>1 DEF InOrder, Before
<1> QED BY <1>2, <1>3, <1>4, <1>5

LEMMA ApplyOrder ==
  ASSUME Typed, InOrder, applyFleet
  PROVE  InOrder' /\ \A v \in DOMAIN vehicles :
                       v \in DOMAIN vehicles' /\ vehicles'[v].pos >= vehicles[v].pos
<1>1. PICK h, n : h = Head(frames) /\ n = Len(frames) - 1 OBVIOUS
<1>2. /\ frames # <<>> /\ UNCHANGED <<latest, frame>> /\ vehicles' = Merge(vehicles, h)
      /\ frames' = Tail(frames)
  BY <1>1 DEF applyFleet, server
<1>3. /\ n \in Nat /\ DOMAIN frames = 1 .. n + 1 /\ DOMAIN frames' = 1 .. n
      /\ h = frames[1] /\ \A i \in 1 .. n : frames'[i] = frames[i + 1]
      /\ h \in Views
  <2>1. Len(frames) \in Nat \ {0} /\ DOMAIN frames = 1 .. Len(frames)
    BY <1>2, TypedFacts, EmptySeq, LenProperties
  <2>2. /\ h \in Views /\ frames' \in Seq(Views) /\ Len(frames') = n
        /\ \A i \in 1 .. n : frames'[i] = frames[i + 1]
    BY <1>1, <1>2, TypedFacts, HeadTailProperties
  <2>3. DOMAIN frames' = 1 .. n BY <2>2, LenProperties
  <2> QED BY <1>1, <2>1, <2>2, <2>3
<1>4. /\ DOMAIN vehicles' = DOMAIN vehicles \cup DOMAIN h
      /\ \A v \in DOMAIN vehicles' : vehicles'[v] = IF v \in DOMAIN h THEN h[v] ELSE vehicles[v]
  BY <1>2 DEF Merge
<1>5. 1 \in DOMAIN frames /\ Before(vehicles, h) /\ Before(h, latest)
  BY <1>3 DEF InOrder
<1>6. ASSUME NEW m, Before(h, m), Before(vehicles, m) PROVE Before(vehicles', m)
  BY <1>4, <1>6 DEF Before
<1>7. \A i \in 1 .. n : i + 1 \in DOMAIN frames /\ 1 < i + 1 BY <1>3
<1>8. \A i, j \in 1 .. n : i < j => Before(frames'[i], frames'[j])
  <2>1. ASSUME NEW i \in 1 .. n, NEW j \in 1 .. n, i < j
        PROVE  Before(frames'[i], frames'[j])
    <3>1. i + 1 < j + 1 BY <2>1, <1>3
    <3> QED BY <1>3, <1>7, <3>1 DEF InOrder
  <2> QED BY <2>1
<1>9. \A i \in 1 .. n : /\ Before(frames'[i], latest) /\ Before(vehicles', frames'[i])
                        /\ frame # None => Before(frames'[i], frame)
  BY <1>3, <1>5, <1>6, <1>7 DEF InOrder
<1>10. /\ Before(vehicles', latest)
       /\ frame # None => Before(frame, latest) /\ Before(vehicles', frame)
  BY <1>3, <1>5, <1>6 DEF InOrder
<1>11. InOrder' BY <1>2, <1>3, <1>8, <1>9, <1>10 DEF InOrder, Before
<1>12. \A v \in DOMAIN vehicles : vehicles[v].pos \in Nat BY ViewFacts, TypedFacts
<1> QED BY <1>4, <1>5, <1>11, <1>12 DEF Before

(* What the fetch brings is dated before everything else. *)
LEMMA LoadOrder ==
  ASSUME Typed, InOrder, FetchLoads
  PROVE  InOrder'
<1>1. UNCHANGED <<frames, frame, latest>> BY DEF FetchLoads, server
<1>2. /\ DOMAIN vehicles' = DOMAIN fetch.twin.got
      /\ \A v \in DOMAIN vehicles' : vehicles'[v].pos = 0
  BY DEF FetchLoads, Dated, Entry
<1>3. ASSUME NEW m \in Views PROVE Before(vehicles', m) BY <1>2, ViewFacts DEF Before
<1>4. /\ \A i \in DOMAIN frames : frames[i] \in Views
      /\ latest \in Views /\ (frame # None => frame \in Views)
  BY TypedFacts DEF Typed, TypeOK, Views
<1> QED BY <1>1, <1>3, <1>4 DEF InOrder, Before

LEMMA OrderInd ==
  ASSUME Typed, InOrder, [Next]_vars
  PROVE  InOrder'
<1>1. ASSUME \/ \E m \in Messages : Update(m) \/ PublishTelemetry(m)
             \/ StartSeed \/ (\E v \in seed.todo : SeedReads(v)) \/ SubscribeTelemetry
             \/ initialFleet \/ (\E v \in fetch.twin.todo : FetchReads(v)) \/ FetchFails
             \/ UNCHANGED vars
      PROVE  InOrder'
  <2>1. UNCHANGED <<frames, frame, latest, vehicles>>
    BY <1>1
    DEF Update, PublishTelemetry, StartSeed, SeedReads, SubscribeTelemetry, initialFleet,
        FetchReads, FetchFails, vars, server, page
  <2> QED BY <2>1, QuietOrder
<1>2. CASE Restart
  <2>1. DOMAIN frames' = {} /\ DOMAIN latest' = {} /\ frame' = None BY <1>2 DEF Restart
  <2> QED BY <2>1 DEF InOrder, Before
<1> QED
  BY <1>1, <1>2, ConsumeOrder, ServeOrder, FrameOrder, ApplyOrder, LoadOrder
  DEF Next, ServerStep, FetchStep

-----------------------------------------------------------------------------
LEMMA ViewInit == Init => ViewInv
<1> SUFFICES ASSUME Init PROVE ViewInv
  OBVIOUS
<1>1. Typed
  <2>1. /\ frames = <<>> /\ frames \in Seq(Views) /\ Len(frames) = 0 /\ DOMAIN frames = {}
        /\ stream \in Seq(Messages) /\ taken \in Seq(Messages) /\ Len(taken) = 0
    BY EmptySeq DEF Init
  <2>2. twin \in Fleets(1 .. MaxTs) /\ latest \in Views /\ vehicles \in Views
    BY NoFleet DEF Init, Views
  <2>3. /\ seed \in Readings /\ seed.todo = {} BY NothingFacts DEF Init
  <2>4. /\ fetch \in FetchStates /\ fetch.twin.todo = {}
    BY NothingFacts DEF Init, FetchStates
  <2>5. ws \in BOOLEAN /\ subscribed \in BOOLEAN BY DEF Init
  <2>6. /\ fresh = Messages /\ written = {} /\ api = "down" /\ frame = None
        /\ born \in 0 .. Len(taken) /\ Len(frames) <= SendSize
    BY <2>1, ViewAssumption DEF Init
  <2> QED
    BY <2>1, <2>2, <2>3, <2>4, <2>5, <2>6 DEF Typed, TypeOK, Views, FetchStates
<1>2. Unserved /\ ViewIsNewest
  <2>1. Len(taken) = 0 /\ born = 0 /\ stream = <<>> /\ subscribed = FALSE
    BY EmptySeq DEF Init
  <2> QED BY <2>1 DEF Unserved, ViewIsNewest
<1>3. InOrder BY DEF Init, InOrder, Before
<1> QED BY <1>1, <1>2, <1>3 DEF ViewInv

LEMMA ViewInd ==
  ASSUME ViewInv, [Next]_vars
  PROVE  ViewInv'
BY NextTypes, ServedInd, OrderInd DEF ViewInv

LEMMA ViewInvHolds == Spec => []ViewInv
BY ViewInit, ViewInd, PTL DEF Spec

(* Every variable of the fleet view holds a value of its type, and nothing *)
(* is left of a connection that closed (onclose).                          *)
THEOREM ViewIsTyped == Spec => []TypeOK
BY ViewInvHolds, PTL DEF ViewInv, Typed

(* The seed never hides a message: the API's view of a vehicle is the last *)
(* message consumeTelemetry took for it in this life, if there was one.    *)
THEOREM SeedHidesNothing == Spec => []ViewIsNewest
BY ViewInvHolds, PTL DEF ViewInv

(* Once its fetch is over, a page never loses a vehicle and never steps    *)
(* back to what the API knew earlier (applyFleet), whatever is dropped and *)
(* whenever a connection breaks or the API restarts.  The answer to the    *)
(* fetch itself (setVehicles), which replaces what frames brought before   *)
(* it, is not covered, and may take a vehicle back.                        *)
THEOREM PageStepsForward == Spec => OnlyForward
<1> DEFINE Forward == fetch.pc = "done" =>
                        \A v \in DOMAIN vehicles :
                          v \in DOMAIN vehicles' /\ vehicles'[v].pos >= vehicles[v].pos
<1>1. ViewInv /\ [Next]_vars => [Forward]_vars
  <2> SUFFICES ASSUME ViewInv, Next, fetch.pc = "done"
               PROVE  \A v \in DOMAIN vehicles :
                        v \in DOMAIN vehicles' /\ vehicles'[v].pos >= vehicles[v].pos
    OBVIOUS
  <2>1. CASE applyFleet BY <2>1, ApplyOrder DEF ViewInv
  <2>2. CASE vehicles' = vehicles
    <3>1. \A v \in DOMAIN vehicles : vehicles[v].pos \in Nat
      BY ViewFacts, TypedFacts DEF ViewInv
    <3> QED BY <2>2, <3>1
  <2>3. CASE ~ applyFleet
    <3>1. ~ FetchLoads BY DEF FetchLoads
    <3>2. vehicles' = vehicles
      BY <2>3, <3>1
      DEF Next, Update, PublishTelemetry, ServerStep, StartSeed, SeedReads, Serve,
          SubscribeTelemetry, consumeTelemetry, FleetTick, broadcast, initialFleet, FetchStep,
          FetchReads, FetchFails, open, onclose, Restart, page
    <3> QED BY <2>2, <3>2
  <2> QED BY <2>1, <2>3
<1>2. Spec => [][Forward]_vars BY <1>1, ViewInvHolds, PTL DEF Spec
<1> QED BY <1>2 DEF OnlyForward

=============================================================================

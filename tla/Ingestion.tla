------------------------------ MODULE Ingestion ------------------------------
(***************************************************************************)
(* The ingestion service: ingestion/main.go with the batch writer of       *)
(* internal/store/store.go and the twin store of internal/twin/twin.go.    *)
(*                                                                         *)
(* The MQTT client runs one goroutine per message (OrderMatters false), so *)
(* a message names its goroutine.  It puts the message on the writer's     *)
(* bounded queue and offers it to the fan-out channel.  One writer batches *)
(* the queue into the telemetry table; several workers take messages off   *)
(* the channel to write the twin and publish the stream.  A signal cancels *)
(* the context; main then closes the channel, waits 300 ms and exits.      *)
(***************************************************************************)
EXTENDS Integers, Sequences, FiniteSets, Functions

CONSTANTS
  Vehicles,
  MaxTs,         \* bound: telemetry messages of one vehicle
  Workers,       \* cfg.TwinWorkers goroutines
  QueueSize,     \* cfg.QueueSize: capacity of the queue and of the channel
  BatchSize,     \* cfg.BatchSize
  Policies,      \* the values cfg.DropOnFull may have been given
  InsertMayFail, \* whether Postgres may refuse a batch
  RedisMayFail,  \* whether a Redis call may fail or time out
  MayStop,       \* whether the process may be told to stop
  None           \* "no message"

ASSUME SizeAssumption ==
  /\ QueueSize \in Nat \ {0} /\ BatchSize \in Nat \ {0} /\ MaxTs \in Nat
  /\ Policies \cup {InsertMayFail, RedisMayFail, MayStop} \subseteq BOOLEAN

(* Telemetry is told apart by its vehicle and its time stamp. *)
Messages == Vehicles \X (1 .. MaxTs)

ASSUME NoneAssumption == None \notin Messages

vehicle(m) == m[1]
ts(m) == m[2]

VARIABLES
  pc,       \* where each message's goroutine is
  ch,       \* Writer.ch
  batch,    \* the batch of Writer.Run
  writer,   \* "select", "gauge", "insert", "late" or "returned"
  stored,   \* the telemetry table
  lost,     \* messages of batches whose insert failed
  accepted, \* ingest_messages_total
  dropped,  \* messages counted by ingest_dropped_total
  gauge,    \* ingest_queue_depth
  depth,    \* the len(w.ch) each handler read last
  wdepth,   \* the len(w.ch) the writer read last
  fanout,   \* the fan-out channel
  closed,   \* whether it is closed
  shed,     \* messages counted by ingest_fanout_dropped_total
  worker,   \* what each worker is doing, and to which message
  twin,     \* Redis: the time stamp in the hash of each vehicle
  streamed, \* messages published on the telemetry stream
  proc,     \* "running", "cancelled", "exited" or "panicked"
  dropOnFull \* cfg.DropOnFull, read once at the start

handlerVars == <<pc, accepted, dropped, depth>>
writerVars == <<batch, writer, stored, lost, wdepth>>
fanoutVars == <<fanout, closed, shed, worker, twin, streamed>>
vars == <<handlerVars, ch, gauge, writerVars, fanoutVars, proc, dropOnFull>>

Alive == proc \in {"running", "cancelled"}
Cancelled == proc = "cancelled"

(* The gauge is set in two steps, w.mQueue.Set(int64(len(w.ch))): the      *)
(* length is read, then stored (and forgotten: depth and wdepth return to  *)
(* 0).                                                                     *)

-----------------------------------------------------------------------------
(* onMessage, one goroutine per message. *)

Goto(m, from, to) == Alive /\ pc[m] = from /\ pc' = [pc EXCEPT ![m] = to]

(* Mutant of Enqueue: off by one at the capacity.                          *)
EnqueueOneMore(m) ==
  /\ Goto(m, "received", "queued")
  /\ Len(ch) <= QueueSize /\ ch' = Append(ch, m)
  /\ UNCHANGED <<accepted, dropped, gauge, depth, writerVars, fanoutVars, proc>>

(* Enqueue.  Without DropOnFull a full queue blocks the goroutine. *)
Enqueue(m) ==
  /\ Goto(m, "received", "queued")
  /\ Len(ch) < QueueSize /\ ch' = Append(ch, m)
  /\ UNCHANGED <<accepted, dropped, gauge, depth, writerVars, fanoutVars, proc>>

Drop(m) ==
  /\ Goto(m, "received", "offer")
  /\ dropOnFull /\ Len(ch) = QueueSize
  /\ dropped' = dropped \cup {m}
  /\ UNCHANGED <<accepted, ch, gauge, depth, writerVars, fanoutVars, proc>>

CountAccepted(m) ==
  /\ Goto(m, "queued", "counted")
  /\ accepted' = accepted + 1
  /\ depth' = [depth EXCEPT ![m] = Len(ch)]
  /\ UNCHANGED <<dropped, ch, gauge, writerVars, fanoutVars, proc>>

SetDepth(m) ==
  /\ Goto(m, "counted", "offer")
  /\ gauge' = depth[m] /\ depth' = [depth EXCEPT ![m] = 0]
  /\ UNCHANGED <<accepted, dropped, ch, writerVars, fanoutVars, proc>>

(* Mutant of Offer: a select without default waits for room.               *)
OfferWaits(m) ==
  /\ Goto(m, "offer", "done")
  /\ ~ closed /\ Len(fanout) < QueueSize /\ fanout' = Append(fanout, m)
  /\ UNCHANGED <<accepted, dropped, ch, gauge, depth, writerVars,
                 shed, closed, worker, twin, streamed, proc>>

(* The select on the fan-out channel: a send on a closed channel panics,   *)
(* with a default case too, and takes the process down.                    *)
Offer(m) ==
  /\ Goto(m, "offer", "done")
  /\ \/ closed /\ proc' = "panicked" /\ UNCHANGED <<fanout, shed>>
     \/ ~ closed /\ Len(fanout) < QueueSize
        /\ fanout' = Append(fanout, m) /\ UNCHANGED <<shed, proc>>
     \/ ~ closed /\ Len(fanout) = QueueSize
        /\ shed' = shed \cup {m} /\ UNCHANGED <<fanout, proc>>
  /\ UNCHANGED <<accepted, dropped, ch, gauge, depth, writerVars,
                 closed, worker, twin, streamed>>

Receive(m) ==
  /\ Goto(m, "broker", "received")
  /\ UNCHANGED <<accepted, dropped, ch, gauge, depth, writerVars, fanoutVars, proc>>

HandlerStep(m) ==
  /\ Enqueue(m) \/ Drop(m) \/ CountAccepted(m) \/ SetDepth(m) \/ Offer(m)
  /\ UNCHANGED dropOnFull

-----------------------------------------------------------------------------
(* Writer.Run.  With several cases ready, select takes any of them.        *)

WriterGoto(from, to) == Alive /\ writer = from /\ writer' = to

TakeFromQueue ==
  /\ WriterGoto("select", "gauge")
  /\ ch # <<>> /\ ch' = Tail(ch) /\ batch' = Append(batch, Head(ch))
  /\ wdepth' = Len(ch) - 1
  /\ UNCHANGED <<handlerVars, gauge, stored, lost, fanoutVars, proc>>

(* The insert runs under the service's context, which refuses it when it   *)
(* starts late: after the cancellation.                                    *)
StartInsert == IF Cancelled THEN "late" ELSE "insert"

WriterSetsDepth ==
  /\ WriterGoto("gauge", IF Len(batch) >= BatchSize THEN StartInsert ELSE "select")
  /\ gauge' = wdepth /\ wdepth' = 0
  /\ UNCHANGED <<handlerVars, ch, batch, stored, lost, fanoutVars, proc>>

BatchTimeout ==
  /\ WriterGoto("select", StartInsert)
  /\ batch # <<>>
  /\ UNCHANGED <<handlerVars, ch, gauge, batch, stored, lost, wdepth, fanoutVars, proc>>

(* The batch is emptied whatever became of it.  A COPY cut off by the      *)
(* cancellation is an error, though its rows may have been committed.      *)
FlushStored ==
  /\ WriterGoto("insert", "select")
  /\ stored' = stored \cup Range(batch) /\ batch' = <<>>
  /\ UNCHANGED <<handlerVars, ch, gauge, lost, wdepth, fanoutVars, proc>>

(* Mutant of FlushFailed: a failed batch is counted, and kept.             *)
FlushFailedKeeps ==
  /\ \/ WriterGoto("insert", "select") /\ (InsertMayFail \/ Cancelled)
     \/ WriterGoto("late", "select")
  /\ lost' = lost \cup Range(batch)
  /\ UNCHANGED <<handlerVars, ch, gauge, batch, stored, wdepth, fanoutVars, proc>>

FlushFailed ==
  /\ \/ WriterGoto("insert", "select") /\ (InsertMayFail \/ Cancelled)
     \/ WriterGoto("late", "select")
  /\ lost' = lost \cup Range(batch) /\ batch' = <<>>
  /\ UNCHANGED <<handlerVars, ch, gauge, stored, wdepth, fanoutVars, proc>>

(* case <-ctx.Done(): the last flush is always late. *)
Return ==
  /\ Cancelled /\ WriterGoto("select", "returned")
  /\ lost' = lost \cup Range(batch) /\ batch' = <<>>
  /\ UNCHANGED <<handlerVars, ch, gauge, stored, wdepth, fanoutVars, proc>>

WriterStep ==
  /\ \/ TakeFromQueue \/ WriterSetsDepth \/ BatchTimeout
     \/ FlushStored \/ FlushFailed \/ Return
  /\ UNCHANGED dropOnFull

-----------------------------------------------------------------------------
(* The fan-out workers: twin, then stream, each best effort.               *)

WorkerGoto(w, from, to, m) ==
  /\ Alive /\ worker[w].pc = from
  /\ worker' = [worker EXCEPT ![w] = [pc |-> to, msg |-> m]]

RedisFails == RedisMayFail \/ Cancelled

(* Mutant of TakeFromFanout: two workers may take the same message.        *)
PeekFanout(w) ==
  /\ fanout # <<>> /\ WorkerGoto(w, "idle", "update", Head(fanout))
  /\ UNCHANGED <<handlerVars, ch, gauge, writerVars,
                 fanout, closed, shed, twin, streamed, proc>>

TakeFromFanout(w) ==
  /\ fanout # <<>> /\ fanout' = Tail(fanout)
  /\ WorkerGoto(w, "idle", "update", Head(fanout))
  /\ UNCHANGED <<handlerVars, ch, gauge, writerVars,
                 closed, shed, twin, streamed, proc>>

(* Update stores what it is given, newer or older than what is there.      *)
Update(w) ==
  LET m == worker[w].msg IN
  /\ WorkerGoto(w, "update", "publish", m)
  /\ \/ twin' = [twin EXCEPT ![vehicle(m)] = ts(m)]
     \/ RedisFails /\ UNCHANGED twin
  /\ UNCHANGED <<handlerVars, ch, gauge, writerVars,
                 fanout, closed, shed, streamed, proc>>

PublishTelemetry(w) ==
  /\ WorkerGoto(w, "publish", "idle", None)
  /\ \/ streamed' = streamed \cup {worker[w].msg}
     \/ RedisFails /\ UNCHANGED streamed
  /\ UNCHANGED <<handlerVars, ch, gauge, writerVars,
                 fanout, closed, shed, twin, proc>>

WorkerStep(w) == TakeFromFanout(w) \/ Update(w) \/ PublishTelemetry(w)

-----------------------------------------------------------------------------
(* main: the signal, the close of the channel, and the exit.  Sleeping for *)
(* 300 ms waits for nobody, so the exit may come at any time.              *)

Stop ==
  /\ MayStop /\ proc = "running" /\ proc' = "cancelled"
  /\ UNCHANGED <<handlerVars, ch, gauge, writerVars, fanoutVars>>

CloseFanout ==
  /\ Cancelled /\ ~ closed /\ closed' = TRUE
  /\ UNCHANGED <<handlerVars, ch, gauge, writerVars,
                 fanout, shed, worker, twin, streamed, proc>>

Exit ==
  /\ Cancelled /\ closed /\ proc' = "exited"
  /\ UNCHANGED <<handlerVars, ch, gauge, writerVars, fanoutVars>>

-----------------------------------------------------------------------------
Init ==
  /\ pc = [m \in Messages |-> "broker"]
  /\ accepted = 0 /\ dropped = {}
  /\ ch = <<>> /\ gauge = 0 /\ depth = [m \in Messages |-> 0] /\ wdepth = 0
  /\ batch = <<>> /\ writer = "select" /\ stored = {} /\ lost = {}
  /\ fanout = <<>> /\ closed = FALSE /\ shed = {} /\ streamed = {}
  /\ worker = [w \in Workers |-> [pc |-> "idle", msg |-> None]]
  /\ twin = [v \in Vehicles |-> 0]
  /\ proc = "running"
  /\ dropOnFull \in Policies

Next ==
  \/ \E m \in Messages : HandlerStep(m)
  \/ WriterStep
  \/ /\ \/ \E m \in Messages : Receive(m)
        \/ \E w \in Workers : WorkerStep(w)
        \/ Stop \/ CloseFanout \/ Exit
     /\ UNCHANGED dropOnFull

Spec == Init /\ [][Next]_vars

(* The scheduler runs the handlers and the writer, Postgres answers and    *)
(* the ticker fires.  The workers get no fairness: Redis may hang.         *)
FairSpec ==
  /\ Spec
  /\ \A m \in Messages : WF_vars(HandlerStep(m))
  /\ WF_vars(WriterStep)

-----------------------------------------------------------------------------
(* Properties                                                              *)

(* Values have their types, queues their capacities. *)
TypeOK ==
  /\ pc \in [Messages -> {"broker", "received", "queued", "counted", "offer", "done"}]
  /\ ch \in Seq(Messages) /\ Len(ch) <= QueueSize
  /\ batch \in Seq(Messages) /\ Len(batch) <= BatchSize
  /\ writer \in {"select", "gauge", "insert", "late", "returned"}
  /\ stored \subseteq Messages /\ lost \subseteq Messages /\ dropped \subseteq Messages
  /\ accepted \in Nat /\ gauge \in 0 .. QueueSize
  /\ depth \in [Messages -> 0 .. QueueSize] /\ wdepth \in 0 .. QueueSize
  /\ fanout \in Seq(Messages) /\ Len(fanout) <= QueueSize /\ closed \in BOOLEAN
  /\ shed \subseteq Messages /\ streamed \subseteq Messages
  /\ worker \in [Workers -> [pc : {"idle"}, msg : {None}]
                            \cup [pc : {"update", "publish"}, msg : Messages]]
  /\ twin \in [Vehicles -> 0 .. MaxTs]
  /\ proc \in {"running", "cancelled", "exited", "panicked"}
  /\ dropOnFull \in Policies

Disjoint(parts) == \A i, j \in DOMAIN parts : i # j => parts[i] \cap parts[j] = {}

(* Every message the queue took in is in exactly one place: the queue, the *)
(* batch, the table or a failed batch.  None is in two rows, whatever      *)
(* inserts fail and whenever the process stops.  ingest_messages_total     *)
(* counts each of them once: it lags behind by the handlers that have yet  *)
(* to count, and never runs ahead.                                         *)
Conservation ==
  /\ IsInjective(ch \o batch)
  /\ Disjoint(<<Range(ch), Range(batch), stored, lost, dropped>>)
  /\ {m \in Messages : pc[m] \in {"queued", "counted", "offer", "done"}}
       = Range(ch) \cup Range(batch) \cup stored \cup lost \cup dropped
  /\ accepted + Cardinality({m \in Messages : pc[m] = "queued"})
       = Len(ch) + Len(batch) + Cardinality(stored \cup lost)

(* The two paths are separate: a message the stream carries is one whose   *)
(* handler is done with the primary path, and it is fanned out at most     *)
(* once.                                                                   *)
FanoutOnce ==
  LET held(w) == {m \in Messages : worker[w].msg = m} IN
  /\ IsInjective(fanout)
  /\ \A w \in Workers :
       /\ held(w) \cap (Range(fanout) \cup streamed \cup shed) = {}
       /\ \A x \in Workers \ {w} : held(w) \cap held(x) = {}
  /\ Disjoint(<<Range(fanout), streamed, shed>>)
  /\ \A m \in Range(fanout) \cup streamed \cup shed : pc[m] = "done"

(* Unless the process is told to stop, every message a handler takes ends  *)
(* in the table, in a failed batch that was counted, or dropped by policy, *)
(* and its handler ends too: failing inserts do not wedge the pipeline     *)
(* and Redis never holds the primary path up.                              *)
NothingIsStuck ==
  \A m \in Messages :
    pc[m] # "broker" ~>
      \/ pc[m] = "done" /\ m \in stored \cup lost \cup dropped
      \/ proc # "running"

-----------------------------------------------------------------------------
(* What the documentation says and the code does not do.                   *)

Quiet ==
  /\ \A m \in Messages : pc[m] \in {"broker", "done"}
  /\ writer \in {"select", "insert"}
  /\ fanout = <<>> /\ \A w \in Workers : worker[w].pc = "idle"

(* twin.go: Update "writes the latest state for a vehicle".  Once all work *)
(* is done and nothing was shed or failed, the twin is the newest message. *)
TwinIsLatest ==
  Quiet /\ shed = {} =>
    \A m \in Messages : pc[m] = "done" => ts(m) <= twin[vehicle(m)]

=============================================================================

--------------------------- MODULE IngestionProofs ---------------------------
(***************************************************************************)
(* Proofs about the ingestion service, for any fleet, finite or not, any   *)
(* number of workers, any capacity and batch size, whatever fails and      *)
(* whenever the process is told to stop.                                   *)
(*                                                                         *)
(* The invariant has three parts.  QueueInv says where a message is on its *)
(* way to the table, and what was counted of it; FanInv where it is on the *)
(* way to the stream; and the types with Batching, by which a batch stays  *)
(* within its size.  The two paths meet only in pc, the handler's place.   *)
(***************************************************************************)
EXTENDS Ingestion, SequenceTheorems, FiniteSetTheorems, TLAPS

(* Before the writer waits for a message there is room for it. *)
Batching == writer = "select" => Len(batch) < BatchSize

Types == TypeOK /\ Batching

(* The handlers past the queue and those that have yet to count. *)
Past == {m \in Messages : pc[m] \in {"queued", "counted", "offer", "done"}}
Queued == {m \in Messages : pc[m] = "queued"}

(* Every message past the queue is in one place. *)
Apart ==
  /\ Range(ch) \cap Range(batch) = {}
  /\ Range(ch) \cap (stored \cup lost \cup dropped) = {}
  /\ Range(batch) \cap (stored \cup lost \cup dropped) = {}
  /\ stored \cap lost = {} /\ stored \cap dropped = {} /\ lost \cap dropped = {}

Places ==
  /\ IsInjective(ch) /\ IsInjective(batch) /\ Apart
  /\ Past = Range(ch) \cup Range(batch) \cup stored \cup lost \cup dropped

Counted ==
  accepted + Cardinality(Queued) = Len(ch) + Len(batch) + Cardinality(stored \cup lost)

Finite == IsFiniteSet(stored) /\ IsFiniteSet(lost) /\ IsFiniteSet(dropped)

QueueInv == Places /\ Counted /\ Finite

(* The message a worker holds. *)
Held(w) == {m \in Messages : worker[w].msg = m}

FanInv ==
  /\ IsInjective(fanout)
  /\ Range(fanout) \cap streamed = {} /\ Range(fanout) \cap shed = {} /\ streamed \cap shed = {}
  /\ \A w \in Workers :
       /\ Held(w) \cap (Range(fanout) \cup streamed \cup shed) = {}
       /\ \A m \in Held(w) : pc[m] = "done"
       /\ \A x \in Workers \ {w} : Held(w) \cap Held(x) = {}
  /\ \A m \in Range(fanout) \cup streamed \cup shed : pc[m] = "done"

IngestInv == Types /\ QueueInv /\ FanInv

-----------------------------------------------------------------------------
(* Sequences in which nothing occurs twice.                                *)

LEMMA AppendDistinct ==
  ASSUME NEW S, NEW s \in Seq(S), NEW e \in S
  PROVE  /\ Append(s, e) \in Seq(S) /\ Len(Append(s, e)) = Len(s) + 1
         /\ Range(Append(s, e)) = Range(s) \cup {e}
         /\ IsInjective(s) /\ e \notin Range(s) => IsInjective(Append(s, e))
<1> DEFINE t == Append(s, e)
<1>1. /\ t \in Seq(S) /\ Len(t) = Len(s) + 1
      /\ \A i \in 1 .. Len(s) : t[i] = s[i]
      /\ t[Len(s) + 1] = e
  BY AppendProperties
<1>2. /\ Len(s) \in Nat /\ DOMAIN s = 1 .. Len(s) /\ DOMAIN t = 1 .. Len(s) + 1
  BY <1>1, LenProperties
<1> HIDE DEF t
<1>3. Range(t) = Range(s) \cup {e} BY <1>1, <1>2 DEF Range
<1>4. IsInjective(s) /\ e \notin Range(s) => IsInjective(t)
  BY <1>1, <1>2 DEF IsInjective, Range
<1> QED BY <1>1, <1>3, <1>4 DEF t

LEMMA TailDistinct ==
  ASSUME NEW S, NEW s \in Seq(S), s # <<>>
  PROVE  /\ Tail(s) \in Seq(S) /\ Len(s) \in Nat \ {0} /\ Len(Tail(s)) = Len(s) - 1
         /\ Head(s) \in S
         /\ Range(s) = Range(Tail(s)) \cup {Head(s)}
         /\ IsInjective(s) => IsInjective(Tail(s)) /\ Head(s) \notin Range(Tail(s))
<1> DEFINE t == Tail(s)
<1>1. /\ Len(s) \in Nat \ {0} /\ DOMAIN s = 1 .. Len(s) BY EmptySeq, LenProperties
<1>2. /\ Head(s) \in S /\ Head(s) = s[1]
      /\ t \in Seq(S) /\ Len(t) = Len(s) - 1
      /\ \A i \in 1 .. Len(t) : t[i] = s[i + 1]
  BY <1>1, HeadTailProperties
<1>3. DOMAIN t = 1 .. Len(s) - 1 BY <1>2, LenProperties
<1> HIDE DEF t
<1>4. Range(s) = Range(t) \cup {s[1]}
  <2>1. ASSUME NEW i \in DOMAIN s PROVE s[i] \in Range(t) \cup {s[1]}
    <3>1. CASE i # 1
      <4>1. i - 1 \in DOMAIN t /\ t[i - 1] = s[i] BY <1>1, <1>2, <1>3, <3>1
      <4> QED BY <4>1 DEF Range
    <3> QED BY <3>1
  <2>2. ASSUME NEW i \in DOMAIN t PROVE t[i] \in Range(s)
    <3>1. i + 1 \in DOMAIN s /\ t[i] = s[i + 1] BY <1>1, <1>2, <1>3
    <3> QED BY <3>1 DEF Range
  <2>3. s[1] \in Range(s) BY <1>1 DEF Range
  <2> QED BY <2>1, <2>2, <2>3 DEF Range
<1>5. ASSUME IsInjective(s) PROVE IsInjective(t) /\ s[1] \notin Range(t)
  <2>1. \A i \in DOMAIN t : i + 1 \in DOMAIN s /\ t[i] = s[i + 1] /\ i + 1 # 1
    BY <1>1, <1>2, <1>3
  <2>2. 1 \in DOMAIN s BY <1>1
  <2>3. s[1] \notin Range(t) BY <1>5, <2>1, <2>2 DEF IsInjective, Range
  <2>4. ASSUME NEW i \in DOMAIN t, NEW j \in DOMAIN t, t[i] = t[j] PROVE i = j
    <3>1. i + 1 = j + 1 BY <1>5, <2>1, <2>4 DEF IsInjective
    <3> QED BY <1>1, <1>3, <3>1
  <2> QED BY <2>3, <2>4 DEF IsInjective
<1> QED BY <1>1, <1>2, <1>4, <1>5 DEF t

LEMMA ConcatDistinct ==
  ASSUME NEW S, NEW s \in Seq(S), NEW t \in Seq(S),
         IsInjective(s), IsInjective(t), Range(s) \cap Range(t) = {}
  PROVE  IsInjective(s \o t)
<1>1. /\ Len(s \o t) = Len(s) + Len(t)
      /\ \A i \in 1 .. Len(s) + Len(t) :
           (s \o t)[i] = IF i <= Len(s) THEN s[i] ELSE t[i - Len(s)]
      /\ s \o t \in Seq(S)
  BY ConcatProperties
<1>2. /\ Len(s) \in Nat /\ Len(t) \in Nat
      /\ DOMAIN s = 1 .. Len(s) /\ DOMAIN t = 1 .. Len(t)
      /\ DOMAIN (s \o t) = 1 .. Len(s) + Len(t)
  BY <1>1, LenProperties
<1> SUFFICES ASSUME NEW i \in DOMAIN (s \o t), NEW j \in DOMAIN (s \o t), (s \o t)[i] = (s \o t)[j]
             PROVE  i = j
  BY DEF IsInjective
<1>3. CASE i <= Len(s) /\ j <= Len(s)
  BY <1>1, <1>2, <1>3 DEF IsInjective
<1>4. CASE i > Len(s) /\ j > Len(s)
  <2>1. /\ i - Len(s) \in DOMAIN t /\ j - Len(s) \in DOMAIN t
        /\ t[i - Len(s)] = t[j - Len(s)]
    BY <1>1, <1>2, <1>4
  <2>2. i - Len(s) = j - Len(s) BY <2>1 DEF IsInjective
  <2> QED BY <1>2, <2>2
<1>5. ASSUME NEW k \in DOMAIN (s \o t), NEW l \in DOMAIN (s \o t), k <= Len(s), l > Len(s)
      PROVE  (s \o t)[k] # (s \o t)[l]
  <2>1. k \in DOMAIN s /\ (s \o t)[k] = s[k] BY <1>1, <1>2, <1>5
  <2>2. l - Len(s) \in DOMAIN t /\ (s \o t)[l] = t[l - Len(s)] BY <1>1, <1>2, <1>5
  <2> QED BY <2>1, <2>2 DEF Range
<1> QED BY <1>2, <1>3, <1>4, <1>5

LEMMA CardDistinct ==
  ASSUME NEW S, NEW s \in Seq(S), IsInjective(s)
  PROVE  IsFiniteSet(Range(s)) /\ Cardinality(Range(s)) = Len(s)
<1>1. Len(s) \in Nat /\ s \in [1 .. Len(s) -> S] /\ DOMAIN s = 1 .. Len(s)
  BY LenProperties
<1>2. s \in [1 .. Len(s) -> Range(s)] BY <1>1 DEF Range
<1>3. s \in Bijection(1 .. Len(s), Range(s))
  BY <1>1, <1>2 DEF Bijection, Injection, Surjection, IsInjective, Range
<1>4. ExistsBijection(1 .. Len(s), Range(s)) BY <1>3 DEF ExistsBijection
<1>5. IsFiniteSet(1 .. Len(s)) /\ Cardinality(1 .. Len(s)) = Len(s)
  BY <1>1, FS_Interval
<1> QED BY <1>4, <1>5, FS_Bijection

LEMMA RangeIn ==
  ASSUME NEW S, NEW s \in Seq(S)
  PROVE  Range(s) \subseteq S
BY LenProperties, ElementOfSeq DEF Range

LEMMA NoneIn == Range(<<>>) = {} /\ IsInjective(<<>>) /\ \A S : <<>> \in Seq(S)
BY EmptySeq DEF Range, IsInjective

-----------------------------------------------------------------------------
(* The types. *)

LEMMA GotoFacts ==
  ASSUME TypeOK, NEW m \in Messages, NEW from, NEW to, Goto(m, from, to),
         to \in {"received", "queued", "counted", "offer", "done"}
  PROVE  /\ Alive /\ pc[m] = from /\ pc'[m] = to
         /\ \A x \in Messages \ {m} : pc'[x] = pc[x]
         /\ pc' \in [Messages -> {"broker", "received", "queued", "counted", "offer", "done"}]
BY DEF Goto, TypeOK

LEMMA HandlerTypes ==
  ASSUME Types, NEW m \in Messages, HandlerStep(m)
  PROVE  Types'
<1> USE DEF Types
<1>1. CASE Enqueue(m)
  <2>1. pc' \in [Messages -> {"broker", "received", "queued", "counted", "offer", "done"}]
    BY <1>1, GotoFacts DEF Enqueue
  <2>2. ch' \in Seq(Messages) /\ Len(ch') = Len(ch) + 1 /\ Len(ch) \in Nat
    BY <1>1, AppendDistinct, LenProperties DEF Enqueue, TypeOK
  <2>3. Len(ch') <= QueueSize BY <1>1, <2>2, SizeAssumption DEF Enqueue
  <2> QED
    BY <1>1, <2>1, <2>2, <2>3
    DEF Enqueue, HandlerStep, TypeOK, Batching, writerVars, fanoutVars
<1>2. CASE Drop(m)
  <2>1. pc' \in [Messages -> {"broker", "received", "queued", "counted", "offer", "done"}]
    BY <1>2, GotoFacts DEF Drop
  <2> QED
    BY <1>2, <2>1 DEF Drop, HandlerStep, TypeOK, Batching, writerVars, fanoutVars
<1>3. CASE CountAccepted(m)
  <2>1. pc' \in [Messages -> {"broker", "received", "queued", "counted", "offer", "done"}]
    BY <1>3, GotoFacts DEF CountAccepted
  <2>2. Len(ch) \in 0 .. QueueSize BY LenProperties, SizeAssumption DEF TypeOK
  <2>3. depth' \in [Messages -> 0 .. QueueSize] BY <1>3, <2>2 DEF CountAccepted, TypeOK
  <2> QED
    BY <1>3, <2>1, <2>3 DEF CountAccepted, HandlerStep, TypeOK, Batching, writerVars, fanoutVars
<1>4. CASE SetDepth(m)
  <2>1. pc' \in [Messages -> {"broker", "received", "queued", "counted", "offer", "done"}]
    BY <1>4, GotoFacts DEF SetDepth
  <2>2. depth[m] \in 0 .. QueueSize /\ 0 \in 0 .. QueueSize BY SizeAssumption DEF TypeOK
  <2>3. depth' \in [Messages -> 0 .. QueueSize] BY <1>4, <2>2 DEF SetDepth, TypeOK
  <2> QED
    BY <1>4, <2>1, <2>2, <2>3 DEF SetDepth, HandlerStep, TypeOK, Batching, writerVars, fanoutVars
<1>5. CASE Offer(m)
  <2>1. pc' \in [Messages -> {"broker", "received", "queued", "counted", "offer", "done"}]
    BY <1>5, GotoFacts DEF Offer
  <2>2. fanout' \in Seq(Messages) /\ Len(fanout') <= QueueSize
    <3>1. CASE fanout' = fanout BY <3>1 DEF TypeOK
    <3>2. CASE Len(fanout) < QueueSize /\ fanout' = Append(fanout, m)
      BY <3>2, AppendDistinct, LenProperties, SizeAssumption DEF TypeOK
    <3> QED BY <1>5, <3>1, <3>2 DEF Offer
  <2>3. shed' \subseteq Messages BY <1>5 DEF Offer, TypeOK
  <2>4. proc' \in {"running", "cancelled", "exited", "panicked"} BY <1>5 DEF Offer, TypeOK
  <2> QED
    BY <1>5, <2>1, <2>2, <2>3, <2>4 DEF Offer, HandlerStep, TypeOK, Batching, writerVars
<1> QED BY <1>1, <1>2, <1>3, <1>4, <1>5 DEF HandlerStep

LEMMA WriterTypes ==
  ASSUME Types, WriterStep
  PROVE  Types'
<1> USE DEF Types
<1>1. Len(ch) \in Nat /\ Len(batch) \in Nat BY LenProperties DEF TypeOK
<1>2. CASE TakeFromQueue
  <2>1. /\ ch' \in Seq(Messages) /\ Len(ch) \in Nat \ {0} /\ Len(ch') = Len(ch) - 1
        /\ Head(ch) \in Messages
    BY <1>2, TailDistinct DEF TakeFromQueue, TypeOK
  <2>2. batch' \in Seq(Messages) /\ Len(batch') = Len(batch) + 1
    BY <1>2, <2>1, AppendDistinct DEF TakeFromQueue, TypeOK
  <2>3. Len(batch') <= BatchSize
    BY <1>1, <1>2, <2>2, SizeAssumption DEF TakeFromQueue, WriterGoto, Batching
  <2>4. wdepth' \in 0 .. QueueSize BY <1>2, <2>1, SizeAssumption DEF TakeFromQueue, TypeOK
  <2>5. Len(ch') <= QueueSize BY <2>1, SizeAssumption DEF TypeOK
  <2> QED
    BY <1>2, <2>1, <2>2, <2>3, <2>4, <2>5
    DEF TakeFromQueue, WriterStep, WriterGoto, TypeOK, Batching, handlerVars, fanoutVars
<1>3. CASE WriterSetsDepth
  <2>1. gauge' \in 0 .. QueueSize /\ wdepth' \in 0 .. QueueSize
    BY <1>3, SizeAssumption DEF WriterSetsDepth, TypeOK
  <2>2. /\ writer' \in {"select", "insert", "late"}
        /\ writer' = "select" => ~ Len(batch) >= BatchSize
    BY <1>3 DEF WriterSetsDepth, WriterGoto, StartInsert
  <2>3. UNCHANGED <<handlerVars, ch, batch, stored, lost, fanoutVars, proc, dropOnFull>>
    BY <1>3 DEF WriterSetsDepth, WriterStep
  <2>4. Batching' BY <1>1, <2>2, <2>3, SizeAssumption DEF Batching
  <2> QED
    BY <2>1, <2>2, <2>3, <2>4 DEF TypeOK, handlerVars, fanoutVars
<1>4. CASE BatchTimeout
  BY <1>4
  DEF BatchTimeout, WriterStep, WriterGoto, StartInsert, TypeOK, Batching, handlerVars, fanoutVars
<1>5. CASE batch' = <<>> /\ Alive /\ writer' \in {"select", "returned"}
           /\ stored' \cup lost' = stored \cup lost \cup Range(batch)
           /\ UNCHANGED <<handlerVars, ch, gauge, wdepth, fanoutVars, proc, dropOnFull>>
  <2>1. batch' \in Seq(Messages) /\ Len(batch') = 0 BY <1>5, EmptySeq
  <2>2. stored' \subseteq Messages /\ lost' \subseteq Messages
    BY <1>5, RangeIn DEF TypeOK
  <2>3. Len(batch') < BatchSize BY <2>1, SizeAssumption
  <2>4. UNCHANGED <<pc, accepted, dropped, depth, ch, gauge, wdepth>>
        /\ UNCHANGED <<fanout, closed, shed, worker, twin, streamed, proc, dropOnFull>>
    BY <1>5 DEF handlerVars, fanoutVars
  <2>5. Len(batch') <= BatchSize BY <2>1, SizeAssumption
  <2>6. TypeOK' BY <1>5, <2>1, <2>2, <2>4, <2>5 DEF TypeOK
  <2> QED BY <2>3, <2>6 DEF Batching
<1>6. CASE FlushStored BY <1>5, <1>6 DEF FlushStored, WriterStep, WriterGoto
<1>7. CASE FlushFailed BY <1>5, <1>7 DEF FlushFailed, WriterStep, WriterGoto
<1>8. CASE Return BY <1>5, <1>8 DEF Return, WriterStep, WriterGoto
<1> QED BY <1>2, <1>3, <1>4, <1>6, <1>7, <1>8 DEF WriterStep

WorkerStates == [pc : {"idle"}, msg : {None}] \cup [pc : {"update", "publish"}, msg : Messages]

LEMMA WorkerTypes ==
  ASSUME Types, NEW w \in Workers, WorkerStep(w), UNCHANGED dropOnFull
  PROVE  Types'
<1> USE DEF Types
<1>1. worker \in [Workers -> WorkerStates] BY DEF TypeOK, WorkerStates
<1>2. UNCHANGED <<handlerVars, ch, gauge, writerVars, closed, shed, proc>>
  BY DEF WorkerStep, TakeFromFanout, Update, PublishTelemetry
<1>3. /\ worker' \in [Workers -> WorkerStates]
      /\ fanout' \in Seq(Messages) /\ Len(fanout') <= QueueSize
      /\ streamed' \subseteq Messages /\ twin' \in [Vehicles -> 0 .. MaxTs]
  <2>1. CASE TakeFromFanout(w)
    <3>1. /\ fanout' \in Seq(Messages) /\ Len(fanout) \in Nat \ {0}
          /\ Len(fanout') = Len(fanout) - 1 /\ Head(fanout) \in Messages
      BY <2>1, TailDistinct DEF TakeFromFanout, TypeOK
    <3>2. [pc |-> "update", msg |-> Head(fanout)] \in WorkerStates
      BY <3>1 DEF WorkerStates
    <3> QED
      BY <1>1, <2>1, <3>1, <3>2, SizeAssumption DEF TakeFromFanout, WorkerGoto, TypeOK
  <2>2. CASE Update(w)
    <3>1. worker[w].msg \in Messages
      BY <1>1, <2>2 DEF Update, WorkerGoto, WorkerStates
    <3>2. [pc |-> "publish", msg |-> worker[w].msg] \in WorkerStates
      BY <3>1 DEF WorkerStates
    <3>3. ts(worker[w].msg) \in 0 .. MaxTs BY <3>1, SizeAssumption DEF Messages, ts
    <3>4. twin' \in [Vehicles -> 0 .. MaxTs] BY <2>2, <3>3 DEF Update, TypeOK
    <3> QED BY <1>1, <2>2, <3>2, <3>4 DEF Update, WorkerGoto, TypeOK
  <2>3. CASE PublishTelemetry(w)
    <3>1. worker[w].msg \in Messages
      BY <1>1, <2>3 DEF PublishTelemetry, WorkerGoto, WorkerStates
    <3>2. [pc |-> "idle", msg |-> None] \in WorkerStates BY DEF WorkerStates
    <3> QED BY <1>1, <2>3, <3>1, <3>2 DEF PublishTelemetry, WorkerGoto, TypeOK
  <2> QED BY <2>1, <2>2, <2>3 DEF WorkerStep
<1> QED BY <1>2, <1>3 DEF TypeOK, Batching, handlerVars, writerVars, WorkerStates

LEMMA NextTypes ==
  ASSUME Types, [Next]_vars
  PROVE  Types'
<1>1. CASE UNCHANGED vars
  BY <1>1 DEF vars, handlerVars, writerVars, fanoutVars, Types, TypeOK, Batching
<1>2. ASSUME NEW m \in Messages, Receive(m), UNCHANGED dropOnFull PROVE Types'
  <2>1. pc' \in [Messages -> {"broker", "received", "queued", "counted", "offer", "done"}]
    BY <1>2, GotoFacts DEF Receive, Types
  <2> QED
    BY <1>2, <2>1 DEF Receive, Types, TypeOK, Batching, writerVars, fanoutVars
<1>3. CASE (Stop \/ CloseFanout \/ Exit) /\ UNCHANGED dropOnFull
  BY <1>3
  DEF Stop, CloseFanout, Exit, Types, TypeOK, Batching, handlerVars, writerVars, fanoutVars
<1> QED
  BY <1>1, <1>2, <1>3, HandlerTypes, WriterTypes, WorkerTypes DEF Next

LEMMA InitTypes == Init => Types
<1> SUFFICES ASSUME Init PROVE Types
  OBVIOUS
<1>1. /\ ch \in Seq(Messages) /\ batch \in Seq(Messages) /\ fanout \in Seq(Messages)
      /\ Len(ch) = 0 /\ Len(batch) = 0 /\ Len(fanout) = 0
  BY EmptySeq DEF Init
<1>2. worker \in [Workers -> WorkerStates]
  <2>1. [pc |-> "idle", msg |-> None] \in WorkerStates BY DEF WorkerStates
  <2> QED BY <2>1 DEF Init
<1>3. /\ pc \in [Messages -> {"broker", "received", "queued", "counted", "offer", "done"}]
      /\ depth \in [Messages -> 0 .. QueueSize] /\ twin \in [Vehicles -> 0 .. MaxTs]
  BY SizeAssumption DEF Init
<1>4. /\ accepted \in Nat /\ gauge \in 0 .. QueueSize /\ wdepth \in 0 .. QueueSize
      /\ dropOnFull \in Policies /\ proc = "running"
      /\ writer = "select" /\ Len(batch) < BatchSize
      /\ 0 <= QueueSize /\ 0 <= BatchSize
  BY <1>1, SizeAssumption DEF Init
<1>5. /\ dropped = {} /\ stored = {} /\ lost = {} /\ shed = {} /\ streamed = {}
  BY DEF Init
<1>6. closed \in BOOLEAN BY DEF Init
<1> QED BY <1>1, <1>2, <1>3, <1>4, <1>5, <1>6 DEF Types, TypeOK, Batching, WorkerStates

-----------------------------------------------------------------------------
(* The way to the table. *)

LEMMA QueuedFinite ==
  ASSUME Types, QueueInv
  PROVE  IsFiniteSet(Queued) /\ Cardinality(Queued) \in Nat
<1>1. IsFiniteSet(Range(ch)) /\ IsFiniteSet(Range(batch))
  BY CardDistinct DEF Types, TypeOK, QueueInv, Places
<1>2. IsFiniteSet(Range(ch) \cup Range(batch)) BY <1>1, FS_Union
<1>3. IsFiniteSet(Range(ch) \cup Range(batch) \cup stored)
  BY <1>2, FS_Union DEF QueueInv, Finite
<1>4. IsFiniteSet(Range(ch) \cup Range(batch) \cup stored \cup lost)
  BY <1>3, FS_Union DEF QueueInv, Finite
<1>5. IsFiniteSet(Range(ch) \cup Range(batch) \cup stored \cup lost \cup dropped)
  BY <1>4, FS_Union DEF QueueInv, Finite
<1>6. Queued \subseteq Past BY DEF Queued, Past
<1> QED BY <1>5, <1>6, FS_Subset, FS_CardinalityType DEF QueueInv, Places

(* Only four things a handler does matter to the way to the table. *)
LEMMA HandlerQueue ==
  ASSUME Types, QueueInv, NEW m \in Messages, HandlerStep(m) \/ Receive(m)
  PROVE  QueueInv'
<1> USE DEF QueueInv
<1>1. IsFiniteSet(Queued) /\ Cardinality(Queued) \in Nat BY QueuedFinite
<1>2. /\ ch \in Seq(Messages) /\ Len(ch) \in Nat /\ Len(batch) \in Nat /\ accepted \in Nat
      /\ Cardinality(stored \cup lost) \in Nat
  BY LenProperties, FS_Union, FS_CardinalityType DEF Types, TypeOK, Finite
<1>3. UNCHANGED <<batch, stored, lost>>
  BY DEF HandlerStep, Enqueue, Drop, CountAccepted, SetDepth, Offer, Receive, writerVars
<1>4. CASE Enqueue(m)
  <2>1. pc[m] = "received" /\ pc'[m] = "queued" /\ \A x \in Messages \ {m} : pc'[x] = pc[x]
    BY <1>4, GotoFacts DEF Enqueue, Types
  <2>2. /\ m \notin Past /\ m \notin Queued
        /\ Past' = Past \cup {m} /\ Queued' = Queued \cup {m}
    BY <2>1 DEF Past, Queued
  <2>3. /\ Len(ch') = Len(ch) + 1 /\ Range(ch') = Range(ch) \cup {m}
        /\ m \notin Range(ch) => IsInjective(ch')
    BY <1>2, <1>4, AppendDistinct DEF Enqueue, Places
  <2>4. Places' BY <1>3, <1>4, <2>2, <2>3 DEF Places, Apart, Enqueue
  <2>5. Cardinality(Queued') = Cardinality(Queued) + 1
    BY <1>1, <2>2, FS_AddElement
  <2>6. accepted' = accepted /\ Cardinality(stored' \cup lost') = Cardinality(stored \cup lost)
    BY <1>3, <1>4 DEF Enqueue
  <2>7. Counted' BY <1>1, <1>2, <1>3, <2>3, <2>5, <2>6 DEF Counted
  <2> QED BY <1>3, <1>4, <2>4, <2>7 DEF Finite, Enqueue
<1>5. CASE Drop(m)
  <2>1. pc[m] = "received" /\ pc'[m] = "offer" /\ \A x \in Messages \ {m} : pc'[x] = pc[x]
    BY <1>5, GotoFacts DEF Drop, Types
  <2>2. m \notin Past /\ Past' = Past \cup {m} /\ Queued' = Queued
    BY <2>1 DEF Past, Queued
  <2>3. UNCHANGED <<ch, accepted>> /\ dropped' = dropped \cup {m} BY <1>5 DEF Drop
  <2>4. Places' BY <1>3, <2>2, <2>3 DEF Places, Apart
  <2>5. IsFiniteSet(dropped') BY <2>3, FS_AddElement DEF Finite
  <2> QED BY <1>3, <2>2, <2>3, <2>4, <2>5 DEF Counted, Finite
<1>6. CASE CountAccepted(m)
  <2>1. pc[m] = "queued" /\ pc'[m] = "counted" /\ \A x \in Messages \ {m} : pc'[x] = pc[x]
    BY <1>6, GotoFacts DEF CountAccepted, Types
  <2>2. m \in Queued /\ Past' = Past /\ Queued' = Queued \ {m}
    BY <2>1 DEF Past, Queued
  <2>3. UNCHANGED <<ch, dropped>> /\ accepted' = accepted + 1 BY <1>6 DEF CountAccepted
  <2>4. Places' BY <1>3, <2>2, <2>3 DEF Places, Apart
  <2>5. Cardinality(Queued') = Cardinality(Queued) - 1
    BY <1>1, <2>2, FS_RemoveElement
  <2>6. Counted' BY <1>1, <1>2, <1>3, <2>3, <2>5 DEF Counted
  <2> QED BY <1>3, <2>3, <2>4, <2>6 DEF Finite
<1>7. CASE SetDepth(m) \/ Offer(m) \/ Receive(m)
  <2>1. UNCHANGED <<ch, accepted, dropped>> BY <1>7 DEF SetDepth, Offer, Receive
  <2>2. Past' = Past /\ Queued' = Queued
    BY <1>7, GotoFacts DEF SetDepth, Offer, Receive, Past, Queued, Types
  <2> QED BY <1>3, <2>1, <2>2 DEF Places, Apart, Counted, Finite
<1> QED BY <1>4, <1>5, <1>6, <1>7 DEF HandlerStep

LEMMA WriterQueue ==
  ASSUME Types, QueueInv, WriterStep
  PROVE  QueueInv'
<1> USE DEF QueueInv
<1>1. UNCHANGED <<pc, accepted, dropped>>
  BY DEF WriterStep, TakeFromQueue, WriterSetsDepth, BatchTimeout, FlushStored, FlushFailed,
         Return, handlerVars
<1>2. Past' = Past /\ Queued' = Queued BY <1>1 DEF Past, Queued
<1>3. /\ ch \in Seq(Messages) /\ batch \in Seq(Messages)
      /\ Len(ch) \in Nat /\ Len(batch) \in Nat
      /\ IsFiniteSet(stored \cup lost) /\ Cardinality(stored \cup lost) \in Nat
  BY LenProperties, FS_Union, FS_CardinalityType DEF Types, TypeOK, Finite
<1>4. CASE TakeFromQueue
  <2>1. PICK h : h = Head(ch) OBVIOUS
  <2>2. /\ h \in Messages /\ Range(ch) = Range(ch') \cup {h} /\ Len(ch') = Len(ch) - 1
        /\ IsInjective(ch') /\ h \notin Range(ch')
    BY <1>3, <1>4, <2>1, TailDistinct DEF TakeFromQueue, Places
  <2>3. h \notin Range(batch) BY <2>2 DEF Places, Apart
  <2>4. batch' = Append(batch, h) /\ UNCHANGED <<stored, lost>>
    BY <1>4, <2>1 DEF TakeFromQueue
  <2>5. /\ Len(batch') = Len(batch) + 1 /\ Range(batch') = Range(batch) \cup {h}
        /\ IsInjective(batch')
    BY <1>3, <2>2, <2>3, <2>4, AppendDistinct DEF Places
  <2>6. Apart' BY <1>1, <2>2, <2>4, <2>5 DEF Apart, Places
  <2>7. Places' BY <1>1, <1>2, <2>2, <2>4, <2>5, <2>6 DEF Places
  <2>8. Counted' BY <1>1, <1>2, <1>3, <2>2, <2>4, <2>5 DEF Counted
  <2> QED BY <1>1, <2>4, <2>7, <2>8 DEF Finite
<1>5. CASE WriterSetsDepth \/ BatchTimeout
  <2>1. UNCHANGED <<ch, batch, stored, lost>> BY <1>5 DEF WriterSetsDepth, BatchTimeout
  <2> QED BY <1>1, <1>2, <2>1 DEF Places, Apart, Counted, Finite
<1>6. ASSUME batch' = <<>>, ch' = ch,
             \/ stored' = stored \cup Range(batch) /\ lost' = lost
             \/ stored' = stored /\ lost' = lost \cup Range(batch)
      PROVE  QueueInv'
  <2>1. Range(batch') = {} /\ IsInjective(batch') /\ Len(batch') = 0
    BY <1>6, NoneIn, EmptySeq
  <2>2. Places' BY <1>1, <1>2, <1>6, <2>1 DEF Places, Apart
  <2>3. IsFiniteSet(Range(batch)) /\ Cardinality(Range(batch)) = Len(batch)
    BY <1>3, CardDistinct DEF Places
  <2>4. Finite' BY <1>1, <1>6, <2>3, FS_Union DEF Finite
  <2>5. stored' \cup lost' = (stored \cup lost) \cup Range(batch) BY <1>6
  <2>6. (stored \cup lost) \cap Range(batch) = {} BY DEF Places, Apart
  <2>7. Cardinality(stored' \cup lost') = Cardinality(stored \cup lost) + Len(batch)
    <3>1. PICK A : A = stored \cup lost OBVIOUS
    <3>2. PICK B : B = Range(batch) OBVIOUS
    <3>3. Cardinality(A \cup B) = Cardinality(A) + Cardinality(B) - Cardinality(A \cap B)
      BY <1>3, <2>3, <3>1, <3>2, FS_Union
    <3>4. Cardinality(A \cap B) = 0 BY <2>6, <3>1, <3>2, FS_EmptySet
    <3>5. stored' \cup lost' = A \cup B BY <2>5, <3>1, <3>2
    <3>6. /\ Cardinality(A) = Cardinality(stored \cup lost) /\ Cardinality(A) \in Nat
          /\ Cardinality(B) = Len(batch) /\ Len(batch) \in Nat
      BY <1>3, <2>3, <3>1, <3>2
    <3>7. Cardinality(A \cup B) = Cardinality(A) + Len(batch) BY <3>3, <3>4, <3>6
    <3> QED BY <3>5, <3>6, <3>7
  <2>8. Counted' BY <1>1, <1>2, <1>3, <1>6, <2>1, <2>7 DEF Counted
  <2> QED BY <2>2, <2>4, <2>8
<1>7. CASE FlushStored BY <1>6, <1>7 DEF FlushStored
<1>8. CASE FlushFailed \/ Return BY <1>6, <1>8 DEF FlushFailed, Return
<1> QED BY <1>4, <1>5, <1>7, <1>8 DEF WriterStep

-----------------------------------------------------------------------------
(* The way to the stream. *)

LEMMA DoneStays ==
  ASSUME Types, FanInv, UNCHANGED <<fanout, streamed, shed, worker>>,
         \A m \in Messages : pc[m] = "done" => pc'[m] = "done"
  PROVE  FanInv'
<1>1. \A w \in Workers : Held(w)' = Held(w) /\ Held(w) \subseteq Messages BY DEF Held
<1>2. Range(fanout) \cup streamed \cup shed \subseteq Messages
  BY RangeIn DEF Types, TypeOK
<1> QED BY <1>1, <1>2 DEF FanInv

LEMMA HandlerFan ==
  ASSUME Types, FanInv, NEW m \in Messages, HandlerStep(m) \/ Receive(m)
  PROVE  FanInv'
<1>1. CASE Enqueue(m) \/ Drop(m) \/ CountAccepted(m) \/ SetDepth(m) \/ Receive(m)
  <2>1. UNCHANGED <<fanout, streamed, shed, worker>>
    BY <1>1 DEF Enqueue, Drop, CountAccepted, SetDepth, Receive, fanoutVars
  <2>2. pc[m] # "done" /\ \A x \in Messages \ {m} : pc'[x] = pc[x]
    BY <1>1, GotoFacts DEF Enqueue, Drop, CountAccepted, SetDepth, Receive, Types
  <2> QED BY <2>1, <2>2, DoneStays
<1>2. CASE Offer(m)
  <2>1. pc[m] = "offer" /\ pc'[m] = "done" /\ \A x \in Messages \ {m} : pc'[x] = pc[x]
    BY <1>2, GotoFacts DEF Offer, Types
  <2>2. m \notin Range(fanout) \cup streamed \cup shed /\ \A w \in Workers : m \notin Held(w)
    BY <2>1 DEF FanInv
  <2>3. UNCHANGED <<streamed, worker>> BY <1>2 DEF Offer
  <2>4. \A w \in Workers : Held(w)' = Held(w) /\ Held(w) \subseteq Messages BY <2>3 DEF Held
  <2>5. Range(fanout) \cup streamed \cup shed \subseteq Messages
    BY RangeIn DEF Types, TypeOK
  <2>6. CASE UNCHANGED <<fanout, shed>> BY <2>1, <2>3, <2>6, DoneStays
  <2>7. CASE fanout' = Append(fanout, m) /\ UNCHANGED shed
    <3>1. Range(fanout') = Range(fanout) \cup {m} /\ IsInjective(fanout')
      BY <2>2, <2>7, AppendDistinct DEF FanInv, Types, TypeOK
    <3> QED BY <2>1, <2>2, <2>3, <2>4, <2>5, <2>7, <3>1 DEF FanInv
  <2>8. CASE shed' = shed \cup {m} /\ UNCHANGED fanout
    BY <2>1, <2>2, <2>3, <2>4, <2>5, <2>8 DEF FanInv
  <2> QED BY <1>2, <2>6, <2>7, <2>8 DEF Offer
<1> QED BY <1>1, <1>2 DEF HandlerStep

LEMMA WorkerFan ==
  ASSUME Types, FanInv, NEW w \in Workers, WorkerStep(w)
  PROVE  FanInv'
<1>1. worker \in [Workers -> WorkerStates] BY DEF Types, TypeOK, WorkerStates
<1>2. UNCHANGED <<pc, shed>>
  BY DEF WorkerStep, TakeFromFanout, Update, PublishTelemetry, handlerVars
<1>3. \A x \in Workers \ {w} : Held(x)' = Held(x)
  BY <1>1 DEF WorkerStep, TakeFromFanout, Update, PublishTelemetry, WorkerGoto, Held
<1>4. CASE TakeFromFanout(w)
  <2>1. PICK h : h = Head(fanout) OBVIOUS
  <2>2. /\ h \in Messages /\ Range(fanout) = Range(fanout') \cup {h}
        /\ IsInjective(fanout') /\ h \notin Range(fanout')
    BY <1>4, <2>1, TailDistinct DEF TakeFromFanout, Types, TypeOK, FanInv
  <2>3. Held(w)' = {h} /\ UNCHANGED streamed
    BY <1>1, <1>4, <2>1, <2>2 DEF TakeFromFanout, WorkerGoto, Held
  <2>4. /\ h \in Range(fanout) /\ pc[h] = "done" /\ h \notin streamed /\ h \notin shed
        /\ \A x \in Workers : h \notin Held(x)
    BY <2>2 DEF FanInv
  <2> QED BY <1>2, <1>3, <2>2, <2>3, <2>4 DEF FanInv
<1>5. CASE Update(w)
  <2>1. Held(w)' = Held(w) /\ UNCHANGED <<fanout, streamed>>
    BY <1>1, <1>5 DEF Update, WorkerGoto, Held
  <2> QED BY <1>2, <1>3, <2>1 DEF FanInv
<1>6. CASE PublishTelemetry(w)
  <2>1. Held(w)' = {} /\ UNCHANGED fanout
    BY <1>1, <1>6, NoneAssumption DEF PublishTelemetry, WorkerGoto, Held
  <2>2. streamed' = streamed \/ streamed' = streamed \cup {worker[w].msg}
    BY <1>6 DEF PublishTelemetry
  <2>3. worker[w].msg \in Held(w)
    BY <1>1, <1>6 DEF PublishTelemetry, WorkerGoto, WorkerStates, Held
  <2>4. PICK h : h = worker[w].msg OBVIOUS
  <2>5. /\ h \notin Range(fanout) /\ h \notin shed /\ pc[h] = "done"
        /\ \A x \in Workers \ {w} : h \notin Held(x)
    BY <2>3, <2>4 DEF FanInv
  <2> QED BY <1>2, <1>3, <2>1, <2>2, <2>4, <2>5 DEF FanInv
<1> QED BY <1>4, <1>5, <1>6 DEF WorkerStep

-----------------------------------------------------------------------------
LEMMA IngestInd ==
  ASSUME IngestInv, [Next]_vars
  PROVE  IngestInv'
<1> USE DEF IngestInv
<1>1. Types' BY NextTypes
<1>2. ASSUME NEW m \in Messages, HandlerStep(m) \/ Receive(m) PROVE QueueInv' /\ FanInv'
  BY <1>2, HandlerQueue, HandlerFan
<1>3. ASSUME WriterStep PROVE QueueInv' /\ FanInv'
  <2>1. UNCHANGED <<pc, fanout, streamed, shed, worker>>
    BY <1>3
    DEF WriterStep, TakeFromQueue, WriterSetsDepth, BatchTimeout, FlushStored, FlushFailed,
        Return, handlerVars, fanoutVars
  <2>2. QueueInv' BY <1>3, WriterQueue
  <2>3. FanInv' BY <2>1, DoneStays
  <2> QED BY <2>2, <2>3
<1>4. ASSUME UNCHANGED <<pc, accepted, dropped, ch, batch, stored, lost>> PROVE QueueInv'
  <2>1. Past' = Past /\ Queued' = Queued BY <1>4 DEF Past, Queued
  <2> QED BY <1>4, <2>1 DEF QueueInv, Places, Apart, Counted, Finite
<1>5. ASSUME NEW w \in Workers, WorkerStep(w) PROVE QueueInv' /\ FanInv'
  <2>1. UNCHANGED <<handlerVars, ch, writerVars>>
    BY <1>5 DEF WorkerStep, TakeFromFanout, Update, PublishTelemetry
  <2> QED BY <1>4, <1>5, <2>1, WorkerFan DEF handlerVars, writerVars
<1>6. ASSUME Stop \/ CloseFanout \/ Exit \/ UNCHANGED vars PROVE QueueInv' /\ FanInv'
  <2>1. /\ UNCHANGED <<pc, accepted, dropped, ch, batch, stored, lost>>
        /\ UNCHANGED <<fanout, streamed, shed, worker>>
    BY <1>6 DEF Stop, CloseFanout, Exit, vars, handlerVars, writerVars, fanoutVars
  <2> QED BY <1>4, <2>1, DoneStays
<1>7. CASE Next BY <1>1, <1>2, <1>3, <1>5, <1>6, <1>7 DEF Next
<1> QED BY <1>1, <1>6, <1>7

LEMMA IngestInit == Init => IngestInv
<1> SUFFICES ASSUME Init PROVE IngestInv
  OBVIOUS
<1>1. /\ Range(ch) = {} /\ Range(batch) = {} /\ Range(fanout) = {}
      /\ IsInjective(ch) /\ IsInjective(batch) /\ IsInjective(fanout)
      /\ Len(ch) = 0 /\ Len(batch) = 0
  BY NoneIn, EmptySeq DEF Init
<1>2. Past = {} /\ Queued = {} BY DEF Init, Past, Queued
<1>3. QueueInv
  BY <1>1, <1>2, FS_EmptySet DEF Init, QueueInv, Places, Apart, Counted, Finite
<1>4. \A w \in Workers : Held(w) = {} BY NoneAssumption DEF Init, Held
<1>5. FanInv BY <1>1, <1>4 DEF Init, FanInv
<1> QED BY <1>3, <1>5, InitTypes DEF IngestInv

LEMMA IngestInvHolds == Spec => []IngestInv
BY IngestInit, IngestInd, PTL DEF Spec

(* Every variable of the ingestion service holds a value of its type: the  *)
(* queue and the fan-out channel stay within their capacity, a batch       *)
(* within its size (Enqueue, Run).                                         *)
THEOREM IngestionIsTyped == Spec => []TypeOK
BY IngestInvHolds, PTL DEF IngestInv, Types

(* Whatever inserts fail and whenever the process stops, a message the     *)
(* service took in is in exactly one place, in no two rows, and counted    *)
(* once by ingest_messages_total.                                          *)
THEOREM NothingIsLostUncounted == Spec => []Conservation
<1>1. IngestInv => Conservation
  <2> SUFFICES ASSUME IngestInv PROVE Conservation
    OBVIOUS
  <2>1. IsInjective(ch \o batch)
    BY ConcatDistinct DEF IngestInv, Types, TypeOK, QueueInv, Places, Apart
  <2>2. Disjoint(<<Range(ch), Range(batch), stored, lost, dropped>>)
    BY DEF IngestInv, QueueInv, Places, Apart, Disjoint
  <2> QED
    BY <2>1, <2>2
    DEF IngestInv, QueueInv, Places, Counted, Past, Queued, Conservation
<1> QED BY <1>1, IngestInvHolds, PTL

(* A message is fanned out at most once, and only when its handler is done *)
(* with the primary path (onMessage and the workers).                      *)
THEOREM FansOutOnce == Spec => []FanoutOnce
<1>1. IngestInv => FanoutOnce
  <2> SUFFICES ASSUME IngestInv PROVE FanoutOnce
    OBVIOUS
  <2>1. Disjoint(<<Range(fanout), streamed, shed>>) BY DEF IngestInv, FanInv, Disjoint
  <2> QED BY <2>1 DEF IngestInv, FanInv, Held, FanoutOnce
<1> QED BY <1>1, IngestInvHolds, PTL

=============================================================================

---------------------------- MODULE WsHubProofs ----------------------------
(***************************************************************************)
(* Proofs about the websocket hub, for any number of connections, any      *)
(* capacity of the send channels and any number of frames.                 *)
(*                                                                         *)
(* The inductive invariant is Wiring, how the hub's client map, the closed *)
(* channels and the goroutines of a connection hang together, with Order,  *)
(* which says of each client what it was offered so far.                   *)
(***************************************************************************)
EXTENDS WsHub, FiniteSetTheorems, SequenceTheorems, TLAPS

Wiring ==
  /\ clients = {c \in Clients : reader[c] \in {"reading", "failed"}}
  /\ closed = {c \in Clients : reader[c] = "done"}
  /\ todo \subseteq clients
  /\ lock = None => todo = {}
  /\ lock # None => sent # <<>>
  /\ ~ panicked

(* What a client's goroutines hold before and between frames. *)
Resting(c) ==
  /\ reader[c] = "none" =>
       writer[c] = "none" /\ delivered[c] = <<>> /\ send[c] = <<>> /\ missed[c] = {}
  /\ writer[c] \in {"none", "select"} => current[c] = 0
  /\ writer[c] = "write" => current[c] # 0

Got(c) == Range(Stream(c)) \cup missed[c]

Order(c) ==
  /\ Increasing(Stream(c)) /\ Range(Stream(c)) \cap missed[c] = {}
  /\ \E last \in joined[c] .. Frame : Got(c) = joined[c] + 1 .. last
  /\ c \in clients => joined[c] <= Reached(c) /\ Got(c) = joined[c] + 1 .. Reached(c)

HubInv == TypeOK /\ Wiring /\ \A c \in Clients : Resting(c) /\ Order(c)

-----------------------------------------------------------------------------
(* Sequences of frames. *)

LEMMA FrameAppended ==
  ASSUME NEW s \in Seq(Int), NEW n \in Int, Increasing(s), \A x \in Range(s) : x < n
  PROVE  /\ Increasing(Append(s, n))
         /\ Range(Append(s, n)) = Range(s) \cup {n}
<1>1. /\ Len(Append(s, n)) = Len(s) + 1 /\ Append(s, n) \in Seq(Int)
      /\ \A i \in 1 .. Len(s) : Append(s, n)[i] = s[i]
      /\ Append(s, n)[Len(s) + 1] = n
  BY AppendProperties
<1>2. DOMAIN s = 1 .. Len(s) /\ DOMAIN Append(s, n) = 1 .. Len(s) + 1 /\ Len(s) \in Nat
  BY <1>1, LenProperties
<1>3. \A i \in DOMAIN s : s[i] < n BY DEF Range
<1>4. Increasing(Append(s, n))
  <2> SUFFICES ASSUME NEW i \in 1 .. Len(s) + 1, NEW j \in 1 .. Len(s) + 1, i < j
               PROVE  Append(s, n)[i] < Append(s, n)[j]
    BY <1>2 DEF Increasing
  <2> QED BY <1>1, <1>2, <1>3 DEF Increasing
<1>5. Range(Append(s, n)) = Range(s) \cup {n}
  BY <1>1, <1>2 DEF Range
<1> QED BY <1>4, <1>5

(* An increasing sequence has as many elements as positions. *)
LEMMA IncreasingCount ==
  ASSUME NEW s \in Seq(Int), Increasing(s)
  PROVE  IsFiniteSet(Range(s)) /\ Cardinality(Range(s)) = Len(s)
<1>1. Len(s) \in Nat /\ s \in [1 .. Len(s) -> Int] BY LenProperties
<1>2. s \in Bijection(1 .. Len(s), Range(s))
  BY <1>1 DEF Increasing, Range, Bijection, Injection, Surjection, IsInjective
<1>3. IsFiniteSet(1 .. Len(s)) /\ Cardinality(1 .. Len(s)) = Len(s)
  BY <1>1, FS_Interval
<1>4. ExistsBijection(1 .. Len(s), Range(s)) BY <1>2 DEF ExistsBijection
<1> QED BY <1>3, <1>4, FS_Bijection

(* The order within a stream is the order within its parts. *)
LEMMA IncreasingEnd ==
  ASSUME NEW s \in Seq(Int), NEW t \in Seq(Int), Increasing(s \o t)
  PROVE  /\ Increasing(t) /\ Range(t) \subseteq Range(s \o t)
         /\ Range(s) \cap Range(t) = {}
<1>1. /\ Len(s) \in Nat /\ Len(t) \in Nat /\ DOMAIN t = 1 .. Len(t)
      /\ DOMAIN (s \o t) = 1 .. Len(s) + Len(t)
  BY LenProperties, ConcatProperties
<1>2. \A i \in 1 .. Len(t) : i + Len(s) \in DOMAIN (s \o t) /\ (s \o t)[i + Len(s)] = t[i]
  BY <1>1, ConcatProperties
<1>3. Increasing(t)
  <2> SUFFICES ASSUME NEW i \in 1 .. Len(t), NEW j \in 1 .. Len(t), i < j PROVE t[i] < t[j]
    BY <1>1 DEF Increasing
  <2>1. i + Len(s) < j + Len(s) BY <1>1
  <2> QED BY <1>2, <2>1 DEF Increasing
<1>4. Range(t) \subseteq Range(s \o t) BY <1>1, <1>2 DEF Range
<1>5. ASSUME NEW i \in 1 .. Len(s), NEW j \in 1 .. Len(t) PROVE s[i] # t[j]
  <2>1. /\ i \in DOMAIN (s \o t) /\ (s \o t)[i] = s[i]
        /\ j + Len(s) \in DOMAIN (s \o t) /\ (s \o t)[j + Len(s)] = t[j]
        /\ i < j + Len(s)
    BY <1>1, <1>2, ConcatProperties
  <2>2. s[i] < t[j] BY <2>1 DEF Increasing
  <2>3. s[i] \in Int /\ t[j] \in Int BY <1>1, ElementOfSeq
  <2> QED BY <2>2, <2>3
<1>6. Range(s) \cap Range(t) = {}
  <2>1. DOMAIN s = 1 .. Len(s) BY LenProperties
  <2> QED BY <1>1, <1>5, <2>1 DEF Range
<1> QED BY <1>3, <1>4, <1>6

LEMMA RangeOfFront ==
  ASSUME NEW S, NEW s \in Seq(S), NEW t \in Seq(S)
  PROVE  Range(s) \subseteq Range(s \o t)
<1>1. /\ Len(s) \in Nat /\ Len(t) \in Nat /\ DOMAIN s = 1 .. Len(s)
      /\ DOMAIN (s \o t) = 1 .. Len(s) + Len(t)
      /\ \A i \in 1 .. Len(s) : (s \o t)[i] = s[i]
  BY LenProperties, ConcatProperties
<1> QED BY <1>1 DEF Range

LEMMA Associative == \A S : \A a, b, d \in Seq(S) : (a \o b) \o d = a \o (b \o d)
BY ConcatAssociative

-----------------------------------------------------------------------------
(* A client's stream: the writer moves frames along it, an offer adds to   *)
(* its end.                                                                *)

Frames == 1 .. Frame

Hand(n) == IF n = 0 THEN <<>> ELSE <<n>>

LEMMA StreamType ==
  ASSUME TypeOK, NEW c \in Clients
  PROVE  /\ Frame \in Nat
         /\ delivered[c] \in Seq(Frames) /\ send[c] \in Seq(Frames)
         /\ Hand(current[c]) \in Seq(Frames)
         /\ Stream(c) = (delivered[c] \o Hand(current[c])) \o send[c]
         /\ Stream(c) \in Seq(Frames)
         /\ missed[c] \subseteq Frames
         /\ joined[c] \in 0 .. Frame
<1>1. Frame \in Nat BY LenProperties DEF TypeOK, Frame
<1>2. delivered[c] \in Seq(Frames) /\ send[c] \in Seq(Frames) BY DEF TypeOK, Frame, Frames
<1>3. current[c] \in 0 .. Frame BY DEF TypeOK, Frame
<1>4. Hand(current[c]) \in Seq(Frames)
  <2>1. CASE current[c] = 0 BY <2>1, EmptySeq DEF Hand
  <2>2. CASE current[c] # 0
    <3>1. current[c] \in Frames BY <1>1, <1>3, <2>2 DEF Frames
    <3> QED BY <2>2, <3>1 DEF Hand
  <2> QED BY <2>1, <2>2
<1>5. Stream(c) = (delivered[c] \o Hand(current[c])) \o send[c] BY DEF Stream, Hand
<1>6. Stream(c) \in Seq(Frames) BY <1>2, <1>4, <1>5, ConcatProperties
<1> QED BY <1>1, <1>2, <1>4, <1>5, <1>6 DEF TypeOK, Frame, Frames

(* The frame the writer takes out of the channel goes into its hand. *)
LEMMA TakeKeepsStream ==
  ASSUME HubInv, NEW c \in Clients, TakeFrame(c)
  PROVE  \A d \in Clients : Stream(d)' = Stream(d)
<1> USE DEF HubInv
<1>1. ASSUME NEW d \in Clients, d # c PROVE Stream(d)' = Stream(d)
  BY <1>1 DEF TakeFrame, TypeOK, Stream
<1>2. Stream(c)' = Stream(c)
  <2> DEFINE s == send[c]
  <2>1. current[c] = 0 /\ s # <<>> BY DEF TakeFrame, Resting
  <2>2. s \in Seq(Frames) /\ delivered[c] \in Seq(Frames) BY StreamType
  <2>3. /\ current'[c] = Head(s) /\ send'[c] = Tail(s) /\ delivered' = delivered
        /\ Head(s) \in Frames /\ Tail(s) \in Seq(Frames)
    BY <2>1, <2>2, HeadTailProperties DEF TakeFrame, TypeOK
  <2>4. <<Head(s)>> \o Tail(s) = s
    BY <2>1, <2>2
  <2>5. Stream(c) = delivered[c] \o s
    BY <2>1, <2>2, ConcatEmptySeq, StreamType DEF Hand
  <2>6. Head(s) # 0 BY <2>3 DEF Frames
  <2>7. Stream(c)' = (delivered[c] \o <<Head(s)>>) \o Tail(s)
    BY <2>3, <2>6 DEF Stream
  <2>8. (delivered[c] \o <<Head(s)>>) \o Tail(s) = delivered[c] \o (<<Head(s)>> \o Tail(s))
    <3>1. PICK a, b, d : a = delivered[c] /\ b = <<Head(s)>> /\ d = Tail(s) OBVIOUS
    <3>2. a \in Seq(Frames) /\ b \in Seq(Frames) /\ d \in Seq(Frames)
      BY <2>2, <2>3, <3>1
    <3>3. (a \o b) \o d = a \o (b \o d) BY <3>2, Associative
    <3> QED BY <3>1, <3>3
  <2> QED BY <2>4, <2>5, <2>7, <2>8
<1> QED BY <1>1, <1>2

LEMMA WriteKeepsStream ==
  ASSUME HubInv, NEW c \in Clients, WriteMessage(c)
  PROVE  \A d \in Clients : Stream(d)' = Stream(d)
<1> USE DEF HubInv
<1>1. ASSUME NEW d \in Clients, d # c PROVE Stream(d)' = Stream(d)
  BY <1>1 DEF WriteMessage, TypeOK, Stream
<1>2. Stream(c)' = Stream(c)
  <2>1. current[c] # 0 BY DEF WriteMessage, Resting
  <2>2. /\ delivered[c] \in Seq(Frames) /\ current[c] \in Frames
        /\ send[c] \in Seq(Frames)
    BY <2>1, StreamType DEF TypeOK, Frame, Frames
  <2>3. current'[c] = 0 /\ delivered'[c] = Append(delivered[c], current[c]) /\ send' = send
    BY DEF WriteMessage, TypeOK
  <2>4. Append(delivered[c], current[c]) = delivered[c] \o <<current[c]>>
    BY <2>2, AppendIsConcat
  <2>5. Append(delivered[c], current[c]) \in Seq(Frames) BY <2>2, AppendProperties
  <2>6. Stream(c)' = (Append(delivered[c], current[c]) \o <<>>) \o send[c]
    BY <2>3 DEF Stream
  <2>7. Stream(c) = (delivered[c] \o <<current[c]>>) \o send[c]
    BY <2>1 DEF Stream
  <2> QED BY <2>4, <2>5, <2>6, <2>7, ConcatEmptySeq
<1> QED BY <1>1, <1>2

(* An offered frame is appended to the stream, whatever the writer does.   *)
LEMMA OfferExtendsStream ==
  ASSUME TypeOK, NEW c \in Clients, sent # <<>>, UNCHANGED <<delivered, current>>,
         send'[c] = Append(send[c], Frame)
  PROVE  Stream(c)' = Append(Stream(c), Frame)
<1> DEFINE t == delivered[c] \o Hand(current[c])
<1>1. Frame \in Frames BY LenProperties, EmptySeq DEF TypeOK, Frame, Frames
<1>2. t \in Seq(Frames) /\ send[c] \in Seq(Frames)
  BY StreamType, ConcatProperties
<1>3. Stream(c)' = t \o Append(send[c], Frame) BY DEF Stream, Hand
<1>4. Stream(c) = t \o send[c] BY StreamType
<1>5. /\ Append(send[c], Frame) = send[c] \o <<Frame>>
      /\ Append(Stream(c), Frame) = Stream(c) \o <<Frame>>
  BY <1>1, <1>2, StreamType, AppendIsConcat, Zenon
<1>6. (t \o send[c]) \o <<Frame>> = t \o (send[c] \o <<Frame>>)
  <2>1. PICK a, b, d : a = t /\ b = send[c] /\ d = <<Frame>> OBVIOUS
  <2>2. a \in Seq(Frames) /\ b \in Seq(Frames) /\ d \in Seq(Frames)
    BY <1>1, <1>2, <2>1
  <2>3. (a \o b) \o d = a \o (b \o d) BY <2>2, Associative
  <2> QED BY <2>1, <2>3
<1> QED BY <1>3, <1>4, <1>5, <1>6

-----------------------------------------------------------------------------
(* The types. *)

LEMMA FrameFacts ==
  ASSUME TypeOK
  PROVE  /\ Frame = Len(sent) /\ Frame \in Nat
         /\ sent # <<>> => Frame \in 1 .. Frame
BY LenProperties, EmptySeq DEF TypeOK, Frame

LEMMA ClientStepTypes ==
  ASSUME TypeOK, NEW c \in Clients, ClientStep(c), Resting(c)
  PROVE  TypeOK'
<1> USE DEF TypeOK
<1>1. CASE handle(c) BY <1>1, LenProperties DEF handle, Read
<1>2. CASE ReadFails(c) BY <1>2 DEF ReadFails, Read, hub
<1>3. CASE Unregister(c) BY <1>3 DEF Unregister, Read
<1>4. CASE CloseSend(c) BY <1>4 DEF CloseSend, Read, hub
<1>5. CASE TakeFrame(c)
  <2>1. send[c] \in Seq(1 .. Len(sent)) /\ send[c] # <<>> BY <1>5 DEF TakeFrame
  <2>2. /\ Head(send[c]) \in 1 .. Len(sent) /\ Tail(send[c]) \in Seq(1 .. Len(sent))
        /\ Len(Tail(send[c])) = Len(send[c]) - 1 /\ Len(sent) \in Nat
    BY <2>1, HeadTailProperties, LenProperties
  <2>3. Head(send[c]) \in 0 .. Len(sent) BY <2>2
  <2>4. Len(Tail(send[c])) <= SendSize BY <2>1, <2>2, LenProperties, HubAssumption
  <2> QED BY <1>5, <2>2, <2>3, <2>4 DEF TakeFrame, hub
<1>6. CASE WriteMessage(c)
  <2>1. current[c] \in 1 .. Len(sent) BY <1>6, LenProperties DEF Resting, WriteMessage
  <2>2. Append(delivered[c], current[c]) \in Seq(1 .. Len(sent))
    BY <2>1, AppendProperties
  <2>3. 0 \in 0 .. Len(sent) BY LenProperties
  <2> QED BY <1>6, <2>2, <2>3 DEF WriteMessage, hub
<1>7. CASE WriteFails(c) BY <1>7 DEF WriteFails, StopWriter, hub
<1>8. CASE ChannelEnds(c) BY <1>8 DEF ChannelEnds, StopWriter, hub
<1> QED BY <1>1, <1>2, <1>3, <1>4, <1>5, <1>6, <1>7, <1>8 DEF ClientStep

LEMMA OfferTypes ==
  ASSUME TypeOK, Wiring, NEW c \in Clients, Offer(c)
  PROVE  TypeOK'
<1>1. sent # <<>> /\ Frame = Len(sent) /\ Frame \in 1 .. Len(sent)
  BY FrameFacts DEF Wiring, Offer
<1>2. UNCHANGED <<lock, clients, want, sent, closed, ends>> BY DEF Offer
<1>3. todo' \subseteq Clients /\ panicked' \in BOOLEAN BY DEF Offer, TypeOK
<1>4. /\ send' \in [Clients -> Seq(1 .. Len(sent))]
      /\ \A d \in Clients : Len(send'[d]) <= SendSize
      /\ missed' \in [Clients -> SUBSET (1 .. Len(sent))]
  <2>1. send[c] \in Seq(1 .. Len(sent)) BY DEF TypeOK
  <2>2. /\ Append(send[c], Frame) \in Seq(1 .. Len(sent))
        /\ Len(Append(send[c], Frame)) = Len(send[c]) + 1 /\ Len(send[c]) \in Nat
    BY <1>1, <2>1, AppendProperties, LenProperties
  <2>3. CASE /\ Len(send[c]) < SendSize /\ missed' = missed
             /\ send' = [send EXCEPT ![c] = Append(@, Frame)]
    BY <2>2, <2>3, HubAssumption DEF TypeOK
  <2>4. CASE send' = send /\ missed' = [missed EXCEPT ![c] = @ \cup {Frame}]
    BY <1>1, <2>4 DEF TypeOK
  <2> QED BY <2>3, <2>4 DEF Offer
<1> QED BY <1>2, <1>3, <1>4 DEF TypeOK, ends

LEMMA LockTypes ==
  ASSUME TypeOK, NEW b \in Broadcasters, Lock(b)
  PROVE  /\ TypeOK'
         /\ Len(sent') = Len(sent) + 1 /\ sent' # <<>>
<1>1. /\ sent' \in Seq(Broadcasters) /\ sent' # <<>>
      /\ Len(sent') = Len(sent) + 1 /\ Len(sent) \in Nat
  <2>1. sent \in Seq(Broadcasters) /\ sent' = Append(sent, b) BY DEF Lock, TypeOK
  <2> QED BY <2>1, AppendProperties, LenProperties
<1>2. 1 .. Len(sent) \subseteq 1 .. Len(sent') /\ 0 .. Len(sent) \subseteq 0 .. Len(sent')
  BY <1>1
<1>3. \A s \in Seq(1 .. Len(sent)) : s \in Seq(1 .. Len(sent'))
  BY <1>2, SeqMonotonic
<1>4. /\ send' \in [Clients -> Seq(1 .. Len(sent'))]
      /\ delivered' \in [Clients -> Seq(1 .. Len(sent'))]
  BY <1>3 DEF Lock, ends, TypeOK
<1>5. /\ current' \in [Clients -> 0 .. Len(sent')]
      /\ joined' \in [Clients -> 0 .. Len(sent')]
      /\ missed' \in [Clients -> SUBSET (1 .. Len(sent'))]
  BY <1>2 DEF Lock, ends, TypeOK
<1> QED BY <1>1, <1>4, <1>5 DEF Lock, ends, TypeOK

LEMMA NextTypes ==
  ASSUME HubInv, [Next]_vars
  PROVE  TypeOK'
<1> USE DEF HubInv
<1>1. ASSUME NEW c \in Clients, ClientStep(c) PROVE TypeOK' BY <1>1, ClientStepTypes
<1>2. ASSUME NEW c \in Clients, Offer(c) PROVE TypeOK' BY <1>2, OfferTypes
<1>3. ASSUME NEW b \in Broadcasters, Lock(b) PROVE TypeOK' BY <1>3, LockTypes
<1>4. CASE AlertArrives BY <1>4 DEF AlertArrives, TypeOK, ends, Broadcasters
<1>5. CASE FleetTick BY <1>5 DEF FleetTick, TypeOK, ends, Broadcasters
<1>6. CASE Unlock BY <1>6 DEF Unlock, TypeOK, ends
<1>7. CASE UNCHANGED vars BY <1>7 DEF vars, hub, ends, TypeOK
<1> QED BY <1>1, <1>2, <1>3, <1>4, <1>5, <1>6, <1>7 DEF Next

-----------------------------------------------------------------------------
(* Clients enter and leave the hub under its lock, and a channel is closed *)
(* only after its client has left, so a broadcast never meets it.          *)

LEMMA WiringInd ==
  ASSUME HubInv, [Next]_vars
  PROVE  Wiring'
<1> USE DEF HubInv
<1>1. ASSUME NEW c \in Clients, ClientStep(c) PROVE Wiring'
  <2> USE DEF Wiring, TypeOK
  <2>1. CASE handle(c) BY <2>1 DEF handle, Read
  <2>2. CASE ReadFails(c) BY <2>2 DEF ReadFails, Read, hub
  <2>3. CASE Unregister(c) BY <2>3 DEF Unregister, Read
  <2>4. CASE CloseSend(c) BY <2>4 DEF CloseSend, Read, hub
  <2>5. CASE UNCHANGED <<hub, closed, reader, panicked>> BY <2>5 DEF hub
  <2> QED
    BY <1>1, <2>1, <2>2, <2>3, <2>4, <2>5
    DEF ClientStep, TakeFrame, WriteMessage, WriteFails, ChannelEnds, StopWriter
<1>2. ASSUME NEW c \in Clients, Offer(c) PROVE Wiring'
  BY <1>2 DEF Offer, Wiring, ends
<1>3. ASSUME NEW b \in Broadcasters, Lock(b) PROVE Wiring'
  BY <1>3, LockTypes, NobodyAssumption DEF Lock, Wiring, ends
<1>4. CASE AlertArrives BY <1>4 DEF AlertArrives, Wiring, ends
<1>5. CASE FleetTick BY <1>5 DEF FleetTick, Wiring, ends
<1>6. CASE Unlock BY <1>6 DEF Unlock, Wiring, ends
<1>7. CASE UNCHANGED vars BY <1>7 DEF vars, hub, ends, Wiring
<1> QED BY <1>1, <1>2, <1>3, <1>4, <1>5, <1>6, <1>7 DEF Next

LEMMA RestingInd ==
  ASSUME HubInv, [Next]_vars, NEW c \in Clients
  PROVE  Resting(c)'
<1> USE DEF HubInv
<1>1. Resting(c) /\ (c \in todo => reader[c] # "none") BY DEF Wiring
<1>2. ASSUME NEW d \in Clients, ClientStep(d) PROVE Resting(c)'
  <2> USE DEF Resting, TypeOK, Read
  <2>1. CASE handle(d) BY <1>1, <2>1 DEF handle
  <2>2. CASE ReadFails(d) BY <1>1, <2>2 DEF ReadFails
  <2>3. CASE Unregister(d) BY <1>1, <2>3 DEF Unregister
  <2>4. CASE CloseSend(d) BY <1>1, <2>4 DEF CloseSend
  <2>5. CASE TakeFrame(d)
    <3>1. send[d] \in Seq(1 .. Len(sent)) /\ send[d] # <<>> BY <2>5 DEF TakeFrame
    <3>2. Head(send[d]) # 0 BY <3>1, HeadTailProperties
    <3>3. reader[d] # "none" BY <2>5 DEF TakeFrame
    <3> QED BY <1>1, <2>5, <3>2, <3>3 DEF TakeFrame
  <2>6. CASE WriteMessage(d) BY <1>1, <2>6 DEF WriteMessage
  <2>7. CASE WriteFails(d) BY <1>1, <2>7 DEF WriteFails, StopWriter
  <2>8. CASE ChannelEnds(d) BY <1>1, <2>8 DEF ChannelEnds, StopWriter
  <2> QED BY <1>2, <2>1, <2>2, <2>3, <2>4, <2>5, <2>6, <2>7, <2>8 DEF ClientStep
<1>3. ASSUME NEW d \in Clients, Offer(d) PROVE Resting(c)'
  BY <1>1, <1>3 DEF Offer, Resting, ends, TypeOK
<1>4. CASE UNCHANGED <<send, ends, missed>> BY <1>1, <1>4 DEF ends, Resting
<1> QED
  BY <1>2, <1>3, <1>4 DEF Next, Lock, AlertArrives, FleetTick, Unlock, vars

-----------------------------------------------------------------------------
(* What each client was offered. *)

LEMMA OrderKept ==
  ASSUME TypeOK, TypeOK', NEW c \in Clients, Order(c),
         Stream(c)' = Stream(c), missed'[c] = missed[c], joined'[c] = joined[c],
         Frame <= Frame', c \in clients' => c \in clients /\ Reached(c)' = Reached(c)
  PROVE  Order(c)'
<1>1. Got(c)' = Got(c) BY DEF Got
<1>2. PICK last \in joined[c] .. Frame : Got(c) = joined[c] + 1 .. last BY DEF Order
<1>3. Frame \in Nat /\ Frame' \in Nat /\ joined[c] \in Nat
  BY FrameFacts, StreamType DEF TypeOK, Frame
<1>4. last \in joined'[c] .. Frame' BY <1>2, <1>3
<1> QED BY <1>1, <1>2, <1>4 DEF Order

(* A registered client starts with the frame after the last one. *)
LEMMA HandleOrder ==
  ASSUME HubInv, TypeOK', NEW c \in Clients, handle(c)
  PROVE  Order(c)'
<1> USE DEF HubInv
<1>1. /\ delivered[c] = <<>> /\ send[c] = <<>> /\ missed[c] = {} /\ current[c] = 0
      /\ c \notin todo
  BY DEF handle, Read, Resting, Wiring
<1>2. /\ UNCHANGED <<delivered, send, missed, current, sent, todo>>
      /\ joined'[c] = Len(sent)
  BY DEF handle, TypeOK
<1>3. Stream(c)' = <<>> BY <1>1, <1>2 DEF Stream
<1>4. Got(c)' = {} BY <1>1, <1>2, <1>3 DEF Got, Range
<1>5. Frame \in Nat /\ Frame' = Frame /\ joined'[c] = Frame /\ Reached(c)' = Frame
  BY <1>1, <1>2, FrameFacts DEF Reached, Frame
<1>6. Got(c)' = Frame + 1 .. Frame BY <1>4, <1>5
<1>7. Increasing(Stream(c))' /\ (Range(Stream(c)) \cap missed[c] = {})'
  BY <1>3 DEF Increasing, Range
<1> QED BY <1>5, <1>6, <1>7 DEF Order

(* A client that the broadcast reaches is given its frame or misses it. *)
LEMMA OfferOrder ==
  ASSUME HubInv, TypeOK', NEW c \in Clients, Offer(c)
  PROVE  Order(c)'
<1> USE DEF HubInv
<1>1. /\ c \in todo /\ todo' = todo \ {c} /\ c \in clients /\ sent # <<>>
      /\ UNCHANGED <<lock, clients, want, sent, closed, ends>>
  BY DEF Offer, Wiring
<1>2. UNCHANGED <<delivered, current, joined, Frame>> BY <1>1 DEF ends, Frame
<1>3. /\ Frame \in Nat \ {0} /\ Reached(c) = Frame - 1 /\ Reached(c)' = Frame
      /\ joined[c] \in Nat
  <2>1. Frame \in Nat /\ Frame \in 1 .. Frame BY <1>1, FrameFacts
  <2>2. joined[c] \in Nat BY DEF TypeOK
  <2> QED BY <1>1, <1>2, <2>1, <2>2 DEF Reached
<1>4. /\ Increasing(Stream(c)) /\ Range(Stream(c)) \cap missed[c] = {}
      /\ Got(c) = joined[c] + 1 .. Frame - 1 /\ joined[c] <= Frame - 1
  BY <1>1, <1>3 DEF Order
<1>5. /\ Increasing(Stream(c))' /\ (Range(Stream(c)) \cap missed[c] = {})'
      /\ Got(c)' = Got(c) \cup {Frame}
  <2>1. \A n \in Got(c) : n < Frame BY <1>3, <1>4
  <2>2. CASE send' = [send EXCEPT ![c] = Append(@, Frame)] /\ missed' = missed
    <3>1. Stream(c)' = Append(Stream(c), Frame)
      BY <1>1, <1>2, <2>2, OfferExtendsStream DEF TypeOK
    <3>2. Stream(c) \in Seq(Int)
      <4>1. Frames \subseteq Int BY <1>3 DEF Frames
      <4> QED BY <4>1, StreamType, SeqMonotonic
    <3>3. /\ Increasing(Append(Stream(c), Frame))
          /\ Range(Append(Stream(c), Frame)) = Range(Stream(c)) \cup {Frame}
      BY <1>3, <1>4, <2>1, <3>2, FrameAppended DEF Got
    <3>4. Increasing(Stream(c))' /\ Range(Stream(c))' = Range(Stream(c)) \cup {Frame}
      BY <3>1, <3>3 DEF Increasing, Range
    <3>5. Frame \notin missed[c] BY <1>3, <2>1 DEF Got
    <3> QED BY <1>4, <2>2, <3>4, <3>5 DEF Got
  <2>3. CASE send' = send /\ missed' = [missed EXCEPT ![c] = @ \cup {Frame}]
    <3>1. Stream(c)' = Stream(c) BY <1>2, <2>3 DEF Stream
    <3>2. missed'[c] = missed[c] \cup {Frame} BY <2>3 DEF TypeOK
    <3>3. Frame \notin Range(Stream(c)) BY <1>3, <2>1 DEF Got
    <3>4. Increasing(Stream(c))' BY <1>4, <3>1 DEF Increasing
    <3> QED BY <1>4, <3>1, <3>2, <3>3, <3>4 DEF Got
  <2> QED BY <2>2, <2>3 DEF Offer
<1>6. Got(c)' = joined[c] + 1 .. Frame BY <1>3, <1>4, <1>5
<1> QED BY <1>2, <1>3, <1>5, <1>6 DEF Order

(* A step does nothing to a client's stream, or it registers the client,   *)
(* or offers it a frame.                                                   *)
LEMMA StreamSteps ==
  ASSUME HubInv, [Next]_vars, NEW c \in Clients
  PROVE  \/ handle(c)
         \/ Offer(c)
         \/ /\ Stream(c)' = Stream(c) /\ missed'[c] = missed[c] /\ joined'[c] = joined[c]
            /\ Frame <= Frame'
            /\ c \in clients' => c \in clients /\ Reached(c)' = Reached(c)
<1> USE DEF HubInv
<1> DEFINE Still == /\ Stream(c)' = Stream(c) /\ missed'[c] = missed[c]
                    /\ joined'[c] = joined[c] /\ Frame <= Frame'
                    /\ c \in clients' => c \in clients /\ Reached(c)' = Reached(c)
<1>1. Frame \in Nat BY FrameFacts
<1>2. ASSUME UNCHANGED <<sent, todo, missed, joined>>, clients' \subseteq clients,
             Stream(c)' = Stream(c)
      PROVE  Still
  BY <1>1, <1>2 DEF Reached, Frame
<1>3. ASSUME NEW d \in Clients, ClientStep(d), ~ handle(c) PROVE Still
  <2>1. CASE handle(d)
    <3>1. d # c BY <1>3, <2>1
    <3>2. Stream(c)' = Stream(c) BY <2>1 DEF handle, Stream
    <3> QED BY <1>1, <2>1, <3>1, <3>2 DEF handle, TypeOK, Reached, Frame
  <2>2. CASE ReadFails(d) BY <1>2, <2>2 DEF ReadFails, hub, Stream
  <2>3. CASE Unregister(d) BY <1>2, <2>3 DEF Unregister, Stream
  <2>4. CASE CloseSend(d) BY <1>2, <2>4 DEF CloseSend, hub, Stream
  <2>5. CASE TakeFrame(d) BY <1>2, <2>5, TakeKeepsStream DEF TakeFrame, hub
  <2>6. CASE WriteMessage(d) BY <1>2, <2>6, WriteKeepsStream DEF WriteMessage, hub
  <2>7. CASE WriteFails(d) BY <1>2, <2>7 DEF WriteFails, StopWriter, hub, Stream
  <2>8. CASE ChannelEnds(d) BY <1>2, <2>8 DEF ChannelEnds, StopWriter, hub, Stream
  <2> QED BY <1>3, <2>1, <2>2, <2>3, <2>4, <2>5, <2>6, <2>7, <2>8 DEF ClientStep
<1>4. ASSUME NEW d \in Clients, Offer(d), d # c PROVE Still
  <2>1. /\ UNCHANGED <<clients, sent, delivered, current, joined>>
        /\ todo' = todo \ {d}
        /\ send'[c] = send[c] /\ missed'[c] = missed[c]
    BY <1>4 DEF Offer, ends, TypeOK
  <2>2. Stream(c)' = Stream(c) BY <2>1 DEF Stream
  <2> QED BY <1>1, <1>4, <2>1, <2>2 DEF Reached, Frame
<1>5. ASSUME NEW b \in Broadcasters, Lock(b) PROVE Still
  <2>1. Frame' = Frame + 1 BY <1>5, LockTypes DEF Frame
  <2>2. todo = {} /\ todo' = clients /\ clients' = clients BY <1>5 DEF Lock, Wiring
  <2>3. Stream(c)' = Stream(c) BY <1>5 DEF Lock, ends, Stream
  <2> QED BY <1>1, <1>5, <2>1, <2>2, <2>3 DEF Lock, ends, Reached
<1>6. CASE AlertArrives BY <1>2, <1>6 DEF AlertArrives, ends, Stream
<1>7. CASE FleetTick BY <1>2, <1>7 DEF FleetTick, ends, Stream
<1>8. CASE Unlock BY <1>2, <1>8 DEF Unlock, ends, Stream
<1>9. CASE UNCHANGED vars BY <1>2, <1>9 DEF vars, hub, ends, Stream
<1> QED BY <1>3, <1>4, <1>5, <1>6, <1>7, <1>8, <1>9 DEF Next

LEMMA HubInd ==
  ASSUME HubInv, [Next]_vars
  PROVE  HubInv'
<1>1. TypeOK' /\ Wiring' BY NextTypes, WiringInd
<1>2. ASSUME NEW c \in Clients PROVE Order(c)'
  BY <1>1, StreamSteps, HandleOrder, OfferOrder, OrderKept DEF HubInv
<1> QED BY <1>1, <1>2, RestingInd DEF HubInv

LEMMA StreamIsFinite ==
  ASSUME HubInv, NEW c \in Clients
  PROVE  /\ Stream(c) \in Seq(Int) /\ delivered[c] \o Hand(current[c]) \in Seq(Int)
         /\ send[c] \in Seq(Int)
         /\ IsFiniteSet(Range(Stream(c)))
<1>1. Frames \subseteq Int BY FrameFacts DEF Frames, HubInv
<1>2. delivered[c] \o Hand(current[c]) \in Seq(Frames)
  BY StreamType, ConcatProperties DEF HubInv
<1>3. /\ Stream(c) \in Seq(Int) /\ delivered[c] \o Hand(current[c]) \in Seq(Int)
      /\ send[c] \in Seq(Int)
  BY <1>1, <1>2, StreamType, SeqMonotonic DEF HubInv
<1> QED BY <1>3, IncreasingCount DEF HubInv, Order

(* What waits in a client's channel was offered to it by earlier           *)
(* broadcasts and not written yet.                                         *)
LEMMA WaitingIsUnwritten ==
  ASSUME HubInv, NEW c \in Clients, Offer(c)
  PROVE  Range(send[c]) \subseteq Unwritten(c)
<1> DEFINE front == delivered[c] \o Hand(current[c])
<1>1. Stream(c) = front \o send[c] BY StreamType DEF HubInv
<1>2. Increasing(Stream(c)) /\ Range(Stream(c)) \cap missed[c] = {}
  BY DEF HubInv, Order
<1>3. /\ Range(send[c]) \subseteq Range(Stream(c))
      /\ Range(front) \cap Range(send[c]) = {}
  BY <1>1, <1>2, StreamIsFinite, IncreasingEnd
<1>4. Range(delivered[c]) \subseteq Range(front)
  BY StreamType, RangeOfFront DEF HubInv
<1>5. Range(Stream(c)) \subseteq joined[c] + 1 .. Frame - 1
  BY DEF HubInv, Wiring, Offer, Order, Got, Reached
<1> QED BY <1>2, <1>3, <1>4, <1>5 DEF Unwritten

(* A client loses a frame only to a full channel. *)
LEMMA LostToFullChannel ==
  ASSUME HubInv, [Next]_vars, NEW c \in Clients, missed'[c] # missed[c]
  PROVE  Offer(c) /\ Len(send[c]) = SendSize
<1>1. CASE handle(c) BY <1>1 DEF handle
<1>2. CASE Offer(c) BY <1>2 DEF Offer
<1> QED BY <1>1, <1>2, StreamSteps

LEMMA RefusedWhenFull ==
  ASSUME HubInv, [Next]_vars, NEW c \in Clients, missed'[c] # missed[c]
  PROVE  Cardinality(Unwritten(c)) >= SendSize
<1>1. Offer(c) /\ Len(send[c]) = SendSize BY LostToFullChannel
<1>2. Range(send[c]) \subseteq Unwritten(c) BY <1>1, WaitingIsUnwritten
<1>3. Increasing(send[c])
  <2>1. Stream(c) = (delivered[c] \o Hand(current[c])) \o send[c]
    BY StreamType DEF HubInv
  <2>2. Increasing(Stream(c)) BY DEF HubInv, Order
  <2> QED BY <2>1, <2>2, StreamIsFinite, IncreasingEnd
<1>4. Cardinality(Range(send[c])) = SendSize
  BY <1>1, <1>3, StreamIsFinite, IncreasingCount
<1>5. IsFiniteSet(Unwritten(c))
  <2>1. Frame \in Nat /\ joined[c] \in 0 .. Frame BY StreamType DEF HubInv
  <2>2. joined[c] + 1 \in Int /\ Frame - 1 \in Int BY <2>1
  <2>3. IsFiniteSet(joined[c] + 1 .. Frame - 1) BY <2>2, FS_Interval
  <2> QED BY <2>3, FS_Subset DEF Unwritten
<1>6. Cardinality(Range(send[c])) <= Cardinality(Unwritten(c))
  BY <1>2, <1>5, FS_Subset
<1> QED BY <1>4, <1>6

LEMMA HubInit == Init => HubInv
<1> SUFFICES ASSUME Init PROVE HubInv
  OBVIOUS
<1>1. TypeOK
  <2>1. /\ sent \in Seq(Broadcasters) /\ Len(sent) = 0 /\ <<>> \in Seq(1 .. Len(sent))
        /\ Len(<<>>) = 0 /\ SendSize >= 0
    BY EmptySeq, HubAssumption DEF Init
  <2>2. 0 \in 0 .. Len(sent) BY <2>1
  <2> QED BY <2>1, <2>2 DEF Init, TypeOK
<1>2. Wiring BY DEF Init, Wiring
<1>3. ASSUME NEW c \in Clients PROVE Resting(c) /\ Order(c)
  <2>1. Resting(c) BY DEF Init, Resting
  <2>2. /\ c \notin clients /\ Stream(c) = <<>> /\ missed[c] = {} /\ joined[c] = 0
        /\ Frame = 0
    BY DEF Init, Stream, Frame
  <2>3. Got(c) = {} BY <2>2 DEF Got, Range
  <2>4. Increasing(Stream(c)) /\ Range(Stream(c)) \cap missed[c] = {}
    BY <2>2 DEF Increasing, Range
  <2> QED BY <2>1, <2>2, <2>3, <2>4 DEF Order
<1> QED BY <1>1, <1>2, <1>3 DEF HubInv

LEMMA HubInvHolds == Spec => []HubInv
BY HubInit, HubInd, PTL DEF Spec

(* Every variable of the hub holds a value of its type, and no send        *)
(* channel more than its capacity.                                         *)
THEOREM HubTypes == Spec => []TypeOK
BY HubInvHolds, PTL DEF HubInv

(* No broadcast ever sends on a closed channel, which would end the        *)
(* process: a client leaves the hub, under its lock, before readPump       *)
(* closes its channel.                                                     *)
THEOREM HubDoesNotPanic == Spec => []NeverSendsOnClosed
<1>1. HubInv => NeverSendsOnClosed BY DEF HubInv, Wiring, NeverSendsOnClosed
<1> QED BY <1>1, HubInvHolds, PTL

(* All clients see the frames of both broadcasters in one order, that of   *)
(* the lock, without a gap other than those of their own full channel      *)
(* (broadcast, handle, writePump).                                         *)
THEOREM ClientsSeeOneOrder == Spec => []OneOrder
<1>1. HubInv => OneOrder BY DEF HubInv, Order, Got, OneOrder
<1> QED BY <1>1, HubInvHolds, PTL

(* The hub drops a frame for a client only while SendSize older frames     *)
(* that it is still to get wait to be written to it (broadcast's select,   *)
(* writePump).                                                             *)
THEOREM OnlyTheSlowMiss == Spec => MissedWhenFull
<1>1. HubInv /\ [Next]_vars =>
        [\A c \in Clients :
           missed'[c] # missed[c] => Cardinality(Unwritten(c)) >= SendSize]_vars
  BY RefusedWhenFull
<1> QED BY <1>1, HubInvHolds, PTL DEF Spec, MissedWhenFull

=============================================================================

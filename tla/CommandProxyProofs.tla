------------------------- MODULE CommandProxyProofs -------------------------
(***************************************************************************)
(* Proofs about the whole command path - the command service, the MQTT     *)
(* client and broker, the fleet, and the proxy with its operator - for any *)
(* number of goroutines, requests and lives of the service.                *)
(*                                                                         *)
(* PathInv is the inductive invariant across restarts.  What is under way  *)
(* or was executed belongs to a command of this life of the service        *)
(* (Genuine) or to an earlier one, whose ids are of an earlier second      *)
(* (Stale).  Within one life everything is genuine: LifeInv.               *)
(***************************************************************************)
EXTENDS CommandProxy, CommandServiceProofs, FiniteSetTheorems

Envelope == [id : Id, body : Requests]

Genuine(m) == m.id \in DOMAIN cmds /\ Message(cmds[m.id]) = m

Stale(m) == m.id \notin DOMAIN cmds /\ m.id[1] < now

UnderWay == outbox \cup Forwarded \cup acks

ChannelOK ==
  /\ UnderWay \cup Executed \subseteq Envelope
  /\ \A id \in DOMAIN cmds : id[1] <= now
  /\ \A m \in UnderWay \cup Executed : Genuine(m) \/ Stale(m)
  /\ \A m \in UnderWay : Genuine(m) => m.id \in published
  /\ acks \subseteq Executed

AppliedInTracker ==
  \A id \in DOMAIN cmds : cmds[id].state = "applied" => Message(cmds[id]) \in Executed

(* A row of an earlier life is not written to any more. *)
RowsOfAllLives ==
  \A id \in DOMAIN log :
    \/ Filed(log[id])
    \/ Stale(log[id]) /\ (log[id].state = "applied" => Message(log[id]) \in Executed)

(* The broker forwards a message once per sending, and each copy is        *)
(* executed at most once.                                                  *)
CopiesOK ==
  /\ {sends, toFleet, executions} \subseteq [Messages -> Nat]
  /\ \A m \in Messages : executions[m] + toFleet[m] <= sends[m]

PathInv == TrackerInv /\ ChannelOK /\ AppliedInTracker /\ RowsOfAllLives /\ CopiesOK

(* Within one life nothing is stale, and ids are within the bounds.        *)
LifeInv ==
  /\ PathInv
  /\ \A m \in UnderWay \cup Executed : Genuine(m)
  /\ DOMAIN cmds \subseteq (1 .. LastIssue) \X (1 .. MaxSeq)

(* What the operator was told and what was asked for. *)
SentInv ==
  /\ \A h \in Handlers : http[h].pc \in {"wait", "marked"} => http[h].cmd.id \in published
  /\ \A h \in Handlers :
       http[h].pc = "marked" => cmds[http[h].cmd.id].state # "pending"
  /\ told \subseteq Envelope
  /\ \A m \in told : Genuine(m) /\ m.id \in published /\ cmds[m.id].state # "pending"

CommandsOf(body) == {id \in DOMAIN cmds : cmds[id].body = body}

AskedInv ==
  \A body \in Requests :
    IsFiniteSet(CommandsOf(body)) /\ Cardinality(CommandsOf(body)) = posts[body]

-----------------------------------------------------------------------------
(* What a step of the service does to the table of commands.               *)

LEMMA MessageType ==
  ASSUME NEW c \in Command
  PROVE  Message(c) \in Envelope /\ Message(c).id = c.id /\ Message(c).body = c.body
BY DEF Message, Envelope, Command

LEMMA NextEffect ==
  ASSUME TrackerInv, [Next]_vars
  PROVE  /\ now \in Nat /\ now' \in Nat /\ now <= now'
         /\ published \subseteq published'
         /\ \A id \in DOMAIN cmds' \ DOMAIN cmds :
              /\ id = newID /\ cmds'[id].state = "pending"
              /\ seq < MaxSeq /\ now <= LastIssue
         /\ newID \notin DOMAIN cmds
<1> USE DEF TrackerInv
<1>1. now \in Nat /\ now' \in Nat BY NextInd DEF TypeOK
<1>2. newID \notin DOMAIN cmds BY DEF newID, IdsUnique, TypeOK
<1>3. ASSUME NEW h \in Handlers, NEW body \in Requests, Create(h, body)
      PROVE  /\ now' = now /\ published' = published
             /\ seq < MaxSeq /\ now <= LastIssue
             /\ DOMAIN cmds' = DOMAIN cmds \cup {newID}
             /\ cmds'[newID].state = "pending"
  BY <1>3 DEF Create, Put, NewCommand
<1>4. CASE ~ \E h \in Handlers, body \in Requests : Create(h, body)
  <2>1. DOMAIN cmds' = DOMAIN cmds
    BY <1>4
    DEF Next, ServiceStep, HandlerStep, EmitCreated, Publish, PublishFails, MarkSent,
        EmitSent, EmitAck, SweepUndelivered, EmitSwept, Ack, Tick, vars
  <2>2. now' = now \/ now' = now + 1
    BY <1>4
    DEF Next, ServiceStep, HandlerStep, EmitCreated, Publish, PublishFails, MarkSent,
        EmitSent, EmitAck, SweepUndelivered, EmitSwept, Ack, Tick, vars
  <2>3. published \subseteq published'
    BY <1>4
    DEF Next, ServiceStep, HandlerStep, EmitCreated, Publish, PublishFails, MarkSent,
        EmitSent, EmitAck, SweepUndelivered, EmitSwept, Ack, Tick, vars
  <2> QED BY <1>1, <1>2, <2>1, <2>2, <2>3
<1> QED BY <1>1, <1>2, <1>3, <1>4

(* A command stays the command it was: its message is the same for good.   *)
LEMMA MessagesStay ==
  ASSUME TrackerInv, [Next]_vars, NEW id \in DOMAIN cmds
  PROVE  id \in DOMAIN cmds' /\ Message(cmds'[id]) = Message(cmds[id])
<1>1. TrackerInv' /\ Grows BY NextInd
<1>2. id \in DOMAIN cmds' /\ cmds'[id].body = cmds[id].body BY <1>1 DEF Grows, Earlier
<1>3. cmds'[id].id = id /\ cmds[id].id = id BY <1>1, <1>2 DEF TrackerInv, TypeOK
<1> QED BY <1>2, <1>3 DEF Message

LEMMA StaleStays ==
  ASSUME TrackerInv, [Next]_vars, NEW m, m.id \in Id, Stale(m)
  PROVE  Stale(m)'
<1>1. m.id # newID BY DEF Stale, newID, TrackerInv, TypeOK
<1>2. m.id[1] \in Nat BY DEF Id
<1> QED BY <1>1, <1>2, NextEffect DEF Stale

LEMMA GenuineStays ==
  ASSUME TrackerInv, [Next]_vars, NEW m, Genuine(m)
  PROVE  Genuine(m)'
BY MessagesStay DEF Genuine

(* Steps other than acks take no command to applied. *)
LEMMA OnlyAcksApply ==
  ASSUME TrackerInv,
         \/ \E h \in Handlers, body \in Requests : Create(h, body)
         \/ ServiceStep \/ Tick \/ UNCHANGED vars,
         NEW id \in DOMAIN cmds', cmds'[id].state = "applied"
  PROVE  id \in DOMAIN cmds /\ cmds[id].state = "applied"
<1> USE DEF TrackerInv
<1> SUFFICES ASSUME ~ (id \in DOMAIN cmds /\ cmds[id].state = "applied") PROVE FALSE
  OBVIOUS
<1>1. id \in DOMAIN cmds /\ cmds[id] \in Command /\ cmds[id].state # "applied"
  BY NextEffect DEF TypeOK, Next
<1>2. cmds' # cmds BY <1>1
<1>3. ASSUME NEW h \in Handlers, MarkSent(h) PROVE FALSE
  <2>1. cmds' = [cmds EXCEPT ![http[h].cmd.id] = Sent(@)] BY <1>3 DEF MarkSent
  <2>2. Sent(cmds[id]).state # "applied" BY <1>1 DEF Sent, Command
  <2> QED BY <1>1, <2>1, <2>2
<1>4. CASE SweepUndelivered
  BY <1>1, <1>4 DEF SweepUndelivered, Undelivered, Command
<1>5. ASSUME NEW h \in Handlers, NEW body \in Requests, Create(h, body) PROVE FALSE
  <2>1. cmds' = Put(cmds, newID, NewCommand(body)) BY <1>5 DEF Create
  <2>2. newID \notin DOMAIN cmds BY <1>5, NextEffect DEF Next
  <2>3. cmds'[id] = cmds[id] BY <1>1, <2>1, <2>2 DEF Put
  <2> QED BY <1>1, <2>3
<1> QED
  BY <1>1, <1>2, <1>3, <1>4, <1>5
  DEF ServiceStep, HandlerStep, EmitCreated, Publish, PublishFails, EmitSent,
      EmitAck, EmitSwept, Tick, vars

-----------------------------------------------------------------------------
(* PathInv is inductive. *)

LEMMA FiledApplied ==
  ASSUME TrackerInv, AppliedInTracker, NEW c \in Command, Filed(c), c.state = "applied"
  PROVE  Message(c) \in Executed
<1>1. c.id \in DOMAIN cmds /\ Earlier(c, cmds[c.id]) BY DEF Filed
<1>2. cmds[c.id] \in Command /\ cmds[c.id].id = c.id BY <1>1 DEF TrackerInv, TypeOK
<1>3. cmds[c.id].state = "applied"
  BY <1>1, <1>2, StageValues DEF Earlier, Command, States
<1>4. Message(c) = Message(cmds[c.id]) BY <1>1, <1>2 DEF Message, Earlier
<1> QED BY <1>1, <1>3, <1>4 DEF AppliedInTracker

LEMMA RowsStep ==
  ASSUME PathInv, [Next]_vars, Executed \subseteq Executed'
  PROVE  RowsOfAllLives'
<1> USE DEF PathInv
<1>1. TrackerInv' /\ Grows BY NextInd
<1> SUFFICES
      ASSUME NEW id \in DOMAIN log'
      PROVE  \/ Filed(log[id])'
             \/ /\ Stale(log[id])'
                /\ log'[id].state = "applied" => Message(log[id])' \in Executed'
  BY DEF RowsOfAllLives
<1>2. ASSUME NEW c \in Command, Filed(c) PROVE Filed(c)'
  BY <1>1, <1>2, FiledGrows DEF Filed, TrackerInv
<1>3. CASE Kept(id)
  <2>1. /\ id \in DOMAIN log /\ log'[id] = log[id]
        /\ log[id] \in Command /\ log[id].id = id /\ log[id].id \in Id
    BY <1>3 DEF Kept, TrackerInv, TypeOK
  <2>2. CASE Filed(log[id]) BY <1>2, <2>1, <2>2 DEF Filed
  <2>3. CASE Stale(log[id]) /\ (log[id].state = "applied" => Message(log[id]) \in Executed)
    <3>1. Stale(log[id])' BY <2>1, <2>3, StaleStays DEF Stale
    <3> QED BY <2>1, <2>3, <3>1 DEF Message
  <2> QED BY <2>1, <2>2, <2>3 DEF RowsOfAllLives
<1>4. ASSUME NEW c \in Command, Filed(c), Rewritten(id, c) PROVE Filed(log[id])'
  <2>1. CASE id \in DOMAIN log
    <3>1. id \in DOMAIN cmds /\ log[id].id = id /\ c.id = id
      BY <1>4, <2>1 DEF Filed, Rewritten, TrackerInv, TypeOK
    <3>2. Filed(log[id]) BY <2>1, <3>1 DEF RowsOfAllLives, Stale
    <3>3. log[id].body = c.body BY <1>4, <3>1, <3>2 DEF Filed, Earlier
    <3>4. log'[id] = c BY <1>4, <2>1, <3>3 DEF Rewritten, Command
    <3> QED BY <1>2, <1>4, <3>4
  <2>2. CASE id \notin DOMAIN log BY <1>2, <1>4, <2>2 DEF Rewritten
  <2> QED BY <2>1, <2>2
<1> QED BY <1>3, <1>4, LogSteps

(* A step of the service with what it, the broker or the fleet does to the *)
(* messages.                                                               *)
LEMMA PathStep ==
  ASSUME PathInv, [Next]_vars, CopiesOK',
         Executed \subseteq Executed', acks' \subseteq Executed', AppliedInTracker',
         \A m \in UnderWay' \cup Executed' :
           m \in UnderWay \cup Executed \/ (m \in Envelope /\ Genuine(m)'),
         \A m \in UnderWay' : m \in UnderWay \/ m.id \in published'
  PROVE  PathInv'
<1> USE DEF PathInv
<1>1. TrackerInv' BY NextInd
<1>2. (UnderWay \cup Executed \subseteq Envelope)' BY DEF ChannelOK, Envelope
<1>3. ASSUME NEW id \in DOMAIN cmds' PROVE id[1] <= now'
  <2>1. CASE id \in DOMAIN cmds
    <3>1. id[1] <= now /\ id[1] \in Nat BY <2>1 DEF ChannelOK, TrackerInv, TypeOK, Id
    <3> QED BY <3>1, NextEffect
  <2>2. CASE id \notin DOMAIN cmds
    <3>1. id[1] = now BY <1>3, <2>2, NextEffect DEF newID
    <3> QED BY <3>1, NextEffect
  <2> QED BY <2>1, <2>2
<1>4. ASSUME NEW m \in UnderWay \cup Executed
      PROVE  m.id \in Id /\ ((Genuine(m) /\ Genuine(m)') \/ (Stale(m) /\ Stale(m)'))
  <2>1. m.id \in Id BY DEF ChannelOK, Envelope
  <2>2. CASE Genuine(m) BY <2>1, <2>2, GenuineStays
  <2>3. CASE Stale(m) BY <2>1, <2>3, StaleStays
  <2> QED BY <2>2, <2>3 DEF ChannelOK
<1>5. (\A m \in UnderWay \cup Executed : Genuine(m) \/ Stale(m))'
  BY <1>4 DEF Genuine, Stale
<1>6. ASSUME NEW m \in UnderWay', Genuine(m)' PROVE m.id \in published'
  <2>1. CASE m \in UnderWay
    <3>1. Genuine(m) BY <1>4, <1>6, <2>1 DEF Genuine, Stale
    <3> QED BY <2>1, <3>1, NextEffect DEF ChannelOK
  <2> QED BY <2>1
<1>7. ChannelOK'
  <2>1. (\A id \in DOMAIN cmds : id[1] <= now)' BY <1>3
  <2>2. (\A m \in UnderWay : Genuine(m) => m.id \in published)' BY <1>6 DEF Genuine
  <2> QED BY <1>2, <1>5, <2>1, <2>2 DEF ChannelOK
<1> QED BY <1>1, <1>7, RowsStep


-----------------------------------------------------------------------------
(* The copies of messages. *)

LEMMA CopiesKept ==
  ASSUME UNCHANGED <<sends, toFleet, executions>>
  PROVE  /\ CopiesOK => CopiesOK'
         /\ UNCHANGED Forwarded /\ UNCHANGED Executed
BY DEF CopiesOK, Forwarded, Executed

LEMMA CopyForwarded ==
  ASSUME CopiesOK, NEW m, BrokerReceives(m)
  PROVE  CopiesOK' /\ UNCHANGED Executed /\ Forwarded' \subseteq Forwarded \cup {m}
<1>1. /\ sends' = [sends EXCEPT ![m] = @ + 1]
      /\ toFleet' = IF fleetUp THEN [toFleet EXCEPT ![m] = @ + 1] ELSE toFleet
      /\ executions' = executions
  BY DEF BrokerReceives
<1>2. sends' \in [Messages -> Nat] /\ toFleet' \in [Messages -> Nat]
  <2>1. sends \in [Messages -> Nat] /\ toFleet \in [Messages -> Nat] BY DEF CopiesOK
  <2>2. ASSUME NEW f \in [Messages -> Nat] PROVE [f EXCEPT ![m] = @ + 1] \in [Messages -> Nat]
    <3>1. CASE m \in Messages BY <3>1
    <3>2. CASE m \notin Messages
      <4>1. [f EXCEPT ![m] = @ + 1] = f BY <3>2
      <4> QED BY <4>1
    <3> QED BY <3>1, <3>2
  <2> QED BY <1>1, <2>1, <2>2
<1>3. ASSUME NEW n \in Messages PROVE executions'[n] + toFleet'[n] <= sends'[n]
  <2>1. /\ sends[n] \in Nat /\ toFleet[n] \in Nat /\ executions[n] \in Nat
        /\ executions[n] + toFleet[n] <= sends[n]
    BY DEF CopiesOK
  <2>2. sends'[n] = IF n = m THEN sends[n] + 1 ELSE sends[n]
    BY <1>1 DEF CopiesOK
  <2>3. toFleet'[n] = IF n = m /\ fleetUp THEN toFleet[n] + 1 ELSE toFleet[n]
    BY <1>1 DEF CopiesOK
  <2> QED BY <1>1, <2>1, <2>2, <2>3
<1>4. CopiesOK' BY <1>1, <1>2, <1>3 DEF CopiesOK
<1>5. UNCHANGED Executed BY <1>1 DEF Executed
<1>6. ASSUME NEW n \in Messages, n # m PROVE toFleet'[n] = toFleet[n]
  BY <1>1, <1>6 DEF CopiesOK
<1> QED BY <1>4, <1>5, <1>6 DEF Forwarded

LEMMA CopyReceived ==
  ASSUME CopiesOK, NEW m \in Messages, FleetReceives(m)
  PROVE  /\ CopiesOK' /\ m \in Forwarded /\ Forwarded' \subseteq Forwarded
         /\ Executed \subseteq Executed' /\ Executed' \subseteq Executed \cup {m}
         /\ acks' \subseteq acks \cup (Executed' \cap {m})
<1>1. /\ toFleet[m] > 0 /\ toFleet' = [toFleet EXCEPT ![m] = @ - 1] /\ sends' = sends
      /\ \/ executions' = [executions EXCEPT ![m] = @ + 1] /\ acks' = acks \cup {m}
         \/ UNCHANGED <<executions, acks>>
  BY DEF FleetReceives
<1>2. /\ {sends, toFleet, executions} \subseteq [Messages -> Nat]
      /\ \A n \in Messages : executions[n] + toFleet[n] <= sends[n]
  BY DEF CopiesOK
<1>3. toFleet' \in [Messages -> Nat] /\ executions' \in [Messages -> Nat]
  BY <1>1, <1>2
<1>4. ASSUME NEW n \in Messages
      PROVE  /\ executions'[n] + toFleet'[n] <= sends'[n]
             /\ toFleet'[n] <= toFleet[n] /\ executions[n] <= executions'[n]
             /\ n # m => executions'[n] = executions[n]
  <2>1. toFleet[n] \in Nat /\ executions[n] \in Nat /\ sends[n] \in Nat BY <1>2
  <2>2. toFleet'[n] = IF n = m THEN toFleet[n] - 1 ELSE toFleet[n] BY <1>1, <1>2
  <2>3. executions'[n] = executions[n] \/ (n = m /\ executions'[n] = executions[n] + 1)
    BY <1>1, <1>2
  <2> QED BY <1>1, <1>2, <2>1, <2>2, <2>3
<1>5. CopiesOK' BY <1>1, <1>2, <1>3, <1>4 DEF CopiesOK
<1>6. Forwarded' \subseteq Forwarded /\ Executed \subseteq Executed'
  <2>1. ASSUME NEW n \in Messages
        PROVE  {toFleet[n], toFleet'[n], executions[n], executions'[n]} \subseteq Nat
    BY <1>2, <1>3
  <2> QED BY <1>4, <2>1 DEF Forwarded, Executed
<1>7. Executed' \subseteq Executed \cup {m} BY <1>4 DEF Executed
<1>8. acks' \subseteq acks \cup (Executed' \cap {m})
  <2>1. CASE executions' = [executions EXCEPT ![m] = @ + 1] /\ acks' = acks \cup {m}
    <3>1. executions[m] \in Nat /\ executions'[m] = executions[m] + 1 BY <1>2, <2>1
    <3>2. m \in Executed' BY <3>1 DEF Executed
    <3> QED BY <2>1, <3>2
  <2> QED BY <1>1, <2>1
<1>9. m \in Forwarded BY <1>1 DEF Forwarded
<1> QED BY <1>5, <1>6, <1>7, <1>8, <1>9

LEMMA CopiesDropped ==
  ASSUME CopiesOK, FleetDisconnects
  PROVE  CopiesOK' /\ UNCHANGED Executed /\ Forwarded' = {}
<1>1. toFleet' = NoCopies /\ sends' = sends /\ executions' = executions
  BY DEF FleetDisconnects
<1>2. ASSUME NEW n \in Messages PROVE executions[n] <= sends[n]
  <2>1. /\ sends[n] \in Nat /\ toFleet[n] \in Nat /\ executions[n] \in Nat
        /\ executions[n] + toFleet[n] <= sends[n]
    BY DEF CopiesOK
  <2> QED BY <2>1
<1>3. \A n \in Messages : executions'[n] \in Nat /\ toFleet'[n] = 0
  BY <1>1 DEF CopiesOK, NoCopies
<1>4. CopiesOK'
  <2>1. {sends', toFleet', executions'} \subseteq [Messages -> Nat]
    BY <1>1 DEF CopiesOK, NoCopies
  <2>2. \A n \in Messages : executions'[n] + toFleet'[n] <= sends'[n]
    BY <1>1, <1>2, <1>3
  <2> QED BY <2>1, <2>2 DEF CopiesOK
<1> QED BY <1>1, <1>3, <1>4 DEF Executed, Forwarded

LEMMA NoCopiesYet ==
  ASSUME ChannelInit
  PROVE  CopiesOK /\ Forwarded = {} /\ Executed = {}
<1>1. /\ sends = [m \in Messages |-> 0] /\ toFleet = [m \in Messages |-> 0]
      /\ executions = [m \in Messages |-> 0]
  BY DEF ChannelInit, NoCopies
<1> QED BY <1>1 DEF CopiesOK, Forwarded, Executed

-----------------------------------------------------------------------------
LEMMA PathInit == ChannelInit => PathInv
<1> SUFFICES ASSUME ChannelInit PROVE PathInv
  OBVIOUS
<1>1. TrackerInv BY InitInd DEF ChannelInit
<1>2. ChannelOK /\ CopiesOK
  BY NoCopiesYet DEF ChannelInit, Init, ChannelOK, UnderWay
<1>3. AppliedInTracker /\ RowsOfAllLives
  BY DEF ChannelInit, Init, AppliedInTracker, RowsOfAllLives
<1> QED BY <1>1, <1>2, <1>3 DEF PathInv

LEMMA AppliedStays ==
  ASSUME PathInv, Executed \subseteq Executed',
         \/ \E h \in Handlers, body \in Requests : Create(h, body)
         \/ ServiceStep \/ Tick \/ UNCHANGED vars
  PROVE  [Next]_vars /\ AppliedInTracker'
<1>1. [Next]_vars BY DEF Next
<1>2. ASSUME NEW id \in DOMAIN cmds', cmds'[id].state = "applied"
      PROVE  Message(cmds'[id]) \in Executed'
  <2>1. id \in DOMAIN cmds /\ cmds[id].state = "applied"
    BY <1>2, OnlyAcksApply DEF PathInv
  <2>2. Message(cmds'[id]) = Message(cmds[id])
    BY <1>1, <2>1, MessagesStay DEF PathInv
  <2> QED BY <2>1, <2>2 DEF PathInv, AppliedInTracker
<1>3. AppliedInTracker' BY <1>2 DEF AppliedInTracker, Message
<1> QED BY <1>1, <1>3

LEMMA HandOverInd ==
  ASSUME PathInv, NEW h \in Handlers, HandOver(h)
  PROVE  PathInv' /\ [Next]_vars
<1> DEFINE c == http[h].cmd
<1>1. /\ ServiceStep
      /\ UNCHANGED <<sends, toFleet, acks, executions>>
      /\ outbox' \subseteq outbox \cup {Message(c)}
      /\ \A m \in outbox' \ outbox : m.id \in published'
  BY DEF HandOver, ServiceStep, HandlerStep
<1>0. UNCHANGED Forwarded /\ UNCHANGED Executed /\ CopiesOK'
  BY <1>1, CopiesKept DEF PathInv
<1>2. [Next]_vars /\ AppliedInTracker' BY <1>0, <1>1, AppliedStays
<1>3. http[h].pc # "idle" BY DEF HandOver, Publish, PublishFails, Step
<1>4. c \in Command /\ Filed(c)
  BY <1>3, HeldIsCommand DEF PathInv, TrackerInv, Held
<1>5. Message(c) \in Envelope /\ Genuine(Message(c))
  BY <1>4, MessageType DEF Genuine, Filed, Earlier, Message, PathInv, TrackerInv, TypeOK
<1>6. ASSUME NEW m, m = Message(c) PROVE m \in Envelope /\ Genuine(m)'
  <2>1. Genuine(m) BY <1>5, <1>6
  <2> QED BY <1>2, <1>5, <1>6, <2>1, GenuineStays DEF PathInv
<1>7. acks' \subseteq Executed' BY <1>0, <1>1 DEF PathInv, ChannelOK
<1>8. \A m \in UnderWay' \cup Executed' :
        m \in UnderWay \cup Executed \/ (m \in Envelope /\ Genuine(m)')
  BY <1>0, <1>1, <1>6 DEF UnderWay
<1>9. \A m \in UnderWay' : m \in UnderWay \/ m.id \in published'
  BY <1>0, <1>1 DEF UnderWay
<1> QED BY <1>0, <1>1, <1>2, <1>7, <1>8, <1>9, PathStep

LEMMA ServiceAloneInd ==
  ASSUME PathInv, ServiceAlone
  PROVE  PathInv' /\ [Next]_vars
<1>1. /\ \/ \E h \in Handlers, body \in Requests : Create(h, body)
         \/ ServiceStep \/ Tick
      /\ UNCHANGED <<outbox, sends, toFleet, acks, executions>>
  BY DEF ServiceAlone, ServiceStep, HandlerStep, channel
<1>0. UNCHANGED Forwarded /\ UNCHANGED Executed /\ CopiesOK'
  BY <1>1, CopiesKept DEF PathInv
<1>2. [Next]_vars /\ AppliedInTracker' BY <1>0, <1>1, AppliedStays
<1>3. acks' \subseteq Executed' BY <1>0, <1>1 DEF PathInv, ChannelOK
<1>4. UNCHANGED <<UnderWay, Executed>> BY <1>0, <1>1 DEF UnderWay
<1> QED BY <1>0, <1>1, <1>2, <1>3, <1>4, PathStep

(* An ack is for a command a vehicle executed, so that command may become  *)
(* applied, and no other does.                                             *)
LEMMA AckArrivesInd ==
  ASSUME PathInv, NEW m \in acks, NEW a \in Ackers, AckArrives(a, m)
  PROVE  PathInv' /\ [Next]_vars
<1>1. /\ Ack(a, m.id, "applied") /\ acks' \subseteq acks
      /\ UNCHANGED <<outbox, sends, toFleet, executions>>
  BY DEF AckArrives
<1>0. UNCHANGED Forwarded /\ UNCHANGED Executed /\ CopiesOK'
  BY <1>1, CopiesKept DEF PathInv
<1>2. m \in Executed /\ Genuine(m) /\ m.id \in published
  BY <1>1 DEF PathInv, ChannelOK, UnderWay, Ack, Stale
<1>3. [Next]_vars BY <1>1, <1>2 DEF Next
<1>4. ASSUME NEW id \in DOMAIN cmds', cmds'[id].state = "applied"
      PROVE  Message(cmds'[id]) \in Executed'
  <2>1. id \in DOMAIN cmds BY <1>1 DEF Ack
  <2>2. Message(cmds'[id]) = Message(cmds[id]) BY <1>3, <2>1, MessagesStay DEF PathInv
  <2>3. CASE id = m.id BY <1>0, <1>1, <1>2, <2>2, <2>3 DEF Genuine
  <2>4. CASE id # m.id
    BY <1>0, <1>1, <1>4, <2>1, <2>2, <2>4 DEF Ack, PathInv, AppliedInTracker
  <2> QED BY <2>3, <2>4
<1>5. AppliedInTracker' BY <1>4 DEF AppliedInTracker, Message
<1>6. acks' \subseteq Executed' /\ UnderWay' \subseteq UnderWay
  BY <1>0, <1>1 DEF PathInv, ChannelOK, UnderWay
<1> QED BY <1>0, <1>1, <1>3, <1>5, <1>6, PathStep

(* Steps in which the service has no part move messages on, of which none  *)
(* is new.                                                                 *)
LEMMA ElsewhereInd ==
  ASSUME PathInv, UNCHANGED vars, CopiesOK', Executed \subseteq Executed', acks' \subseteq Executed',
         UnderWay' \subseteq UnderWay, Executed' \subseteq Executed \cup UnderWay
  PROVE  PathInv' /\ [Next]_vars
<1>1. [Next]_vars /\ AppliedInTracker' BY AppliedStays
<1> QED BY <1>1, PathStep


LEMMA ChannelNextInd ==
  ASSUME PathInv, [ChannelNext]_<<vars, channel>>
  PROVE  PathInv' /\ [Next]_vars
<1>1. ASSUME NEW h \in Handlers, HandOver(h) PROVE PathInv' /\ [Next]_vars
  BY <1>1, HandOverInd
<1>2. CASE ServiceAlone BY <1>2, ServiceAloneInd
<1>3. ASSUME NEW m \in acks, NEW a \in Ackers, AckArrives(a, m)
      PROVE  PathInv' /\ [Next]_vars
  BY <1>3, AckArrivesInd
<1>0. CopiesOK /\ acks \subseteq Executed BY DEF PathInv, ChannelOK
<1>4. ASSUME NEW m \in outbox, BrokerReceives(m) PROVE PathInv' /\ [Next]_vars
  <2>1. UNCHANGED vars /\ outbox' \subseteq outbox /\ UNCHANGED acks
    BY <1>4 DEF BrokerReceives
  <2>2. CopiesOK' /\ UNCHANGED Executed /\ Forwarded' \subseteq Forwarded \cup {m}
    BY <1>0, <1>4, CopyForwarded
  <2>3. UnderWay' \subseteq UnderWay BY <2>1, <2>2 DEF UnderWay
  <2> QED BY <1>0, <2>1, <2>2, <2>3, ElsewhereInd
<1>5. ASSUME NEW m \in Messages, FleetReceives(m) PROVE PathInv' /\ [Next]_vars
  <2>1. UNCHANGED vars /\ UNCHANGED outbox BY <1>5 DEF FleetReceives
  <2>2. /\ CopiesOK' /\ m \in Forwarded /\ Forwarded' \subseteq Forwarded
        /\ Executed \subseteq Executed' /\ Executed' \subseteq Executed \cup {m}
        /\ acks' \subseteq acks \cup (Executed' \cap {m})
    BY <1>0, <1>5, CopyReceived
  <2>3. UnderWay' \subseteq UnderWay /\ Executed' \subseteq Executed \cup UnderWay
    BY <2>1, <2>2 DEF UnderWay
  <2>4. acks' \subseteq Executed' BY <1>0, <2>2
  <2> QED BY <2>1, <2>2, <2>3, <2>4, ElsewhereInd
<1>6. CASE FleetDisconnects
  <2>1. UNCHANGED vars /\ UNCHANGED <<outbox, acks>> BY <1>6 DEF FleetDisconnects
  <2>2. CopiesOK' /\ UNCHANGED Executed /\ Forwarded' = {} BY <1>0, <1>6, CopiesDropped
  <2>3. UnderWay' \subseteq UnderWay BY <2>1, <2>2 DEF UnderWay
  <2> QED BY <1>0, <2>1, <2>2, <2>3, ElsewhereInd
<1>7. CASE FleetConnects \/ UNCHANGED <<vars, channel>>
  <2>1. UNCHANGED vars /\ UNCHANGED <<outbox, sends, toFleet, acks, executions>>
    BY <1>7 DEF FleetConnects, channel
  <2>2. CopiesOK' /\ UNCHANGED Executed /\ UNCHANGED Forwarded BY <1>0, <2>1, CopiesKept
  <2>3. UnderWay' \subseteq UnderWay BY <2>1, <2>2 DEF UnderWay
  <2> QED BY <1>0, <2>1, <2>2, <2>3, ElsewhereInd
<1> QED BY <1>1, <1>2, <1>3, <1>4, <1>5, <1>6, <1>7 DEF ChannelNext

LEMMA AckUnknownInd ==
  ASSUME PathInv, NEW m \in acks, AckUnknown(m)
  PROVE  PathInv'
<1>1. UNCHANGED vars /\ acks' \subseteq acks /\ UNCHANGED <<outbox, sends, toFleet, executions>>
  BY DEF AckUnknown
<1>2. CopiesOK' /\ UNCHANGED Executed /\ UNCHANGED Forwarded
  BY <1>1, CopiesKept DEF PathInv
<1> QED BY <1>1, <1>2, ElsewhereInd DEF UnderWay, PathInv, ChannelOK

(* What was of the life that ends becomes stale: it is of an earlier       *)
(* second than any id to come.                                             *)
LEMMA RestartInd ==
  ASSUME PathInv, Restart, ~ FastRestart
  PROVE  PathInv'
<1> USE DEF PathInv
<1>1. /\ now' = now + 1 /\ now \in Nat \ {0}
      /\ seq' = 0 /\ cmds' = <<>> /\ sweep' = {} /\ published' = {} /\ outbox' = {}
      /\ http' = [h \in Handlers |-> [pc |-> "idle", cmd |-> None]]
      /\ ackers' = [a \in Ackers |-> None]
      /\ UNCHANGED <<log, sends, toFleet, acks, executions>>
  BY DEF Restart, TrackerInv, TypeOK
<1>0. CopiesOK' /\ UNCHANGED Forwarded /\ UNCHANGED Executed BY <1>1, CopiesKept
<1>2. DOMAIN cmds' = {} BY <1>1
<1>3. TrackerInv'
  <2>1. TypeOK' BY <1>1, <1>2 DEF TrackerInv, TypeOK
  <2>2. IdsUnique' BY <1>1, <1>2 DEF IdsUnique
  <2>3. RecordConsistent' BY <1>2 DEF RecordConsistent
  <2>4. Held' BY <1>1, NoneAssumption DEF Held
  <2> QED BY <2>1, <2>2, <2>3, <2>4 DEF TrackerInv
<1>4. ASSUME NEW m, m.id \in Id, m.id \in DOMAIN cmds \/ Stale(m)
      PROVE  Stale(m)'
  <2>1. m.id[1] \in Nat /\ m.id[1] <= now BY <1>1, <1>4 DEF ChannelOK, Stale, Id
  <2> QED BY <1>1, <1>2, <2>1 DEF Stale
<1>5. ChannelOK'
  <2>1. UnderWay' \subseteq UnderWay BY <1>0, <1>1 DEF UnderWay
  <2>2. (UnderWay \cup Executed \subseteq Envelope)' /\ acks' \subseteq Executed'
    BY <1>0, <1>1, <2>1 DEF ChannelOK, Envelope
  <2>3. ASSUME NEW m \in UnderWay' \cup Executed' PROVE Stale(m)'
    <3>1. m.id \in Id /\ (Genuine(m) \/ Stale(m))
      BY <1>0, <1>1, <2>1, <2>3 DEF ChannelOK, Envelope
    <3> QED BY <1>4, <3>1 DEF Genuine
  <2>4. (\A m \in UnderWay \cup Executed : Genuine(m) \/ Stale(m))'
    BY <2>3 DEF Stale
  <2> QED BY <1>2, <2>2, <2>4 DEF ChannelOK, Genuine
<1>6. AppliedInTracker' BY <1>2 DEF AppliedInTracker
<1>7. ASSUME NEW id \in DOMAIN log
      PROVE  Stale(log[id])' /\ (log[id].state = "applied" => Message(log[id]) \in Executed)
  <2>1. log[id] \in Command /\ log[id].id = id /\ id \in Id BY DEF TrackerInv, TypeOK
  <2>2. CASE Filed(log[id])
    <3>1. Stale(log[id])' BY <1>1, <1>4, <2>1, <2>2 DEF Filed, Stale
    <3> QED BY <2>1, <2>2, <3>1, FiledApplied
  <2>3. CASE ~ Filed(log[id])
    BY <1>1, <1>4, <2>1, <2>3 DEF RowsOfAllLives, Stale
  <2> QED BY <2>2, <2>3
<1>8. RowsOfAllLives' BY <1>0, <1>1, <1>7 DEF RowsOfAllLives, Stale, Message
<1> QED BY <1>0, <1>3, <1>5, <1>6, <1>8

LEMMA PathAppliedWasExecuted == PathInv => AppliedWasExecuted
<1> SUFFICES ASSUME PathInv PROVE AppliedWasExecuted
  OBVIOUS
<1>1. ASSUME NEW id \in DOMAIN log, log[id].state = "applied"
      PROVE  Message(log[id]) \in Executed
  <2>1. log[id] \in Command BY DEF PathInv, TrackerInv, TypeOK
  <2> QED BY <1>1, <2>1, FiledApplied DEF PathInv, RowsOfAllLives
<1> QED BY <1>1 DEF AppliedWasExecuted, PathInv, AppliedInTracker

LEMMA ChannelInvHolds == ChannelSpec => []PathInv
<1>1. PathInv /\ [ChannelNext]_<<vars, channel>> => PathInv' BY ChannelNextInd
<1> QED BY <1>1, PathInit, PTL DEF ChannelSpec

(* The service that the rest of the path surrounds behaves like the one    *)
(* the service is by itself (CommandService), so what is proved of that -  *)
(* TypeOK, IdsUnique, RecordConsistent, LogNeverAhead, NeverBackwards -    *)
(* holds on the path.  In particular no ack ever comes for a command that  *)
(* was not handed over.                                                    *)
THEOREM PathContainsService == ChannelSpec => Spec
<1>1. ChannelInit => Init BY DEF ChannelInit
<1>2. PathInv /\ [ChannelNext]_<<vars, channel>> => [Next]_vars BY ChannelNextInd
<1> QED BY <1>1, <1>2, ChannelInvHolds, PTL DEF ChannelSpec, Spec

(* A command that the tracker or a row of command_log has as applied was   *)
(* executed by its vehicle, in any number of lives of the service          *)
(* (handleAck, newPersister, newID), unless a crash and a restart fit in   *)
(* one second.                                                             *)
THEOREM AppliedIsTrue ==
  ASSUME ~ FastRestart
  PROVE  RestartSpec => []AppliedWasExecuted
<1> DEFINE RestartNext == \/ ChannelNext
                          \/ \E m \in acks : AckUnknown(m)
                          \/ Restart
<1>1. PathInv /\ [RestartNext]_<<vars, channel>> => PathInv'
  BY ChannelNextInd, AckUnknownInd, RestartInd
<1>2. RestartSpec => []PathInv BY <1>1, PathInit, PTL DEF RestartSpec
<1> QED BY <1>2, PathAppliedWasExecuted, PTL


-----------------------------------------------------------------------------
(* One life of the service: LifeInv, and the implementation of             *)
(* CommandDelivery.                                                        *)

(* Messages come from commands in the tracker only. *)
LEMMA NewMessages ==
  ASSUME PathInv, [ChannelNext]_<<vars, channel>>, NEW m \in UnderWay' \cup Executed'
  PROVE  m \in UnderWay \cup Executed \/ Genuine(m)'
<1>1. ASSUME NEW h \in Handlers, HandOver(h)
      PROVE  m \in UnderWay \cup Executed \/ Genuine(m)'
  <2> DEFINE c == http[h].cmd
  <2>1. m \in UnderWay \cup Executed \/ m = Message(c)
    BY <1>1, CopiesKept DEF HandOver, UnderWay
  <2>2. http[h].pc # "idle" BY <1>1 DEF HandOver, Publish, PublishFails, Step
  <2>3. c \in Command /\ Filed(c)
    BY <2>2, HeldIsCommand DEF PathInv, TrackerInv, Held
  <2>4. Genuine(Message(c))
    BY <2>3, MessageType DEF Genuine, Filed, Earlier, Message, PathInv, TrackerInv, TypeOK
  <2>5. [Next]_vars BY <1>1, HandOverInd
  <2>6. CASE m = Message(c)
    <3>1. Genuine(m) BY <2>4, <2>6
    <3> QED BY <2>5, <3>1, GenuineStays DEF PathInv
  <2> QED BY <2>1, <2>6
<1>0. CopiesOK BY DEF PathInv
<1>2. ASSUME NEW n \in outbox, BrokerReceives(n) PROVE m \in UnderWay \cup Executed
  BY <1>0, <1>2, CopyForwarded DEF BrokerReceives, UnderWay
<1>3. ASSUME NEW n \in Messages, FleetReceives(n) PROVE m \in UnderWay \cup Executed
  BY <1>0, <1>3, CopyReceived DEF FleetReceives, UnderWay
<1>4. CASE FleetDisconnects
  BY <1>0, <1>4, CopiesDropped DEF FleetDisconnects, UnderWay
<1>5. CASE \/ ServiceAlone \/ FleetConnects \/ UNCHANGED <<vars, channel>>
           \/ \E n \in acks : \E a \in Ackers : AckArrives(a, n)
  <2>1. UNCHANGED <<outbox, sends, toFleet, executions>> /\ acks' \subseteq acks
    BY <1>5 DEF ServiceAlone, FleetConnects, AckArrives, channel
  <2> QED BY <2>1, CopiesKept DEF UnderWay
<1> QED BY <1>1, <1>2, <1>3, <1>4, <1>5 DEF ChannelNext

LEMMA LifeInd ==
  ASSUME LifeInv, [ChannelNext]_<<vars, channel>>
  PROVE  LifeInv' /\ [Next]_vars
<1>1. PathInv' /\ [Next]_vars BY ChannelNextInd DEF LifeInv
<1>2. ASSUME NEW m \in UnderWay' \cup Executed' PROVE Genuine(m)'
  BY <1>1, NewMessages, GenuineStays DEF LifeInv, PathInv
<1>3. DOMAIN cmds' \subseteq (1 .. LastIssue) \X (1 .. MaxSeq)
  BY <1>1, NextEffect, TimeAssumption DEF LifeInv, PathInv, TrackerInv, TypeOK, newID
<1>4. (\A m \in UnderWay \cup Executed : Genuine(m))' BY <1>2 DEF Genuine
<1> QED BY <1>1, <1>3, <1>4 DEF LifeInv

LEMMA LifeHolds == ChannelSpec => []LifeInv
<1>1. ChannelInit => LifeInv
  BY PathInit, NoCopiesYet DEF ChannelInit, Init, LifeInv, UnderWay
<1>2. LifeInv /\ [ChannelNext]_<<vars, channel>> => LifeInv' BY LifeInd
<1> QED BY <1>1, <1>2, PTL DEF ChannelSpec

(* The reports of CommandDelivery, as a function of the tracker. *)
Issued == {Message(cmds[id]) : id \in DOMAIN cmds}

Reports == [m \in Issued |-> cmds[m.id].state]

After ==
  [s \in States |-> {t \in States : Stage[t] > Stage[s]}
                       \ (IF s = "pending" THEN {"undelivered"} ELSE {})]

LEMMA IssuedFacts ==
  ASSUME TrackerInv
  PROVE  /\ \A id \in DOMAIN cmds :
              Message(cmds[id]) \in Issued /\ Message(cmds[id]).id = id
         /\ \A m \in Issued :
              m.id \in DOMAIN cmds /\ m = Message(cmds[m.id]) /\ m.body = cmds[m.id].body
         /\ \A m : Genuine(m) <=> m \in Issued /\ m.id \in DOMAIN cmds
BY MessageType DEF Issued, Genuine, TrackerInv, TypeOK

(* A command that is not marked sent is not flagged: the sweep asks for    *)
(* its sentAt.                                                             *)
LEMMA PendingIsNotSwept ==
  ASSUME TrackerInv, [Next]_vars, NEW id \in DOMAIN cmds, cmds[id].state = "pending"
  PROVE  cmds'[id].state # "undelivered"
<1> USE DEF TrackerInv
<1>1. cmds[id] \in Command /\ cmds[id].sentAt = Nil
  BY DEF TypeOK, RecordConsistent, Consistent
<1>2. CASE UNCHANGED cmds BY <1>2
<1>3. ASSUME NEW h \in Handlers, MarkSent(h) PROVE cmds'[id].state # "undelivered"
  BY <1>1, <1>3 DEF MarkSent, Sent, Command
<1>4. CASE SweepUndelivered
  BY <1>1, <1>4 DEF SweepUndelivered, Expired
<1>5. ASSUME NEW a \in Ackers, NEW i \in published, NEW s \in {"acked", "applied"},
             Ack(a, i, s)
      PROVE  cmds'[id].state # "undelivered"
  BY <1>1, <1>5 DEF Ack, Acked, Command
<1>6. ASSUME NEW h \in Handlers, NEW body \in Requests, Create(h, body)
      PROVE  cmds'[id].state # "undelivered"
  BY <1>1, <1>6, NextEffect DEF Create, Put, Next
<1> QED
  BY <1>2, <1>3, <1>4, <1>5, <1>6
  DEF Next, ServiceStep, HandlerStep, EmitCreated, Publish, PublishFails,
      EmitSent, EmitAck, EmitSwept, Tick, vars

LEMMA DeliveryStarts == ChannelInit => Delivery!Init
<1> SUFFICES ASSUME ChannelInit PROVE Delivery!Init
  OBVIOUS
<1>1. cmds = <<>> /\ Executed = {} BY NoCopiesYet DEF ChannelInit, Init
<1> QED BY <1>1 DEF Delivery!Init


(* Creating a command issues it. *)
LEMMA DeliveryIssues ==
  ASSUME LifeInv, NEW h \in Handlers, NEW body \in Requests, Create(h, body),
         UNCHANGED Executed, LifeInv'
  PROVE  \E c \in Messages : Delivery!Issue(c)
<1>0. PICK m : m = Message(NewCommand(body)) OBVIOUS
<1>1. TrackerInv /\ TrackerInv' BY DEF LifeInv, PathInv
<1>2. /\ newID \notin DOMAIN cmds
      /\ DOMAIN cmds' = DOMAIN cmds \cup {newID}
      /\ cmds'[newID] = NewCommand(body)
      /\ \A id \in DOMAIN cmds : cmds'[id] = cmds[id]
  BY <1>1, NextEffect DEF Create, Put, Next
<1>3. m = [id |-> newID, body |-> body] /\ NewCommand(body).state = "pending"
  BY <1>0 DEF Message, NewCommand
<1>4. newID \in (1 .. LastIssue) \X (1 .. MaxSeq) BY <1>2 DEF LifeInv
<1>5. m \in Messages BY <1>3, <1>4 DEF Messages
<1>6. m \notin Issued BY <1>1, <1>2, <1>3, IssuedFacts
<1>7. Issued' = Issued \cup {m}
  BY <1>0, <1>2 DEF Issued, Message
<1>8. Reports' = [d \in Issued \cup {m} |-> IF d = m THEN "pending" ELSE Reports[d]]
  <2>1. \A d \in Issued : d.id \in DOMAIN cmds BY <1>1, IssuedFacts
  <2> QED BY <1>2, <1>3, <1>7, <2>1 DEF Reports
<1>9. Delivery!Issue(m)
  BY <1>6, <1>8 DEF Delivery!Issue, Reports, Issued
<1> QED BY <1>5, <1>9

(* All other steps of the service report, in the sense of CommandDelivery, *)
(* on any number of commands.                                              *)
LEMMA DeliveryReports ==
  ASSUME LifeInv, LifeInv', [Next]_vars, DOMAIN cmds' = DOMAIN cmds, UNCHANGED Executed
  PROVE  Delivery!Report
<1>1. TrackerInv /\ TrackerInv' /\ Grows BY NextInd DEF LifeInv, PathInv
<1>2. Issued' = Issued
  <2>1. \A id \in DOMAIN cmds : Message(cmds'[id]) = Message(cmds[id])
    BY <1>1, MessagesStay
  <2>2. Issued' = {Message(cmds'[id]) : id \in DOMAIN cmds'} BY DEF Issued, Message
  <2> QED BY <2>1, <2>2 DEF Issued
<1>3. Reports' = [m \in Issued |-> cmds'[m.id].state] BY <1>2 DEF Reports
<1>4. ASSUME NEW m \in Issued
      PROVE  /\ cmds'[m.id].state \in States
             /\ cmds'[m.id].state # cmds[m.id].state =>
                  cmds'[m.id].state \in After[cmds[m.id].state]
             /\ cmds'[m.id].state = "applied" => m \in Executed
  <2>1. m.id \in DOMAIN cmds /\ m = Message(cmds[m.id]) BY <1>1, IssuedFacts
  <2>2. cmds[m.id] \in Command /\ cmds'[m.id] \in Command /\ m.id \in DOMAIN cmds'
    BY <1>1, <2>1 DEF TrackerInv, TypeOK
  <2>3. Stage[cmds[m.id].state] <= Stage[cmds'[m.id].state]
    BY <1>1, <2>1 DEF Grows, Earlier
  <2>4. cmds'[m.id].state # cmds[m.id].state =>
          Stage[cmds'[m.id].state] > Stage[cmds[m.id].state]
    BY <2>2, <2>3, StageValues DEF Command, States
  <2>5. cmds[m.id].state = "pending" => cmds'[m.id].state # "undelivered"
    BY <1>1, <2>1, PendingIsNotSwept
  <2>6. cmds'[m.id].state = "applied" => m \in Executed
    BY <1>1, <2>1, <2>2, MessagesStay DEF LifeInv, PathInv, AppliedInTracker, Message
  <2> QED BY <2>2, <2>4, <2>5, <2>6 DEF After, Command
<1>5. Reports' \in [Issued -> States] BY <1>3, <1>4
<1>6. \A m \in Issued :
        /\ Reports'[m] # Reports[m] => Reports'[m] \in After[Reports[m]]
        /\ Reports'[m] = "applied" => m \in Executed
  BY <1>3, <1>4 DEF Reports
<1> QED BY <1>5, <1>6 DEF Delivery!Report, Reports, Issued, After

LEMMA DeliverySteps ==
  ASSUME LifeInv, [ChannelNext]_<<vars, channel>>
  PROVE  [Delivery!Next]_(Delivery!vars)
<1>1. LifeInv' /\ [Next]_vars BY LifeInd
<1>2. CASE UNCHANGED Executed /\ DOMAIN cmds' = DOMAIN cmds
  BY <1>1, <1>2, DeliveryReports DEF Delivery!Next
<1>3. ASSUME NEW m \in Messages, FleetReceives(m), Executed' # Executed
      PROVE  Delivery!Next
  <2>0. CopiesOK BY DEF LifeInv, PathInv
  <2>1. UNCHANGED cmds BY <1>3 DEF FleetReceives, vars
  <2>2. /\ Executed \subseteq Executed' /\ Executed' \subseteq Executed \cup {m}
        /\ m \in Forwarded
    BY <1>3, <2>0, CopyReceived
  <2>3. Executed' = Executed \cup {m} BY <1>3, <2>2
  <2>4. Genuine(m) BY <2>2 DEF LifeInv, UnderWay
  <2>5. m \in Issued BY <2>4, IssuedFacts DEF LifeInv, PathInv
  <2>6. UNCHANGED Reports BY <2>1 DEF Reports, Issued, Message
  <2>7. Delivery!Execute(m)
    BY <2>3, <2>5, <2>6 DEF Delivery!Execute, Reports, Issued
  <2> QED BY <2>7 DEF Delivery!Next
<1>4. ASSUME NEW h \in Handlers, NEW body \in Requests, Create(h, body),
             UNCHANGED Executed
      PROVE  Delivery!Next
  <2>1. \E c \in Messages : Delivery!Issue(c) BY <1>1, <1>4, DeliveryIssues
  <2> QED BY <2>1 DEF Delivery!Next
<1>5. CASE Executed' # Executed
  <2>1. executions' # executions BY <1>5 DEF Executed
  <2>2. \E m \in Messages : FleetReceives(m)
    BY <2>1
    DEF ChannelNext, HandOver, ServiceAlone, AckArrives, BrokerReceives,
        FleetDisconnects, FleetConnects, channel
  <2> QED BY <1>3, <1>5, <2>2
<1>6. CASE UNCHANGED Executed /\ DOMAIN cmds' # DOMAIN cmds
  <2>1. \E h \in Handlers, body \in Requests : Create(h, body)
    BY <1>1, <1>6
    DEF Next, ServiceStep, HandlerStep, EmitCreated, Publish, PublishFails, MarkSent,
        EmitSent, EmitAck, SweepUndelivered, EmitSwept, Ack, Tick, vars
  <2> QED BY <1>4, <1>6, <2>1
<1> QED BY <1>2, <1>5, <1>6

(* The command path implements CommandDelivery: through any interleaving   *)
(* of goroutines, duplicated and lost messages and a fleet that comes and  *)
(* goes, reports follow one another in the right order and "applied" only  *)
(* follows the execution.                                                  *)
THEOREM PathKeepsPromise == ChannelSpec => DeliveryPromise
<1>1. LifeInv /\ [ChannelNext]_<<vars, channel>> => [Delivery!Next]_(Delivery!vars)
  BY DeliverySteps
<1> QED
  BY <1>1, DeliveryStarts, LifeHolds, PTL DEF ChannelSpec, DeliveryPromise, Delivery!Spec

-----------------------------------------------------------------------------
(* The operator's end. *)

LEMMA ProxyContainsPath == ProxySpec => ChannelSpec
<1>1. ProxyInit => ChannelInit BY DEF ProxyInit
<1>2. [ProxyNext]_<<vars, channel, operator>> => [ChannelNext]_<<vars, channel>>
  BY DEF ProxyNext, GiveUp
<1> QED BY <1>1, <1>2, PTL DEF ProxySpec, ChannelSpec

(* How a handler gets to where its message has been handed over. *)
LEMMA HandlerSteps ==
  ASSUME TrackerInv, [Next]_vars, NEW h \in Handlers, http'[h].pc \in {"wait", "marked"}
  PROVE  \/ http'[h] = http[h]
         \/ Publish(h)
         \/ MarkSent(h) /\ http[h].cmd.id \in DOMAIN cmds
<1> USE DEF TrackerInv
<1>1. ASSUME NEW g \in Handlers, HandlerStep(g), g # h PROVE http'[h] = http[h]
  BY <1>1
  DEF HandlerStep, EmitCreated, Publish, PublishFails, MarkSent, EmitSent, Step, TypeOK
<1>2. ASSUME HandlerStep(h) PROVE Publish(h) \/ MarkSent(h)
  BY <1>2 DEF HandlerStep, EmitCreated, PublishFails, EmitSent, Step, TypeOK
<1>3. ASSUME NEW g \in Handlers, NEW body \in Requests, Create(g, body)
      PROVE  http'[h] = http[h]
  BY <1>3 DEF Create, Step, TypeOK
<1>4. MarkSent(h) => http[h].cmd.id \in DOMAIN cmds
  BY DEF MarkSent, Step, Held, Filed
<1>5. CASE UNCHANGED http BY <1>5
<1> QED
  BY <1>1, <1>2, <1>3, <1>4, <1>5
  DEF Next, ServiceStep, EmitAck, SweepUndelivered, EmitSwept, Ack, Tick, vars

LEMMA NotPendingStays ==
  ASSUME TrackerInv, [Next]_vars, NEW id \in DOMAIN cmds, cmds[id].state # "pending"
  PROVE  id \in DOMAIN cmds' /\ cmds'[id].state # "pending"
<1>1. TrackerInv' /\ Grows BY NextInd
<1>2. id \in DOMAIN cmds' /\ Stage[cmds[id].state] <= Stage[cmds'[id].state]
  BY <1>1 DEF Grows, Earlier
<1>3. cmds[id].state \in States BY DEF TrackerInv, TypeOK, Command
<1> QED BY <1>2, <1>3, StageValues DEF States

(* SentInv is inductive: a handler that is past its publish has handed its *)
(* message over, and past MarkSent its command is not pending.             *)
LEMMA SentInd ==
  ASSUME LifeInv, SentInv, [ProxyNext]_<<vars, channel, operator>>
  PROVE  SentInv'
<1>1. TrackerInv /\ TrackerInv' /\ [Next]_vars
  BY LifeInd DEF ProxyNext, GiveUp, LifeInv, PathInv
<1>2. ASSUME NEW h \in Handlers, http'[h].pc \in {"wait", "marked"}
      PROVE  /\ http'[h].cmd.id \in published'
             /\ http'[h].pc = "marked" => cmds'[http'[h].cmd.id].state # "pending"
  <2>1. CASE http'[h] = http[h]
    <3>1. http[h].cmd.id \in DOMAIN cmds
      BY <1>1, <1>2, <2>1 DEF TrackerInv, Held, Filed
    <3> QED BY <1>1, <1>2, <2>1, <3>1, NextEffect, NotPendingStays DEF SentInv
  <2>2. CASE Publish(h)
    BY <1>1, <2>2 DEF Publish, Step, TrackerInv, TypeOK
  <2>3. CASE MarkSent(h) /\ http[h].cmd.id \in DOMAIN cmds
    <3> DEFINE c == cmds[http[h].cmd.id]
    <3>1. c \in Command /\ c.id = http[h].cmd.id /\ http[h].cmd.id \in published
      BY <1>1, <2>3 DEF TrackerInv, TypeOK, MarkSent, Step, SentInv
    <3>2. http'[h].cmd = Sent(c) /\ cmds'[c.id] = Sent(c) /\ published' = published
      BY <1>1, <2>3, <3>1 DEF MarkSent, Step, TrackerInv, TypeOK
    <3>3. Sent(c).id = c.id /\ Sent(c).state # "pending" BY <3>1 DEF Sent, Command
    <3> QED BY <3>1, <3>2, <3>3
  <2> QED BY <1>1, <1>2, <2>1, <2>2, <2>3, HandlerSteps
<1>3. ASSUME NEW m, m \in Envelope, Genuine(m), m.id \in published,
             cmds[m.id].state # "pending"
      PROVE  Genuine(m)' /\ m.id \in published' /\ cmds'[m.id].state # "pending"
  BY <1>1, <1>3, GenuineStays, NextEffect, NotPendingStays DEF Genuine
<1>4. ASSUME NEW m \in told' \ told
      PROVE  /\ m \in Envelope /\ Genuine(m) /\ m.id \in published
             /\ cmds[m.id].state # "pending"
  <2>1. PICK h \in Handlers : http[h].pc = "marked" /\ m = Message(http[h].cmd)
    BY <1>4 DEF ProxyNext, OperatorSees, Relayed, Accepted, GiveUp, operator
  <2>2. http[h].cmd \in Command /\ Filed(http[h].cmd)
    BY <1>1, <2>1, HeldIsCommand DEF TrackerInv, Held
  <2>3. m \in Envelope /\ m.id = http[h].cmd.id BY <2>1, <2>2, MessageType
  <2>4. Genuine(m)
    BY <1>1, <2>1, <2>2, <2>3 DEF Genuine, Filed, Earlier, Message, TrackerInv, TypeOK
  <2> QED BY <2>1, <2>3, <2>4 DEF SentInv
<1>5. ASSUME NEW m \in told'
      PROVE  /\ m \in Envelope /\ Genuine(m)' /\ m.id \in published'
             /\ cmds'[m.id].state # "pending"
  BY <1>3, <1>4, <1>5 DEF SentInv
<1>6. (told \subseteq Envelope)' BY <1>5 DEF Envelope
<1>7. (\A m \in told : Genuine(m) /\ m.id \in published /\ cmds[m.id].state # "pending")'
  BY <1>5 DEF Genuine
<1> QED BY <1>2, <1>6, <1>7 DEF SentInv

(* The operator is told "Sent" only of a command that was handed over and  *)
(* that the service knows as sent or further: handleCommandProxy relays a  *)
(* 202 only once handleCreate is through its last write.                   *)
THEOREM SentIsNoGuess == ProxySpec => []SentIsTrue
<1>1. ProxyInit => SentInv
  BY DEF ProxyInit, ChannelInit, Init, SentInv
<1>2. LifeInv /\ SentInv /\ [ProxyNext]_<<vars, channel, operator>> => SentInv'
  BY SentInd
<1>3. SentInv => SentIsTrue BY DEF SentInv, SentIsTrue, Genuine
<1> QED BY <1>1, <1>2, <1>3, ProxyContainsPath, LifeHolds, PTL DEF ProxySpec

(* AskedInv is inductive: creating a command and beginning a request are   *)
(* the same step.                                                          *)
LEMMA AskedInd ==
  ASSUME LifeInv, AskedInv, [ProxyNext]_<<vars, channel, operator>>
  PROVE  AskedInv'
<1>1. TrackerInv /\ TrackerInv' /\ [Next]_vars /\ Grows
  BY LifeInd, NextInd DEF ProxyNext, GiveUp, LifeInv, PathInv
<1> SUFFICES ASSUME NEW body \in Requests
             PROVE  /\ IsFiniteSet(CommandsOf(body)')
                    /\ Cardinality(CommandsOf(body)') = posts'[body]
  BY DEF AskedInv
<1>2. IsFiniteSet(CommandsOf(body)) /\ Cardinality(CommandsOf(body)) = posts[body]
  BY DEF AskedInv
<1> DEFINE begun == {h \in Handlers : Begins(h) /\ http'[h].cmd.body = body}
<1>3. ASSUME NEW h \in Handlers, NEW b \in Requests, Create(h, b), OperatorSees
      PROVE  /\ IsFiniteSet(CommandsOf(body)')
             /\ Cardinality(CommandsOf(body)') = posts'[body]
  <2>1. /\ newID \notin DOMAIN cmds
        /\ CommandsOf(body)' = CommandsOf(body) \cup (IF b = body THEN {newID} ELSE {})
    BY <1>1, <1>3, NextEffect DEF CommandsOf, Create, Put, NewCommand
  <2>2. begun = IF b = body THEN {h} ELSE {}
    BY <1>1, <1>3 DEF Begins, Create, Step, NewCommand, TrackerInv, TypeOK
  <2>3. posts'[body] = posts[body] + Cardinality(begun) BY <1>3 DEF OperatorSees
  <2>4. CASE b = body
    <3>1. newID \notin CommandsOf(body) BY <2>1 DEF CommandsOf
    <3>2. Cardinality(begun) = 1 BY <2>2, <2>4, FS_Singleton
    <3> QED BY <1>2, <2>1, <2>3, <2>4, <3>1, <3>2, FS_AddElement
  <2>5. CASE b # body
    <3>1. Cardinality(begun) = 0 BY <2>2, <2>5, FS_EmptySet
    <3>2. Cardinality(CommandsOf(body)) \in Nat BY <1>2, FS_CardinalityType
    <3> QED BY <1>2, <2>1, <2>3, <2>5, <3>1, <3>2
  <2> QED BY <2>4, <2>5
<1>4. CASE ~ \E h \in Handlers, b \in Requests : Create(h, b)
  <2>1. DOMAIN cmds' = DOMAIN cmds
    BY <1>1, <1>4
    DEF Next, ServiceStep, HandlerStep, EmitCreated, Publish, PublishFails, MarkSent,
        EmitSent, EmitAck, SweepUndelivered, EmitSwept, Ack, Tick, vars
  <2>2. CommandsOf(body)' = CommandsOf(body)
    BY <1>1, <2>1 DEF CommandsOf, Grows, Earlier
  <2>3. begun = {}
    BY <1>1, <1>4
    DEF Begins, Next, ServiceStep, HandlerStep, EmitCreated, Publish, PublishFails,
        MarkSent, EmitSent, EmitAck, SweepUndelivered, EmitSwept, Ack, Tick, vars,
        Step, TrackerInv, TypeOK
  <2>4. Cardinality(begun) = 0 BY <2>3, FS_EmptySet
  <2>5. posts[body] \in Nat BY <1>2, FS_CardinalityType
  <2>6. posts'[body] = posts[body]
    BY <2>4, <2>5 DEF ProxyNext, OperatorSees, GiveUp, operator
  <2> QED BY <1>2, <2>2, <2>6
<1>5. CASE \E h \in Handlers, b \in Requests : Create(h, b)
  <2>1. http' # http
    BY <1>1, <1>5 DEF Create, Step, TrackerInv, TypeOK
  <2>2. OperatorSees BY <2>1 DEF ProxyNext, GiveUp, vars
  <2> QED BY <1>3, <1>5, <2>2
<1> QED BY <1>4, <1>5

(* Executed messages are messages of commands, and different ones of       *)
(* different commands.                                                     *)
LEMMA ExecutedAreCommands ==
  ASSUME LifeInv, AskedInv
  PROVE  ExecutedWasAsked
<1>0. ASSUME NEW m \in Messages PROVE executions[m] <= sends[m]
  <2>1. /\ executions[m] \in Nat /\ toFleet[m] \in Nat /\ sends[m] \in Nat
        /\ executions[m] + toFleet[m] <= sends[m]
    BY DEF LifeInv, PathInv, CopiesOK
  <2> QED BY <2>1
<1> SUFFICES ASSUME NEW body \in Requests
             PROVE  Cardinality({m \in Executed : m.body = body}) <= posts[body]
  BY <1>0 DEF ExecutedWasAsked
<1> DEFINE done == {m \in Executed : m.body = body}
           idOf == [m \in done |-> m.id]
<1>1. ASSUME NEW m \in done PROVE m.id \in CommandsOf(body) /\ m = Message(cmds[m.id])
  BY <1>1, MessageType
  DEF LifeInv, PathInv, TrackerInv, TypeOK, Genuine, CommandsOf, Message
<1>2. idOf \in Injection(done, CommandsOf(body))
  <2>1. idOf \in [done -> CommandsOf(body)] BY <1>1
  <2>2. ASSUME NEW m \in done, NEW n \in done, idOf[m] = idOf[n] PROVE m = n
    BY <1>1, <2>2
  <2> QED BY <2>1, <2>2 DEF Injection, IsInjective
<1>3. IsFiniteSet(CommandsOf(body)) /\ Cardinality(CommandsOf(body)) = posts[body]
  BY DEF AskedInv
<1> QED BY <1>2, <1>3, FS_Injection

(* Vehicles execute at most one command per post of the operator, whatever *)
(* timed out or failed halfway (handleCommandProxy, handleCreate, newID),  *)
(* and each command at most as often as the service's client sent it: a    *)
(* command executed twice (on_message) was resent.                         *)
THEOREM ExecutedOnRequest == ProxySpec => []ExecutedWasAsked
<1>1. ASSUME ProxyInit PROVE AskedInv
  <2>1. ASSUME NEW body \in Requests PROVE CommandsOf(body) = {} /\ posts[body] = 0
    BY <1>1 DEF ProxyInit, ChannelInit, Init, CommandsOf
  <2> QED BY <2>1, FS_EmptySet DEF AskedInv
<1>2. LifeInv /\ AskedInv /\ [ProxyNext]_<<vars, channel, operator>> => AskedInv'
  BY AskedInd
<1> QED
  BY <1>1, <1>2, ExecutedAreCommands, ProxyContainsPath, LifeHolds, PTL DEF ProxySpec

=============================================================================

------------------------ MODULE CommandServiceProofs ------------------------
(***************************************************************************)
(* Proofs about the command service, for any number of goroutines, any     *)
(* timeout and any number of commands.                                     *)
(*                                                                         *)
(* TrackerInv is the inductive invariant.  It says nothing of the rows of  *)
(* command_log, which outlive the tracker.  A row is only ever a snapshot  *)
(* that a goroutine held: LogSteps says so of every step, and LogNeverAhead*)
(* follows.                                                                *)
(***************************************************************************)
EXTENDS CommandService, TLAPS

(* The snapshots that goroutines hold were all in the tracker. *)
Held ==
  /\ \A h \in Handlers : http[h].pc # "idle" => Filed(http[h].cmd)
  /\ \A a \in Ackers : ackers[a] # None => Filed(ackers[a])
  /\ \A c \in sweep : Filed(c)
  /\ published \subseteq DOMAIN cmds

TrackerInv == TypeOK /\ IdsUnique /\ RecordConsistent /\ Held

Rows == \A id \in DOMAIN log : Filed(log[id])

LEMMA LogNeverAheadParts == LogNeverAhead <=> Rows /\ Held
BY DEF LogNeverAhead, Rows, Held

-----------------------------------------------------------------------------
(* What the tracker's updates do to one command.                           *)

LEMMA StageValues ==
  /\ Stage["pending"] = 0 /\ Stage["sent"] = 1 /\ Stage["undelivered"] = 2
  /\ Stage["acked"] = 3 /\ Stage["applied"] = 4
BY DEF Stage, States

LEMMA EarlierRefl ==
  ASSUME NEW c \in Command
  PROVE  Earlier(c, c)
BY StageValues DEF Earlier, Command, States

LEMMA EarlierTrans ==
  ASSUME NEW c \in Command, NEW d \in Command, NEW e \in Command,
         Earlier(c, d), Earlier(d, e)
  PROVE  Earlier(c, e)
BY StageValues DEF Earlier, Command, States, Nil

LEMMA SentFacts ==
  ASSUME NEW c \in Command, now \in Nat \ {0}, AckTimeout \in Nat, Consistent(c)
  PROVE  /\ Sent(c) \in Command
         /\ Sent(c).id = c.id
         /\ Earlier(c, Sent(c))
         /\ Consistent(Sent(c))
<1>1. CASE c.state = "pending"
  <2>1. /\ Sent(c) \in Command
        /\ Sent(c).id = c.id /\ Sent(c).body = c.body
        /\ Sent(c).state = "sent" /\ Sent(c).sentAt = now
        /\ Sent(c).ackedAt = c.ackedAt /\ Sent(c).appliedAt = c.appliedAt
    BY <1>1 DEF Sent, Command, States
  <2>2. Earlier(c, Sent(c))
    BY <1>1, <2>1, StageValues DEF Earlier, Consistent, Command, Nil
  <2>3. Consistent(Sent(c))
    BY <1>1, <2>1 DEF Consistent, Command, Nil
  <2> QED BY <2>1, <2>2, <2>3
<1>2. CASE c.state # "pending"
  BY <1>2, EarlierRefl DEF Sent
<1> QED BY <1>1, <1>2

LEMMA AckedFacts ==
  ASSUME NEW c \in Command, now \in Nat \ {0}, AckTimeout \in Nat, Consistent(c),
         NEW s \in {"acked", "applied"}
  PROVE  /\ Acked(c, s) \in Command
         /\ Acked(c, s).id = c.id
         /\ Earlier(c, Acked(c, s))
         /\ Consistent(Acked(c, s))
<1> DEFINE d == Acked(c, s)
<1>1. /\ d \in Command
      /\ d.id = c.id /\ d.body = c.body /\ d.sentAt = c.sentAt
      /\ d.ackedAt = FirstAck(c)
      /\ d.state = IF s = "applied" \/ c.state = "applied" THEN "applied" ELSE "acked"
      /\ d.appliedAt = IF s = "applied" THEN now ELSE c.appliedAt
  BY DEF Acked, FirstAck, Command, States
<1>2. FirstAck(c) \in Nat \ {0} /\ c.ackedAt \in {Nil, FirstAck(c)}
  BY DEF FirstAck, Command, Nil
<1>3. Earlier(c, d)
  BY <1>1, <1>2, StageValues DEF Earlier, Consistent, Command, States, Nil
<1>4. Consistent(d)
  BY <1>1, <1>2 DEF Consistent, FirstAck, Command, States, Nil
<1> QED BY <1>1, <1>3, <1>4

LEMMA UndeliveredFacts ==
  ASSUME NEW c \in Command, now \in Nat \ {0}, AckTimeout \in Nat,
         Consistent(c), Expired(c)
  PROVE  /\ Undelivered(c) \in Command
         /\ Undelivered(c).id = c.id
         /\ Earlier(c, Undelivered(c))
         /\ Consistent(Undelivered(c))
<1>1. /\ Undelivered(c) \in Command
      /\ Undelivered(c).id = c.id /\ Undelivered(c).body = c.body
      /\ Undelivered(c).sentAt = c.sentAt /\ Undelivered(c).ackedAt = c.ackedAt
      /\ Undelivered(c).appliedAt = c.appliedAt /\ Undelivered(c).state = "undelivered"
  BY DEF Undelivered, Command, States
<1>2. Earlier(c, Undelivered(c))
  BY <1>1, StageValues DEF Expired, Earlier, Command, Nil
<1>3. Consistent(Undelivered(c))
  BY <1>1 DEF Expired, Consistent, Command, Nil
<1> QED BY <1>1, <1>2, <1>3

-----------------------------------------------------------------------------
(* Facts about the tables that several actions share.                      *)

LEMMA InitInd == Init => TrackerInv
BY TimeAssumption, NoneAssumption
DEF Init, TrackerInv, TypeOK, IdsUnique, RecordConsistent, Held

(* A snapshot stays a past of its command as long as commands only grow.   *)
LEMMA FiledGrows ==
  ASSUME TypeOK, TypeOK', Grows, NEW c \in Command, Filed(c)
  PROVE  c.id \in DOMAIN cmds' /\ Earlier(c, cmds'[c.id])
<1>1. c.id \in DOMAIN cmds /\ Earlier(c, cmds[c.id]) BY DEF Filed
<1>2. c.id \in DOMAIN cmds' /\ Earlier(cmds[c.id], cmds'[c.id]) BY <1>1 DEF Grows
<1>3. cmds[c.id] \in Command /\ cmds'[c.id] \in Command BY <1>1, <1>2 DEF TypeOK
<1> QED BY <1>1, <1>2, <1>3, EarlierTrans

(* What a step may do to the row of a command: it is left alone or gets a  *)
(* snapshot of the command.  The upsert keeps the body a row has.          *)
Rewritten(id, c) ==
  c.id = id /\ log'[id] = IF id \in DOMAIN log THEN [c EXCEPT !.body = log[id].body] ELSE c

Kept(id) == id \in DOMAIN log /\ log'[id] = log[id]

LEMMA EmitFacts ==
  ASSUME TypeOK, NEW c \in Command, emit(c)
  PROVE  /\ DOMAIN log' \subseteq Id
         /\ \A id \in DOMAIN log' :
              /\ log'[id] \in Command /\ log'[id].id = id
              /\ Kept(id) \/ Rewritten(id, c)
<1>1. CASE UNCHANGED log BY <1>1 DEF TypeOK, Kept
<1>2. CASE log' = Upsert(c)
  <2> DEFINE row == IF c.id \in DOMAIN log THEN [c EXCEPT !.body = log[c.id].body] ELSE c
  <2>1. c.id \in Id BY DEF Command
  <2>2. row \in Command /\ row.id = c.id BY DEF Command, TypeOK
  <2>3. /\ DOMAIN log' = DOMAIN log \cup {c.id}
        /\ \A id \in DOMAIN log' : log'[id] = IF id = c.id THEN row ELSE log[id]
    BY <1>2 DEF Upsert, Put
  <2> QED BY <2>1, <2>2, <2>3 DEF TypeOK, Kept, Rewritten
<1> QED BY <1>1, <1>2 DEF emit

(* The command an active goroutine holds is of type Command. *)
LEMMA HeldIsCommand ==
  ASSUME TypeOK, NEW h \in Handlers, http[h].pc # "idle"
  PROVE  http[h].cmd \in Command /\ http[h].cmd.id \in Id
BY DEF TypeOK, Command

(* A new command takes an id no other command has.                         *)
LEMMA CreateInd ==
  ASSUME TrackerInv, NEW h \in Handlers, NEW body \in Requests, Create(h, body)
  PROVE  TrackerInv' /\ Grows
<1> DEFINE c == NewCommand(body)
<1> USE DEF TrackerInv
<1>1. newID \in Id /\ newID[2] = seq + 1 /\ seq \in Nat /\ now \in Nat \ {0}
  BY DEF newID, Id, TypeOK
<1>2. /\ c \in Command /\ c.id = newID /\ c.state = "pending" /\ c.sentAt = 0
      /\ c.ackedAt = 0 /\ c.appliedAt = 0
  BY <1>1 DEF NewCommand, Command, States, Nil
<1>3. newID \notin DOMAIN cmds BY <1>1 DEF IdsUnique
<1>4. /\ seq' = seq + 1 /\ UNCHANGED <<now, ackers, sweep, published, log>>
      /\ http' = [http EXCEPT ![h] = [pc |-> "created", cmd |-> c]]
      /\ DOMAIN cmds' = DOMAIN cmds \cup {newID}
      /\ \A id \in DOMAIN cmds' : cmds'[id] = IF id = newID THEN c ELSE cmds[id]
  BY DEF Create, Step, Put
<1>5. Grows
  BY <1>3, <1>4, EarlierRefl DEF Grows, TypeOK
<1>6. TypeOK'
  BY <1>1, <1>2, <1>4 DEF TypeOK
<1>7. IdsUnique'
  <2>1. \A id \in DOMAIN cmds' : id[2] \in 1 .. seq'
    BY <1>1, <1>4 DEF IdsUnique
  <2>2. ASSUME NEW n \in 1 .. seq' PROVE \E id \in DOMAIN cmds' : id[2] = n
    BY <1>1, <1>4 DEF IdsUnique
  <2>3. ASSUME NEW i \in DOMAIN cmds', NEW j \in DOMAIN cmds', i[2] = j[2]
        PROVE  i = j
    BY <1>1, <1>4, <2>3 DEF IdsUnique
  <2> QED BY <2>1, <2>2, <2>3 DEF IdsUnique
<1>8. RecordConsistent'
  <2> SUFFICES ASSUME NEW id \in DOMAIN cmds' PROVE Consistent(cmds[id])'
    BY DEF RecordConsistent
  <2>1. CASE id = newID
    <3>1. cmds'[id] = c BY <1>4, <2>1
    <3> QED BY <3>1, <1>1, <1>2, <1>4 DEF Consistent, Nil
  <2>2. CASE id # newID
    <3>1. id \in DOMAIN cmds /\ cmds'[id] = cmds[id] BY <1>4, <2>2
    <3>2. Consistent(cmds[id]) BY <3>1 DEF RecordConsistent
    <3> QED BY <3>1, <3>2, <1>4 DEF Consistent
  <2> QED BY <2>1, <2>2
<1>9. Held'
  <2>1. \A d \in Command : Filed(d) => d.id \in DOMAIN cmds' /\ Earlier(d, cmds'[d.id])
    BY <1>5, <1>6, FiledGrows
  <2>2. c.id \in DOMAIN cmds' /\ Earlier(c, cmds'[c.id])
    BY <1>2, <1>4, EarlierRefl
  <2>3. ASSUME NEW g \in Handlers, http'[g].pc # "idle" PROVE Filed(http[g].cmd)'
    <3>1. CASE g = h
      <4>1. http'[g].cmd = c BY <3>1, <1>4 DEF TypeOK
      <4> QED BY <4>1, <2>2 DEF Filed
    <3>2. CASE g # h
      <4>1. http'[g] = http[g] BY <3>2, <1>4 DEF TypeOK
      <4>2. http[g].cmd \in Command /\ Filed(http[g].cmd)
        BY <4>1, <2>3, HeldIsCommand DEF Held
      <4> QED BY <4>1, <4>2, <2>1 DEF Filed
    <3> QED BY <3>1, <3>2
  <2>4. (\A a \in Ackers : ackers[a] # None => Filed(ackers[a]))'
    BY <1>4, <2>1 DEF Held, TypeOK, Filed
  <2>5. (\A d \in sweep : Filed(d))'
    BY <1>4, <2>1 DEF Held, TypeOK, Filed
  <2>6. (published \subseteq DOMAIN cmds)' BY <1>4 DEF Held
  <2> QED BY <2>1, <2>2, <2>3, <2>4, <2>5, <2>6 DEF Held
<1> QED BY <1>5, <1>6, <1>7, <1>8, <1>9

-----------------------------------------------------------------------------
(* The steps that write to command_log or move a snapshot on: the tracker  *)
(* itself does not change.                                                 *)

LEMMA QuietTracker ==
  ASSUME TrackerInv, UNCHANGED <<now, seq, cmds>>
  PROVE  IdsUnique' /\ RecordConsistent' /\ Grows
<1>1. IdsUnique' BY DEF TrackerInv, IdsUnique
<1>2. RecordConsistent' BY DEF TrackerInv, RecordConsistent, Consistent
<1>3. Grows BY EarlierRefl DEF Grows, TrackerInv, TypeOK
<1> QED BY <1>1, <1>2, <1>3

LEMMA HandlerMoves ==
  ASSUME TrackerInv, NEW h \in Handlers,
         UNCHANGED <<now, seq, cmds, ackers, sweep>>,
         http[h].pc # "idle",
         NEW pc \in {"created", "publish", "wait", "marked"},
         \/ http' = [http EXCEPT ![h] = [pc |-> "idle", cmd |-> None]]
         \/ http' = [http EXCEPT ![h] = [pc |-> pc, cmd |-> http[h].cmd]],
         log' = log \/ emit(http[h].cmd),
         published' \in {published, published \cup {http[h].cmd.id}}
  PROVE  TrackerInv' /\ Grows
<1> USE DEF TrackerInv
<1> DEFINE c == http[h].cmd
<1>1. c \in Command /\ c.id \in Id /\ Filed(c)
  BY HeldIsCommand DEF Held
<1>2. /\ DOMAIN log' \subseteq Id
      /\ \A id \in DOMAIN log' :
           log'[id] \in Command /\ log'[id].id = id
  <2>1. CASE log' = log BY <2>1 DEF TypeOK
  <2>2. CASE emit(c) BY <2>2, <1>1, EmitFacts
  <2> QED BY <2>1, <2>2
<1>3. IdsUnique' /\ RecordConsistent' /\ Grows BY QuietTracker
<1>4. TypeOK'
  BY <1>1, <1>2 DEF TypeOK
<1>5. Held'
  <2>1. ASSUME NEW g \in Handlers, http'[g].pc # "idle" PROVE Filed(http[g].cmd)'
    <3>1. http'[g].cmd = http[g].cmd /\ http[g].pc # "idle"
      BY <2>1 DEF TypeOK
    <3> QED BY <3>1 DEF Held, Filed
  <2>2. (\A a \in Ackers : ackers[a] # None => Filed(ackers[a]))'
    BY DEF Held, Filed
  <2>3. (\A d \in sweep : Filed(d))' BY DEF Held, Filed
  <2>4. (published \subseteq DOMAIN cmds)' BY <1>1 DEF Held, Filed
  <2> QED BY <2>1, <2>2, <2>3, <2>4 DEF Held
<1> QED BY <1>3, <1>4, <1>5

LEMMA EmitAckInd ==
  ASSUME TrackerInv, NEW a \in Ackers, EmitAck(a)
  PROVE  TrackerInv' /\ Grows
<1> USE DEF TrackerInv
<1>1. ackers[a] \in Command /\ Filed(ackers[a])
  BY DEF EmitAck, TypeOK, Held
<1>2. /\ DOMAIN log' \subseteq Id
      /\ \A id \in DOMAIN log' :
           log'[id] \in Command /\ log'[id].id = id
  BY <1>1, EmitFacts DEF EmitAck
<1>3. IdsUnique' /\ RecordConsistent' /\ Grows BY QuietTracker DEF EmitAck
<1>4. TypeOK' BY <1>2 DEF EmitAck, TypeOK
<1>5. Held' BY <1>2 DEF EmitAck, Held, Filed, TypeOK
<1> QED BY <1>3, <1>4, <1>5

LEMMA EmitSweptInd ==
  ASSUME TrackerInv, NEW c \in sweep, EmitSwept(c)
  PROVE  TrackerInv' /\ Grows
<1> USE DEF TrackerInv
<1>1. c \in Command /\ Filed(c) BY DEF TypeOK, Held
<1>2. /\ DOMAIN log' \subseteq Id
      /\ \A id \in DOMAIN log' :
           log'[id] \in Command /\ log'[id].id = id
  BY <1>1, EmitFacts DEF EmitSwept
<1>3. IdsUnique' /\ RecordConsistent' /\ Grows BY QuietTracker DEF EmitSwept
<1>4. TypeOK' BY <1>2 DEF EmitSwept, TypeOK
<1>5. Held' BY <1>2 DEF EmitSwept, Held, Filed
<1> QED BY <1>3, <1>4, <1>5

LEMMA TickInd ==
  ASSUME TrackerInv, Tick
  PROVE  TrackerInv' /\ Grows
<1> USE DEF TrackerInv
<1>1. now' = now + 1 /\ UNCHANGED <<seq, cmds, http, ackers, sweep, published, log>>
  BY DEF Tick
<1>2. TypeOK' BY <1>1 DEF TypeOK
<1>3. IdsUnique' BY <1>1 DEF IdsUnique
<1>4. RecordConsistent'
  <2> SUFFICES ASSUME NEW id \in DOMAIN cmds PROVE Consistent(cmds[id])'
    BY <1>1 DEF RecordConsistent
  <2>1. cmds[id] \in Command /\ Consistent(cmds[id]) BY DEF RecordConsistent, TypeOK
  <2> QED BY <1>1, <2>1, TimeAssumption DEF Consistent, Command, TypeOK
<1>5. Grows BY <1>1, EarlierRefl DEF Grows, TypeOK
<1>6. Held' BY <1>1 DEF Held, Filed
<1> QED BY <1>2, <1>3, <1>4, <1>5, <1>6

-----------------------------------------------------------------------------
(* The steps that update commands in place.                                *)

(* A step that replaces commands by later forms of themselves.             *)
LEMMA UpdatedTracker ==
  ASSUME TrackerInv, UNCHANGED <<now, seq>>, DOMAIN cmds' = DOMAIN cmds,
         \A id \in DOMAIN cmds :
           /\ cmds'[id] \in Command /\ cmds'[id].id = id
           /\ Earlier(cmds[id], cmds'[id]) /\ Consistent(cmds'[id])
  PROVE  /\ IdsUnique' /\ RecordConsistent' /\ Grows
         /\ (\A id \in DOMAIN cmds : cmds[id] \in Command /\ cmds[id].id = id)'
         /\ \A d \in Command : Filed(d) => d.id \in DOMAIN cmds' /\ Earlier(d, cmds'[d.id])
<1>1. IdsUnique' BY DEF TrackerInv, IdsUnique
<1>2. RecordConsistent' BY DEF RecordConsistent, Consistent
<1>3. Grows BY DEF Grows
<1>4. ASSUME NEW d \in Command, Filed(d)
      PROVE  d.id \in DOMAIN cmds' /\ Earlier(d, cmds'[d.id])
  <2>1. d.id \in DOMAIN cmds /\ Earlier(d, cmds[d.id]) BY <1>4 DEF Filed
  <2>2. cmds[d.id] \in Command BY <2>1 DEF TrackerInv, TypeOK
  <2> QED BY <2>1, <2>2, EarlierTrans
<1> QED BY <1>1, <1>2, <1>3, <1>4

LEMMA MarkSentInd ==
  ASSUME TrackerInv, NEW h \in Handlers, MarkSent(h)
  PROVE  TrackerInv' /\ Grows
<1> USE DEF TrackerInv
<1> DEFINE id == http[h].cmd.id
           c == Sent(cmds[id])
<1>1. /\ http[h].pc # "idle" /\ http' = [http EXCEPT ![h] = [pc |-> "marked", cmd |-> c]]
      /\ cmds' = [cmds EXCEPT ![id] = c]
      /\ UNCHANGED <<now, seq, ackers, sweep, published, log>>
  BY DEF MarkSent, Step
<1>2. id \in DOMAIN cmds /\ cmds[id] \in Command /\ cmds[id].id = id /\ Consistent(cmds[id])
  BY <1>1 DEF Held, Filed, TypeOK, RecordConsistent
<1>3. c \in Command /\ c.id = id /\ Earlier(cmds[id], c) /\ Consistent(c)
  BY <1>2, SentFacts, TimeAssumption DEF TypeOK
<1>4. DOMAIN cmds' = DOMAIN cmds BY <1>1
<1>5. ASSUME NEW i \in DOMAIN cmds
      PROVE  /\ cmds'[i] \in Command /\ cmds'[i].id = i
             /\ Earlier(cmds[i], cmds'[i]) /\ Consistent(cmds'[i])
  <2>1. CASE i = id BY <1>1, <1>2, <1>3, <2>1
  <2>2. CASE i # id
    BY <1>1, <2>2, EarlierRefl DEF TypeOK, RecordConsistent
  <2> QED BY <2>1, <2>2
<1>6. /\ IdsUnique' /\ RecordConsistent' /\ Grows
      /\ (\A i \in DOMAIN cmds : cmds[i] \in Command /\ cmds[i].id = i)'
      /\ \A d \in Command : Filed(d) => d.id \in DOMAIN cmds' /\ Earlier(d, cmds'[d.id])
  BY <1>1, <1>4, <1>5, UpdatedTracker
<1>7. TypeOK' BY <1>1, <1>3, <1>4, <1>6 DEF TypeOK
<1>8. Held'
  <2>1. ASSUME NEW g \in Handlers, http'[g].pc # "idle" PROVE Filed(http[g].cmd)'
    <3>1. CASE g = h
      <4>1. http'[g].cmd = c BY <1>1, <3>1 DEF TypeOK
      <4>2. cmds'[id] = c BY <1>1, <1>2
      <4> QED BY <1>2, <1>3, <1>4, <4>1, <4>2, EarlierRefl DEF Filed
    <3>2. CASE g # h
      <4>1. http'[g] = http[g] BY <1>1, <3>2 DEF TypeOK
      <4>2. http[g].cmd \in Command /\ Filed(http[g].cmd)
        BY <4>1, <2>1, HeldIsCommand DEF Held
      <4> QED BY <4>1, <4>2, <1>6 DEF Filed
    <3> QED BY <3>1, <3>2
  <2>2. (\A a \in Ackers : ackers[a] # None => Filed(ackers[a]))'
    BY <1>1, <1>6 DEF Held, TypeOK, Filed
  <2>3. (\A d \in sweep : Filed(d))'
    BY <1>1, <1>6 DEF Held, TypeOK, Filed
  <2>4. (published \subseteq DOMAIN cmds)' BY <1>1, <1>4 DEF Held
  <2> QED BY <2>1, <2>2, <2>3, <2>4 DEF Held
<1> QED BY <1>6, <1>7, <1>8

LEMMA AckInd ==
  ASSUME TrackerInv, NEW a \in Ackers, NEW id \in published,
         NEW s \in {"acked", "applied"}, Ack(a, id, s)
  PROVE  TrackerInv' /\ Grows
<1> USE DEF TrackerInv
<1> DEFINE c == Acked(cmds[id], s)
<1>1. /\ id \in DOMAIN cmds
      /\ cmds' = [cmds EXCEPT ![id] = c] /\ ackers' = [ackers EXCEPT ![a] = c]
      /\ UNCHANGED <<now, seq, http, sweep, published, log>>
  BY DEF Ack
<1>2. cmds[id] \in Command /\ cmds[id].id = id /\ Consistent(cmds[id])
  BY <1>1 DEF TypeOK, RecordConsistent
<1>3. c \in Command /\ c.id = id /\ Earlier(cmds[id], c) /\ Consistent(c)
  BY <1>2, AckedFacts, TimeAssumption DEF TypeOK
<1>4. DOMAIN cmds' = DOMAIN cmds BY <1>1
<1>5. ASSUME NEW i \in DOMAIN cmds
      PROVE  /\ cmds'[i] \in Command /\ cmds'[i].id = i
             /\ Earlier(cmds[i], cmds'[i]) /\ Consistent(cmds'[i])
  <2>1. CASE i = id BY <1>1, <1>2, <1>3, <2>1
  <2>2. CASE i # id
    BY <1>1, <2>2, EarlierRefl DEF TypeOK, RecordConsistent
  <2> QED BY <2>1, <2>2
<1>6. /\ IdsUnique' /\ RecordConsistent' /\ Grows
      /\ (\A i \in DOMAIN cmds : cmds[i] \in Command /\ cmds[i].id = i)'
      /\ \A d \in Command : Filed(d) => d.id \in DOMAIN cmds' /\ Earlier(d, cmds'[d.id])
  BY <1>1, <1>4, <1>5, UpdatedTracker
<1>7. TypeOK' BY <1>1, <1>3, <1>4, <1>6 DEF TypeOK
<1>8. Held'
  <2>1. ASSUME NEW g \in Handlers, http'[g].pc # "idle" PROVE Filed(http[g].cmd)'
    <3>1. http[g].cmd \in Command /\ Filed(http[g].cmd)
      BY <1>1, <2>1, HeldIsCommand DEF Held
    <3> QED BY <3>1, <1>1, <1>6 DEF Filed
  <2>2. ASSUME NEW b \in Ackers, ackers'[b] # None PROVE Filed(ackers[b])'
    <3>1. CASE b = a
      <4>1. ackers'[b] = c BY <1>1, <3>1 DEF TypeOK
      <4>2. cmds'[id] = c BY <1>1
      <4> QED BY <1>1, <1>3, <1>4, <4>1, <4>2, EarlierRefl DEF Filed
    <3>2. CASE b # a
      BY <1>1, <1>6, <2>2, <3>2 DEF Held, TypeOK, Filed
    <3> QED BY <3>1, <3>2
  <2>3. (\A d \in sweep : Filed(d))'
    BY <1>1, <1>6 DEF Held, TypeOK, Filed
  <2>4. (published \subseteq DOMAIN cmds)' BY <1>1, <1>4 DEF Held
  <2> QED BY <2>1, <2>2, <2>3, <2>4 DEF Held
<1> QED BY <1>6, <1>7, <1>8

LEMMA SweepInd ==
  ASSUME TrackerInv, SweepUndelivered
  PROVE  TrackerInv' /\ Grows
<1> USE DEF TrackerInv
<1> DEFINE late == {id \in DOMAIN cmds : Expired(cmds[id])}
<1>1. /\ cmds' = [id \in DOMAIN cmds |->
                    IF id \in late THEN Undelivered(cmds[id]) ELSE cmds[id]]
      /\ sweep' = {Undelivered(cmds[id]) : id \in late}
      /\ UNCHANGED <<now, seq, http, ackers, published, log>>
  BY DEF SweepUndelivered
<1>2. DOMAIN cmds' = DOMAIN cmds BY <1>1
<1>3. ASSUME NEW id \in late
      PROVE  /\ cmds'[id] = Undelivered(cmds[id])
             /\ Undelivered(cmds[id]) \in Command /\ Undelivered(cmds[id]).id = id
             /\ Earlier(cmds[id], Undelivered(cmds[id]))
             /\ Consistent(Undelivered(cmds[id]))
  BY <1>1, UndeliveredFacts, TimeAssumption DEF TypeOK, RecordConsistent
<1>4. ASSUME NEW i \in DOMAIN cmds
      PROVE  /\ cmds'[i] \in Command /\ cmds'[i].id = i
             /\ Earlier(cmds[i], cmds'[i]) /\ Consistent(cmds'[i])
  <2>1. CASE i \in late BY <1>3, <2>1
  <2>2. CASE i \notin late
    BY <1>1, <2>2, EarlierRefl DEF TypeOK, RecordConsistent
  <2> QED BY <2>1, <2>2
<1>5. /\ IdsUnique' /\ RecordConsistent' /\ Grows
      /\ (\A i \in DOMAIN cmds : cmds[i] \in Command /\ cmds[i].id = i)'
      /\ \A d \in Command : Filed(d) => d.id \in DOMAIN cmds' /\ Earlier(d, cmds'[d.id])
  BY <1>1, <1>2, <1>4, UpdatedTracker
<1>6. sweep' \subseteq Command BY <1>1, <1>3
<1>7. TypeOK' BY <1>1, <1>2, <1>5, <1>6 DEF TypeOK
<1>8. Held'
  <2>1. ASSUME NEW g \in Handlers, http'[g].pc # "idle" PROVE Filed(http[g].cmd)'
    <3>1. http[g].cmd \in Command /\ Filed(http[g].cmd)
      BY <1>1, <2>1, HeldIsCommand DEF Held
    <3> QED BY <3>1, <1>1, <1>5 DEF Filed
  <2>2. (\A b \in Ackers : ackers[b] # None => Filed(ackers[b]))'
    BY <1>1, <1>5 DEF Held, TypeOK, Filed
  <2>3. ASSUME NEW d \in sweep' PROVE d.id \in DOMAIN cmds' /\ Earlier(d, cmds'[d.id])
    <3>1. PICK id \in late : d = Undelivered(cmds[id]) BY <1>1
    <3>2. d.id = id /\ cmds'[id] = d /\ d \in Command BY <1>3, <3>1
    <3> QED BY <1>2, <3>2, EarlierRefl
  <2>4. (published \subseteq DOMAIN cmds)' BY <1>1, <1>2 DEF Held
  <2> QED BY <2>1, <2>2, <2>3, <2>4 DEF Held, Filed
<1> QED BY <1>5, <1>7, <1>8

-----------------------------------------------------------------------------

LEMMA NextInd == TrackerInv /\ [Next]_vars => TrackerInv' /\ Grows
<1> SUFFICES ASSUME TrackerInv, [Next]_vars PROVE TrackerInv' /\ Grows
  OBVIOUS
<1>1. ASSUME NEW h \in Handlers, NEW body \in Requests, Create(h, body)
      PROVE  TrackerInv' /\ Grows
  BY <1>1, CreateInd
<1>2. ASSUME NEW h \in Handlers, HandlerStep(h) PROVE TrackerInv' /\ Grows
  <2>1. CASE EmitCreated(h)
    BY <2>1, HandlerMoves DEF EmitCreated, Step
  <2>2. CASE Publish(h)
    BY <2>2, HandlerMoves DEF Publish, Step
  <2>3. CASE PublishFails(h)
    BY <2>3, HandlerMoves DEF PublishFails, Step
  <2>4. CASE MarkSent(h) BY <2>4, MarkSentInd
  <2>5. CASE EmitSent(h)
    BY <2>5, HandlerMoves DEF EmitSent, Step
  <2> QED BY <1>2, <2>1, <2>2, <2>3, <2>4, <2>5 DEF HandlerStep
<1>3. ASSUME NEW a \in Ackers, EmitAck(a) PROVE TrackerInv' /\ Grows
  BY <1>3, EmitAckInd
<1>4. CASE SweepUndelivered BY <1>4, SweepInd
<1>5. ASSUME NEW c \in sweep, EmitSwept(c) PROVE TrackerInv' /\ Grows
  BY <1>5, EmitSweptInd
<1>6. ASSUME NEW a \in Ackers, NEW id \in published,
             NEW s \in {"acked", "applied"}, Ack(a, id, s)
      PROVE  TrackerInv' /\ Grows
  BY <1>6, AckInd
<1>7. CASE Tick BY <1>7, TickInd
<1>8. CASE UNCHANGED vars
  <2>1. UNCHANGED <<now, seq, cmds, http, ackers, sweep, published, log>>
    BY <1>8 DEF vars
  <2>2. TypeOK' BY <2>1 DEF TrackerInv, TypeOK
  <2>3. Held' BY <2>1 DEF TrackerInv, Held, Filed
  <2> QED BY <2>1, <2>2, <2>3, QuietTracker DEF TrackerInv
<1> QED BY <1>1, <1>2, <1>3, <1>4, <1>5, <1>6, <1>7, <1>8 DEF Next, ServiceStep

LEMMA TrackerInvHolds == Spec => []TrackerInv
BY InitInd, NextInd, PTL DEF Spec

(* A row only ever changes to a snapshot that a goroutine held.            *)
LEMMA LogSteps ==
  ASSUME TrackerInv, [Next]_vars, NEW id \in DOMAIN log'
  PROVE  Kept(id) \/ \E c \in Command : Filed(c) /\ Rewritten(id, c)
<1> USE DEF TrackerInv
<1>1. ASSUME NEW c \in Command, Filed(c), emit(c)
      PROVE  Kept(id) \/ Rewritten(id, c)
  BY <1>1, EmitFacts
<1>2. ASSUME NEW h \in Handlers, http[h].pc # "idle"
      PROVE  http[h].cmd \in Command /\ Filed(http[h].cmd)
  BY <1>2, HeldIsCommand DEF Held
<1>3. ASSUME NEW h \in Handlers, EmitCreated(h) \/ EmitSent(h)
      PROVE  \E c \in Command : Filed(c) /\ emit(c)
  BY <1>2, <1>3 DEF EmitCreated, EmitSent, Step
<1>4. ASSUME NEW a \in Ackers, EmitAck(a)
      PROVE  \E c \in Command : Filed(c) /\ emit(c)
  BY <1>4 DEF EmitAck, Held, TypeOK
<1>5. ASSUME NEW c \in sweep, EmitSwept(c)
      PROVE  c \in Command /\ Filed(c) /\ emit(c)
  BY <1>5 DEF EmitSwept, Held, TypeOK
<1>6. CASE UNCHANGED log BY <1>6 DEF Kept
<1> QED
  BY <1>1, <1>3, <1>4, <1>5, <1>6
  DEF Next, ServiceStep, HandlerStep, Create, Publish, PublishFails, MarkSent,
      SweepUndelivered, Ack, Tick, vars

LEMMA RowsInd ==
  ASSUME TrackerInv, Rows, [Next]_vars
  PROVE  Rows'
<1>1. TrackerInv' /\ Grows BY NextInd
<1> SUFFICES ASSUME NEW id \in DOMAIN log' PROVE Filed(log[id])'
  BY DEF Rows
<1>2. ASSUME NEW c \in Command, Filed(c) PROVE Filed(c)'
  BY <1>1, <1>2, FiledGrows DEF Filed, TrackerInv
<1>3. CASE Kept(id)
  BY <1>2, <1>3 DEF Kept, Rows, TrackerInv, TypeOK
<1>4. ASSUME NEW c \in Command, Filed(c), Rewritten(id, c) PROVE Filed(log[id])'
  <2>1. CASE id \in DOMAIN log
    <3>1. log[id].body = c.body
      BY <1>4, <2>1 DEF Rewritten, Rows, Filed, Earlier, TrackerInv, TypeOK
    <3>2. log'[id] = c BY <1>4, <2>1, <3>1 DEF Rewritten, Command
    <3> QED BY <1>2, <1>4, <3>2
  <2>2. CASE id \notin DOMAIN log BY <1>2, <1>4, <2>2 DEF Rewritten
  <2> QED BY <2>1, <2>2
<1> QED BY <1>3, <1>4, LogSteps

(* Every table and every goroutine always holds values of its type.        *)
THEOREM TypeCorrect == Spec => []TypeOK
BY TrackerInvHolds, PTL DEF TrackerInv

(* No two creates, from any number of HTTP goroutines, get the same entry  *)
(* of the tracker (Tracker.Create, newID).                                 *)
THEOREM CommandsAreDistinct == Spec => []IdsUnique
BY TrackerInvHolds, PTL DEF TrackerInv

(* In every interleaving of handlers, acks and sweeps, a command's state   *)
(* agrees with its timestamps (MarkSent, Ack, SweepUndelivered).           *)
THEOREM RecordsTellTheTruth == Spec => []RecordConsistent
BY TrackerInvHolds, PTL DEF TrackerInv

(* No row of command_log is ahead of the tracker, however the writes are   *)
(* reordered and whichever of them fail (emit, newPersister).              *)
THEOREM LogLagsTracker == Spec => []LogNeverAhead
<1>1. Init => Rows BY DEF Init, Rows
<1>2. TrackerInv /\ Rows /\ [Next]_vars => Rows' BY RowsInd
<1>3. TrackerInv /\ Rows => LogNeverAhead BY LogNeverAheadParts DEF TrackerInv
<1> QED BY <1>1, <1>2, <1>3, TrackerInvHolds, PTL DEF Spec

(* No step takes a command back to an earlier stage or forgets a time it   *)
(* recorded.                                                               *)
THEOREM LifecycleIsMonotone == Spec => NeverBackwards
<1>1. TrackerInv /\ [Next]_vars => [Grows]_vars BY NextInd
<1> QED BY <1>1, TrackerInvHolds, PTL DEF Spec, NeverBackwards

=============================================================================

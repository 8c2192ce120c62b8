--------------------------- MODULE CommandService ---------------------------
(***************************************************************************)
(* The command service: the in-memory command tracker of                   *)
(* internal/command/tracker.go and the goroutines of command/main.go that  *)
(* drive it.                                                               *)
(*                                                                         *)
(* Several goroutines share one tracker: an HTTP goroutine per POST        *)
(* /commands, a goroutine per MQTT acknowledgement (the client is created  *)
(* with OrderMatters false) and the undelivered sweeper.  Every read and   *)
(* write of the command table is one critical section, hence one action.   *)
(* The snapshot a critical section returns is written to command_log only  *)
(* after the mutex is released, so that write is an action of its own and  *)
(* may be overtaken by the writes of other goroutines.                     *)
(***************************************************************************)
EXTENDS Integers

CONSTANTS
  Requests,    \* the valid request bodies: vehicleId, type and payload
  Handlers,    \* HTTP goroutines that run handleCreate
  Ackers,      \* goroutines that run the ack subscription's callback
  None,        \* "this goroutine holds no command"
  AckTimeout,  \* config.Command.AckTimeout, in ticks of the clock
  LogMayFail,  \* whether an INSERT into command_log may fail
  MaxSeq,      \* bound: commands created by one process
  LastIssue    \* bound: the last tick at which a handler may be running

ASSUME TimeAssumption ==
  {AckTimeout, MaxSeq, LastIssue} \subseteq Nat /\ LogMayFail \in BOOLEAN

VARIABLES
  now,        \* the clock
  seq,        \* Tracker.seq
  cmds,       \* Tracker.cmds: a function from the ids in use to commands
  http,       \* what each HTTP goroutine is doing, and its copy of the command
  ackers,     \* the snapshot each ack goroutine has yet to persist
  sweep,      \* the snapshots the sweeper has yet to persist ("out")
  published,  \* the commands handed to the MQTT client
  log         \* the command_log table

vars == <<now, seq, cmds, http, ackers, sweep, published, log>>

-----------------------------------------------------------------------------
(* A nil timestamp is 0; the clock starts at 1.  Its unit is the second,   *)
(* the resolution of the time stamp in an id.                              *)
Nil == 0

MaxTime == LastIssue + AckTimeout + 1

Id == Nat \X Nat

States == {"pending", "sent", "acked", "applied", "undelivered"}

Command == [id : Id, body : Requests, state : States,
            sentAt : Nat, ackedAt : Nat, appliedAt : Nat]

ASSUME NoneAssumption == None \notin Command

(* The map m with m[k] set to v, whether or not k was a key already. *)
Put(m, k, v) == [i \in DOMAIN m \cup {k} |-> IF i = k THEN v ELSE m[i]]

(* Mutant of newID: the time stamp alone tells commands apart.             *)
newIDBySecond == <<now, 1>>

(* Mutant of newID: the sequence alone tells commands apart.               *)
newIDBySequence == <<1, seq + 1>>

newID == <<now, seq + 1>>

NewCommand(body) ==
  [id |-> newID, body |-> body, state |-> "pending",
   sentAt |-> Nil, ackedAt |-> Nil, appliedAt |-> Nil]

(* Mutant of Sent: whatever became of the command in the meantime.         *)
SentAlways(c) == [c EXCEPT !.state = "sent", !.sentAt = now]

(* What MarkSent, Ack and the sweep do to the command they update. *)
Sent(c) ==
  IF c.state = "pending" THEN [c EXCEPT !.state = "sent", !.sentAt = now] ELSE c

FirstAck(c) == IF c.ackedAt = Nil THEN now ELSE c.ackedAt

(* Mutant of Acked: an ack counts only for a command known to be sent.     *)
AckedIfSent(c, ackState) ==
  IF c.state = "sent"
  THEN [c EXCEPT !.state = ackState, !.ackedAt = now,
                 !.appliedAt = IF ackState = "applied" THEN now ELSE Nil]
  ELSE c

Acked(c, ackState) ==
  IF ackState = "applied"
  THEN [c EXCEPT !.state = "applied", !.ackedAt = FirstAck(c), !.appliedAt = now]
  ELSE [c EXCEPT !.state = IF @ = "applied" THEN @ ELSE "acked",
                 !.ackedAt = FirstAck(c)]

(* Mutant of Expired: only commands that are still pending.                *)
ExpiredPending(c) ==
  /\ c.state = "pending"
  /\ c.sentAt # Nil
  /\ now - c.sentAt > AckTimeout

(* Mutant of Expired: a nil sentAt is taken for a very old one.            *)
ExpiredUnsent(c) ==
  /\ c.state \in {"sent", "pending"}
  /\ now - c.sentAt > AckTimeout

Expired(c) ==
  /\ c.state \in {"sent", "pending"}
  /\ c.sentAt # Nil
  /\ now - c.sentAt > AckTimeout

Undelivered(c) == [c EXCEPT !.state = "undelivered"]

(* The upsert of newPersister: a conflicting id keeps the body it has. *)
Upsert(c) ==
  Put(log, c.id, IF c.id \in DOMAIN log THEN [c EXCEPT !.body = log[c.id].body] ELSE c)

(* emit: the result of the INSERT is discarded, so a failure is silent. *)
emit(c) ==
  \/ log' = Upsert(c)
  \/ LogMayFail /\ UNCHANGED log

-----------------------------------------------------------------------------
(* handleCreate, one HTTP goroutine.                                        *)

Step(h, from, to, c) ==
  /\ http[h].pc = from
  /\ http' = [http EXCEPT ![h] = [pc |-> to, cmd |-> c]]

(* Mutant of Create: the key is made before the sequence number is taken.  *)
CreateFiledEarly(h, body) ==
  /\ seq < MaxSeq /\ now <= LastIssue
  /\ Step(h, "idle", "created", NewCommand(body))
  /\ seq' = seq + 1
  /\ cmds' = Put(cmds, <<now, seq>>, NewCommand(body))
  /\ UNCHANGED <<now, ackers, sweep, published, log>>

Create(h, body) ==
  /\ seq < MaxSeq /\ now <= LastIssue
  /\ Step(h, "idle", "created", NewCommand(body))
  /\ seq' = seq + 1
  /\ cmds' = Put(cmds, newID, NewCommand(body))
  /\ UNCHANGED <<now, ackers, sweep, published, log>>

EmitCreated(h) ==
  /\ Step(h, "created", "publish", http[h].cmd)
  /\ emit(http[h].cmd)
  /\ UNCHANGED <<now, seq, cmds, ackers, sweep, published>>

Publish(h) ==
  /\ Step(h, "publish", "wait", http[h].cmd)
  /\ published' = published \cup {http[h].cmd.id}
  /\ UNCHANGED <<now, seq, cmds, ackers, sweep, log>>

(* The token carries an error: 502, and the command stays as it is.  The   *)
(* client may have stored the message before it gave up.                   *)
PublishFails(h) ==
  /\ Step(h, "publish", "idle", None)
  /\ published' \in {published, published \cup {http[h].cmd.id}}
  /\ UNCHANGED <<now, seq, cmds, ackers, sweep, log>>

(* Mutant of MarkSent: the copy is updated, the table is not.              *)
MarkSentOnCopy(h) ==
  /\ Step(h, "wait", "marked", Sent(cmds[http[h].cmd.id]))
  /\ UNCHANGED <<now, seq, cmds, ackers, sweep, published, log>>

(* WaitTimeout returned; its result is ignored, only an error is looked at. *)
MarkSent(h) ==
  LET id == http[h].cmd.id IN
  /\ Step(h, "wait", "marked", Sent(cmds[id]))
  /\ cmds' = [cmds EXCEPT ![id] = Sent(@)]
  /\ UNCHANGED <<now, seq, ackers, sweep, published, log>>

EmitSent(h) ==
  /\ Step(h, "marked", "idle", None)
  /\ emit(http[h].cmd)
  /\ UNCHANGED <<now, seq, cmds, ackers, sweep, published>>

HandlerStep(h) ==
  \/ EmitCreated(h) \/ Publish(h) \/ PublishFails(h)
  \/ MarkSent(h) \/ EmitSent(h)

-----------------------------------------------------------------------------
(* The ack subscription's callback.  An unknown id is only logged. *)

Ack(a, id, ackState) ==
  /\ ackers[a] = None
  /\ id \in DOMAIN cmds
  /\ cmds' = [cmds EXCEPT ![id] = Acked(@, ackState)]
  /\ ackers' = [ackers EXCEPT ![a] = Acked(cmds[id], ackState)]
  /\ UNCHANGED <<now, seq, http, sweep, published, log>>

EmitAck(a) ==
  /\ ackers[a] # None
  /\ emit(ackers[a])
  /\ ackers' = [ackers EXCEPT ![a] = None]
  /\ UNCHANGED <<now, seq, cmds, http, sweep, published>>

-----------------------------------------------------------------------------
(* The sweeper.  A sweep that finds nothing changes nothing. *)

SweepUndelivered ==
  LET late == {id \in DOMAIN cmds : Expired(cmds[id])} IN
  /\ sweep = {} /\ late # {}
  /\ cmds' = [id \in DOMAIN cmds |->
                IF id \in late THEN Undelivered(cmds[id]) ELSE cmds[id]]
  /\ sweep' = {Undelivered(cmds[id]) : id \in late}
  /\ UNCHANGED <<now, seq, http, ackers, published, log>>

EmitSwept(c) ==
  /\ emit(c)
  /\ sweep' = sweep \ {c}
  /\ UNCHANGED <<now, seq, cmds, http, ackers, published>>

(* Time passes.  Handlers end by LastIssue, so that every command that is  *)
(* marked sent can outlive its timeout within MaxTime.                     *)
Tick ==
  /\ now < MaxTime
  /\ now = LastIssue => \A h \in Handlers : http[h].pc = "idle"
  /\ now' = now + 1
  /\ UNCHANGED <<seq, cmds, http, ackers, sweep, published, log>>

-----------------------------------------------------------------------------
Init ==
  /\ now = 1 /\ seq = 0
  /\ cmds = <<>> /\ log = <<>>
  /\ http = [h \in Handlers |-> [pc |-> "idle", cmd |-> None]]
  /\ ackers = [a \in Ackers |-> None]
  /\ sweep = {} /\ published = {}

(* Steps of the service itself, and acknowledgements from the fleet: a     *)
(* vehicle answers only commands it was sent, any number of times.         *)
ServiceStep ==
  \/ \E h \in Handlers : HandlerStep(h)
  \/ \E a \in Ackers : EmitAck(a)
  \/ SweepUndelivered
  \/ \E c \in sweep : EmitSwept(c)

Next ==
  \/ \E h \in Handlers, body \in Requests : Create(h, body)
  \/ ServiceStep
  \/ \E a \in Ackers, id \in published, s \in {"acked", "applied"} : Ack(a, id, s)
  \/ Tick

Spec == Init /\ [][Next]_vars

(* The Go scheduler runs every ready goroutine, the sweep's ticker keeps   *)
(* firing and time passes.  No answer from a vehicle is assumed, nor that  *)
(* operators send commands.                                                *)
Fairness ==
  /\ \A h \in Handlers : WF_vars(HandlerStep(h))
  /\ \A a \in Ackers : WF_vars(EmitAck(a))
  /\ WF_vars(SweepUndelivered)
  /\ WF_vars(\E c \in sweep : EmitSwept(c))
  /\ WF_vars(Tick)

-----------------------------------------------------------------------------
(* Properties                                                              *)

(* Every table and every goroutine holds values of its type, and a         *)
(* command is filed under its own id.                                      *)
TypeOK ==
  /\ now \in Nat \ {0} /\ seq \in Nat
  /\ DOMAIN cmds \subseteq Id
  /\ \A id \in DOMAIN cmds : cmds[id] \in Command /\ cmds[id].id = id
  /\ DOMAIN log \subseteq Id
  /\ \A id \in DOMAIN log : log[id] \in Command /\ log[id].id = id
  /\ http \in [Handlers -> [pc : {"idle"}, cmd : {None}] \cup
                           [pc : {"created", "publish", "wait", "marked"}, cmd : Command]]
  /\ ackers \in [Ackers -> Command \cup {None}]
  /\ sweep \subseteq Command
  /\ published \subseteq Id

(* The stages of a command in the order the tracker passes through them. *)
Stage ==
  [s \in States |-> CASE s = "pending" -> 0 [] s = "sent" -> 1
                      [] s = "undelivered" -> 2 [] s = "acked" -> 3
                      [] s = "applied" -> 4]

(* c is the command d as it was at some earlier moment, or is now. *)
Earlier(c, d) ==
  /\ c.body = d.body
  /\ Stage[c.state] <= Stage[d.state]
  /\ c.sentAt \in {Nil, d.sentAt}
  /\ c.ackedAt \in {Nil, d.ackedAt}
  /\ c.appliedAt <= d.appliedAt

(* Every create has an entry of its own: the sequence numbers given out    *)
(* and the commands in the tracker are in one-to-one correspondence, so no *)
(* two handlers ever share or overwrite a command.                         *)
IdsUnique ==
  /\ \A id \in DOMAIN cmds : id[2] \in 1 .. seq
  /\ \A n \in 1 .. seq : \E id \in DOMAIN cmds : id[2] = n
  /\ \A i, j \in DOMAIN cmds : i[2] = j[2] => i = j

Consistent(c) ==
  /\ c.ackedAt # Nil <=> c.state \in {"acked", "applied"}
  /\ c.appliedAt # Nil <=> c.state = "applied"
  /\ c.state \in {"sent", "undelivered"} => c.sentAt # Nil
  /\ c.state = "pending" => c.sentAt = Nil
  /\ c.state = "undelivered" => now - c.sentAt > AckTimeout
  /\ c.ackedAt # Nil => c.sentAt <= c.ackedAt
  /\ c.appliedAt # Nil => c.ackedAt <= c.appliedAt
  /\ c.sentAt <= now /\ c.ackedAt <= now /\ c.appliedAt <= now

(* The record tells the truth about its own history, whatever order the    *)
(* HTTP goroutine, the ack goroutines and the sweeper ran in: the state is *)
(* backed by the timestamps, the timestamps are in causal order, and       *)
(* "undelivered" means that the whole timeout passed without any ack.      *)
RecordConsistent == \A id \in DOMAIN cmds : Consistent(cmds[id])

(* The snapshot c of a command is one the tracker held. *)
Filed(c) == c.id \in DOMAIN cmds /\ Earlier(c, cmds[c.id])

(* command_log and the snapshots on their way to it may lag behind the     *)
(* tracker but never run ahead of it or hold something that never was: no  *)
(* row reports a delivery the tracker has not seen.                        *)
LogNeverAhead ==
  /\ \A id \in DOMAIN log : Filed(log[id])
  /\ \A h \in Handlers : http[h].pc # "idle" => Filed(http[h].cmd)
  /\ \A a \in Ackers : ackers[a] # None => Filed(ackers[a])
  /\ \A c \in sweep : Filed(c)
  /\ published \subseteq DOMAIN cmds

Grows ==
  \A id \in DOMAIN cmds : id \in DOMAIN cmds' /\ Earlier(cmds[id], cmds'[id])

(* A late MarkSent, a late sweep or a duplicate ack never takes a command  *)
(* back: not from applied to acked, not from acked to sent or undelivered, *)
(* and the first send and ack times stand.                                 *)
NeverBackwards == [][Grows]_vars

InState(id, S) == id \in DOMAIN cmds /\ cmds[id].state \in S

(* A command that was marked sent does not stay "sent": it is acknowledged *)
(* or it is flagged undelivered, or the process forgets it by restarting.  *)
SentIsResolved ==
  \A id \in (1 .. LastIssue) \X (1 .. MaxSeq) :
    InState(id, {"sent"}) ~>
      InState(id, {"undelivered", "acked", "applied"}) \/ id \notin DOMAIN cmds

-----------------------------------------------------------------------------
(* What the documentation says and the code does not do.                   *)

Holding(id) ==
  \/ \E h \in Handlers : http[h].pc # "idle" /\ http[h].cmd.id = id
  \/ \E a \in Ackers : ackers[a] # None /\ ackers[a].id = id
  \/ \E c \in sweep : c.id = id

(* README and schema.sql: the lifecycle is persisted to command_log, so    *)
(* once no goroutine has a snapshot of a command left to write, its row is *)
(* the command.                                                            *)
LogSettles ==
  \A id \in DOMAIN cmds :
    ~ Holding(id) => id \in DOMAIN log /\ log[id] = cmds[id]

=============================================================================

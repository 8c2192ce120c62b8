--------------------------- MODULE CommandChannel ---------------------------
(***************************************************************************)
(* The whole command path: the command service, its MQTT client and the    *)
(* broker, and the fleet of sim/spawn.py at the other end.                 *)
(*                                                                         *)
(* The service publishes at QoS 1 over a session the broker keeps          *)
(* (cleanSession false), so its messages and the acks for it survive a     *)
(* broken connection; one that is resent reaches the fleet once more, and  *)
(* spawn.py, which keeps no record of ids, applies it once more: messages  *)
(* under way to the fleet and executions are counted.  The fleet has       *)
(* clean_session=True: what the broker holds for it is gone with its       *)
(* connection, and what arrives in the meantime has no subscriber.         *)
(*                                                                         *)
(* ChannelSpec is the path with one life of the service; RestartSpec lets  *)
(* the service crash and start again with an empty tracker.                *)
(***************************************************************************)
EXTENDS CommandService

CONSTANTS
  Known,         \* the requests that name a vehicle of the fleet
  FleetMayDrop,  \* whether the fleet's connection may break
  FastRestart,   \* whether a crash and a restart fit in one second
  MaxRestarts,   \* bound: restarts of the service
  MaxSends       \* bound: how often the client sends one message

ASSUME ChannelAssumption == Known \subseteq Requests

VARIABLES
  outbox,      \* messages in the MQTT client of the service
  sends,       \* how often the client has sent each message to the broker
  toFleet,     \* copies of each message under way in the fleet's session
  acks,        \* messages whose ack is on its way to the service
  executions,  \* how often a vehicle has executed each message
  fleetUp,     \* the fleet is connected and subscribed
  restarts     \* restarts of the service so far

channel == <<outbox, sends, toFleet, acks, executions, fleetUp, restarts>>

Message(c) == [id |-> c.id, body |-> c.body]

(* The messages a bounded run can make. *)
Messages == [id : (1 .. LastIssue) \X (1 .. MaxSeq), body : Requests]

NoCopies == [m \in Messages |-> 0]

(* The messages with a copy under way to the fleet, and those that were    *)
(* executed.                                                               *)
Forwarded == {m \in Messages : toFleet[m] > 0}
Executed == {m \in Messages : executions[m] > 0}

-----------------------------------------------------------------------------
(* Steps of the service.  Handing a message to the client puts it in the   *)
(* client's store, from where it is sent, and resent, to the broker.       *)

HandOver(h) ==
  /\ Publish(h) \/ PublishFails(h)
  /\ outbox' = outbox \cup
       {m \in {Message(http[h].cmd)} : m.id \in published' \ published}
  /\ UNCHANGED <<sends, toFleet, acks, executions, fleetUp, restarts>>

ServiceAlone ==
  /\ \/ \E h \in Handlers, body \in Requests : Create(h, body)
     \/ \E h \in Handlers : EmitCreated(h) \/ MarkSent(h) \/ EmitSent(h)
     \/ \E a \in Ackers : EmitAck(a)
     \/ SweepUndelivered
     \/ \E c \in sweep : EmitSwept(c)
     \/ Tick
  /\ UNCHANGED channel

(* An ack of a known command.  It is delivered again when its own          *)
(* acknowledgement is lost.                                                *)
AckArrives(a, m) ==
  /\ m \in acks
  /\ Ack(a, m.id, "applied")
  /\ acks' \in {acks, acks \ {m}}
  /\ UNCHANGED <<outbox, sends, toFleet, executions, fleetUp, restarts>>

(* An ack of a command of an earlier life of the service: only logged. *)
AckUnknown(m) ==
  /\ m \in acks /\ m.id \notin DOMAIN cmds
  /\ acks' = acks \ {m}
  /\ UNCHANGED <<vars, outbox, sends, toFleet, executions, fleetUp, restarts>>

-----------------------------------------------------------------------------
(* Steps of the broker and of the fleet. *)

(* A message stays with the client, which sends it again, when the answer  *)
(* of the broker is lost.                                                  *)
BrokerReceives(m) ==
  /\ m \in outbox
  /\ sends' = [sends EXCEPT ![m] = @ + 1]
  /\ \/ outbox' = outbox \ {m}
     \/ sends'[m] < MaxSends /\ outbox' = outbox
  /\ toFleet' = IF fleetUp THEN [toFleet EXCEPT ![m] = @ + 1] ELSE toFleet
  /\ UNCHANGED <<vars, acks, executions, fleetUp, restarts>>

(* Mutant of FleetReceives: with a session that the broker keeps           *)
(* (clean_session=False) a copy is delivered again when its own answer is  *)
(* lost.                                                                   *)
FleetReceivesKept(m) ==
  /\ toFleet[m] > 0
  /\ toFleet' \in {toFleet, [toFleet EXCEPT ![m] = @ - 1]}
  /\ IF m.body \in Known
     THEN /\ executions' = [executions EXCEPT ![m] = @ + 1]
          /\ acks' = acks \cup {m}
     ELSE UNCHANGED <<executions, acks>>
  /\ UNCHANGED <<vars, outbox, sends, fleetUp, restarts>>

(* on_message: the command is applied, whether or not it was before, and   *)
(* always acknowledged as applied; one for a vehicle that is not of the    *)
(* fleet is dropped.                                                       *)
FleetReceives(m) ==
  /\ toFleet[m] > 0
  /\ toFleet' = [toFleet EXCEPT ![m] = @ - 1]
  /\ IF m.body \in Known
     THEN /\ executions' = [executions EXCEPT ![m] = @ + 1]
          /\ acks' = acks \cup {m}
     ELSE UNCHANGED <<executions, acks>>
  /\ UNCHANGED <<vars, outbox, sends, fleetUp, restarts>>

FleetDisconnects ==
  /\ FleetMayDrop /\ fleetUp
  /\ fleetUp' = FALSE /\ toFleet' = NoCopies
  /\ UNCHANGED <<vars, outbox, sends, acks, executions, restarts>>

FleetConnects ==
  /\ ~ fleetUp /\ fleetUp' = TRUE
  /\ UNCHANGED <<vars, outbox, sends, toFleet, acks, executions, restarts>>

-----------------------------------------------------------------------------
(* The service dies and a new process starts: the tracker, its sequence    *)
(* and the client's store were in memory.                                  *)
Restart ==
  /\ restarts < MaxRestarts /\ now <= LastIssue
  /\ restarts' = restarts + 1
  /\ now' = IF FastRestart THEN now ELSE now + 1
  /\ seq' = 0 /\ cmds' = <<>> /\ sweep' = {} /\ published' = {} /\ outbox' = {}
  /\ http' = [h \in Handlers |-> [pc |-> "idle", cmd |-> None]]
  /\ ackers' = [a \in Ackers |-> None]
  /\ UNCHANGED <<log, sends, toFleet, acks, executions, fleetUp>>

-----------------------------------------------------------------------------
ChannelInit ==
  /\ Init
  /\ outbox = {} /\ acks = {}
  /\ sends = NoCopies /\ toFleet = NoCopies /\ executions = NoCopies
  /\ fleetUp = TRUE /\ restarts = 0

ChannelNext ==
  \/ \E h \in Handlers : HandOver(h)
  \/ ServiceAlone
  \/ \E m \in acks : \E a \in Ackers : AckArrives(a, m)
  \/ \E m \in outbox : BrokerReceives(m)
  \/ \E m \in Messages : FleetReceives(m)
  \/ FleetDisconnects \/ FleetConnects

ChannelSpec == ChannelInit /\ [][ChannelNext]_<<vars, channel>>

RestartSpec ==
  ChannelInit
  /\ [][\/ ChannelNext
        \/ \E m \in acks : AckUnknown(m)
        \/ Restart]_<<vars, channel>>

(* The service's goroutines are scheduled, its client and the broker make  *)
(* progress (the client resends until it is answered), and a fleet that    *)
(* lost its connection reconnects (paho's network loop).                   *)
ChannelFairness ==
  /\ Fairness
  /\ \A m \in Messages :
       /\ WF_<<vars, channel>>(\E a \in Ackers : AckArrives(a, m))
       /\ WF_<<vars, channel>>(BrokerReceives(m))
       /\ WF_<<vars, channel>>(FleetReceives(m))
  /\ WF_<<vars, channel>>(FleetConnects)

FairRestartSpec == RestartSpec /\ ChannelFairness

-----------------------------------------------------------------------------
(* Properties                                                              *)

(* "applied" is never a guess, in the tracker or in command_log, whose     *)
(* rows outlive it: the vehicle the command was for executed that very     *)
(* command.  Across restarts this rests on ids that are not given out      *)
(* twice.                                                                  *)
AppliedWasExecuted ==
  LET Backed(table) ==
        \A id \in DOMAIN table :
          table[id].state = "applied" => Message(table[id]) \in Executed
  IN Backed(cmds) /\ Backed(log)

(* What the operator sees of the path: the tracker's states.               *)
Delivery ==
  INSTANCE CommandDelivery WITH
    Commands <- Messages, Reports <- States, First <- "pending", Applied <- "applied",
    After <- [s \in States |-> {t \in States : Stage[t] > Stage[s]}
                                 \ (IF s = "pending" THEN {"undelivered"} ELSE {})],
    executed <- Executed,
    report <- [m \in {Message(cmds[id]) : id \in DOMAIN cmds} |-> cmds[m.id].state]

(* The path keeps the operator's promise, stated in CommandDelivery: no    *)
(* message lost, resent or late, and no step of any goroutine, reports     *)
(* applied too early, takes a report back or flags an unsent command.  How *)
(* often a command is executed is no part of this promise, only whether.   *)
DeliveryPromise == Delivery!Spec

(* A command that was handed to the MQTT client, even by a handler that    *)
(* gave up, ends up applied, unless the fleet's connection breaks or the   *)
(* service restarts: nothing else on the path loses it or its ack.         *)
HandedOverIsApplied ==
  \A m \in {n \in Messages : n.body \in Known} :
    m \in outbox ~>
      InState(m.id, {"applied"}) \/ ~ fleetUp \/ m.id \notin DOMAIN cmds

=============================================================================

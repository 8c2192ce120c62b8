-------------------------------- MODULE WsHub --------------------------------
(***************************************************************************)
(* The websocket hub of api/hub.go and the two goroutines of api/main.go   *)
(* that broadcast through it: consumeAlerts and broadcastFleet.            *)
(*                                                                         *)
(* A connection has a goroutine that reads it, which registers it with the *)
(* hub, and after a read error takes it out of the hub and closes its send *)
(* channel; and a goroutine that writes what the channel holds.  A         *)
(* broadcast holds the hub's lock while it offers its frame to the clients *)
(* one after the other.                                                    *)
(***************************************************************************)
EXTENDS Integers, Sequences, FiniteSets, Functions

CONSTANTS
  Clients,   \* connections
  SendSize,  \* capacity of a send channel
  MaxFrames, \* bound: frames broadcast
  None       \* nobody

ASSUME HubAssumption == SendSize \in Nat \ {0} /\ MaxFrames \in Nat

(* The goroutine of each frame type. *)
Broadcasters == {"alert", "fleet"}
ASSUME NobodyAssumption == None \notin Broadcasters

VARIABLES
  lock,      \* the broadcaster that holds hub.mu, or None
  clients,   \* hub.clients
  want,      \* broadcasters that wait for the lock with a frame
  sent,      \* the frames broadcast: the n-th is n, of type sent[n]
  todo,      \* clients the broadcast in progress has yet to reach
  send,      \* each client's channel
  closed,    \* clients whose channel is closed
  reader,    \* "none", "reading", "failed", "removed" or "done"
  writer,    \* "none", "select", "write" or "stopped"
  current,   \* the frame each writer is writing, 0 if none
  delivered, \* the frames written to each connection
  joined,    \* frames broadcast before each client was registered
  missed,    \* frames each client was refused for its full channel
  panicked   \* a send on a closed channel

hub == <<lock, clients, want, sent, todo>>
ends == <<reader, writer, current, delivered, joined>>
vars == <<hub, send, closed, ends, missed, panicked>>

-----------------------------------------------------------------------------
(* handle and readPump.  Registering and removing take the lock. *)

Read(c, from, to) == reader[c] = from /\ reader' = [reader EXCEPT ![c] = to]

handle(c) ==
  /\ lock = None /\ Read(c, "none", "reading")
  /\ clients' = clients \cup {c}
  /\ writer' = [writer EXCEPT ![c] = "select"]
  /\ joined' = [joined EXCEPT ![c] = Len(sent)]
  /\ UNCHANGED <<lock, want, sent, todo, send, closed, current, delivered,
                 missed, panicked>>

ReadFails(c) ==
  /\ Read(c, "reading", "failed")
  /\ UNCHANGED <<hub, send, closed, writer, current, delivered, joined, missed, panicked>>

(* Mutant of Unregister: the channel is closed while the hub still has it. *)
CloseFirst(c) ==
  /\ Read(c, "failed", "removed")
  /\ closed' = closed \cup {c}
  /\ UNCHANGED <<hub, send, writer, current, delivered, joined, missed, panicked>>

(* Mutant of Unregister: the client stays in the hub.                      *)
KeepRegistered(c) ==
  /\ lock = None /\ Read(c, "failed", "removed")
  /\ UNCHANGED <<hub, send, closed, writer, current, delivered, joined, missed, panicked>>

Unregister(c) ==
  /\ lock = None /\ Read(c, "failed", "removed")
  /\ clients' = clients \ {c}
  /\ UNCHANGED <<lock, want, sent, todo, send, closed, writer, current, delivered,
                 joined, missed, panicked>>

CloseSend(c) ==
  /\ Read(c, "removed", "done")
  /\ closed' = closed \cup {c}
  /\ UNCHANGED <<hub, send, writer, current, delivered, joined, missed, panicked>>

-----------------------------------------------------------------------------
(* writePump.  A closed channel still gives what it holds. *)

TakeFrame(c) ==
  /\ writer[c] = "select" /\ send[c] # <<>>
  /\ writer' = [writer EXCEPT ![c] = "write"]
  /\ current' = [current EXCEPT ![c] = Head(send[c])]
  /\ send' = [send EXCEPT ![c] = Tail(@)]
  /\ UNCHANGED <<hub, closed, reader, delivered, joined, missed, panicked>>

(* The connection may be written to until the reader has closed it. *)
WriteMessage(c) ==
  /\ writer[c] = "write" /\ reader[c] # "done"
  /\ writer' = [writer EXCEPT ![c] = "select"]
  /\ current' = [current EXCEPT ![c] = 0]
  /\ delivered' = [delivered EXCEPT ![c] = Append(@, current[c])]
  /\ UNCHANGED <<hub, send, closed, reader, joined, missed, panicked>>

StopWriter(c) ==
  /\ writer' = [writer EXCEPT ![c] = "stopped"]
  /\ UNCHANGED <<hub, send, closed, reader, current, delivered, joined, missed, panicked>>

(* A write or a ping may fail at any time.  The writer ends, and its       *)
(* client stays registered until the reader fails too.                     *)
WriteFails(c) == writer[c] \in {"select", "write"} /\ StopWriter(c)

ChannelEnds(c) ==
  writer[c] = "select" /\ c \in closed /\ send[c] = <<>> /\ StopWriter(c)

-----------------------------------------------------------------------------
(* The broadcasters. *)

Busy(b) == b \in want \/ lock = b

Bounded == Len(sent) + Cardinality(want) < MaxFrames

AlertArrives ==
  /\ Bounded /\ ~ Busy("alert")
  /\ want' = want \cup {"alert"}
  /\ UNCHANGED <<lock, clients, sent, todo, send, closed, ends, missed, panicked>>

(* The ticker of broadcastFleet: no frame is made when clientCount says    *)
(* that nobody is connected.                                               *)
FleetTick ==
  /\ Bounded /\ ~ Busy("fleet")
  /\ lock = None /\ clients # {}
  /\ want' = want \cup {"fleet"}
  /\ UNCHANGED <<lock, clients, sent, todo, send, closed, ends, missed, panicked>>

(* Mutant of Lock: a broadcast does not wait for the other one.            *)
LockNothing(b) ==
  /\ b \in want
  /\ lock' = b /\ want' = want \ {b}
  /\ sent' = Append(sent, b) /\ todo' = clients
  /\ UNCHANGED <<clients, send, closed, ends, missed, panicked>>

Lock(b) ==
  /\ lock = None /\ b \in want
  /\ lock' = b /\ want' = want \ {b}
  /\ sent' = Append(sent, b) /\ todo' = clients
  /\ UNCHANGED <<clients, send, closed, ends, missed, panicked>>

Frame == Len(sent)

(* Mutants of Offer: the capacity is off by one, or a full channel is      *)
(* waited for.                                                             *)
OfferUpTo(c, cap, drops) ==
  /\ c \in todo /\ todo' = todo \ {c}
  /\ panicked' = (c \in closed)
  /\ \/ Len(send[c]) < cap
        /\ send' = [send EXCEPT ![c] = Append(@, Frame)] /\ UNCHANGED missed
     \/ drops /\ Len(send[c]) >= cap
        /\ missed' = [missed EXCEPT ![c] = @ \cup {Frame}] /\ UNCHANGED send
  /\ UNCHANGED <<lock, clients, want, sent, closed, ends>>

OfferOneMore(c) == OfferUpTo(c, SendSize + 1, TRUE)

OfferOneLess(c) == OfferUpTo(c, SendSize - 1, TRUE)

OfferBlocks(c) == OfferUpTo(c, SendSize, FALSE)

(* The select of the broadcast loop: a send on a closed channel panics,    *)
(* and a full channel makes the client miss the frame.                     *)
Offer(c) ==
  /\ c \in todo /\ todo' = todo \ {c}
  /\ panicked' = (c \in closed)
  /\ \/ Len(send[c]) < SendSize
        /\ send' = [send EXCEPT ![c] = Append(@, Frame)] /\ UNCHANGED missed
     \/ Len(send[c]) = SendSize
        /\ missed' = [missed EXCEPT ![c] = @ \cup {Frame}] /\ UNCHANGED send
  /\ UNCHANGED <<lock, clients, want, sent, closed, ends>>

Unlock ==
  /\ lock # None /\ todo = {} /\ lock' = None
  /\ UNCHANGED <<clients, want, sent, todo, send, closed, ends, missed, panicked>>

-----------------------------------------------------------------------------
Init ==
  /\ lock = None /\ clients = {} /\ want = {} /\ sent = <<>> /\ todo = {}
  /\ send = [c \in Clients |-> <<>>] /\ closed = {}
  /\ reader = [c \in Clients |-> "none"] /\ writer = [c \in Clients |-> "none"]
  /\ current = [c \in Clients |-> 0] /\ delivered = [c \in Clients |-> <<>>]
  /\ joined = [c \in Clients |-> 0]
  /\ missed = [c \in Clients |-> {}] /\ panicked = FALSE

ClientStep(c) ==
  \/ handle(c) \/ ReadFails(c) \/ Unregister(c) \/ CloseSend(c)
  \/ TakeFrame(c) \/ WriteMessage(c) \/ WriteFails(c) \/ ChannelEnds(c)

(* A panic in a goroutine ends the process.                                *)
Next ==
  /\ ~ panicked
  /\ \/ \E c \in Clients : ClientStep(c) \/ Offer(c)
     \/ \E b \in Broadcasters : Lock(b)
     \/ AlertArrives \/ FleetTick \/ Unlock

Spec == Init /\ [][Next]_vars

(* Goroutines that can run do, sync.Mutex starves nobody who waits for it, *)
(* and a write to a closed connection fails.  A connected client may stop  *)
(* reading for ever: no other write has to end.                            *)
FairSpec ==
  /\ Spec
  /\ WF_vars(Unlock) /\ \A b \in Broadcasters : SF_vars(Lock(b))
  /\ \A c \in Clients :
       /\ WF_vars(Offer(c))
       /\ SF_vars(Unregister(c)) /\ WF_vars(CloseSend(c))
       /\ WF_vars(TakeFrame(c)) /\ WF_vars(ChannelEnds(c))
       /\ WF_vars(reader[c] = "done" /\ WriteFails(c))

-----------------------------------------------------------------------------
(* Properties                                                              *)

(* Values have their types, send channels their capacity.                  *)
TypeOK ==
  /\ lock \in Broadcasters \cup {None} /\ want \subseteq Broadcasters
  /\ clients \subseteq Clients /\ todo \subseteq Clients /\ closed \subseteq Clients
  /\ sent \in Seq(Broadcasters)
  /\ send \in [Clients -> Seq(1 .. Len(sent))]
  /\ \A c \in Clients : Len(send[c]) <= SendSize
  /\ reader \in [Clients -> {"none", "reading", "failed", "removed", "done"}]
  /\ writer \in [Clients -> {"none", "select", "write", "stopped"}]
  /\ current \in [Clients -> 0 .. Len(sent)]
  /\ delivered \in [Clients -> Seq(1 .. Len(sent))]
  /\ joined \in [Clients -> 0 .. Len(sent)]
  /\ missed \in [Clients -> SUBSET (1 .. Len(sent))]
  /\ panicked \in BOOLEAN

(* A client may leave at any moment of a broadcast, and its channel is     *)
(* closed outside the lock: still no broadcast sends on a closed channel,  *)
(* which would take the service down.                                      *)
NeverSendsOnClosed == ~ panicked

(* What a connection was given, is being given and will be given.          *)
Stream(c) ==
  delivered[c] \o (IF current[c] = 0 THEN <<>> ELSE <<current[c]>>) \o send[c]

Increasing(s) == \A i, j \in DOMAIN s : i < j => s[i] < s[j]

(* The last frame a client of the hub should have been offered by now.     *)
Reached(c) == IF c \in todo THEN Frame - 1 ELSE Frame

(* Two goroutines broadcast to the same clients, yet all clients see one   *)
(* order, that of the lock: a client gets the frames from the one after it *)
(* connected to the newest, or to the last before it left, each once and   *)
(* in order, except those that it missed.                                  *)
OneOrder ==
  \A c \in Clients :
    LET got == Range(Stream(c)) \cup missed[c] IN
    /\ Increasing(Stream(c)) /\ Range(Stream(c)) \cap missed[c] = {}
    /\ \E last \in joined[c] .. Frame : got = joined[c] + 1 .. last
    /\ c \in clients => got = joined[c] + 1 .. Reached(c)

(* The frames before the one that is broadcast which a client was neither  *)
(* refused nor has had written to its connection.                          *)
Unwritten(c) ==
  (joined[c] + 1 .. Frame - 1) \ (missed[c] \cup Range(delivered[c]))

(* The hub refuses nobody who keeps up: when a client loses a frame, at    *)
(* least SendSize older frames that it is still to get are not yet written *)
(* to it, whatever readers, writers and earlier broadcasts did before.     *)
MissedWhenFull ==
  [][\A c \in Clients :
       missed'[c] # missed[c] => Cardinality(Unwritten(c)) >= SendSize]_vars

(* A client that neither reads nor answers holds up no broadcast: one that *)
(* waits for the lock gets it and finishes.                                *)
HubNeverBlocks == \A b \in Broadcasters : b \in want ~> ~ Busy(b)

(* A connection whose reader failed leaves nothing behind, whatever its    *)
(* writer was doing: it is out of the hub and both goroutines end.         *)
NoLeak ==
  \A c \in Clients :
    reader[c] = "failed" ~> c \notin clients /\ writer[c] = "stopped"

=============================================================================

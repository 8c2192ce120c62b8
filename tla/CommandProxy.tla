---------------------------- MODULE CommandProxy ----------------------------
(***************************************************************************)
(* The operator's end of the command path: the dashboard posts a command   *)
(* to the API, whose handleCommandProxy (api/main.go) forwards it to the   *)
(* command service and relays the answer.                                  *)
(*                                                                         *)
(* The proxy's HTTP client gives up after 5 s, while handleCreate does not *)
(* look at its request's context and carries on: the operator reads        *)
(* "Command failed" and may send the command again, as a new command.      *)
(* Requests that never reach the service change nothing and are left out.  *)
(*                                                                         *)
(* What the operator sees follows from the steps of the service, so this   *)
(* module conjoins it to the steps of CommandChannel.                      *)
(***************************************************************************)
EXTENDS CommandChannel, FiniteSets

VARIABLES
  caller,  \* for each handler, "waiting" while the proxy awaits its answer
  posts,   \* how often each request was posted
  told     \* the messages the operator was told were sent

operator == <<caller, posts, told>>

(* handleCreate of h begins, and returns. *)
Begins(h) == http[h].pc = "idle" /\ http'[h].pc = "created"
Ends(h) == http[h].pc # "idle" /\ http'[h].pc = "idle"

(* Its last write is done and its 202 is on its way. *)
Accepted(h) == Ends(h) /\ http[h].pc = "marked"

(* Mutant of Relayed: the proxy answers when the publish returns, in error *)
(* or not, and before the service has made a note of it.                   *)
RelayedEarly == {h \in Handlers : http[h].pc = "publish" /\ http'[h].pc # "publish"}

(* The handlers whose 202 the proxy relays: the operator's toast says      *)
(* "Sent".  Any other end of a request is an error to the operator.        *)
Relayed == {h \in Handlers : Accepted(h) /\ caller[h] = "waiting"}

(* What a step of the path means for the operator. *)
OperatorSees ==
  /\ caller' = [h \in Handlers |->
                  IF Begins(h) THEN "waiting" ELSE IF Ends(h) THEN "none" ELSE caller[h]]
  /\ posts' = [body \in Requests |->
                 posts[body] + Cardinality({h \in Handlers :
                                              Begins(h) /\ http'[h].cmd.body = body})]
  /\ told' = told \cup {Message(http[h].cmd) : h \in Relayed}

(* The client's timeout, or the operator closes the page. *)
GiveUp(h) ==
  /\ caller[h] = "waiting"
  /\ caller' = [caller EXCEPT ![h] = "gone"]
  /\ UNCHANGED <<vars, channel, posts, told>>

ProxyInit ==
  /\ ChannelInit
  /\ caller = [h \in Handlers |-> "none"]
  /\ posts = [body \in Requests |-> 0]
  /\ told = {}

ProxyNext ==
  \/ ChannelNext /\ OperatorSees
  \/ \E h \in Handlers : GiveUp(h)

ProxySpec == ProxyInit /\ [][ProxyNext]_<<vars, channel, operator>>

-----------------------------------------------------------------------------
(* Properties                                                              *)

(* The operator's "Sent" is no guess: the service handed over that very    *)
(* command and knows it as sent or further, whichever of the publish, the  *)
(* ack and the sweep came first.                                           *)
SentIsTrue ==
  \A m \in told :
    /\ m.id \in published \cap DOMAIN cmds
    /\ Message(cmds[m.id]) = m /\ cmds[m.id].state # "pending"

(* Every execution is accounted for.  A post makes at most one command,    *)
(* also when the proxy gave up on it or the publish failed halfway, and    *)
(* that command is executed once for each time the service's MQTT client   *)
(* sent it at most: the fleet applies a resent command again (on_message   *)
(* keeps no record of ids), but nothing else on the path makes it do so.   *)
ExecutedWasAsked ==
  /\ \A body \in Requests :
       Cardinality({m \in Executed : m.body = body}) <= posts[body]
  /\ \A m \in Messages : executions[m] <= sends[m]

=============================================================================

--------------------------- MODULE CommandDelivery --------------------------
(***************************************************************************)
(* What the command path promises an operator, whatever goroutines,        *)
(* clients and broker are in between: a command is reported applied only   *)
(* after a vehicle executed it, the report of a command never goes back,   *)
(* and no command is forgotten.                                            *)
(***************************************************************************)

CONSTANTS
  Commands,  \* the commands operators may issue
  Reports,   \* what may be reported of a command
  First,     \* the report of a command just issued
  Applied,   \* the report of a command known to be executed
  After      \* After[r]: the reports that may follow r

VARIABLES
  report,    \* a function from the commands issued to the reports on them
  executed   \* the commands vehicles executed

vars == <<report, executed>>

Init == report = <<>> /\ executed = {}

Issue(c) ==
  /\ c \notin DOMAIN report
  /\ report' = [d \in DOMAIN report \cup {c} |-> IF d = c THEN First ELSE report[d]]
  /\ UNCHANGED executed

Execute(c) ==
  /\ c \in DOMAIN report
  /\ executed' = executed \cup {c}
  /\ UNCHANGED report

(* A step may report on any number of commands at once: a sweep does.      *)
Report ==
  /\ report' \in [DOMAIN report -> Reports]
  /\ \A c \in DOMAIN report :
       /\ report'[c] # report[c] => report'[c] \in After[report[c]]
       /\ report'[c] = Applied => c \in executed
  /\ UNCHANGED executed

Next ==
  \/ \E c \in Commands : Issue(c) \/ Execute(c)
  \/ Report

Spec == Init /\ [][Next]_vars
=============================================================================

---------------------------- MODULE RollingWindow ----------------------------
(***************************************************************************)
(* What the anomaly rule promises: each value is judged against the last   *)
(* Window values before it, and then joins them.                           *)
(***************************************************************************)
EXTENDS Integers, Sequences

CONSTANTS Values, Window, Judge(_, _)  \* Judge(w, v): v stands out against w

VARIABLES
  window,   \* the last Window values, oldest first
  verdict   \* the verdict on the value observed last

vars == <<window, verdict>>

(* The window with v in: its oldest value leaves when there is no room.    *)
Slide(v) ==
  IF Len(window) < Window THEN Append(window, v) ELSE Append(Tail(window), v)

Init == window = <<>> /\ verdict = FALSE

Observe(v) == verdict' = Judge(window, v) /\ window' = Slide(v)

Next == \E v \in Values : Observe(v)

Spec == Init /\ [][Next]_vars
=============================================================================

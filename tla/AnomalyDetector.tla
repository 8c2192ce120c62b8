--------------------------- MODULE AnomalyDetector ---------------------------
(***************************************************************************)
(* The anomaly detector of internal/alertengine/anomaly.go, for one        *)
(* vehicle: vehicles share nothing but the lock, under which all of        *)
(* Observe runs.                                                           *)
(*                                                                         *)
(* Temperatures and k are integers here, so that the comparison with       *)
(* mean + k * stddev can be made exactly, by multiplying out n and         *)
(* squaring; the code makes it in floating point.                          *)
(***************************************************************************)
EXTENDS Integers, Sequences, Functions

CONSTANTS
  Values,   \* the values observed
  Window,   \* the window NewAnomalyDetector was given
  K,        \* k, the threshold in standard deviations
  MaxSeen   \* bound: values observed

ASSUME DetectorAssumption ==
  Values \subseteq Int /\ Window \in Int /\ K \in Nat /\ MaxSeen \in Nat

(* NewAnomalyDetector: at least two values make a window.                  *)
window == IF Window < 2 THEN 2 ELSE Window

VARIABLES
  buf,      \* ring.buf
  idx,      \* ring.idx, from 0
  verdict,  \* what Observe returned last
  seen      \* all values observed, oldest first

vars == <<buf, idx, verdict, seen>>

-----------------------------------------------------------------------------
(* stats, multiplied out: with n values of sum S, n * mean is S, n times   *)
(* the distance of x from the mean is n * x - S, and n^3 * std^2 is the    *)
(* sum of the squares of these distances.                                  *)
Sum(b) == SumFunction(b)

Scaled(b, x) == Len(b) * x - Sum(b)

Spread(b) == SumFunction([i \in DOMAIN b |-> Scaled(b, b[i]) * Scaled(b, b[i])])

(* v > mean + k * std: both sides are multiplied by n and squared.         *)
Exceeds(b, v) ==
  /\ Scaled(b, v) > 0
  /\ Len(b) * Scaled(b, v) * Scaled(b, v) > K * K * Spread(b)

Anomalous(b, v) ==
  /\ Len(b) >= window \div 2 /\ Len(b) >= 2
  /\ Spread(b) > 0
  /\ Exceeds(b, v)

(* Mutants of push: the position is not wrapped, or wrapped one too early. *)
pushUnwrapped(v) ==
  IF Len(buf) < window
  THEN buf' = Append(buf, v) /\ UNCHANGED idx
  ELSE buf' = [buf EXCEPT ![idx + 1] = v] /\ idx' = idx + 1

pushShort(v) ==
  IF Len(buf) < window
  THEN buf' = Append(buf, v) /\ UNCHANGED idx
  ELSE buf' = [buf EXCEPT ![idx + 1] = v] /\ idx' = (idx + 1) % (window - 1)

(* ring.push: the buffer grows up to the window, then is overwritten in    *)
(* turn.  ring.full is never read.                                         *)
push(v) ==
  IF Len(buf) < window
  THEN buf' = Append(buf, v) /\ UNCHANGED idx
  ELSE buf' = [buf EXCEPT ![idx + 1] = v] /\ idx' = (idx + 1) % window

(* Mutant of Observe: the value is part of its own baseline.               *)
ObservePushFirst(v) ==
  /\ Len(seen) < MaxSeen
  /\ push(v)
  /\ verdict' = Anomalous(buf', v)
  /\ seen' = Append(seen, v)

Observe(v) ==
  /\ Len(seen) < MaxSeen
  /\ verdict' = Anomalous(buf, v)
  /\ push(v)
  /\ seen' = Append(seen, v)

Init == buf = <<>> /\ idx = 0 /\ verdict = FALSE /\ seen = <<>>

Next == \E v \in Values : Observe(v)

Spec == Init /\ [][Next]_vars

-----------------------------------------------------------------------------
(* Properties                                                              *)

(* Where the ring is overwritten next is its oldest value.                 *)
Unrolled == SubSeq(buf, idx + 1, Len(buf)) \o SubSeq(buf, 1, idx)

TypeOK ==
  /\ buf \in Seq(Values) /\ Len(buf) <= window
  /\ idx \in 0 .. window - 1 /\ (Len(buf) < window => idx = 0)
  /\ verdict \in BOOLEAN /\ seen \in Seq(Values)

(* A verdict by the textbook, on a window w: the variance from the         *)
(* differences of all pairs (their squares sum to 2 n^2 var), and no       *)
(* baseline until the window is half full.                                 *)
Textbook(w, v) ==
  LET n == Len(w)
      total == SumFunction(w)
      pairs == SumFunction([p \in (DOMAIN w) \X (DOMAIN w) |->
                              (w[p[1]] - w[p[2]]) * (w[p[1]] - w[p[2]])])
  IN /\ n >= 2 /\ 2 * n + 1 >= window /\ pairs > 0
     /\ n * v > total
     /\ 2 * (n * v - total) * (n * v - total) > K * K * pairs

Rolling ==
  INSTANCE RollingWindow
    WITH window <- Unrolled, Window <- window, Judge <- Textbook

(* The detector is the rolling window: overwriting the ring in place never *)
(* mixes a value into the baseline of itself, drops one early or keeps one *)
(* late, whatever order the buffer is summed in.                           *)
RollsOverHistory == Rolling!Spec

=============================================================================

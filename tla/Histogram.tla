------------------------------ MODULE Histogram ------------------------------
(***************************************************************************)
(* The latency histogram of internal/metrics/metrics.go and the part of    *)
(* Handler that reports it.                                                *)
(*                                                                         *)
(* Observe runs in any goroutine, under the histogram's mutex.  A scrape   *)
(* takes that mutex four times: once for each quantile, to copy the        *)
(* samples, and once for the sum and the count.  Observations may fall     *)
(* between, so the figures of one report are of different moments.         *)
(***************************************************************************)
EXTENDS Integers, Sequences, FiniteSets, Functions

CONSTANTS
  Latencies,        \* values observed
  Capacity,         \* the capacity asked of NewHistogram
  DefaultCapacity,  \* 1024
  MaxObserved       \* bound: observations

ASSUME HistogramAssumption ==
  /\ Latencies \subseteq Nat /\ Capacity \in Int
  /\ DefaultCapacity \in Nat \ {0} /\ MaxObserved \in Nat

VARIABLES
  samples, slot, count, sum,  \* Histogram's samples, idx, count and sum
  report,    \* the lines of the scrape under way, or of the last one
  observed   \* everything observed so far

histogramVars == <<samples, slot, count, sum, report, observed>>

cap == IF Capacity <= 0 THEN DefaultCapacity ELSE Capacity

(* In percent, in the order of the lines; a last line has the totals. *)
Quantiles == <<50, 95, 99>>

(* Mutant of Record: the slot is advanced before it is written, and the    *)
(* oldest sample survives the newer ones.                                  *)
RecordAhead(v) ==
  IF Len(samples) < cap
  THEN samples' = Append(samples, v) /\ UNCHANGED slot
  ELSE /\ slot' = (slot + 1) % cap
       /\ samples' = [samples EXCEPT ![slot' + 1] = v]

(* The ring is filled, then overwritten from its first slot on. *)
Record(v) ==
  IF Len(samples) < cap
  THEN samples' = Append(samples, v) /\ UNCHANGED slot
  ELSE /\ samples' = [samples EXCEPT ![slot + 1] = v]
       /\ slot' = (slot + 1) % cap

ObserveLatency(v) ==
  /\ Len(observed) < MaxObserved
  /\ Record(v)
  /\ count' = count + 1 /\ sum' = sum + v
  /\ observed' = Append(observed, v) /\ UNCHANGED report

(* sort.Float64s: the same values in an order in which none falls. *)
Sorted(s) ==
  LET order == CHOOSE p \in Bijection(DOMAIN s, DOMAIN s) :
                 \A i, j \in DOMAIN s : i < j => s[p[i]] <= s[p[j]]
  IN [i \in DOMAIN s |-> s[order[i]]]

(* int() cuts the rank down; an empty histogram reports 0. *)
Quantile(s, q) ==
  IF s = <<>> THEN 0 ELSE Sorted(s)[(q * (Len(s) - 1)) \div 100 + 1]

(* What a line says, and of how many observations: the totals' line states *)
(* its count, a quantile's does not.                                       *)
Line(i) ==
  IF i > Len(Quantiles) THEN [value |-> sum, of |-> count]
  ELSE [value |-> Quantile(samples, Quantiles[i]), of |-> Len(observed)]

(* Handler: the next line, each with a critical section of its own.        *)
ScrapeLine ==
  /\ report' = IF Len(report) > Len(Quantiles) THEN <<Line(1)>>
               ELSE Append(report, Line(Len(report) + 1))
  /\ UNCHANGED <<samples, slot, count, sum, observed>>

HistogramInit ==
  /\ samples = <<>> /\ slot = 0 /\ count = 0 /\ sum = 0
  /\ report = <<>> /\ observed = <<>>

HistogramNext == (\E v \in Latencies : ObserveLatency(v)) \/ ScrapeLine

HistogramSpec == HistogramInit /\ [][HistogramNext]_histogramVars

-----------------------------------------------------------------------------
(* Properties                                                              *)

(* Values have their types. *)
HistogramTypeOK ==
  /\ samples \in Seq(Latencies) /\ Len(samples) <= cap
  /\ slot \in 0 .. cap - 1 /\ count \in Nat /\ sum \in Nat
  /\ Len(report) <= Len(Quantiles) + 1 /\ observed \in Seq(Latencies)

(* The last observations there is room for, among the first n. *)
Retained(n) == SubSeq(observed, IF n > cap THEN n - cap + 1 ELSE 1, n)

(* v has a rank in s: not more than r values are below it, and more than r *)
(* are not above.                                                          *)
HasRank(v, r, s) ==
  /\ \E i \in DOMAIN s : s[i] = v
  /\ Cardinality({i \in DOMAIN s : s[i] < v}) <= r
  /\ Cardinality({i \in DOMAIN s : s[i] <= v}) > r

(* Whatever is observed between the lines of a report, each quantile has   *)
(* its rank among the last observations at one moment of the scrape, and   *)
(* the sum is that of exactly as many observations as the count says.      *)
ScrapeIsTrue ==
  \A i \in DOMAIN report :
    LET n == report[i].of  s == Retained(n) IN
    IF i > Len(Quantiles) THEN report[i].value = SumFunction(SubSeq(observed, 1, n))
    ELSE IF s = <<>> THEN report[i].value = 0
    ELSE HasRank(report[i].value, (Quantiles[i] * (Len(s) - 1)) \div 100, s)

=============================================================================

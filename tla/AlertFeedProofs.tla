--------------------------- MODULE AlertFeedProofs ---------------------------
(***************************************************************************)
(* Proofs about the list of alerts an operator reads, for any number of    *)
(* goroutines that fire, any caps on the lists and any number of broken    *)
(* connections.                                                            *)
(*                                                                         *)
(* Two invariants carry the theorems.  History says that every list is the *)
(* top of an endless one: the list in Redis of the alerts recorded, the    *)
(* answer of those the read knew, the page of the alerts pushed over the   *)
(* answer.  Once says that the endless ones name an alert once, because    *)
(* the alerts are on their way to the page in the order they were fired.   *)
(***************************************************************************)
EXTENDS AlertFeed, SequenceTheorems, TLAPS

(* What the read that answered the page knew of the list. *)
Known == Lists!Reverse(SubSeq(recorded, 1, read))

History ==
  /\ Upto(recent, RecentMax) = Upto(Lists!Reverse(recorded), RecentMax)
  /\ request = "answered" => answer = Upto(Known, RangeMax)
  /\ request = "loaded" => alerts = Upto(Lists!Reverse(arrived) \o Known, MaxAlerts)
  /\ request # "loaded" => alerts = Upto(Lists!Reverse(arrived), MaxAlerts)
  /\ request \in {"idle", "asked", "failed"} => read = 0

(* Alerts on their way to the page, in the order they were fired. *)
Ordered ==
  /\ \A i, j \in DOMAIN bus : i < j => bus[i] < bus[j]
  /\ \A i, j \in DOMAIN pushes :
       i < j /\ pushes[i] # 0 /\ pushes[j] # 0 => pushes[i] < pushes[j]
  /\ \A i, j \in DOMAIN arrived : i < j => arrived[i] < arrived[j]
  /\ \A i \in DOMAIN arrived : \A j \in DOMAIN pushes : pushes[j] # 0 => arrived[i] < pushes[j]
  /\ \A i \in DOMAIN arrived : \A j \in DOMAIN bus : arrived[i] < bus[j]
  /\ \A i \in DOMAIN pushes : \A j \in DOMAIN bus : pushes[i] < bus[j]

RecordedOnce ==
  /\ \A i, j \in DOMAIN recorded : recorded[i] = recorded[j] => i = j
  /\ \A f \in Firers : firing[f] # 0 =>
       /\ \A i \in DOMAIN recorded : recorded[i] # firing[f]
       /\ \A g \in Firers : firing[g] = firing[f] => g = f

Once == Ordered /\ RecordedOnce

FeedInv == FeedTypeOK /\ History /\ Once

-----------------------------------------------------------------------------
(* Lists cut to a length, and lists turned around.                         *)

LEMMA ReverseFacts ==
  ASSUME NEW S, NEW s \in Seq(S)
  PROVE  /\ Lists!Reverse(s) \in Seq(S) /\ Len(Lists!Reverse(s)) = Len(s)
         /\ \A i \in 1 .. Len(s) : Lists!Reverse(s)[i] = s[Len(s) - i + 1]
<1>1. Len(s) \in Nat BY LenProperties
<1>2. \A i \in 1 .. Len(s) : s[Len(s) - i + 1] \in S
  BY <1>1, ElementOfSeq
<1> QED BY <1>1, <1>2 DEF Lists!Reverse

LEMMA UptoFacts ==
  ASSUME NEW S, NEW s \in Seq(S), NEW n \in Nat
  PROVE  /\ Upto(s, n) \in Seq(S)
         /\ Len(Upto(s, n)) = IF Len(s) > n THEN n ELSE Len(s)
         /\ \A i \in 1 .. Len(Upto(s, n)) : Upto(s, n)[i] = s[i]
<1>1. Len(s) \in Nat BY LenProperties
<1>2. CASE Len(s) > n
  <2>1. \A i \in 1 .. n : s[i] \in S BY <1>1, <1>2, ElementOfSeq
  <2>2. /\ SubSeq(s, 1, n) \in Seq(S)
        /\ Len(SubSeq(s, 1, n)) = IF 1 <= n THEN n - 1 + 1 ELSE 0
        /\ \A i \in 1 .. n - 1 + 1 : SubSeq(s, 1, n)[i] = s[1 + i - 1]
    BY <2>1, SubSeqProperties
  <2>3. Upto(s, n) = SubSeq(s, 1, n) BY <1>2 DEF Upto
  <2>4. Len(Upto(s, n)) = n BY <2>2, <2>3
  <2>5. \A i \in 1 .. n : Upto(s, n)[i] = s[i]
    <3>1. \A i \in 1 .. n : i \in 1 .. n - 1 + 1 /\ 1 + i - 1 = i OBVIOUS
    <3> QED BY <2>2, <2>3, <3>1
  <2> QED BY <1>2, <2>2, <2>3, <2>4, <2>5
<1>3. CASE ~ (Len(s) > n)
  <2>1. Upto(s, n) = s BY <1>3 DEF Upto
  <2> QED BY <1>3, <2>1
<1> QED BY <1>2, <1>3

(* Two lists have the same top if they agree that far. *)
LEMMA UptoEqual ==
  ASSUME NEW S, NEW s \in Seq(S), NEW t \in Seq(S), NEW n \in Nat,
         Len(s) = Len(t) \/ (Len(s) >= n /\ Len(t) >= n),
         \A i \in 1 .. n : i <= Len(s) /\ i <= Len(t) => s[i] = t[i]
  PROVE  Upto(s, n) = Upto(t, n)
<1>1. Len(s) \in Nat /\ Len(t) \in Nat BY LenProperties
<1>2. PICK u, v : u = Upto(s, n) /\ v = Upto(t, n) OBVIOUS
<1>3. /\ u \in Seq(S) /\ Len(u) = (IF Len(s) > n THEN n ELSE Len(s))
      /\ \A i \in 1 .. Len(u) : u[i] = s[i]
  BY <1>2, UptoFacts
<1>4. /\ v \in Seq(S) /\ Len(v) = (IF Len(t) > n THEN n ELSE Len(t))
      /\ \A i \in 1 .. Len(v) : v[i] = t[i]
  BY <1>2, UptoFacts
<1>5. Len(u) = Len(v) BY <1>1, <1>3, <1>4
<1>6. \A i \in 1 .. Len(u) : u[i] = v[i]
  <2>1. ASSUME NEW i \in 1 .. Len(u) PROVE u[i] = v[i]
    <3>1. i \in 1 .. n /\ i <= Len(s) /\ i <= Len(t) BY <1>1, <1>3, <1>4, <1>5
    <3> QED BY <1>3, <1>4, <1>5, <3>1
  <2> QED BY <2>1
<1>7. u = v BY <1>3, <1>4, <1>5, <1>6, SeqEqual
<1> QED BY <1>2, <1>7

LEMMA UptoUpto ==
  ASSUME NEW S, NEW s \in Seq(S), NEW n \in Nat, NEW m \in Nat, m <= n
  PROVE  Upto(Upto(s, n), m) = Upto(s, m)
<1>1. PICK u : u = Upto(s, n) OBVIOUS
<1>2. /\ u \in Seq(S) /\ Len(u) = (IF Len(s) > n THEN n ELSE Len(s))
      /\ \A i \in 1 .. Len(u) : u[i] = s[i]
  BY <1>1, UptoFacts
<1>3. Len(s) \in Nat BY LenProperties
<1>4. Len(s) = Len(u) \/ (Len(s) >= m /\ Len(u) >= m) BY <1>2, <1>3
<1>5. \A i \in 1 .. m : i <= Len(u) /\ i <= Len(s) => u[i] = s[i] BY <1>2, <1>3
<1>6. Upto(u, m) = Upto(s, m) BY <1>2, <1>4, <1>5, UptoEqual
<1> QED BY <1>1, <1>6

LEMMA ConsFacts ==
  ASSUME NEW S, NEW s \in Seq(S), NEW a \in S
  PROVE  /\ <<a>> \o s \in Seq(S) /\ Len(<<a>> \o s) = Len(s) + 1
         /\ (<<a>> \o s)[1] = a
         /\ \A i \in 2 .. Len(s) + 1 : (<<a>> \o s)[i] = s[i - 1]
<1>1. PICK b : b = <<a>> OBVIOUS
<1>2. b \in Seq(S) /\ Len(b) = 1 /\ b[1] = a BY <1>1
<1>3. Len(s) \in Nat BY LenProperties
<1>4. /\ b \o s \in Seq(S) /\ Len(b \o s) = Len(b) + Len(s)
      /\ \A i \in 1 .. Len(b) + Len(s) :
           (b \o s)[i] = IF i <= Len(b) THEN b[i] ELSE s[i - Len(b)]
  BY <1>2, ConcatProperties
<1>5. (b \o s)[1] = a /\ \A i \in 2 .. Len(s) + 1 : (b \o s)[i] = s[i - 1]
  BY <1>2, <1>3, <1>4
<1> QED BY <1>1, <1>2, <1>3, <1>4, <1>5

(* An alert over a list that was cut, or not, is over the list. *)
LEMMA UptoCons ==
  ASSUME NEW S, NEW s \in Seq(S), NEW t \in Seq(S), NEW a \in S, NEW n \in Nat,
         Upto(s, n) = Upto(t, n)
  PROVE  Upto(<<a>> \o s, n) = Upto(<<a>> \o t, n)
<1>1. Len(s) \in Nat /\ Len(t) \in Nat BY LenProperties
<1>2. PICK u, v : u = <<a>> \o s /\ v = <<a>> \o t OBVIOUS
<1>3. /\ u \in Seq(S) /\ Len(u) = Len(s) + 1 /\ u[1] = a
      /\ \A i \in 2 .. Len(s) + 1 : u[i] = s[i - 1]
  BY <1>2, ConsFacts
<1>4. /\ v \in Seq(S) /\ Len(v) = Len(t) + 1 /\ v[1] = a
      /\ \A i \in 2 .. Len(t) + 1 : v[i] = t[i - 1]
  BY <1>2, ConsFacts
<1>5. PICK x, y : x = Upto(s, n) /\ y = Upto(t, n) OBVIOUS
<1>6. /\ Len(x) = (IF Len(s) > n THEN n ELSE Len(s)) /\ \A i \in 1 .. Len(x) : x[i] = s[i]
  BY <1>5, UptoFacts
<1>7. /\ Len(y) = (IF Len(t) > n THEN n ELSE Len(t)) /\ \A i \in 1 .. Len(y) : y[i] = t[i]
  BY <1>5, UptoFacts
<1>8. Len(u) = Len(v) \/ (Len(u) >= n /\ Len(v) >= n)
  BY <1>1, <1>3, <1>4, <1>5, <1>6, <1>7
<1>9. ASSUME NEW i \in 1 .. n, i <= Len(u), i <= Len(v) PROVE u[i] = v[i]
  <2>1. CASE i = 1 BY <1>3, <1>4, <2>1
  <2>2. CASE i # 1
    <3>1. /\ i \in 2 .. Len(s) + 1 /\ i \in 2 .. Len(t) + 1
          /\ i - 1 \in 1 .. Len(x) /\ i - 1 \in 1 .. Len(y)
      BY <1>1, <1>3, <1>4, <1>6, <1>7, <1>9, <2>2
    <3>2. s[i - 1] = t[i - 1] BY <1>5, <1>6, <1>7, <3>1
    <3> QED BY <1>3, <1>4, <3>1, <3>2
  <2> QED BY <2>1, <2>2
<1>10. Upto(u, n) = Upto(v, n) BY <1>3, <1>4, <1>8, <1>9, UptoEqual
<1> QED BY <1>2, <1>10

LEMMA Associative == \A S : \A a, b, d \in Seq(S) : (a \o b) \o d = a \o (b \o d)
BY ConcatAssociative

(* Turned around, the last comes first. *)
LEMMA ReverseAppend ==
  ASSUME NEW S, NEW s \in Seq(S), NEW a \in S
  PROVE  Lists!Reverse(Append(s, a)) = <<a>> \o Lists!Reverse(s)
<1>1. Len(s) \in Nat BY LenProperties
<1>2. PICK t, r : t = Append(s, a) /\ r = Lists!Reverse(s) OBVIOUS
<1>3. /\ t \in Seq(S) /\ Len(t) = Len(s) + 1 /\ t[Len(s) + 1] = a
      /\ \A i \in 1 .. Len(s) : t[i] = s[i]
  BY <1>2, AppendProperties
<1>4. /\ r \in Seq(S) /\ Len(r) = Len(s) /\ \A i \in 1 .. Len(s) : r[i] = s[Len(s) - i + 1]
  BY <1>2, ReverseFacts
<1>5. PICK u, v : u = Lists!Reverse(t) /\ v = <<a>> \o r OBVIOUS
<1>6. /\ u \in Seq(S) /\ Len(u) = Len(s) + 1
      /\ \A i \in 1 .. Len(s) + 1 : u[i] = t[Len(s) + 1 - i + 1]
  BY <1>3, <1>5, ReverseFacts
<1>7. /\ v \in Seq(S) /\ Len(v) = Len(s) + 1 /\ v[1] = a
      /\ \A i \in 2 .. Len(s) + 1 : v[i] = r[i - 1]
  BY <1>4, <1>5, ConsFacts
<1>8. ASSUME NEW i \in 1 .. Len(u) PROVE u[i] = v[i]
  <2>1. CASE i = 1
    <3>1. u[1] = t[Len(s) + 1] BY <1>1, <1>6
    <3> QED BY <1>3, <1>7, <2>1, <3>1
  <2>2. CASE i # 1
    <3>1. /\ i \in 2 .. Len(s) + 1 /\ i - 1 \in 1 .. Len(s)
          /\ Len(s) + 1 - i + 1 \in 1 .. Len(s)
          /\ Len(s) + 1 - i + 1 = Len(s) - (i - 1) + 1
      BY <1>1, <1>6, <1>8, <2>2
    <3>2. v[i] = s[Len(s) - (i - 1) + 1] BY <1>4, <1>7, <3>1
    <3>3. u[i] = t[Len(s) + 1 - i + 1] BY <1>6, <1>8
    <3>4. t[Len(s) + 1 - i + 1] = s[Len(s) + 1 - i + 1] BY <1>3, <3>1
    <3> QED BY <3>1, <3>2, <3>3, <3>4
  <2> QED BY <2>1, <2>2
<1>9. u = v BY <1>6, <1>7, <1>8, SeqEqual
<1> QED BY <1>2, <1>5, <1>9

LEMMA PrefixFacts ==
  ASSUME NEW S, NEW s \in Seq(S), NEW n \in 0 .. Len(s)
  PROVE  /\ SubSeq(s, 1, n) \in Seq(S) /\ Len(SubSeq(s, 1, n)) = n
         /\ \A i \in 1 .. n : SubSeq(s, 1, n)[i] = s[i]
<1>1. Len(s) \in Nat /\ n \in Nat BY LenProperties
<1>2. \A i \in 1 .. n : s[i] \in S BY <1>1, ElementOfSeq
<1>3. /\ SubSeq(s, 1, n) \in Seq(S)
      /\ Len(SubSeq(s, 1, n)) = IF 1 <= n THEN n - 1 + 1 ELSE 0
      /\ \A i \in 1 .. n - 1 + 1 : SubSeq(s, 1, n)[i] = s[1 + i - 1]
  BY <1>1, <1>2, SubSeqProperties
<1>4. \A i \in 1 .. n : i \in 1 .. n - 1 + 1 /\ 1 + i - 1 = i BY <1>1
<1> QED BY <1>1, <1>3, <1>4

LEMMA PrefixOfAppend ==
  ASSUME NEW S, NEW s \in Seq(S), NEW a \in S, NEW n \in 0 .. Len(s)
  PROVE  SubSeq(Append(s, a), 1, n) = SubSeq(s, 1, n)
<1>1. PICK t : t = Append(s, a) OBVIOUS
<1>2. /\ t \in Seq(S) /\ Len(t) = Len(s) + 1 /\ \A i \in 1 .. Len(s) : t[i] = s[i]
      /\ Len(s) \in Nat /\ n \in 0 .. Len(t)
  BY <1>1, AppendProperties, LenProperties
<1>3. PICK u, v : u = SubSeq(t, 1, n) /\ v = SubSeq(s, 1, n) OBVIOUS
<1>4. u \in Seq(S) /\ Len(u) = n /\ \A i \in 1 .. n : u[i] = t[i]
  BY <1>2, <1>3, PrefixFacts
<1>5. v \in Seq(S) /\ Len(v) = n /\ \A i \in 1 .. n : v[i] = s[i] BY <1>3, PrefixFacts
<1>6. \A i \in 1 .. n : u[i] = v[i] BY <1>2, <1>4, <1>5
<1> QED BY <1>1, <1>3, <1>4, <1>5, <1>6, SeqEqual

LEMMA WholePrefix ==
  ASSUME NEW S, NEW s \in Seq(S)
  PROVE  SubSeq(s, 1, Len(s)) = s
<1>1. PICK u : u = SubSeq(s, 1, Len(s)) OBVIOUS
<1>2. Len(s) \in 0 .. Len(s) BY LenProperties
<1>3. u \in Seq(S) /\ Len(u) = Len(s) /\ \A i \in 1 .. Len(s) : u[i] = s[i]
  BY <1>1, <1>2, PrefixFacts
<1> QED BY <1>1, <1>3, SeqEqual

LEMMA NothingKnown ==
  ASSUME NEW S, NEW s \in Seq(S)
  PROVE  /\ Lists!Reverse(SubSeq(s, 1, 0)) = <<>> /\ Lists!Reverse(<<>>) = <<>>
         /\ \A t \in Seq(S) : t \o <<>> = t /\ <<>> \o t = t
<1>1. SubSeq(s, 1, 0) = <<>> BY SubSeqEmpty
<1>2. /\ <<>> \in Seq(S) /\ Len(<<>>) = 0 BY EmptySeq
<1>3. PICK r : r = Lists!Reverse(<<>>) OBVIOUS
<1>4. r \in Seq(S) /\ Len(r) = 0 BY <1>2, <1>3, ReverseFacts
<1>5. r = <<>> BY <1>2, <1>4, EmptySeq
<1> QED BY <1>1, <1>3, <1>5, ConcatEmptySeq

(* Turned around, a list that names nothing twice still does not. *)
LEMMA ReverseOnce ==
  ASSUME NEW S, NEW s \in Seq(S), NEW r, r = Lists!Reverse(s),
         \A i, j \in DOMAIN s : s[i] = s[j] => i = j
  PROVE  /\ r \in Seq(S) /\ Len(r) = Len(s)
         /\ \A i, j \in 1 .. Len(r) : r[i] = r[j] => i = j
<1>1. Len(s) \in Nat /\ DOMAIN s = 1 .. Len(s) BY LenProperties
<1>2. /\ r \in Seq(S) /\ Len(r) = Len(s)
      /\ \A i \in 1 .. Len(s) : r[i] = s[Len(s) - i + 1]
  BY ReverseFacts
<1>3. ASSUME NEW i \in 1 .. Len(r), NEW j \in 1 .. Len(r), r[i] = r[j] PROVE i = j
  <2>1. s[Len(s) - i + 1] = s[Len(s) - j + 1] BY <1>2, <1>3
  <2>2. Len(s) - i + 1 \in DOMAIN s /\ Len(s) - j + 1 \in DOMAIN s BY <1>1, <1>2
  <2>3. Len(s) - i + 1 = Len(s) - j + 1 BY <2>1, <2>2
  <2> QED BY <1>1, <1>2, <2>3
<1> QED BY <1>2, <1>3

(* In the top of two lists that name nothing twice, one over the other, an *)
(* entry is named twice only by being in both.                             *)
LEMMA TopOnce ==
  ASSUME NEW b \in Seq(Nat), NEW k \in Seq(Nat), NEW n \in Nat,
         \A x, y \in 1 .. Len(b) : b[x] = b[y] => x = y,
         \A x, y \in 1 .. Len(k) : k[x] = k[y] => x = y,
         NEW a, a = Upto(b \o k, n),
         NEW i \in DOMAIN a, NEW j \in DOMAIN a, i < j, a[i] = a[j]
  PROVE  i <= Len(b) /\ j > Len(b) /\ j <= Len(b) + Len(k)
<1>1. Len(b) \in Nat /\ Len(k) \in Nat BY LenProperties
<1>2. PICK h : h = b \o k OBVIOUS
<1>3. /\ h \in Seq(Nat) /\ Len(h) = Len(b) + Len(k)
      /\ \A x \in 1 .. Len(b) + Len(k) : h[x] = IF x <= Len(b) THEN b[x] ELSE k[x - Len(b)]
  BY <1>2, ConcatProperties
<1>4. a = Upto(h, n) BY <1>2
<1>5. /\ a \in Seq(Nat) /\ Len(a) = (IF Len(h) > n THEN n ELSE Len(h))
      /\ \A x \in 1 .. Len(a) : a[x] = h[x]
  <2>1. h \in Seq(Nat) /\ n \in Nat BY <1>3
  <2> QED BY ONLY <1>4, <2>1, UptoFacts
<1>6. DOMAIN a = 1 .. Len(a) /\ Len(a) \in Nat BY <1>5, LenProperties
<1>7. i \in 1 .. Len(a) /\ j \in 1 .. Len(a) BY <1>6
<1>8. h[i] = h[j] BY <1>5, <1>7
<1>9. i \in 1 .. Len(b) + Len(k) /\ j \in 1 .. Len(b) + Len(k) BY <1>1, <1>3, <1>5, <1>7
<1>10. ASSUME j <= Len(b) PROVE FALSE
  <2>1. i \in 1 .. Len(b) /\ j \in 1 .. Len(b) BY <1>1, <1>9, <1>10
  <2>2. h[i] = b[i] /\ h[j] = b[j] BY <1>3, <1>9, <2>1
  <2>3. i = j BY <1>8, <2>1, <2>2
  <2> QED BY <1>1, <1>9, <2>3
<1>11. ASSUME i > Len(b) PROVE FALSE
  <2>1. i - Len(b) \in 1 .. Len(k) /\ j - Len(b) \in 1 .. Len(k) BY <1>1, <1>9, <1>11
  <2>2. ~ (i <= Len(b)) /\ ~ (j <= Len(b)) BY <1>1, <1>9, <1>11
  <2>3. h[i] = k[i - Len(b)] /\ h[j] = k[j - Len(b)] BY <1>3, <1>9, <2>2
  <2>4. i - Len(b) = j - Len(b) BY <1>8, <2>1, <2>3
  <2> QED BY <1>1, <1>9, <2>4
<1> QED BY <1>1, <1>9, <1>10, <1>11

-----------------------------------------------------------------------------
(* The types. *)

LEMMA TypeFacts ==
  ASSUME FeedTypeOK
  PROVE  /\ fired \in Nat /\ Alerts \subseteq Nat
         /\ bus \in Seq(Nat) /\ recent \in Seq(Nat) /\ recorded \in Seq(Nat)
         /\ answer \in Seq(Nat) /\ arrived \in Seq(Nat) /\ alerts \in Seq(Nat)
         /\ pushes \in Seq(Nat)
         /\ Len(pushes) \in Nat /\ Len(recorded) \in Nat /\ read \in 0 .. Len(recorded)
         /\ \A f \in Firers : firing[f] \in 0 .. fired
<1>1. fired \in Nat BY DEF FeedTypeOK
<1>2. Alerts \subseteq Nat /\ {0} \cup Alerts \subseteq Nat /\ {0} \cup Alerts = 0 .. fired
  BY <1>1 DEF Alerts
<1>3. /\ bus \in Seq(Nat) /\ recent \in Seq(Nat) /\ recorded \in Seq(Nat)
      /\ answer \in Seq(Nat) /\ arrived \in Seq(Nat) /\ alerts \in Seq(Nat)
  BY <1>2, SeqMonotonic DEF FeedTypeOK
<1>4. pushes \in Seq(Nat) BY <1>2, SeqMonotonic DEF FeedTypeOK
<1>5. \A f \in Firers : firing[f] \in 0 .. fired BY <1>2 DEF FeedTypeOK
<1> QED BY <1>1, <1>2, <1>3, <1>4, <1>5, LenProperties DEF FeedTypeOK

LEMMA PublishTypes ==
  ASSUME FeedTypeOK, NEW f \in Firers, PublishAlert(f)
  PROVE  FeedTypeOK'
<1> USE DEF feedPage
<1>1. /\ fired' = fired + 1 /\ fired \in Nat /\ fired' \in 0 .. MaxFired
  BY FeedAssumption DEF PublishAlert, FeedTypeOK
<1>2. PICK A : A = Alerts' OBVIOUS
<1>3. Alerts \subseteq A /\ fired + 1 \in A /\ {0} \cup Alerts \subseteq {0} \cup A
  BY <1>1, <1>2 DEF Alerts
<1>4. /\ bus \in Seq(A) /\ recent \in Seq(A) /\ recorded \in Seq(A)
      /\ answer \in Seq(A) /\ arrived \in Seq(A) /\ alerts \in Seq(A)
  BY <1>3, SeqMonotonic DEF FeedTypeOK
<1>5. pushes \in Seq({0} \cup A) BY <1>3, SeqMonotonic DEF FeedTypeOK
<1>6. bus' \in Seq(A)
  <2>1. Append(bus, fired + 1) \in Seq(A) BY <1>3, <1>4, AppendProperties
  <2> QED BY <1>4, <2>1 DEF PublishAlert
<1>7. firing' \in [Firers -> {0} \cup A] BY <1>3 DEF PublishAlert, FeedTypeOK
<1>8. UNCHANGED <<recent, recorded, live, pushes, request, answer, alerts, read, arrived, cuts>>
  BY DEF PublishAlert
<1> QED BY <1>1, <1>2, <1>4, <1>5, <1>6, <1>7, <1>8 DEF FeedTypeOK

LEMMA RecordTypes ==
  ASSUME FeedTypeOK, NEW f \in Firers, RecordAlert(f)
  PROVE  FeedTypeOK'
<1> USE DEF feedPage
<1>1. PICK a : a = firing[f] OBVIOUS
<1>2. a \in Alerts BY <1>1 DEF RecordAlert, FeedTypeOK, Alerts
<1>3. recent' \in Seq(Alerts)
  <2>1. PICK u : u = <<a>> \o recent OBVIOUS
  <2>2. u \in Seq(Alerts) BY <1>2, <2>1, ConsFacts DEF FeedTypeOK
  <2>3. Upto(u, RecentMax) \in Seq(Alerts) BY <2>2, FeedAssumption, UptoFacts
  <2> QED BY <1>1, <2>1, <2>2, <2>3 DEF RecordAlert, Recorded, FeedTypeOK
<1>4. recorded' \in Seq(Alerts) /\ read \in 0 .. Len(recorded')
  <2>1. recorded \in Seq(Alerts) /\ Len(recorded) \in Nat BY LenProperties DEF FeedTypeOK
  <2>2. Append(recorded, a) \in Seq(Alerts) /\ Len(Append(recorded, a)) = Len(recorded) + 1
    BY <1>2, <2>1, AppendProperties
  <2>3. recorded' = recorded \/ recorded' = Append(recorded, a) BY <1>1 DEF RecordAlert
  <2>4. read \in 0 .. Len(recorded) BY DEF FeedTypeOK
  <2>5. CASE recorded' = recorded BY <2>1, <2>4, <2>5
  <2>6. CASE recorded' = Append(recorded, a) BY <2>1, <2>2, <2>4, <2>6
  <2> QED BY <2>3, <2>5, <2>6
<1>5. firing' \in [Firers -> {0} \cup Alerts] BY DEF RecordAlert, FeedTypeOK
<1>6. UNCHANGED <<fired, bus, live, pushes, request, answer, alerts, read, arrived, cuts>>
  BY DEF RecordAlert
<1>7. Alerts' = Alerts BY <1>6 DEF Alerts
<1> QED BY <1>3, <1>4, <1>5, <1>6, <1>7 DEF FeedTypeOK

LEMMA ServerTypes ==
  ASSUME FeedTypeOK, consumeAlerts \/ broadcastFleet \/ handleAlerts
  PROVE  FeedTypeOK'
<1> USE DEF service, feedPage
<1>1. UNCHANGED <<fired, firing, recent, recorded, live, alerts, arrived, cuts>>
  BY DEF consumeAlerts, broadcastFleet, handleAlerts
<1>2. Alerts' = Alerts BY <1>1 DEF Alerts
<1>3. Len(pushes) \in Nat /\ PushSize \in Nat BY TypeFacts, FeedAssumption
<1>4. CASE consumeAlerts
  <2>1. PICK h : h = Head(bus) OBVIOUS
  <2>2. bus \in Seq(Alerts) /\ bus # <<>> BY <1>4 DEF consumeAlerts, FeedTypeOK
  <2>3. h \in {0} \cup Alerts /\ bus' \in Seq(Alerts)
    BY <1>4, <2>1, <2>2, HeadTailProperties DEF consumeAlerts
  <2>4. /\ Append(pushes, h) \in Seq({0} \cup Alerts) /\ Len(Append(pushes, h)) = Len(pushes) + 1
    BY <2>3, AppendProperties DEF FeedTypeOK
  <2>5. pushes' \in Seq({0} \cup Alerts) /\ Len(pushes') <= PushSize
        /\ (~ live => pushes' = <<>>)
    BY <1>3, <1>4, <2>1, <2>4 DEF consumeAlerts, Room, FeedTypeOK
  <2>6. UNCHANGED <<request, answer, read>> BY <1>4 DEF consumeAlerts
  <2> QED BY <1>1, <1>2, <2>3, <2>5, <2>6 DEF FeedTypeOK
<1>5. CASE broadcastFleet
  <2>1. /\ Append(pushes, 0) \in Seq({0} \cup Alerts) /\ Len(Append(pushes, 0)) = Len(pushes) + 1
    BY AppendProperties DEF FeedTypeOK
  <2>2. /\ pushes' \in Seq({0} \cup Alerts) /\ Len(pushes') <= PushSize
        /\ (~ live => pushes' = <<>>)
    BY <1>3, <1>5, <2>1 DEF broadcastFleet, Room
  <2>3. UNCHANGED <<bus, request, answer, read>> BY <1>5 DEF broadcastFleet
  <2> QED BY <1>1, <1>2, <2>2, <2>3 DEF FeedTypeOK
<1>6. CASE handleAlerts
  <2>1. recent \in Seq(Alerts) /\ RangeMax \in Nat /\ Len(recent) \in Nat
    BY FeedAssumption, LenProperties DEF FeedTypeOK
  <2>2. answer' \in Seq(Alerts) /\ Len(answer') <= RangeMax
    BY <1>6, <2>1, UptoFacts DEF handleAlerts
  <2>3. read' \in 0 .. Len(recorded) BY <1>6, TypeFacts DEF handleAlerts
  <2>4. request' = "answered" /\ UNCHANGED <<bus, pushes>> BY <1>6 DEF handleAlerts
  <2> QED BY <1>1, <1>2, <2>2, <2>3, <2>4 DEF FeedTypeOK
<1> QED BY <1>4, <1>5, <1>6

LEMMA PageTypes ==
  ASSUME FeedTypeOK,
         \/ initialAlerts \/ LoadAlerts \/ RequestFails \/ onFrame \/ Connect
         \/ \E restart \in BOOLEAN : Disconnect(restart)
  PROVE  FeedTypeOK'
<1> USE DEF service, feedPage
<1>1. UNCHANGED <<fired, firing, recent, recorded, answer>>
  BY DEF initialAlerts, LoadAlerts, RequestFails, onFrame, Connect, Disconnect
<1>2. Alerts' = Alerts BY <1>1 DEF Alerts
<1>3. 0 \in 0 .. Len(recorded) BY TypeFacts
<1>4. CASE initialAlerts BY <1>1, <1>2, <1>4 DEF initialAlerts, FeedTypeOK
<1>5. CASE LoadAlerts
  <2>1. answer \in Seq(Alerts) /\ MaxAlerts \in Nat /\ Len(answer) \in Nat
    BY FeedAssumption, LenProperties DEF FeedTypeOK
  <2>2. alerts' \in Seq(Alerts) /\ Len(alerts') <= MaxAlerts
    BY <1>5, <2>1, UptoFacts DEF LoadAlerts, setAlerts
  <2>3. arrived' \in Seq(Alerts) BY <1>5, EmptySeq DEF LoadAlerts
  <2> QED BY <1>1, <1>2, <1>5, <2>2, <2>3 DEF LoadAlerts, FeedTypeOK
<1>6. CASE RequestFails
  <2>1. request' = "failed" /\ read' = 0
    BY <1>6 DEF RequestFails, Unanswered
  <2> QED BY <1>1, <1>2, <1>3, <1>6, <2>1 DEF RequestFails, FeedTypeOK
<1>7. CASE onFrame
  <2>1. PICK h : h = Head(pushes) OBVIOUS
  <2>2. pushes \in Seq({0} \cup Alerts) /\ pushes # <<>> /\ Len(pushes) \in Nat
    BY <1>7, TypeFacts DEF onFrame, FeedTypeOK
  <2>3. /\ h \in {0} \cup Alerts /\ pushes' \in Seq({0} \cup Alerts)
        /\ Len(pushes') = Len(pushes) - 1
    BY <1>7, <2>1, <2>2, HeadTailProperties DEF onFrame
  <2>4. /\ alerts' \in Seq(Alerts) /\ Len(alerts') <= MaxAlerts
        /\ arrived' \in Seq(Alerts)
    <3>1. CASE h = 0 BY <1>7, <2>1, <3>1 DEF onFrame, FeedTypeOK
    <3>2. CASE h # 0
      <4>1. h \in Alerts BY <2>3, <3>2
      <4>2. PICK u : u = <<h>> \o alerts OBVIOUS
      <4>3. u \in Seq(Alerts) /\ Len(u) \in Nat
        BY <4>1, <4>2, ConsFacts, LenProperties DEF FeedTypeOK
      <4>4. Upto(u, MaxAlerts) \in Seq(Alerts) /\ Len(Upto(u, MaxAlerts)) <= MaxAlerts
        BY <4>3, FeedAssumption, UptoFacts
      <4>5. Append(arrived, h) \in Seq(Alerts) BY <4>1, AppendProperties DEF FeedTypeOK
      <4> QED BY <1>7, <2>1, <3>2, <4>2, <4>4, <4>5 DEF onFrame
    <3> QED BY <3>1, <3>2
  <2>5. UNCHANGED <<bus, live, request, read, cuts>> /\ (~ live => FALSE)
    BY <1>7, <2>2 DEF onFrame, FeedTypeOK
  <2>6. Len(pushes') <= PushSize BY <2>2, <2>3, FeedAssumption DEF FeedTypeOK
  <2> QED BY <1>1, <1>2, <2>3, <2>4, <2>5, <2>6 DEF FeedTypeOK
<1>8. CASE Connect
  <2>1. live' \in BOOLEAN /\ live' /\ UNCHANGED <<bus, pushes, request, alerts, read, arrived, cuts>>
    BY <1>8 DEF Connect
  <2> QED BY <1>1, <1>2, <2>1 DEF FeedTypeOK
<1>9. ASSUME NEW restart \in BOOLEAN, Disconnect(restart) PROVE FeedTypeOK'
  <2>1. /\ pushes' = <<>> /\ pushes' \in Seq({0} \cup Alerts) /\ Len(pushes') = 0
        /\ <<>> \in Seq(Alerts)
    BY <1>9, EmptySeq DEF Disconnect
  <2>2. live' \in BOOLEAN /\ UNCHANGED <<alerts, arrived>> BY <1>9 DEF Disconnect
  <2>3. bus' \in Seq(Alerts) BY <1>9, <2>1 DEF Disconnect, FeedTypeOK
  <2>4. /\ request' \in {"idle", "asked", "answered", "loaded", "failed"}
        /\ read' \in 0 .. Len(recorded)
    BY <1>3, <1>9 DEF Disconnect, Unanswered, FeedTypeOK
  <2>5. cuts' \in 0 .. MaxCuts /\ Len(pushes') <= PushSize
    BY <1>9, <2>1, FeedAssumption DEF Disconnect, FeedTypeOK
  <2> QED BY <1>1, <1>2, <2>1, <2>2, <2>3, <2>4, <2>5 DEF FeedTypeOK
<1> QED BY <1>4, <1>5, <1>6, <1>7, <1>8, <1>9

LEMMA FeedTypes ==
  ASSUME FeedTypeOK, [FeedNext]_feedVars
  PROVE  FeedTypeOK'
<1>1. CASE UNCHANGED feedVars
  BY <1>1 DEF feedVars, service, feedPage, FeedTypeOK, Alerts
<1> QED BY <1>1, PublishTypes, RecordTypes, ServerTypes, PageTypes DEF FeedNext

-----------------------------------------------------------------------------
(* History. *)

LEMMA KnownFacts ==
  ASSUME FeedTypeOK
  PROVE  Known \in Seq(Nat) /\ Len(Known) = read
<1>1. PICK s : s = SubSeq(recorded, 1, read) OBVIOUS
<1>2. s \in Seq(Nat) /\ Len(s) = read BY <1>1, TypeFacts, PrefixFacts
<1> QED BY <1>1, <1>2, ReverseFacts DEF Known

LEMMA SameHistory ==
  ASSUME FeedTypeOK, History,
         UNCHANGED <<recent, recorded, answer, alerts, arrived>>,
         \/ UNCHANGED <<request, read>>
         \/ request = "idle" /\ request' = "asked" /\ read' = read
         \/ request \in {"asked", "answered"} /\ request' = "failed" /\ read' = 0
  PROVE  History'
BY DEF History, Known

LEMMA RecordHistory ==
  ASSUME FeedTypeOK, History, NEW f \in Firers, RecordAlert(f)
  PROVE  History'
<1> USE DEF feedPage
<1>1. PICK a, n : a = firing[f] /\ n = RecentMax OBVIOUS
<1>2. a \in Nat /\ n \in Nat BY <1>1, TypeFacts, FeedAssumption
<1>3. UNCHANGED <<request, answer, alerts, read, arrived>> BY DEF RecordAlert
<1>4. CASE UNCHANGED <<recent, recorded>> BY <1>3, <1>4, SameHistory
<1>5. CASE /\ recent' \in {Recorded(firing[f]), <<firing[f]>> \o recent}
           /\ recorded' = Append(recorded, firing[f])
  <2>1. PICK s, t, r : s = recent /\ t = Lists!Reverse(recorded) /\ r = recorded OBVIOUS
  <2>2. s \in Seq(Nat) /\ r \in Seq(Nat) /\ t \in Seq(Nat) /\ Upto(s, n) = Upto(t, n)
    BY <1>1, <2>1, TypeFacts, ReverseFacts DEF History
  <2>3. Upto(<<a>> \o s, n) = Upto(<<a>> \o t, n) BY <1>2, <2>2, UptoCons
  <2>4. Upto(Upto(<<a>> \o s, n), n) = Upto(<<a>> \o s, n)
    <3>1. PICK u : u = <<a>> \o s OBVIOUS
    <3>2. u \in Seq(Nat) BY <1>2, <2>2, <3>1, ConsFacts
    <3>3. Upto(Upto(u, n), n) = Upto(u, n) BY <1>2, <3>2, UptoUpto
    <3> QED BY <3>1, <3>3
  <2>5. recent' = Upto(<<a>> \o s, n) \/ recent' = <<a>> \o s
    BY <1>1, <1>5, <2>1 DEF Recorded
  <2>6. Lists!Reverse(recorded') = <<a>> \o t
    <3>1. Lists!Reverse(Append(r, a)) = <<a>> \o Lists!Reverse(r) BY <1>2, <2>2, ReverseAppend
    <3> QED BY <1>1, <1>5, <2>1, <3>1
  <2>7. Upto(recent', n) = Upto(Lists!Reverse(recorded'), n) BY <2>3, <2>4, <2>5, <2>6
  <2>8. SubSeq(recorded', 1, read) = SubSeq(recorded, 1, read)
    BY <1>1, <1>2, <1>5, TypeFacts, PrefixOfAppend
  <2>9. Known' = Known BY <1>3, <2>8 DEF Known
  <2> QED BY <1>1, <1>3, <2>7, <2>9 DEF History
<1> QED BY <1>4, <1>5 DEF RecordAlert

LEMMA AnswerHistory ==
  ASSUME FeedTypeOK, History, handleAlerts
  PROVE  History'
<1> USE DEF service
<1>1. /\ request = "asked" /\ request' = "answered" /\ answer' = Upto(recent, RangeMax)
      /\ read' = Len(recorded) /\ UNCHANGED <<recent, recorded, alerts, arrived>>
  BY DEF handleAlerts
<1>2. Known' = Lists!Reverse(recorded) BY <1>1, TypeFacts, WholePrefix DEF Known
<1>3. PICK s, t, n, m : /\ s = recent /\ t = Lists!Reverse(recorded)
                        /\ n = RecentMax /\ m = RangeMax
  OBVIOUS
<1>4. s \in Seq(Nat) /\ t \in Seq(Nat) BY <1>3, TypeFacts, ReverseFacts
<1>5. n \in Nat /\ m \in Nat /\ m <= n BY <1>3, FeedAssumption
<1>6. Upto(Upto(s, n), m) = Upto(s, m) /\ Upto(Upto(t, n), m) = Upto(t, m)
  BY <1>4, <1>5, UptoUpto
<1>7. Upto(s, n) = Upto(t, n) BY <1>3 DEF History
<1>8. answer' = Upto(Known', RangeMax) BY <1>1, <1>2, <1>3, <1>6, <1>7
<1> QED BY <1>1, <1>8 DEF History

LEMMA LoadHistory ==
  ASSUME FeedTypeOK, History, LoadAlerts
  PROVE  History'
<1> USE DEF service
<1>1. /\ request = "answered" /\ request' = "loaded" /\ arrived' = <<>>
      /\ alerts' = Upto(answer, MaxAlerts)
      /\ UNCHANGED <<recent, recorded, answer, read>>
  BY DEF LoadAlerts, setAlerts
<1>2. Known' = Known BY <1>1 DEF Known
<1>3. PICK k, n, m : k = Known /\ n = RangeMax /\ m = MaxAlerts OBVIOUS
<1>4. k \in Seq(Nat) /\ n \in Nat /\ m \in Nat /\ m <= n
  BY <1>3, KnownFacts, FeedAssumption
<1>5. alerts' = Upto(k, m)
  <2>1. Upto(Upto(k, n), m) = Upto(k, m) BY <1>4, UptoUpto
  <2> QED BY <1>1, <1>3, <2>1 DEF History
<1>6. Lists!Reverse(arrived') \o k = k BY <1>1, <1>4, NothingKnown
<1> QED BY <1>1, <1>2, <1>3, <1>5, <1>6 DEF History

LEMMA FrameHistory ==
  ASSUME FeedTypeOK, History, onFrame
  PROVE  History'
<1> USE DEF service
<1>1. PICK a, m : a = Head(pushes) /\ m = MaxAlerts OBVIOUS
<1>2. a \in Nat /\ m \in Nat
  <2>1. pushes \in Seq(Nat) /\ pushes # <<>> BY TypeFacts DEF onFrame
  <2> QED BY <1>1, <2>1, HeadTailProperties, FeedAssumption
<1>3. UNCHANGED <<recent, recorded, request, answer, read>> BY DEF onFrame
<1>4. CASE a = 0 BY <1>1, <1>3, <1>4, SameHistory DEF onFrame
<1>5. CASE a # 0
  <2>1. alerts' = Upto(<<a>> \o alerts, m) /\ arrived' = Append(arrived, a)
    BY <1>1, <1>5 DEF onFrame
  <2>2. PICK r, b, k : r = arrived /\ b = Lists!Reverse(arrived) /\ k = Known OBVIOUS
  <2>3. r \in Seq(Nat) /\ b \in Seq(Nat) /\ k \in Seq(Nat)
    BY <2>2, TypeFacts, ReverseFacts, KnownFacts
  <2>4. PICK c : c = <<a>> OBVIOUS
  <2>5. c \in Seq(Nat) BY <1>2, <2>4
  <2>6. Lists!Reverse(arrived') = c \o b
    <3>1. Lists!Reverse(Append(r, a)) = <<a>> \o Lists!Reverse(r) BY <1>2, <2>3, ReverseAppend
    <3> QED BY <2>1, <2>2, <2>4, <3>1
  <2>7. Known' = Known BY <1>3 DEF Known
  <2>8. ASSUME NEW x \in Seq(Nat), alerts = Upto(x, m)
        PROVE  alerts' = Upto(c \o x, m)
    <3>1. PICK u : u = Upto(x, m) OBVIOUS
    <3>2. u \in Seq(Nat) /\ Upto(u, m) = Upto(x, m)
      BY <1>2, <3>1, UptoFacts, UptoUpto
    <3>3. Upto(<<a>> \o u, m) = Upto(<<a>> \o x, m) BY <1>2, <3>2, UptoCons
    <3> QED BY <2>1, <2>4, <2>8, <3>1, <3>3
  <2>9. request = "loaded" => alerts' = Upto(Lists!Reverse(arrived') \o Known', m)
    <3>1. SUFFICES ASSUME request = "loaded" PROVE alerts' = Upto((c \o b) \o k, m)
      BY <2>2, <2>6, <2>7
    <3>2. b \o k \in Seq(Nat) BY <2>3, ConcatProperties
    <3>3. alerts = Upto(b \o k, m) BY <1>1, <2>2, <3>1 DEF History
    <3>4. alerts' = Upto(c \o (b \o k), m) BY <2>8, <3>2, <3>3
    <3>5. c \in Seq(Nat) /\ b \in Seq(Nat) /\ k \in Seq(Nat) BY <2>3, <2>5
    <3>6. (c \o b) \o k = c \o (b \o k) BY <3>5, Associative
    <3> QED BY <3>4, <3>6
  <2>10. request # "loaded" => alerts' = Upto(Lists!Reverse(arrived'), m)
    BY <1>1, <2>2, <2>3, <2>6, <2>8 DEF History
  <2> QED BY <1>1, <1>3, <2>7, <2>9, <2>10 DEF History
<1> QED BY <1>4, <1>5

LEMMA HistoryInd ==
  ASSUME FeedTypeOK, History, [FeedNext]_feedVars
  PROVE  History'
<1>1. ASSUME \/ UNCHANGED feedVars
             \/ \E f \in Firers : PublishAlert(f)
             \/ consumeAlerts \/ broadcastFleet \/ initialAlerts \/ RequestFails \/ Connect
             \/ \E restart \in BOOLEAN : Disconnect(restart)
      PROVE  History'
  <2>1. UNCHANGED <<recent, recorded, answer, alerts, arrived>>
    BY <1>1
    DEF feedVars, service, feedPage, PublishAlert, consumeAlerts, broadcastFleet, initialAlerts,
        RequestFails, Connect, Disconnect
  <2>2. \/ UNCHANGED <<request, read>>
        \/ request = "idle" /\ request' = "asked" /\ read' = read
        \/ request \in {"asked", "answered"} /\ request' = "failed" /\ read' = 0
    BY <1>1
    DEF feedVars, service, feedPage, PublishAlert, consumeAlerts, broadcastFleet, initialAlerts,
        RequestFails, Connect, Disconnect, Unanswered
  <2> QED BY <2>1, <2>2, SameHistory
<1> QED BY <1>1, RecordHistory, AnswerHistory, LoadHistory, FrameHistory DEF FeedNext

-----------------------------------------------------------------------------
(* Once. *)

LEMMA AppendFacts ==
  ASSUME NEW s \in Seq(Nat), NEW a \in Nat
  PROVE  /\ DOMAIN Append(s, a) = DOMAIN s \cup {Len(s) + 1}
         /\ DOMAIN s = 1 .. Len(s) /\ Len(s) \in Nat
         /\ Append(s, a)[Len(s) + 1] = a
         /\ \A i \in DOMAIN s : Append(s, a)[i] = s[i] /\ i < Len(s) + 1
<1>1. /\ Append(s, a) \in Seq(Nat) /\ Len(Append(s, a)) = Len(s) + 1
      /\ \A i \in 1 .. Len(s) : Append(s, a)[i] = s[i]
      /\ Append(s, a)[Len(s) + 1] = a
  BY AppendProperties
<1>2. Len(s) \in Nat /\ DOMAIN s = 1 .. Len(s) /\ DOMAIN Append(s, a) = 1 .. Len(s) + 1
  BY <1>1, LenProperties
<1> QED BY <1>1, <1>2

LEMMA TailFacts ==
  ASSUME NEW s \in Seq(Nat), s # <<>>
  PROVE  /\ 1 \in DOMAIN s /\ Head(s) = s[1]
         /\ \A i \in DOMAIN Tail(s) : i \in Nat /\ i + 1 \in DOMAIN s /\ 1 < i + 1
                                      /\ Tail(s)[i] = s[i + 1]
<1>1. Len(s) \in Nat \ {0} /\ DOMAIN s = 1 .. Len(s) BY EmptySeq, LenProperties
<1>2. /\ Tail(s) \in Seq(Nat) /\ Len(Tail(s)) = Len(s) - 1
      /\ \A i \in 1 .. Len(Tail(s)) : Tail(s)[i] = s[i + 1]
  BY HeadTailProperties
<1>3. DOMAIN Tail(s) = 1 .. Len(s) - 1 BY <1>2, LenProperties
<1> QED BY <1>1, <1>2, <1>3

(* No list names an alert that is yet to be fired. *)
LEMMA Bounded ==
  ASSUME FeedTypeOK
  PROVE  /\ \A i \in DOMAIN bus : bus[i] \in 1 .. fired
         /\ \A i \in DOMAIN pushes : pushes[i] \in 0 .. fired
         /\ \A i \in DOMAIN arrived : arrived[i] \in 1 .. fired
         /\ \A i \in DOMAIN recorded : recorded[i] \in 1 .. fired
<1>1. /\ bus \in Seq(Alerts) /\ arrived \in Seq(Alerts) /\ recorded \in Seq(Alerts)
      /\ pushes \in Seq({0} \cup Alerts)
  BY DEF FeedTypeOK
<1>2. \A i \in DOMAIN bus : bus[i] \in Alerts BY <1>1, LenProperties, ElementOfSeq
<1>3. \A i \in DOMAIN arrived : arrived[i] \in Alerts BY <1>1, LenProperties, ElementOfSeq
<1>4. \A i \in DOMAIN recorded : recorded[i] \in Alerts BY <1>1, LenProperties, ElementOfSeq
<1>5. \A i \in DOMAIN pushes : pushes[i] \in {0} \cup Alerts
  BY <1>1, LenProperties, ElementOfSeq
<1>6. fired \in Nat BY TypeFacts
<1> QED BY <1>2, <1>3, <1>4, <1>5, <1>6 DEF Alerts

LEMMA PublishOrdered ==
  ASSUME FeedTypeOK, Ordered, NEW f \in Firers, PublishAlert(f)
  PROVE  Ordered'
<1>1. UNCHANGED <<pushes, arrived>> BY DEF PublishAlert, feedPage
<1>2. CASE bus' = bus BY <1>1, <1>2 DEF Ordered
<1>3. CASE bus' = Append(bus, fired + 1)
  <2>1. PICK b, n, a : b = bus /\ n = Len(bus) + 1 /\ a = fired + 1 OBVIOUS
  <2>2. b \in Seq(Nat) /\ a \in Nat BY <2>1, TypeFacts
  <2>3. /\ DOMAIN bus' = DOMAIN bus \cup {n} /\ bus'[n] = a
        /\ \A i \in DOMAIN bus : bus'[i] = bus[i] /\ i < n /\ i \in Nat
        /\ n \in Nat
    BY <1>3, <2>1, <2>2, AppendFacts
  <2>4. /\ \A i \in DOMAIN bus : bus[i] < a
        /\ \A i \in DOMAIN pushes : pushes[i] < a
        /\ \A i \in DOMAIN arrived : arrived[i] < a
    BY <2>1, Bounded, TypeFacts
  <2>5. \A i, j \in DOMAIN bus' : i < j => bus'[i] < bus'[j]
    <3>1. ASSUME NEW i \in DOMAIN bus', NEW j \in DOMAIN bus', i < j
          PROVE  bus'[i] < bus'[j]
      <4>1. i \in DOMAIN bus BY <2>3, <3>1
      <4>2. CASE j = n BY <2>3, <2>4, <4>1, <4>2
      <4>3. CASE j \in DOMAIN bus BY <2>3, <3>1, <4>1, <4>3 DEF Ordered
      <4> QED BY <2>3, <4>2, <4>3
    <3> QED BY <3>1
  <2>6. \A i \in DOMAIN arrived : \A j \in DOMAIN bus' : arrived[i] < bus'[j]
    BY <2>3, <2>4 DEF Ordered
  <2>7. \A i \in DOMAIN pushes : \A j \in DOMAIN bus' : pushes[i] < bus'[j]
    BY <2>3, <2>4 DEF Ordered
  <2> QED BY <1>1, <2>5, <2>6, <2>7 DEF Ordered
<1> QED BY <1>2, <1>3 DEF PublishAlert

(* The frames on their way: those that are alerts are in order. *)
LEMMA PushOrdered ==
  ASSUME FeedTypeOK, Ordered, NEW a \in Nat, pushes' = Append(pushes, a),
         \A i \in DOMAIN pushes : a # 0 => pushes[i] < a,
         \A i \in DOMAIN arrived : a # 0 => arrived[i] < a
  PROVE  /\ \A i, j \in DOMAIN pushes' :
              i < j /\ pushes'[i] # 0 /\ pushes'[j] # 0 => pushes'[i] < pushes'[j]
         /\ \A i \in DOMAIN arrived : \A j \in DOMAIN pushes' :
              pushes'[j] # 0 => arrived[i] < pushes'[j]
         /\ \A i \in DOMAIN pushes' :
              pushes'[i] = a \/ \E k \in DOMAIN pushes : pushes'[i] = pushes[k]
<1>1. PICK s, n : s = pushes /\ n = Len(pushes) + 1 OBVIOUS
<1>2. s \in Seq(Nat) BY <1>1, TypeFacts
<1>3. /\ DOMAIN pushes' = DOMAIN pushes \cup {n} /\ pushes'[n] = a
      /\ \A i \in DOMAIN pushes : pushes'[i] = pushes[i] /\ i < n /\ i \in Nat
      /\ n \in Nat
  BY <1>1, <1>2, AppendFacts
<1>4. ASSUME NEW i \in DOMAIN pushes', NEW j \in DOMAIN pushes', i < j,
             pushes'[i] # 0, pushes'[j] # 0
      PROVE  pushes'[i] < pushes'[j]
  <2>1. i \in DOMAIN pushes BY <1>3, <1>4
  <2>2. CASE j = n BY <1>3, <1>4, <2>1, <2>2
  <2>3. CASE j \in DOMAIN pushes BY <1>3, <1>4, <2>1, <2>3 DEF Ordered
  <2> QED BY <1>3, <2>2, <2>3
<1>5. \A i \in DOMAIN arrived : \A j \in DOMAIN pushes' :
        pushes'[j] # 0 => arrived[i] < pushes'[j]
  BY <1>3 DEF Ordered
<1>6. \A i \in DOMAIN pushes' :
        pushes'[i] = a \/ \E k \in DOMAIN pushes : pushes'[i] = pushes[k]
  BY <1>3
<1> QED BY <1>4, <1>5, <1>6

LEMMA ConsumeOrdered ==
  ASSUME FeedTypeOK, Ordered, consumeAlerts
  PROVE  Ordered'
<1>1. UNCHANGED arrived BY DEF consumeAlerts, feedPage
<1>2. PICK a : a = Head(bus) OBVIOUS
<1>3. PICK b : b = bus OBVIOUS
<1>4. b \in Seq(Nat) /\ b # <<>> /\ bus' = Tail(b) BY <1>3, TypeFacts DEF consumeAlerts
<1>5. /\ 1 \in DOMAIN bus /\ a = bus[1] /\ a \in Nat
      /\ \A i \in DOMAIN bus' : i \in Nat /\ i + 1 \in DOMAIN bus /\ 1 < i + 1
                                /\ bus'[i] = bus[i + 1]
  BY <1>2, <1>3, <1>4, TailFacts, HeadTailProperties
<1>6. \A i, j \in DOMAIN bus' : i < j => bus'[i] < bus'[j]
  <2>1. ASSUME NEW i \in DOMAIN bus', NEW j \in DOMAIN bus', i < j
        PROVE  bus'[i] < bus'[j]
    <3>1. i + 1 < j + 1 BY <1>5, <2>1
    <3> QED BY <1>5, <3>1 DEF Ordered
  <2> QED BY <2>1
<1>7. \A i \in DOMAIN arrived : \A j \in DOMAIN bus' : arrived[i] < bus'[j]
  BY <1>5 DEF Ordered
<1>8. CASE pushes' = pushes
  BY <1>1, <1>5, <1>6, <1>7, <1>8 DEF Ordered
<1>9. CASE pushes' = Append(pushes, a)
  <2>1. /\ \A i \in DOMAIN pushes : pushes[i] < a
        /\ \A i \in DOMAIN arrived : arrived[i] < a
    BY <1>5 DEF Ordered
  <2>2. /\ \A i, j \in DOMAIN pushes' :
             i < j /\ pushes'[i] # 0 /\ pushes'[j] # 0 => pushes'[i] < pushes'[j]
        /\ \A i \in DOMAIN arrived : \A j \in DOMAIN pushes' :
             pushes'[j] # 0 => arrived[i] < pushes'[j]
        /\ \A i \in DOMAIN pushes' :
             pushes'[i] = a \/ \E k \in DOMAIN pushes : pushes'[i] = pushes[k]
    BY <1>5, <1>9, <2>1, PushOrdered
  <2>3. \A j \in DOMAIN bus' : a < bus'[j] BY <1>5 DEF Ordered
  <2>4. \A i \in DOMAIN pushes' : \A j \in DOMAIN bus' : pushes'[i] < bus'[j]
    BY <1>5, <2>2, <2>3 DEF Ordered
  <2> QED BY <1>1, <1>6, <1>7, <2>2, <2>4 DEF Ordered
<1> QED BY <1>2, <1>8, <1>9 DEF consumeAlerts

LEMMA FleetOrdered ==
  ASSUME FeedTypeOK, Ordered, broadcastFleet
  PROVE  Ordered'
<1>1. UNCHANGED <<bus, arrived>> /\ pushes' = Append(pushes, 0)
  BY DEF broadcastFleet, feedPage
<1>2. /\ \A i, j \in DOMAIN pushes' :
           i < j /\ pushes'[i] # 0 /\ pushes'[j] # 0 => pushes'[i] < pushes'[j]
      /\ \A i \in DOMAIN arrived : \A j \in DOMAIN pushes' :
           pushes'[j] # 0 => arrived[i] < pushes'[j]
      /\ \A i \in DOMAIN pushes' :
           pushes'[i] = 0 \/ \E k \in DOMAIN pushes : pushes'[i] = pushes[k]
  BY <1>1, PushOrdered
<1>3. \A j \in DOMAIN bus : 0 < bus[j] BY Bounded, TypeFacts
<1>4. \A i \in DOMAIN pushes' : \A j \in DOMAIN bus : pushes'[i] < bus[j]
  BY <1>2, <1>3 DEF Ordered
<1> QED BY <1>1, <1>2, <1>4 DEF Ordered

LEMMA FrameOrdered ==
  ASSUME FeedTypeOK, Ordered, onFrame
  PROVE  Ordered'
<1>1. UNCHANGED bus BY DEF onFrame
<1>2. PICK a, s : a = Head(pushes) /\ s = pushes OBVIOUS
<1>3. s \in Seq(Nat) /\ s # <<>> /\ pushes' = Tail(s) BY <1>2, TypeFacts DEF onFrame
<1>4. /\ 1 \in DOMAIN pushes /\ a = pushes[1] /\ a \in Nat
      /\ \A i \in DOMAIN pushes' : i \in Nat /\ i + 1 \in DOMAIN pushes /\ 1 < i + 1
                                   /\ pushes'[i] = pushes[i + 1]
  BY <1>2, <1>3, TailFacts, HeadTailProperties
<1>5. /\ \A i, j \in DOMAIN pushes' :
           i < j /\ pushes'[i] # 0 /\ pushes'[j] # 0 => pushes'[i] < pushes'[j]
      /\ \A i \in DOMAIN pushes' : \A j \in DOMAIN bus : pushes'[i] < bus[j]
      /\ \A j \in DOMAIN pushes' : a # 0 /\ pushes'[j] # 0 => a < pushes'[j]
  <2>1. ASSUME NEW i \in DOMAIN pushes', NEW j \in DOMAIN pushes', i < j,
               pushes'[i] # 0, pushes'[j] # 0
        PROVE  pushes'[i] < pushes'[j]
    <3>1. i + 1 < j + 1 BY <1>4, <2>1
    <3> QED BY <1>4, <2>1, <3>1 DEF Ordered
  <2> QED BY <1>4, <2>1 DEF Ordered
<1>6. CASE a = 0
  <2>1. UNCHANGED arrived BY <1>2, <1>6 DEF onFrame
  <2> QED BY <1>1, <1>4, <1>5, <2>1 DEF Ordered
<1>7. CASE a # 0
  <2>1. PICK r, n : r = arrived /\ n = Len(arrived) + 1 OBVIOUS
  <2>2. r \in Seq(Nat) /\ arrived' = Append(r, a)
    BY <1>2, <1>7, <2>1, TypeFacts DEF onFrame
  <2>3. /\ DOMAIN arrived' = DOMAIN arrived \cup {n} /\ arrived'[n] = a
        /\ \A i \in DOMAIN arrived : arrived'[i] = arrived[i] /\ i < n /\ i \in Nat
        /\ n \in Nat
    BY <1>4, <2>1, <2>2, AppendFacts
  <2>4. \A i \in DOMAIN arrived : arrived[i] < a BY <1>4, <1>7 DEF Ordered
  <2>5. \A i, j \in DOMAIN arrived' : i < j => arrived'[i] < arrived'[j]
    <3>1. ASSUME NEW i \in DOMAIN arrived', NEW j \in DOMAIN arrived', i < j
          PROVE  arrived'[i] < arrived'[j]
      <4>1. i \in DOMAIN arrived BY <2>3, <3>1
      <4>2. CASE j = n BY <2>3, <2>4, <4>1, <4>2
      <4>3. CASE j \in DOMAIN arrived BY <2>3, <3>1, <4>1, <4>3 DEF Ordered
      <4> QED BY <2>3, <4>2, <4>3
    <3> QED BY <3>1
  <2>6. \A i \in DOMAIN arrived' : \A j \in DOMAIN pushes' :
          pushes'[j] # 0 => arrived'[i] < pushes'[j]
    BY <1>4, <1>5, <1>7, <2>3 DEF Ordered
  <2>7. \A i \in DOMAIN arrived' : \A j \in DOMAIN bus : arrived'[i] < bus[j]
    BY <1>4, <2>3 DEF Ordered
  <2> QED BY <1>1, <1>5, <2>5, <2>6, <2>7 DEF Ordered
<1> QED BY <1>6, <1>7

LEMMA OrderedInd ==
  ASSUME FeedTypeOK, Ordered, [FeedNext]_feedVars
  PROVE  Ordered'
<1>1. ASSUME bus' = bus \/ DOMAIN bus' = {}, pushes' = pushes \/ DOMAIN pushes' = {},
             arrived' = arrived \/ DOMAIN arrived' = {}
      PROVE  Ordered'
  BY <1>1 DEF Ordered
<1>2. ASSUME \/ UNCHANGED feedVars
             \/ \E f \in Firers : RecordAlert(f)
             \/ handleAlerts \/ initialAlerts \/ LoadAlerts \/ RequestFails \/ Connect
             \/ \E restart \in BOOLEAN : Disconnect(restart)
      PROVE  Ordered'
  <2>1. /\ bus' = bus \/ bus' = <<>>
        /\ pushes' = pushes \/ pushes' = <<>>
        /\ arrived' = arrived \/ arrived' = <<>>
    BY <1>2
    DEF feedVars, service, feedPage, RecordAlert, handleAlerts, initialAlerts, LoadAlerts,
        RequestFails, Connect, Disconnect
  <2> QED BY <1>1, <2>1
<1> QED
  BY <1>2, PublishOrdered, ConsumeOrdered, FleetOrdered, FrameOrdered DEF FeedNext

LEMMA RecordedInd ==
  ASSUME FeedTypeOK, RecordedOnce, [FeedNext]_feedVars
  PROVE  RecordedOnce'
<1>1. firing \in [Firers -> {0} \cup Alerts] BY DEF FeedTypeOK
<1>2. ASSUME NEW f \in Firers, PublishAlert(f) PROVE RecordedOnce'
  <2>1. /\ firing' = [firing EXCEPT ![f] = fired + 1] /\ UNCHANGED recorded
        /\ firing[f] = 0
    BY <1>2 DEF PublishAlert
  <2>2. /\ \A g \in Firers : firing[g] # fired + 1
        /\ \A i \in DOMAIN recorded : recorded[i] # fired + 1
        /\ fired + 1 # 0
    BY Bounded, TypeFacts
  <2> QED BY <1>1, <2>1, <2>2 DEF RecordedOnce
<1>3. ASSUME NEW f \in Firers, RecordAlert(f) PROVE RecordedOnce'
  <2>1. PICK a, r, n : a = firing[f] /\ r = recorded /\ n = Len(recorded) + 1 OBVIOUS
  <2>2. /\ a # 0 /\ a \in Nat /\ r \in Seq(Nat) /\ firing' = [firing EXCEPT ![f] = 0]
        /\ recorded' = recorded \/ recorded' = Append(r, a)
    BY <1>3, <2>1, TypeFacts DEF RecordAlert
  <2>3. CASE recorded' = recorded BY <1>1, <2>2, <2>3 DEF RecordedOnce
  <2>4. CASE recorded' = Append(r, a)
    <3>1. /\ DOMAIN recorded' = DOMAIN recorded \cup {n} /\ recorded'[n] = a
          /\ \A i \in DOMAIN recorded : recorded'[i] = recorded[i]
      BY <2>1, <2>2, <2>4, AppendFacts
    <3>2. /\ \A i \in DOMAIN recorded : recorded[i] # a
          /\ \A g \in Firers : firing[g] = a => g = f
      BY <2>1, <2>2 DEF RecordedOnce
    <3>3. \A g \in Firers : firing'[g] # 0 => g # f /\ firing'[g] = firing[g] /\ firing[g] # a
      BY <1>1, <2>2, <3>2
    <3>4. \A i, j \in DOMAIN recorded' : recorded'[i] = recorded'[j] => i = j
      BY <3>1, <3>2 DEF RecordedOnce
    <3>5. \A g \in Firers : firing'[g] # 0 =>
            /\ \A i \in DOMAIN recorded' : recorded'[i] # firing'[g]
            /\ \A h \in Firers : firing'[h] = firing'[g] => h = g
      BY <3>1, <3>3 DEF RecordedOnce
    <3> QED BY <3>4, <3>5 DEF RecordedOnce
  <2> QED BY <2>2, <2>3, <2>4
<1>4. ASSUME UNCHANGED <<firing, recorded>> PROVE RecordedOnce'
  BY <1>4 DEF RecordedOnce
<1>5. ASSUME \/ UNCHANGED feedVars
             \/ consumeAlerts \/ broadcastFleet \/ handleAlerts
             \/ initialAlerts \/ LoadAlerts \/ RequestFails \/ onFrame \/ Connect
             \/ \E restart \in BOOLEAN : Disconnect(restart)
      PROVE  UNCHANGED <<firing, recorded>>
  BY <1>5
  DEF feedVars, service, feedPage, consumeAlerts, broadcastFleet, handleAlerts, initialAlerts,
      LoadAlerts, RequestFails, onFrame, Connect, Disconnect
<1> QED BY <1>2, <1>3, <1>4, <1>5 DEF FeedNext

-----------------------------------------------------------------------------
LEMMA FeedInitially == FeedInit => FeedInv
<1> SUFFICES ASSUME FeedInit PROVE FeedInv
  OBVIOUS
<1>1. FeedTypeOK
  <2>1. /\ bus \in Seq(Alerts) /\ recent \in Seq(Alerts) /\ recorded \in Seq(Alerts)
        /\ answer \in Seq(Alerts) /\ arrived \in Seq(Alerts) /\ alerts \in Seq(Alerts)
        /\ pushes \in Seq({0} \cup Alerts)
        /\ Len(pushes) = 0 /\ Len(answer) = 0 /\ Len(alerts) = 0 /\ Len(recorded) = 0
    BY EmptySeq DEF FeedInit
  <2>2. live \in BOOLEAN /\ pushes = <<>> BY DEF FeedInit
  <2>3. /\ fired \in 0 .. MaxFired /\ cuts \in 0 .. MaxCuts /\ read \in 0 .. Len(recorded)
        /\ Len(pushes) <= PushSize /\ Len(answer) <= RangeMax /\ Len(alerts) <= MaxAlerts
    BY <2>1, FeedAssumption DEF FeedInit
  <2>4. firing \in [Firers -> {0} \cup Alerts] /\ request = "idle" BY DEF FeedInit
  <2> QED BY <2>1, <2>2, <2>3, <2>4 DEF FeedTypeOK
<1>2. History
  <2>1. Lists!Reverse(recorded) = <<>> /\ Lists!Reverse(arrived) = <<>>
    BY TypeFacts, <1>1, NothingKnown DEF FeedInit
  <2>2. Len(<<>>) = 0 /\ ~ (0 > MaxAlerts) BY EmptySeq, FeedAssumption
  <2>3. Upto(<<>>, MaxAlerts) = <<>> BY <2>2 DEF Upto
  <2> QED BY <2>1, <2>3 DEF FeedInit, History
<1>3. Once BY DEF FeedInit, Once, Ordered, RecordedOnce
<1> QED BY <1>1, <1>2, <1>3 DEF FeedInv

LEMMA FeedInd ==
  ASSUME FeedInv, [FeedNext]_feedVars
  PROVE  FeedInv'
<1>1. FeedTypeOK /\ History /\ Ordered /\ RecordedOnce BY DEF FeedInv, Once
<1>2. FeedTypeOK' BY <1>1, FeedTypes
<1>3. History' BY <1>1, HistoryInd
<1>4. Ordered' /\ RecordedOnce' BY <1>1, OrderedInd, RecordedInd
<1> QED BY <1>2, <1>3, <1>4 DEF FeedInv, Once

LEMMA FeedInvHolds == FeedSpec => []FeedInv
BY FeedInitially, FeedInd, PTL DEF FeedSpec

(* Every variable of the alert feed holds a value of its type: what is     *)
(* read of the list and kept on the page stays within its cap, and nothing *)
(* is left of a connection that closed.                                    *)
THEOREM FeedIsTyped == FeedSpec => []FeedTypeOK
BY FeedInvHolds, PTL DEF FeedInv

(* When the fetch is over, the page lists what an endless log would have   *)
(* at its top: the alerts pushed since the answer over those recorded      *)
(* before it was read (fire, handleAlerts, App.tsx).                       *)
THEOREM PageShowsHistory == FeedSpec => []FeedIsHistory
<1>1. FeedInv => FeedIsHistory
  <2> SUFFICES ASSUME FeedInv, request \in {"loaded", "failed"}
               PROVE  alerts = Upto(Lists!Reverse(arrived) \o Known, MaxAlerts)
    BY DEF FeedIsHistory, Known
  <2>1. CASE request = "loaded" BY <2>1 DEF FeedInv, History
  <2>2. CASE request = "failed"
    <3>1. read = 0 /\ alerts = Upto(Lists!Reverse(arrived), MaxAlerts)
      BY <2>2 DEF FeedInv, History
    <3>2. recorded \in Seq(Nat) /\ Lists!Reverse(arrived) \in Seq(Nat)
      BY TypeFacts, ReverseFacts DEF FeedInv
    <3>3. Known = <<>> BY <3>1, <3>2, NothingKnown DEF Known
    <3>4. Lists!Reverse(arrived) \o <<>> = Lists!Reverse(arrived) BY <3>2, NothingKnown
    <3> QED BY <3>1, <3>3, <3>4
  <2> QED BY <2>1, <2>2
<1> QED BY <1>1, FeedInvHolds, PTL

(* An alert is listed twice only if it was in the answer and again in a    *)
(* frame after it (LoadAlerts, onFrame): otherwise it is pushed once and   *)
(* recorded once.                                                          *)
THEOREM RepeatsAreOfTheFetch == FeedSpec => []RepeatsOnlyAtTheFetch
<1>1. FeedInv => RepeatsOnlyAtTheFetch
  <2> SUFFICES ASSUME FeedInv, NEW i \in DOMAIN alerts, NEW j \in DOMAIN alerts,
                      i < j, alerts[i] = alerts[j]
               PROVE  request = "loaded" /\ i <= Len(arrived) /\ j > Len(arrived)
    BY DEF RepeatsOnlyAtTheFetch
  <2>1. FeedTypeOK BY DEF FeedInv
  <2>2. /\ arrived \in Seq(Nat) /\ recorded \in Seq(Nat) /\ read \in 0 .. Len(recorded)
    BY <2>1, TypeFacts
  <2>3. PICK r, w, s : r = arrived /\ w = recorded /\ s = SubSeq(recorded, 1, read)
    OBVIOUS
  <2>4. PICK b, k, a : b = Lists!Reverse(r) /\ k = Lists!Reverse(s) /\ a = alerts OBVIOUS
  <2>5. \A x, y \in DOMAIN r : r[x] = r[y] => x = y
    <3>1. r \in Seq(Nat) /\ Len(r) \in Nat /\ DOMAIN r = 1 .. Len(r)
      BY <2>2, <2>3, LenProperties
    <3>2. \A x \in DOMAIN r : r[x] \in Nat /\ x \in Nat BY <3>1, ElementOfSeq
    <3>3. \A x, y \in DOMAIN r : x < y => r[x] < r[y]
      BY <2>3 DEF FeedInv, Once, Ordered
    <3> QED BY <3>2, <3>3
  <2>6. s \in Seq(Nat) /\ \A x, y \in DOMAIN s : s[x] = s[y] => x = y
    <3>1. PICK n \in 0 .. Len(w) : n = read BY <2>2, <2>3
    <3>2. w \in Seq(Nat) /\ s = SubSeq(w, 1, n) BY <2>2, <2>3, <3>1
    <3>3. s \in Seq(Nat) /\ Len(s) = n /\ \A x \in 1 .. n : s[x] = w[x]
      BY <3>2, PrefixFacts
    <3>4. DOMAIN s = 1 .. n /\ DOMAIN w = 1 .. Len(w) /\ Len(w) \in Nat
      BY <3>2, <3>3, LenProperties
    <3>5. \A x, y \in DOMAIN w : w[x] = w[y] => x = y
      BY <2>3 DEF FeedInv, Once, RecordedOnce
    <3>6. \A x \in DOMAIN s : x \in DOMAIN w /\ s[x] = w[x] BY <3>3, <3>4
    <3> QED BY <3>3, <3>5, <3>6
  <2>7. r \in Seq(Nat) BY <2>2, <2>3
  <2>8. /\ b \in Seq(Nat) /\ Len(b) = Len(r)
        /\ \A x, y \in 1 .. Len(b) : b[x] = b[y] => x = y
    BY <2>4, <2>5, <2>7, ReverseOnce
  <2>9. /\ k \in Seq(Nat) /\ Len(k) = Len(s)
        /\ \A x, y \in 1 .. Len(k) : k[x] = k[y] => x = y
    BY <2>4, <2>6, ReverseOnce
  <2>10. MaxAlerts \in Nat BY FeedAssumption
  <2>11. i \in DOMAIN a /\ j \in DOMAIN a /\ i < j /\ a[i] = a[j] BY <2>4
  <2>12. CASE request = "loaded"
    <3>1. a = Upto(b \o k, MaxAlerts) BY <2>3, <2>4, <2>12 DEF FeedInv, History, Known
    <3>2. i <= Len(b) /\ j > Len(b)
      BY <2>8, <2>9, <2>10, <2>11, <3>1, TopOnce
    <3> QED BY <2>3, <2>8, <2>12, <3>2
  <2>13. CASE request # "loaded"
    <3>1. a = Upto(b, MaxAlerts) BY <2>3, <2>4, <2>13 DEF FeedInv, History
    <3>2. PICK e : e = <<>> OBVIOUS
    <3>3. e \in Seq(Nat) /\ Len(e) = 0 /\ \A x, y \in 1 .. Len(e) : e[x] = e[y] => x = y
      BY <3>2
    <3>4. b \o e = b BY <2>8, <3>2, NothingKnown
    <3>5. a = Upto(b \o e, MaxAlerts) BY <3>1, <3>4
    <3>6. j > Len(b) /\ j <= Len(b) + Len(e)
      BY <2>8, <2>10, <2>11, <3>3, <3>5, TopOnce
    <3>7. Len(b) \in Nat BY <2>8, LenProperties
    <3>8. j \in Nat
      <4>1. a \in Seq(Nat) BY <2>1, <2>4, TypeFacts
      <4>2. DOMAIN a = 1 .. Len(a) /\ Len(a) \in Nat BY <4>1, LenProperties
      <4> QED BY <2>11, <4>2
    <3> QED BY <3>3, <3>6, <3>7, <3>8
  <2> QED BY <2>12, <2>13
<1> QED BY <1>1, FeedInvHolds, PTL

=============================================================================

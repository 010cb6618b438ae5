--------------------------- MODULE ResearchProofs ---------------------------
(***************************************************************************)
(* The studies around a backtest, for any plan, log and series of bars.    *)
(*                                                                         *)
(* Walk-forward validation fits on the past only: all that was fitted on   *)
(* lies before the training end of the window at hand, which never moves   *)
(* back (FoldInv).  The combinatorial splits are complete because advance  *)
(* passes over no choice (NextChoice).                                     *)
(*                                                                         *)
(* The fill log tells the same story as the account.  Sorting it does not  *)
(* change the order of any one instrument's fills (SortReorders), and what *)
(* a fill realizes depends on the earlier ones of its instrument alone, so *)
(* the replay realizes the same, fill by fill (ReorderedReplay).           *)
(*                                                                         *)
(* The indicators read what their definitions give.  A deque's head is the *)
(* extreme of the window, because what it keeps is each entry that beats   *)
(* all after it, and what it dropped was beaten (DequeKept); a running sum *)
(* is the sum of its window (WindowKept); an average, truncated at every   *)
(* step, stays among what it averages (Amid); and a series that only rises *)
(* has no losses to smooth (RsiKept).                                      *)
(***************************************************************************)
EXTENDS WalkForward, Trips, Indicators, OperatorProofs

-----------------------------------------------------------------------------
(* The windows of a plan                                                    *)

Purge(p) == IF p.scheme = "purged" THEN p.purge ELSE 0

\* When the first test begins, of whatever scheme; each next one a step later.
FirstTest(p) == p.begin + p.train + Purge(p)

\* A plan's fields are integers, and those of a valid one not negative.
LEMMA PlanType ==
  ASSUME NEW p \in Plans
  PROVE  /\ p.begin \in Int /\ p.end \in Int /\ p.train \in Int /\ p.test \in Int
         /\ p.step \in Int /\ Purge(p) \in Int /\ Embargo(p) \in Int
         /\ FirstTest(p) \in Int
         /\ IsValid(p) => /\ p.train > 0 /\ p.test > 0 /\ p.step > 0
                          /\ Purge(p) >= 0 /\ Embargo(p) >= 0
<1>1. /\ p.begin \in Int /\ p.end \in Int /\ p.train \in Int /\ p.test \in Int
      /\ p.step \in Int /\ p.purge \in Int /\ p.embargo \in Int
  BY WalkForwardAssumption
<1> QED
  BY <1>1 DEF Purge, Embargo, FirstTest, IsValid

\* The times of a window.
LEMMA WindowTimes ==
  ASSUME NEW p \in Plans, NEW k \in Nat
  PROVE  LET w == WindowAt(p, k)
         IN  /\ k * p.step \in Int
             /\ w.testStart = FirstTest(p) + k * p.step
             /\ w.testEnd = w.testStart + p.test
             /\ w.trainEnd = w.testStart - Purge(p)
             /\ w.testStart \in Int /\ w.testEnd \in Int /\ w.trainEnd \in Int
<1>1. k * p.step \in Int
  BY PlanType, IntTimes
<1> DEFINE far == k * p.step
<1>2. far \in Int
  BY <1>1
<1>3. /\ WindowAt(p, k).trainEnd = p.begin + far + p.train
      /\ WindowAt(p, k).testStart = p.begin + far + p.train + Purge(p)
      /\ WindowAt(p, k).testEnd = WindowAt(p, k).testStart + p.test
  BY PlanType DEF WindowAt, Purge
<1> HIDE DEF far
<1>4. /\ WindowAt(p, k).testStart = FirstTest(p) + far
      /\ WindowAt(p, k).trainEnd = WindowAt(p, k).testStart - Purge(p)
      /\ WindowAt(p, k).testStart \in Int
  BY <1>2, <1>3, PlanType DEF FirstTest
<1> QED
  BY <1>2, <1>3, <1>4, PlanType DEF far

\* The next window is a step later.
LEMMA StepOn ==
  ASSUME NEW p \in Plans, NEW k \in Nat
  PROVE  (k + 1) * p.step = k * p.step + p.step
<1>1. p.step \in Int
  BY PlanType
<1> QED
  BY <1>1

\* Windows advance by no less than the difference of their places.
LEMMA StepsAhead ==
  ASSUME NEW p \in Plans, IsValid(p), NEW j \in Nat, NEW k \in Nat, j <= k
  PROVE  /\ j * p.step \in Int /\ k * p.step \in Int
         /\ j * p.step <= k * p.step /\ j <= j * p.step
<1>1. p.step \in Nat /\ p.step >= 1
  BY PlanType
<1> DEFINE more == p.step - 1
           ahead == k - j
<1>2. more \in Nat /\ ahead \in Nat /\ p.step = more + 1 /\ k = j + ahead
  BY <1>1
<1>3. \A n, m \in Nat : n * m \in Nat
  OBVIOUS
<1>4. j * more \in Nat /\ ahead * p.step \in Nat /\ j * p.step \in Int
  BY <1>1, <1>2, <1>3
<1>5. j * p.step = j * more + j
  BY <1>2
<1>6. k * p.step = j * p.step + ahead * p.step
  BY <1>1, <1>2
<1> QED
  BY <1>4, <1>5, <1>6

\* The places that fit are those before the first that does not.
LEMMA PlacesFit ==
  ASSUME NEW p \in Plans, IsValid(p)
  PROVE  \E K \in Nat : /\ {k \in 0..(p.end - p.begin) : Fits(p, k)} = 0..(K - 1)
                        /\ ~Fits(p, K)
                        /\ K # 0 => Fits(p, K - 1)
<1> DEFINE need == FirstTest(p) + p.test + Embargo(p)
           Bad  == {k \in Nat : ~Fits(p, k)}
<1>1. need \in Int /\ p.begin < need /\ p.begin \in Int /\ p.end \in Int
  BY PlanType DEF FirstTest
<1> HIDE DEF need
<1>2. ASSUME NEW k \in Nat
      PROVE  Fits(p, k) <=> need + k * p.step <= p.end
  <2>1. /\ WindowAt(p, k).testEnd = FirstTest(p) + k * p.step + p.test
        /\ k * p.step \in Int
    BY WindowTimes, PlanType
  <2> QED
    BY <2>1, PlanType DEF Fits, need
<1>3. ASSUME NEW k \in Nat, Fits(p, k)
      PROVE  k \in 0..(p.end - p.begin)
  <2>1. k * p.step \in Int /\ k <= k * p.step
    BY StepsAhead
  <2>2. need + k * p.step <= p.end
    BY <1>2, <1>3
  <2> QED
    BY <1>1, <2>1, <2>2
<1>4. Bad # {}
  <2> DEFINE k == IF p.begin <= p.end THEN p.end - p.begin + 1 ELSE 0
  <2>1. k \in Nat /\ k \notin 0..(p.end - p.begin)
    BY <1>1
  <2> QED
    BY <1>3, <2>1
<1>5. PICK K \in Bad : \A k \in Bad : K <= k
  BY <1>4, LeastNat
<1>6. K \in Nat /\ ~Fits(p, K) /\ \A k \in Nat : k < K => Fits(p, k)
  BY <1>5
<1>7. ASSUME NEW k \in Nat, Fits(p, k) PROVE k < K
  <2>1. ASSUME K <= k PROVE FALSE
    <3>1. /\ K * p.step \in Int /\ k * p.step \in Int
          /\ K * p.step <= k * p.step
      BY <1>6, <2>1, StepsAhead
    <3>2. need + k * p.step <= p.end
      BY <1>2, <1>7
    <3>3. need + K * p.step <= p.end
      BY <1>1, <3>1, <3>2
    <3> QED
      BY <1>2, <1>6, <3>3
  <2> QED
    BY <1>6, <2>1
<1>8. {k \in 0..(p.end - p.begin) : Fits(p, k)} = 0..(K - 1)
  <2>1. ASSUME NEW k \in 0..(p.end - p.begin), Fits(p, k) PROVE k \in 0..(K - 1)
    <3>1. k \in Nat
      OBVIOUS
    <3> QED
      BY <1>6, <1>7, <2>1, <3>1
  <2>2. ASSUME NEW k \in 0..(K - 1)
        PROVE  k \in 0..(p.end - p.begin) /\ Fits(p, k)
    <3>1. k \in Nat /\ k < K
      BY <1>6
    <3> QED
      BY <1>3, <1>6, <3>1
  <2> QED
    BY <2>1, <2>2
<1>9. K # 0 => Fits(p, K - 1)
  BY <1>6
<1> QED
  BY <1>6, <1>8, <1>9

\* w holds the windows of p: as many as fit, from the first.
Laid(p, w) ==
  \E K \in Nat :
    /\ w = [n \in 1..K |-> WindowAt(p, n - 1)]
    /\ K # 0 => IsValid(p) /\ ~Fits(p, K) /\ Fits(p, K - 1)

\* The generators lay out the windows.
LEMMA GenerateLays ==
  ASSUME NEW p \in Plans, NEW places,
         places = IF IsValid(p) THEN {k \in 0..(p.end - p.begin) : Fits(p, k)} ELSE {}
  PROVE  Laid(p, [n \in 1..Cardinality(places) |-> WindowAt(p, n - 1)])
<1>1. CASE IsValid(p)
  <2>1. PICK K \in Nat : /\ {k \in 0..(p.end - p.begin) : Fits(p, k)} = 0..(K - 1)
                         /\ ~Fits(p, K)
                         /\ K # 0 => Fits(p, K - 1)
    BY <1>1, PlacesFit
  <2>2. places = 0..(K - 1)
    BY <1>1, <2>1
  <2>3. Cardinality(places) = K
    <3>1. 0 \in Int /\ K - 1 \in Int /\ K \in Nat
      OBVIOUS
    <3>2. Cardinality(0..(K - 1)) = IF 0 > K - 1 THEN 0 ELSE K - 1 - 0 + 1
      BY <3>1, FS_Interval
    <3>3. Cardinality(0..(K - 1)) = K
      BY <3>1, <3>2
    <3> QED
      BY <2>2, <3>3
  <2> QED
    BY <1>1, <2>1, <2>3 DEF Laid
<1>2. CASE ~IsValid(p)
  <2>1. Cardinality(places) = 0
    BY <1>2, FS_EmptySet
  <2> QED
    BY <2>1 DEF Laid
<1> QED
  BY <1>1, <1>2

-----------------------------------------------------------------------------
(* Slices of a timeline                                                     *)

\* A timeline is a sequence of its bars, whose stamps are integers.
LEMMA TimelineType ==
  ASSUME NEW t \in Timelines
  PROVE  /\ t \in Seq(ToSet(t))
         /\ \A b \in ToSet(t) : b.ts \in Int
<1> QED
  BY WalkForwardAssumption DEF ToSet

\* A slice is a sequence of the bars stamped within it.
LEMMA SliceType ==
  ASSUME NEW t \in Timelines, NEW lo, NEW hi
  PROVE  /\ Slice(t, lo, hi) \in Seq(ToSet(t))
         /\ ToSet(Slice(t, lo, hi)) = {b \in ToSet(t) : lo <= b.ts /\ b.ts < hi}
<1> DEFINE K == {b \in ToSet(t) : lo <= b.ts /\ b.ts < hi}
<1>1. Slice(t, lo, hi) = Keep(t, K)
  BY DEF Slice
<1>2. Keep(t, K) \in Seq(ToSet(t)) /\ Elements(Keep(t, K)) = Elements(t) \cap K
  BY TimelineType, KeepFacts
<1>3. Elements(t) = ToSet(t) /\ Elements(Keep(t, K)) = ToSet(Keep(t, K))
  BY DEF Elements, ToSet
<1> QED
  BY <1>1, <1>2, <1>3

\* Of an ordered timeline, no later bar is stamped earlier.
LEMMA OrderedFar ==
  ASSUME NEW t \in Timelines, IsOrdered(t)
  PROVE  \A m, n \in 1..Len(t) : m <= n => t[m].ts <= t[n].ts
<1>1. /\ Len(t) \in Nat /\ DOMAIN t = 1..Len(t)
      /\ \A n \in 1..Len(t) : t[n].ts \in Int
  <2>1. t \in Seq(ToSet(t)) /\ \A b \in ToSet(t) : b.ts \in Int
    BY TimelineType
  <2>2. Len(t) \in Nat /\ DOMAIN t = 1..Len(t) /\ \A n \in 1..Len(t) : t[n] \in ToSet(t)
    BY <2>1
  <2> QED
    BY <2>1, <2>2
<1> TAKE m \in 1..Len(t)
<1> DEFINE Fails == {n \in m..Len(t) : ~(t[m].ts <= t[n].ts)}
<1>2. ASSUME Fails # {} PROVE FALSE
  <2>1. Fails \subseteq Nat
    BY <1>1
  <2>2. PICK n \in Fails : \A k \in Fails : n <= k
    BY <1>2, <2>1, LeastNat
  <2>3. n # m
    BY <1>1, <2>2
  <2>4. n - 1 \in m..Len(t) /\ n - 1 \in 1..(Len(t) - 1) /\ n \in 1..Len(t) /\ n - 1 + 1 = n
    BY <1>1, <2>2, <2>3
  <2>5. t[n - 1].ts <= t[n].ts
    BY <2>4 DEF IsOrdered
  <2>6. n - 1 \notin Fails
    BY <1>1, <2>2, <2>4
  <2> QED
    BY <1>1, <2>2, <2>4, <2>5, <2>6
<1>3. TAKE n \in 1..Len(t)
<1>4. m <= n => n \in m..Len(t)
  BY <1>1
<1> QED
  BY <1>2, <1>4

\* A sequence without elements is empty.
LEMMA NoElements == ASSUME NEW S, NEW s \in Seq(S), Elements(s) = {} PROVE s = << >>
<1>1. Len(s) \in Nat /\ DOMAIN s = 1..Len(s)
  OBVIOUS
<1>2. ASSUME Len(s) # 0 PROVE FALSE
  <2>1. 1 \in DOMAIN s
    BY <1>1, <1>2
  <2>2. s[1] \in Elements(s)
    BY <2>1 DEF Elements
  <2> QED
    BY <2>2
<1> QED
  BY <1>2

\* Appending to the second part appends to the whole.
LEMMA AppendLater ==
  ASSUME NEW S, NEW s \in Seq(S), NEW t \in Seq(S), NEW e \in S
  PROVE  s \o Append(t, e) = Append(s \o t, e)
  OBVIOUS

\* Two parts of a sequence join if none of the first lies after one of the second.
LEMMA KeepJoins ==
  ASSUME NEW S, NEW s \in Seq(S), NEW A, NEW B, A \cap B = {},
         \A m, n \in 1..Len(s) : m <= n => ~(s[m] \in B /\ s[n] \in A)
  PROVE  Keep(s, A) \o Keep(s, B) = Keep(s, A \cup B)
<1> DEFINE f == KeptPrefix(s, A)
           g == KeptPrefix(s, B)
           h == KeptPrefix(s, A \cup B)
           Meets(k) == f[k] \o g[k] = h[k]
           Fails == {k \in 0..Len(s) : ~Meets(k)}
<1>1. Len(s) \in Nat /\ Len(s) \in 0..Len(s)
  OBVIOUS
<1>2. ASSUME NEW k \in 0..Len(s)
      PROVE  /\ f[k] = Kept(s, A, f, k) /\ f[k] \in Seq(S)
             /\ g[k] = Kept(s, B, g, k) /\ g[k] \in Seq(S)
             /\ h[k] = Kept(s, A \cup B, h, k)
             /\ Elements(g[k]) = {s[n] : n \in 1..k} \cap B
  <2>1. /\ f[k] = Kept(s, A, f, k) /\ g[k] = Kept(s, B, g, k)
        /\ h[k] = Kept(s, A \cup B, h, k)
    BY KeptEquation
  <2>2. f[k] \in Seq(S)
    BY KeptPrefixFacts
  <2>3. g[k] \in Seq(S) /\ Elements(g[k]) = {s[n] : n \in 1..k} \cap B
    <3>1. g[k] \in Seq(S)
      BY KeptPrefixFacts
    <3>2. Elements(g[k]) = {s[n] : n \in 1..k} \cap B
      BY KeptPrefixFacts
    <3> QED
      BY <3>1, <3>2
  <2> QED
    BY <2>1, <2>2, <2>3
<1> HIDE DEF f, g, h, Meets
<1>3. ASSUME Fails # {} PROVE FALSE
  <2>1. Fails \subseteq Nat
    BY <1>1
  <2>2. PICK k \in Fails : \A j \in Fails : k <= j
    BY <1>3, <2>1, LeastNat
  <2>3. k \in 0..Len(s) /\ f[k] \o g[k] # h[k]
    BY <2>2 DEF Meets
  <2>4. k # 0
    <3>1. ASSUME k = 0 PROVE f[k] = << >> /\ g[k] = << >> /\ h[k] = << >>
      BY <1>2, <2>3, <3>1 DEF Kept
    <3>2. << >> \o << >> = << >>
      OBVIOUS
    <3> QED
      BY <2>3, <3>1, <3>2
  <2>5. k - 1 \in 0..Len(s) /\ k - 1 \in Nat /\ k \in 1..Len(s) /\ k - 1 < k
    BY <1>1, <2>3, <2>4
  <2>6. f[k - 1] \o g[k - 1] = h[k - 1]
    <3>1. k - 1 \notin Fails
      BY <2>2, <2>5
    <3> QED
      BY <2>5, <3>1 DEF Meets
  <2>7. /\ f[k] = IF s[k] \in A THEN Append(f[k - 1], s[k]) ELSE f[k - 1]
        /\ g[k] = IF s[k] \in B THEN Append(g[k - 1], s[k]) ELSE g[k - 1]
        /\ h[k] = IF s[k] \in A \/ s[k] \in B THEN Append(h[k - 1], s[k]) ELSE h[k - 1]
    BY <1>2, <2>3, <2>4 DEF Kept
  <2>8. f[k - 1] \in Seq(S) /\ g[k - 1] \in Seq(S) /\ s[k] \in S
    BY <1>2, <2>5
  <2>9. CASE s[k] \in A
    <3>1. \A n \in 1..(k - 1) : s[n] \notin B
      <4> TAKE n \in 1..(k - 1)
      <4>1. n \in 1..Len(s) /\ n <= k
        BY <1>1, <2>5
      <4> QED
        BY <2>5, <2>9, <4>1
    <3>2. Elements(g[k - 1]) = {}
      <4>1. Elements(g[k - 1]) = {s[n] : n \in 1..(k - 1)} \cap B
        BY <1>2, <2>5
      <4> QED
        BY <3>1, <4>1
    <3>3. g[k - 1] = << >>
      BY <2>8, <3>2, NoElements
    <3>4. s[k] \notin B
      BY <2>9
    <3>5. f[k] \o g[k] = Append(f[k - 1], s[k])
      BY <2>7, <2>8, <2>9, <3>3, <3>4
    <3>6. f[k - 1] = h[k - 1]
      BY <2>6, <2>8, <3>3
    <3> QED
      BY <2>3, <2>7, <2>9, <3>5, <3>6
  <2>10. CASE s[k] \in B
    <3>1. s[k] \notin A
      BY <2>10
    <3>2. f[k - 1] \o Append(g[k - 1], s[k]) = Append(f[k - 1] \o g[k - 1], s[k])
      <4>1. \A u, v \in Seq(S), x \in S : u \o Append(v, x) = Append(u \o v, x)
        BY AppendLater
      <4> QED
        BY <2>8, <4>1
    <3> QED
      BY <2>3, <2>6, <2>7, <2>10, <3>1, <3>2
  <2>11. CASE s[k] \notin A /\ s[k] \notin B
    BY <2>3, <2>6, <2>7, <2>11
  <2> QED
    BY <2>9, <2>10, <2>11
<1>4. f[Len(s)] \o g[Len(s)] = h[Len(s)]
  BY <1>1, <1>3 DEF Meets
<1> QED
  BY <1>4 DEF f, g, h, Keep

\* Slices of an ordered timeline join where one ends and the other begins.
LEMMA SlicesJoin ==
  ASSUME NEW t \in Timelines, IsOrdered(t), NEW lo \in Int, NEW mid \in Int, NEW hi \in Int,
         lo <= mid, mid <= hi
  PROVE  Slice(t, lo, mid) \o Slice(t, mid, hi) = Slice(t, lo, hi)
<1> DEFINE A == {b \in ToSet(t) : lo <= b.ts /\ b.ts < mid}
           B == {b \in ToSet(t) : mid <= b.ts /\ b.ts < hi}
           C == {b \in ToSet(t) : lo <= b.ts /\ b.ts < hi}
<1>1. t \in Seq(ToSet(t)) /\ \A b \in ToSet(t) : b.ts \in Int
  BY TimelineType
<1>2. A \cup B = C /\ A \cap B = {}
  BY <1>1
<1>3. ASSUME NEW m \in 1..Len(t), NEW n \in 1..Len(t), m <= n
      PROVE  ~(t[m] \in B /\ t[n] \in A)
  <2>1. t[m].ts <= t[n].ts /\ t[m] \in ToSet(t) /\ t[n] \in ToSet(t)
    BY <1>1, <1>3, OrderedFar DEF ToSet
  <2>2. t[m].ts \in Int /\ t[n].ts \in Int
    BY <1>1, <2>1
  <2> QED
    BY <2>1, <2>2
<1>4. Slice(t, lo, mid) = Keep(t, A) /\ Slice(t, mid, hi) = Keep(t, B) /\ Slice(t, lo, hi) = Keep(t, C)
  BY DEF Slice
<1> HIDE DEF A, B, C
<1>5. Keep(t, A) \o Keep(t, B) = Keep(t, A \cup B)
  BY <1>1, <1>2, <1>3, KeepJoins
<1> QED
  BY <1>2, <1>4, <1>5

-----------------------------------------------------------------------------
(* Sequences laid end to end                                                *)

\* flat holds, for each prefix of ss, the sequences of it laid end to end.
Flattens(ss, flat) ==
  \A i \in 1..Len(ss) : flat[i] = IF i = 1 THEN ss[1] ELSE flat[i - 1] \o ss[i]

\* FlattenSeq's recursion has a solution, and it is the last of it.
LEMMA FlattenEquation ==
  ASSUME NEW S, NEW ss \in Seq(Seq(S)), Len(ss) # 0
  PROVE  \E flat : /\ Flattens(ss, flat)
                   /\ \A i \in 1..Len(ss) : flat[i] \in Seq(S)
                   /\ FlattenSeq(ss) = flat[Len(ss)]
<1> DEFINE N    == Len(ss) - 1
           step == [n \in 1..N |-> [v \in Seq(S) |-> v \o ss[n + 1]]]
           E(f) == [i \in 1..Len(ss) |-> IF i = 1 THEN ss[i] ELSE f[i - 1] \o ss[i]]
<1>1. Len(ss) \in Nat /\ N \in Nat /\ 1 \in 1..Len(ss) /\ \A i \in 1..Len(ss) : ss[i] \in Seq(S)
  OBVIOUS
<1>2. StaysIn(Seq(S), N, step)
  <2> SUFFICES ASSUME NEW n \in 1..N, NEW v \in Seq(S) PROVE step[n][v] \in Seq(S)
    BY DEF StaysIn
  <2>1. n + 1 \in 1..Len(ss)
    BY <1>1
  <2>2. step[n][v] = v \o ss[n + 1]
    OBVIOUS
  <2> QED
    BY <1>1, <2>1, <2>2
<1>3. PICK f : Solves(f, Seq(S), N, ss[1], step)
  <2> HIDE DEF N, step
  <2> QED
    BY <1>1, <1>2, RecursionExists
<1> DEFINE g == [i \in 1..Len(ss) |-> f[i - 1]]
<1>4. ASSUME NEW i \in 1..Len(ss)
      PROVE  /\ g[i] = f[i - 1] /\ g[i] \in Seq(S)
             /\ g[i] = IF i = 1 THEN ss[i] ELSE g[i - 1] \o ss[i]
  <2>1. i - 1 \in 0..N /\ (i # 1 => i - 1 \in 1..N /\ i - 1 \in 1..Len(ss) /\ i - 1 - 1 \in 0..N)
    BY <1>1
  <2>2. f \in [0..N -> Seq(S)]
    BY <1>3 DEF Solves
  <2>3. f[i - 1] = IF i - 1 = 0 THEN ss[1] ELSE step[i - 1][f[i - 1 - 1]]
    BY <1>3, <2>1 DEF Solves
  <2>4. ASSUME i # 1 PROVE g[i] = g[i - 1] \o ss[i]
    <3>1. g[i - 1] = f[i - 1 - 1] /\ g[i - 1] \in Seq(S)
      BY <2>1, <2>2, <2>4
    <3>2. step[i - 1][g[i - 1]] = g[i - 1] \o ss[i - 1 + 1]
      BY <2>1, <2>4, <3>1
    <3>3. i - 1 + 1 = i /\ i - 1 # 0
      BY <2>4
    <3> QED
      BY <2>3, <3>1, <3>2, <3>3
  <2>5. i = 1 => f[i - 1] = ss[i]
    BY <2>3
  <2> QED
    BY <2>1, <2>2, <2>4, <2>5
<1>5. g = E(g)
  BY <1>4
<1>6. FlattenSeq(ss) = (CHOOSE f2 : f2 = E(f2))[Len(ss)]
  BY <1>1 DEF FlattenSeq
<1> DEFINE flat == CHOOSE f2 : f2 = E(f2)
<1>7. flat = E(flat)
  <2> HIDE DEF E, g
  <2> QED
    BY <1>5
<1>8. ASSUME NEW i \in 1..Len(ss)
      PROVE  flat[i] = IF i = 1 THEN ss[1] ELSE flat[i - 1] \o ss[i]
  <2>1. E(flat)[i] = IF i = 1 THEN ss[i] ELSE flat[i - 1] \o ss[i]
    <3> HIDE DEF flat
    <3> QED
      OBVIOUS
  <2> HIDE DEF flat, E
  <2> QED
    BY <1>7, <2>1
<1> HIDE DEF flat
<1>9. \A i \in 1..Len(ss) : flat[i] \in Seq(S)
  <2> DEFINE Fails == {i \in 1..Len(ss) : flat[i] \notin Seq(S)}
  <2>1. ASSUME Fails # {} PROVE FALSE
    <3>1. Fails \subseteq Nat
      OBVIOUS
    <3>2. PICK i \in Fails : \A j \in Fails : i <= j
      BY <2>1, <3>1, LeastNat
    <3>3. i \in 1..Len(ss) /\ flat[i] \notin Seq(S) /\ i # 1
      BY <1>1, <1>8, <3>2
    <3>4. i - 1 \in 1..Len(ss) /\ ~(i <= i - 1)
      BY <1>1, <3>3
    <3>5. flat[i - 1] \in Seq(S) /\ ss[i] \in Seq(S)
      BY <1>1, <3>2, <3>3, <3>4
    <3>6. flat[i] = flat[i - 1] \o ss[i]
      BY <1>8, <3>3
    <3> QED
      BY <3>3, <3>5, <3>6
  <2> QED
    BY <2>1
<1>10. Flattens(ss, flat)
  BY <1>8 DEF Flattens
<1> QED
  BY <1>6, <1>9, <1>10 DEF flat

\* Nothing laid end to end is nothing.
LEMMA FlattenNone == ASSUME NEW ss, ss = << >> PROVE FlattenSeq(ss) = << >>
<1>1. Len(ss) = 0
  OBVIOUS
<1> QED
  BY <1>1 DEF FlattenSeq

\* It is as long as all of them.
LEMMA FlattenLength ==
  ASSUME NEW S, NEW ss \in Seq(Seq(S))
  PROVE  Len(FlattenSeq(ss)) = SumFunctionOnSet([n \in 1..Len(ss) |-> Len(ss[n])], 1..Len(ss))
<1> DEFINE F == [n \in 1..Len(ss) |-> Len(ss[n])]
<1>1. Len(ss) \in Nat /\ \A n \in 1..Len(ss) : ss[n] \in Seq(S) /\ F[n] \in Nat
  OBVIOUS
<1>2. CASE Len(ss) = 0
  <2>1. ss = << >> /\ 1..Len(ss) = {}
    BY <1>2
  <2>2. SumFunctionOnSet(F, {}) = 0
    BY FS_EmptySet, SumStep
  <2>3. Len(FlattenSeq(ss)) = 0
    BY <2>1, FlattenNone
  <2> QED
    BY <2>1, <2>2, <2>3
<1>3. CASE Len(ss) # 0
  <2>1. PICK flat : /\ Flattens(ss, flat)
                    /\ \A i \in 1..Len(ss) : flat[i] \in Seq(S)
                    /\ FlattenSeq(ss) = flat[Len(ss)]
    BY <1>3, FlattenEquation
  <2> HIDE DEF F
  <2> DEFINE Holds(i) == Len(flat[i]) = SumFunctionOnSet(F, 1..i)
             Fails    == {i \in 1..Len(ss) : ~Holds(i)}
  <2>2. ASSUME Fails # {} PROVE FALSE
    <3>1. Fails \subseteq Nat
      OBVIOUS
    <3>2. PICK i \in Fails : \A j \in Fails : i <= j
      BY <2>2, <3>1, LeastNat
    <3>3. i \in 1..Len(ss) /\ i \in Nat /\ ~Holds(i)
      BY <1>1, <3>2
    <3>4. CASE i = 1
      <4>1. Len(flat[1]) = F[1]
        BY <2>1, <3>3, <3>4 DEF Flattens, F
      <4>2. SumFunctionOnSet(F, 1..i) = F[i]
        <5>1. IsFiniteSet(1..i)
          BY <3>3, FS_Interval
        <5>2. i \in 1..i /\ \A y \in (1..i) \ {i} : F[y] = 0
          BY <3>4
        <5>3. F[i] \in Int
          BY <1>1, <3>3
        <5> QED
          BY <5>1, <5>2, <5>3, SumOnly
      <4> QED
        BY <3>3, <3>4, <4>1, <4>2
    <3>5. CASE i # 1
      <4>1. i - 1 \in 1..Len(ss) /\ i - 1 \in Nat /\ ~(i <= i - 1) /\ i - 1 + 1 = i
        BY <1>1, <3>3, <3>5
      <4>2. Holds(i - 1)
        <5> HIDE DEF Holds
        <5> QED
          BY <3>2, <4>1
      <4>3. flat[i] = flat[i - 1] \o ss[i]
        BY <2>1, <3>3, <3>5 DEF Flattens
      <4>4. Len(flat[i]) = Len(flat[i - 1]) + F[i]
        <5>1. flat[i - 1] \in Seq(S) /\ ss[i] \in Seq(S)
          BY <1>1, <2>1, <3>3, <4>1
        <5> QED
          BY <3>3, <4>3, <5>1 DEF F
      <4>5. \A j \in 1..(i - 1 + 1) : F[j] \in Int
        BY <1>1, <3>3, <4>1
      <4>6. SumFunctionOnSet(F, 1..(i - 1 + 1)) = SumFunctionOnSet(F, 1..(i - 1)) + F[i - 1 + 1]
        BY <4>1, <4>5, SumAppend
      <4> QED
        BY <3>3, <4>1, <4>2, <4>4, <4>6
    <3> QED
      BY <3>4, <3>5
  <2>3. Len(ss) \in 1..Len(ss)
    BY <1>1, <1>3
  <2>4. Holds(Len(ss))
    <3> HIDE DEF Holds
    <3> QED
      BY <2>2, <2>3
  <2> QED
    BY <2>1, <2>4 DEF F
<1> QED
  BY <1>2, <1>3

\* Each term one more makes the sum more by the number of terms.
LEMMA SumOneMore ==
  ASSUME NEW F, NEW G, NEW S, IsFiniteSet(S), \A y \in S : F[y] \in Int /\ G[y] = F[y] + 1
  PROVE  /\ Cardinality(S) \in Nat /\ SumFunctionOnSet(F, S) \in Int
         /\ SumFunctionOnSet(G, S) = SumFunctionOnSet(F, S) + Cardinality(S)
<1> DEFINE Holds(s) == SumFunctionOnSet(G, s) = SumFunctionOnSet(F, s) + Cardinality(s)
           Fails == {s \in SUBSET S : ~Holds(s)}
<1>1. ASSUME NEW s \in SUBSET S
      PROVE  /\ IsFiniteSet(s) /\ Cardinality(s) \in Nat
             /\ SumFunctionOnSet(F, s) \in Int /\ SumFunctionOnSet(G, s) \in Int
  <2>1. IsFiniteSet(s)
    BY FS_Subset
  <2>2. \A y \in s : F[y] \in Int /\ G[y] \in Int
    OBVIOUS
  <2> QED
    BY <2>1, <2>2, SumType, FS_CardinalityType
<1>2. ASSUME Fails # {} PROVE FALSE
  <2>1. PICK s \in Fails : \A t \in Fails : Cardinality(s) <= Cardinality(t)
    BY <1>1, <1>2, LeastSet
  <2>2. s \in SUBSET S /\ ~Holds(s)
    BY <2>1
  <2>3. s # {}
    <3>1. SumFunctionOnSet(F, {}) = 0 /\ SumFunctionOnSet(G, {}) = 0 /\ Cardinality({}) = 0
      BY FS_EmptySet, SumStep
    <3> QED
      BY <2>2, <3>1
  <2>4. PICK x \in s : TRUE
    BY <2>3
  <2>5. \A y \in s : F[y] \in Int /\ G[y] \in Int /\ G[y] = F[y] + 1
    BY <2>2
  <2>6. /\ SumFunctionOnSet(F, s) = F[x] + SumFunctionOnSet(F, s \ {x})
        /\ SumFunctionOnSet(G, s) = G[x] + SumFunctionOnSet(G, s \ {x})
    <3>1. IsFiniteSet(s) /\ x \in s
      BY <1>1, <2>2, <2>4
    <3>2. \A y \in s : F[y] \in Int
      BY <2>5
    <3>3. \A y \in s : G[y] \in Int
      BY <2>5
    <3>4. SumFunctionOnSet(F, s) = F[x] + SumFunctionOnSet(F, s \ {x})
      BY <3>1, <3>2, SumSplit
    <3>5. SumFunctionOnSet(G, s) = G[x] + SumFunctionOnSet(G, s \ {x})
      BY <3>1, <3>3, SumSplit
    <3> QED
      BY <3>4, <3>5
  <2>7. s \ {x} \in SUBSET S /\ Cardinality(s \ {x}) = Cardinality(s) - 1
    BY <1>1, <2>2, <2>4, FS_RemoveElement
  <2>8. Holds(s \ {x})
    <3>1. ~(Cardinality(s) <= Cardinality(s \ {x}))
      BY <1>1, <2>2, <2>7
    <3> HIDE DEF Holds
    <3> QED
      BY <2>1, <2>7, <3>1
  <2> QED
    BY <1>1, <2>2, <2>4, <2>5, <2>6, <2>7, <2>8
<1> HIDE DEF Holds
<1>3. S \in SUBSET S /\ Holds(S)
  BY <1>2
<1> QED
  BY <1>1, <1>3 DEF Holds

-----------------------------------------------------------------------------
(* The folds                                                                *)

FoldRecords(t) == [test : Seq(ToSet(t)), solvent : BOOLEAN]

\* Each fold of f was judged on its window's test.
Judged(t, w, f) == \A n \in 1..Len(f) : f[n].test = Slice(t, w[n].testStart, w[n].testEnd)

\* s is what Pool makes of the folds.
Summarized(f, s) ==
  LET measured == {n \in DOMAIN f : IsMeasurable(f[n])}
  IN  /\ s.measured = Cardinality(measured)
      /\ s.unmeasurable = Cardinality(DOMAIN f \ measured)
      /\ s.periods = SumFunctionOnSet([n \in DOMAIN f |-> Len(f[n].test) - 1], measured)

\* The windows of a plan: their order, and that no more would fit.
LEMMA LaidFacts ==
  ASSUME NEW p \in Plans, NEW w, Laid(p, w)
  PROVE  /\ Len(w) \in Nat /\ DOMAIN w = 1..Len(w)
         /\ \A n \in 1..Len(w) :
              /\ w[n].trainEnd \in Int /\ w[n].testStart \in Int /\ w[n].testEnd \in Int
              /\ w[n].trainEnd <= w[n].testStart /\ w[n].testStart <= w[n].testEnd
         /\ \A n \in 1..(Len(w) - 1) :
              /\ w[n].trainEnd <= w[n + 1].trainEnd
              /\ p.step = p.test => w[n + 1].testStart = w[n].testEnd
         /\ Len(w) # 0 => /\ w[Len(w)].testEnd <= p.end - Embargo(p)
                          /\ p.end - Embargo(p) < w[Len(w)].testEnd + p.step
<1>1. PICK K \in Nat : /\ w = [n \in 1..K |-> WindowAt(p, n - 1)]
                       /\ K # 0 => IsValid(p) /\ ~Fits(p, K) /\ Fits(p, K - 1)
  BY DEF Laid
<1>2. Len(w) = K /\ DOMAIN w = 1..K
  BY <1>1
<1>3. ASSUME NEW n \in 1..K
      PROVE  /\ w[n].testStart = FirstTest(p) + (n - 1) * p.step
             /\ w[n].testEnd = w[n].testStart + p.test
             /\ w[n].trainEnd = w[n].testStart - Purge(p)
             /\ (n - 1) * p.step \in Int /\ n * p.step = (n - 1) * p.step + p.step
             /\ w[n].trainEnd \in Int /\ w[n].testStart \in Int /\ w[n].testEnd \in Int
  <2>1. w[n] = WindowAt(p, n - 1) /\ n - 1 \in Nat /\ n - 1 + 1 = n
    BY <1>1
  <2> QED
    BY <2>1, WindowTimes, StepOn
<1>4. /\ p.end \in Int /\ p.test \in Int /\ p.step \in Int
      /\ Purge(p) \in Int /\ Embargo(p) \in Int /\ FirstTest(p) \in Int
      /\ K # 0 => p.train > 0 /\ p.test > 0 /\ p.step > 0 /\ Purge(p) >= 0 /\ Embargo(p) >= 0
  BY <1>1, PlanType
<1>5. ASSUME NEW n \in 1..K
      PROVE  w[n].trainEnd <= w[n].testStart /\ w[n].testStart <= w[n].testEnd
  BY <1>3, <1>4
<1>6. ASSUME NEW n \in 1..(K - 1)
      PROVE  /\ w[n].trainEnd <= w[n + 1].trainEnd
             /\ p.step = p.test => w[n + 1].testStart = w[n].testEnd
  <2>1. n \in 1..K /\ n + 1 \in 1..K /\ n + 1 - 1 = n /\ K # 0
    OBVIOUS
  <2>2. w[n + 1].testStart = FirstTest(p) + n * p.step /\ w[n + 1].trainEnd = w[n + 1].testStart - Purge(p)
    BY <1>3, <2>1
  <2>3. w[n + 1].testStart = w[n].testStart + p.step
    BY <1>3, <1>4, <2>1, <2>2
  <2> QED
    BY <1>3, <1>4, <2>1, <2>2, <2>3
<1>7. ASSUME K # 0
      PROVE  /\ w[K].testEnd <= p.end - Embargo(p)
             /\ p.end - Embargo(p) < w[K].testEnd + p.step
  <2>1. K \in 1..K /\ K - 1 \in Nat
    BY <1>7
  <2>2. w[K] = WindowAt(p, K - 1)
    BY <1>1, <2>1
  <2>3. w[K].testEnd + Embargo(p) <= p.end
    BY <1>1, <1>7, <2>2 DEF Fits
  <2>4. WindowAt(p, K).testEnd = FirstTest(p) + K * p.step + p.test
    BY WindowTimes
  <2>5. WindowAt(p, K).testEnd = w[K].testEnd + p.step
    BY <1>3, <1>4, <2>1, <2>4
  <2>6. ~(WindowAt(p, K).testEnd + Embargo(p) <= p.end)
    BY <1>1, <1>7 DEF Fits
  <2> QED
    BY <1>3, <1>4, <2>1, <2>3, <2>5, <2>6
<1> QED
  BY <1>2, <1>3, <1>5, <1>6, <1>7

\* A member of a sequence is of what the sequence is of.
LEMMA MemberType == ASSUME NEW R, NEW s \in Seq(R), NEW n \in 1..Len(s) PROVE s[n] \in R
  OBVIOUS

\* What the folds were judged on, laid end to end, is one slice, if the step is
\* one test.
LEMMA JudgedJoin ==
  ASSUME NEW p \in Plans, p.step = p.test, NEW t \in Timelines, IsOrdered(t),
         NEW w, Laid(p, w), Len(w) # 0,
         NEW f \in Seq(FoldRecords(t)), Len(f) = Len(w), Judged(t, w, f)
  PROVE  FlattenSeq([n \in DOMAIN f |-> f[n].test]) = Slice(t, w[1].testStart, w[Len(w)].testEnd)
<1> DEFINE tests == [n \in DOMAIN f |-> f[n].test]
           N == Len(w)
<1>1. N \in Nat /\ DOMAIN f = 1..N /\ 1 \in 1..N /\ N \in 1..N
  <2>1. N \in Nat /\ N # 0
    BY LaidFacts
  <2>2. DOMAIN f = 1..N
    OBVIOUS
  <2> QED
    BY <2>1, <2>2
<1>2. tests \in Seq(Seq(ToSet(t))) /\ Len(tests) = N
  <2>1. \A n \in 1..N : f[n] \in FoldRecords(t)
    BY <1>1, MemberType
  <2>2. \A n \in 1..N : f[n].test \in Seq(ToSet(t))
    BY <2>1 DEF FoldRecords
  <2>3. tests = [n \in 1..N |-> f[n].test]
    BY <1>1
  <2> QED
    BY <1>1, <2>2, <2>3
<1>3. ASSUME NEW n \in 1..N PROVE tests[n] = Slice(t, w[n].testStart, w[n].testEnd)
  BY <1>1 DEF Judged
<1> HIDE DEF tests
<1>4. PICK flat : /\ Flattens(tests, flat)
                  /\ FlattenSeq(tests) = flat[N]
  BY <1>1, <1>2, FlattenEquation
<1> DEFINE Holds(n) == /\ flat[n] = Slice(t, w[1].testStart, w[n].testEnd)
                       /\ w[1].testStart <= w[n].testStart
           Fails == {n \in 1..N : ~Holds(n)}
<1>5. \A n \in 1..N : /\ w[n].testStart \in Int /\ w[n].testEnd \in Int
                      /\ w[n].testStart <= w[n].testEnd
  BY LaidFacts
<1>6. ASSUME Fails # {} PROVE FALSE
  <2>1. Fails \subseteq Nat
    OBVIOUS
  <2>2. PICK n \in Fails : \A j \in Fails : n <= j
    BY <1>6, <2>1, LeastNat
  <2>3. n \in 1..N /\ ~Holds(n)
    BY <2>2
  <2>4. CASE n = 1
    <3>1. flat[n] = tests[1]
      BY <1>2, <1>4, <2>3, <2>4 DEF Flattens
    <3> QED
      BY <1>3, <1>5, <2>3, <2>4, <3>1
  <2>5. CASE n # 1
    <3>1. n - 1 \in 1..N /\ n - 1 \in 1..(N - 1) /\ ~(n <= n - 1) /\ n - 1 + 1 = n
      BY <1>1, <2>3, <2>5
    <3>2. Holds(n - 1)
      <4> HIDE DEF Holds
      <4> QED
        BY <2>2, <3>1
    <3>3. flat[n] = flat[n - 1] \o tests[n]
      BY <1>2, <1>4, <2>3, <2>5 DEF Flattens
    <3>4. w[n].testStart = w[n - 1].testEnd
      <4>1. \A m \in 1..(N - 1) : w[m + 1].testStart = w[m].testEnd
        BY LaidFacts
      <4> QED
        BY <3>1, <4>1
    <3>5. /\ w[1].testStart \in Int /\ w[n].testStart \in Int /\ w[n].testEnd \in Int
          /\ w[n - 1].testStart \in Int
          /\ w[1].testStart <= w[n].testStart /\ w[n].testStart <= w[n].testEnd
      BY <1>1, <1>5, <2>3, <3>1, <3>2, <3>4
    <3>6. Slice(t, w[1].testStart, w[n].testStart) \o Slice(t, w[n].testStart, w[n].testEnd)
            = Slice(t, w[1].testStart, w[n].testEnd)
      BY <3>5, SlicesJoin
    <3>7. flat[n] = Slice(t, w[1].testStart, w[n].testEnd)
      BY <1>3, <2>3, <3>2, <3>3, <3>4, <3>6
    <3> QED
      BY <2>3, <3>5, <3>7
  <2> QED
    BY <2>4, <2>5
<1>7. Holds(N)
  <2> HIDE DEF Holds
  <2> QED
    BY <1>1, <1>6
<1> QED
  BY <1>4, <1>7 DEF tests

\* The pool counts every fold, and one return less than bars for each measured.
LEMMA PoolAddsUp ==
  ASSUME NEW S, NEW f \in Seq([test : Seq(S), solvent : BOOLEAN]), NEW s, Summarized(f, s)
  PROVE  /\ s.measured + s.unmeasurable = Len(f)
         /\ s.periods = Len(FlattenSeq([n \in DOMAIN f |->
                              IF IsMeasurable(f[n]) THEN f[n].test ELSE << >>])) - s.measured
<1> DEFINE N == Len(f)
           measured == {n \in 1..N : IsMeasurable(f[n])}
           F == [n \in 1..N |-> Len(f[n].test) - 1]
           L == [n \in 1..N |-> Len(f[n].test)]
           parts == [n \in 1..N |-> IF IsMeasurable(f[n]) THEN f[n].test ELSE << >>]
           G == [n \in 1..N |-> Len(parts[n])]
<1>1. N \in Nat /\ DOMAIN f = 1..N
      /\ \A n \in 1..N : f[n].test \in Seq(S) /\ Len(f[n].test) \in Nat
  <2>1. N \in Nat /\ DOMAIN f = 1..N
    OBVIOUS
  <2>2. \A n \in 1..N : f[n] \in [test : Seq(S), solvent : BOOLEAN]
    BY MemberType
  <2>3. \A n \in 1..N : f[n].test \in Seq(S)
    BY <2>2
  <2>4. \A u \in Seq(S) : Len(u) \in Nat
    OBVIOUS
  <2> QED
    BY <2>1, <2>3, <2>4
<1>2. parts \in Seq(Seq(S)) /\ Len(parts) = N
  <2>1. \A n \in 1..N : parts[n] \in Seq(S)
    BY <1>1
  <2> QED
    BY <1>1, <2>1
<1>3. Len(FlattenSeq(parts)) = SumFunctionOnSet(G, 1..N)
  <2>1. Len(FlattenSeq(parts))
          = SumFunctionOnSet([n \in 1..Len(parts) |-> Len(parts[n])], 1..Len(parts))
    <3> HIDE DEF parts
    <3> QED
      BY <1>2, FlattenLength
  <2> HIDE DEF parts
  <2> QED
    BY <1>2, <2>1
<1>4. IsFiniteSet(1..N) /\ Cardinality(1..N) = N
  <2>1. IsFiniteSet(1..N) /\ Cardinality(1..N) = IF 1 > N THEN 0 ELSE N - 1 + 1
    BY <1>1, FS_Interval
  <2> QED
    BY <1>1, <2>1
<1>5. /\ measured \subseteq 1..N
      /\ \A n \in 1..N : G[n] \in Int
      /\ \A n \in (1..N) \ measured : G[n] = 0
      /\ \A n \in measured : F[n] \in Int /\ G[n] = F[n] + 1
  BY <1>1
<1>6. IsFiniteSet(measured)
  BY <1>4, <1>5, FS_Subset
<1> HIDE DEF measured, F, G, parts
<1>7. SumFunctionOnSet(G, 1..N) = SumFunctionOnSet(G, measured)
  BY <1>4, <1>5, SumSubset
<1>8. /\ Cardinality(measured) \in Nat /\ SumFunctionOnSet(F, measured) \in Int
      /\ SumFunctionOnSet(G, measured) = SumFunctionOnSet(F, measured) + Cardinality(measured)
  BY <1>5, <1>6, SumOneMore
<1>9. Cardinality(measured) + Cardinality((1..N) \ measured) = N
  <2>1. Cardinality((1..N) \ measured) = Cardinality(1..N) - Cardinality((1..N) \cap measured)
    BY <1>4, FS_Difference
  <2>2. (1..N) \cap measured = measured
    BY <1>5
  <2>3. Cardinality((1..N) \ measured) = N - Cardinality(measured)
    BY <1>4, <2>1, <2>2
  <2> QED
    BY <1>1, <1>8, <2>3
<1>10. /\ s.measured = Cardinality(measured)
       /\ s.unmeasurable = Cardinality((1..N) \ measured)
       /\ s.periods = SumFunctionOnSet(F, measured)
  BY <1>1 DEF Summarized, measured, F
<1>11. FlattenSeq([n \in DOMAIN f |-> IF IsMeasurable(f[n]) THEN f[n].test ELSE << >>])
         = FlattenSeq(parts)
  BY <1>1 DEF parts
<1> QED
  BY <1>3, <1>7, <1>8, <1>9, <1>10, <1>11

\* The runner is at one of the windows, everything fitted is of its training
\* or an earlier one, and each fold before was judged on its test.
FoldInv ==
  /\ plan \in Plans /\ bars \in Timelines /\ fold \in Nat
  /\ stage \in {"generate", "check", "fit", "evaluate", "pool", "done", "refused"}
  /\ folds \in Seq(FoldRecords(bars)) /\ fitted \subseteq ToSet(bars)
  /\ stage = "generate" => windows = << >>
  /\ stage \in {"generate", "check"} => fold = 0 /\ folds = << >> /\ fitted = {}
  /\ stage # "generate" => Laid(plan, windows)
  /\ stage \in {"fit", "evaluate"} =>
       /\ fold \in 1..Len(windows)
       /\ \A seen \in fitted : seen.ts < windows[fold].trainEnd
  /\ stage \in {"pool", "done"} => fold = Len(windows) + 1
  /\ stage \in {"fit", "evaluate", "pool", "done"} =>
       IsOrdered(bars) /\ Len(folds) = fold - 1 /\ Judged(bars, windows, folds)
  /\ stage = "done" => Summarized(folds, summary)

\* Before it begins, the runner is at no window.
LEMMA FoldInitInv == FoldInit => FoldInv
<1> SUFFICES ASSUME FoldInit PROVE FoldInv
  OBVIOUS
<1>1. << >> \in Seq(FoldRecords(bars))
  OBVIOUS
<1> QED
  BY <1>1 DEF FoldInit, FoldInv

\* Generating lays the windows out.
LEMMA GenerateKeeps == FoldInv /\ Generate => FoldInv'
<1> SUFFICES ASSUME FoldInv, Generate PROVE FoldInv'
  OBVIOUS
<1>1. /\ plan \in Plans /\ bars \in Timelines /\ folds = << >> /\ fitted = {} /\ fold = 0
      /\ folds \in Seq(FoldRecords(bars)) /\ fold \in Nat
  BY DEF FoldInv, Generate
<1>2. Laid(plan, windows')
  <2> DEFINE places == IF IsValid(plan)
                       THEN {k \in 0..(plan.end - plan.begin) : Fits(plan, k)} ELSE {}
  <2>1. windows' = [n \in 1..Cardinality(places) |-> WindowAt(plan, n - 1)]
    BY DEF Generate
  <2>2. Laid(plan, [n \in 1..Cardinality(places) |-> WindowAt(plan, n - 1)])
    BY <1>1, GenerateLays
  <2> QED
    BY <2>1, <2>2
<1>3. stage' = "check" /\ UNCHANGED <<plan, bars, fold, fitted, folds, summary>>
  BY DEF Generate
<1> QED
  BY <1>1, <1>2, <1>3 DEF FoldInv

\* The runner begins at the first window, with nothing fitted or judged.
LEMMA CheckKeeps == FoldInv /\ CheckOrder => FoldInv'
<1> SUFFICES ASSUME FoldInv, CheckOrder PROVE FoldInv'
  OBVIOUS
<1>1. /\ plan \in Plans /\ bars \in Timelines /\ folds = << >> /\ fitted = {} /\ fold = 0
      /\ folds \in Seq(FoldRecords(bars)) /\ Laid(plan, windows)
  BY DEF FoldInv, CheckOrder
<1>2. UNCHANGED <<plan, windows, bars, fitted, folds, summary>>
  BY DEF CheckOrder
<1>3. CASE IsOrdered(bars)
  <2>1. fold' = 1 /\ stage' = IF 1 \in DOMAIN windows THEN "fit" ELSE "pool"
    BY <1>3 DEF CheckOrder, Turn
  <2>2. Len(windows) \in Nat /\ DOMAIN windows = 1..Len(windows)
    BY <1>1, LaidFacts
  <2>3. Len(folds) = 0 /\ Judged(bars, windows, folds)
    BY <1>1 DEF Judged
  <2>4. CASE 1 \in DOMAIN windows
    BY <1>1, <1>2, <1>3, <2>1, <2>2, <2>3, <2>4 DEF FoldInv
  <2>5. CASE 1 \notin DOMAIN windows
    <3>1. Len(windows) = 0
      BY <2>2, <2>5
    <3> QED
      BY <1>1, <1>2, <1>3, <2>1, <2>3, <2>5, <3>1 DEF FoldInv
  <2> QED
    BY <2>4, <2>5
<1>4. CASE ~IsOrdered(bars)
  <2>1. stage' = "refused" /\ fold' = fold
    BY <1>4 DEF CheckOrder
  <2> QED
    BY <1>1, <1>2, <2>1 DEF FoldInv
<1> QED
  BY <1>3, <1>4

\* What is fitted is stamped before the training's end.
LEMMA FitKeeps == FoldInv /\ Fit => FoldInv'
<1> SUFFICES ASSUME FoldInv, Fit PROVE FoldInv'
  OBVIOUS
<1>1. /\ plan \in Plans /\ bars \in Timelines /\ fold \in Nat /\ Laid(plan, windows)
      /\ folds \in Seq(FoldRecords(bars)) /\ fitted \subseteq ToSet(bars)
      /\ fold \in 1..Len(windows)
      /\ \A seen \in fitted : seen.ts < windows[fold].trainEnd
      /\ IsOrdered(bars) /\ Len(folds) = fold - 1 /\ Judged(bars, windows, folds)
  BY DEF FoldInv, Fit
<1>2. /\ UNCHANGED <<plan, windows, bars, fold, folds, summary>> /\ stage' = "evaluate"
      /\ fitted' = fitted \cup ToSet(Slice(bars, windows[fold].trainStart, windows[fold].trainEnd))
  BY DEF Fit
<1>3. \A b \in ToSet(Slice(bars, windows[fold].trainStart, windows[fold].trainEnd)) :
        b \in ToSet(bars) /\ b.ts < windows[fold].trainEnd
  <2>1. \A t \in Timelines : \A lo, hi :
          ToSet(Slice(t, lo, hi)) = {b \in ToSet(t) : lo <= b.ts /\ b.ts < hi}
    BY SliceType
  <2> QED
    BY <1>1, <2>1
<1>4. fitted' \subseteq ToSet(bars) /\ \A seen \in fitted' : seen.ts < windows[fold].trainEnd
  BY <1>1, <1>2, <1>3
<1> QED
  BY <1>1, <1>2, <1>4 DEF FoldInv

\* A fold is judged on its test, and the next trains no shorter.
LEMMA EvaluateKeeps == FoldInv /\ Evaluate => FoldInv'
<1> SUFFICES ASSUME FoldInv, Evaluate PROVE FoldInv'
  OBVIOUS
<1>1. /\ plan \in Plans /\ bars \in Timelines /\ fold \in Nat /\ Laid(plan, windows)
      /\ folds \in Seq(FoldRecords(bars)) /\ fitted \subseteq ToSet(bars)
      /\ fold \in 1..Len(windows)
      /\ \A seen \in fitted : seen.ts < windows[fold].trainEnd
      /\ IsOrdered(bars) /\ Len(folds) = fold - 1 /\ Judged(bars, windows, folds)
  BY DEF FoldInv, Evaluate
<1>2. PICK solvent \in BOOLEAN :
        folds' = Append(folds, [test |-> Slice(bars, windows[fold].testStart, windows[fold].testEnd),
                                solvent |-> solvent])
  BY DEF Evaluate
<1>3. /\ UNCHANGED <<plan, windows, bars, fitted, summary>>
      /\ fold' = fold + 1
      /\ stage' = IF fold + 1 \in DOMAIN windows THEN "fit" ELSE "pool"
  BY DEF Evaluate, Turn
<1>4. PICK after : after = [test |-> Slice(bars, windows[fold].testStart, windows[fold].testEnd),
                          solvent |-> solvent]
  OBVIOUS
<1>5. after \in FoldRecords(bars)
  <2>1. \A t \in Timelines : \A lo, hi : Slice(t, lo, hi) \in Seq(ToSet(t))
    BY SliceType
  <2>2. Slice(bars, windows[fold].testStart, windows[fold].testEnd) \in Seq(ToSet(bars))
    BY <1>1, <2>1
  <2> QED
    BY <1>4, <2>2 DEF FoldRecords
<1>6. /\ folds' = Append(folds, after) /\ folds' \in Seq(FoldRecords(bars))
      /\ Len(folds') = fold
      /\ folds'[fold] = after /\ \A n \in 1..(fold - 1) : folds'[n] = folds[n]
  BY <1>1, <1>2, <1>4, <1>5
<1>7. Judged(bars, windows, folds')
  <2> SUFFICES ASSUME NEW n \in 1..fold
               PROVE  folds'[n].test = Slice(bars, windows[n].testStart, windows[n].testEnd)
    BY <1>6 DEF Judged
  <2>1. CASE n = fold
    BY <1>4, <1>6, <2>1
  <2>2. CASE n # fold
    <3>1. n \in 1..(fold - 1)
      BY <1>1, <2>2
    <3> QED
      BY <1>1, <1>6, <3>1 DEF Judged
  <2> QED
    BY <2>1, <2>2
<1>8. Len(windows) \in Nat /\ DOMAIN windows = 1..Len(windows)
  BY <1>1, LaidFacts
<1>9. CASE fold + 1 \in DOMAIN windows
  <2>1. fold \in 1..(Len(windows) - 1) /\ fold + 1 \in 1..Len(windows)
    BY <1>1, <1>8, <1>9
  <2>2. /\ windows[fold].trainEnd <= windows[fold + 1].trainEnd
        /\ windows[fold].trainEnd \in Int /\ windows[fold + 1].trainEnd \in Int
    BY <1>1, <1>8, <2>1, LaidFacts
  <2>3. \A seen \in fitted : seen.ts \in Int
    BY <1>1, TimelineType
  <2>4. \A seen \in fitted : seen.ts < windows[fold + 1].trainEnd
    BY <1>1, <2>2, <2>3
  <2> QED
    BY <1>1, <1>3, <1>6, <1>7, <1>9, <2>1, <2>4 DEF FoldInv
<1>10. CASE fold + 1 \notin DOMAIN windows
  <2>1. fold + 1 = Len(windows) + 1
    BY <1>1, <1>8, <1>10
  <2> QED
    BY <1>1, <1>3, <1>6, <1>7, <1>10, <2>1 DEF FoldInv
<1> QED
  BY <1>9, <1>10

\* The pool sums the folds up.
LEMMA PoolKeeps == FoldInv /\ Pool => FoldInv'
<1> SUFFICES ASSUME FoldInv, Pool PROVE FoldInv'
  OBVIOUS
<1>1. /\ UNCHANGED <<plan, windows, bars, fold, fitted, folds>> /\ stage = "pool" /\ stage' = "done"
  BY DEF Pool
<1>2. Summarized(folds, summary')
  BY DEF Pool, Summarized
<1> QED
  BY <1>1, <1>2 DEF FoldInv

\* Every step of the generator, the runner and the pool keeps the invariant.
LEMMA FoldStep == FoldInv /\ [FoldNext]_splitVars => FoldInv'
<1>1. FoldInv /\ UNCHANGED splitVars => FoldInv'
  BY DEF FoldInv, splitVars
<1> QED
  BY <1>1, GenerateKeeps, CheckKeeps, FitKeeps, EvaluateKeeps, PoolKeeps DEF FoldNext

\* So nothing fitted is as late as what its fold is judged on, less the purge.
LEMMA LeaksNothing == FoldInv => NoLeak
<1> SUFFICES ASSUME FoldInv, stage = "evaluate",
                    NEW seen \in fitted,
                    NEW b \in ToSet(Slice(bars, windows[fold].testStart, windows[fold].testEnd))
             PROVE  seen.ts + (windows[fold].testStart - windows[fold].trainEnd) < b.ts
  BY DEF NoLeak
<1>1. /\ plan \in Plans /\ bars \in Timelines /\ Laid(plan, windows)
      /\ fitted \subseteq ToSet(bars) /\ fold \in 1..Len(windows)
      /\ seen.ts < windows[fold].trainEnd
  BY DEF FoldInv
<1>2. \A t \in Timelines : \A lo, hi :
        ToSet(Slice(t, lo, hi)) = {c \in ToSet(t) : lo <= c.ts /\ c.ts < hi}
  BY SliceType
<1>3. b \in ToSet(bars) /\ windows[fold].testStart <= b.ts
  BY <1>1, <1>2
<1>4. seen.ts \in Int /\ b.ts \in Int
  BY <1>1, <1>3, TimelineType
<1>5. windows[fold].testStart \in Int /\ windows[fold].trainEnd \in Int
  BY <1>1, LaidFacts
<1> QED
  BY <1>1, <1>3, <1>4, <1>5

\* The tests cover one slice, from the first to the last that fits.
LEMMA TestsTiled == FoldInv => TestsTile
<1> SUFFICES ASSUME FoldInv, stage = "done", windows # << >>, plan.step = plan.test
             PROVE  /\ FlattenSeq([n \in DOMAIN folds |-> folds[n].test])
                         = Slice(bars, Head(windows).testStart, Last(windows).testEnd)
                    /\ Last(windows).testEnd <= plan.end - Embargo(plan)
                    /\ plan.end - Embargo(plan) < Last(windows).testEnd + plan.step
  BY DEF TestsTile
<1>1. PICK p, t, w, f :
        /\ p = plan /\ t = bars /\ w = windows /\ f = folds
        /\ p \in Plans /\ t \in Timelines /\ f \in Seq(FoldRecords(t))
        /\ Laid(p, w) /\ IsOrdered(t) /\ Len(f) = fold - 1 /\ fold = Len(w) + 1 /\ Judged(t, w, f)
  BY DEF FoldInv
<1>2. PICK K \in Nat : w = [n \in 1..K |-> WindowAt(p, n - 1)]
  BY <1>1 DEF Laid
<1>3. Len(w) = K /\ K # 0 /\ Len(f) = Len(w)
  BY <1>1, <1>2
<1>4. Head(w) = w[1] /\ Last(w) = w[Len(w)]
  BY <1>2, <1>3 DEF Last
<1>5. FlattenSeq([n \in DOMAIN f |-> f[n].test]) = Slice(t, w[1].testStart, w[Len(w)].testEnd)
  BY <1>1, <1>3, JudgedJoin
<1>6. /\ w[Len(w)].testEnd <= p.end - Embargo(p)
      /\ p.end - Embargo(p) < w[Len(w)].testEnd + p.step
  BY <1>1, <1>3, LaidFacts
<1> QED
  BY <1>1, <1>4, <1>5, <1>6

\* The pool counts as it says.
LEMMA PoolCounted == FoldInv => PoolingCounts
<1> SUFFICES ASSUME FoldInv, stage = "done"
             PROVE  /\ summary.measured + summary.unmeasurable = Len(windows)
                    /\ summary.periods
                         = Len(FlattenSeq([n \in DOMAIN folds |->
                                 IF IsMeasurable(folds[n]) THEN folds[n].test ELSE << >>]))
                             - summary.measured
  BY DEF PoolingCounts
<1>1. PICK w, S, s, f :
        /\ w = windows /\ f = folds /\ s = summary
        /\ f \in Seq([test : Seq(S), solvent : BOOLEAN])
        /\ Laid(plan, w) /\ plan \in Plans /\ Len(f) = fold - 1 /\ fold = Len(w) + 1
        /\ Summarized(f, s)
  <2>1. folds \in Seq([test : Seq(ToSet(bars)), solvent : BOOLEAN])
    BY DEF FoldInv, FoldRecords
  <2> QED
    BY <2>1 DEF FoldInv
<1>2. Len(w) \in Nat
  BY <1>1, LaidFacts
<1>3. Len(f) = Len(w)
  BY <1>1, <1>2
<1>4. /\ s.measured + s.unmeasurable = Len(f)
      /\ s.periods = Len(FlattenSeq([n \in DOMAIN f |->
                           IF IsMeasurable(f[n]) THEN f[n].test ELSE << >>])) - s.measured
  BY <1>1, PoolAddsUp
<1> QED
  BY <1>1, <1>3, <1>4

-----------------------------------------------------------------------------
(* Combinations of k from n blocks, in increasing order                          *)

Combinations(n, k) ==
  {c \in [1..k -> 0..(n - 1)] : \A i, j \in 1..k : i < j => c[i] < c[j]}

\* A choice's blocks are as far apart as their places, so place i holds no less
\* than i - 1 and no more than what leaves room for the places after it.
LEMMA ChoiceSpread ==
  ASSUME NEW n \in Nat, NEW k \in Nat, NEW c \in Combinations(n, k)
  PROVE  /\ \A i \in 1..k : c[i] \in Nat /\ c[i] <= n - 1
         /\ \A i, j \in 1..k : i <= j => c[i] + (j - i) <= c[j]
         /\ \A i \in 1..k : i - 1 <= c[i] /\ c[i] <= i - 1 + n - k
<1>1. /\ \A i \in 1..k : c[i] \in Nat /\ c[i] <= n - 1
      /\ \A i, j \in 1..k : i < j => c[i] < c[j]
  BY DEF Combinations
<1>2. ASSUME NEW i \in 1..k, NEW l \in 1..k, i <= l
      PROVE  c[i] + (l - i) <= c[l]
  <2> DEFINE Fails == {j \in i..k : ~(c[i] + (j - i) <= c[j])}
  <2>1. ASSUME Fails # {} PROVE FALSE
    <3>1. Fails \subseteq Nat
      OBVIOUS
    <3>2. PICK j \in Fails : \A m \in Fails : j <= m
      BY <2>1, <3>1, LeastNat
    <3>3. j \in i..k /\ ~(c[i] + (j - i) <= c[j]) /\ j # i
      BY <1>1, <3>2
    <3>4. j - 1 \in i..k /\ j - 1 \in 1..k /\ j \in 1..k /\ ~(j <= j - 1) /\ j - 1 < j
      BY <3>3
    <3>5. c[i] + (j - 1 - i) <= c[j - 1]
      BY <3>2, <3>4
    <3>6. c[j - 1] < c[j]
      BY <1>1, <3>4
    <3> QED
      BY <1>1, <3>3, <3>4, <3>5, <3>6
  <2>2. l \in i..k
    BY <1>2
  <2> QED
    BY <2>1, <2>2
<1>3. ASSUME NEW i \in 1..k PROVE i - 1 <= c[i] /\ c[i] <= i - 1 + n - k
  <2>1. 1 \in 1..k /\ k \in 1..k /\ 1 <= i /\ i <= k
    OBVIOUS
  <2>2. c[1] + (i - 1) <= c[i] /\ c[i] + (k - i) <= c[k]
    BY <1>2, <2>1
  <2> QED
    BY <1>1, <2>1, <2>2
<1> QED
  BY <1>1, <1>2, <1>3

\* Of two choices one of which is nowhere above the other, it is below or the same.
LEMMA NowhereAbove ==
  ASSUME NEW n \in Nat, NEW k \in Nat, NEW c \in Combinations(n, k), NEW d \in Combinations(n, k),
         \A i \in 1..k : c[i] <= d[i]
  PROVE  c = d \/ IsBelow(c, d)
<1>1. /\ c \in [1..k -> 0..(n - 1)] /\ d \in [1..k -> 0..(n - 1)]
      /\ \A i \in 1..k : c[i] \in Nat /\ d[i] \in Nat
  BY DEF Combinations
<1> DEFINE Differ == {i \in 1..k : c[i] # d[i]}
<1>2. CASE Differ = {}
  <2>1. \A i \in 1..k : c[i] = d[i]
    BY <1>2
  <2> QED
    BY <1>1, <2>1
<1>3. CASE Differ # {}
  <2>0. Differ \subseteq Nat
    OBVIOUS
  <2>1. PICK i \in Differ : \A j \in Differ : i <= j
    BY <1>3, <2>0, LeastNat
  <2>2. c[i] < d[i] /\ i \in DOMAIN c
    BY <1>1, <2>1
  <2>3. \A j \in 1..(i - 1) : c[j] = d[j]
    <3> TAKE j \in 1..(i - 1)
    <3>1. j \in 1..k /\ ~(i <= j)
      BY <2>1
    <3> QED
      BY <2>1, <3>1
  <2> QED
    BY <2>2, <2>3 DEF IsBelow
<1> QED
  BY <1>2, <1>3

\* The places of c that can advance, and c advanced at the last of them.
MovableIn(c, n, k) == {i \in 1..k : c[i] # (i - 1) + n - k}
Advanced(c, m, k)  == [j \in 1..k |-> IF j < m THEN c[j] ELSE c[m] + 1 + (j - m)]

\* Nothing lies above a choice that cannot advance.
LEMMA LastChoice ==
  ASSUME NEW n \in Nat, NEW k \in Nat, NEW c \in Combinations(n, k), MovableIn(c, n, k) = {},
         NEW d \in Combinations(n, k)
  PROVE  d = c \/ IsBelow(d, c)
<1>1. \A i \in 1..k : c[i] = (i - 1) + n - k
  BY DEF MovableIn
<1>2. \A i \in 1..k : d[i] <= i - 1 + n - k
  BY ChoiceSpread
<1>3. \A i \in 1..k : d[i] <= c[i]
  BY <1>1, <1>2
<1> QED
  BY <1>3, NowhereAbove

\* A choice advanced at the last place that can be is a choice, and what is
\* below it is the one it came from or below that: it is the next.
LEMMA NextChoice ==
  ASSUME NEW n \in Nat, NEW k \in Nat, NEW c \in Combinations(n, k),
         NEW m \in MovableIn(c, n, k), \A i \in MovableIn(c, n, k) : i <= m
  PROVE  /\ Advanced(c, m, k) \in Combinations(n, k)
         /\ IsBelow(c, Advanced(c, m, k))
         /\ \A d \in Combinations(n, k) : IsBelow(d, Advanced(c, m, k)) => d = c \/ IsBelow(d, c)
<1> DEFINE e == Advanced(c, m, k)
<1>1. /\ m \in 1..k /\ c[m] # m - 1 + n - k
      /\ \A i \in 1..k : i > m => c[i] = i - 1 + n - k
  BY DEF MovableIn
<1>2. /\ \A i \in 1..k : c[i] \in Nat /\ c[i] <= n - 1 /\ c[i] <= i - 1 + n - k
      /\ c \in [1..k -> 0..(n - 1)]
  BY ChoiceSpread DEF Combinations
<1>a. \A i, j \in 1..k : i <= j => c[i] + (j - i) <= c[j]
  BY ChoiceSpread
<1>b. \A i, j \in 1..k : i < j => c[i] < c[j]
  BY DEF Combinations
<1>3. c[m] \in Nat /\ c[m] < m - 1 + n - k
  <2>1. c[m] \in Nat /\ c[m] <= m - 1 + n - k
    BY <1>1, <1>2
  <2> QED
    BY <1>1, <2>1
<1>4. \A j \in 1..k : e[j] = IF j < m THEN c[j] ELSE c[m] + 1 + (j - m)
  BY DEF Advanced
<1>5. e \in Combinations(n, k)
  <2>1. ASSUME NEW j \in 1..k PROVE e[j] \in 0..(n - 1)
    <3>1. CASE j < m
      BY <1>2, <1>4, <3>1
    <3>2. CASE ~(j < m)
      <4>1. e[j] = c[m] + 1 + (j - m)
        BY <1>4, <3>2
      <4> QED
        BY <1>1, <1>3, <3>2, <4>1
    <3> QED
      BY <3>1, <3>2
  <2>2. ASSUME NEW i \in 1..k, NEW j \in 1..k, i < j PROVE e[i] < e[j]
    <3>1. CASE j < m
      <4>1. i < m
        BY <1>1, <2>2, <3>1
      <4> QED
        BY <1>4, <1>b, <2>2, <3>1, <4>1
    <3>2. CASE i < m /\ ~(j < m)
      <4>1. e[i] = c[i] /\ e[j] = c[m] + 1 + (j - m)
        BY <1>4, <3>2
      <4>2. c[i] < c[m] /\ c[i] \in Nat
        BY <1>1, <1>2, <1>b, <3>2
      <4> QED
        BY <1>1, <1>3, <3>2, <4>1, <4>2
    <3>3. CASE ~(i < m)
      <4>1. e[i] = c[m] + 1 + (i - m) /\ e[j] = c[m] + 1 + (j - m)
        BY <1>1, <1>4, <2>2, <3>3
      <4> QED
        BY <1>1, <1>3, <2>2, <4>1
    <3> QED
      BY <1>1, <2>2, <3>1, <3>2, <3>3
  <2>3. e \in [1..k -> 0..(n - 1)]
    <3>1. e = [j \in 1..k |-> e[j]]
      BY DEF Advanced
    <3> HIDE DEF e
    <3> QED
      BY <2>1, <3>1
  <2> HIDE DEF e
  <2> QED
    BY <2>2, <2>3 DEF Combinations
<1> HIDE DEF e
<1>6. IsBelow(c, e)
  <2>1. m \in DOMAIN c /\ c[m] < e[m] /\ \A j \in 1..(m - 1) : c[j] = e[j]
    BY <1>1, <1>2, <1>3, <1>4
  <2> QED
    BY <2>1 DEF IsBelow
<1>7. ASSUME NEW d \in Combinations(n, k), IsBelow(d, e) PROVE d = c \/ IsBelow(d, c)
  <2>1. PICK i \in 1..k : d[i] < e[i] /\ \A j \in 1..(i - 1) : d[j] = e[j]
    BY <1>7 DEF IsBelow, Combinations
  <2>2. /\ \A j \in 1..k : d[j] \in Nat /\ d[j] <= j - 1 + n - k
        /\ \A j, l \in 1..k : j <= l => d[j] + (l - j) <= d[l]
        /\ DOMAIN d = 1..k
    BY ChoiceSpread DEF Combinations
  <2>3. CASE i < m
    <3>1. d[i] < c[i] /\ \A j \in 1..(i - 1) : d[j] = c[j]
      BY <1>1, <1>4, <2>1, <2>3
    <3> QED
      BY <2>2, <3>1 DEF IsBelow
  <2>4. CASE i = m
    <3>1. d[m] <= c[m] /\ \A j \in 1..(m - 1) : d[j] = c[j]
      <4>1. e[m] = c[m] + 1
        BY <1>1, <1>3, <1>4
      <4> QED
        BY <1>1, <1>3, <1>4, <2>1, <2>2, <2>4, <4>1
    <3>2. CASE d[m] < c[m]
      BY <1>1, <2>2, <3>1, <3>2 DEF IsBelow
    <3>3. CASE d[m] = c[m]
      <4>1. ASSUME NEW j \in 1..k PROVE d[j] <= c[j]
        <5>1. CASE j < m
          <6>1. j \in 1..(m - 1) /\ c[j] \in Nat
            BY <1>1, <1>2, <5>1
          <6> QED
            BY <3>1, <6>1
        <5>2. CASE j = m
          BY <1>3, <3>3, <5>2
        <5>3. CASE j > m
          BY <1>1, <2>2, <5>3
        <5> QED
          BY <1>1, <5>1, <5>2, <5>3
      <4> QED
        BY <4>1, NowhereAbove
    <3> QED
      BY <1>1, <1>3, <2>2, <3>1, <3>2, <3>3
  <2>5. CASE i > m
    <3>1. d[m] = e[m] /\ e[m] = c[m] + 1 /\ e[i] = c[m] + 1 + (i - m)
      BY <1>1, <1>3, <1>4, <2>1, <2>5
    <3>2. d[m] + (i - m) <= d[i]
      BY <1>1, <2>1, <2>2, <2>5
    <3>3. d[i] < c[m] + 1 + (i - m) /\ d[i] \in Nat
      BY <2>1, <2>2, <3>1
    <3> QED
      BY <1>1, <1>3, <3>1, <3>2, <3>3
  <2> QED
    BY <1>1, <2>1, <2>3, <2>4, <2>5
<1> QED
  BY <1>5, <1>6, <1>7 DEF e

\* There is one first choice, if there are enough blocks.
LEMMA FirstChoice ==
  ASSUME NEW n \in Nat, NEW k \in Nat, k <= n
  PROVE  LET c == [i \in 1..k |-> i - 1]
         IN  c \in Combinations(n, k) /\ \A d \in Combinations(n, k) : ~IsBelow(d, c)
<1> DEFINE c == [i \in 1..k |-> i - 1]
<1>1. c \in Combinations(n, k)
  BY DEF Combinations
<1>2. ASSUME NEW d \in Combinations(n, k), IsBelow(d, c) PROVE FALSE
  <2>1. PICK i \in 1..k : d[i] < c[i]
    BY <1>2 DEF IsBelow, Combinations
  <2>2. c[i] = i - 1 /\ i - 1 <= d[i] /\ d[i] \in Nat
    BY ChoiceSpread
  <2> QED
    BY <2>1, <2>2
<1> QED
  BY <1>1, <1>2

\* No choice has more blocks than there are.
LEMMA NoChoice ==
  ASSUME NEW n \in Nat, NEW k \in Nat, n < k PROVE Combinations(n, k) = {}
<1> SUFFICES ASSUME NEW c \in Combinations(n, k) PROVE FALSE
  OBVIOUS
<1>1. k \in 1..k
  OBVIOUS
<1>2. k - 1 <= c[k] /\ c[k] <= n - 1 /\ c[k] \in Nat
  BY <1>1, ChoiceSpread
<1> QED
  BY <1>2

\* The blocks of a choice are k of the n.
LEMMA ChoiceSize ==
  ASSUME NEW n \in Nat, NEW k \in Nat, NEW c \in Combinations(n, k)
  PROVE  ToSet(c) \in kSubset(k, 0..(n - 1))
<1>1. c \in [1..k -> 0..(n - 1)] /\ \A i, j \in 1..k : i < j => c[i] < c[j]
  BY DEF Combinations
<1>2. DOMAIN c = 1..k /\ ToSet(c) \subseteq 0..(n - 1) /\ \A i \in 1..k : c[i] \in Nat
  BY <1>1 DEF ToSet
<1>3. c \in Bijection(1..k, ToSet(c))
  <2>1. \A i, j \in 1..k : c[i] = c[j] => i = j
    <3> TAKE i, j \in 1..k
    <3>1. i < j \/ j < i \/ i = j
      OBVIOUS
    <3> QED
      BY <1>1, <1>2, <3>1
  <2>2. c \in [1..k -> ToSet(c)] /\ \A b \in ToSet(c) : \E i \in 1..k : c[i] = b
    BY <1>1, <1>2 DEF ToSet
  <2> QED
    BY <2>1, <2>2 DEF Bijection, Injection, Surjection, IsInjective
<1>4. IsFiniteSet(1..k) /\ Cardinality(1..k) = IF 1 > k THEN 0 ELSE k - 1 + 1
  BY FS_Interval
<1>5. Cardinality(1..k) = k
  BY <1>4
<1>6. ExistsBijection(1..k, ToSet(c))
  BY <1>3 DEF ExistsBijection
<1>7. Cardinality(ToSet(c)) = k
  BY <1>4, <1>5, <1>6, FS_Bijection
<1> QED
  BY <1>2, <1>7 DEF kSubset

\* And every k of the n blocks are those of a choice.
LEMMA ChoiceOf ==
  ASSUME NEW n \in Nat, NEW k \in Nat, NEW T \in kSubset(k, 0..(n - 1))
  PROVE  \E c \in Combinations(n, k) : ToSet(c) = T
<1> DEFINE Chosen(s) == \E c \in Combinations(n, Cardinality(s)) : ToSet(c) = s
           Fails == {s \in SUBSET (0..(n - 1)) : ~Chosen(s)}
<1>1. ASSUME NEW s \in SUBSET (0..(n - 1)) PROVE IsFiniteSet(s) /\ Cardinality(s) \in Nat
  <2>1. 0..(n - 1) \subseteq 0..n
    OBVIOUS
  <2> QED
    BY <2>1, Extremes
<1>2. ASSUME Fails # {} PROVE FALSE
  <2>1. PICK s \in Fails : \A t \in Fails : Cardinality(s) <= Cardinality(t)
    BY <1>1, <1>2, LeastSet
  <2>2. s \in SUBSET (0..(n - 1)) /\ s \in SUBSET (0..n) /\ ~Chosen(s)
    BY <2>1
  <2>3. IsFiniteSet(s) /\ Cardinality(s) \in Nat
    BY <1>1, <2>2
  <2>4. CASE s = {}
    <3> DEFINE c == [i \in 1..0 |-> 0]
    <3>1. Cardinality(s) = 0
      BY <2>4, FS_EmptySet
    <3>2. c \in Combinations(n, 0) /\ ToSet(c) = {}
      BY DEF Combinations, ToSet
    <3> QED
      BY <2>2, <2>4, <3>1, <3>2
  <2>5. CASE s # {}
    <3> DEFINE x == Max(s)
               r == s \ {x}
               l == Cardinality(s)
    <3>1. x \in s /\ \A y \in s : y <= x
      BY <2>2, <2>5, Extremes
    <3> HIDE DEF x
    <3>2. /\ r \in SUBSET (0..(n - 1)) /\ Cardinality(r) \in Nat /\ ~(l <= Cardinality(r))
      BY <2>2, <2>3, <3>1, Smaller
    <3>3. Cardinality(r) = l - 1 /\ l - 1 \in Nat
      <4>1. Cardinality(r) = l - 1
        BY <2>3, <3>1, FS_RemoveElement
      <4> QED
        BY <3>2, <4>1
    <3>4. Chosen(r)
      <4> HIDE DEF Chosen
      <4> QED
        BY <2>1, <3>2
    <3>5. PICK c \in Combinations(n, l - 1) : ToSet(c) = r
      BY <3>3, <3>4
    <3> DEFINE d == [i \in 1..l |-> IF i < l THEN c[i] ELSE x]
    <3>6. /\ c \in [1..(l - 1) -> 0..(n - 1)] /\ DOMAIN c = 1..(l - 1)
          /\ \A i, j \in 1..(l - 1) : i < j => c[i] < c[j]
          /\ \A i \in 1..(l - 1) : c[i] \in s /\ c[i] < x
      <4>1. /\ c \in [1..(l - 1) -> 0..(n - 1)] /\ DOMAIN c = 1..(l - 1)
            /\ \A i, j \in 1..(l - 1) : i < j => c[i] < c[j]
        BY DEF Combinations
      <4>2. \A i \in 1..(l - 1) : c[i] \in r
        BY <3>5, <4>1 DEF ToSet
      <4>3. \A y \in r : y \in s /\ y < x
        BY <2>2, <3>1
      <4> QED
        BY <4>1, <4>2, <4>3
    <3>7. l \in Nat /\ l >= 1 /\ \A i \in 1..l : i < l => i \in 1..(l - 1)
      <4>1. l \in Nat /\ l >= 1
        BY <2>3, <3>3
      <4> HIDE DEF l
      <4> QED
        BY <4>1
    <3> HIDE DEF l
    <3>8. d \in Combinations(n, l)
      <4>1. \A i \in 1..l : d[i] \in 0..(n - 1)
        BY <2>2, <3>1, <3>6, <3>7
      <4>2. ASSUME NEW i \in 1..l, NEW j \in 1..l, i < j PROVE d[i] < d[j]
        <5>1. i \in 1..(l - 1) /\ d[i] = c[i]
          BY <3>7, <4>2
        <5>2. CASE j < l
          BY <3>6, <3>7, <4>2, <5>1, <5>2
        <5>3. CASE ~(j < l)
          BY <3>6, <5>1, <5>3
        <5> QED
          BY <5>2, <5>3
      <4>3. d \in [1..l -> 0..(n - 1)]
        BY <4>1
      <4> HIDE DEF d
      <4> QED
        BY <4>2, <4>3 DEF Combinations
    <3>9. ToSet(d) = s
      <4>1. ToSet(d) = {d[i] : i \in 1..l}
        BY DEF ToSet
      <4>2. \A i \in 1..l : d[i] \in s
        BY <3>1, <3>6, <3>7
      <4>3. ASSUME NEW y \in s PROVE \E i \in 1..l : d[i] = y
        <5>1. CASE y = x
          <6>1. l \in 1..l /\ d[l] = x
            BY <3>7
          <6> QED
            BY <5>1, <6>1
        <5>2. CASE y # x
          <6>1. PICK i \in 1..(l - 1) : c[i] = y
            <7>1. y \in r
              BY <5>2
            <7> QED
              BY <3>5, <3>6, <7>1 DEF ToSet
          <6>2. i \in 1..l /\ d[i] = y
            BY <3>7, <6>1
          <6> QED
            BY <6>2
        <5> QED
          BY <5>1, <5>2
      <4> QED
        BY <4>1, <4>2, <4>3
    <3> QED
      BY <2>2, <3>8, <3>9 DEF l
  <2> QED
    BY <2>4, <2>5
<1>3. T \in SUBSET (0..(n - 1)) /\ Cardinality(T) = k
  BY DEF kSubset
<1>4. Chosen(T)
  <2> HIDE DEF Chosen
  <2> QED
    BY <1>2, <1>3
<1> QED
  BY <1>3, <1>4

-----------------------------------------------------------------------------
(* The splits                                                               *)

SplitRecords(n, k) == [test : Combinations(n, k), train : SUBSET (0..(n - 1))]

IsTested(s, c) == \E m \in 1..Len(s) : s[m].test = c

\* The splits s so far are in order and are of all choices below the one at
\* hand, or of all if there is none.
SplitsHold(n, k, here, s) ==
  /\ s \in Seq(SplitRecords(n, k))
  /\ \A m \in 1..Len(s) : s[m].train = (0..(n - 1)) \ ToSet(s[m].test)
  /\ \A m \in 1..(Len(s) - 1) : IsBelow(s[m].test, s[m + 1].test)
  /\ here # << >> =>
       /\ k > 0 /\ here \in Combinations(n, k)
       /\ Len(s) # 0 => IsBelow(s[Len(s)].test, here)
       /\ \A c \in Combinations(n, k) : IsBelow(c, here) => IsTested(s, c)
  /\ here = << >> /\ k > 0 => \A c \in Combinations(n, k) : IsTested(s, c)

SplitInv ==
  /\ grouping.groups \in Nat /\ grouping.chosen \in Nat
  /\ SplitsHold(grouping.groups, grouping.chosen, idx, splits)

\* A choice of at least one block is not empty.
LEMMA ChoiceNonempty ==
  ASSUME NEW n \in Nat, NEW k \in Nat, k > 0, NEW c \in Combinations(n, k)
  PROVE  c # << >> /\ DOMAIN c = 1..k
<1>1. DOMAIN c = 1..k /\ 1 \in 1..k
  BY DEF Combinations
<1>2. DOMAIN << >> = {}
  OBVIOUS
<1> QED
  BY <1>1, <1>2

\* Nothing is split yet, and nothing lies below the first choice.
LEMMA SplitsBegin ==
  ASSUME NEW n \in Nat, NEW k \in Nat, NEW here,
         here = IF k = 0 \/ k > n THEN << >> ELSE [i \in 1..k |-> i - 1]
  PROVE  SplitsHold(n, k, here, << >>)
<1>1. << >> \in Seq(SplitRecords(n, k)) /\ Len(<< >>) = 0
  OBVIOUS
<1>2. CASE k = 0 \/ k > n
  <2>1. here = << >> /\ (k > 0 => Combinations(n, k) = {})
    BY <1>2, NoChoice
  <2> QED
    BY <1>1, <2>1 DEF SplitsHold
<1>3. CASE ~(k = 0 \/ k > n)
  <2>1. k > 0 /\ k <= n
    BY <1>3
  <2>2. here \in Combinations(n, k) /\ \A d \in Combinations(n, k) : ~IsBelow(d, here)
    BY <1>3, <2>1, FirstChoice
  <2>3. here # << >>
    BY <2>1, <2>2, ChoiceNonempty
  <2> QED
    BY <1>1, <2>1, <2>2, <2>3 DEF SplitsHold
<1> QED
  BY <1>2, <1>3

\* Recording the choice at hand and going on to the next, if there is one.
LEMMA SplitsGoOn ==
  ASSUME NEW n \in Nat, NEW k \in Nat, NEW here, here # << >>, NEW s, SplitsHold(n, k, here, s),
         NEW split, split = [test |-> here, train |-> (0..(n - 1)) \ ToSet(here)],
         NEW after, after = IF MovableIn(here, n, k) = {} THEN << >>
                          ELSE Advanced(here, Max(MovableIn(here, n, k)), k)
  PROVE  SplitsHold(n, k, after, Append(s, split))
<1> DEFINE t == Append(s, split)
<1>1. /\ s \in Seq(SplitRecords(n, k)) /\ k > 0 /\ here \in Combinations(n, k)
      /\ \A m \in 1..Len(s) : s[m].train = (0..(n - 1)) \ ToSet(s[m].test)
      /\ \A m \in 1..(Len(s) - 1) : IsBelow(s[m].test, s[m + 1].test)
      /\ Len(s) # 0 => IsBelow(s[Len(s)].test, here)
      /\ \A c \in Combinations(n, k) : IsBelow(c, here) => IsTested(s, c)
  BY DEF SplitsHold
<1>2. split \in SplitRecords(n, k)
  BY <1>1 DEF SplitRecords
<1>3. /\ t \in Seq(SplitRecords(n, k)) /\ Len(s) \in Nat /\ Len(t) = Len(s) + 1
      /\ t[Len(t)] = split /\ \A m \in 1..Len(s) : t[m] = s[m]
  BY <1>1, <1>2
<1> HIDE DEF t
<1>4. \A m \in 1..Len(t) : t[m].train = (0..(n - 1)) \ ToSet(t[m].test)
  <2> TAKE m \in 1..Len(t)
  <2>1. m \in 1..Len(s) \/ m = Len(t)
    BY <1>3
  <2> QED
    BY <1>1, <1>3, <2>1
<1>5. \A m \in 1..(Len(t) - 1) : IsBelow(t[m].test, t[m + 1].test)
  <2> TAKE m \in 1..(Len(t) - 1)
  <2>1. CASE m = Len(s)
    <3>1. Len(s) # 0 /\ Len(s) \in 1..Len(s) /\ m + 1 = Len(t)
      BY <1>3, <2>1
    <3>2. t[m] = s[Len(s)] /\ t[m + 1] = split
      BY <1>3, <2>1, <3>1
    <3> QED
      BY <1>1, <3>1, <3>2
  <2>2. CASE m # Len(s)
    <3>1. m \in 1..(Len(s) - 1) /\ m \in 1..Len(s) /\ m + 1 \in 1..Len(s)
      BY <1>3, <2>2
    <3> QED
      BY <1>1, <1>3, <3>1
  <2> QED
    BY <2>1, <2>2
<1>6. \A c \in Combinations(n, k) : c = here \/ IsBelow(c, here) => IsTested(t, c)
  <2> TAKE c \in Combinations(n, k)
  <2>1. CASE c = here
    <3>1. Len(t) \in 1..Len(t) /\ t[Len(t)].test = c
      BY <1>3, <2>1
    <3> QED
      BY <3>1 DEF IsTested
  <2>2. CASE IsBelow(c, here)
    <3>1. PICK m \in 1..Len(s) : s[m].test = c
      BY <1>1, <2>2 DEF IsTested
    <3>2. m \in 1..Len(t) /\ t[m].test = c
      BY <1>3, <3>1
    <3> QED
      BY <3>2 DEF IsTested
  <2> QED
    BY <2>1, <2>2
<1>7. CASE MovableIn(here, n, k) = {}
  <2>1. after = << >> /\ \A c \in Combinations(n, k) : c = here \/ IsBelow(c, here)
    BY <1>1, <1>7, LastChoice
  <2> QED
    BY <1>3, <1>4, <1>5, <1>6, <2>1 DEF SplitsHold, t
<1>8. CASE MovableIn(here, n, k) # {}
  <2>1. MovableIn(here, n, k) \in SUBSET (0..k)
    BY DEF MovableIn
  <2>2. PICK m : /\ m = Max(MovableIn(here, n, k)) /\ m \in MovableIn(here, n, k)
                 /\ \A i \in MovableIn(here, n, k) : i <= m
    BY <1>8, <2>1, Extremes
  <2>3. after = Advanced(here, m, k)
    BY <1>8, <2>2
  <2>4. /\ after \in Combinations(n, k) /\ IsBelow(here, after)
        /\ \A d \in Combinations(n, k) : IsBelow(d, after) => d = here \/ IsBelow(d, here)
    BY <1>1, <2>2, <2>3, NextChoice
  <2>5. after # << >>
    BY <1>1, <2>4, ChoiceNonempty
  <2>6. Len(t) # 0 => IsBelow(t[Len(t)].test, after)
    BY <1>3, <2>4
  <2> QED
    BY <1>1, <1>3, <1>4, <1>5, <1>6, <2>4, <2>5, <2>6 DEF SplitsHold, t
<1> QED
  BY <1>7, <1>8

\* The splits begin so.
LEMMA SplitInitInv == SplitInit => SplitInv
<1> SUFFICES ASSUME SplitInit PROVE SplitInv
  OBVIOUS
<1>1. PICK n, k : n = grouping.groups /\ k = grouping.chosen
  OBVIOUS
<1>2. n \in Nat /\ k \in Nat
  BY <1>1, WalkForwardAssumption DEF SplitInit
<1>3. PICK here : here = idx
  OBVIOUS
<1>4. here = IF k = 0 \/ k > n THEN << >> ELSE [i \in 1..k |-> i - 1]
  BY <1>1, <1>3 DEF SplitInit
<1>5. SplitsHold(n, k, here, << >>)
  BY <1>2, <1>4, SplitsBegin
<1> QED
  BY <1>1, <1>2, <1>3, <1>5 DEF SplitInit, SplitInv

\* Every split keeps the invariant.
LEMMA SplitStep == SplitInv /\ [NextSplit]_cscvVars => SplitInv'
<1>1. ASSUME SplitInv, NextSplit PROVE SplitInv'
  <2>1. PICK n, k, here, s : /\ n = grouping.groups /\ k = grouping.chosen /\ here = idx /\ s = splits
                           /\ n \in Nat /\ k \in Nat /\ SplitsHold(n, k, here, s) /\ here # << >>
    BY <1>1 DEF SplitInv, NextSplit
  <2>2. DOMAIN here = 1..k
    <3>1. k > 0 /\ here \in Combinations(n, k)
      BY <2>1 DEF SplitsHold
    <3> QED
      BY <2>1, <3>1, ChoiceNonempty
  <2>3. PICK split : split = [test |-> here, train |-> (0..(n - 1)) \ ToSet(here)]
    OBVIOUS
  <2>4. splits' = Append(s, split)
    BY <1>1, <2>1, <2>3 DEF NextSplit, SplitOf
  <2>5. PICK after : after = idx'
    OBVIOUS
  <2>6. Movable = MovableIn(here, n, k)
    BY <2>1, <2>2 DEF Movable, MovableIn
  <2>7. after = IF MovableIn(here, n, k) = {} THEN << >>
               ELSE Advanced(here, Max(MovableIn(here, n, k)), k)
    BY <1>1, <2>1, <2>2, <2>5, <2>6 DEF NextSplit, Advanced
  <2>8. SplitsHold(n, k, after, Append(s, split))
    BY <2>1, <2>3, <2>7, SplitsGoOn
  <2> QED
    BY <1>1, <2>1, <2>4, <2>5, <2>8 DEF SplitInv, NextSplit
<1>2. SplitInv /\ UNCHANGED cscvVars => SplitInv'
  BY DEF SplitInv, cscvVars
<1> QED
  BY <1>1, <1>2

\* In the end every choice was split on, and their blocks are all the subsets.
LEMMA SplitsAll == SplitInv => SplitsComplete
<1> SUFFICES ASSUME SplitInv PROVE SplitsComplete
  OBVIOUS
<1>1. PICK n, k, here, s : /\ n = grouping.groups /\ k = grouping.chosen /\ here = idx /\ s = splits
                         /\ n \in Nat /\ k \in Nat /\ SplitsHold(n, k, here, s)
  BY DEF SplitInv
<1>2. /\ Len(s) \in Nat /\ DOMAIN s = 1..Len(s)
      /\ \A m \in 1..Len(s) :
           s[m].test \in Combinations(n, k) /\ s[m].train = (0..(n - 1)) \ ToSet(s[m].test)
      /\ \A m \in 1..(Len(s) - 1) : IsBelow(s[m].test, s[m + 1].test)
  <2>1. s \in Seq(SplitRecords(n, k))
    BY <1>1 DEF SplitsHold
  <2>2. \A m \in 1..Len(s) : s[m] \in SplitRecords(n, k)
    BY <2>1, MemberType
  <2>3. \A m \in 1..Len(s) : s[m].test \in Combinations(n, k)
    BY <2>2 DEF SplitRecords
  <2>4. Len(s) \in Nat /\ DOMAIN s = 1..Len(s)
    BY <2>1
  <2> QED
    BY <1>1, <2>3, <2>4 DEF SplitsHold
<1>3. ASSUME NEW m \in DOMAIN s
      PROVE  /\ s[m].train \cap ToSet(s[m].test) = {}
             /\ s[m].train \cup ToSet(s[m].test) = 0..(n - 1)
  <2>1. s[m].test \in Combinations(n, k) /\ s[m].train = (0..(n - 1)) \ ToSet(s[m].test)
    BY <1>2
  <2>2. ToSet(s[m].test) \in kSubset(k, 0..(n - 1))
    BY <1>1, <2>1, ChoiceSize
  <2>3. ToSet(s[m].test) \subseteq 0..(n - 1)
    BY <2>2 DEF kSubset
  <2> QED
    BY <2>1, <2>3
<1>4. ASSUME here = << >>, k > 0
      PROVE  {ToSet(s[m].test) : m \in DOMAIN s} = kSubset(k, 0..(n - 1))
  <2>1. \A m \in DOMAIN s : ToSet(s[m].test) \in kSubset(k, 0..(n - 1))
    BY <1>1, <1>2, ChoiceSize
  <2>2. ASSUME NEW T \in kSubset(k, 0..(n - 1))
        PROVE  \E m \in DOMAIN s : ToSet(s[m].test) = T
    <3>1. PICK c \in Combinations(n, k) : ToSet(c) = T
      BY <1>1, ChoiceOf
    <3>2. PICK m \in 1..Len(s) : s[m].test = c
      BY <1>1, <1>4 DEF SplitsHold, IsTested
    <3> QED
      BY <1>2, <3>1, <3>2
  <2> QED
    BY <2>1, <2>2
<1> QED
  BY <1>1, <1>2, <1>3, <1>4 DEF SplitsComplete

\* Validation is out of sample, for every plan, timeline and grouping: no fit has
\* seen a bar its fold is judged on, or one within the purge before it; the tests
\* tile the data when they are a step apart; the summary counts every fold and
\* joins none to the next; and the splits are all there are, once each and in
\* order (walk_forward and its variants, slice_window, WalkForwardBacktest::run,
\* WalkForwardSummary::new, combinatorial_splits).
THEOREM ValidationIsSound == ValidationSpec => []FoldsSound
<1> DEFINE Inv == FoldInv /\ SplitInv
<1>1. FoldInit /\ SplitInit => Inv
  BY FoldInitInv, SplitInitInv
<1>2. Inv /\ [\/ FoldNext /\ UNCHANGED cscvVars
              \/ NextSplit /\ UNCHANGED splitVars]_<<splitVars, cscvVars>> => Inv'
  BY FoldStep, SplitStep
<1>3. Inv => FoldsSound
  BY LeaksNothing, TestsTiled, PoolCounted, SplitsAll DEF FoldsSound
<1> QED
  BY <1>1, <1>2, <1>3, PTL DEF ValidationSpec

-----------------------------------------------------------------------------
(* The fill log and what is made of it *)

LogEntries ==
  [type : {"Fill"}, id : Nat, complete : {TRUE}, instrument : Markets, side : {1, -1},
   price : Int, qty : Nat \ {0}, fee : Int, ts : Int]

TripAccounts == Accounts(Markets, Nat)

\* What an entry makes of the account.
Booked(p, e, q) ==
  LET pos    == p.positions[e.instrument]
      signed == e.side * e.qty
      net    == pos.net + signed
  IN  /\ pos.net \in Int /\ pos.avg \in Int /\ signed \in Int /\ signed # 0
      /\ q.positions = [p.positions EXCEPT ![e.instrument] =
                          [net |-> net, avg |-> AvgAfter(pos.net, pos.avg, signed, e.price)]]
      /\ q.realized = p.realized + RealizedBy(pos.net, pos.avg, signed, e.price)
      /\ RealizedBy(pos.net, pos.avg, signed, e.price) \in Int
      /\ q.tradingFees = p.tradingFees + e.fee
      /\ q.held = IF (pos.net # 0) = (net # 0) THEN p.held
                  ELSE IF net # 0 THEN p.held \cup {e.instrument}
                  ELSE p.held \ {e.instrument}

\* It does so.
LEMMA EntryBooked ==
  ASSUME NEW p \in TripAccounts, NEW e \in LogEntries
  PROVE  Apply(p, e) \in TripAccounts /\ Booked(p, e, Apply(p, e))
<1> DEFINE q == Settle(p, e)
           r == CloseOrder(q, e.id)
           signed == e.side * e.qty
           pos == p.positions[e.instrument]
<1>1. /\ e.instrument \in Markets /\ e.side \in Int /\ e.price \in Int /\ e.qty \in Int
      /\ e.fee \in Int /\ e.type = "Fill" /\ e.complete
  <2>1. e.complete = TRUE
    BY DEF LogEntries
  <2>2. e.side \in Int /\ e.qty \in Int
    BY DEF LogEntries
  <2> QED
    BY <2>1, <2>2 DEF LogEntries
<1>2. q \in TripAccounts /\ Settles(p, e, q)
  BY <1>1, SettledAccount DEF TripAccounts
<1>3. Apply(p, e) = r
  BY <1>1, ApplyCases DEF ApplyFill
<1>4. signed # 0 /\ signed \in Int
  BY DEF LogEntries
<1>5. NewAvg(pos.net, pos.avg, signed, e.price) = AvgAfter(pos.net, pos.avg, signed, e.price)
  BY <1>4 DEF NewAvg
<1> HIDE DEF q
<1>6. r \in TripAccounts
  BY <1>2, ClosedAccount DEF TripAccounts
<1>7. /\ r.positions = q.positions /\ r.realized = q.realized
      /\ r.tradingFees = q.tradingFees /\ r.held = q.held
  BY <1>2 DEF CloseOrder, TripAccounts, Accounts
<1> HIDE DEF r
<1>8. /\ pos.net \in Int /\ pos.avg \in Int
      /\ RealizedBy(pos.net, pos.avg, signed, e.price) \in Int
  <2>1. pos.net \in Int /\ pos.avg \in Int
    BY <1>2 DEF Settles
  <2> HIDE DEF pos, signed
  <2> QED
    BY <1>1, <1>4, <2>1, TradeType
<1> QED
  BY <1>2, <1>3, <1>4, <1>5, <1>6, <1>7, <1>8 DEF Settles, Booked

\* So a log may be replayed ...
LEMMA LogReplays == ClosedUnder(TripAccounts, LogEntries)
  BY EntryBooked DEF ClosedUnder

\* ... and each entry books on what the ones before it left.
LEMMA LogSteps ==
  ASSUME NEW p \in TripAccounts, NEW s \in Seq(LogEntries)
  PROVE  /\ ReplayedPrefix(p, s)[0] = p
         /\ \A n \in 0..Len(s) : ReplayedPrefix(p, s)[n] \in TripAccounts
         /\ \A n \in 1..Len(s) :
              Booked(ReplayedPrefix(p, s)[n - 1], s[n], ReplayedPrefix(p, s)[n])
<1> DEFINE f == ReplayedPrefix(p, s)
<1>1. Len(s) \in Nat /\ \A n \in 1..Len(s) : s[n] \in LogEntries
  OBVIOUS
<1>2. \A n \in 0..Len(s) :
        f[n] \in TripAccounts /\ f[n] = IF n = 0 THEN p ELSE Apply(f[n - 1], s[n])
  BY LogReplays, ReplayEquation
<1> HIDE DEF f
<1>3. ASSUME NEW n \in 1..Len(s) PROVE Booked(f[n - 1], s[n], f[n])
  <2>1. n \in 0..Len(s) /\ n # 0 /\ n - 1 \in 0..Len(s)
    BY <1>1
  <2>2. f[n] = Apply(f[n - 1], s[n]) /\ f[n - 1] \in TripAccounts
    BY <1>2, <2>1
  <2> QED
    BY <1>1, <2>2, EntryBooked
<1>4. f[0] = p
  BY <1>1, <1>2
<1> QED
  BY <1>2, <1>3, <1>4 DEF f

\* An empty log leaves the account as it is.
LEMMA NothingReplayed ==
  ASSUME NEW p \in TripAccounts, NEW s \in Seq(LogEntries), Len(s) = 0
  PROVE  Replay(p, s) = p
  BY LogSteps DEF Replay

\* ... and a position stays as it is while no entry is of its instrument.
LEMMA StillThere ==
  ASSUME NEW p \in TripAccounts, NEW s \in Seq(LogEntries), NEW m \in Markets,
         NEW a \in 0..Len(s), NEW b \in 0..Len(s), a <= b,
         \A i \in 1..Len(s) : a < i /\ i <= b => s[i].instrument # m
  PROVE  ReplayedPrefix(p, s)[b].positions[m] = ReplayedPrefix(p, s)[a].positions[m]
<1> DEFINE f == ReplayedPrefix(p, s)
           Bad == {n \in 0..Len(s) : a <= n /\ n <= b /\ f[n].positions[m] # f[a].positions[m]}
<1>1. Len(s) \in Nat
  OBVIOUS
<1>2. \A n \in 0..Len(s) : f[n] \in TripAccounts
  BY LogSteps
<1>3. \A n \in 1..Len(s) : Booked(f[n - 1], s[n], f[n])
  BY LogSteps
<1> HIDE DEF f
<1>4. ASSUME Bad # {} PROVE FALSE
  <2>1. Bad \subseteq Nat
    BY <1>1
  <2>2. PICK n \in Bad : \A k \in Bad : n <= k
    BY <1>4, <2>1, LeastNat
  <2>3. n # a
    BY <2>2
  <2>4. /\ n \in 1..Len(s) /\ n - 1 \in 0..Len(s) /\ a < n /\ n <= b
        /\ a <= n - 1 /\ n - 1 <= b /\ ~(n <= n - 1)
    BY <1>1, <2>2, <2>3
  <2>5. f[n - 1].positions[m] = f[a].positions[m]
    BY <2>2, <2>4
  <2>6. f[n - 1].positions \in [Markets -> Position]
    BY <1>2, <2>4 DEF TripAccounts, Accounts
  <2>7. f[n].positions[m] = f[n - 1].positions[m]
    BY <1>3, <2>4, <2>6 DEF Booked
  <2> QED
    BY <2>2, <2>5, <2>7
<1>5. b \notin Bad
  BY <1>4
<1> QED
  BY <1>5 DEF f

\* What an account has realized is the sum of what the entries realized.
LEMMA RealizedInAll ==
  ASSUME NEW p \in TripAccounts, NEW s \in Seq(LogEntries)
  PROVE  LET f    == ReplayedPrefix(p, s)
             gain == [n \in 1..Len(s) |-> f[n].realized - f[n - 1].realized]
         IN  /\ \A n \in 1..Len(s) : gain[n] \in Int
             /\ f[Len(s)].realized = p.realized + SumFunctionOnSet(gain, 1..Len(s))
<1> DEFINE f    == ReplayedPrefix(p, s)
           N    == Len(s)
           gain == [n \in 1..N |-> f[n].realized - f[n - 1].realized]
           Bad  == {n \in 0..N : f[n].realized # p.realized + SumFunctionOnSet(gain, 1..n)}
<1>1. N \in Nat
  OBVIOUS
<1>2. f[0] = p /\ \A n \in 0..N : f[n].realized \in Int
  <2>1. f[0] = p /\ \A n \in 0..N : f[n] \in TripAccounts
    BY LogSteps
  <2> HIDE DEF f
  <2> QED
    BY <2>1 DEF TripAccounts, Accounts
<1> HIDE DEF f, N
<1>3. ASSUME NEW n \in 1..N PROVE gain[n] \in Int
  <2>1. n \in 0..N /\ n - 1 \in 0..N
    BY <1>1
  <2> QED
    BY <1>2, <2>1
<1>4. ASSUME Bad # {} PROVE FALSE
  <2>1. Bad \subseteq Nat
    BY <1>1
  <2>2. PICK n \in Bad : \A k \in Bad : n <= k
    <3> HIDE DEF Bad
    <3> QED
      BY <1>4, <2>1, LeastNat
  <2>3. n # 0
    <3>1. 1..0 = {} /\ IsFiniteSet({})
      BY FS_EmptySet
    <3>2. SumFunctionOnSet(gain, 1..0) = 0
      BY <3>1, SumStep
    <3>3. 0 \in 0..N /\ p.realized \in Int
      BY <1>1, <1>2
    <3> QED
      BY <1>2, <2>2, <3>2, <3>3
  <2>4. /\ n \in 1..N /\ n - 1 \in 0..N /\ n - 1 \in Nat /\ (n - 1) + 1 = n /\ ~(n <= n - 1)
        /\ n \in 0..N
    BY <1>1, <2>2, <2>3
  <2>5. f[n - 1].realized = p.realized + SumFunctionOnSet(gain, 1..n - 1)
    BY <2>2, <2>4
  <2>6. SumFunctionOnSet(gain, 1..n) = SumFunctionOnSet(gain, 1..n - 1) + gain[n]
    <3>1. \A i \in 1..(n - 1) + 1 : gain[i] \in Int
      <4>1. ASSUME NEW i \in 1..(n - 1) + 1 PROVE i \in 1..N
        BY <1>1, <2>4
      <4> HIDE DEF gain
      <4> QED
        BY <1>3, <4>1
    <3>2. \A i \in 1..n - 1 : gain[i] = gain[i]
      OBVIOUS
    <3> HIDE DEF gain
    <3>3. SumFunctionOnSet(gain, 1..(n - 1) + 1)
            = SumFunctionOnSet(gain, 1..n - 1) + gain[(n - 1) + 1]
      BY <2>4, <3>1, <3>2, SumAppend
    <3> QED
      BY <2>4, <3>3
  <2>7. SumFunctionOnSet(gain, 1..n - 1) \in Int
    <3>1. \A i \in 1..n - 1 : gain[i] \in Int
      <4>1. ASSUME NEW i \in 1..n - 1 PROVE i \in 1..N
        BY <1>1, <2>4
      <4> HIDE DEF gain
      <4> QED
        BY <1>3, <4>1
    <3>2. IsFiniteSet(1..n - 1)
      <4>1. \A k \in Nat : IsFiniteSet(1..k)
        BY FS_Interval
      <4> QED
        BY <2>4, <4>1
    <3> HIDE DEF gain
    <3> QED
      BY <3>1, <3>2, SumType
  <2>8. gain[n] = f[n].realized - f[n - 1].realized
    BY <2>4
  <2>9. p.realized \in Int /\ f[n].realized \in Int /\ f[n - 1].realized \in Int
    <3>1. 0 \in 0..N
      BY <1>1
    <3> QED
      BY <1>2, <2>4, <3>1
  <2>10. f[n].realized # p.realized + SumFunctionOnSet(gain, 1..n)
    BY <2>2
  <2> HIDE DEF gain, Bad
  <2> QED
    BY <2>5, <2>6, <2>7, <2>8, <2>9, <2>10
<1>5. f[N].realized = p.realized + SumFunctionOnSet(gain, 1..N)
  <2>1. N \in 0..N
    BY <1>1
  <2>2. N \notin Bad
    <3> HIDE DEF Bad
    <3> QED
      BY <1>4
  <2> HIDE DEF gain
  <2> QED
    BY <2>1, <2>2
<1>6. \A n \in 1..N : gain[n] \in Int
  <2> HIDE DEF gain
  <2> QED
    BY <1>3
<1> QED
  BY <1>5, <1>6 DEF f, N

\* t is s in another order, which keeps that of each instrument.
Reorders(s, order, t) ==
  /\ Len(t) = Len(s)
  /\ order \in [1..Len(s) -> 1..Len(s)]
  /\ \A k \in 1..Len(s) : t[k] = s[order[k]]
  /\ \A k, l \in 1..Len(s) : order[k] = order[l] => k = l
  /\ \A n \in 1..Len(s) : \E k \in 1..Len(s) : order[k] = n
  /\ \A k, l \in 1..Len(s) :
       k < l /\ t[k].instrument = t[l].instrument => order[k] < order[l]

\* Such an order realizes the same and costs the same.
LEMMA ReorderedReplay ==
  ASSUME NEW p \in TripAccounts, NEW s \in Seq(LogEntries), NEW t \in Seq(LogEntries),
         NEW order, Reorders(s, order, t)
  PROVE  /\ Replay(p, t).realized = Replay(p, s).realized
         /\ Replay(p, t).tradingFees
              = p.tradingFees + SumFunctionOnSet([n \in DOMAIN s |-> s[n].fee], DOMAIN s)
<1> DEFINE N == Len(s)
           f == ReplayedPrefix(p, s)
           g == ReplayedPrefix(p, t)
           gain == [n \in 1..N |-> f[n].realized - f[n - 1].realized]
           fee  == [n \in DOMAIN s |-> s[n].fee]
           Done(k) == {order[l] : l \in 1..k}
           Upto(k, m, j) == /\ g[k].positions[m] = f[j].positions[m]
                            /\ \A i \in 1..N : s[i].instrument = m => (i \in Done(k) <=> i <= j)
           Holds(k) == /\ \A m \in Markets : \E j \in 0..N : Upto(k, m, j)
                       /\ g[k].realized = p.realized + SumFunctionOnSet(gain, Done(k))
                       /\ g[k].tradingFees = p.tradingFees + SumFunctionOnSet(fee, Done(k))
           Bad == {k \in 0..N : ~Holds(k)}
<1>1. /\ N \in Nat /\ DOMAIN s = 1..N /\ Len(t) = N
      /\ \A n \in 1..N : s[n] \in LogEntries
      /\ \A k \in 1..N : order[k] \in 1..N /\ t[k] = s[order[k]]
  <2>1. N \in Nat /\ DOMAIN s = 1..N /\ \A n \in 1..N : s[n] \in LogEntries
    OBVIOUS
  <2>2. Len(t) = N /\ \A k \in 1..N : order[k] \in 1..N /\ t[k] = s[order[k]]
    BY DEF Reorders
  <2> QED
    BY <2>1, <2>2
<1>2. /\ f[0] = p /\ \A n \in 0..N : f[n] \in TripAccounts
      /\ \A n \in 1..N : Booked(f[n - 1], s[n], f[n])
  BY LogSteps
<1>3. /\ g[0] = p /\ \A n \in 0..N : g[n] \in TripAccounts
      /\ \A n \in 1..N : Booked(g[n - 1], t[n], g[n])
  BY <1>1, LogSteps
<1>4. /\ \A n \in 1..N : gain[n] \in Int
      /\ f[N].realized = p.realized + SumFunctionOnSet(gain, 1..N)
  BY RealizedInAll
<1>5. \A m \in Markets, a, b \in 0..N :
        a <= b /\ (\A i \in 1..N : a < i /\ i <= b => s[i].instrument # m)
          => f[b].positions[m] = f[a].positions[m]
  <2>1. ASSUME NEW m \in Markets, NEW a \in 0..N, NEW b \in 0..N, a <= b,
               \A i \in 1..N : a < i /\ i <= b => s[i].instrument # m
        PROVE  f[b].positions[m] = f[a].positions[m]
    BY <2>1, StillThere
  <2> HIDE DEF f, N
  <2> QED
    BY <2>1
<1>6. \A n \in 1..N : fee[n] \in Int /\ fee[n] = s[n].fee
  BY <1>1 DEF LogEntries
<1>7. /\ p.realized \in Int /\ p.tradingFees \in Int
      /\ \A n \in 0..N : f[n].realized \in Int /\ g[n].realized \in Int /\ g[n].tradingFees \in Int
  <2> HIDE DEF f, g
  <2> QED
    BY <1>2, <1>3 DEF TripAccounts, Accounts
<1>8. Replay(p, t) = g[N] /\ Replay(p, s) = f[N]
  BY <1>1 DEF Replay
<1>9. \A n \in 1..N : gain[n] = f[n].realized - f[n - 1].realized
  OBVIOUS
<1> HIDE DEF f, g, gain, fee, N
<1>10. Holds(0)
  <2>1. Done(0) = {} /\ 0 \in 0..N
    BY <1>1
  <2>2. SumFunctionOnSet(gain, {}) = 0 /\ SumFunctionOnSet(fee, {}) = 0
    BY SumStep, FS_EmptySet
  <2>3. ASSUME NEW m \in Markets PROVE Upto(0, m, 0)
    BY <1>1, <1>2, <1>3, <2>1
  <2>4. \A m \in Markets : \E j \in 0..N : Upto(0, m, j)
    <3> HIDE DEF Upto
    <3> QED
      BY <2>1, <2>3
  <2>5. /\ g[0].realized = p.realized + SumFunctionOnSet(gain, Done(0))
        /\ g[0].tradingFees = p.tradingFees + SumFunctionOnSet(fee, Done(0))
    <3>1. g[0] = p /\ Done(0) = {}
      BY <1>3, <2>1
    <3>2. SumFunctionOnSet(gain, Done(0)) = 0 /\ SumFunctionOnSet(fee, Done(0)) = 0
      BY <2>2, <3>1
    <3>3. p.realized = p.realized + 0 /\ p.tradingFees = p.tradingFees + 0
      BY <1>7
    <3> HIDE DEF Done
    <3> QED
      BY <3>1, <3>2, <3>3
  <2> QED
    BY <2>4, <2>5
<1>11. ASSUME NEW k \in 1..N, Holds(k - 1) PROVE Holds(k)
  <2> DEFINE i0 == order[k]
             m0 == s[i0].instrument
  <2>1. /\ k \in 0..N /\ k - 1 \in 0..N /\ i0 \in 1..N /\ t[k] = s[i0]
        /\ i0 \in 0..N /\ i0 - 1 \in 0..N /\ m0 \in Markets
    <3>1. i0 \in 1..N /\ t[k] = s[i0] /\ s[i0] \in LogEntries
      BY <1>1
    <3>2. k \in 0..N /\ k - 1 \in 0..N /\ i0 \in 0..N /\ i0 - 1 \in 0..N
      BY <1>1, <3>1
    <3> QED
      BY <3>1, <3>2 DEF LogEntries
  <2>2. Booked(g[k - 1], s[i0], g[k]) /\ Booked(f[i0 - 1], s[i0], f[i0])
    BY <1>2, <1>3, <2>1
  <2>3. /\ Done(k) = Done(k - 1) \cup {i0} /\ i0 \notin Done(k - 1)
        /\ Done(k) \subseteq 1..N
    <3>1. \A l \in 1..k : l = k \/ l \in 1..k - 1
      BY <1>1
    <3>2. \A l \in 1..k - 1 : l \in 1..k /\ l \in 1..N /\ l # k
      BY <1>1
    <3>3. k \in 1..k /\ \A l \in 1..k : l \in 1..N
      BY <1>1
    <3>4. i0 \notin Done(k - 1)
      <4>1. \A l \in 1..N : order[l] = order[k] => l = k
        BY DEF Reorders, N
      <4> QED
        BY <3>2, <4>1
    <3>5. Done(k) \subseteq 1..N
      BY <1>1, <3>3
    <3> QED
      BY <3>1, <3>2, <3>3, <3>4, <3>5
  <2>4. \A i \in 1..N : s[i].instrument = m0 => (i \in Done(k - 1) <=> i < i0)
    <3> SUFFICES ASSUME NEW i \in 1..N, s[i].instrument = m0
                 PROVE  i \in Done(k - 1) <=> i < i0
      OBVIOUS
    <3>1. PICK l \in 1..N : order[l] = i
      BY DEF Reorders, N
    <3>2. t[l].instrument = m0 /\ t[k].instrument = m0
      BY <1>1, <2>1, <3>1
    <3>3. /\ l < k => i < i0
          /\ k < l => i0 < i
      BY <3>1, <3>2 DEF Reorders, N
    <3>4. l = k => i = i0
      BY <3>1
    <3>5. i \in Done(k - 1) <=> l < k
      <4>1. l < k => l \in 1..k - 1
        BY <1>1
      <4>2. ASSUME NEW j \in 1..k - 1, order[j] = i PROVE l < k
        <5>1. j \in 1..N /\ j < k
          BY <1>1
        <5>2. j = l
          BY <3>1, <4>2, <5>1 DEF Reorders, N
        <5> QED
          BY <5>1, <5>2
      <4> QED
        BY <3>1, <4>1, <4>2
    <3>6. i \in Int /\ i0 \in Int /\ l \in Int /\ k \in Int
      BY <2>1
    <3> HIDE DEF i0, Done
    <3> QED
      BY <3>3, <3>4, <3>5, <3>6
  <2>5. g[k - 1].positions[m0] = f[i0 - 1].positions[m0]
    <3>1. PICK j \in 0..N : Upto(k - 1, m0, j)
      BY <1>11, <2>1
    <3>2. j <= i0 - 1
      <4>1. ~(i0 <= j)
        BY <2>1, <2>3, <3>1
      <4> QED
        BY <2>1, <4>1
    <3>3. ASSUME NEW i \in 1..N, j < i, i <= i0 - 1, s[i].instrument = m0 PROVE FALSE
      <4>1. i < i0
        BY <2>1, <3>3
      <4>2. i \in Done(k - 1)
        BY <2>4, <3>3, <4>1
      <4>3. i <= j
        BY <3>1, <3>3, <4>2
      <4> QED
        BY <3>3, <4>3
    <3>4. f[i0 - 1].positions[m0] = f[j].positions[m0]
      BY <1>5, <2>1, <3>2, <3>3
    <3> QED
      BY <3>1, <3>4
  <2>6. /\ g[k].positions[m0] = f[i0].positions[m0]
        /\ \A m \in Markets \ {m0} : g[k].positions[m] = g[k - 1].positions[m]
        /\ g[k].realized - g[k - 1].realized = gain[i0]
        /\ g[k].tradingFees = g[k - 1].tradingFees + fee[i0]
    <3>1. /\ g[k - 1].positions \in [Markets -> Position]
          /\ f[i0 - 1].positions \in [Markets -> Position]
      BY <1>2, <1>3, <2>1 DEF TripAccounts, Accounts
    <3>2. g[k].positions[m0] = f[i0].positions[m0]
      <4>1. g[k].positions[m0] =
              [net |-> g[k - 1].positions[m0].net + s[i0].side * s[i0].qty,
               avg |-> AvgAfter(g[k - 1].positions[m0].net, g[k - 1].positions[m0].avg,
                                s[i0].side * s[i0].qty, s[i0].price)]
        BY <2>1, <2>2, <3>1 DEF Booked
      <4>2. f[i0].positions[m0] =
              [net |-> f[i0 - 1].positions[m0].net + s[i0].side * s[i0].qty,
               avg |-> AvgAfter(f[i0 - 1].positions[m0].net, f[i0 - 1].positions[m0].avg,
                                s[i0].side * s[i0].qty, s[i0].price)]
        BY <2>1, <2>2, <3>1 DEF Booked
      <4> QED
        BY <2>5, <4>1, <4>2
    <3>3. \A m \in Markets \ {m0} : g[k].positions[m] = g[k - 1].positions[m]
      BY <2>1, <2>2, <3>1 DEF Booked
    <3> DEFINE R == RealizedBy(g[k - 1].positions[m0].net, g[k - 1].positions[m0].avg,
                               s[i0].side * s[i0].qty, s[i0].price)
    <3>4. /\ g[k].realized = g[k - 1].realized + R /\ R \in Int
          /\ f[i0].realized = f[i0 - 1].realized + R
      BY <2>2, <2>5 DEF Booked
    <3>5. g[k].realized - g[k - 1].realized = gain[i0]
      <4>1. gain[i0] = f[i0].realized - f[i0 - 1].realized
        BY <1>9, <2>1
      <4>2. /\ g[k - 1].realized \in Int /\ f[i0 - 1].realized \in Int
        BY <1>7, <2>1
      <4> HIDE DEF R, i0
      <4> QED
        BY <3>4, <4>1, <4>2
    <3>6. g[k].tradingFees = g[k - 1].tradingFees + fee[i0]
      BY <1>6, <2>1, <2>2 DEF Booked
    <3> QED
      BY <3>2, <3>3, <3>5, <3>6
  <2>7. ASSUME NEW m \in Markets PROVE \E j \in 0..N : Upto(k, m, j)
    <3>1. CASE m = m0
      <4>1. \A i \in 1..N : s[i].instrument = m0 => (i \in Done(k) <=> i <= i0)
        <5> SUFFICES ASSUME NEW i \in 1..N, s[i].instrument = m0
                     PROVE  i \in Done(k) <=> i <= i0
          OBVIOUS
        <5>1. i \in Done(k) <=> i \in Done(k - 1) \/ i = i0
          BY <2>3
        <5>2. i \in Done(k - 1) <=> i < i0
          BY <2>4
        <5>3. i \in Int /\ i0 \in Int
          BY <2>1
        <5> HIDE DEF i0, Done
        <5> QED
          BY <5>1, <5>2, <5>3
      <4> QED
        BY <2>1, <2>6, <3>1, <4>1
    <3>2. CASE m # m0
      <4>1. PICK j \in 0..N : Upto(k - 1, m, j)
        BY <1>11
      <4>2. \A i \in 1..N : s[i].instrument = m => (i \in Done(k) <=> i \in Done(k - 1))
        BY <2>3, <3>2
      <4>3. Upto(k, m, j)
        BY <2>6, <3>2, <4>1, <4>2
      <4> QED
        BY <4>3
    <3> QED
      BY <3>1, <3>2
  <2>8. ASSUME NEW F, \A n \in 1..N : F[n] \in Int
        PROVE  /\ SumFunctionOnSet(F, Done(k)) = F[i0] + SumFunctionOnSet(F, Done(k - 1))
               /\ SumFunctionOnSet(F, Done(k - 1)) \in Int
    <3>1. IsFiniteSet(1..N)
      BY <1>1, FS_Interval
    <3>2. IsFiniteSet(Done(k)) /\ IsFiniteSet(Done(k - 1)) /\ Done(k - 1) \subseteq 1..N
      BY <2>3, <3>1, FS_Subset
    <3>3. Done(k) \ {i0} = Done(k - 1) /\ i0 \in Done(k)
      BY <2>3
    <3>4. \A n \in Done(k) : F[n] \in Int
      BY <2>3, <2>8
    <3>5. \A n \in Done(k - 1) : F[n] \in Int
      BY <2>8, <3>2
    <3> HIDE DEF Done, i0
    <3>6. SumFunctionOnSet(F, Done(k)) = F[i0] + SumFunctionOnSet(F, Done(k) \ {i0})
      BY <3>2, <3>3, <3>4, SumSplit
    <3>7. SumFunctionOnSet(F, Done(k - 1)) \in Int
      BY <3>2, <3>5, SumType
    <3> QED
      BY <3>3, <3>6, <3>7
  <2>9. g[k].realized = p.realized + SumFunctionOnSet(gain, Done(k))
    <3>1. /\ SumFunctionOnSet(gain, Done(k)) = gain[i0] + SumFunctionOnSet(gain, Done(k - 1))
          /\ SumFunctionOnSet(gain, Done(k - 1)) \in Int
      BY <1>4, <2>8
    <3>2. gain[i0] \in Int /\ g[k].realized \in Int /\ g[k - 1].realized \in Int
      BY <1>4, <1>7, <2>1
    <3>3. g[k - 1].realized = p.realized + SumFunctionOnSet(gain, Done(k - 1))
      BY <1>11
    <3> HIDE DEF Done, i0
    <3>4. p.realized \in Int /\ g[k].realized - g[k - 1].realized = gain[i0]
      BY <1>7, <2>6
    <3> QED
      BY <3>1, <3>2, <3>3, <3>4
  <2>10. g[k].tradingFees = p.tradingFees + SumFunctionOnSet(fee, Done(k))
    <3>1. /\ SumFunctionOnSet(fee, Done(k)) = fee[i0] + SumFunctionOnSet(fee, Done(k - 1))
          /\ SumFunctionOnSet(fee, Done(k - 1)) \in Int
      BY <1>6, <2>8
    <3>2. fee[i0] \in Int /\ g[k].tradingFees \in Int /\ g[k - 1].tradingFees \in Int
      BY <1>6, <1>7, <2>1
    <3>3. g[k - 1].tradingFees = p.tradingFees + SumFunctionOnSet(fee, Done(k - 1))
      BY <1>11
    <3> HIDE DEF Done, i0
    <3>4. p.tradingFees \in Int /\ g[k].tradingFees = g[k - 1].tradingFees + fee[i0]
      BY <1>7, <2>6
    <3> QED
      BY <3>1, <3>2, <3>3, <3>4
  <2> QED
    BY <2>7, <2>9, <2>10
<1>12. Holds(N)
  <2>1. ASSUME Bad # {} PROVE FALSE
    <3> HIDE DEF Holds
    <3>1. Bad \subseteq Nat
      BY <1>1
    <3>2. PICK k \in Bad : \A l \in Bad : k <= l
      BY <2>1, <3>1, LeastNat
    <3>3. k \in 1..N /\ k - 1 \in 0..N /\ ~(k <= k - 1)
      BY <1>1, <1>10, <3>2
    <3>4. Holds(k - 1)
      BY <3>2, <3>3
    <3> QED
      BY <1>11, <3>2, <3>3, <3>4
  <2> HIDE DEF Holds
  <2> QED
    BY <1>1, <2>1
<1>13. Done(N) = 1..N
  <2>1. Done(N) \subseteq 1..N
    BY <1>1
  <2>2. ASSUME NEW n \in 1..N PROVE n \in Done(N)
    BY DEF Reorders, N
  <2> QED
    BY <2>1, <2>2
<1> QED
  BY <1>1, <1>4, <1>8, <1>12, <1>13 DEF fee

\* A log as the engine writes it: each fee by the rate, and no stamp before an
\* earlier one.
LogKept ==
  /\ fills \in Seq(LogEntries)
  /\ \A n \in 1..Len(fills) : fills[n].fee = Charged(fills[n].price, fills[n].qty)
  /\ \A m, n \in 1..Len(fills) : m < n => fills[m].ts <= fills[n].ts

\* SortsBefore orders its entries.
LEMMA SortIsOrder ==
  ASSUME fills \in Seq(LogEntries)
  PROVE  /\ \A m \in DOMAIN fills : ~SortsBefore(m, m)
         /\ \A m, n \in DOMAIN fills : m # n => SortsBefore(m, n) \/ SortsBefore(n, m)
         /\ \A m, n, o \in DOMAIN fills :
              SortsBefore(m, n) /\ SortsBefore(n, o) => SortsBefore(m, o)
<1>1. /\ DOMAIN fills \subseteq Nat
      /\ \A n \in DOMAIN fills : fills[n].ts \in Int /\ fills[n].instrument \in Nat
  <2>1. \A n \in DOMAIN fills : fills[n] \in LogEntries
    OBVIOUS
  <2>2. DOMAIN fills = 1..Len(fills) /\ Len(fills) \in Nat
    OBVIOUS
  <2>3. \A e \in LogEntries : e.ts \in Int /\ e.instrument \in Nat
    BY TripAssumption DEF LogEntries
  <2> QED
    BY <2>1, <2>2, <2>3
<1>2. \A m \in DOMAIN fills : ~SortsBefore(m, m)
  BY <1>1 DEF SortsBefore
<1>3. \A m, n \in DOMAIN fills : m # n => SortsBefore(m, n) \/ SortsBefore(n, m)
  BY <1>1 DEF SortsBefore
<1>4. \A m, n, o \in DOMAIN fills :
        SortsBefore(m, n) /\ SortsBefore(n, o) => SortsBefore(m, o)
  BY <1>1 DEF SortsBefore
<1> QED
  BY <1>2, <1>3, <1>4

\* So each has a place of its own, and every place has its entry.
LEMMA PlacesTaken ==
  ASSUME fills \in Seq(LogEntries)
  PROVE  /\ \A n \in DOMAIN fills : PlaceOf(n) \in DOMAIN fills
         /\ \A m, n \in DOMAIN fills : SortsBefore(m, n) => PlaceOf(m) < PlaceOf(n)
         /\ \A m, n \in DOMAIN fills : PlaceOf(m) = PlaceOf(n) => m = n
         /\ \A k \in DOMAIN fills : \E n \in DOMAIN fills : PlaceOf(n) = k
<1> DEFINE D == DOMAIN fills
           Lower(n) == {m \in D : SortsBefore(m, n)}
<1>1. D = 1..Len(fills) /\ Len(fills) \in Nat
  OBVIOUS
<1>2. IsFiniteSet(D) /\ Cardinality(D) = Len(fills)
  BY <1>1, FS_Interval
<1>3. /\ \A m \in D : ~SortsBefore(m, m)
      /\ \A m, n \in D : m # n => SortsBefore(m, n) \/ SortsBefore(n, m)
      /\ \A m, n, o \in D : SortsBefore(m, n) /\ SortsBefore(n, o) => SortsBefore(m, o)
  BY SortIsOrder
<1> HIDE DEF D
<1>4. ASSUME NEW n \in D
      PROVE  /\ IsFiniteSet(Lower(n)) /\ Cardinality(Lower(n)) \in Nat
             /\ PlaceOf(n) = Cardinality(Lower(n)) + 1
  <2>1. Lower(n) \subseteq D
    OBVIOUS
  <2>2. IsFiniteSet(Lower(n)) /\ Cardinality(Lower(n)) \in Nat
    BY <1>2, <2>1, FS_Subset, FS_CardinalityType
  <2> QED
    BY <2>2 DEF PlaceOf, D
<1>5. ASSUME NEW m \in D, NEW n \in D, SortsBefore(m, n) PROVE PlaceOf(m) < PlaceOf(n)
  <2>1. Lower(m) \subseteq Lower(n) \ {m} /\ m \in Lower(n)
    BY <1>3, <1>5
  <2>2. IsFiniteSet(Lower(n)) /\ m \in Lower(n)
    BY <1>4, <2>1
  <2>3. /\ IsFiniteSet(Lower(n) \ {m})
        /\ ~(Cardinality(Lower(n)) <= Cardinality(Lower(n) \ {m}))
        /\ Cardinality(Lower(n) \ {m}) \in Nat
    <3> HIDE DEF Lower
    <3> QED
      BY <2>2, Smaller
  <2>4. Cardinality(Lower(m)) <= Cardinality(Lower(n) \ {m})
    <3>1. Lower(m) \subseteq Lower(n) \ {m}
      BY <2>1
    <3> HIDE DEF Lower
    <3> QED
      BY <2>3, <3>1, FS_Subset
  <2>5. /\ Cardinality(Lower(m)) \in Nat /\ Cardinality(Lower(n)) \in Nat
        /\ PlaceOf(m) = Cardinality(Lower(m)) + 1 /\ PlaceOf(n) = Cardinality(Lower(n)) + 1
    BY <1>4
  <2> HIDE DEF Lower
  <2> QED
    BY <2>3, <2>4, <2>5
<1>6. \A m, n \in D : PlaceOf(m) = PlaceOf(n) => m = n
  <2>1. \A n \in D : PlaceOf(n) \in Nat
    <3> HIDE DEF Lower
    <3> QED
      BY <1>4
  <2>2. \A a \in Nat : ~(a < a)
    OBVIOUS
  <2> QED
    BY <1>3, <1>5, <2>1, <2>2
<1>7. \A n \in D : PlaceOf(n) \in D
  <2> SUFFICES ASSUME NEW n \in D PROVE PlaceOf(n) \in D
    OBVIOUS
  <2>1. Lower(n) \subseteq D \ {n}
    BY <1>3
  <2>2. /\ IsFiniteSet(D \ {n}) /\ Cardinality(D \ {n}) \in Nat
        /\ ~(Cardinality(D) <= Cardinality(D \ {n}))
    BY <1>2, Smaller
  <2>3. Cardinality(Lower(n)) <= Cardinality(D \ {n})
    BY <2>1, <2>2, FS_Subset
  <2>4. Cardinality(Lower(n)) \in Nat /\ PlaceOf(n) = Cardinality(Lower(n)) + 1
    BY <1>4
  <2> HIDE DEF Lower
  <2> QED
    BY <1>1, <1>2, <2>2, <2>3, <2>4 DEF D
<1> DEFINE place == [n \in D |-> PlaceOf(n)]
<1>8. place \in Injection(D, D)
  BY <1>6, <1>7 DEF Injection, IsInjective
<1>9. place \in Surjection(D, D)
  BY <1>2, <1>8, FS_Injection
<1>10. \A k \in D : \E n \in D : PlaceOf(n) = k
  BY <1>9 DEF Surjection
<1> QED
  BY <1>5, <1>6, <1>7, <1>10 DEF D

\* Sorting a log keeps the order of each instrument.
LEMMA SortReorders ==
  ASSUME LogKept
  PROVE  LET again == [k \in DOMAIN SortedTrades |->
                         [SortedTrades[k] EXCEPT !.fee = Charged(SortedTrades[k].price,
                                                                 SortedTrades[k].qty)]]
         IN  again \in Seq(LogEntries) /\ \E order : Reorders(fills, order, again)
<1> DEFINE N == Len(fills)
           order == [k \in 1..N |-> CHOOSE n \in DOMAIN fills : PlaceOf(n) = k]
           again == [k \in DOMAIN SortedTrades |->
                         [SortedTrades[k] EXCEPT !.fee = Charged(SortedTrades[k].price,
                                                                 SortedTrades[k].qty)]]
<1>1. /\ N \in Nat /\ DOMAIN fills = 1..N /\ fills \in Seq(LogEntries)
      /\ \A n \in 1..N : fills[n] \in LogEntries
  BY DEF LogKept
<1>2. /\ \A n \in 1..N : PlaceOf(n) \in 1..N
      /\ \A m, n \in 1..N : SortsBefore(m, n) => PlaceOf(m) < PlaceOf(n)
      /\ \A m, n \in 1..N : PlaceOf(m) = PlaceOf(n) => m = n
      /\ \A k \in 1..N : \E n \in 1..N : PlaceOf(n) = k
  BY <1>1, PlacesTaken
<1>3. \A k \in 1..N : order[k] \in 1..N /\ PlaceOf(order[k]) = k
  BY <1>1, <1>2
<1>4. order \in [1..N -> 1..N]
  BY <1>3
<1>5. SortedTrades = [k \in 1..N |-> fills[order[k]]]
  BY <1>1 DEF SortedTrades
<1> HIDE DEF order
<1>6. ASSUME NEW k \in 1..N PROVE again[k] = fills[order[k]]
  <2> DEFINE e == fills[order[k]]
  <2>1. SortedTrades[k] = e /\ k \in DOMAIN SortedTrades
    BY <1>5
  <2>2. again[k] = [e EXCEPT !.fee = Charged(e.price, e.qty)]
    BY <2>1
  <2>3. e \in LogEntries /\ e.fee = Charged(e.price, e.qty)
    BY <1>1, <1>3 DEF LogKept
  <2> HIDE DEF e
  <2>4. [e EXCEPT !.fee = e.fee] = e
    BY <2>3 DEF LogEntries
  <2> QED
    BY <2>2, <2>3, <2>4 DEF e
<1>7. again = [k \in 1..N |-> fills[order[k]]]
  <2>1. DOMAIN SortedTrades = 1..N
    BY <1>5
  <2> QED
    BY <1>6, <2>1
<1> HIDE DEF again
<1>8. again \in Seq(LogEntries) /\ Len(again) = N
  <2>1. \A k \in 1..N : fills[order[k]] \in LogEntries
    BY <1>1, <1>3
  <2> QED
    BY <1>1, <1>7, <2>1
<1>9. \A k, l \in 1..N : order[k] = order[l] => k = l
  BY <1>3
<1>10. \A n \in 1..N : \E k \in 1..N : order[k] = n
  <2> SUFFICES ASSUME NEW n \in 1..N PROVE \E k \in 1..N : order[k] = n
    OBVIOUS
  <2>1. PlaceOf(n) \in 1..N
    BY <1>2
  <2>2. PlaceOf(order[PlaceOf(n)]) = PlaceOf(n) /\ order[PlaceOf(n)] \in 1..N
    BY <1>3, <2>1
  <2> QED
    BY <1>2, <2>1, <2>2
<1>11. ASSUME NEW k \in 1..N, NEW l \in 1..N, k < l, again[k].instrument = again[l].instrument
       PROVE  order[k] < order[l]
  <2>1. /\ order[k] \in 1..N /\ order[l] \in 1..N
        /\ PlaceOf(order[k]) = k /\ PlaceOf(order[l]) = l
    BY <1>3
  <2>2. fills[order[k]].instrument = fills[order[l]].instrument
    BY <1>7, <1>11
  <2>3. SortsBefore(order[k], order[l])
    <3>1. order[k] # order[l] /\ ~(l < k)
      BY <1>11, <2>1
    <3> QED
      <4>1. ~SortsBefore(order[l], order[k])
        <5>1. \A m, n \in 1..N : SortsBefore(m, n) => PlaceOf(m) < PlaceOf(n)
          BY <1>2, Zenon
        <5>2. SortsBefore(order[l], order[k]) => PlaceOf(order[l]) < PlaceOf(order[k])
          BY <2>1, <5>1, Zenon
        <5> QED
          BY <2>1, <3>1, <5>2
      <4>2. order[k] \in DOMAIN fills /\ order[l] \in DOMAIN fills
        BY <1>1, <2>1
      <4> QED
        BY <1>1, <3>1, <4>1, <4>2, SortIsOrder
  <2>4. fills[order[k]].instrument \in Nat
    BY <1>1, <2>1, TripAssumption DEF LogEntries
  <2>5. fills[order[k]].ts < fills[order[l]].ts => order[k] < order[l]
    <3>1. fills[order[k]].ts \in Int /\ fills[order[l]].ts \in Int
      BY <1>1, <2>1 DEF LogEntries
    <3>2. order[l] < order[k] => fills[order[l]].ts <= fills[order[k]].ts
      BY <2>1 DEF LogKept
    <3>3. order[l] = order[k] => fills[order[l]].ts = fills[order[k]].ts
      OBVIOUS
    <3> QED
      BY <2>1, <3>1, <3>2, <3>3
  <2> QED
    BY <2>2, <2>3, <2>4, <2>5 DEF SortsBefore
<1>12. Reorders(fills, order, again)
  BY <1>4, <1>7, <1>8, <1>9, <1>10, <1>11 DEF Reorders
<1> QED
  BY <1>8, <1>12 DEF again

TradeState == [net : Int, avg : Int, realized : Int, fees : Int]

\* The trades carry what the account does.
TradesKept ==
  /\ trades \in [Markets -> TradeState] /\ pnls \in Seq(Int)
  /\ account.held = {m \in Markets : account.positions[m].net # 0}
  /\ \A m \in Markets : account.positions[m].net = 0 => trades[m] = FlatTrade
  /\ TripsAccount

TripInv ==
  /\ LogKept
  /\ lastTime \in Int /\ \A n \in 1..Len(fills) : fills[n].ts <= lastTime
  /\ account \in TripAccounts /\ account = Replay(OpenPortfolio(Markets, 0), fills)
  /\ TradesKept

\* An account that has just been opened.
LEMMA OpenedAccount == OpenPortfolio(Markets, 0) \in TripAccounts
  <1> DEFINE none == << >>
  <1>1. none \in Seq(Nat)
    OBVIOUS
  <1> HIDE DEF none
  <1>2. [i \in Markets |-> [net |-> 0, avg |-> 0]] \in [Markets -> Position]
    BY DEF Position
  <1>3. OpenPortfolio(Markets, 0) =
          [cash |-> 0, realized |-> 0, tradingFees |-> 0, fundingNet |-> 0,
           liquidationPnl |-> 0, rounding |-> 0,
           positions |-> [i \in Markets |-> [net |-> 0, avg |-> 0]],
           held |-> {}, open |-> none]
    BY DEF OpenPortfolio, none
  <1> QED
    BY <1>1, <1>2, <1>3 DEF TripAccounts, Accounts

\* It holds of an empty log.
LEMMA TripInitInv == TripInit => TripInv
<1> SUFFICES ASSUME TripInit PROVE TripInv
  OBVIOUS
<1>1. fills = << >> /\ pnls = << >> /\ lastTime = 0 /\ account = OpenPortfolio(Markets, 0)
      /\ trades = [m \in Markets |-> FlatTrade]
  BY DEF TripInit
<1>2. fills \in Seq(LogEntries) /\ Len(fills) = 0 /\ pnls \in Seq(Int) /\ DOMAIN pnls = {}
  BY <1>1
<1>3. account \in TripAccounts
  BY <1>1, OpenedAccount
<1>4. account = Replay(OpenPortfolio(Markets, 0), fills)
  <2> DEFINE p == OpenPortfolio(Markets, 0)
  <2>1. p \in TripAccounts /\ account = p
    BY <1>1, <1>3
  <2> HIDE DEF p
  <2>2. fills \in Seq(LogEntries) /\ Len(fills) = 0
    BY <1>2
  <2> QED
    BY <2>1, <2>2, NothingReplayed DEF p
<1>5. LogKept
  BY <1>2 DEF LogKept
<1>6. /\ account.held = {} /\ account.realized = 0 /\ account.tradingFees = 0
      /\ \A m \in Markets : account.positions[m] = [net |-> 0, avg |-> 0]
  BY <1>1 DEF OpenPortfolio
<1>7. trades \in [Markets -> TradeState] /\ \A m \in Markets : trades[m] = FlatTrade
  BY <1>1 DEF FlatTrade, TradeState
<1>8. TripsAccount
  <2> DEFINE worth == [m \in Markets |-> trades[m].realized - trades[m].fees]
  <2>1. SumFunctionOnSet(pnls, DOMAIN pnls) = 0
    BY <1>2, SumStep, FS_EmptySet
  <2>2. SumFunctionOnSet(worth, Markets) = 0
    <3>1. IsFiniteSet(Markets) /\ \A m \in Markets : worth[m] = 0
      BY <1>7, TripAssumption DEF FlatTrade
    <3> HIDE DEF worth
    <3> QED
      BY <3>1, SumZero
  <2>3. \A m \in Markets : account.positions[m] = [net |-> trades[m].net, avg |-> trades[m].avg]
    BY <1>6, <1>7 DEF FlatTrade
  <2> HIDE DEF worth
  <2> QED
    BY <1>6, <1>7, <2>1, <2>2, <2>3 DEF TripsAccount, worth
<1>9. TradesKept
  BY <1>2, <1>6, <1>7, <1>8 DEF TradesKept
<1> QED
  BY <1>1, <1>2, <1>3, <1>4, <1>5, <1>9 DEF TripInv

\* A flat position that is restarted has nothing left.
LEMMA RestartedFlat ==
  ASSUME NEW r \in TradeState, r.net = 0, r.avg = 0
  PROVE  Restarted(r) = FlatTrade
<1>1. /\ Restarted(r).net = 0 /\ Restarted(r).avg = 0
      /\ Restarted(r).realized = 0 /\ Restarted(r).fees = 0
      /\ Restarted(r) \in TradeState
  BY DEF Restarted, TradeState
<1>2. \A a, b \in TradeState :
        a.net = b.net /\ a.avg = b.avg /\ a.realized = b.realized /\ a.fees = b.fees => a = b
  BY DEF TradeState
<1>3. FlatTrade \in TradeState
  BY DEF FlatTrade, TradeState
<1> QED
  BY <1>1, <1>2, <1>3 DEF FlatTrade

\* An entry is tallied as it is booked.
LEMMA TallyKeeps ==
  ASSUME TradesKept, account \in TripAccounts, NEW f \in LogEntries,
         account' = Apply(account, f), Tally(f)
  PROVE  TradesKept'
<1> DEFINE m == f.instrument
           t == trades[m]
           signed == f.side * f.qty
           net == t.net + signed
           avg == AvgAfter(t.net, t.avg, signed, f.price)
           gain == RealizedBy(t.net, t.avg, signed, f.price)
           after == Grown(t, f)
           worth == [i \in Markets |-> trades[i].realized - trades[i].fees]
           made == SumFunctionOnSet(pnls, DOMAIN pnls)
<1>1. /\ m \in Markets /\ f.fee \in Int /\ f.price \in Int
      /\ t.net \in Int /\ t.avg \in Int /\ t.realized \in Int /\ t.fees \in Int
      /\ trades \in [Markets -> TradeState] /\ t \in TradeState /\ pnls \in Seq(Int)
  BY DEF TradesKept, LogEntries, TradeState
<1>2. account' \in TripAccounts /\ Booked(account, f, account')
  BY EntryBooked
<1>3. account.positions[m] = [net |-> t.net, avg |-> t.avg]
  BY <1>1 DEF TradesKept, TripsAccount
<1>4. account.positions \in [Markets -> Position]
  BY DEF TripAccounts, Accounts
<1>5. /\ signed \in Int /\ signed # 0 /\ gain \in Int
      /\ account'.positions = [account.positions EXCEPT ![m] = [net |-> net, avg |-> avg]]
      /\ account'.realized = account.realized + gain
      /\ account'.tradingFees = account.tradingFees + f.fee
      /\ account'.held = IF (t.net # 0) = (net # 0) THEN account.held
                         ELSE IF net # 0 THEN account.held \cup {m} ELSE account.held \ {m}
  BY <1>2, <1>3 DEF Booked
<1>6. /\ after = [net |-> net, avg |-> avg, realized |-> t.realized + gain,
                  fees |-> t.fees + f.fee]
  BY DEF Grown
<1>7. net \in Int /\ avg \in Int
  <2> HIDE DEF t, signed
  <2>1. net \in Int
    BY <1>1, <1>5
  <2>2. avg \in Int
    BY <1>1, <1>5, AvgAfterType
  <2> QED
    BY <2>1, <2>2
<1>8. net = 0 => avg = 0
  <2> HIDE DEF t, signed
  <2> QED
    BY <1>1, <1>5 DEF AvgAfter, Opens
<1> HIDE DEF m, t, signed, net, avg, gain, after
<1>9. after \in TradeState /\ after.net = net /\ after.avg = avg
      /\ after.realized = t.realized + gain /\ after.fees = t.fees + f.fee
  <2>1. t.realized + gain \in Int /\ t.fees + f.fee \in Int
    BY <1>1, <1>5
  <2> QED
    BY <1>6, <1>7, <2>1 DEF TradeState
<1>10. /\ made \in Int /\ \A i \in Markets : worth[i] \in Int
       /\ worth[m] = t.realized - t.fees
       /\ SumFunctionOnSet(worth, Markets) \in Int
  <2>1. IsFiniteSet(DOMAIN pnls) /\ \A n \in DOMAIN pnls : pnls[n] \in Int
    <3>1. DOMAIN pnls = 1..Len(pnls) /\ Len(pnls) \in Nat
      BY <1>1
    <3>2. \A n \in Nat : IsFiniteSet(1..n)
      BY FS_Interval
    <3> QED
      BY <1>1, <3>1, <3>2
  <2>2. \A i \in Markets : worth[i] \in Int
    BY <1>1 DEF TradeState
  <2>3. worth[m] = t.realized - t.fees
    BY <1>1 DEF t
  <2> HIDE DEF worth
  <2>4. SumFunctionOnSet(worth, Markets) \in Int
    BY <2>2, TripAssumption, SumType
  <2> QED
    BY <2>1, <2>2, <2>3, <2>4, SumType
<1>11. made + SumFunctionOnSet(worth, Markets) = account.realized - account.tradingFees
  BY DEF TradesKept, TripsAccount
<1>12. account.realized \in Int /\ account.tradingFees \in Int
  BY DEF TripAccounts, Accounts
<1> DEFINE kept == IF net = 0 THEN FlatTrade ELSE after
           newWorth == [i \in Markets |-> trades'[i].realized - trades'[i].fees]
<1>13. /\ trades' = [trades EXCEPT ![m] = kept]
       /\ pnls' = IF net = 0 THEN Append(pnls, after.realized - after.fees) ELSE pnls
  <2>1. CASE net = 0
    <3>1. Restarted(after) = FlatTrade
      <4>1. after \in TradeState /\ after.net = 0 /\ after.avg = 0
        BY <1>8, <1>9, <2>1
      <4> QED
        BY <4>1, RestartedFlat
    <3> QED
      BY <1>9, <2>1, <3>1 DEF Tally, after, t, m
  <2>2. CASE net # 0
    BY <1>9, <2>2 DEF Tally, after, t, m
  <2> QED
    BY <2>1, <2>2
<1>14. kept \in TradeState /\ kept.net = net /\ kept.avg = avg
  BY <1>8, <1>9 DEF FlatTrade, TradeState
<1>15. trades' \in [Markets -> TradeState]
  BY <1>1, <1>13, <1>14
<1>16. pnls' \in Seq(Int)
  <2>1. after.realized - after.fees \in Int
    BY <1>9 DEF TradeState
  <2> QED
    BY <1>1, <1>13, <2>1
<1>17. \A i \in Markets : account'.positions[i] = [net |-> trades'[i].net, avg |-> trades'[i].avg]
  <2>1. ASSUME NEW i \in Markets, i # m
        PROVE  account'.positions[i] = [net |-> trades'[i].net, avg |-> trades'[i].avg]
    <3>1. trades'[i] = trades[i] /\ account'.positions[i] = account.positions[i]
      BY <1>1, <1>4, <1>5, <1>13, <2>1
    <3> QED
      BY <3>1 DEF TradesKept, TripsAccount
  <2>2. account'.positions[m] = [net |-> trades'[m].net, avg |-> trades'[m].avg]
    BY <1>1, <1>4, <1>5, <1>13, <1>14
  <2> QED
    BY <2>1, <2>2
<1>18. account'.held = {i \in Markets : account'.positions[i].net # 0}
  <2>1. account.held = {i \in Markets : account.positions[i].net # 0}
    BY DEF TradesKept
  <2>2. \A i \in Markets : account'.positions[i].net
                             = IF i = m THEN net ELSE account.positions[i].net
    BY <1>1, <1>4, <1>5
  <2>3. account.positions[m].net = t.net
    BY <1>3
  <2> QED
    BY <1>1, <1>5, <2>1, <2>2, <2>3
<1>19. \A i \in Markets : account'.positions[i].net = 0 => trades'[i] = FlatTrade
  <2>1. ASSUME NEW i \in Markets, account'.positions[i].net = 0, i # m
        PROVE  trades'[i] = FlatTrade
    BY <1>1, <1>4, <1>5, <1>13, <2>1 DEF TradesKept
  <2>2. account'.positions[m].net = net
    BY <1>1, <1>4, <1>5
  <2> QED
    BY <1>1, <1>13, <2>1, <2>2
<1>20. SumFunctionOnSet(newWorth, Markets)
         = SumFunctionOnSet(worth, Markets) - worth[m] + newWorth[m]
  <2>1. IsFiniteSet(Markets)
    BY TripAssumption
  <2>2. newWorth[m] \in Int /\ \A i \in Markets \ {m} : newWorth[i] = worth[i]
    <3>1. trades'[m] \in TradeState
      BY <1>1, <1>15
    <3>2. \A i \in Markets \ {m} : trades'[i] = trades[i]
      BY <1>1, <1>13
    <3>3. newWorth[m] = trades'[m].realized - trades'[m].fees
      BY <1>1
    <3>4. newWorth[m] \in Int
      BY <3>1, <3>3 DEF TradeState
    <3>5. ASSUME NEW i \in Markets \ {m} PROVE newWorth[i] = worth[i]
      BY <3>2, <3>5
    <3> QED
      BY <3>4, <3>5
  <2>3. m \in Markets /\ \A i \in Markets : worth[i] \in Int
    BY <1>1, <1>10
  <2> HIDE DEF newWorth, worth
  <2> QED
    BY <2>1, <2>2, <2>3, SumChange
<1> DEFINE profit == t.realized + gain - (t.fees + f.fee)
<1>21. after.realized - after.fees = profit /\ profit \in Int
  <2>1. after.realized - after.fees = profit
    BY <1>1, <1>5, <1>9
  <2> QED
    BY <1>9, <2>1 DEF TradeState
<1>22. newWorth[m] = IF net = 0 THEN 0 ELSE profit
  <2>1. newWorth[m] = kept.realized - kept.fees
    BY <1>1, <1>13
  <2> HIDE DEF profit
  <2> QED
    BY <1>21, <2>1 DEF FlatTrade
<1>23. SumFunctionOnSet(pnls', DOMAIN pnls')
         = made + IF net = 0 THEN profit ELSE 0
  <2>1. CASE net = 0
    <3> DEFINE n == Len(pnls)
               new == Append(pnls, after.realized - after.fees)
    <3>1. pnls' = new
      BY <1>13, <2>1
    <3>2. /\ n \in Nat /\ DOMAIN pnls = 1..n /\ DOMAIN new = 1..n + 1
          /\ new[n + 1] = after.realized - after.fees
          /\ \A i \in 1..n : pnls[i] = new[i]
      BY <1>1
    <3>3. \A i \in 1..n + 1 : new[i] \in Int
      <4>1. new \in Seq(Int)
        BY <1>16, <3>1
      <4> HIDE DEF new
      <4> QED
        BY <3>2, <4>1
    <3> HIDE DEF n, new
    <3>4. SumFunctionOnSet(new, 1..n + 1) = SumFunctionOnSet(pnls, 1..n) + new[n + 1]
      BY <3>2, <3>3, SumAppend
    <3> HIDE DEF profit
    <3> QED
      BY <1>21, <2>1, <3>1, <3>2, <3>4
  <2>2. CASE net # 0
    BY <1>10, <1>13, <2>2
  <2> QED
    BY <2>1, <2>2
<1>24. SumFunctionOnSet(pnls', DOMAIN pnls') + SumFunctionOnSet(newWorth, Markets)
         = account'.realized - account'.tradingFees
  <2> HIDE DEF made, worth, newWorth, profit
  <2>1. SumFunctionOnSet(pnls', DOMAIN pnls') + SumFunctionOnSet(newWorth, Markets)
          = made + SumFunctionOnSet(worth, Markets) - worth[m] + profit
    BY <1>1, <1>10, <1>21, <1>20, <1>22, <1>23
  <2>2. profit = worth[m] + gain - f.fee
    BY <1>1, <1>5, <1>10 DEF profit
  <2>3. account'.realized - account'.tradingFees
          = (account.realized - account.tradingFees) + gain - f.fee
    BY <1>1, <1>5, <1>12
  <2>4. /\ made \in Int /\ SumFunctionOnSet(worth, Markets) \in Int /\ worth[m] \in Int
        /\ profit \in Int /\ gain \in Int /\ f.fee \in Int
    BY <1>1, <1>5, <1>10, <1>21
  <2> QED
    BY <1>11, <2>1, <2>2, <2>3, <2>4
<1>25. \A i \in Markets \ account'.held : trades'[i] = FlatTrade
  BY <1>18, <1>19
<1>26. TripsAccount'
  BY <1>17, <1>24, <1>25 DEF TripsAccount
<1> QED
  BY <1>15, <1>16, <1>18, <1>19, <1>26 DEF TradesKept

\* A fill keeps the log, the account that is its replay, and the trades.
LEMMA FillKeeps == TripInv /\ Fill => TripInv'
<1> SUFFICES ASSUME TripInv, Fill PROVE TripInv'
  OBVIOUS
<1>1. PICK m \in Markets, side \in {1, -1}, d \in Deals, step \in Steps :
        LET f == [type |-> "Fill", id |-> Len(fills) + 1, complete |-> TRUE,
                  instrument |-> m, side |-> side, price |-> d.price, qty |-> d.qty,
                  fee |-> Charged(d.price, d.qty), ts |-> lastTime + step]
        IN  /\ fills' = Append(fills, f)
            /\ account' = Apply(account, f)
            /\ Tally(f)
            /\ lastTime' = f.ts
  BY DEF Fill
<1> DEFINE f == [type |-> "Fill", id |-> Len(fills) + 1, complete |-> TRUE,
                 instrument |-> m, side |-> side, price |-> d.price, qty |-> d.qty,
                 fee |-> Charged(d.price, d.qty), ts |-> lastTime + step]
           N == Len(fills)
<1>2. fills \in Seq(LogEntries) /\ N \in Nat /\ lastTime \in Int
  BY DEF TripInv, LogKept
<1>3. d.price \in Int /\ d.qty \in Nat \ {0} /\ step \in Nat /\ FeeBps \in Int
  BY TripAssumption
<1>4. Charged(d.price, d.qty) \in Int
  <2>1. Notional(d.price, d.qty) \in Int
    <3>1. d.price \in Int /\ d.qty \in Int
      BY <1>3
    <3> QED
      BY <3>1, NotionalType
  <2> QED
    BY <1>3, <2>1, MulBpsType DEF Charged
<1>5. f \in LogEntries /\ f.ts = lastTime + step /\ f.fee = Charged(f.price, f.qty)
  BY <1>2, <1>3, <1>4 DEF LogEntries
<1>6. fills' = Append(fills, f) /\ account' = Apply(account, f) /\ Tally(f) /\ lastTime' = f.ts
  BY <1>1
<1> HIDE DEF f
<1>7. TradesKept'
  BY <1>5, <1>6, TallyKeeps DEF TripInv
<1>8. account' \in TripAccounts
  BY <1>5, <1>6, EntryBooked DEF TripInv
<1>9. /\ fills' \in Seq(LogEntries) /\ Len(fills') = N + 1 /\ fills'[N + 1] = f
      /\ \A n \in 1..N : fills'[n] = fills[n]
      /\ \A n \in 1..N + 1 : n \in 1..N \/ n = N + 1
  BY <1>2, <1>5, <1>6
<1>10. /\ lastTime' \in Int /\ lastTime <= lastTime'
       /\ \A n \in 1..N : fills[n].ts <= lastTime /\ fills[n].ts \in Int
  <2>1. \A n \in 1..N : fills[n] \in LogEntries
    BY <1>2
  <2>2. \A n \in 1..N : fills[n].ts <= lastTime
    BY DEF TripInv
  <2> QED
    <3>1. lastTime' = lastTime + step /\ step \in Nat
      BY <1>3, <1>5, <1>6
    <3>2. \A n \in 1..N : fills[n].ts \in Int
      BY <2>1 DEF LogEntries
    <3> QED
      BY <1>2, <2>2, <3>1, <3>2
<1>11. \A n \in 1..Len(fills') : fills'[n].ts <= lastTime'
  <2>1. ASSUME NEW n \in 1..N PROVE fills'[n].ts <= lastTime'
    BY <1>2, <1>9, <1>10
  <2>2. fills'[N + 1].ts <= lastTime'
    BY <1>6, <1>9, <1>10
  <2> QED
    BY <1>9, <2>1, <2>2
<1>12. LogKept'
  <2>1. \A n \in 1..N + 1 : fills'[n].fee = Charged(fills'[n].price, fills'[n].qty)
    BY <1>5, <1>9 DEF TripInv, LogKept
  <2>2. ASSUME NEW i \in 1..N + 1, NEW j \in 1..N + 1, i < j
        PROVE  fills'[i].ts <= fills'[j].ts
    <3>1. CASE j \in 1..N
      <4>1. i \in 1..N
        BY <1>2, <2>2, <3>1
      <4> QED
        BY <1>9, <2>2, <3>1, <4>1 DEF TripInv, LogKept
    <3>2. CASE j = N + 1
      <4>1. i \in 1..N /\ fills'[j].ts = lastTime'
        BY <1>2, <1>6, <1>9, <2>2, <3>2
      <4> QED
        BY <1>9, <1>11, <4>1
    <3> QED
      BY <1>9, <3>1, <3>2
  <2> QED
    BY <1>9, <2>1, <2>2 DEF LogKept, Charged
<1>13. account' = Replay(OpenPortfolio(Markets, 0), fills')
  <2> DEFINE p == OpenPortfolio(Markets, 0)
             last == <<f>>
  <2>1. p \in TripAccounts /\ account = Replay(p, fills) /\ account \in TripAccounts
    BY OpenedAccount DEF TripInv
  <2>2. last \in Seq(LogEntries) /\ fills' = fills \o last
    BY <1>2, <1>5, <1>6
  <2>3. Replay(account, last) = Apply(account, f)
    BY <1>5, <2>1, LogReplays, ReplayOne
  <2> HIDE DEF p, last
  <2>4. Replay(p, fills \o last) = Replay(Replay(p, fills), last)
    BY <1>2, <2>1, <2>2, LogReplays, ReplayConcat
  <2> QED
    BY <1>6, <2>1, <2>2, <2>3, <2>4 DEF p
<1> QED
  BY <1>7, <1>8, <1>10, <1>11, <1>12, <1>13 DEF TripInv

\* The replay then matches.
LEMMA ReplayAgrees == TripInv => ReplayMatches
<1> SUFFICES ASSUME TripInv PROVE ReplayMatches
  OBVIOUS
<1> DEFINE p == OpenPortfolio(Markets, 0)
           again == [k \in DOMAIN SortedTrades |->
                       [SortedTrades[k] EXCEPT !.fee = Charged(SortedTrades[k].price,
                                                               SortedTrades[k].qty)]]
<1>1. p \in TripAccounts /\ p.tradingFees = 0 /\ account = Replay(p, fills)
  BY OpenedAccount DEF TripInv, OpenPortfolio
<1>2. again \in Seq(LogEntries) /\ \E order : Reorders(fills, order, again)
  BY SortReorders DEF TripInv
<1>3. fills \in Seq(LogEntries)
  BY DEF TripInv, LogKept
<1>4. Replayed = Replay(p, again)
  BY DEF Replayed
<1> HIDE DEF p, again
<1>5. /\ Replay(p, again).realized = Replay(p, fills).realized
      /\ Replay(p, again).tradingFees
           = p.tradingFees + SumFunctionOnSet([n \in DOMAIN fills |-> fills[n].fee], DOMAIN fills)
  BY <1>1, <1>2, <1>3, ReorderedReplay
<1>6. SumFunctionOnSet([n \in DOMAIN fills |-> fills[n].fee], DOMAIN fills) \in Int
  <2> DEFINE fee == [n \in DOMAIN fills |-> fills[n].fee]
  <2>1. DOMAIN fills = 1..Len(fills) /\ Len(fills) \in Nat
    BY <1>3
  <2>2. \A n \in Nat : IsFiniteSet(1..n)
    BY FS_Interval
  <2>3. \A n \in DOMAIN fills : fee[n] \in Int
    <3>1. \A n \in DOMAIN fills : fills[n] \in LogEntries
      BY <1>3
    <3> QED
      BY <3>1 DEF LogEntries
  <2> HIDE DEF fee
  <2>4. SumFunctionOnSet(fee, DOMAIN fills) \in Int
    BY <2>1, <2>2, <2>3, SumType
  <2> QED
    BY <2>4 DEF fee
<1> QED
  BY <1>1, <1>4, <1>5, <1>6 DEF ReplayMatches

\* After the run the log tells the same as the account, whatever was traded
\* (TradeStats::from_fills, replay_trades, diff_reports).
THEOREM LogTellsTheAccount == TripSpec => []TripsReconcile
<1>1. TripInit => TripInv
  BY TripInitInv
<1>2. TripInv /\ [Fill]_tripVars => TripInv'
  <2> SUFFICES ASSUME TripInv, [Fill]_tripVars PROVE TripInv'
    OBVIOUS
  <2>1. CASE Fill
    BY <2>1, FillKeeps
  <2>2. CASE UNCHANGED tripVars
    BY <2>2 DEF tripVars, TripInv, LogKept, TradesKept, TripsAccount
  <2> QED
    BY <2>1, <2>2
<1>3. TripInv => TripsReconcile
  BY ReplayAgrees DEF TripsReconcile, TripInv, TradesKept
<1> QED
  BY <1>1, <1>2, <1>3, PTL DEF TripSpec

-----------------------------------------------------------------------------
(* The monotonic deques                                                     *)

Entries == [place : Nat, value : Int]

\* A deque is popped at the back down to the last entry that stays ...
LEMMA PoppedBack ==
  ASSUME NEW q \in Seq(Entries), NEW dropped
  PROVE  \E m \in 0..Len(q) :
           /\ PopBack(q, dropped) = SubSeq(q, 1, m)
           /\ m > 0 => m \notin dropped
           /\ \A i \in 1..Len(q) : m < i => i \in dropped
<1> DEFINE S == {0} \cup (DOMAIN q \ dropped)
<1>1. Len(q) \in Nat /\ DOMAIN q = 1..Len(q)
  OBVIOUS
<1>2. S \in SUBSET (0..Len(q)) /\ S # {}
  BY <1>1
<1>3. \A i \in 1..Len(q) : i \in S \/ i \in dropped
  BY <1>1
<1>4. Max(S) > 0 /\ Max(S) \in S => Max(S) \notin dropped
  OBVIOUS
<1>5. PopBack(q, dropped) = SubSeq(q, 1, Max(S))
  BY DEF PopBack
<1> HIDE DEF S
<1>6. Max(S) \in S /\ \A y \in S : y <= Max(S)
  BY <1>1, <1>2, Extremes
<1>7. Max(S) \in 0..Len(q)
  BY <1>2, <1>6
<1>8. \A i \in 1..Len(q) : Max(S) < i => i \in dropped
  BY <1>1, <1>3, <1>6, <1>7
<1> QED
  BY <1>4, <1>5, <1>6, <1>7, <1>8

\* ... and at the front up to the first.
LEMMA PoppedFront ==
  ASSUME NEW q \in Seq(Entries), NEW dropped
  PROVE  \E k \in 1..Len(q) + 1 :
           /\ PopFront(q, dropped) = SubSeq(q, k, Len(q))
           /\ k <= Len(q) => k \notin dropped
           /\ \A i \in 1..Len(q) : i < k => i \in dropped
<1> DEFINE S == {Len(q) + 1} \cup (DOMAIN q \ dropped)
<1>1. Len(q) \in Nat /\ DOMAIN q = 1..Len(q)
  OBVIOUS
<1>2. S \in SUBSET (0..Len(q) + 1) /\ S # {} /\ S \subseteq 1..Len(q) + 1
  BY <1>1
<1>3. \A i \in 1..Len(q) : i \in S \/ i \in dropped
  BY <1>1
<1>4. Min(S) <= Len(q) /\ Min(S) \in S => Min(S) \notin dropped
  BY <1>1
<1>5. PopFront(q, dropped) = SubSeq(q, Min(S), Len(q))
  BY DEF PopFront
<1> HIDE DEF S
<1>6. Min(S) \in S /\ \A y \in S : Min(S) <= y
  <2>1. Len(q) + 1 \in Nat
    BY <1>1
  <2> QED
    BY <1>2, <2>1, Extremes
<1>7. Min(S) \in 1..Len(q) + 1
  BY <1>2, <1>6
<1>8. \A i \in 1..Len(q) : i < Min(S) => i \in dropped
  BY <1>1, <1>3, <1>6, <1>7
<1> QED
  BY <1>4, <1>5, <1>6, <1>7, <1>8

\* Two values are compared by <= for the maximum, and by >= for the minimum.
Ranks(R) ==
  /\ \A x, y \in Int : <<x, y>> \in R \/ <<y, x>> \in R
  /\ \A x, y, z \in Int : <<x, y>> \in R /\ <<y, z>> \in R => <<x, z>> \in R

\* A deque over a window of the inputs c: its entries are inputs that are still in
\* the window, from the most extreme to the last, and each input in the window has
\* an entry as extreme and no older.
DequeKept(q, c, p, R) ==
  /\ q \in Seq(Entries)
  /\ \A i \in 1..Len(q) :
       /\ q[i].place < Len(c) /\ Len(c) <= q[i].place + p
       /\ q[i].value = c[q[i].place + 1]
  /\ \A i, j \in 1..Len(q) : i < j => q[i].place < q[j].place /\ <<q[j].value, q[i].value>> \in R
  /\ \A n \in 1..Len(c) : Len(c) < n + p =>
       \E i \in 1..Len(q) : n <= q[i].place + 1 /\ <<c[n], q[i].value>> \in R

\* A deque that takes in an input keeps each entry that beats all after it.
LEMMA DequeStep ==
  ASSUME NEW c \in Seq(Int), NEW x \in Int, NEW p \in Nat \ {0}, NEW R, Ranks(R),
         NEW r, r.count = Len(c), DequeKept(r.deque, c, p, R),
         NEW beaten, beaten = {n \in DOMAIN r.deque : <<r.deque[n].value, x>> \in R}
  PROVE  /\ RollingUpdate(r, x, p, beaten).count = Len(Append(c, x))
         /\ DequeKept(RollingUpdate(r, x, p, beaten).deque, Append(c, x), p, R)
<1> DEFINE q == r.deque
           N == Len(c)
           e == [place |-> N, value |-> x]
           pushed == Append(PopBack(q, beaten), e)
           expired == {n \in DOMAIN pushed : SlidOut(pushed[n].place, N, p)}
           left == PopFront(pushed, expired)
           d == Append(c, x)
<1>1. RollingUpdate(r, x, p, beaten) = [count |-> N + 1, deque |-> left]
  BY DEF RollingUpdate
<1>2. N \in Nat /\ Len(d) = N + 1 /\ d[N + 1] = x /\ \A n \in 1..N : d[n] = c[n] /\ c[n] \in Int
  OBVIOUS
<1>3. q \in Seq(Entries) /\ Len(q) \in Nat /\ \A i \in 1..Len(q) : q[i] \in Entries
  BY DEF DequeKept
<1>b. \A i \in 1..Len(q) : i \in beaten <=> <<q[i].value, x>> \in R
  BY <1>3
<1>c. \A i \in 1..Len(q) :
        q[i].place < N /\ N <= q[i].place + p /\ q[i].value = c[q[i].place + 1]
  BY DEF DequeKept
<1>d. \A i, j \in 1..Len(q) :
        i < j => q[i].place < q[j].place /\ <<q[j].value, q[i].value>> \in R
  BY DEF DequeKept
<1>e. \A n \in 1..N : N < n + p =>
        \E i \in 1..Len(q) : n <= q[i].place + 1 /\ <<c[n], q[i].value>> \in R
  BY DEF DequeKept
<1>f. /\ \A y, z \in Int : <<y, z>> \in R \/ <<z, y>> \in R
      /\ \A v, y, z \in Int : <<v, y>> \in R /\ <<y, z>> \in R => <<v, z>> \in R
  BY DEF Ranks
<1>4. PICK m \in 0..Len(q) :
        /\ PopBack(q, beaten) = SubSeq(q, 1, m)
        /\ m > 0 => m \notin beaten
        /\ \A i \in 1..Len(q) : m < i => i \in beaten
  <2> HIDE DEF q
  <2> QED
    BY <1>3, PoppedBack
<1>5. e \in Entries /\ e.place = N /\ e.value = x
  BY <1>2 DEF Entries
<1>6. /\ pushed \in Seq(Entries) /\ Len(pushed) = m + 1 /\ pushed[m + 1] = e
      /\ \A i \in 1..m : pushed[i] = q[i]
      /\ DOMAIN pushed = 1..m + 1
  <2> DEFINE b == SubSeq(q, 1, m)
  <2> HIDE DEF q, e
  <2>1. b \in Seq(Entries) /\ Len(b) = m /\ \A i \in 1..m : b[i] = q[i]
    BY <1>3, <1>4
  <2> HIDE DEF b
  <2>2. /\ Append(b, e) \in Seq(Entries) /\ Len(Append(b, e)) = m + 1 /\ Append(b, e)[m + 1] = e
        /\ \A i \in 1..m : Append(b, e)[i] = b[i]
    BY <1>5, <2>1
  <2>3. pushed = Append(b, e)
    BY <1>4 DEF b
  <2> HIDE DEF pushed
  <2>4. \A i \in 1..m : i \in 1..m + 1
    OBVIOUS
  <2>5. DOMAIN Append(b, e) = 1..m + 1
    BY <2>2
  <2> QED
    BY <2>1, <2>2, <2>3, <2>5
<1> HIDE DEF q, pushed
<1>a. m \in Nat /\ m <= Len(q) /\ m + 1 \in 1..m + 1 /\ \A i \in 1..m : i \in 1..m + 1 /\ i \in 1..Len(q)
  BY <1>3
<1>7. PICK k \in 1..m + 2 :
        /\ left = SubSeq(pushed, k, m + 1)
        /\ k <= m + 1 => k \notin expired
        /\ \A i \in 1..m + 1 : i < k => i \in expired
  <2>1. Len(pushed) + 1 = m + 2
    BY <1>a, <1>6
  <2> HIDE DEF expired
  <2> QED
    BY <1>6, <2>1, PoppedFront
<1>8. \A i \in 1..m + 1 : i \in expired <=> pushed[i].place + p <= N
  BY <1>6 DEF SlidOut
<1>9. k \in 1..m + 1
  <2>1. m + 1 \notin expired
    BY <1>2, <1>a, <1>5, <1>6, <1>8
  <2> HIDE DEF expired
  <2> QED
    BY <1>a, <1>7, <2>1
<1> DEFINE M == m + 2 - k
<1>10. /\ left \in Seq(Entries) /\ Len(left) = M
       /\ \A i \in 1..M : k - 1 + i \in 1..m + 1 /\ left[i] = pushed[k - 1 + i]
       /\ M \in Nat
  <2> HIDE DEF left
  <2> QED
    BY <1>a, <1>6, <1>7, <1>9
<1> HIDE DEF left, expired, M, e, d, N
<1>g. N \in Nat /\ m \in Nat /\ k \in Nat /\ k <= m + 1 /\ M = m + 2 - k
  BY <1>2, <1>a, <1>9 DEF M
<1>11. \A i \in 1..m + 1 : pushed[i] \in Entries /\ pushed[i].place \in Nat /\ pushed[i].value \in Int
  <2>1. \A i \in 1..m + 1 : pushed[i] \in Entries
    BY <1>6
  <2> QED
    BY <2>1 DEF Entries
<1>12. \A i \in 1..m :
         /\ i \in 1..Len(q) /\ pushed[i].place < N /\ N <= pushed[i].place + p
         /\ pushed[i].value = c[pushed[i].place + 1]
  BY <1>a, <1>c, <1>6
<1>13. ASSUME NEW i \in 1..m PROVE <<x, pushed[i].value>> \in R
  <2>1. m \in 1..Len(q) /\ m \notin beaten /\ q[m] = pushed[m] /\ m \in 1..m + 1 /\ i \in 1..m + 1
    BY <1>a, <1>4, <1>6
  <2>2. <<pushed[m].value, x>> \notin R
    BY <1>b, <2>1
  <2>3. <<x, pushed[m].value>> \in R
    BY <1>11, <1>f, <2>1, <2>2
  <2>4. i = m \/ <<pushed[m].value, pushed[i].value>> \in R
    <3>1. i \in 1..Len(q) /\ q[i] = pushed[i] /\ (i = m \/ i < m)
      BY <1>6, <1>12, <2>1
    <3> QED
      BY <1>d, <2>1, <3>1
  <2>5. pushed[m].value \in Int /\ pushed[i].value \in Int
    BY <1>11, <2>1
  <2> QED
    BY <1>f, <2>3, <2>4, <2>5
<1>14. ASSUME NEW i \in 1..m + 1, NEW j \in 1..m + 1, i < j
       PROVE  pushed[i].place < pushed[j].place /\ <<pushed[j].value, pushed[i].value>> \in R
  <2>1. CASE j = m + 1
    <3>1. i \in 1..m
      BY <1>a, <1>14, <2>1
    <3>2. pushed[j].place = N /\ pushed[j].value = x
      BY <1>5, <1>6, <2>1
    <3> QED
      BY <1>12, <1>13, <3>1, <3>2
  <2>2. CASE j # m + 1
    <3>1. i \in 1..m /\ j \in 1..m
      BY <1>a, <1>14, <2>2
    <3>2. i \in 1..Len(q) /\ j \in 1..Len(q) /\ pushed[i] = q[i] /\ pushed[j] = q[j]
      BY <1>6, <1>12, <3>1
    <3> QED
      BY <1>14, <1>d, <3>2
  <2> QED
    BY <2>1, <2>2
<1>15. ASSUME NEW i \in 1..M
       PROVE  /\ left[i].place < N + 1 /\ N + 1 <= left[i].place + p
              /\ left[i].value = d[left[i].place + 1]
  <2> DEFINE l == k - 1 + i
  <2>1. l \in 1..m + 1 /\ left[i] = pushed[l] /\ k <= l
    <3>1. l \in 1..m + 1 /\ left[i] = pushed[l]
      BY <1>10
    <3>2. k <= l
      BY <1>g
    <3> QED
      BY <3>1, <3>2
  <2> HIDE DEF l
  <2>2. ~(pushed[l].place + p <= N)
    <3>1. k \in 1..m + 1 /\ ~(pushed[k].place + p <= N)
      BY <1>7, <1>8, <1>9
    <3>2. k = l \/ pushed[k].place < pushed[l].place
      <4>1. k \in Int /\ l \in Int
        BY <1>9, <2>1
      <4>2. k = l \/ k < l
        BY <2>1, <4>1
      <4> QED
        BY <1>14, <2>1, <3>1, <4>2
    <3>3. PICK a \in Nat, b \in Nat : a = pushed[k].place /\ b = pushed[l].place
      BY <1>11, <2>1, <3>1
    <3>4. a <= b
      BY <3>2, <3>3
    <3>5. ~(a + p <= N)
      BY <3>1, <3>3
    <3>6. ~(b + p <= N)
      BY <1>g, <3>4, <3>5
    <3> QED
      BY <3>3, <3>6
  <2>a. PICK spot \in Nat : spot = pushed[l].place
    BY <1>11, <2>1
  <2>b. N + 1 <= spot + p
    <3>1. ~(spot + p <= N)
      BY <2>2, <2>a
    <3> QED
      BY <1>g, <3>1
  <2>3. N + 1 <= pushed[l].place + p
    BY <2>a, <2>b
  <2>4. CASE l = m + 1
    BY <1>2, <1>5, <1>6, <2>1, <2>3, <2>4
  <2>5. CASE l # m + 1
    <3>1. l \in 1..m
      BY <1>a, <2>1, <2>5
    <3>a. spot < N
      BY <1>12, <2>a, <3>1
    <3>b. spot + 1 \in 1..N /\ spot < N + 1
      BY <1>g, <3>a
    <3>2. pushed[l].place + 1 \in 1..N
      BY <2>a, <3>b
    <3>3. pushed[l].place < N + 1 /\ d[pushed[l].place + 1] = c[pushed[l].place + 1]
      <4>1. d[pushed[l].place + 1] = c[pushed[l].place + 1]
        BY <1>2, <3>2
      <4> QED
        BY <2>a, <3>b, <4>1
    <3> QED
      BY <1>12, <2>1, <2>3, <3>1, <3>3
  <2> QED
    BY <2>4, <2>5
<1>16. ASSUME NEW i \in 1..M, NEW j \in 1..M, i < j
       PROVE  left[i].place < left[j].place /\ <<left[j].value, left[i].value>> \in R
  <2>1. k - 1 + i \in 1..m + 1 /\ k - 1 + j \in 1..m + 1
    BY <1>10
  <2>a. k - 1 + i < k - 1 + j
    <3>1. k \in Int /\ i \in Int /\ j \in Int
      BY <1>9, <1>10
    <3> QED
      BY <1>16, <3>1
  <2>2. left[i] = pushed[k - 1 + i] /\ left[j] = pushed[k - 1 + j]
    BY <1>10
  <2> QED
    BY <1>14, <2>1, <2>a, <2>2
<1>17. ASSUME NEW n \in 1..N + 1, N + 1 < n + p
       PROVE  \E i \in 1..M : n <= left[i].place + 1 /\ <<d[n], left[i].value>> \in R
  <2>1. PICK l \in 1..m + 1 : n <= pushed[l].place + 1 /\ <<d[n], pushed[l].value>> \in R
    <3>1. CASE n = N + 1
      <4>1. m + 1 \in 1..m + 1 /\ <<x, x>> \in R
        BY <1>a, <1>f
      <4>2. pushed[m + 1].place = N /\ pushed[m + 1].value = x
        BY <1>5, <1>6
      <4>3. n <= N + 1 /\ d[n] = x
        BY <1>2, <3>1
      <4> QED
        BY <4>1, <4>2, <4>3
    <3>2. CASE n # N + 1
      <4>1. n \in 1..N /\ N < n + p /\ d[n] = c[n] /\ c[n] \in Int
        BY <1>2, <1>17, <3>2
      <4>2. PICK a \in 1..Len(q) : n <= q[a].place + 1 /\ <<c[n], q[a].value>> \in R
        BY <1>e, <4>1
      <4>3. CASE a \in 1..m
        <5>1. a \in 1..m + 1 /\ pushed[a] = q[a]
          BY <1>a, <1>6, <4>3
        <5> QED
          BY <4>1, <4>2, <5>1
      <4>4. CASE a \notin 1..m
        <5>1. m < a /\ a \in beaten
          BY <1>a, <1>4, <4>4
        <5>2. <<q[a].value, x>> \in R /\ q[a].value \in Int
          BY <1>3, <1>b, <5>1 DEF Entries
        <5>3. <<c[n], x>> \in R
          BY <1>f, <4>1, <4>2, <5>2
        <5>4. m + 1 \in 1..m + 1 /\ n <= N + 1
          BY <1>2, <1>a, <4>1
        <5> QED
          BY <1>5, <1>6, <4>1, <5>3, <5>4
      <4> QED
        BY <4>3, <4>4
    <3> QED
      BY <3>1, <3>2
  <2>2. ~(pushed[l].place + p <= N)
    <3>1. PICK spot \in Nat : spot = pushed[l].place
      BY <1>11, <2>1
    <3>2. n <= spot + 1
      BY <2>1, <3>1
    <3>3. ~(spot + p <= N)
      BY <1>g, <1>17, <3>2
    <3> QED
      BY <3>1, <3>3
  <2>3. k <= l
    BY <1>7, <1>8, <1>9, <2>1, <2>2
  <2>4. l - k + 1 \in 1..M /\ left[l - k + 1] = pushed[l]
    <3>1. l - k + 1 \in 1..M
      BY <1>g, <2>3
    <3>2. k - 1 + (l - k + 1) = l
      BY <1>g
    <3> QED
      BY <1>10, <3>1, <3>2
  <2> QED
    BY <2>1, <2>4
<1>18. DequeKept(left, d, p, R)
  <2>1. /\ left \in Seq(Entries)
        /\ \A i \in 1..M : /\ left[i].place < N + 1 /\ N + 1 <= left[i].place + p
                           /\ left[i].value = d[left[i].place + 1]
        /\ \A i, j \in 1..M :
             i < j => left[i].place < left[j].place /\ <<left[j].value, left[i].value>> \in R
        /\ \A n \in 1..N + 1 : N + 1 < n + p =>
             \E i \in 1..M : n <= left[i].place + 1 /\ <<d[n], left[i].value>> \in R
    BY <1>10, <1>15, <1>16, <1>17
  <2>2. Len(left) = M /\ Len(d) = N + 1
    BY <1>2, <1>10
  <2> HIDE DEF Entries
  <2> QED
    BY <2>1, <2>2 DEF DequeKept
<1> QED
  BY <1>1, <1>2, <1>18 DEF N, d

\* The front entry is the most extreme of the window.
LEMMA DequeFront ==
  ASSUME NEW c \in Seq(Int), NEW p \in Nat \ {0}, NEW R, Ranks(R),
         NEW q, DequeKept(q, c, p, R), Len(c) > 0
  PROVE  /\ \E n \in 1..Len(c) : Len(c) < n + p /\ Head(q).value = c[n]
         /\ \A n \in 1..Len(c) : Len(c) < n + p => <<c[n], Head(q).value>> \in R
<1>1. Len(c) \in Nat /\ Len(q) \in Nat /\ \A n \in 1..Len(c) : c[n] \in Int
  BY DEF DequeKept
<1>2. Len(c) \in 1..Len(c) /\ Len(c) < Len(c) + p
  <2> DEFINE N == Len(c)
  <2>1. N \in Nat /\ N > 0
    BY <1>1
  <2> HIDE DEF N
  <2>2. N \in 1..N /\ N < N + p
    BY <2>1
  <2> QED
    BY <2>2 DEF N
<1>3. q \in Seq(Entries) /\ \A i \in 1..Len(q) : q[i].place \in Nat /\ q[i].value \in Int
  <2>1. q \in Seq(Entries)
    BY DEF DequeKept
  <2>2. \A i \in 1..Len(q) : q[i] \in Entries
    BY <2>1
  <2> QED
    BY <2>1, <2>2 DEF Entries
<1>4. 1 \in 1..Len(q) /\ Head(q) = q[1]
  <2>1. Len(q) > 0
    <3>1. \E i \in 1..Len(q) : TRUE
      BY <1>2 DEF DequeKept
    <3> QED
      BY <1>1, <3>1
  <2>2. q # << >>
    BY <2>1
  <2> QED
    BY <1>1, <1>3, <2>1, <2>2
<1>5. q[1].place + 1 \in 1..Len(c) /\ Len(c) < (q[1].place + 1) + p /\ q[1].value = c[q[1].place + 1]
  <2>1. /\ q[1].place < Len(c) /\ Len(c) <= q[1].place + p
        /\ q[1].value = c[q[1].place + 1]
    BY <1>4 DEF DequeKept
  <2>2. PICK spot \in Nat : spot = q[1].place
    BY <1>3, <1>4
  <2>3. spot < Len(c) /\ Len(c) <= spot + p
    BY <2>1, <2>2
  <2>4. spot + 1 \in 1..Len(c) /\ Len(c) < (spot + 1) + p
    BY <1>1, <2>3
  <2> QED
    BY <2>1, <2>2, <2>4
<1>6. ASSUME NEW n \in 1..Len(c), Len(c) < n + p PROVE <<c[n], q[1].value>> \in R
  <2>1. PICK i \in 1..Len(q) : n <= q[i].place + 1 /\ <<c[n], q[i].value>> \in R
    BY <1>6 DEF DequeKept
  <2>2. i = 1 \/ <<q[i].value, q[1].value>> \in R
    <3>1. i = 1 \/ 1 < i
      BY <1>1, <1>4
    <3> QED
      BY <1>4, <3>1 DEF DequeKept
  <2> QED
    BY <1>1, <1>3, <1>4, <2>1, <2>2 DEF Ranks
<1> QED
  BY <1>4, <1>5, <1>6

-----------------------------------------------------------------------------
(* Arithmetic of the averages                                               *)

\* A larger factor makes a larger product.
LEMMA TimesGrows ==
  ASSUME NEW a \in Int, NEW b \in Int, NEW d \in Nat, a <= b
  PROVE  d * a \in Int /\ d * b \in Int /\ d * a <= d * b
<1>1. b - a \in Nat
  OBVIOUS
<1>2. d * (b - a) \in Nat
  BY <1>1
<1>3. d * b = d * a + d * (b - a)
  OBVIOUS
<1>4. d * a \in Int /\ d * b \in Int
  OBVIOUS
<1> QED
  BY <1>2, <1>3, <1>4

\* A quotient, truncated, lies where the dividend does.
LEMMA QuotientBetween ==
  ASSUME NEW n \in Int, NEW d \in Nat \ {0}, NEW lo \in Int, NEW hi \in Int,
         d * lo <= n, n <= d * hi
  PROVE  TruncDiv(n, d) \in Int /\ lo <= TruncDiv(n, d) /\ TruncDiv(n, d) <= hi
<1>1. ASSUME NEW m \in Int, NEW k \in Int
      PROVE  /\ m \div d \in Int
             /\ d * k <= m => k <= m \div d
             /\ m <= d * k => m \div d <= k
  <2> DEFINE z == m \div d
  <2>1. z \in Int /\ d * z <= m /\ m < d * (z + 1)
    <3>1. z \in Int /\ d * z <= m /\ m < d * z + d
      OBVIOUS
    <3>2. d * (z + 1) = d * z + d
      BY <3>1
    <3> QED
      BY <3>1, <3>2
  <2> HIDE DEF z
  <2>2. d * k \in Int /\ d * z \in Int /\ d * (z + 1) \in Int
    BY <2>1
  <2>3. ASSUME d * k <= m, ~(k <= z) PROVE FALSE
    <3>1. z + 1 \in Int /\ z + 1 <= k
      BY <2>1, <2>3
    <3>2. d * (z + 1) <= d * k
      BY <3>1, TimesGrows
    <3> QED
      BY <2>1, <2>2, <2>3, <3>2
  <2>4. ASSUME m <= d * k, ~(z <= k) PROVE FALSE
    <3>1. k + 1 \in Int /\ k + 1 <= z
      BY <2>1, <2>4
    <3>2. d * (k + 1) <= d * z /\ d * (k + 1) = d * k + d
      BY <2>1, <3>1, TimesGrows
    <3> QED
      BY <2>1, <2>2, <2>4, <3>2
  <2> QED
    BY <2>1, <2>3, <2>4 DEF z
<1>2. CASE n >= 0
  BY <1>1, <1>2 DEF TruncDiv
<1>3. CASE n < 0
  <2>1. -n \in Int /\ -lo \in Int /\ -hi \in Int
    OBVIOUS
  <2>2. d * (-lo) = -(d * lo) /\ d * (-hi) = -(d * hi) /\ d * lo \in Int /\ d * hi \in Int
    OBVIOUS
  <2>3. -n <= d * (-lo) /\ d * (-hi) <= -n
    BY <2>2
  <2>4. (-n) \div d \in Int /\ (-n) \div d <= -lo /\ -hi <= (-n) \div d
    BY <1>1, <2>1, <2>3
  <2> QED
    BY <1>3, <2>4 DEF TruncDiv
<1> QED
  BY <1>2, <1>3

\* The square root of a natural number, rounded down.
LEMMA RootFacts ==
  ASSUME NEW n \in Nat
  PROVE  Root(n) \in Nat /\ Root(n) * Root(n) <= n
<1> DEFINE S == {r \in Nat : n < (r + 1) * (r + 1)}
<1>1. n \in S
  <2>1. (n + 1) * (n + 1) = n * n + 2 * n + 1 /\ n * n \in Nat
    OBVIOUS
  <2> QED
    BY <2>1
<1>2. PICK r \in S : \A y \in S : r <= y
  <2> HIDE DEF S
  <2>1. S \subseteq Nat
    BY DEF S
  <2> QED
    BY <1>1, <2>1, LeastNat
<1>3. r \in Nat /\ n < (r + 1) * (r + 1)
  OBVIOUS
<1>4. r * r <= n
  <2>1. CASE r = 0
    BY <2>1
  <2>2. CASE r # 0
    <3>1. r - 1 \in Nat /\ r - 1 \notin S
      BY <1>2, <1>3, <2>2
    <3>2. ~(n < (r - 1 + 1) * (r - 1 + 1)) /\ r - 1 + 1 = r /\ r * r \in Nat
      BY <1>3, <3>1
    <3> QED
      BY <3>2
  <2> QED
    BY <2>1, <2>2
<1>5. r \in 0..n
  <2>1. CASE r = 0
    BY <2>1
  <2>2. CASE r # 0
    <3>1. r * 1 <= r * r /\ r * 1 = r /\ r * r \in Int
      BY <1>3, <2>2, TimesGrows
    <3> QED
      BY <1>3, <1>4, <3>1
  <2> QED
    BY <2>1, <2>2
<1> QED
  <2>1. \E q \in 0..n : q * q <= n /\ n < (q + 1) * (q + 1)
    BY <1>3, <1>4, <1>5
  <2>2. Root(n) \in 0..n /\ Root(n) * Root(n) <= n
    BY <2>1 DEF Root
  <2> QED
    BY <2>2

-----------------------------------------------------------------------------
(* The averages                                                             *)

Readings == {NoReading} \cup {<<v>> : v \in Int}

\* A running sum of as many inputs as are counted lies among them, as do their
\* average and what it is smoothed with.
Amid(sum, count, reading, s) ==
  \A lo, hi \in Int :
    (\A n \in 1..Len(s) : lo <= s[n] /\ s[n] <= hi) =>
      /\ reading = NoReading => count * lo <= sum /\ sum <= count * hi
      /\ reading # NoReading => lo <= Head(reading) /\ Head(reading) <= hi

\* A reading is none, or one number.
LEMMA ReadingCases ==
  /\ \A v : <<v>> # NoReading /\ Head(<<v>>) = v
  /\ \A r \in Readings : r # NoReading => Head(r) \in Int /\ r = <<Head(r)>>
  BY DEF Readings, NoReading

\* What a sequence is after an Append.
LEMMA AppendFacts ==
  ASSUME NEW S, NEW s \in Seq(S), NEW x \in S
  PROVE  /\ Append(s, x) \in Seq(S) /\ Len(Append(s, x)) = Len(s) + 1 /\ Len(s) \in Nat
         /\ Append(s, x)[Len(s) + 1] = x
         /\ \A n \in 1..Len(s) : Append(s, x)[n] = s[n]
         /\ \A n \in 1..Len(s) + 1 : Append(s, x)[n] \in S
  OBVIOUS

\* One more input in the sum, and the average of the first ones.
LEMMA AmidSeed ==
  ASSUME NEW s \in Seq(Int), NEW x \in Int, NEW sum \in Int, NEW count \in Nat,
         Amid(sum, count, NoReading, s)
  PROVE  /\ Amid(sum + x, count + 1, NoReading, Append(s, x))
         /\ TruncDiv(sum + x, count + 1) \in Int
         /\ Amid(sum + x, count + 1, <<TruncDiv(sum + x, count + 1)>>, Append(s, x))
<1> DEFINE t == Append(s, x)
<1>1. /\ Len(t) = Len(s) + 1 /\ Len(s) \in Nat /\ t[Len(s) + 1] = x
      /\ \A n \in 1..Len(s) : t[n] = s[n]
  BY AppendFacts
<1>2. TruncDiv(sum + x, count + 1) \in Int
  BY TruncDivType
<1> HIDE DEF t
<1>3. ASSUME NEW lo \in Int, NEW hi \in Int, \A n \in 1..Len(t) : lo <= t[n] /\ t[n] <= hi
      PROVE  (count + 1) * lo <= sum + x /\ sum + x <= (count + 1) * hi
  <2>1. \A n \in 1..Len(s) : lo <= s[n] /\ s[n] <= hi
    BY <1>1, <1>3
  <2>2. count * lo <= sum /\ sum <= count * hi
    BY <2>1 DEF Amid
  <2>3. lo <= x /\ x <= hi
    BY <1>1, <1>3
  <2>4. /\ (count + 1) * lo = count * lo + lo /\ (count + 1) * hi = count * hi + hi
        /\ count * lo \in Int /\ count * hi \in Int
    OBVIOUS
  <2> QED
    BY <2>2, <2>3, <2>4
<1>4. ASSUME NEW lo \in Int, NEW hi \in Int, \A n \in 1..Len(t) : lo <= t[n] /\ t[n] <= hi
      PROVE  lo <= TruncDiv(sum + x, count + 1) /\ TruncDiv(sum + x, count + 1) <= hi
  <2>1. (count + 1) * lo <= sum + x /\ sum + x <= (count + 1) * hi
    BY <1>3, <1>4
  <2>2. sum + x \in Int /\ count + 1 \in Nat \ {0}
    OBVIOUS
  <2> QED
    BY <2>1, <2>2, QuotientBetween
<1> QED
  BY <1>2, <1>3, <1>4, ReadingCases DEF Amid, t

\* A reading moved towards the next input, but not past it.
LEMMA AmidMoved ==
  ASSUME NEW s \in Seq(Int), NEW x \in Int, NEW sum, NEW count, NEW other, NEW second,
         NEW v \in Int, NEW w \in Int, Amid(sum, count, <<v>>, s),
         \A lo, hi \in Int : lo <= v /\ v <= hi /\ lo <= x /\ x <= hi => lo <= w /\ w <= hi
  PROVE  Amid(other, second, <<w>>, Append(s, x))
<1> DEFINE t == Append(s, x)
<1>1. /\ Len(t) = Len(s) + 1 /\ Len(s) \in Nat /\ t[Len(s) + 1] = x
      /\ \A n \in 1..Len(s) : t[n] = s[n]
  BY AppendFacts
<1> HIDE DEF t
<1>2. ASSUME NEW lo \in Int, NEW hi \in Int, \A n \in 1..Len(t) : lo <= t[n] /\ t[n] <= hi
      PROVE  lo <= w /\ w <= hi
  <2>1. \A n \in 1..Len(s) : lo <= s[n] /\ s[n] <= hi
    BY <1>1, <1>2
  <2>2. lo <= v /\ v <= hi
    BY <2>1, ReadingCases DEF Amid
  <2>3. lo <= x /\ x <= hi
    BY <1>1, <1>2
  <2> QED
    BY <2>2, <2>3
<1> QED
  BY <1>2, ReadingCases DEF Amid, t

\* The exponential average moves two parts in period + 1.
LEMMA EmaMoves ==
  ASSUME NEW v \in Int, NEW x \in Int, NEW p \in Nat \ {0}
  PROVE  /\ v + TruncDiv((x - v) * 2, p + 1) \in Int
         /\ \A lo, hi \in Int : lo <= v /\ v <= hi /\ lo <= x /\ x <= hi =>
              /\ lo <= v + TruncDiv((x - v) * 2, p + 1)
              /\ v + TruncDiv((x - v) * 2, p + 1) <= hi
<1> DEFINE d == x - v
           q == TruncDiv(d * 2, p + 1)
<1>1. d \in Int /\ d * 2 \in Int /\ p + 1 \in Nat \ {0} /\ (p + 1) * d = p * d + d /\ p * d \in Int
  OBVIOUS
<1>2. CASE d >= 0
  <2>1. d \in Nat /\ d * 1 <= d * p /\ d * p = p * d /\ d * 1 = d
    BY <1>1, <1>2, TimesGrows
  <2>2. (p + 1) * 0 <= d * 2 /\ d * 2 <= (p + 1) * d
    BY <1>1, <1>2, <2>1
  <2>3. q \in Int /\ 0 <= q /\ q <= d
    BY <1>1, <2>2, QuotientBetween
  <2> HIDE DEF q
  <2> QED
    BY <2>3 DEF q
<1>3. CASE d < 0
  <2>1. -d \in Nat /\ (-d) * 1 <= (-d) * p /\ (-d) * p = -(p * d) /\ (-d) * 1 = -d
    BY <1>1, <1>3, TimesGrows
  <2>2. (p + 1) * d <= d * 2 /\ d * 2 <= (p + 1) * 0
    BY <1>1, <1>3, <2>1
  <2>3. q \in Int /\ d <= q /\ q <= 0
    BY <1>1, <2>2, QuotientBetween
  <2> HIDE DEF q
  <2> QED
    BY <2>3 DEF q
<1> QED
  BY <1>1, <1>2, <1>3

\* Wilder's, one part in period.
LEMMA WilderMoves ==
  ASSUME NEW v \in Int, NEW x \in Int, NEW p \in Nat \ {0}
  PROVE  /\ Smoothed(v, x, p) \in Int
         /\ \A lo, hi \in Int : lo <= v /\ v <= hi /\ lo <= x /\ x <= hi =>
              lo <= Smoothed(v, x, p) /\ Smoothed(v, x, p) <= hi
<1> DEFINE n == v * (p - 1) + x
<1>1. p - 1 \in Nat /\ n \in Int /\ v * (p - 1) \in Int /\ v * (p - 1) = (p - 1) * v
  OBVIOUS
<1>2. Smoothed(v, x, p) = TruncDiv(n, p) /\ TruncDiv(n, p) \in Int
  BY <1>1, TruncDivType DEF Smoothed
<1>3. ASSUME NEW lo \in Int, NEW hi \in Int, lo <= v, v <= hi, lo <= x, x <= hi
      PROVE  lo <= TruncDiv(n, p) /\ TruncDiv(n, p) <= hi
  <2>1. /\ (p - 1) * lo <= (p - 1) * v /\ (p - 1) * v <= (p - 1) * hi
        /\ (p - 1) * lo \in Int /\ (p - 1) * hi \in Int
    BY <1>1, <1>3, TimesGrows
  <2>2. p * lo = (p - 1) * lo + lo /\ p * hi = (p - 1) * hi + hi
    OBVIOUS
  <2>3. p * lo <= n /\ n <= p * hi
    BY <1>1, <1>3, <2>1, <2>2
  <2> HIDE DEF n
  <2> QED
    BY <1>1, <2>3, QuotientBetween
<1> QED
  BY <1>2, <1>3

Averages == [seedSum : Int, count : Nat, reading : Readings]

\* An exponential average fed the inputs s.
EmaKept(e, s, p) ==
  /\ e \in Averages
  /\ e.count = IF Len(s) < p THEN Len(s) ELSE p
  /\ e.reading # NoReading <=> Len(s) >= p
  /\ Amid(e.seedSum, e.count, e.reading, s)

\* An average starts having followed nothing ...
LEMMA EmaBegins == ASSUME NEW p \in Nat \ {0} PROVE EmaKept(NewEma, << >>, p)
<1>1. NewEma.seedSum = 0 /\ NewEma.count = 0 /\ NewEma.reading = NoReading /\ NewEma \in Averages
  BY DEF NewEma, Averages, Readings
<1>2. Len(<< >>) = 0
  OBVIOUS
<1> QED
  BY <1>1, <1>2 DEF EmaKept, Amid

\* ... and, fed an input, has followed it too: it stays among what it averaged.
LEMMA EmaStep ==
  ASSUME NEW s \in Seq(Int), NEW x \in Int, NEW p \in Nat \ {0}, NEW e, EmaKept(e, s, p)
  PROVE  EmaKept(EmaUpdate(e, x, p), Append(s, x), p)
<1> DEFINE t == Append(s, x)
           u == EmaUpdate(e, x, p)
<1>1. Len(t) = Len(s) + 1 /\ Len(s) \in Nat
  BY AppendFacts
<1>2. e.seedSum \in Int /\ e.count \in Nat /\ e.reading \in Readings
  BY DEF EmaKept, Averages
<1> HIDE DEF t
<1>3. CASE e.reading = NoReading
  <2> DEFINE y == IF e.count + 1 = p THEN <<TruncDiv(e.seedSum + x, p)>> ELSE NoReading
  <2>1. u = [seedSum |-> e.seedSum + x, count |-> e.count + 1, reading |-> y]
    BY <1>3 DEF EmaUpdate
  <2>2. Len(s) < p /\ e.count = Len(s)
    BY <1>1, <1>3 DEF EmaKept
  <2>3. Amid(e.seedSum, e.count, NoReading, s)
    BY <1>3 DEF EmaKept
  <2>4. /\ Amid(e.seedSum + x, e.count + 1, NoReading, t)
        /\ TruncDiv(e.seedSum + x, e.count + 1) \in Int
        /\ Amid(e.seedSum + x, e.count + 1, <<TruncDiv(e.seedSum + x, e.count + 1)>>, t)
    BY <1>2, <2>3, AmidSeed DEF t
  <2>5. y \in Readings /\ (y # NoReading <=> e.count + 1 = p) /\ Amid(e.seedSum + x, e.count + 1, y, t)
    BY <2>4, ReadingCases DEF Readings
  <2> HIDE DEF y
  <2>6. u \in Averages /\ u.seedSum = e.seedSum + x /\ u.count = e.count + 1 /\ u.reading = y
    BY <1>2, <2>1, <2>5 DEF Averages
  <2> HIDE DEF u
  <2> QED
    BY <1>1, <1>2, <2>2, <2>5, <2>6 DEF EmaKept, t, u
<1>4. CASE e.reading # NoReading
  <2> DEFINE v == Head(e.reading)
             w == v + TruncDiv((x - v) * 2, p + 1)
  <2>1. v \in Int /\ e.reading = <<v>>
    BY <1>2, <1>4, ReadingCases
  <2>2. u = [e EXCEPT !.reading = <<w>>]
    BY <1>4 DEF EmaUpdate
  <2>3. Len(s) >= p
    BY <1>4 DEF EmaKept
  <2>4. Amid(e.seedSum, e.count, <<v>>, s)
    BY <2>1 DEF EmaKept
  <2> HIDE DEF v
  <2>5. w \in Int /\ \A lo, hi \in Int : lo <= v /\ v <= hi /\ lo <= x /\ x <= hi => lo <= w /\ w <= hi
    BY <2>1, EmaMoves
  <2> HIDE DEF w
  <2>6. Amid(e.seedSum, e.count, <<w>>, t)
    BY <2>1, <2>4, <2>5, AmidMoved DEF t
  <2>7. u \in Averages /\ u.seedSum = e.seedSum /\ u.count = e.count /\ u.reading = <<w>>
    BY <2>2, <2>5 DEF Averages, Readings, EmaKept
  <2> HIDE DEF u
  <2>8. e.count = p
    BY <1>1, <2>3 DEF EmaKept
  <2> QED
    BY <1>1, <2>3, <2>6, <2>7, <2>8, ReadingCases DEF EmaKept, t, u
<1> QED
  BY <1>3, <1>4

-----------------------------------------------------------------------------
(* Macd *)

\* Its signal line has been fed once for each input since the slow average began.
MacdKept(m, s, p) ==
  /\ m = [fast |-> m.fast, slow |-> m.slow, signal |-> m.signal, reading |-> m.reading]
  /\ EmaKept(m.fast, s, p) /\ EmaKept(m.slow, s, p + 1)
  /\ \E line \in Seq(Int) :
       /\ Len(line) = IF Len(s) <= p THEN 0 ELSE Len(s) - p
       /\ EmaKept(m.signal, line, SignalPeriod)
  /\ m.reading # NoReading <=> m.signal.reading # NoReading

\* Macd's two averages and signal line start having followed nothing ...
LEMMA MacdBegins == ASSUME NEW p \in Nat \ {0} PROVE MacdKept(NewMacd, << >>, p)
<1>1. /\ NewMacd.fast = NewEma /\ NewMacd.slow = NewEma /\ NewMacd.signal = NewEma
      /\ NewMacd.reading = NoReading /\ NewEma.reading = NoReading
      /\ NewMacd = [fast |-> NewMacd.fast, slow |-> NewMacd.slow, signal |-> NewMacd.signal,
                    reading |-> NewMacd.reading]
  BY DEF NewMacd, NewEma
<1>2. EmaKept(NewEma, << >>, p) /\ EmaKept(NewEma, << >>, p + 1) /\ EmaKept(NewEma, << >>, SignalPeriod)
  <2>1. p + 1 \in Nat \ {0} /\ SignalPeriod \in Nat \ {0}
    BY IndicatorAssumption
  <2> QED
    BY <2>1, EmaBegins
<1>3. << >> \in Seq(Int) /\ Len(<< >>) = IF Len(<< >>) <= p THEN 0 ELSE Len(<< >>) - p
  OBVIOUS
<1> QED
  BY <1>1, <1>2, <1>3 DEF MacdKept

\* ... and follow each input: the signal line only once both averages read.
LEMMA MacdStep ==
  ASSUME NEW s \in Seq(Int), NEW x \in Int, NEW p \in Nat \ {0}, NEW m, MacdKept(m, s, p)
  PROVE  MacdKept(MacdUpdate(m, x, p), Append(s, x), p)
<1> DEFINE t == Append(s, x)
           u == MacdUpdate(m, x, p)
           fast == EmaUpdate(m.fast, x, p)
           slow == EmaUpdate(m.slow, x, p + 1)
           gap == Head(fast.reading) - Head(slow.reading)
           signal == EmaUpdate(m.signal, gap, SignalPeriod)
<1>1. t \in Seq(Int) /\ Len(t) = Len(s) + 1 /\ Len(s) \in Nat
  BY AppendFacts
<1>2. SignalPeriod \in Nat \ {0} /\ p + 1 \in Nat \ {0}
  BY IndicatorAssumption
<1>3. EmaKept(fast, t, p) /\ EmaKept(slow, t, p + 1)
  BY <1>2, EmaStep DEF MacdKept
<1>4. /\ fast.reading \in Readings /\ slow.reading \in Readings
      /\ fast.reading # NoReading <=> Len(t) >= p
      /\ slow.reading # NoReading <=> Len(t) >= p + 1
  BY <1>3 DEF EmaKept, Averages
<1>5. PICK line \in Seq(Int) :
        /\ Len(line) = IF Len(s) <= p THEN 0 ELSE Len(s) - p
        /\ EmaKept(m.signal, line, SignalPeriod)
  BY DEF MacdKept
<1>6. CASE Len(t) < p + 1
  <2>1. slow.reading = NoReading
    BY <1>1, <1>4, <1>6
  <2>2. u = [m EXCEPT !.fast = fast, !.slow = slow, !.reading = NoReading]
    <3> HIDE DEF fast, slow
    <3>1. fast.reading = NoReading \/ slow.reading = NoReading
      BY <2>1
    <3> QED
      BY <3>1 DEF MacdUpdate, fast, slow
  <2> HIDE DEF u, t, fast, slow
  <2>3. /\ u = [fast |-> u.fast, slow |-> u.slow, signal |-> u.signal, reading |-> u.reading]
        /\ u.fast = fast /\ u.slow = slow /\ u.signal = m.signal /\ u.reading = NoReading
    BY <2>2 DEF MacdKept
  <2>4. Len(line) = 0 /\ Len(t) <= p
    BY <1>1, <1>5, <1>6
  <2>5. m.signal.reading = NoReading
    BY <1>2, <1>5, <2>4 DEF EmaKept
  <2>6. \E g \in Seq(Int) : /\ Len(g) = IF Len(t) <= p THEN 0 ELSE Len(t) - p
                            /\ EmaKept(u.signal, g, SignalPeriod)
    BY <1>5, <2>3, <2>4
  <2> QED
    BY <1>3, <2>3, <2>5, <2>6 DEF MacdKept, u, t
<1>7. CASE Len(t) >= p + 1
  <2>1. slow.reading # NoReading /\ fast.reading # NoReading
    BY <1>1, <1>4, <1>7
  <2>2. gap \in Int
    <3> HIDE DEF fast, slow
    <3>1. Head(fast.reading) \in Int /\ Head(slow.reading) \in Int
      BY <1>4, <2>1, ReadingCases
    <3> QED
      BY <3>1
  <2> DEFINE y == IF signal.reading = NoReading THEN NoReading
                  ELSE <<[macd |-> gap, signal |-> Head(signal.reading),
                          histogram |-> gap - Head(signal.reading)]>>
  <2>3. u = [fast |-> fast, slow |-> slow, signal |-> signal, reading |-> y]
    <3>1. ~(fast.reading = NoReading \/ slow.reading = NoReading)
      BY <2>1
    <3> QED
      BY <3>1 DEF MacdUpdate
  <2> HIDE DEF gap
  <2>4. EmaKept(signal, Append(line, gap), SignalPeriod)
    BY <1>2, <1>5, <2>2, EmaStep
  <2>5. Append(line, gap) \in Seq(Int) /\ Len(Append(line, gap)) = Len(line) + 1
    BY <2>2, AppendFacts
  <2>6. Len(Append(line, gap)) = IF Len(t) <= p THEN 0 ELSE Len(t) - p
    BY <1>1, <1>5, <1>7, <2>5
  <2>7. y # NoReading <=> signal.reading # NoReading
    BY ReadingCases
  <2> HIDE DEF u, t, fast, slow, signal, y
  <2>8. u.fast = fast /\ u.slow = slow /\ u.signal = signal /\ u.reading = y
    BY <2>3
  <2>9. u = [fast |-> u.fast, slow |-> u.slow, signal |-> u.signal, reading |-> u.reading]
    BY <2>3
  <2>10. \E g \in Seq(Int) : /\ Len(g) = IF Len(t) <= p THEN 0 ELSE Len(t) - p
                             /\ EmaKept(u.signal, g, SignalPeriod)
    BY <2>4, <2>5, <2>6, <2>8
  <2> QED
    BY <1>3, <2>7, <2>8, <2>9, <2>10 DEF MacdKept, u, t
<1> QED
  BY <1>1, <1>6, <1>7

-----------------------------------------------------------------------------
(* Rsi *)

Rising(s)  == \A n \in 1..(Len(s) - 1) : s[n + 1] - s[n] >= 0
Falling(s) == \A n \in 1..(Len(s) - 1) : s[n + 1] - s[n] <= 0

Strengths ==
  [prev : Readings, avgGain : Nat, avgLoss : Nat, seedGain : Nat, seedLoss : Nat,
   count : Nat, seeded : BOOLEAN, reading : Readings]

\* A relative strength fed the inputs s: a series that only rises has no losses,
\* and one that only falls no gains.
RsiKept(r, s, p) ==
  /\ r \in Strengths
  /\ r.prev = IF Len(s) = 0 THEN << >> ELSE <<s[Len(s)]>>
  /\ r.seeded <=> Len(s) > p
  /\ ~r.seeded => /\ r.count = IF Len(s) = 0 THEN 0 ELSE Len(s) - 1
                  /\ r.reading = NoReading
  /\ r.seeded => r.reading = <<Level(r.avgGain, r.avgLoss)>>
  /\ Rising(s) => r.seedLoss = 0 /\ r.avgLoss = 0
  /\ Falling(s) => r.seedGain = 0 /\ r.avgGain = 0

\* A relative strength starts having followed nothing ...
LEMMA RsiBegins == ASSUME NEW p \in Nat \ {0} PROVE RsiKept(NewRsi, << >>, p)
<1>1. /\ NewRsi.prev = << >> /\ NewRsi.avgGain = 0 /\ NewRsi.avgLoss = 0 /\ NewRsi.seedGain = 0
      /\ NewRsi.seedLoss = 0 /\ NewRsi.count = 0 /\ NewRsi.seeded = FALSE
      /\ NewRsi.reading = NoReading /\ NewRsi \in Strengths
  BY DEF NewRsi, Strengths, Readings, NoReading
<1>2. Len(<< >>) = 0
  OBVIOUS
<1> QED
  BY <1>1, <1>2 DEF RsiKept

\* The level lies between 0 and AllGains, on the side of what there is more of.
LEMMA LevelFacts ==
  ASSUME NEW g \in Nat, NEW l \in Nat
  PROVE  /\ Level(g, l) \in Int /\ 0 <= Level(g, l) /\ Level(g, l) <= AllGains
         /\ l = 0 => Level(g, l) >= Balanced
         /\ g = 0 => Level(g, l) <= Balanced
<1> USE DEF AllGains, Balanced
<1>1. CASE g + l = 0
  BY <1>1 DEF Level
<1>2. CASE g + l # 0
  <2> DEFINE d == g + l
             n == AllGains * g
  <2>1. d \in Nat \ {0} /\ n \in Int
    BY <1>2
  <2>2. d * 0 <= n /\ n <= d * AllGains
    OBVIOUS
  <2>3. l = 0 => d * Balanced <= n
    OBVIOUS
  <2>4. g = 0 => n <= d * Balanced
    OBVIOUS
  <2>5. Level(g, l) = TruncDiv(n, d)
    BY <1>2 DEF Level
  <2> HIDE DEF d, n
  <2>6. \A lo, hi \in Int : d * lo <= n /\ n <= d * hi =>
          TruncDiv(n, d) \in Int /\ lo <= TruncDiv(n, d) /\ TruncDiv(n, d) <= hi
    BY <2>1, QuotientBetween
  <2>7. TruncDiv(n, d) \in Int /\ 0 <= TruncDiv(n, d) /\ TruncDiv(n, d) <= AllGains
    BY <2>2, <2>6
  <2>8. l = 0 => Balanced <= TruncDiv(n, d)
    BY <2>2, <2>3, <2>6
  <2>9. g = 0 => TruncDiv(n, d) <= Balanced
    BY <2>2, <2>4, <2>6
  <2> QED
    BY <2>5, <2>7, <2>8, <2>9
<1> QED
  BY <1>1, <1>2

\* Averages of gains and of losses are none where there were none.
LEMMA StrengthMoves ==
  ASSUME NEW a \in Nat, NEW x \in Nat, NEW p \in Nat \ {0}
  PROVE  /\ Smoothed(a, x, p) \in Nat /\ (a = 0 /\ x = 0 => Smoothed(a, x, p) = 0)
         /\ TruncDiv(a, p) \in Nat /\ (a = 0 => TruncDiv(a, p) = 0)
<1>1. Smoothed(a, x, p) \in Int
  BY WilderMoves
<1>2. 0 <= Smoothed(a, x, p)
  BY WilderMoves
<1>3. a = 0 /\ x = 0 => Smoothed(a, x, p) <= 0
  BY WilderMoves
<1>4. /\ TruncDiv(a, p) \in Int /\ 0 <= TruncDiv(a, p)
  <2>1. p * 0 <= a /\ a <= p * a
    <3>1. a * 1 <= a * p
      BY TimesGrows
    <3> QED
      BY <3>1
  <2> QED
    BY <2>1, QuotientBetween
<1>5. a = 0 => TruncDiv(a, p) <= 0
  <2> SUFFICES ASSUME a = 0 PROVE TruncDiv(a, p) <= 0
    OBVIOUS
  <2>1. p * 0 <= a /\ a <= p * 0
    OBVIOUS
  <2> QED
    BY <2>1, QuotientBetween
<1> QED
  BY <1>1, <1>2, <1>3, <1>4, <1>5

\* ... and follows each input, the first as a baseline only.
LEMMA RsiStep ==
  ASSUME NEW s \in Seq(Int), NEW x \in Int, NEW p \in Nat \ {0}, NEW r, RsiKept(r, s, p)
  PROVE  RsiKept(RsiUpdate(r, x, p), Append(s, x), p)
<1> DEFINE t == Append(s, x)
           u == RsiUpdate(r, x, p)
           delta == x - Head(r.prev)
           gain == IF delta >= 0 THEN delta ELSE 0
           loss == IF delta >= 0 THEN 0 ELSE -delta
<1>1. /\ Len(t) = Len(s) + 1 /\ Len(s) \in Nat /\ t[Len(s) + 1] = x
      /\ \A n \in 1..Len(s) : t[n] = s[n] /\ s[n] \in Int
  BY AppendFacts
<1>2. /\ r \in Strengths /\ r.prev \in Readings /\ r.avgGain \in Nat /\ r.avgLoss \in Nat
      /\ r.seedGain \in Nat /\ r.seedLoss \in Nat /\ r.count \in Nat /\ r.seeded \in BOOLEAN
      /\ r.reading \in Readings
  BY DEF RsiKept, Strengths
<1>3. <<x>> \in Readings /\ \A v : <<v>> # << >> /\ Head(<<v>>) = v
  BY DEF Readings
<1> HIDE DEF t
<1>4. CASE Len(s) = 0
  <2>1. r.prev = << >>
    BY <1>4 DEF RsiKept
  <2>2. u = [r EXCEPT !.prev = <<x>>]
    BY <2>1 DEF RsiUpdate
  <2> HIDE DEF u
  <2>3. /\ u.prev = <<x>> /\ u.avgGain = r.avgGain /\ u.avgLoss = r.avgLoss /\ u.seedGain = r.seedGain
        /\ u.seedLoss = r.seedLoss /\ u.count = r.count /\ u.seeded = r.seeded
        /\ u.reading = r.reading /\ u \in Strengths
    BY <1>2, <1>3, <2>2 DEF Strengths
  <2>4. Rising(s) /\ Falling(s) /\ ~r.seeded /\ r.count = 0 /\ r.reading = NoReading
    BY <1>1, <1>4 DEF RsiKept, Rising, Falling
  <2>5. r.seedLoss = 0 /\ r.avgLoss = 0 /\ r.seedGain = 0 /\ r.avgGain = 0
    BY <2>4 DEF RsiKept
  <2> QED
    BY <1>1, <1>4, <2>3, <2>4, <2>5 DEF RsiKept, u, t
<1>5. CASE Len(s) # 0
  <2>1. r.prev # << >> /\ Head(r.prev) = s[Len(s)] /\ s[Len(s)] \in Int
    BY <1>1, <1>3, <1>5 DEF RsiKept
  <2>2. delta \in Int /\ delta = t[Len(s) + 1] - t[Len(s)]
    BY <1>1, <1>5, <2>1
  <2> HIDE DEF delta
  <2>3. gain \in Nat /\ loss \in Nat /\ (delta >= 0 => loss = 0) /\ (delta <= 0 => gain = 0)
    BY <2>2
  <2>4. Rising(t) => Rising(s) /\ loss = 0
    <3> SUFFICES ASSUME Rising(t) PROVE Rising(s) /\ loss = 0
      OBVIOUS
    <3>1. ASSUME NEW n \in 1..(Len(s) - 1) PROVE s[n + 1] - s[n] >= 0
      <4>1. n \in 1..(Len(t) - 1) /\ n \in 1..Len(s) /\ n + 1 \in 1..Len(s)
        BY <1>1
      <4> QED
        BY <1>1, <4>1 DEF Rising
    <3>2. delta >= 0
      <4>1. Len(s) \in 1..(Len(t) - 1)
        BY <1>1, <1>5
      <4> QED
        BY <2>2, <4>1 DEF Rising
    <3> QED
      BY <2>3, <3>1, <3>2 DEF Rising
  <2>5. Falling(t) => Falling(s) /\ gain = 0
    <3> SUFFICES ASSUME Falling(t) PROVE Falling(s) /\ gain = 0
      OBVIOUS
    <3>1. ASSUME NEW n \in 1..(Len(s) - 1) PROVE s[n + 1] - s[n] <= 0
      <4>1. n \in 1..(Len(t) - 1) /\ n \in 1..Len(s) /\ n + 1 \in 1..Len(s)
        BY <1>1
      <4> QED
        BY <1>1, <4>1 DEF Falling
    <3>2. delta <= 0
      <4>1. Len(s) \in 1..(Len(t) - 1)
        BY <1>1, <1>5
      <4> QED
        BY <2>2, <4>1 DEF Falling
    <3> QED
      BY <2>3, <3>1, <3>2 DEF Falling
  <2> HIDE DEF gain, loss
  <2>6. CASE ~r.seeded /\ r.count + 1 # p
    <3>1. u = [r EXCEPT !.prev = <<x>>, !.seedGain = r.seedGain + gain,
                        !.seedLoss = r.seedLoss + loss, !.count = @ + 1]
      BY <2>1, <2>6 DEF RsiUpdate, gain, loss, delta
    <3> HIDE DEF u
    <3>2. /\ u.prev = <<x>> /\ u.avgGain = r.avgGain /\ u.avgLoss = r.avgLoss
          /\ u.seedGain = r.seedGain + gain /\ u.seedLoss = r.seedLoss + loss
          /\ u.count = r.count + 1 /\ u.seeded = r.seeded /\ u.reading = r.reading
          /\ u \in Strengths
      <4>1. r.seedGain + gain \in Nat /\ r.seedLoss + loss \in Nat /\ r.count + 1 \in Nat
        BY <1>2, <2>3
      <4>2. u = [prev |-> <<x>>, avgGain |-> r.avgGain, avgLoss |-> r.avgLoss,
                 seedGain |-> r.seedGain + gain, seedLoss |-> r.seedLoss + loss,
                 count |-> r.count + 1, seeded |-> r.seeded, reading |-> r.reading]
        BY <1>2, <3>1 DEF Strengths
      <4> QED
        BY <1>2, <1>3, <4>1, <4>2 DEF Strengths
    <3>3. r.count = Len(s) - 1 /\ r.reading = NoReading /\ ~(Len(s) > p)
      BY <1>5, <2>6 DEF RsiKept
    <3>4. u.count = Len(t) - 1 /\ ~(Len(t) > p) /\ Len(t) # 0
      BY <1>1, <2>6, <3>2, <3>3
    <3>5. Rising(t) => u.seedLoss = 0 /\ u.avgLoss = 0
      BY <2>4, <3>2 DEF RsiKept
    <3>6. Falling(t) => u.seedGain = 0 /\ u.avgGain = 0
      BY <2>5, <3>2 DEF RsiKept
    <3> QED
      BY <1>1, <2>6, <3>2, <3>3, <3>4, <3>5, <3>6 DEF RsiKept, u, t
  <2>7. CASE r.seeded \/ r.count + 1 = p
    <3> DEFINE g == IF r.seeded THEN Smoothed(r.avgGain, gain, p) ELSE TruncDiv(r.seedGain + gain, p)
               l == IF r.seeded THEN Smoothed(r.avgLoss, loss, p) ELSE TruncDiv(r.seedLoss + loss, p)
    <3>1. u = [r EXCEPT !.prev = <<x>>, !.avgGain = g, !.avgLoss = l, !.seeded = TRUE,
                        !.reading = <<Level(g, l)>>]
      <4>1. CASE r.seeded
        BY <2>1, <4>1 DEF RsiUpdate, gain, loss, delta
      <4>2. CASE ~r.seeded
        BY <2>1, <2>7, <4>2 DEF RsiUpdate, gain, loss, delta
      <4> QED
        BY <4>1, <4>2
    <3>2. r.seedGain + gain \in Nat /\ r.seedLoss + loss \in Nat
      BY <1>2, <2>3
    <3>3. g \in Nat /\ l \in Nat
      BY <1>2, <2>3, <3>2, StrengthMoves
    <3>4. r.avgGain = 0 /\ r.seedGain = 0 /\ gain = 0 => g = 0
      BY <1>2, <2>3, <3>2, StrengthMoves
    <3>5. r.avgLoss = 0 /\ r.seedLoss = 0 /\ loss = 0 => l = 0
      BY <1>2, <2>3, <3>2, StrengthMoves
    <3> HIDE DEF u, g, l
    <3>6. <<Level(g, l)>> \in Readings
      BY <3>3, LevelFacts DEF Readings
    <3>7. /\ u.prev = <<x>> /\ u.avgGain = g /\ u.avgLoss = l
          /\ u.seedGain = r.seedGain /\ u.seedLoss = r.seedLoss
          /\ u.seeded = TRUE /\ u.reading = <<Level(g, l)>>
          /\ u \in Strengths
      BY <1>2, <1>3, <3>1, <3>3, <3>6 DEF Strengths
    <3>8. Len(t) > p /\ Len(t) # 0
      <4>1. CASE r.seeded
        BY <1>1, <4>1 DEF RsiKept
      <4>2. CASE ~r.seeded
        <5>1. r.count = Len(s) - 1 /\ r.count + 1 = p
          BY <1>5, <2>7, <4>2 DEF RsiKept
        <5> QED
          BY <1>1, <5>1
      <4> QED
        BY <4>1, <4>2
    <3>9. Rising(t) => u.seedLoss = 0 /\ u.avgLoss = 0
      BY <2>4, <3>5, <3>7 DEF RsiKept
    <3>10. Falling(t) => u.seedGain = 0 /\ u.avgGain = 0
      BY <2>5, <3>4, <3>7 DEF RsiKept
    <3> QED
      BY <1>1, <3>7, <3>8, <3>9, <3>10 DEF RsiKept, u, t
  <2> QED
    BY <1>2, <2>6, <2>7
<1> QED
  BY <1>4, <1>5

-----------------------------------------------------------------------------
(* Atr *)

\* An average range fed bars of the ranges s, the last of which closed at `last`.
AtrKept(a, s, last, p) ==
  /\ a \in [prevClose : Readings, sum : Int, count : Nat, reading : Readings]
  /\ a.prevClose = last
  /\ a.count = IF Len(s) < p THEN Len(s) ELSE p
  /\ a.reading # NoReading <=> Len(s) >= p
  /\ Amid(a.sum, a.count, a.reading, s)

\* A true range's average starts having followed nothing ...
LEMMA AtrBegins == ASSUME NEW p \in Nat \ {0} PROVE AtrKept(NewAtr, << >>, << >>, p)
<1>1. /\ NewAtr.prevClose = << >> /\ NewAtr.sum = 0 /\ NewAtr.count = 0 /\ NewAtr.reading = NoReading
      /\ NewAtr \in [prevClose : Readings, sum : Int, count : Nat, reading : Readings]
  BY DEF NewAtr, Readings, NoReading
<1>2. Len(<< >>) = 0
  OBVIOUS
<1> QED
  BY <1>1, <1>2 DEF AtrKept, Amid

\* The true range is a number.
LEMMA TrueRangeType ==
  ASSUME NEW bar, {bar.high, bar.low, bar.close} \subseteq Int, NEW last \in Readings
  PROVE  TrueRange(bar, last) \in Int
<1>1. CASE last = << >>
  BY <1>1 DEF TrueRange
<1>2. CASE last # << >>
  <2> DEFINE a == bar.high - bar.low
             b == Abs(bar.high - Head(last))
             c == Abs(bar.low - Head(last))
  <2>1. Head(last) \in Int
    BY <1>2, ReadingCases DEF NoReading
  <2>2. a \in Int /\ b \in Int /\ c \in Int
    BY <2>1, AbsType
  <2>3. TrueRange(bar, last) = Max({a, b, c})
    BY <1>2 DEF TrueRange
  <2> HIDE DEF a, b, c
  <2>4. \E y \in {a, b, c} : \A z \in {a, b, c} : y >= z
    <3>1. CASE a >= b /\ a >= c
      BY <2>2, <3>1
    <3>2. CASE b >= a /\ b >= c
      BY <2>2, <3>2
    <3>3. CASE c >= a /\ c >= b
      BY <2>2, <3>3
    <3> QED
      BY <2>2, <3>1, <3>2, <3>3
  <2>5. Max({a, b, c}) \in {a, b, c}
    BY <2>4 DEF Max
  <2> QED
    BY <2>2, <2>3, <2>5
<1> QED
  BY <1>1, <1>2

\* ... and follows each range.
LEMMA AtrStep ==
  ASSUME NEW s \in Seq(Int), NEW last, NEW p \in Nat \ {0}, NEW a, AtrKept(a, s, last, p),
         NEW bar, {bar.high, bar.low, bar.close} \subseteq Int
  PROVE  /\ TrueRange(bar, last) \in Int
         /\ AtrKept(AtrUpdate(a, bar, p), Append(s, TrueRange(bar, last)), <<bar.close>>, p)
<1> DEFINE x == TrueRange(bar, last)
           t == Append(s, x)
           u == AtrUpdate(a, bar, p)
           Type == [prevClose : Readings, sum : Int, count : Nat, reading : Readings]
<1>1. /\ a \in Type /\ a.prevClose \in Readings /\ a.sum \in Int /\ a.count \in Nat
      /\ a.reading \in Readings /\ a.prevClose = last
  BY DEF AtrKept
<1>2. x \in Int
  BY <1>1, TrueRangeType
<1>3. TrueRange(bar, a.prevClose) = x /\ <<bar.close>> \in Readings
  BY <1>1 DEF Readings
<1> HIDE DEF x
<1>4. Len(t) = Len(s) + 1 /\ Len(s) \in Nat
  BY <1>2, AppendFacts
<1> HIDE DEF t
<1>5. CASE a.reading = NoReading
  <2> DEFINE y == IF a.count + 1 = p THEN <<TruncDiv(a.sum + x, p)>> ELSE NoReading
  <2>1. u = [prevClose |-> <<bar.close>>, sum |-> a.sum + x, count |-> a.count + 1, reading |-> y]
    BY <1>3, <1>5 DEF AtrUpdate
  <2>2. Len(s) < p /\ a.count = Len(s)
    BY <1>4, <1>5 DEF AtrKept
  <2>3. Amid(a.sum, a.count, NoReading, s)
    BY <1>5 DEF AtrKept
  <2>4. /\ Amid(a.sum + x, a.count + 1, NoReading, t)
        /\ TruncDiv(a.sum + x, a.count + 1) \in Int
        /\ Amid(a.sum + x, a.count + 1, <<TruncDiv(a.sum + x, a.count + 1)>>, t)
    BY <1>1, <1>2, <2>3, AmidSeed DEF t
  <2>5. y \in Readings /\ (y # NoReading <=> a.count + 1 = p) /\ Amid(a.sum + x, a.count + 1, y, t)
    BY <2>4, ReadingCases DEF Readings
  <2> HIDE DEF y
  <2>6. /\ u \in Type /\ u.prevClose = <<bar.close>>
        /\ u.sum = a.sum + x /\ u.count = a.count + 1 /\ u.reading = y
    BY <1>1, <1>2, <1>3, <2>1, <2>5
  <2> HIDE DEF u
  <2> QED
    BY <1>1, <1>2, <1>4, <2>2, <2>5, <2>6 DEF AtrKept, t, u, x
<1>6. CASE a.reading # NoReading
  <2> DEFINE v == Head(a.reading)
             w == Smoothed(v, x, p)
  <2>1. v \in Int /\ a.reading = <<v>>
    BY <1>1, <1>6, ReadingCases
  <2>2. u = [a EXCEPT !.prevClose = <<bar.close>>, !.reading = <<w>>]
    BY <1>3, <1>6 DEF AtrUpdate
  <2>3. Len(s) >= p
    BY <1>6 DEF AtrKept
  <2>4. Amid(a.sum, a.count, <<v>>, s)
    BY <2>1 DEF AtrKept
  <2> HIDE DEF v
  <2>5. w \in Int /\ \A lo, hi \in Int : lo <= v /\ v <= hi /\ lo <= x /\ x <= hi => lo <= w /\ w <= hi
    BY <1>2, <2>1, WilderMoves
  <2> HIDE DEF w
  <2>6. Amid(a.sum, a.count, <<w>>, t)
    BY <1>2, <2>1, <2>4, <2>5, AmidMoved DEF t
  <2>7. <<w>> \in Readings
    BY <2>5 DEF Readings
  <2>8. /\ u \in Type /\ u.prevClose = <<bar.close>>
        /\ u.sum = a.sum /\ u.count = a.count /\ u.reading = <<w>>
    BY <1>1, <1>3, <2>2, <2>7
  <2> HIDE DEF u
  <2>9. a.count = p
    BY <1>4, <2>3 DEF AtrKept
  <2> QED
    BY <1>2, <1>4, <2>3, <2>6, <2>8, <2>9, ReadingCases DEF AtrKept, t, u, x
<1> QED
  BY <1>5, <1>6

-----------------------------------------------------------------------------
(* The window *)

\* A window on the inputs s holds the last of them, as many as fit, and their sum.
WindowKept(w, s, p) ==
  /\ w.buf \in Seq(Int)
  /\ Len(w.buf) = IF Len(s) < p THEN Len(s) ELSE p
  /\ \A i \in 1..Len(w.buf) : w.buf[i] = s[Len(s) - Len(w.buf) + i]
  /\ w.sum = Sum(w.buf)

\* The sum of a sequence, as the sum of a function over its places.
LEMMA SumIs ==
  ASSUME NEW s \in Seq(Int)
  PROVE  Sum(s) = SumFunctionOnSet(s, 1..Len(s)) /\ Sum(s) \in Int
<1>1. DOMAIN s = 1..Len(s) /\ Len(s) \in Nat /\ \A i \in 1..Len(s) : s[i] \in Int
  OBVIOUS
<1>2. IsFiniteSet(1..Len(s))
  BY <1>1, FS_Interval
<1> QED
  BY <1>1, <1>2, SumType DEF Sum

\* A window starts empty ...
LEMMA WindowBegins == ASSUME NEW p \in Nat \ {0} PROVE WindowKept(NewWindow, << >>, p)
<1>1. NewWindow.buf = << >> /\ NewWindow.sum = 0
  BY DEF NewWindow
<1>2. << >> \in Seq(Int) /\ Len(<< >>) = 0
  OBVIOUS
<1>3. Sum(<< >>) = 0
  <2>1. DOMAIN << >> = {}
    BY <1>2
  <2> QED
    BY <2>1, SumStep, FS_EmptySet DEF Sum
<1> QED
  BY <1>1, <1>2, <1>3 DEF WindowKept

\* ... and after each input holds the last ones, and their sum.
LEMMA WindowStep ==
  ASSUME NEW s \in Seq(Int), NEW x \in Int, NEW p \in Nat \ {0}, NEW w, WindowKept(w, s, p)
  PROVE  WindowKept(Slide(w, x, p), Append(s, x), p)
<1> DEFINE t == Append(s, x)
           b == w.buf
           B == Append(b, x)
           k == Len(b)
           u == Slide(w, x, p)
<1>1. /\ Len(t) = Len(s) + 1 /\ Len(s) \in Nat /\ t[Len(s) + 1] = x
      /\ \A n \in 1..Len(s) : t[n] = s[n]
  BY AppendFacts
<1>2. b \in Seq(Int)
  BY DEF WindowKept
<1>3. /\ B \in Seq(Int) /\ Len(B) = k + 1 /\ k \in Nat /\ B[k + 1] = x
      /\ \A n \in 1..k : B[n] = b[n]
      /\ \A n \in 1..k + 1 : B[n] \in Int
  <2> HIDE DEF b
  <2> QED
    BY <1>2, AppendFacts
<1>4. k = (IF Len(s) < p THEN Len(s) ELSE p) /\ \A i \in 1..k : b[i] = s[Len(s) - k + i]
  BY DEF WindowKept
<1>5. w.sum = SumFunctionOnSet(b, 1..k) /\ w.sum \in Int
  BY <1>2, SumIs DEF WindowKept
<1>6. SumFunctionOnSet(B, 1..k + 1) = w.sum + x
  <2> HIDE DEF b, B, k
  <2>1. \A n \in 1..k : b[n] = B[n]
    BY <1>3
  <2> QED
    BY <1>3, <1>5, <2>1, SumAppend
<1>7. \A i \in 1..k + 1 : B[i] = t[Len(s) - k + i]
  <2> SUFFICES ASSUME NEW i \in 1..k + 1 PROVE B[i] = t[Len(s) - k + i]
    OBVIOUS
  <2>1. CASE i = k + 1
    BY <1>1, <1>3, <1>4, <2>1
  <2>2. CASE i # k + 1
    <3>1. i \in 1..k /\ k <= Len(s)
      BY <1>1, <1>3, <1>4, <2>2
    <3>2. Len(s) - k + i \in 1..Len(s)
      BY <1>1, <1>3, <3>1
    <3>3. t[Len(s) - k + i] = s[Len(s) - k + i]
      BY <1>1, <3>2
    <3> QED
      BY <1>3, <1>4, <3>1, <3>3
  <2> QED
    BY <2>1, <2>2
<1> HIDE DEF t
<1>8. CASE k + 1 <= p
  <2>1. u = [buf |-> B, sum |-> w.sum + x]
    BY <1>3, <1>8 DEF Slide
  <2> HIDE DEF u, B, b, k
  <2>2. u.buf = B /\ u.sum = w.sum + x
    BY <2>1
  <2>3. Sum(B) = w.sum + x
    BY <1>3, <1>6, SumIs
  <2>4. Len(B) = (IF Len(t) < p THEN Len(t) ELSE p) /\ k = Len(s)
    BY <1>1, <1>3, <1>4, <1>8
  <2>5. \A i \in 1..Len(B) : B[i] = t[Len(t) - Len(B) + i]
    BY <1>1, <1>3, <1>7, <2>4
  <2> QED
    BY <1>3, <2>2, <2>3, <2>4, <2>5 DEF WindowKept, u, t
<1>9. CASE k + 1 > p
  <2>1. u = [buf |-> Tail(B), sum |-> w.sum + x - Head(B)]
    BY <1>3, <1>9 DEF Slide
  <2> HIDE DEF u, B, b, k
  <2>2. u.buf = Tail(B) /\ u.sum = w.sum + x - Head(B)
    BY <2>1
  <2>3. /\ Tail(B) \in Seq(Int) /\ Len(Tail(B)) = k /\ Head(B) = B[1] /\ B[1] \in Int
        /\ \A i \in 1..k : Tail(B)[i] = B[i + 1]
    <3>1. B # << >> /\ Len(B) = k + 1 /\ B \in Seq(Int)
      BY <1>3
    <3>2. Tail(B) \in Seq(Int) /\ Len(Tail(B)) = Len(B) - 1 /\ Head(B) = B[1]
      BY <3>1
    <3>3. \A i \in 1..k : Tail(B)[i] = B[i + 1]
      BY <1>3, <3>1
    <3>4. B[1] \in Int
      BY <1>3
    <3> QED
      BY <1>3, <3>1, <3>2, <3>3, <3>4
  <2> DEFINE C == Tail(B)
  <2> HIDE DEF C
  <2>4. /\ C \in Seq(Int) /\ Len(C) = k /\ \A i \in 1..k : C[i] = B[i + 1]
    BY <2>3 DEF C
  <2>5. SumFunctionOnSet(B, 1..k + 1) = B[1] + SumFunctionOnSet(C, 1..k)
    <3>1. k \in Nat /\ \A i \in 1..k + 1 : B[i] \in Int
      BY <1>3
    <3>2. \A i \in 1..k : C[i] = B[i + 1]
      BY <2>4
    <3> QED
      BY <3>1, <3>2, SumShift
  <2>6. Sum(C) = w.sum + x - B[1]
    <3>1. Sum(C) = SumFunctionOnSet(C, 1..k) /\ Sum(C) \in Int
      BY <2>4, SumIs
    <3> QED
      BY <1>5, <1>6, <2>3, <2>5, <3>1
  <2>7. k = p /\ k = (IF Len(t) < p THEN Len(t) ELSE p)
    BY <1>1, <1>3, <1>4, <1>9
  <2>8. \A i \in 1..k : C[i] = t[Len(t) - k + i]
    <3> SUFFICES ASSUME NEW i \in 1..k PROVE C[i] = t[Len(t) - k + i]
      OBVIOUS
    <3>1. i + 1 \in 1..k + 1 /\ Len(s) - k + (i + 1) = Len(t) - k + i
      BY <1>1, <1>3
    <3> QED
      BY <1>7, <2>4, <3>1
  <2> QED
    BY <2>2, <2>3, <2>4, <2>6, <2>7, <2>8 DEF WindowKept, u, t, C
<1> QED
  BY <1>3, <1>8, <1>9

-----------------------------------------------------------------------------
(* The indicators, fed together                                             *)

ClosesIn(fed) == [n \in 1..Len(fed) |-> fed[n].close]
LastClose(fed) == IF Len(fed) = 0 THEN << >> ELSE <<fed[Len(fed)].close>>
RangesIn(fed) ==
  [n \in 1..Len(fed) |->
     TrueRange(fed[n], IF n = 1 THEN << >> ELSE <<fed[n - 1].close>>)]

AtMost  == {e \in Int \X Int : e[1] <= e[2]}
AtLeast == {e \in Int \X Int : e[1] >= e[2]}

\* Every indicator has followed the inputs.
IndicatorInv ==
  /\ period \in Periods /\ inputs \in Seq(Inputs)
  /\ WindowKept(window, ClosesIn(inputs), period)
  /\ EmaKept(ema, ClosesIn(inputs), period)
  /\ MacdKept(macd, ClosesIn(inputs), period)
  /\ highest.count = Len(inputs) /\ DequeKept(highest.deque, ClosesIn(inputs), period, AtMost)
  /\ lowest.count = Len(inputs) /\ DequeKept(lowest.deque, ClosesIn(inputs), period, AtLeast)
  /\ RsiKept(rsi, ClosesIn(inputs), period)
  /\ RangesIn(inputs) \in Seq(Int)
  /\ AtrKept(atr, RangesIn(inputs), LastClose(inputs), period)

\* Both orders of the deques rank numbers.
LEMMA Compared ==
  /\ \A x, y \in Int : <<x, y>> \in AtMost <=> x <= y
  /\ \A x, y \in Int : <<x, y>> \in AtLeast <=> x >= y
  /\ Ranks(AtMost) /\ Ranks(AtLeast)
<1>1. \A x, y \in Int : <<x, y>> \in AtMost <=> x <= y
  BY DEF AtMost
<1>2. \A x, y \in Int : <<x, y>> \in AtLeast <=> x >= y
  BY DEF AtLeast
<1>3. Ranks(AtMost)
  BY <1>1 DEF Ranks
<1>4. Ranks(AtLeast)
  BY <1>2 DEF Ranks
<1> QED
  BY <1>1, <1>2, <1>3, <1>4

\* The bars, the periods and the closes are what IndicatorAssumption says.
LEMMA InputTypes ==
  /\ \A b \in Inputs : {b.high, b.low, b.close} \subseteq Int /\ b.close \in Int
  /\ \A p \in Periods : p \in Nat \ {0}
  /\ \A fed \in Seq(Inputs) : /\ ClosesIn(fed) \in Seq(Int) /\ Len(ClosesIn(fed)) = Len(fed)
                               /\ Len(fed) \in Nat /\ LastClose(fed) \in Readings
<1>1. \A b \in Inputs : {b.high, b.low, b.close} \subseteq Int /\ b.close \in Int
  BY IndicatorAssumption
<1>2. \A p \in Periods : p \in Nat \ {0}
  BY IndicatorAssumption
<1>3. ASSUME NEW fed \in Seq(Inputs)
      PROVE  /\ ClosesIn(fed) \in Seq(Int) /\ Len(ClosesIn(fed)) = Len(fed)
             /\ Len(fed) \in Nat /\ LastClose(fed) \in Readings
  <2>1. Len(fed) \in Nat /\ \A n \in 1..Len(fed) : fed[n] \in Inputs
    OBVIOUS
  <2>2. \A n \in 1..Len(fed) : fed[n].close \in Int
    BY <1>1, <2>1
  <2>3. ClosesIn(fed) \in [1..Len(fed) -> Int]
    BY <2>2 DEF ClosesIn
  <2>4. LastClose(fed) \in Readings
    BY <2>1, <2>2 DEF LastClose, Readings, NoReading
  <2> QED
    BY <2>1, <2>3, <2>4
<1> QED
  BY <1>1, <1>2, <1>3

\* What one more bar adds to the closes and to the ranges.
LEMMA BarFed ==
  ASSUME NEW fed \in Seq(Inputs), NEW bar \in Inputs
  PROVE  /\ Append(fed, bar) \in Seq(Inputs) /\ Len(Append(fed, bar)) = Len(fed) + 1
         /\ ClosesIn(Append(fed, bar)) = Append(ClosesIn(fed), bar.close)
         /\ LastClose(Append(fed, bar)) = <<bar.close>>
         /\ RangesIn(fed) \in Seq(Int) =>
              RangesIn(Append(fed, bar)) = Append(RangesIn(fed), TrueRange(bar, LastClose(fed)))
<1> DEFINE more == Append(fed, bar)
           N == Len(fed)
<1>1. /\ more \in Seq(Inputs) /\ Len(more) = N + 1 /\ N \in Nat /\ more[N + 1] = bar
      /\ \A n \in 1..N : more[n] = fed[n]
  BY AppendFacts
<1>2. ClosesIn(fed) \in Seq(Int) /\ Len(ClosesIn(fed)) = N /\ bar.close \in Int
  BY InputTypes
<1> HIDE DEF more
<1>3. ClosesIn(more) = Append(ClosesIn(fed), bar.close)
  <2> DEFINE c == ClosesIn(fed)
             d == Append(c, bar.close)
  <2>1. \A n \in 1..N : c[n] = fed[n].close
    BY DEF ClosesIn
  <2> HIDE DEF c
  <2>2. /\ d \in Seq(Int) /\ Len(d) = N + 1 /\ d[N + 1] = bar.close /\ \A n \in 1..N : d[n] = c[n]
    BY <1>2, AppendFacts DEF c
  <2>3. d = [n \in 1..N + 1 |-> d[n]]
    BY <2>2
  <2> HIDE DEF d
  <2>4. \A n \in 1..N + 1 : d[n] = more[n].close
    <3> SUFFICES ASSUME NEW n \in 1..N + 1 PROVE d[n] = more[n].close
      OBVIOUS
    <3>1. CASE n = N + 1
      BY <1>1, <2>2, <3>1
    <3>2. CASE n # N + 1
      <4>1. n \in 1..N
        BY <1>1, <3>2
      <4> QED
        BY <1>1, <2>1, <2>2, <4>1
    <3> QED
      BY <3>1, <3>2
  <2>5. ClosesIn(more) = [n \in 1..N + 1 |-> more[n].close]
    BY <1>1 DEF ClosesIn
  <2> QED
    BY <2>3, <2>4, <2>5 DEF d, c
<1>4. LastClose(more) = <<bar.close>>
  BY <1>1 DEF LastClose
<1>5. ASSUME RangesIn(fed) \in Seq(Int)
      PROVE  RangesIn(more) = Append(RangesIn(fed), TrueRange(bar, LastClose(fed)))
  <2> DEFINE c == RangesIn(fed)
             x == TrueRange(bar, LastClose(fed))
             d == Append(c, x)
             Earlier(b, n) == IF n = 1 THEN << >> ELSE <<b[n - 1].close>>
  <2>1. c = [n \in 1..N |-> TrueRange(fed[n], Earlier(fed, n))]
    BY DEF RangesIn
  <2>2. x \in Int
    BY InputTypes, TrueRangeType
  <2>3. Len(c) = N
    BY <1>1, <2>1
  <2> HIDE DEF c
  <2>4. \A n \in 1..N : c[n] = TrueRange(fed[n], Earlier(fed, n))
    BY <2>1
  <2>5. x = TrueRange(more[N + 1], Earlier(more, N + 1))
    <3>1. LastClose(fed) = Earlier(more, N + 1)
      <4>1. CASE N = 0
        BY <4>1 DEF LastClose
      <4>2. CASE N # 0
        <5>1. N \in 1..N /\ N + 1 # 1 /\ N + 1 - 1 = N
          BY <1>1, <4>2
        <5> QED
          BY <1>1, <4>2, <5>1 DEF LastClose
      <4> QED
        BY <4>1, <4>2
    <3> QED
      BY <1>1, <3>1
  <2> HIDE DEF x
  <2>6. /\ d \in Seq(Int) /\ Len(d) = N + 1 /\ d[N + 1] = x /\ \A n \in 1..N : d[n] = c[n]
    BY <1>5, <2>2, <2>3, AppendFacts DEF c
  <2> HIDE DEF d
  <2>7. d = [n \in 1..N + 1 |-> d[n]]
    BY <2>6
  <2>8. \A n \in 1..N + 1 : d[n] = TrueRange(more[n], Earlier(more, n))
    <3> SUFFICES ASSUME NEW n \in 1..N + 1 PROVE d[n] = TrueRange(more[n], Earlier(more, n))
      OBVIOUS
    <3>1. CASE n = N + 1
      BY <2>5, <2>6, <3>1
    <3>2. CASE n # N + 1
      <4>1. n \in 1..N /\ (n # 1 => n - 1 \in 1..N)
        BY <1>1, <3>2
      <4>2. more[n] = fed[n] /\ Earlier(more, n) = Earlier(fed, n)
        BY <1>1, <4>1
      <4> HIDE DEF Earlier
      <4> QED
        BY <2>4, <2>6, <4>1, <4>2
    <3> QED
      BY <3>1, <3>2
  <2>9. RangesIn(more) = [n \in 1..N + 1 |-> TrueRange(more[n], Earlier(more, n))]
    BY <1>1 DEF RangesIn
  <2> HIDE DEF Earlier
  <2> QED
    BY <2>7, <2>8, <2>9 DEF d, c, x
<1> QED
  BY <1>1, <1>3, <1>4, <1>5 DEF more

\* Before the first bar ...
LEMMA IndicatorInitInv == IndicatorInit => IndicatorInv
<1> SUFFICES ASSUME IndicatorInit PROVE IndicatorInv
  OBVIOUS
<1>1. period \in Periods /\ period \in Nat \ {0} /\ inputs = << >> /\ inputs \in Seq(Inputs)
  BY InputTypes DEF IndicatorInit
<1>2. ClosesIn(inputs) = << >> /\ RangesIn(inputs) = << >> /\ LastClose(inputs) = << >>
  BY <1>1 DEF ClosesIn, RangesIn, LastClose
<1>3. RangesIn(inputs) \in Seq(Int) /\ Len(inputs) = 0
  <2>1. << >> \in Seq(Int) /\ Len(<< >>) = 0
    OBVIOUS
  <2> QED
    BY <1>1, <1>2, <2>1
<1>4. WindowKept(window, << >>, period)
  BY <1>1, WindowBegins DEF IndicatorInit
<1>5. EmaKept(ema, << >>, period) /\ MacdKept(macd, << >>, period)
  BY <1>1, EmaBegins, MacdBegins DEF IndicatorInit
<1>6. RsiKept(rsi, << >>, period) /\ AtrKept(atr, << >>, << >>, period)
  BY <1>1, RsiBegins, AtrBegins DEF IndicatorInit
<1>7. \A R : DequeKept(<< >>, << >>, period, R)
  <2> DEFINE none == << >>
  <2>1. none \in Seq(Entries) /\ Len(none) = 0
    OBVIOUS
  <2> HIDE DEF none
  <2>2. \A R : DequeKept(none, none, period, R)
    BY <2>1 DEF DequeKept
  <2> QED
    BY <2>2 DEF none
<1>8. highest.count = 0 /\ highest.deque = << >> /\ lowest.count = 0 /\ lowest.deque = << >>
  BY DEF IndicatorInit, NewRolling
<1> QED
  BY <1>1, <1>2, <1>3, <1>4, <1>5, <1>6, <1>7, <1>8 DEF IndicatorInv

\* ... and after each, every indicator has followed the inputs.
LEMMA IndicatorStepInv == IndicatorInv /\ [Update]_indicatorVars => IndicatorInv'
<1> SUFFICES ASSUME IndicatorInv, [Update]_indicatorVars PROVE IndicatorInv'
  OBVIOUS
<1>1. CASE UNCHANGED indicatorVars
  BY <1>1 DEF IndicatorInv, indicatorVars, ClosesIn, RangesIn, LastClose
<1>2. CASE Update
  <2>1. PICK bar \in Inputs :
          /\ inputs' = Append(inputs, bar)
          /\ window' = Slide(window, bar.close, period)
          /\ ema' = EmaUpdate(ema, bar.close, period)
          /\ macd' = MacdUpdate(macd, bar.close, period)
          /\ highest' = RollingMaxUpdate(highest, bar.close, period)
          /\ lowest' = RollingMinUpdate(lowest, bar.close, period)
          /\ rsi' = RsiUpdate(rsi, bar.close, period)
          /\ atr' = AtrUpdate(atr, bar, period)
    BY <1>2 DEF Update
  <2>2. period' = period
    BY <1>2 DEF Update
  <2> DEFINE c == ClosesIn(inputs)
             x == bar.close
  <2>3. /\ period \in Periods /\ period \in Nat \ {0} /\ inputs \in Seq(Inputs)
        /\ c \in Seq(Int) /\ Len(c) = Len(inputs) /\ x \in Int
        /\ {bar.high, bar.low, bar.close} \subseteq Int
    BY InputTypes DEF IndicatorInv
  <2>4. /\ inputs' \in Seq(Inputs) /\ ClosesIn(inputs)' = Append(c, x)
        /\ LastClose(inputs)' = <<bar.close>> /\ Len(inputs)' = Len(Append(c, x))
        /\ RangesIn(inputs)' = Append(RangesIn(inputs), TrueRange(bar, LastClose(inputs)))
    <3>1. ClosesIn(inputs)' = ClosesIn(inputs') /\ RangesIn(inputs)' = RangesIn(inputs')
          /\ LastClose(inputs)' = LastClose(inputs')
      BY DEF ClosesIn, RangesIn, LastClose
    <3>2. RangesIn(inputs) \in Seq(Int)
      BY DEF IndicatorInv
    <3>3. Len(Append(c, x)) = Len(c) + 1
      BY <2>3, AppendFacts
    <3> QED
      BY <2>1, <2>3, <3>1, <3>2, <3>3, BarFed
  <2>5. WindowKept(window', Append(c, x), period)
    BY <2>1, <2>3, WindowStep DEF IndicatorInv
  <2>6. EmaKept(ema', Append(c, x), period)
    BY <2>1, <2>3, EmaStep DEF IndicatorInv
  <2>7. MacdKept(macd', Append(c, x), period)
    BY <2>1, <2>3, MacdStep DEF IndicatorInv
  <2>8. highest'.count = Len(Append(c, x)) /\ DequeKept(highest'.deque, Append(c, x), period, AtMost)
    <3>1. highest.count = Len(c) /\ DequeKept(highest.deque, c, period, AtMost)
      BY <2>3 DEF IndicatorInv
    <3>2. \A n \in DOMAIN highest.deque : highest.deque[n].value \in Int
      <4>1. highest.deque \in Seq(Entries)
        BY <3>1 DEF DequeKept
      <4>2. \A n \in DOMAIN highest.deque : highest.deque[n] \in Entries
        BY <4>1
      <4> QED
        BY <4>2 DEF Entries
    <3> DEFINE beaten == {n \in DOMAIN highest.deque : highest.deque[n].value <= x}
    <3>3. beaten = {n \in DOMAIN highest.deque : <<highest.deque[n].value, x>> \in AtMost}
      <4>1. \A n \in DOMAIN highest.deque :
              highest.deque[n].value <= x <=> <<highest.deque[n].value, x>> \in AtMost
        BY <2>3, <3>2, Compared
      <4> QED
        BY <4>1
    <3>4. highest' = RollingUpdate(highest, x, period, beaten)
      BY <2>1 DEF RollingMaxUpdate
    <3>5. Ranks(AtMost) /\ Ranks(AtLeast)
      BY Compared
    <3> HIDE DEF beaten, c, x
    <3> QED
      BY <2>3, <3>1, <3>3, <3>4, <3>5, DequeStep
  <2>9. lowest'.count = Len(Append(c, x)) /\ DequeKept(lowest'.deque, Append(c, x), period, AtLeast)
    <3>1. lowest.count = Len(c) /\ DequeKept(lowest.deque, c, period, AtLeast)
      BY <2>3 DEF IndicatorInv
    <3>2. \A n \in DOMAIN lowest.deque : lowest.deque[n].value \in Int
      <4>1. lowest.deque \in Seq(Entries)
        BY <3>1 DEF DequeKept
      <4>2. \A n \in DOMAIN lowest.deque : lowest.deque[n] \in Entries
        BY <4>1
      <4> QED
        BY <4>2 DEF Entries
    <3> DEFINE beaten == {n \in DOMAIN lowest.deque : lowest.deque[n].value >= x}
    <3>3. beaten = {n \in DOMAIN lowest.deque : <<lowest.deque[n].value, x>> \in AtLeast}
      <4>1. \A n \in DOMAIN lowest.deque :
              lowest.deque[n].value >= x <=> <<lowest.deque[n].value, x>> \in AtLeast
        BY <2>3, <3>2, Compared
      <4> QED
        BY <4>1
    <3>4. lowest' = RollingUpdate(lowest, x, period, beaten)
      BY <2>1 DEF RollingMinUpdate
    <3>5. Ranks(AtMost) /\ Ranks(AtLeast)
      BY Compared
    <3> HIDE DEF beaten, c, x
    <3> QED
      BY <2>3, <3>1, <3>3, <3>4, <3>5, DequeStep
  <2>10. RsiKept(rsi', Append(c, x), period)
    BY <2>1, <2>3, RsiStep DEF IndicatorInv
  <2>11. /\ RangesIn(inputs)' \in Seq(Int)
         /\ AtrKept(atr', RangesIn(inputs)', LastClose(inputs)', period)
    <3>1. RangesIn(inputs) \in Seq(Int) /\ AtrKept(atr, RangesIn(inputs), LastClose(inputs), period)
      BY DEF IndicatorInv
    <3> DEFINE g == RangesIn(inputs)
               last == LastClose(inputs)
    <3> HIDE DEF g, last
    <3>2. /\ TrueRange(bar, last) \in Int
          /\ AtrKept(AtrUpdate(atr, bar, period), Append(g, TrueRange(bar, last)), <<bar.close>>, period)
      BY <2>3, <3>1, AtrStep DEF g, last
    <3>3. Append(g, TrueRange(bar, last)) \in Seq(Int)
      BY <3>1, <3>2 DEF g
    <3> QED
      BY <2>1, <2>4, <3>2, <3>3 DEF g, last
  <2> HIDE DEF c, x
  <2> QED
    BY <2>2, <2>3, <2>4, <2>5, <2>6, <2>7, <2>8, <2>9, <2>10, <2>11 DEF IndicatorInv
<1> QED
  BY <1>1, <1>2

-----------------------------------------------------------------------------
(* What the readings are                                                    *)

\* The extremes of what a sequence holds.
LEMMA SequenceExtremes ==
  ASSUME NEW s \in Seq(Int), Len(s) > 0
  PROVE  LET S == {s[n] : n \in 1..Len(s)}
         IN  /\ Min(S) \in Int /\ Max(S) \in Int
             /\ \A n \in 1..Len(s) : Min(S) <= s[n] /\ s[n] <= Max(S)
<1> DEFINE S == {s[n] : n \in 1..Len(s)}
           Top(k) == \E m \in 1..k : \A n \in 1..k : s[n] <= s[m]
           Low(k) == \E m \in 1..k : \A n \in 1..k : s[m] <= s[n]
           Fail == {k \in 1..Len(s) : ~(Top(k) /\ Low(k))}
<1>1. Len(s) \in Nat /\ \A n \in 1..Len(s) : s[n] \in Int
  OBVIOUS
<1>2. ASSUME Fail # {} PROVE FALSE
  <2>1. PICK k \in Fail : \A j \in Fail : k <= j
    <3>1. Fail \subseteq Nat
      BY <1>1
    <3> HIDE DEF Fail
    <3> QED
      BY <1>2, <3>1, LeastNat
  <2>2. k \in 1..Len(s) /\ ~(Top(k) /\ Low(k))
    OBVIOUS
  <2>3. CASE k = 1
    <3>1. Top(k) /\ Low(k)
      BY <1>1, <2>2, <2>3
    <3> QED
      BY <2>2, <3>1
  <2>4. CASE k # 1
    <3>1. k - 1 \in 1..Len(s) /\ ~(k <= k - 1)
      BY <1>1, <2>2, <2>4
    <3>2. k - 1 \notin Fail
      BY <2>1, <3>1
    <3>3. Top(k - 1) /\ Low(k - 1)
      BY <3>1, <3>2
    <3>4. \A n \in 1..k : n \in 1..(k - 1) \/ n = k
      BY <2>2
    <3>5. \A n \in 1..(k - 1) : n \in 1..k /\ n \in 1..Len(s)
      BY <1>1, <2>2
    <3>6. Top(k)
      <4>1. PICK m \in 1..(k - 1) : \A n \in 1..(k - 1) : s[n] <= s[m]
        BY <3>3
      <4>2. m \in 1..k /\ k \in 1..k /\ s[m] \in Int /\ s[k] \in Int
        BY <1>1, <2>2, <3>5
      <4>3. CASE s[k] <= s[m]
        <5>1. \A n \in 1..k : s[n] <= s[m]
          BY <3>4, <4>1, <4>3
        <5> QED
          BY <4>2, <5>1
      <4>4. CASE s[m] <= s[k]
        <5>1. ASSUME NEW n \in 1..(k - 1) PROVE s[n] <= s[k]
          <6>1. s[n] \in Int /\ s[n] <= s[m]
            BY <1>1, <3>5, <4>1
          <6> QED
            BY <4>2, <4>4, <6>1
        <5>2. \A n \in 1..k : s[n] <= s[k]
          BY <3>4, <4>2, <5>1
        <5> QED
          BY <4>2, <5>2
      <4>5. s[k] <= s[m] \/ s[m] <= s[k]
        BY <4>2
      <4> QED
        BY <4>3, <4>4, <4>5
    <3>7. Low(k)
      <4>1. PICK m \in 1..(k - 1) : \A n \in 1..(k - 1) : s[m] <= s[n]
        BY <3>3
      <4>2. m \in 1..k /\ k \in 1..k /\ s[m] \in Int /\ s[k] \in Int
        BY <1>1, <2>2, <3>5
      <4>3. CASE s[m] <= s[k]
        <5>1. \A n \in 1..k : s[m] <= s[n]
          BY <3>4, <4>1, <4>3
        <5> QED
          BY <4>2, <5>1
      <4>4. CASE s[k] <= s[m]
        <5>1. ASSUME NEW n \in 1..(k - 1) PROVE s[k] <= s[n]
          <6>1. s[n] \in Int /\ s[m] <= s[n]
            BY <1>1, <3>5, <4>1
          <6> QED
            BY <4>2, <4>4, <6>1
        <5>2. \A n \in 1..k : s[k] <= s[n]
          BY <3>4, <4>2, <5>1
        <5> QED
          BY <4>2, <5>2
      <4>5. s[k] <= s[m] \/ s[m] <= s[k]
        BY <4>2
      <4> QED
        BY <4>3, <4>4, <4>5
    <3> QED
      BY <2>2, <3>6, <3>7
  <2> QED
    BY <2>3, <2>4
<1>3. Top(Len(s)) /\ Low(Len(s))
  <2>1. Len(s) \in 1..Len(s)
    BY <1>1
  <2> QED
    BY <1>2, <2>1
<1>4. Max(S) \in S /\ \A y \in S : Max(S) >= y
  <2>1. \E y \in S : \A z \in S : y >= z
    BY <1>1, <1>3
  <2> HIDE DEF S
  <2> QED
    BY <2>1 DEF Max
<1>5. Min(S) \in S /\ \A y \in S : Min(S) <= y
  <2>1. \E y \in S : \A z \in S : y <= z
    BY <1>1, <1>3
  <2> HIDE DEF S
  <2> QED
    BY <2>1 DEF Min
<1>6. S \subseteq Int
  BY <1>1
<1> QED
  BY <1>1, <1>4, <1>5, <1>6

\* The closes fed, as the properties have them.
LEMMA ClosesAre ==
  ASSUME IndicatorInv
  PROVE  /\ Closes = ClosesIn(inputs) /\ Closes \in Seq(Int) /\ Len(Closes) = Len(inputs)
         /\ Len(inputs) \in Nat /\ DOMAIN inputs = 1..Len(inputs) /\ period \in Nat \ {0}
<1>1. inputs \in Seq(Inputs) /\ period \in Nat \ {0}
  BY InputTypes DEF IndicatorInv
<1>2. DOMAIN inputs = 1..Len(inputs)
  BY <1>1
<1>3. Closes = ClosesIn(inputs)
  BY <1>2 DEF Closes, ClosesIn
<1> QED
  BY <1>1, <1>2, <1>3, InputTypes

\* A reading is there from the update that warm_up_bars names.
LEMMA WarmUpsAreRight == IndicatorInv => WarmUpsHold
<1> SUFFICES ASSUME IndicatorInv PROVE WarmUpsHold
  OBVIOUS
<1> DEFINE N == Len(inputs)
           p == period
<1>1. N \in Nat /\ p \in Nat \ {0} /\ Len(ClosesIn(inputs)) = N
  BY ClosesAre
<1> HIDE DEF N, p
<1>2. Len(window.buf) = IF N < p THEN N ELSE p
  BY <1>1 DEF IndicatorInv, WindowKept, N, p
<1>3. \A r : <<r>> # NoReading
  BY ReadingCases
<1>4. SmaReading(window, p) # NoReading <=> N >= p
  BY <1>1, <1>2, <1>3 DEF SmaReading
<1>5. BollingerReading(window, p) # NoReading <=> N >= p
  BY <1>1, <1>2, <1>3 DEF BollingerReading
<1>6. ema.reading # NoReading <=> N >= p
  BY <1>1 DEF IndicatorInv, EmaKept, N, p
<1>7. macd.reading # NoReading <=> N >= (p + 1) + SignalPeriod - 1
  <2>1. SignalPeriod \in Nat \ {0}
    BY IndicatorAssumption
  <2>2. PICK line \in Seq(Int) :
          /\ Len(line) = IF N <= p THEN 0 ELSE N - p
          /\ EmaKept(macd.signal, line, SignalPeriod)
    BY <1>1 DEF IndicatorInv, MacdKept, N, p
  <2>3. macd.reading # NoReading <=> Len(line) >= SignalPeriod
    BY <2>2 DEF IndicatorInv, MacdKept, EmaKept
  <2> QED
    BY <1>1, <2>1, <2>2, <2>3
<1>8. /\ RollingReading(highest, p) # NoReading <=> N >= p
      /\ RollingReading(lowest, p) # NoReading <=> N >= p
  BY <1>3 DEF IndicatorInv, RollingReading, N
<1>9. rsi.reading # NoReading <=> N >= p + 1
  <2>1. rsi.seeded <=> N > p
    BY <1>1 DEF IndicatorInv, RsiKept, N, p
  <2>2. rsi.reading # NoReading <=> rsi.seeded
    BY <1>3 DEF IndicatorInv, RsiKept
  <2> QED
    BY <1>1, <2>1, <2>2
<1>10. atr.reading # NoReading <=> N >= p
  <2>1. Len(RangesIn(inputs)) = N
    BY <1>1 DEF RangesIn, N
  <2> QED
    BY <2>1 DEF IndicatorInv, AtrKept, N, p
<1> QED
  BY <1>4, <1>5, <1>6, <1>7, <1>8, <1>9, <1>10 DEF WarmUpsHold, N, p

\* A full window holds the recent inputs.
LEMMA WindowIsRecent ==
  ASSUME IndicatorInv, Len(inputs) >= period
  PROVE  /\ window.buf = Recent /\ Recent \in Seq(Int) /\ Len(Recent) = period
         /\ DOMAIN Recent = 1..period
         /\ \A i \in 1..period : Recent[i] = Closes[Len(inputs) - period + i]
<1> DEFINE N == Len(inputs)
           p == period
           c == Closes
           b == window.buf
           s == Recent
<1>1. c \in Seq(Int) /\ Len(c) = N /\ N \in Nat /\ p \in Nat \ {0} /\ N >= p
  BY ClosesAre
<1>2. s = SubSeq(c, N - p + 1, N)
  BY <1>1 DEF Recent
<1>3. /\ b \in Seq(Int) /\ Len(b) = IF N < p THEN N ELSE p
      /\ \A i \in 1..Len(b) : b[i] = c[N - Len(b) + i]
  BY ClosesAre DEF IndicatorInv, WindowKept
<1> HIDE DEF N, p, c, b, s
<1>4. Len(b) = p /\ \A i \in 1..p : b[i] = c[N - p + i]
  BY <1>1, <1>3
<1>5. s \in Seq(Int) /\ Len(s) = p /\ \A i \in 1..p : s[i] = c[N - p + i]
  <2>1. ASSUME NEW a \in 1..N
        PROVE  /\ SubSeq(c, a, N) \in Seq(Int) /\ Len(SubSeq(c, a, N)) = N - a + 1
               /\ \A i \in 1..N - a + 1 : SubSeq(c, a, N)[i] = c[a + i - 1]
    BY <1>1
  <2>2. N - p + 1 \in 1..N /\ N - (N - p + 1) + 1 = p /\ \A i \in 1..p : N - p + 1 + i - 1 = N - p + i
    BY <1>1
  <2> QED
    BY <1>2, <2>1, <2>2
<1>6. b = s
  <2>1. b = [i \in 1..p |-> b[i]] /\ s = [i \in 1..p |-> s[i]]
    BY <1>1, <1>3, <1>4, <1>5
  <2>2. \A i \in 1..p : b[i] = s[i]
    BY <1>4, <1>5
  <2> QED
    BY <2>1, <2>2
<1>7. DOMAIN s = 1..p
  BY <1>1, <1>5
<1> QED
  BY <1>5, <1>6, <1>7 DEF N, p, c, b, s

\* The bands are as wide as the deviation allows.
LEMMA BandFits ==
  ASSUME NEW k \in Nat, NEW root \in Nat, NEW p \in Nat, NEW variance \in Nat, NEW deviation \in Nat,
         root * root <= variance, p * variance <= deviation
  PROVE  (k * root) * (k * root) * p <= k * k * deviation
<1>1. root * root \in Nat /\ k * k \in Nat /\ p * variance \in Nat
  OBVIOUS
<1>2. p * (root * root) <= p * variance /\ p * (root * root) \in Int
  BY <1>1, TimesGrows
<1>3. (k * k) * (p * (root * root)) <= (k * k) * deviation
  BY <1>1, <1>2, TimesGrows
<1>4. (k * root) * (k * root) * p = (k * k) * (p * (root * root))
  OBVIOUS
<1> QED
  BY <1>3, <1>4

\* The windowed indicators read what a scan of the last inputs gives.
LEMMA WindowsAreScans == IndicatorInv => WindowsScan
<1> SUFFICES ASSUME IndicatorInv, Len(inputs) >= period PROVE WindowsScan
  BY DEF WindowsScan
<1> DEFINE p == period
           s == Recent
           N == Len(inputs)
           mean == TruncDiv(Sum(s), p)
           squares == [n \in 1..p |-> (s[n] - mean) * (s[n] - mean)]
           deviation == Sum(squares)
           band == Head(BollingerReading(window, p))
<1>1. /\ window.buf = s /\ s \in Seq(Int) /\ Len(s) = p /\ DOMAIN s = 1..p
      /\ \A i \in 1..p : s[i] = Closes[N - p + i]
      /\ p \in Nat \ {0} /\ N \in Nat /\ N >= p
  BY WindowIsRecent, ClosesAre
<1>2. window.sum = Sum(s) /\ Sum(s) \in Int
  BY <1>1, SumIs DEF IndicatorInv, WindowKept
<1>3. SmaReading(window, p) = <<mean>>
  BY <1>1, <1>2 DEF SmaReading
<1>4. mean \in Int
  BY <1>1, <1>2, TruncDivType
<1> HIDE DEF mean, s, p, N
<1>5. \A n \in 1..p : squares[n] \in Nat
  <2> SUFFICES ASSUME NEW n \in 1..p PROVE (s[n] - mean) * (s[n] - mean) \in Nat
    OBVIOUS
  <2>1. s[n] - mean \in Int
    BY <1>1, <1>4
  <2>2. \A a \in Int : a * a \in Nat
    OBVIOUS
  <2> QED
    BY <2>1, <2>2
<1>6. deviation \in Nat
  <2>1. squares \in Seq(Int) /\ Len(squares) = p
    BY <1>1, <1>5
  <2> DEFINE zero == [n \in 1..p |-> 0]
  <2>2. IsFiniteSet(1..p)
    BY <1>1, FS_Interval
  <2> HIDE DEF squares
  <2>3. deviation = SumFunctionOnSet(squares, 1..p) /\ deviation \in Int
    BY <2>1, SumIs
  <2>4. SumFunctionOnSet(zero, 1..p) <= SumFunctionOnSet(squares, 1..p)
    <3>1. \A n \in 1..p : zero[n] \in Int /\ squares[n] \in Int /\ zero[n] <= squares[n]
      BY <1>5
    <3> HIDE DEF zero
    <3> QED
      BY <2>2, <3>1, SumMonotone
  <2>5. SumFunctionOnSet(zero, 1..p) = 0
    <3>1. \A n \in 1..p : zero[n] = 0
      OBVIOUS
    <3> HIDE DEF zero
    <3> QED
      BY <2>2, <3>1, SumZero
  <2> QED
    BY <2>3, <2>4, <2>5
<1> DEFINE variance == deviation \div p
           spread == BandWidth * Root(variance)
<1>7. BollingerReading(window, p) = <<[mid |-> mean, upper |-> mean + spread, lower |-> mean - spread]>>
  <2>1. squares = [n \in DOMAIN window.buf |-> (window.buf[n] - mean) * (window.buf[n] - mean)]
    BY <1>1
  <2>2. mean = TruncDiv(window.sum, p)
    BY <1>2 DEF mean
  <2>3. ~(Len(window.buf) < p)
    BY <1>1
  <2> HIDE DEF squares
  <2> QED
    BY <2>1, <2>2, <2>3 DEF BollingerReading
<1> HIDE DEF deviation
<1>8. variance \in Nat /\ p * variance <= deviation
  BY <1>1, <1>6
<1> HIDE DEF variance
<1>9. Root(variance) \in Nat /\ Root(variance) * Root(variance) <= variance
  BY <1>8, RootFacts
<1>10. BandWidth \in Nat /\ spread \in Nat
  <2>1. BandWidth \in Nat
    BY IndicatorAssumption
  <2> QED
    BY <1>9, <2>1
<1>11. spread * spread * p <= BandWidth * BandWidth * deviation
  BY <1>1, <1>6, <1>8, <1>9, <1>10, BandFits
<1> HIDE DEF spread
<1>12. band.mid = mean /\ band.upper = mean + spread /\ band.lower = mean - spread
  BY <1>7
<1> HIDE DEF band
<1>13. /\ band.upper - mean = spread /\ mean - band.lower = spread /\ band.upper >= mean
  BY <1>4, <1>10, <1>12
<1>14. ToSet(s) = {s[i] : i \in 1..p}
  BY <1>1 DEF ToSet
<1>15. RollingReading(highest, p) = <<Max(ToSet(s))>>
  <2> DEFINE h == Head(highest.deque).value
  <2>1. Closes \in Seq(Int) /\ Len(Closes) = N /\ N > 0
    BY <1>1, ClosesAre DEF N
  <2>2. DequeKept(highest.deque, Closes, p, AtMost) /\ highest.count = N
    BY ClosesAre DEF IndicatorInv, p, N
  <2>3. /\ \E n \in 1..N : N < n + p /\ h = Closes[n]
        /\ \A n \in 1..N : N < n + p => <<Closes[n], h>> \in AtMost
    <3>1. Ranks(AtMost) /\ Len(Closes) > 0 /\ p \in Nat \ {0}
      BY <1>1, <2>1, Compared
    <3>2. /\ \E n \in 1..Len(Closes) : Len(Closes) < n + p /\ h = Closes[n]
          /\ \A n \in 1..Len(Closes) : Len(Closes) < n + p => <<Closes[n], h>> \in AtMost
      BY <2>1, <2>2, <3>1, DequeFront
    <3> HIDE DEF h
    <3> QED
      BY <2>1, <3>2
  <2> HIDE DEF h
  <2>4. h \in ToSet(s)
    <3>1. PICK n \in 1..N : N < n + p /\ h = Closes[n]
      BY <2>3
    <3>2. n - (N - p) \in 1..p /\ N - p + (n - (N - p)) = n
      BY <1>1, <3>1
    <3>3. s[n - (N - p)] = h
      BY <1>1, <3>1, <3>2
    <3> QED
      BY <1>14, <3>2, <3>3
  <2>5. \A v \in ToSet(s) : h >= v
    <3> SUFFICES ASSUME NEW i \in 1..p PROVE h >= s[i]
      BY <1>14
    <3>1. N - p + i \in 1..N /\ N < N - p + i + p
      BY <1>1
    <3>2. <<s[i], h>> \in AtMost
      BY <1>1, <2>3, <3>1
    <3>3. s[i] \in Int /\ h \in Int
      BY <3>2 DEF AtMost
    <3> QED
      BY <3>2, <3>3, Compared
  <2>6. ToSet(s) \subseteq Int
    BY <1>1, <1>14
  <2>7. Max(ToSet(s)) = h
    <3> DEFINE S == ToSet(s)
    <3> HIDE DEF S
    <3>1. h \in S /\ (\A v \in S : h >= v) /\ S \subseteq Int
      BY <2>4, <2>5, <2>6 DEF S
    <3>2. Max(S) \in S /\ \A v \in S : Max(S) >= v
      BY <3>1 DEF Max
    <3>3. Max(S) = h
      <4>1. h >= Max(S) /\ Max(S) >= h /\ h \in Int /\ Max(S) \in Int
        BY <3>1, <3>2
      <4> QED
        BY <4>1
    <3> QED
      BY <3>3 DEF S
  <2> QED
    BY <1>1, <2>2, <2>7 DEF RollingReading, h
<1>16. RollingReading(lowest, p) = <<Min(ToSet(s))>>
  <2> DEFINE h == Head(lowest.deque).value
  <2>1. Closes \in Seq(Int) /\ Len(Closes) = N /\ N > 0
    BY <1>1, ClosesAre DEF N
  <2>2. DequeKept(lowest.deque, Closes, p, AtLeast) /\ lowest.count = N
    BY ClosesAre DEF IndicatorInv, p, N
  <2>3. /\ \E n \in 1..N : N < n + p /\ h = Closes[n]
        /\ \A n \in 1..N : N < n + p => <<Closes[n], h>> \in AtLeast
    <3>1. Ranks(AtLeast) /\ Len(Closes) > 0 /\ p \in Nat \ {0}
      BY <1>1, <2>1, Compared
    <3>2. /\ \E n \in 1..Len(Closes) : Len(Closes) < n + p /\ h = Closes[n]
          /\ \A n \in 1..Len(Closes) : Len(Closes) < n + p => <<Closes[n], h>> \in AtLeast
      BY <2>1, <2>2, <3>1, DequeFront
    <3> HIDE DEF h
    <3> QED
      BY <2>1, <3>2
  <2> HIDE DEF h
  <2>4. h \in ToSet(s)
    <3>1. PICK n \in 1..N : N < n + p /\ h = Closes[n]
      BY <2>3
    <3>2. n - (N - p) \in 1..p /\ N - p + (n - (N - p)) = n
      BY <1>1, <3>1
    <3>3. s[n - (N - p)] = h
      BY <1>1, <3>1, <3>2
    <3> QED
      BY <1>14, <3>2, <3>3
  <2>5. \A v \in ToSet(s) : h <= v
    <3> SUFFICES ASSUME NEW i \in 1..p PROVE h <= s[i]
      BY <1>14
    <3>1. N - p + i \in 1..N /\ N < N - p + i + p
      BY <1>1
    <3>2. <<s[i], h>> \in AtLeast
      BY <1>1, <2>3, <3>1
    <3>3. s[i] \in Int /\ h \in Int
      BY <3>2 DEF AtLeast
    <3> QED
      BY <3>2, <3>3, Compared
  <2>6. ToSet(s) \subseteq Int
    BY <1>1, <1>14
  <2>7. Min(ToSet(s)) = h
    <3> DEFINE S == ToSet(s)
    <3> HIDE DEF S
    <3>1. h \in S /\ (\A v \in S : h <= v) /\ S \subseteq Int
      BY <2>4, <2>5, <2>6 DEF S
    <3>2. Min(S) \in S /\ \A v \in S : Min(S) <= v
      BY <3>1 DEF Min
    <3>3. Min(S) = h
      <4>1. h <= Min(S) /\ Min(S) <= h /\ h \in Int /\ Min(S) \in Int
        BY <3>1, <3>2
      <4> QED
        BY <4>1
    <3> QED
      BY <3>3 DEF S
  <2> QED
    BY <1>1, <2>2, <2>7 DEF RollingReading, h
<1>17. /\ SmaReading(window, p) = <<mean>>
       /\ RollingReading(highest, p) = <<Max(ToSet(s))>>
       /\ RollingReading(lowest, p) = <<Min(ToSet(s))>>
       /\ band.mid = mean /\ band.upper - mean = mean - band.lower
       /\ band.upper >= mean
       /\ (band.upper - mean) * (band.upper - mean) * p <= BandWidth * BandWidth * deviation
  BY <1>3, <1>11, <1>12, <1>13, <1>15, <1>16
<1> QED
  BY <1>17 DEF WindowsScan, p, s, mean, deviation, band

\* What a relative strength reads.
LEMMA RsiReads ==
  ASSUME NEW p \in Nat \ {0}, NEW s \in Seq(Int), NEW r, RsiKept(r, s, p),
         r.reading # NoReading
  PROVE  /\ Head(r.reading) \in 0..AllGains
         /\ Rising(s) => Head(r.reading) >= Balanced
         /\ Falling(s) => Head(r.reading) <= Balanced
<1>1. r.avgGain \in Nat /\ r.avgLoss \in Nat
  BY DEF RsiKept, Strengths
<1>2. r.reading = <<Level(r.avgGain, r.avgLoss)>>
  BY DEF RsiKept
<1>3. PICK gains \in Nat, losses \in Nat : gains = r.avgGain /\ losses = r.avgLoss
  BY <1>1
<1>4. /\ Level(gains, losses) \in Int
      /\ 0 <= Level(gains, losses) /\ Level(gains, losses) <= AllGains
      /\ losses = 0 => Level(gains, losses) >= Balanced
      /\ gains = 0 => Level(gains, losses) <= Balanced
  BY LevelFacts
<1>5. PICK v \in Int : v = Level(gains, losses)
  BY <1>4
<1>6. /\ 0 <= v /\ v <= AllGains
      /\ losses = 0 => Balanced <= v
      /\ gains = 0 => v <= Balanced
  BY <1>4, <1>5
<1>7. r.reading = <<v>>
  BY <1>2, <1>3, <1>5
<1>8. Head(r.reading) = v
  BY <1>7
<1>9. (Rising(s) => losses = 0) /\ (Falling(s) => gains = 0)
  BY <1>3 DEF RsiKept
<1>10. Head(r.reading) \in 0..AllGains
  <2>1. v \in 0..AllGains
    BY <1>6 DEF AllGains
  <2> QED
    BY <1>8, <2>1, Zenon
<1>11. Rising(s) => Head(r.reading) >= Balanced
  BY <1>6, <1>8, <1>9 DEF Balanced
<1>12. Falling(s) => Head(r.reading) <= Balanced
  BY <1>6, <1>8, <1>9 DEF Balanced
<1> QED
  BY <1>10, <1>11, <1>12

\* The smoothed ones stay among what they average.
LEMMA ReadingsStayInside == IndicatorInv => SmoothedStayInside
<1> SUFFICES ASSUME IndicatorInv PROVE SmoothedStayInside
  OBVIOUS
<1> DEFINE c == Closes
           g == RangesIn(inputs)
           N == Len(inputs)
           p == period
           ranges == {TrueRange(inputs[n], IF n = 1 THEN << >> ELSE <<Closes[n - 1]>>) :
                        n \in DOMAIN inputs}
           steps  == {Closes[n + 1] - Closes[n] : n \in 1..(Len(inputs) - 1)}
<1>1. /\ c \in Seq(Int) /\ Len(c) = N /\ N \in Nat /\ p \in Nat \ {0} /\ c = ClosesIn(inputs)
      /\ DOMAIN inputs = 1..N
  BY ClosesAre
<1>2. \A s \in Seq(Int), reading \in Readings : \A sum, count :
        /\ reading # NoReading /\ Amid(sum, count, reading, s) /\ Len(s) > 0
        => Head(reading) \in Min({s[n] : n \in 1..Len(s)})..Max({s[n] : n \in 1..Len(s)})
  <2> SUFFICES ASSUME NEW s \in Seq(Int), NEW sum, NEW count, NEW reading \in Readings,
                      reading # NoReading, Amid(sum, count, reading, s), Len(s) > 0
               PROVE  Head(reading) \in Min({s[n] : n \in 1..Len(s)})..Max({s[n] : n \in 1..Len(s)})
    OBVIOUS
  <2> DEFINE lo == Min({s[n] : n \in 1..Len(s)})
             hi == Max({s[n] : n \in 1..Len(s)})
  <2>1. lo \in Int /\ hi \in Int /\ \A n \in 1..Len(s) : lo <= s[n] /\ s[n] <= hi
    BY SequenceExtremes
  <2> HIDE DEF lo, hi
  <2>2. lo <= Head(reading) /\ Head(reading) <= hi /\ Head(reading) \in Int
    BY <2>1, ReadingCases DEF Amid
  <2>3. Head(reading) \in lo..hi
    BY <2>1, <2>2
  <2> QED
    BY <2>3 DEF lo, hi
<1>3. ASSUME ema.reading # NoReading
      PROVE  Head(ema.reading) \in Min(ToSet(c))..Max(ToSet(c))
  <2>1. EmaKept(ema, c, p)
    BY <1>1 DEF IndicatorInv
  <2>2. N > 0
    BY <1>1, <1>3, <2>1 DEF EmaKept
  <2>3. ToSet(c) = {c[n] : n \in 1..Len(c)}
    BY <1>1 DEF ToSet
  <2>4. ema.reading \in Readings /\ Amid(ema.seedSum, ema.count, ema.reading, c)
    BY <2>1 DEF EmaKept, Averages
  <2> HIDE DEF c
  <2> QED
    BY <1>1, <1>2, <1>3, <2>2, <2>3, <2>4
<1>4. ASSUME atr.reading # NoReading
      PROVE  Head(atr.reading) \in Min(ranges)..Max(ranges)
  <2>1. g \in Seq(Int) /\ AtrKept(atr, g, LastClose(inputs), p)
    BY DEF IndicatorInv
  <2>2. Len(g) = N
    BY <1>1 DEF RangesIn
  <2>3. N > 0
    BY <1>1, <1>4, <2>1, <2>2 DEF AtrKept
  <2>4. ranges = {g[n] : n \in 1..Len(g)}
    <3>1. ASSUME NEW n \in 1..N
          PROVE  g[n] = TrueRange(inputs[n], IF n = 1 THEN << >> ELSE <<Closes[n - 1]>>)
      <4>1. g[n] = TrueRange(inputs[n], IF n = 1 THEN << >> ELSE <<inputs[n - 1].close>>)
        BY DEF RangesIn
      <4>2. n # 1 => Closes[n - 1] = inputs[n - 1].close
        <5>1. n # 1 => n - 1 \in 1..N
          BY <1>1
        <5> QED
          BY <1>1, <5>1 DEF ClosesIn
      <4> QED
        BY <4>1, <4>2
    <3> DEFINE R(n) == TrueRange(inputs[n], IF n = 1 THEN << >> ELSE <<Closes[n - 1]>>)
    <3>2. ranges = {R(n) : n \in 1..N}
      BY <1>1
    <3>3. \A n \in 1..N : g[n] = R(n)
      BY <3>1
    <3> HIDE DEF g, ranges, R
    <3>4. {R(n) : n \in 1..N} = {g[n] : n \in 1..N}
      BY <3>3
    <3> QED
      BY <2>2, <3>2, <3>4
  <2>5. atr.reading \in Readings /\ Amid(atr.sum, atr.count, atr.reading, g)
    BY <2>1 DEF AtrKept
  <2> HIDE DEF g, ranges
  <2> QED
    BY <1>2, <1>4, <2>1, <2>2, <2>3, <2>4, <2>5
<1>5. rsi.reading # NoReading =>
        /\ Head(rsi.reading) \in 0..AllGains
        /\ Rising(c) => Head(rsi.reading) >= Balanced
        /\ Falling(c) => Head(rsi.reading) <= Balanced
  <2>1. RsiKept(rsi, c, p)
    BY <1>1 DEF IndicatorInv
  <2> HIDE DEF c, p
  <2> QED
    BY <1>1, <2>1, RsiReads
<1>6. (\A s \in steps : s >= 0) => Rising(c)
  BY <1>1 DEF Rising
<1>7. (\A s \in steps : s <= 0) => Falling(c)
  BY <1>1 DEF Falling
<1> HIDE DEF ranges, steps, c
<1>8. rsi.reading # NoReading =>
        /\ Head(rsi.reading) \in 0..AllGains
        /\ (\A s \in steps : s >= 0) => Head(rsi.reading) >= Balanced
        /\ (\A s \in steps : s <= 0) => Head(rsi.reading) <= Balanced
  BY <1>5, <1>6, <1>7, Zenon
<1>9. ema.reading # NoReading => Head(ema.reading) \in Min(ToSet(c))..Max(ToSet(c))
  BY <1>3, Zenon
<1>10. atr.reading # NoReading => Head(atr.reading) \in Min(ranges)..Max(ranges)
  BY <1>4, Zenon
<1> QED
  BY <1>8, <1>9, <1>10, Zenon DEF SmoothedStayInside, ranges, steps, c

\* Whatever is fed to them and whatever their period, the indicators read what
\* their definitions give, from the bar they say.
THEOREM IndicatorsAreDefinitions == IndicatorSpec => []IndicatorsAgree
<1>1. IndicatorInv => IndicatorsAgree
  BY WarmUpsAreRight, WindowsAreScans, ReadingsStayInside DEF IndicatorsAgree
<1> QED
  BY <1>1, IndicatorInitInv, IndicatorStepInv, PTL DEF IndicatorSpec
=============================================================================

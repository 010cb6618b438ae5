--------------------------- MODULE OperatorProofs ---------------------------
(***************************************************************************)
(* What the operators the models are built from return: the arithmetic of  *)
(* FixedPoint, Keep, a walked sequence, and sums.  The inductions are each *)
(* by the least counterexample: the length of a prefix for sequences, the  *)
(* cardinality of a subset for sums.                                       *)
(***************************************************************************)
EXTENDS Portfolio, Functions, FiniteSetsExt, FiniteSetTheorems, TLAPS

-----------------------------------------------------------------------------
(* FixedPoint stays within the integers *)

\* The magnitude of an integer is a natural number.
LEMMA AbsType == ASSUME NEW n \in Int PROVE Abs(n) \in Nat
  BY DEF Abs

\* The sign of an integer is -1, 0 or 1.
LEMMA SignType == ASSUME NEW n \in Int PROVE Sign(n) \in {-1, 0, 1}
  BY DEF Sign

\* The lesser and the greater of two integers are integers that bound both.
LEMMA LesserGreaterType ==
  ASSUME NEW a \in Int, NEW b \in Int
  PROVE  /\ Lesser(a, b) \in Int /\ Lesser(a, b) <= a /\ Lesser(a, b) <= b
         /\ Greater(a, b) \in Int /\ a <= Greater(a, b) /\ b <= Greater(a, b)
  BY DEF Lesser, Greater

\* Division that truncates toward zero returns an integer.
LEMMA TruncDivType ==
  ASSUME NEW n \in Int, NEW d \in Nat \ {0}
  PROVE  TruncDiv(n, d) \in Int
<1>1. \A m \in Int : m \div d \in Int
  OBVIOUS
<1> QED
  BY <1>1 DEF TruncDiv

\* Division rounded half away from zero returns an integer.
LEMMA RoundDivType ==
  ASSUME NEW n \in Int, NEW d \in Nat \ {0}
  PROVE  RoundDiv(n, d) \in Int
<1>1. d \div 2 \in Int
  OBVIOUS
<1>2. \A m \in Int : m \div d \in Int
  OBVIOUS
<1>3. n + d \div 2 \in Int /\ -n + d \div 2 \in Int
  BY <1>1
<1> QED
  BY <1>2, <1>3 DEF RoundDiv

\* A notional is an integer.
LEMMA NotionalType == ASSUME NEW p \in Int, NEW q \in Int PROVE Notional(p, q) \in Int
  BY DEF Notional

\* An amount's share in basis points is an integer.
LEMMA MulBpsType ==
  ASSUME NEW amount \in Int, NEW bps \in Int
  PROVE  MulBps(amount, bps) \in Int
<1>1. amount * bps \in Int
  OBVIOUS
<1> QED
  BY <1>1, TruncDivType DEF MulBps

\* The average entry price after a fill is an integer, flat or flipped as the
\* position may be.
LEMMA AvgAfterType ==
  ASSUME NEW net \in Int, NEW avg \in Int, NEW signed \in Int, NEW price \in Int
  PROVE  AvgAfter(net, avg, signed, price) \in Int
<1> DEFINE size == Abs(net) + Abs(signed)
           cost == Abs(net) * avg + Abs(signed) * price
<1>1. Abs(net) \in Nat /\ Abs(signed) \in Nat
  BY AbsType
<1>2. size \in Nat /\ cost \in Int
  BY <1>1
<1>3. size # 0 => RoundDiv(cost, size) \in Int
  BY <1>2, RoundDivType
<1> QED
  BY <1>3 DEF AvgAfter

-----------------------------------------------------------------------------
(* What Keep returns: its type, its elements, and no repetition *)

Elements(s) == {s[n] : n \in DOMAIN s}
Distinct(s) == \A m, n \in DOMAIN s : s[m] = s[n] => m = n

\* The equation KeptPrefix solves.
Kept(s, K, kept, n) ==
  IF n = 0 THEN << >>
  ELSE IF s[n] \in K THEN Append(kept[n - 1], s[n]) ELSE kept[n - 1]

\* Every nonempty set of natural numbers has a least element.
LEMMA LeastNat ==
  ASSUME NEW T, T \subseteq Nat, T # {}
  PROVE  \E x \in T : \A y \in T : x <= y
<1>1. IsWellFoundedOn(OpToRel(<, Nat), Nat)
  BY NatLessThanWellFounded
<1>2. PICK x \in T : \A y \in T : <<y, x>> \notin OpToRel(<, Nat)
  BY <1>1, WFMin
<1>3. \A y \in T : ~(y < x)
  BY <1>2 DEF OpToRel
<1>4. \A y \in T : x \in Nat /\ y \in Nat
  OBVIOUS
<1>5. \A y \in T : x <= y
  BY <1>3, <1>4
<1> QED
  BY <1>5

\* Appending adds one element.
LEMMA AppendElements ==
  ASSUME NEW S, NEW s \in Seq(S), NEW e \in S
  PROVE  Elements(Append(s, e)) = Elements(s) \cup {e}
<1>1. /\ DOMAIN s = 1..Len(s) /\ Len(s) \in Nat
      /\ DOMAIN Append(s, e) = 1..Len(s) + 1
      /\ Append(s, e)[Len(s) + 1] = e
      /\ \A n \in 1..Len(s) : Append(s, e)[n] = s[n]
  OBVIOUS
<1>2. 1..Len(s) + 1 = (1..Len(s)) \cup {Len(s) + 1}
  BY <1>1
<1> QED
  BY <1>1, <1>2 DEF Elements

\* Appending an element the sequence does not have keeps it free of repeats.
LEMMA AppendDistinct ==
  ASSUME NEW S, NEW s \in Seq(S), NEW e \in S, Distinct(s), e \notin Elements(s)
  PROVE  Distinct(Append(s, e))
<1>1. /\ DOMAIN s = 1..Len(s) /\ Len(s) \in Nat
      /\ DOMAIN Append(s, e) = 1..Len(s) + 1
      /\ Append(s, e)[Len(s) + 1] = e
      /\ \A n \in 1..Len(s) : Append(s, e)[n] = s[n]
  OBVIOUS
<1>2. \A n \in 1..Len(s) + 1 : n \in 1..Len(s) \/ n = Len(s) + 1
  BY <1>1
<1> QED
  BY <1>1, <1>2 DEF Elements, Distinct

\* KeptPrefix's equation has a solution on every prefix of s, so also on s.
LEMMA KeptExists ==
  ASSUME NEW S, NEW s \in Seq(S), NEW K
  PROVE  \E kept : kept = [n \in 0..Len(s) |-> Kept(s, K, kept, n)]
<1> DEFINE Solved(k) == \E g : g = [n \in 0..k |-> Kept(s, K, g, n)]
           Unsolved  == {k \in 0..Len(s) : ~Solved(k)}
<1>1. Len(s) \in Nat
  OBVIOUS
<1>2. ASSUME Unsolved # {} PROVE FALSE
  <2>1. Unsolved \subseteq Nat
    BY <1>1
  <2>2. PICK k \in Unsolved : \A j \in Unsolved : k <= j
    BY <1>2, <2>1, LeastNat
  <2>3. Solved(0)
    <3> DEFINE g == [n \in 0..0 |-> << >>]
    <3>1. g = [n \in 0..0 |-> Kept(s, K, g, n)]
      BY DEF Kept
    <3> QED
      BY <3>1
  <2>4. k \in Nat /\ k # 0 /\ k - 1 \in 0..Len(s)
    <3>1. k # 0 /\ k \in 0..Len(s)
      BY <2>2, <2>3
    <3> QED
      BY <3>1, <1>1
  <2>5. Solved(k - 1)
    <3> HIDE DEF Solved
    <3>1. k - 1 \notin Unsolved
      BY <2>1, <2>2, <2>4
    <3> QED
      BY <3>1, <2>4
  <2>6. PICK g : g = [n \in 0..k - 1 |-> Kept(s, K, g, n)]
    BY <2>5
  <2> DEFINE h == [n \in 0..k |-> IF n < k THEN g[n] ELSE Kept(s, K, g, k)]
  <2>7. \A n \in 0..k : h[n] = Kept(s, K, h, n)
    <3>1. \A n \in 0..k - 1 : h[n] = g[n]
      BY <2>4
    <3>2. TAKE n \in 0..k
    <3>3. n # 0 => n - 1 \in 0..k - 1
      BY <2>4
    <3>4. Kept(s, K, h, n) = Kept(s, K, g, n)
      BY <3>1, <3>3 DEF Kept
    <3>5. CASE n < k
      <4>1. n \in 0..k - 1
        BY <3>5, <2>4
      <4>2. g[n] = Kept(s, K, g, n)
        BY <2>6, <4>1
      <4> QED
        BY <4>1, <4>2, <3>1, <3>4
    <3>6. CASE ~(n < k)
      <4>1. n = k
        BY <3>6, <2>4
      <4> QED
        BY <4>1, <3>4, <2>4
    <3> QED
      BY <3>5, <3>6
  <2>8. h = [n \in 0..k |-> Kept(s, K, h, n)]
    BY <2>7
  <2>9. Solved(k)
    BY <2>8
  <2> QED
    BY <2>9, <2>2
<1>3. Len(s) \in 0..Len(s)
  BY <1>1
<1> HIDE DEF Solved
<1>4. Solved(Len(s))
  BY <1>2, <1>3
<1> QED
  BY <1>4 DEF Solved

\* KeptPrefix solves its equation.
LEMMA KeptEquation ==
  ASSUME NEW S, NEW s \in Seq(S), NEW K
  PROVE  \A n \in 0..Len(s) :
           KeptPrefix(s, K)[n] = Kept(s, K, KeptPrefix(s, K), n)
<1> DEFINE E(g) == [n \in 0..Len(s) |->
                      IF n = 0 THEN << >>
                      ELSE IF s[n] \in K THEN Append(g[n - 1], s[n]) ELSE g[n - 1]]
<1>1. \E g : g = E(g)
  <2>1. PICK kept : kept = [n \in 0..Len(s) |-> Kept(s, K, kept, n)]
    BY KeptExists
  <2>2. E(kept) = [n \in 0..Len(s) |-> Kept(s, K, kept, n)]
    BY DEF Kept
  <2>3. kept = E(kept)
    BY <2>1, <2>2
  <2> HIDE DEF E
  <2> QED
    BY <2>3
<1>2. KeptPrefix(s, K) = CHOOSE g : g = E(g)
  BY DEF KeptPrefix
<1>3. KeptPrefix(s, K) = E(KeptPrefix(s, K))
  <2> HIDE DEF E
  <2> QED
    BY <1>1, <1>2
<1> QED
  BY <1>3 DEF Kept

\* What is kept of a prefix is a sequence of its elements that are in K, all
\* of them, and without repetition if the argument has none.
LEMMA KeptPrefixFacts ==
  ASSUME NEW S, NEW s \in Seq(S), NEW K, NEW k \in 0..Len(s)
  PROVE  LET kept == KeptPrefix(s, K)[k]
         IN  /\ kept \in Seq(S)
             /\ Elements(kept) = {s[n] : n \in 1..k} \cap K
             /\ Distinct(s) => Distinct(kept)
<1> DEFINE f == KeptPrefix(s, K)
           Holds(j) == /\ f[j] \in Seq(S)
                       /\ Elements(f[j]) = {s[n] : n \in 1..j} \cap K
                       /\ Distinct(s) => Distinct(f[j])
           Fails == {j \in 0..Len(s) : ~Holds(j)}
<1>1. Len(s) \in Nat /\ DOMAIN s = 1..Len(s)
  OBVIOUS
<1>2. ASSUME Fails # {} PROVE FALSE
  <2>1. Fails \subseteq Nat
    BY <1>1
  <2>2. PICK j \in Fails : \A i \in Fails : j <= i
    BY <1>2, <2>1, LeastNat
  <2>3. j \in Nat /\ j \in 0..Len(s) /\ ~Holds(j)
    BY <1>1, <2>2
  <2>4. f[j] = Kept(s, K, f, j)
    BY <2>3, KeptEquation
  <2>5. CASE j = 0
    <3>1. f[j] = << >>
      BY <2>4, <2>5 DEF Kept
    <3>2. f[j] \in Seq(S) /\ Elements(f[j]) = {} /\ Distinct(f[j])
      BY <3>1 DEF Elements, Distinct
    <3>3. {s[n] : n \in 1..j} = {}
      BY <2>5
    <3> QED
      BY <3>2, <3>3, <2>3
  <2>6. CASE j # 0
    <3>1. j - 1 \in Nat /\ j - 1 \in 0..Len(s) /\ j \in 1..Len(s)
      BY <2>3, <2>6, <1>1
    <3>2. Holds(j - 1)
      <4> HIDE DEF Holds
      <4>1. j - 1 \notin Fails
        BY <2>1, <2>2, <3>1
      <4> QED
        BY <4>1, <3>1
    <3>3. s[j] \in S
      BY <3>1
    <3>4. {s[n] : n \in 1..j} = {s[n] : n \in 1..j - 1} \cup {s[j]}
      BY <3>1
    <3>5. CASE s[j] \in K
      <4>1. f[j] = Append(f[j - 1], s[j])
        BY <2>4, <2>6, <3>5 DEF Kept
      <4>2. f[j] \in Seq(S)
        BY <4>1, <3>2, <3>3
      <4>3. Elements(f[j]) = Elements(f[j - 1]) \cup {s[j]}
        BY <4>1, <3>2, <3>3, AppendElements
      <4>4. Distinct(s) => s[j] \notin Elements(f[j - 1])
        BY <3>1, <3>2, <1>1 DEF Distinct
      <4>5. ASSUME Distinct(s) PROVE Distinct(f[j])
        <5>1. /\ f[j - 1] \in Seq(S) /\ Distinct(f[j - 1])
              /\ s[j] \notin Elements(f[j - 1])
          BY <3>2, <4>4, <4>5
        <5>2. Distinct(Append(f[j - 1], s[j]))
          BY <3>3, <5>1, AppendDistinct
        <5> QED
          BY <4>1, <5>2
      <4> QED
        BY <4>2, <4>3, <4>5, <3>2, <3>4, <3>5, <2>3
    <3>6. CASE s[j] \notin K
      <4>1. f[j] = f[j - 1]
        BY <2>4, <2>6, <3>6 DEF Kept
      <4> QED
        BY <4>1, <3>2, <3>4, <3>6, <2>3
    <3> QED
      BY <3>5, <3>6
  <2> QED
    BY <2>5, <2>6
<1> HIDE DEF Holds
<1>3. Holds(k)
  BY <1>2
<1> QED
  BY <1>3 DEF Holds

\* Keep returns the elements of its argument that are in K, in a sequence
\* that repeats none if the argument repeats none.
LEMMA KeepFacts ==
  ASSUME NEW S, NEW s \in Seq(S), NEW K
  PROVE  /\ Keep(s, K) \in Seq(S)
         /\ Elements(Keep(s, K)) = Elements(s) \cap K
         /\ Distinct(s) => Distinct(Keep(s, K))
<1>1. Len(s) \in 0..Len(s) /\ Elements(s) = {s[n] : n \in 1..Len(s)}
  BY DEF Elements
<1> DEFINE kept == KeptPrefix(s, K)[Len(s)]
<1>2. /\ kept \in Seq(S)
      /\ Elements(kept) = {s[n] : n \in 1..Len(s)} \cap K
      /\ Distinct(s) => Distinct(kept)
  BY <1>1, KeptPrefixFacts
<1>3. Keep(s, K) = kept
  BY DEF Keep
<1> QED
  BY <1>1, <1>2, <1>3

-----------------------------------------------------------------------------
(* A sequence in two parts, whose second part is walked from its head *)

\* A concatenation has the elements of both parts.
LEMMA ConcatElements ==
  ASSUME NEW S, NEW s \in Seq(S), NEW t \in Seq(S)
  PROVE  Elements(s \o t) = Elements(s) \cup Elements(t)
<1>1. /\ Len(s) \in Nat /\ Len(t) \in Nat
      /\ DOMAIN s = 1..Len(s) /\ DOMAIN t = 1..Len(t)
      /\ DOMAIN (s \o t) = 1..Len(s) + Len(t)
      /\ \A n \in 1..Len(s) : (s \o t)[n] = s[n]
      /\ \A n \in 1..Len(t) : (s \o t)[Len(s) + n] = t[n]
  OBVIOUS
<1>2. ASSUME NEW n \in 1..Len(s) + Len(t)
      PROVE  n \in 1..Len(s) \/ \E m \in 1..Len(t) : n = Len(s) + m
  <2>1. n \notin 1..Len(s) => n - Len(s) \in 1..Len(t) /\ n = Len(s) + (n - Len(s))
    BY <1>1
  <2> QED
    BY <2>1
<1>3. Elements(s \o t) \subseteq Elements(s) \cup Elements(t)
  <2> SUFFICES ASSUME NEW n \in 1..Len(s) + Len(t)
               PROVE  (s \o t)[n] \in Elements(s) \cup Elements(t)
    BY <1>1 DEF Elements
  <2>1. CASE n \in 1..Len(s)
    BY <1>1, <2>1 DEF Elements
  <2>2. ASSUME NEW m \in 1..Len(t), n = Len(s) + m
        PROVE  (s \o t)[n] \in Elements(t)
    BY <1>1, <2>2 DEF Elements
  <2> QED
    BY <1>2, <2>1, <2>2
<1>4. /\ \A n \in 1..Len(s) : n \in 1..Len(s) + Len(t)
      /\ \A n \in 1..Len(t) : Len(s) + n \in 1..Len(s) + Len(t)
  BY <1>1
<1>5. Elements(s) \cup Elements(t) \subseteq Elements(s \o t)
  BY <1>1, <1>4 DEF Elements
<1> QED
  BY <1>3, <1>5

\* Moving the head of the second part to the end of the first changes nothing.
LEMMA MoveHead ==
  ASSUME NEW S, NEW s \in Seq(S), NEW t \in Seq(S), t # << >>
  PROVE  Append(s, Head(t)) \o Tail(t) = s \o t
  OBVIOUS

\* Dropping it removes that element, and brings no repetition in.
LEMMA DropHead ==
  ASSUME NEW S, NEW s \in Seq(S), NEW t \in Seq(S), t # << >>, Distinct(s \o t)
  PROVE  /\ Distinct(s \o Tail(t))
         /\ Elements(s \o Tail(t)) = Elements(s \o t) \ {Head(t)}
<1> DEFINE old == s \o t
           new == s \o Tail(t)
<1>1. /\ Len(s) \in Nat /\ Len(t) \in Nat /\ Len(t) > 0
      /\ DOMAIN old = 1..Len(s) + Len(t)
      /\ DOMAIN new = 1..Len(s) + Len(t) - 1
      /\ \A n \in 1..Len(s) : new[n] = old[n]
      /\ \A n \in Len(s) + 1..Len(s) + Len(t) - 1 : new[n] = old[n + 1]
      /\ old[Len(s) + 1] = Head(t)
  OBVIOUS
<1>2. \A m, n \in DOMAIN old : old[m] = old[n] => m = n
  BY DEF Distinct
<1> HIDE DEF old, new
<1>3. Distinct(new)
  <2> SUFFICES ASSUME NEW m \in DOMAIN new, NEW n \in DOMAIN new, new[m] = new[n]
               PROVE  m = n
    BY DEF Distinct
  <2> DEFINE Shift(k) == IF k <= Len(s) THEN k ELSE k + 1
  <2>1. \A k \in DOMAIN new : Shift(k) \in DOMAIN old /\ new[k] = old[Shift(k)]
    BY <1>1
  <2>2. Shift(m) = Shift(n)
    BY <1>2, <2>1
  <2> QED
    BY <1>1, <2>2
<1>4. Elements(new) \subseteq Elements(old) \ {Head(t)}
  <2>1. ASSUME NEW n \in DOMAIN new
        PROVE  \E m \in DOMAIN old : m # Len(s) + 1 /\ new[n] = old[m]
    <3>1. CASE n <= Len(s)
      BY <1>1, <3>1
    <3>2. CASE ~(n <= Len(s))
      <4>1. n + 1 \in DOMAIN old /\ n + 1 # Len(s) + 1 /\ new[n] = old[n + 1]
        BY <1>1, <3>2
      <4> QED
        BY <4>1
    <3> QED
      BY <3>1, <3>2
  <2>2. Len(s) + 1 \in DOMAIN old
    BY <1>1
  <2> QED
    BY <1>1, <1>2, <2>1, <2>2 DEF Elements
<1>5. Elements(old) \ {Head(t)} \subseteq Elements(new)
  <2>1. ASSUME NEW m \in DOMAIN old, m # Len(s) + 1
        PROVE  \E n \in DOMAIN new : new[n] = old[m]
    <3>1. CASE m <= Len(s)
      BY <1>1, <3>1
    <3>2. CASE ~(m <= Len(s))
      <4>1. /\ m - 1 \in DOMAIN new /\ m - 1 \in Len(s) + 1..Len(s) + Len(t) - 1
            /\ (m - 1) + 1 = m
        BY <1>1, <2>1, <3>2
      <4> QED
        BY <1>1, <4>1
    <3> QED
      BY <3>1, <3>2
  <2> QED
    BY <1>1, <2>1 DEF Elements
<1> QED
  BY <1>3, <1>4, <1>5 DEF old, new

\* The second part of a sequence that repeats nothing repeats nothing.
LEMMA SuffixDistinct ==
  ASSUME NEW S, NEW s \in Seq(S), NEW t \in Seq(S), Distinct(s \o t)
  PROVE  Distinct(t)
<1>1. /\ DOMAIN t = 1..Len(t) /\ Len(s) \in Nat /\ Len(t) \in Nat
      /\ DOMAIN (s \o t) = 1..Len(s) + Len(t)
      /\ \A n \in 1..Len(t) : (s \o t)[Len(s) + n] = t[n]
  OBVIOUS
<1>2. \A n \in 1..Len(t) : Len(s) + n \in 1..Len(s) + Len(t)
  BY <1>1
<1>3. ASSUME NEW m \in 1..Len(t), NEW n \in 1..Len(t), t[m] = t[n] PROVE m = n
  <2>1. Len(s) + m = Len(s) + n
    BY <1>1, <1>2, <1>3 DEF Distinct
  <2> QED
    BY <1>1, <2>1
<1> QED
  BY <1>1, <1>3 DEF Distinct

\* Its tail has the elements but the head.
LEMMA TailElements ==
  ASSUME NEW S, NEW t \in Seq(S), t # << >>, Distinct(t)
  PROVE  Elements(Tail(t)) = Elements(t) \ {Head(t)} /\ Head(t) \in Elements(t)
<1>1. /\ DOMAIN t = 1..Len(t) /\ Len(t) \in Nat /\ Len(t) > 0 /\ Head(t) = t[1]
      /\ DOMAIN Tail(t) = 1..Len(t) - 1
      /\ \A n \in 1..Len(t) - 1 : Tail(t)[n] = t[n + 1]
  OBVIOUS
<1>2. 1 \in DOMAIN t /\ \A n \in 1..Len(t) - 1 : n + 1 \in DOMAIN t /\ n + 1 # 1
  BY <1>1
<1>3. \A n \in DOMAIN t : n = 1 \/ (n - 1 \in 1..Len(t) - 1 /\ n - 1 + 1 = n)
  BY <1>1
<1>4. Elements(Tail(t)) \subseteq Elements(t) \ {Head(t)}
  BY <1>1, <1>2 DEF Elements, Distinct
<1>5. ASSUME NEW n \in DOMAIN t, t[n] # Head(t) PROVE t[n] \in Elements(Tail(t))
  <2>1. n - 1 \in DOMAIN Tail(t) /\ Tail(t)[n - 1] = t[n]
    BY <1>1, <1>3, <1>5
  <2> QED
    BY <2>1 DEF Elements
<1>6. Head(t) \in Elements(t)
  BY <1>1, <1>2 DEF Elements
<1> QED
  BY <1>4, <1>5, <1>6 DEF Elements

-----------------------------------------------------------------------------
(* Sums: SumFunctionOnSet of the community modules *)

\* The equation its fold solves, for the sum over s of F.
Folded(F, sum, s) ==
  IF s = {} THEN 0 ELSE LET x == CHOOSE x \in s : TRUE IN F[x] + sum[s \ {x}]

SolvesSum(F, S, sum) == sum = [s \in SUBSET S |-> Folded(F, sum, s)]

\* A property of finite sets fails first at some smallest set: every set of
\* a family, if it has a counterexample, has one of least cardinality.
LEMMA LeastSet ==
  ASSUME NEW C, C # {}, \A s \in C : IsFiniteSet(s)
  PROVE  \E s \in C : \A t \in C : Cardinality(s) <= Cardinality(t)
<1> DEFINE sizes == {Cardinality(s) : s \in C}
<1>1. sizes \subseteq Nat /\ sizes # {}
  BY FS_CardinalityType
<1>2. PICK n \in sizes : \A m \in sizes : n <= m
  BY <1>1, LeastNat
<1> QED
  BY <1>2

\* A member removed leaves a smaller set.
LEMMA Smaller ==
  ASSUME NEW s, IsFiniteSet(s), NEW x \in s
  PROVE  /\ IsFiniteSet(s \ {x})
         /\ Cardinality(s) \in Nat /\ Cardinality(s \ {x}) \in Nat
         /\ ~(Cardinality(s) <= Cardinality(s \ {x}))
<1>1. Cardinality(s) \in Nat
  BY FS_CardinalityType
<1>2. IsFiniteSet(s \ {x}) /\ Cardinality(s \ {x}) = Cardinality(s) - 1
  BY FS_RemoveElement
<1>3. Cardinality(s \ {x}) \in Nat
  BY <1>2, FS_CardinalityType
<1> QED
  BY <1>1, <1>2, <1>3

\* The fold's equation has a solution on the subsets of S.
LEMMA SumExists ==
  ASSUME NEW F, NEW S, IsFiniteSet(S)
  PROVE  \E sum : sum = [s \in SUBSET S |-> Folded(F, sum, s)]
<1> DEFINE Upto(k)   == {s \in SUBSET S : Cardinality(s) <= k}
           Solved(k) == \E g : g = [s \in Upto(k) |-> Folded(F, g, s)]
           Unsolved  == {k \in Nat : ~Solved(k)}
<1>1. \A s \in SUBSET S : IsFiniteSet(s) /\ Cardinality(s) \in Nat
  BY FS_Subset, FS_CardinalityType
<1>2. Solved(0)
  <2> DEFINE g == [s \in Upto(0) |-> 0]
  <2>1. \A s \in Upto(0) : s = {}
    BY <1>1, FS_EmptySet
  <2>2. g = [s \in Upto(0) |-> Folded(F, g, s)]
    BY <2>1 DEF Folded
  <2> QED
    BY <2>2
<1>3. ASSUME NEW k \in Nat, Solved(k) PROVE Solved(k + 1)
  <2>1. PICK g : g = [s \in Upto(k) |-> Folded(F, g, s)]
    BY <1>3
  <2> DEFINE h == [s \in Upto(k + 1) |-> IF s \in Upto(k) THEN g[s] ELSE Folded(F, g, s)]
  <2>2. \A s \in Upto(k + 1) : h[s] = Folded(F, g, s)
    BY <2>1
  <2>3. ASSUME NEW s \in Upto(k + 1) PROVE Folded(F, h, s) = Folded(F, g, s)
    <3>1. CASE s = {}
      BY <3>1 DEF Folded
    <3>2. CASE s # {}
      <4> DEFINE x == CHOOSE x \in s : TRUE
      <4>1. x \in s
        BY <3>2
      <4>2. s \ {x} \in SUBSET S /\ Cardinality(s \ {x}) <= k
        <5>1. IsFiniteSet(s) /\ Cardinality(s) \in Nat /\ Cardinality(s) <= k + 1
          BY <1>1
        <5> HIDE DEF x
        <5>2. Cardinality(s \ {x}) \in Nat /\ ~(Cardinality(s) <= Cardinality(s \ {x}))
          BY <4>1, <5>1, Smaller
        <5> QED
          BY <5>1, <5>2
      <4>3. s \ {x} \in Upto(k) /\ s \ {x} \in Upto(k + 1)
        BY <4>2, <1>1
      <4>4. h[s \ {x}] = g[s \ {x}]
        BY <4>3
      <4> QED
        BY <3>2, <4>4 DEF Folded
    <3> QED
      BY <3>1, <3>2
  <2>4. h = [s \in Upto(k + 1) |-> Folded(F, h, s)]
    BY <2>2, <2>3
  <2> QED
    BY <2>4
<1>4. ASSUME Unsolved # {} PROVE FALSE
  <2> HIDE DEF Solved
  <2>1. PICK k \in Unsolved : \A j \in Unsolved : k <= j
    BY <1>4, LeastNat
  <2>2. k # 0 /\ k - 1 \in Nat /\ k - 1 \notin Unsolved
    BY <1>2, <2>1
  <2>3. Solved(k - 1) /\ (k - 1) + 1 = k
    BY <2>2
  <2> QED
    BY <1>3, <2>1, <2>2, <2>3
<1>5. Solved(Cardinality(S))
  <2> HIDE DEF Solved
  <2> QED
    BY <1>1, <1>4
<1>6. Upto(Cardinality(S)) = SUBSET S
  BY FS_Subset
<1> QED
  BY <1>5, <1>6

\* The fold is that solution.
LEMMA SumSolves ==
  ASSUME NEW F, NEW S, IsFiniteSet(S)
  PROVE  \E sum : SumFunctionOnSet(F, S) = sum[S] /\ SolvesSum(F, S, sum)
<1> DEFINE E(g) == [s \in SUBSET S |->
                      IF s = {} THEN 0
                      ELSE LET x == CHOOSE x \in s : TRUE IN F[x] + g[s \ {x}]]
<1>1. PICK sum : sum = [s \in SUBSET S |-> Folded(F, sum, s)]
  BY SumExists
<1>2. sum = E(sum)
  BY <1>1 DEF Folded
<1>3. SumFunctionOnSet(F, S) = (CHOOSE g : g = E(g))[S]
  BY DEF SumFunctionOnSet, FoldFunctionOnSet, MapThenFoldSet
<1>4. PICK g : g = E(g) /\ SumFunctionOnSet(F, S) = g[S]
  <2> HIDE DEF E
  <2> QED
    BY <1>2, <1>3
<1> QED
  BY <1>4 DEF Folded, SolvesSum

\* Two solutions agree where both are defined.
LEMMA SumUnique ==
  ASSUME NEW F, NEW S, NEW T, IsFiniteSet(S), T \subseteq S,
         NEW f, SolvesSum(F, S, f), NEW g, SolvesSum(F, T, g)
  PROVE  f[T] = g[T]
<1> DEFINE Differ == {s \in SUBSET T : f[s] # g[s]}
<1>1. \A s \in SUBSET T : s \in SUBSET S /\ IsFiniteSet(s)
  BY FS_Subset
<1>2. ASSUME Differ # {} PROVE FALSE
  <2>1. PICK s \in Differ : \A t \in Differ : Cardinality(s) <= Cardinality(t)
    BY <1>1, <1>2, LeastSet
  <2>2. s \in SUBSET T /\ s \in SUBSET S /\ IsFiniteSet(s) /\ f[s] # g[s]
    BY <1>1, <2>1
  <2>3. f[s] = Folded(F, f, s) /\ g[s] = Folded(F, g, s)
    BY <2>2 DEF SolvesSum
  <2>4. s # {}
    BY <2>2, <2>3 DEF Folded
  <2> DEFINE x == CHOOSE x \in s : TRUE
  <2>5. x \in s
    BY <2>4
  <2>6. f[s] = F[x] + f[s \ {x}] /\ g[s] = F[x] + g[s \ {x}]
    BY <2>3, <2>4 DEF Folded
  <2> HIDE DEF x
  <2>7. s \ {x} \notin Differ
    BY <2>1, <2>2, <2>5, Smaller
  <2>8. f[s \ {x}] = g[s \ {x}]
    BY <2>2, <2>7
  <2> QED
    BY <2>2, <2>6, <2>8
<1> QED
  BY <1>2

\* So the sum takes its first member off and goes on.
LEMMA SumStep ==
  ASSUME NEW F, NEW S, IsFiniteSet(S)
  PROVE  /\ S = {} => SumFunctionOnSet(F, S) = 0
         /\ S # {} => \E x \in S : SumFunctionOnSet(F, S) = F[x] + SumFunctionOnSet(F, S \ {x})
<1>1. PICK f : SumFunctionOnSet(F, S) = f[S] /\ SolvesSum(F, S, f)
  BY SumSolves
<1>2. f[S] = Folded(F, f, S)
  BY <1>1 DEF SolvesSum
<1>3. CASE S = {}
  BY <1>1, <1>2, <1>3 DEF Folded
<1>4. CASE S # {}
  <2> DEFINE x == CHOOSE x \in S : TRUE
             T == S \ {x}
  <2>1. x \in S
    BY <1>4
  <2>2. f[S] = F[x] + f[T]
    BY <1>2, <1>4 DEF Folded
  <2> HIDE DEF x
  <2>3. IsFiniteSet(T) /\ T \subseteq S
    BY <2>1, Smaller
  <2> HIDE DEF T
  <2>4. PICK g : SumFunctionOnSet(F, T) = g[T] /\ SolvesSum(F, T, g)
    BY <2>3, SumSolves
  <2>5. f[T] = g[T]
    BY <1>1, <2>3, <2>4, SumUnique
  <2>6. SumFunctionOnSet(F, S) = F[x] + SumFunctionOnSet(F, T)
    BY <1>1, <2>2, <2>4, <2>5
  <2> QED
    BY <1>4, <2>1, <2>6 DEF T
<1> QED
  BY <1>3, <1>4

\* The sum of integers over a finite set is an integer, and any member may be
\* taken off it.
LEMMA SumType ==
  ASSUME NEW F, NEW S, IsFiniteSet(S), \A y \in S : F[y] \in Int
  PROVE  SumFunctionOnSet(F, S) \in Int
<1> DEFINE Fail == {s \in SUBSET S : SumFunctionOnSet(F, s) \notin Int}
<1>1. \A s \in SUBSET S : IsFiniteSet(s)
  BY FS_Subset
<1>2. ASSUME Fail # {} PROVE FALSE
  <2>1. PICK s \in Fail : \A t \in Fail : Cardinality(s) <= Cardinality(t)
    BY <1>1, <1>2, LeastSet
  <2>2. s \in SUBSET S /\ IsFiniteSet(s) /\ SumFunctionOnSet(F, s) \notin Int
    BY <1>1, <2>1
  <2>3. s # {}
    <3>1. 0 \in Int
      OBVIOUS
    <3> QED
      BY <2>2, <3>1, SumStep
  <2>4. PICK x \in s : SumFunctionOnSet(F, s) = F[x] + SumFunctionOnSet(F, s \ {x})
    BY <2>2, <2>3, SumStep
  <2>5. s \ {x} \in SUBSET S /\ s \ {x} \notin Fail
    BY <2>1, <2>2, Smaller
  <2>6. F[x] \in Int /\ SumFunctionOnSet(F, s \ {x}) \in Int
    BY <2>2, <2>5
  <2> QED
    BY <2>2, <2>4, <2>6
<1> QED
  BY <1>2

\* Any element may be taken out of a sum, not only the one the fold takes.
LEMMA SumSplit ==
  ASSUME NEW F, NEW S, IsFiniteSet(S), \A y \in S : F[y] \in Int, NEW x \in S
  PROVE  SumFunctionOnSet(F, S) = F[x] + SumFunctionOnSet(F, S \ {x})
<1> DEFINE Splits(s) == \A y \in s : SumFunctionOnSet(F, s) = F[y] + SumFunctionOnSet(F, s \ {y})
           Fail == {s \in SUBSET S : ~Splits(s)}
<1>1. \A s \in SUBSET S : IsFiniteSet(s) /\ SumFunctionOnSet(F, s) \in Int
  BY FS_Subset, SumType
<1>2. ASSUME Fail # {} PROVE FALSE
  <2>1. PICK s \in Fail : \A t \in Fail : Cardinality(s) <= Cardinality(t)
    BY <1>1, <1>2, LeastSet
  <2>2. s \in SUBSET S /\ IsFiniteSet(s)
    BY <1>1, <2>1
  <2>3. PICK y \in s : SumFunctionOnSet(F, s) # F[y] + SumFunctionOnSet(F, s \ {y})
    BY <2>1
  <2>4. PICK c \in s : SumFunctionOnSet(F, s) = F[c] + SumFunctionOnSet(F, s \ {c})
    BY <2>2, <2>3, SumStep
  <2>5. y # c
    BY <2>3, <2>4
  <2>6. Splits(s \ {c}) /\ Splits(s \ {y})
    <3> HIDE DEF Splits
    <3>1. s \ {c} \notin Fail /\ s \ {y} \notin Fail
      BY <2>1, <2>2, Smaller
    <3> QED
      BY <2>2, <3>1
  <2>7. SumFunctionOnSet(F, s \ {c}) = F[y] + SumFunctionOnSet(F, (s \ {c}) \ {y})
    BY <2>5, <2>6
  <2>8. SumFunctionOnSet(F, s \ {y}) = F[c] + SumFunctionOnSet(F, (s \ {y}) \ {c})
    BY <2>5, <2>6
  <2>9. (s \ {c}) \ {y} = (s \ {y}) \ {c} /\ (s \ {c}) \ {y} \in SUBSET S
    BY <2>2
  <2>10. /\ F[y] \in Int /\ F[c] \in Int
         /\ SumFunctionOnSet(F, (s \ {c}) \ {y}) \in Int
    BY <1>1, <2>2, <2>9
  <2> DEFINE sum == SumFunctionOnSet(F, s)
             rest == SumFunctionOnSet(F, (s \ {c}) \ {y})
  <2>11. SumFunctionOnSet(F, s \ {c}) = F[y] + rest
    BY <2>7
  <2>12. SumFunctionOnSet(F, s \ {y}) = F[c] + rest
    BY <2>8, <2>9
  <2>13. sum = F[c] + (F[y] + rest) /\ sum # F[y] + (F[c] + rest)
    BY <2>3, <2>4, <2>11, <2>12
  <2>14. rest \in Int
    BY <2>10
  <2> HIDE DEF sum, rest
  <2> QED
    BY <2>10, <2>13, <2>14
<1> QED
  BY <1>2

\* Summands that agree on the set have the same sum.
LEMMA SumSame ==
  ASSUME NEW F, NEW G, NEW S, IsFiniteSet(S), \A y \in S : F[y] \in Int /\ G[y] = F[y]
  PROVE  SumFunctionOnSet(G, S) = SumFunctionOnSet(F, S)
<1> DEFINE Fail == {s \in SUBSET S : SumFunctionOnSet(G, s) # SumFunctionOnSet(F, s)}
<1>1. \A s \in SUBSET S : IsFiniteSet(s)
  BY FS_Subset
<1>2. ASSUME Fail # {} PROVE FALSE
  <2>1. PICK s \in Fail : \A t \in Fail : Cardinality(s) <= Cardinality(t)
    BY <1>1, <1>2, LeastSet
  <2>2. s \in SUBSET S /\ IsFiniteSet(s)
    BY <1>1, <2>1
  <2>3. s # {}
    BY <2>1, <2>2, SumStep
  <2>4. PICK x \in s : SumFunctionOnSet(F, s) = F[x] + SumFunctionOnSet(F, s \ {x})
    BY <2>2, <2>3, SumStep
  <2>5. SumFunctionOnSet(G, s) = G[x] + SumFunctionOnSet(G, s \ {x})
    <3>1. \A y \in s : G[y] \in Int
      BY <2>2
    <3> QED
      BY <2>2, <3>1, SumSplit
  <2>6. s \ {x} \notin Fail /\ s \ {x} \in SUBSET S
    BY <2>1, <2>2, Smaller
  <2>7. SumFunctionOnSet(G, s \ {x}) = SumFunctionOnSet(F, s \ {x})
    BY <2>6
  <2>8. G[x] = F[x]
    BY <2>2
  <2> QED
    BY <2>1, <2>4, <2>5, <2>7, <2>8
<1> QED
  BY <1>2

\* Summands that are smaller one by one have a smaller sum.
LEMMA SumMonotone ==
  ASSUME NEW F, NEW G, NEW S, IsFiniteSet(S),
         \A y \in S : F[y] \in Int /\ G[y] \in Int /\ F[y] <= G[y]
  PROVE  SumFunctionOnSet(F, S) <= SumFunctionOnSet(G, S)
<1> DEFINE Fail == {s \in SUBSET S : ~(SumFunctionOnSet(F, s) <= SumFunctionOnSet(G, s))}
<1>1. \A s \in SUBSET S : IsFiniteSet(s)
  BY FS_Subset
<1>2. ASSUME Fail # {} PROVE FALSE
  <2>1. PICK s \in Fail : \A t \in Fail : Cardinality(s) <= Cardinality(t)
    BY <1>1, <1>2, LeastSet
  <2>2. /\ s \in SUBSET S /\ IsFiniteSet(s)
        /\ ~(SumFunctionOnSet(F, s) <= SumFunctionOnSet(G, s))
    BY <1>1, <2>1
  <2>3. s # {}
    BY <2>2, SumStep
  <2>4. PICK x : x \in s
    BY <2>3
  <2>5. /\ SumFunctionOnSet(F, s) = F[x] + SumFunctionOnSet(F, s \ {x})
        /\ SumFunctionOnSet(G, s) = G[x] + SumFunctionOnSet(G, s \ {x})
    <3>1. \A y \in s : F[y] \in Int /\ G[y] \in Int
      BY <2>2
    <3> QED
      BY <2>2, <2>4, <3>1, SumSplit
  <2>6. s \ {x} \notin Fail /\ s \ {x} \in SUBSET S /\ IsFiniteSet(s \ {x})
    BY <2>1, <2>2, <2>4, Smaller
  <2>7. SumFunctionOnSet(F, s \ {x}) <= SumFunctionOnSet(G, s \ {x})
    BY <2>6
  <2>8. F[x] \in Int /\ G[x] \in Int /\ F[x] <= G[x]
    BY <2>2, <2>4
  <2>9. SumFunctionOnSet(F, s \ {x}) \in Int /\ SumFunctionOnSet(G, s \ {x}) \in Int
    <3>1. \A y \in s \ {x} : F[y] \in Int /\ G[y] \in Int
      BY <2>2
    <3> QED
      BY <2>6, <3>1, SumType
  <2> QED
    BY <2>2, <2>5, <2>7, <2>8, <2>9
<1> QED
  BY <1>2

\* A sum of zeros is zero.
LEMMA SumZero ==
  ASSUME NEW F, NEW S, IsFiniteSet(S), \A y \in S : F[y] = 0
  PROVE  SumFunctionOnSet(F, S) = 0
<1> DEFINE Fail == {s \in SUBSET S : SumFunctionOnSet(F, s) # 0}
<1>1. \A s \in SUBSET S : IsFiniteSet(s)
  BY FS_Subset
<1>2. ASSUME Fail # {} PROVE FALSE
  <2>1. PICK s \in Fail : \A t \in Fail : Cardinality(s) <= Cardinality(t)
    BY <1>1, <1>2, LeastSet
  <2>2. s \in SUBSET S /\ IsFiniteSet(s) /\ SumFunctionOnSet(F, s) # 0
    BY <1>1, <2>1
  <2>3. PICK x \in s : SumFunctionOnSet(F, s) = F[x] + SumFunctionOnSet(F, s \ {x})
    BY <2>2, SumStep
  <2>4. s \ {x} \notin Fail /\ s \ {x} \in SUBSET S
    BY <2>1, <2>2, Smaller
  <2> QED
    BY <2>2, <2>3, <2>4
<1> QED
  BY <1>2

\* A sum may leave out the members that add nothing to it.
LEMMA SumSubset ==
  ASSUME NEW F, NEW S, IsFiniteSet(S), \A y \in S : F[y] \in Int,
         NEW T, T \subseteq S, \A y \in S \ T : F[y] = 0
  PROVE  SumFunctionOnSet(F, S) = SumFunctionOnSet(F, T)
<1> DEFINE Same(s) == SumFunctionOnSet(F, s) = SumFunctionOnSet(F, T)
           Fail == {s \in SUBSET S : T \subseteq s /\ ~Same(s)}
<1>1. \A s \in SUBSET S : IsFiniteSet(s)
  BY FS_Subset
<1>2. ASSUME Fail # {} PROVE FALSE
  <2>1. PICK s \in Fail : \A t \in Fail : Cardinality(s) <= Cardinality(t)
    BY <1>1, <1>2, LeastSet
  <2>2. s \in SUBSET S /\ IsFiniteSet(s) /\ T \subseteq s /\ ~Same(s)
    BY <1>1, <2>1
  <2>3. s # T
    BY <2>2
  <2>4. PICK x : x \in s /\ x \notin T
    BY <2>2, <2>3
  <2>5. SumFunctionOnSet(F, s) = F[x] + SumFunctionOnSet(F, s \ {x})
    <3>1. \A y \in s : F[y] \in Int
      BY <2>2
    <3> QED
      BY <2>2, <2>4, <3>1, SumSplit
  <2>6. s \ {x} \notin Fail /\ s \ {x} \in SUBSET S /\ IsFiniteSet(s \ {x})
    BY <2>1, <2>2, <2>4, Smaller
  <2>7. SumFunctionOnSet(F, s \ {x}) = SumFunctionOnSet(F, T)
    BY <2>2, <2>4, <2>6
  <2>8. F[x] = 0 /\ SumFunctionOnSet(F, s \ {x}) \in Int
    <3>1. \A y \in s \ {x} : F[y] \in Int
      BY <2>2
    <3> QED
      BY <2>2, <2>4, <2>6, <3>1, SumType
  <2> QED
    BY <2>2, <2>5, <2>7, <2>8
<1> QED
  BY <1>2

\* A sum whose only nonzero summand is one is that summand.
LEMMA SumOnly ==
  ASSUME NEW F, NEW S, IsFiniteSet(S), NEW x \in S, F[x] \in Int,
         \A y \in S \ {x} : F[y] = 0
  PROVE  SumFunctionOnSet(F, S) = F[x]
<1>1. \A y \in S : F[y] \in Int
  OBVIOUS
<1>2. SumFunctionOnSet(F, S) = F[x] + SumFunctionOnSet(F, S \ {x})
  BY <1>1, SumSplit
<1>3. SumFunctionOnSet(F, S \ {x}) = 0
  BY Smaller, SumZero
<1> QED
  BY <1>2, <1>3

\* Changing one summand changes the sum by as much.
LEMMA SumChange ==
  ASSUME NEW F, NEW G, NEW S, IsFiniteSet(S), NEW x \in S, G[x] \in Int,
         \A y \in S : F[y] \in Int, \A y \in S \ {x} : G[y] = F[y]
  PROVE  SumFunctionOnSet(G, S) = SumFunctionOnSet(F, S) - F[x] + G[x]
<1> DEFINE T == S \ {x}
<1>1. IsFiniteSet(T)
  BY Smaller
<1>2. \A y \in S : G[y] \in Int
  OBVIOUS
<1>3. SumFunctionOnSet(F, S) = F[x] + SumFunctionOnSet(F, T)
  BY SumSplit
<1>4. SumFunctionOnSet(G, S) = G[x] + SumFunctionOnSet(G, T)
  BY <1>2, SumSplit
<1>5. SumFunctionOnSet(G, T) = SumFunctionOnSet(F, T)
  BY <1>1, SumSame
<1>6. SumFunctionOnSet(F, T) \in Int /\ F[x] \in Int
  BY <1>1, SumType
<1> QED
  BY <1>3, <1>4, <1>5, <1>6

\* The sum over a sequence's indices grows by what is appended.
LEMMA SumAppend ==
  ASSUME NEW F, NEW G, NEW n \in Nat, \A i \in 1..n + 1 : G[i] \in Int,
         \A i \in 1..n : F[i] = G[i]
  PROVE  SumFunctionOnSet(G, 1..n + 1) = SumFunctionOnSet(F, 1..n) + G[n + 1]
<1>1. IsFiniteSet(1..n + 1) /\ IsFiniteSet(1..n)
  BY FS_Interval
<1>2. n + 1 \in 1..n + 1 /\ (1..n + 1) \ {n + 1} = 1..n
  OBVIOUS
<1>3. SumFunctionOnSet(G, 1..n + 1) = G[n + 1] + SumFunctionOnSet(G, 1..n)
  BY <1>1, <1>2, SumSplit
<1>4. \A i \in 1..n : G[i] \in Int /\ F[i] = G[i]
  OBVIOUS
<1>5. SumFunctionOnSet(F, 1..n) = SumFunctionOnSet(G, 1..n)
  BY <1>1, <1>4, SumSame
<1>6. SumFunctionOnSet(G, 1..n) \in Int /\ G[n + 1] \in Int
  BY <1>1, <1>2, <1>4, SumType
<1> QED
  BY <1>3, <1>5, <1>6

\* And loses its first summand when the head is taken off.
LEMMA SumShift ==
  ASSUME NEW F, NEW G, NEW n \in Nat, \A i \in 1..n + 1 : F[i] \in Int,
         \A i \in 1..n : G[i] = F[i + 1]
  PROVE  SumFunctionOnSet(F, 1..n + 1) = F[1] + SumFunctionOnSet(G, 1..n)
<1> DEFINE Holds(k) == SumFunctionOnSet(F, 1..k + 1) = F[1] + SumFunctionOnSet(G, 1..k)
           Fail == {k \in 0..n : ~Holds(k)}
<1>1. \A k \in Nat : IsFiniteSet(1..k)
  BY FS_Interval
<1>2. ASSUME Fail # {} PROVE FALSE
  <2>1. PICK k \in Fail : \A j \in Fail : k <= j
    <3>1. Fail \subseteq Nat
      OBVIOUS
    <3> HIDE DEF Fail
    <3> QED
      BY <1>2, <3>1, LeastNat
  <2>2. k \in Nat /\ k <= n /\ ~Holds(k)
    BY <2>1
  <2>3. CASE k = 0
    <3>1. 1..0 = {} /\ IsFiniteSet({})
      BY FS_EmptySet
    <3>2. SumFunctionOnSet(G, 1..0) = 0 /\ SumFunctionOnSet(F, 1..0) = 0
      BY <3>1, SumStep
    <3>3. \A i \in 1..0 + 1 : F[i] \in Int
      OBVIOUS
    <3>4. 0 \in Nat /\ \A i \in 1..0 : F[i] = F[i]
      OBVIOUS
    <3>5. SumFunctionOnSet(F, 1..0 + 1) = SumFunctionOnSet(F, 1..0) + F[0 + 1]
      BY <3>3, <3>4, SumAppend
    <3>6. F[1] \in Int
      OBVIOUS
    <3>7. Holds(0)
      BY <3>2, <3>5, <3>6
    <3> QED
      BY <2>2, <2>3, <3>7
  <2>4. CASE k # 0
    <3>1. k - 1 \in 0..n /\ k - 1 \in Nat /\ (k - 1) + 1 = k /\ (k + 1) - 1 = k
      BY <2>2, <2>4
    <3>2. Holds(k - 1)
      <4> HIDE DEF Holds
      <4>1. k - 1 \notin Fail
        BY <2>1, <2>2, <3>1
      <4> QED
        BY <3>1, <4>1
    <3>3. SumFunctionOnSet(F, 1..k) = F[1] + SumFunctionOnSet(G, 1..k - 1)
      BY <3>1, <3>2
    <3>4. /\ \A i \in 1..k + 1 : F[i] \in Int
          /\ \A i \in 1..k : G[i] \in Int /\ G[i] = F[i + 1]
          /\ \A i \in 1..k - 1 : G[i] \in Int
      BY <2>2
    <3>5. SumFunctionOnSet(F, 1..k + 1) = SumFunctionOnSet(F, 1..k) + F[k + 1]
      BY <2>2, <3>4, SumAppend
    <3>6. SumFunctionOnSet(G, 1..k) = SumFunctionOnSet(G, 1..k - 1) + G[k]
      <4>1. /\ k - 1 \in Nat
            /\ \A i \in 1..(k - 1) + 1 : G[i] \in Int
            /\ \A i \in 1..k - 1 : G[i] = G[i]
        BY <3>1, <3>4
      <4>2. SumFunctionOnSet(G, 1..(k - 1) + 1) = SumFunctionOnSet(G, 1..k - 1) + G[(k - 1) + 1]
        BY <4>1, SumAppend
      <4> QED
        BY <3>1, <4>2
    <3>7. SumFunctionOnSet(G, 1..k - 1) \in Int
      BY <1>1, <3>1, <3>4, SumType
    <3>8. F[1] \in Int /\ F[k + 1] \in Int /\ G[k] = F[k + 1]
      <4>1. 1 \in 1..n + 1 /\ k + 1 \in 1..k + 1 /\ k \in 1..k
        BY <2>2, <2>4
      <4> QED
        BY <3>4, <4>1
    <3>9. SumFunctionOnSet(F, 1..k + 1) = F[1] + SumFunctionOnSet(G, 1..k)
      BY <3>3, <3>5, <3>6, <3>7, <3>8
    <3> QED
      BY <2>2, <3>9
  <2> QED
    BY <2>3, <2>4
<1>3. n \in 0..n
  OBVIOUS
<1> HIDE DEF Holds
<1>4. Holds(n)
  BY <1>2, <1>3
<1> QED
  BY <1>4 DEF Holds

-----------------------------------------------------------------------------
(* Definitions by recursion on an interval from 0 *)

\* f is defined so.
StaysIn(V, N, step) == \A n \in 1..N, v \in V : step[n][v] \in V
Solves(f, V, N, first, step) ==
  f \in [0..N -> V] /\ \A n \in 0..N : f[n] = IF n = 0 THEN first ELSE step[n][f[n - 1]]

\* A function may be defined so, for any first value and any step that stays
\* in V.
LEMMA RecursionExists ==
  ASSUME NEW V, NEW first \in V, NEW N \in Nat, NEW step, StaysIn(V, N, step)
  PROVE  \E f : Solves(f, V, N, first, step)
<1> DEFINE Value(g, n) == IF n = 0 THEN first ELSE step[n][g[n - 1]]
           Solved(k)   == \E g \in [0..k -> V] : \A n \in 0..k : g[n] = Value(g, n)
           Unsolved    == {k \in 0..N : ~Solved(k)}
<1>1. ASSUME Unsolved # {} PROVE FALSE
  <2>1. Unsolved \subseteq Nat
    OBVIOUS
  <2>2. PICK k \in Unsolved : \A j \in Unsolved : k <= j
    BY <1>1, <2>1, LeastNat
  <2>3. Solved(0)
    <3> DEFINE g == [n \in 0..0 |-> first]
    <3>1. g \in [0..0 -> V] /\ \A n \in 0..0 : g[n] = Value(g, n)
      OBVIOUS
    <3> QED
      BY <3>1
  <2>4. k \in 1..N /\ k - 1 \in 0..N /\ k - 1 < k
    <3> HIDE DEF Solved
    <3>1. k # 0 /\ k \in 0..N
      BY <2>2, <2>3
    <3> QED
      BY <3>1
  <2>5. Solved(k - 1)
    <3> HIDE DEF Solved
    <3>1. k - 1 \notin Unsolved
      BY <2>1, <2>2, <2>4
    <3> QED
      BY <3>1, <2>4
  <2>6. PICK g \in [0..k - 1 -> V] : \A n \in 0..k - 1 : g[n] = Value(g, n)
    BY <2>5
  <2> DEFINE h == [n \in 0..k |-> IF n < k THEN g[n] ELSE step[k][g[k - 1]]]
  <2>7. h \in [0..k -> V]
    <3>1. step[k][g[k - 1]] \in V
      BY <2>4, <2>6 DEF StaysIn
    <3>2. ASSUME NEW n \in 0..k, n < k PROVE g[n] \in V
      BY <2>4, <2>6, <3>2
    <3> QED
      BY <3>1, <3>2
  <2>8. ASSUME NEW n \in 0..k PROVE h[n] = Value(h, n)
    <3>1. CASE n < k
      <4>1. n \in 0..k - 1 /\ (n # 0 => n - 1 \in 0..k /\ n - 1 < k)
        BY <2>4, <2>8, <3>1
      <4>2. h[n] = g[n] /\ (n # 0 => h[n - 1] = g[n - 1])
        BY <2>8, <3>1, <4>1
      <4> QED
        BY <2>6, <4>1, <4>2
    <3>2. CASE n = k
      <4>1. h[n] = step[k][g[k - 1]] /\ h[k - 1] = g[k - 1] /\ n # 0
        BY <2>4, <3>2
      <4> QED
        BY <3>2, <4>1
    <3> QED
      BY <2>4, <2>8, <3>1, <3>2
  <2>9. Solved(k)
    <3> HIDE DEF h
    <3> QED
      BY <2>7, <2>8
  <2> QED
    BY <2>2, <2>9
<1> HIDE DEF Solved
<1>2. Solved(N)
  BY <1>1
<1> QED
  BY <1>2 DEF Solved, Solves

-----------------------------------------------------------------------------
(* Replay: the events of a sequence applied to an account one by one *)

\* Applying the events of E stays among the accounts of P.
ClosedUnder(P, E) == \A p \in P, e \in E : Apply(p, e) \in P

\* ReplayedPrefix solves its equation.
LEMMA ReplayEquation ==
  ASSUME NEW P, NEW E, ClosedUnder(P, E), NEW p \in P, NEW s \in Seq(E)
  PROVE  \A n \in 0..Len(s) :
           /\ ReplayedPrefix(p, s)[n] \in P
           /\ ReplayedPrefix(p, s)[n] =
                IF n = 0 THEN p ELSE Apply(ReplayedPrefix(p, s)[n - 1], s[n])
<1> DEFINE F(g) == [n \in 0..Len(s) |-> IF n = 0 THEN p ELSE Apply(g[n - 1], s[n])]
           step == [n \in 1..Len(s) |-> [v \in P |-> Apply(v, s[n])]]
           N    == Len(s)
<1>1. N \in Nat /\ \A n \in 1..N : s[n] \in E
  OBVIOUS
<1>2. \A n \in 1..N : \A v \in P : step[n][v] = Apply(v, s[n]) /\ step[n][v] \in P
  BY <1>1 DEF ClosedUnder
<1> HIDE DEF step
<1>3. StaysIn(P, N, step)
  BY <1>2 DEF StaysIn
<1>4. PICK f : Solves(f, P, N, p, step)
  <2> HIDE DEF N
  <2> QED
    BY <1>1, <1>3, RecursionExists
<1>5. f = F(f)
  <2>1. ASSUME NEW n \in 0..N PROVE f[n] = IF n = 0 THEN p ELSE Apply(f[n - 1], s[n])
    <3>1. CASE n = 0
      BY <1>4, <3>1 DEF Solves
    <3>2. CASE n # 0
      <4>1. n \in 1..N /\ n - 1 \in 0..N
        BY <1>1, <3>2
      <4> QED
        BY <1>2, <1>4, <3>2, <4>1 DEF Solves
    <3> QED
      BY <3>1, <3>2
  <2> QED
    BY <1>4, <2>1 DEF Solves
<1> DEFINE r == ReplayedPrefix(p, s)
<1>6. r = CHOOSE g : g = F(g)
  BY DEF ReplayedPrefix
<1>7. r = F(r)
  <2> HIDE DEF F, r
  <2> QED
    BY <1>5, <1>6
<1> HIDE DEF r
<1> DEFINE Bad == {n \in 0..N : r[n] \notin P}
<1>8. ASSUME Bad # {} PROVE FALSE
  <2>1. Bad \subseteq Nat
    BY <1>1
  <2>2. PICK n \in Bad : \A m \in Bad : n <= m
    BY <1>8, <2>1, LeastNat
  <2>3. r[n] = IF n = 0 THEN p ELSE Apply(r[n - 1], s[n])
    BY <1>7, <2>2
  <2>4. n \in 1..N /\ n - 1 \in 0..N /\ ~(n <= n - 1)
    BY <1>1, <2>2, <2>3
  <2>5. r[n - 1] \in P
    BY <2>2, <2>4
  <2> QED
    BY <1>1, <2>2, <2>3, <2>4, <2>5 DEF ClosedUnder
<1> QED
  BY <1>7, <1>8 DEF r

\* Delivering one sequence after another is delivering both in one.
LEMMA ReplayConcat ==
  ASSUME NEW P, NEW E, ClosedUnder(P, E), NEW p \in P, NEW s \in Seq(E), NEW t \in Seq(E)
  PROVE  Replay(p, s \o t) = Replay(Replay(p, s), t)
<1> DEFINE u == s \o t
           q == Replay(p, s)
           f == ReplayedPrefix(p, s)
           g == ReplayedPrefix(p, u)
           h == ReplayedPrefix(q, t)
           Early == {n \in 0..Len(s) : f[n] # g[n]}
           Late  == {n \in 0..Len(t) : h[n] # g[Len(s) + n]}
<1>1. /\ Len(s) \in Nat /\ Len(t) \in Nat /\ u \in Seq(E) /\ Len(u) = Len(s) + Len(t)
      /\ \A n \in 1..Len(s) : u[n] = s[n]
      /\ \A n \in 1..Len(t) : u[Len(s) + n] = t[n]
  OBVIOUS
<1> HIDE DEF u
<1>2. \A n \in 0..Len(s) : f[n] \in P /\ f[n] = IF n = 0 THEN p ELSE Apply(f[n - 1], s[n])
  BY ReplayEquation
<1>3. \A n \in 0..Len(u) : g[n] = IF n = 0 THEN p ELSE Apply(g[n - 1], u[n])
  BY <1>1, ReplayEquation
<1>4. q = f[Len(s)] /\ q \in P
  BY <1>1, <1>2 DEF Replay
<1> HIDE DEF q
<1>5. \A n \in 0..Len(t) : h[n] = IF n = 0 THEN q ELSE Apply(h[n - 1], t[n])
  BY <1>4, ReplayEquation
<1> HIDE DEF f, g, h
<1>6. ASSUME Early # {} PROVE FALSE
  <2>1. Early \subseteq Nat
    BY <1>1
  <2>2. PICK n \in Early : \A m \in Early : n <= m
    BY <1>6, <2>1, LeastNat
  <2>3. n \in 0..Len(s) /\ n \in 0..Len(u)
    BY <1>1, <2>2
  <2>4. n \in 1..Len(s) /\ n - 1 \in 0..Len(s) /\ ~(n <= n - 1)
    BY <1>1, <1>2, <1>3, <2>2, <2>3
  <2>5. f[n - 1] = g[n - 1]
    BY <2>2, <2>4
  <2> QED
    BY <1>1, <1>2, <1>3, <2>2, <2>3, <2>4, <2>5
<1>7. g[Len(s)] = q
  BY <1>1, <1>4, <1>6
<1>8. ASSUME Late # {} PROVE FALSE
  <2>1. Late \subseteq Nat
    BY <1>1
  <2>2. PICK n \in Late : \A m \in Late : n <= m
    BY <1>8, <2>1, LeastNat
  <2>3. n # 0
    BY <1>1, <1>5, <1>7, <2>2
  <2>4. /\ n \in 0..Len(t) /\ n \in 1..Len(t) /\ n - 1 \in 0..Len(t) /\ ~(n <= n - 1)
        /\ Len(s) + n \in 0..Len(u) /\ Len(s) + n # 0
        /\ (Len(s) + n) - 1 = Len(s) + (n - 1)
    BY <1>1, <2>2, <2>3
  <2>5. h[n - 1] = g[Len(s) + (n - 1)]
    BY <2>2, <2>4
  <2>6. g[Len(s) + n] = Apply(g[Len(s) + (n - 1)], t[n])
    BY <1>1, <1>3, <2>4
  <2> QED
    BY <1>5, <2>2, <2>3, <2>4, <2>5, <2>6
<1>9. h[Len(t)] = g[Len(u)]
  <2>1. \A n \in 0..Len(t) : n \notin Late
    BY <1>8, Zenon
  <2>2. h[Len(t)] = g[Len(s) + Len(t)]
    <3>1. Len(t) \in 0..Len(t)
      BY <1>1
    <3> QED
      BY <2>1, <3>1
  <2> QED
    BY <1>1, <2>2
<1> QED
  BY <1>9 DEF Replay, g, h, q, u

\* A pair is one element after another.
LEMMA PairJoins ==
  ASSUME NEW E, NEW e \in E, NEW d \in E
  PROVE  <<e, d>> = <<e>> \o <<d>> /\ <<e>> \in Seq(E) /\ <<d>> \in Seq(E)
<1> DEFINE s == <<e>>
<1>1. s \in Seq(E)
  OBVIOUS
<1>2. <<d>> \in Seq(E)
  OBVIOUS
<1>3. <<e, d>> = Append(<<e>>, d)
  OBVIOUS
<1> HIDE DEF s
<1>4. s \o <<d>> = Append(s, d)
  BY <1>1
<1> QED
  BY <1>1, <1>2, <1>3, <1>4 DEF s

\* The account told of one event ...
LEMMA ReplayOne ==
  ASSUME NEW P, NEW E, ClosedUnder(P, E), NEW p \in P, NEW e \in E
  PROVE  Replay(p, <<e>>) = Apply(p, e)
<1> DEFINE s == <<e>>
           f == ReplayedPrefix(p, s)
<1>1. s \in Seq(E) /\ Len(s) = 1 /\ s[1] = e
  OBVIOUS
<1> HIDE DEF s
<1>2. \A n \in 0..1 : f[n] = IF n = 0 THEN p ELSE Apply(f[n - 1], s[n])
  BY <1>1, ReplayEquation
<1> HIDE DEF f
<1>3. f[0] = p /\ f[1] = Apply(f[0], e)
  BY <1>1, <1>2
<1> QED
  BY <1>1, <1>3 DEF Replay, f, s

\* ... and of two.
LEMMA ReplayTwo ==
  ASSUME NEW P, NEW E, ClosedUnder(P, E), NEW p \in P, NEW e \in E, NEW d \in E
  PROVE  Replay(p, <<e, d>>) = Apply(Apply(p, e), d)
<1> DEFINE s == <<e>>
           t == <<d>>
<1>1. s \in Seq(E) /\ t \in Seq(E) /\ <<e, d>> = s \o t
  BY PairJoins
<1>2. Apply(p, e) \in P
  BY DEF ClosedUnder
<1>3. Replay(p, s) = Apply(p, e) /\ Replay(Apply(p, e), t) = Apply(Apply(p, e), d)
  BY <1>2, ReplayOne
<1> HIDE DEF s, t
<1>4. Replay(p, s \o t) = Replay(Replay(p, s), t)
  BY <1>1, ReplayConcat
<1> QED
  BY <1>1, <1>3, <1>4

\* With nothing to come the account is what it is; and the first event may be
\* delivered before the others are.
LEMMA ReplayHead ==
  ASSUME NEW P, NEW E, ClosedUnder(P, E), NEW p \in P, NEW s \in Seq(E)
  PROVE  /\ Replay(p, s) \in P
         /\ s = << >> => Replay(p, s) = p
         /\ s # << >> => Replay(Apply(p, Head(s)), Tail(s)) = Replay(p, s)
<1> DEFINE f == ReplayedPrefix(p, s)
<1>1. /\ Len(s) \in Nat
      /\ \A n \in 0..Len(s) : f[n] \in P /\ f[n] = IF n = 0 THEN p ELSE Apply(f[n - 1], s[n])
  BY ReplayEquation
<1> HIDE DEF f
<1>2. Replay(p, s) = f[Len(s)]
  BY DEF Replay, f
<1>3. Replay(p, s) \in P /\ (s = << >> => Replay(p, s) = p)
  BY <1>1, <1>2
<1>4. ASSUME s # << >> PROVE Replay(Apply(p, Head(s)), Tail(s)) = Replay(p, s)
  <2> DEFINE t == Tail(s)
             q == Apply(p, Head(s))
             g == ReplayedPrefix(q, t)
             Bad == {n \in 0..Len(t) : g[n] # f[n + 1]}
  <2>1. /\ t \in Seq(E) /\ Len(t) \in Nat /\ Len(s) = Len(t) + 1 /\ Head(s) = s[1]
        /\ \A n \in 1..Len(t) : t[n] = s[n + 1]
        /\ Head(s) \in E
    BY <1>4
  <2>2. q \in P
    BY <2>1 DEF ClosedUnder
  <2> HIDE DEF t
  <2>3. f[1] = q
    <3>1. 1 \in 0..Len(s) /\ 1 - 1 = 0 /\ 0 \in 0..Len(s)
      BY <1>1, <2>1
    <3> QED
      BY <1>1, <2>1, <3>1
  <2> HIDE DEF q
  <2>4. \A n \in 0..Len(t) : g[n] = IF n = 0 THEN q ELSE Apply(g[n - 1], t[n])
    BY <2>1, <2>2, ReplayEquation
  <2> HIDE DEF g
  <2>5. ASSUME Bad # {} PROVE FALSE
    <3>1. Bad \subseteq Nat
      BY <2>1
    <3>2. PICK n \in Bad : \A m \in Bad : n <= m
      BY <2>5, <3>1, LeastNat
    <3>3. n # 0
      BY <2>1, <2>3, <2>4, <3>2
    <3>4. /\ n \in 0..Len(t) /\ n \in 1..Len(t) /\ n - 1 \in 0..Len(t) /\ ~(n <= n - 1)
          /\ n + 1 \in 0..Len(s) /\ n + 1 # 0 /\ (n + 1) - 1 = n /\ (n - 1) + 1 = n
      BY <2>1, <3>2, <3>3
    <3>5. g[n - 1] = f[(n - 1) + 1]
      BY <3>2, <3>4
    <3>6. f[n + 1] = Apply(f[n], s[n + 1])
      BY <1>1, <3>4
    <3> QED
      BY <2>1, <2>4, <3>2, <3>3, <3>4, <3>5, <3>6
  <2>6. g[Len(t)] = f[Len(t) + 1]
    BY <2>1, <2>5
  <2> QED
    BY <1>2, <2>1, <2>6 DEF Replay, g, t, q
<1> QED
  BY <1>3, <1>4

\* No events leave an account as it is.
LEMMA ReplayNone ==
  ASSUME NEW P, NEW E, ClosedUnder(P, E), NEW p \in P
  PROVE  Replay(p, << >>) = p
<1> DEFINE none == << >>
<1>1. none \in Seq(E)
  OBVIOUS
<1>2. Len(none) = 0 /\ 0 \in 0..0
  OBVIOUS
<1> HIDE DEF none
<1>3. /\ Len(none) \in Nat
      /\ \A n \in 0..Len(none) :
           /\ ReplayedPrefix(p, none)[n] \in P
           /\ ReplayedPrefix(p, none)[n] =
                IF n = 0 THEN p ELSE Apply(ReplayedPrefix(p, none)[n - 1], none[n])
  BY <1>1, ReplayEquation
<1>4. Replay(p, none) = p
  BY <1>2, <1>3 DEF Replay
<1> QED
  BY <1>4 DEF none

-----------------------------------------------------------------------------
(* An account, and what a trade or a closed order leaves of it *)

Position == [net : Int, avg : Int]

Accounts(instruments, ids) ==
  [cash : Int, realized : Int, tradingFees : Int, fundingNet : Int,
   liquidationPnl : Int, rounding : Int, positions : [instruments -> Position],
   held : SUBSET instruments, open : Seq(ids)]

FillEvents(instruments, ids) ==
  [type : {"Fill"}, id : ids, instrument : instruments, side : Int, price : Int,
   qty : Int, fee : Int, complete : BOOLEAN]

\* The average a trade leaves, and what rounding it adds to the cost.
NewAvg(net, avg, signed, price) ==
  IF signed = 0 THEN avg ELSE AvgAfter(net, avg, signed, price)
RoundingBy(net, avg, signed, price) ==
  IF Opens(net, signed)
  THEN (net + signed) * NewAvg(net, avg, signed, price) - net * avg - signed * price ELSE 0

\* The product of two integers is one.
LEMMA IntTimes == \A n, m \in Int : n * m \in Int
  OBVIOUS

\* They are integers, and so is the profit it realizes.
LEMMA TradeType ==
  ASSUME NEW net \in Int, NEW avg \in Int, NEW signed \in Int, NEW price \in Int
  PROVE  /\ NewAvg(net, avg, signed, price) \in Int
         /\ RealizedBy(net, avg, signed, price) \in Int
         /\ RoundingBy(net, avg, signed, price) \in Int
<1> DEFINE least == Lesser(Abs(net), Abs(signed))
<1>1. NewAvg(net, avg, signed, price) \in Int
  BY AvgAfterType DEF NewAvg
<1>2. least \in Int
  <2>1. Abs(net) \in Int /\ Abs(signed) \in Int
    BY AbsType
  <2> QED
    BY <2>1, LesserGreaterType
<1>3. price - avg \in Int /\ Sign(net) \in Int
  BY SignType
<1> HIDE DEF least
<1>4. least * (price - avg) * Sign(net) \in Int
  BY <1>2, <1>3, IntTimes
<1>5. RealizedBy(net, avg, signed, price) \in Int
  BY <1>4 DEF RealizedBy, least
<1>6. /\ (net + signed) * NewAvg(net, avg, signed, price) \in Int
      /\ net * avg \in Int /\ signed * price \in Int
  BY <1>1, IntTimes
<1>7. RoundingBy(net, avg, signed, price) \in Int
  BY <1>6 DEF RoundingBy
<1> QED
  BY <1>1, <1>5, <1>7

\* What a trade makes of the account.
Settles(p, e, q) ==
  LET pos    == p.positions[e.instrument]
      signed == e.side * e.qty
      net    == pos.net + signed
      avg    == NewAvg(pos.net, pos.avg, signed, e.price)
  IN  /\ pos.net \in Int /\ pos.avg \in Int /\ signed \in Int
      /\ q.positions = [p.positions EXCEPT ![e.instrument] = [net |-> net, avg |-> avg]]
      /\ q.cash = p.cash - e.side * Notional(e.price, e.qty) - e.fee
      /\ q.realized = p.realized + RealizedBy(pos.net, pos.avg, signed, e.price)
      /\ q.tradingFees = p.tradingFees + e.fee
      /\ q.fundingNet = p.fundingNet
      /\ q.rounding = p.rounding + RoundingBy(pos.net, pos.avg, signed, e.price)
      /\ q.held = IF (pos.net # 0) = (net # 0) THEN p.held
                  ELSE IF net # 0 THEN p.held \cup {e.instrument}
                  ELSE p.held \ {e.instrument}
      /\ q.open = p.open

\* It does so, whatever its numbers.
LEMMA SettledAccount ==
  ASSUME NEW instruments, NEW ids, NEW p \in Accounts(instruments, ids), NEW e,
         e.instrument \in instruments, e.side \in Int, e.price \in Int, e.qty \in Int, e.fee \in Int
  PROVE  Settle(p, e) \in Accounts(instruments, ids) /\ Settles(p, e, Settle(p, e))
<1> DEFINE pos    == p.positions[e.instrument]
           signed == e.side * e.qty
           net    == pos.net + signed
           avg    == NewAvg(pos.net, pos.avg, signed, e.price)
           gain   == RealizedBy(pos.net, pos.avg, signed, e.price)
           round  == RoundingBy(pos.net, pos.avg, signed, e.price)
           cost   == e.side * Notional(e.price, e.qty)
           nowHeld == IF (pos.net # 0) = (net # 0) THEN p.held
                      ELSE IF net # 0 THEN p.held \cup {e.instrument}
                      ELSE p.held \ {e.instrument}
<1>1. pos.net \in Int /\ pos.avg \in Int
  BY DEF Accounts, Position
<1>2. signed \in Int /\ cost \in Int
  BY IntTimes, NotionalType
<1>3. net \in Int /\ avg \in Int /\ gain \in Int /\ round \in Int
  <2> HIDE DEF signed, pos
  <2>1. net \in Int
    BY <1>1, <1>2
  <2>2. avg \in Int /\ gain \in Int /\ round \in Int
    <3>1. e.price \in Int
      OBVIOUS
    <3> QED
      BY <1>1, <1>2, <3>1, TradeType
  <2> QED
    BY <2>1, <2>2
<1>4. Settle(p, e) =
        [p EXCEPT !.positions = [@ EXCEPT ![e.instrument] = [net |-> net, avg |-> avg]],
                  !.rounding = @ + round, !.realized = @ + gain, !.held = nowHeld,
                  !.cash = @ - cost - e.fee, !.tradingFees = @ + e.fee]
  BY DEF Settle, Accounts, NewAvg, RoundingBy
<1>5. nowHeld \in SUBSET instruments
  BY DEF Accounts
<1>6. [p.positions EXCEPT ![e.instrument] = [net |-> net, avg |-> avg]]
        \in [instruments -> Position]
  BY <1>3 DEF Accounts, Position
<1> HIDE DEF pos, signed, net, avg, gain, round, cost, nowHeld
<1>7. Settle(p, e) \in Accounts(instruments, ids)
  <2> DEFINE positions == [p.positions EXCEPT ![e.instrument] = [net |-> net, avg |-> avg]]
             cash1 == p.cash - cost - e.fee
             fees  == p.tradingFees + e.fee
  <2>1. cash1 \in Int /\ fees \in Int /\ p.realized + gain \in Int /\ p.rounding + round \in Int
    <3>1. p.cash \in Int /\ p.tradingFees \in Int /\ p.realized \in Int /\ p.rounding \in Int
      BY DEF Accounts
    <3>2. \A n, m \in Int : n + m \in Int /\ n - m \in Int
      OBVIOUS
    <3> QED
      BY <1>2, <1>3, <3>1, <3>2
  <2>2. Settle(p, e) =
          [cash |-> cash1, realized |-> p.realized + gain, tradingFees |-> fees,
           fundingNet |-> p.fundingNet, liquidationPnl |-> p.liquidationPnl,
           rounding |-> p.rounding + round, positions |-> positions,
           held |-> nowHeld, open |-> p.open]
    BY <1>4 DEF Accounts
  <2> HIDE DEF positions, cash1, fees
  <2>3. positions \in [instruments -> Position]
    BY <1>6 DEF positions
  <2> QED
    BY <1>5, <2>1, <2>2, <2>3 DEF Accounts
<1>8. /\ Settle(p, e).positions = [p.positions EXCEPT ![e.instrument] = [net |-> net, avg |-> avg]]
      /\ Settle(p, e).cash = p.cash - cost - e.fee
      /\ Settle(p, e).realized = p.realized + gain
      /\ Settle(p, e).tradingFees = p.tradingFees + e.fee
      /\ Settle(p, e).fundingNet = p.fundingNet
      /\ Settle(p, e).rounding = p.rounding + round
      /\ Settle(p, e).held = nowHeld
      /\ Settle(p, e).open = p.open
  BY <1>4 DEF Accounts
<1> QED
  BY <1>1, <1>2, <1>7, <1>8 DEF Settles, pos, signed, net, avg, gain, round, cost, nowHeld

\* What is left of the open orders once one of them is closed.
LEMMA ClosedAccount ==
  ASSUME NEW instruments, NEW ids, NEW p \in Accounts(instruments, ids), NEW id
  PROVE  /\ CloseOrder(p, id) \in Accounts(instruments, ids)
         /\ \E open \in Seq(ids) :
              /\ CloseOrder(p, id) = [p EXCEPT !.open = open]
              /\ Elements(open) = Elements(p.open) \ {id}
              /\ Distinct(p.open) => Distinct(open)
<1> DEFINE K == {p.open[n] : n \in DOMAIN p.open} \ {id}
           open == Keep(p.open, K)
<1>1. p.open \in Seq(ids)
  BY DEF Accounts
<1>2. /\ open \in Seq(ids) /\ Elements(open) = Elements(p.open) \cap K
      /\ Distinct(p.open) => Distinct(open)
  BY <1>1, KeepFacts
<1>3. Elements(open) = Elements(p.open) \ {id}
  BY <1>2 DEF Elements
<1>4. CloseOrder(p, id) = [p EXCEPT !.open = open]
  BY DEF CloseOrder
<1> HIDE DEF open
<1>5. CloseOrder(p, id) \in Accounts(instruments, ids)
  BY <1>2, <1>4 DEF Accounts
<1> QED
  BY <1>2, <1>3, <1>4, <1>5

\* Which of its handlers Apply gives an event to.
LEMMA ApplyCases ==
  ASSUME NEW p, NEW e
  PROVE  /\ e.type = "Fill" => Apply(p, e) = ApplyFill(p, e)
         /\ e.type = "Liquidation" => Apply(p, e) = ApplyLiquidation(p, e)
         /\ e.type = "FundingSettlement" => Apply(p, e) = ApplyFunding(p, e)
         /\ e.type = "OrderAccepted" => Apply(p, e) = OpenOrder(p, e.id)
         /\ e.type \in {"OrderCanceled", "OrderRejected", "OrderExpired"} =>
              Apply(p, e) = CloseOrder(p, e.id)
         /\ e.type \in {"OrderTriggered", "OrderCancelRejected", "Resync"} => Apply(p, e) = p
BY DEF Apply

\* A fill settles the account, and closes its order if it completes it.
FillApplied(p, e, ids) ==
  \E open \in Seq(ids) :
    /\ Apply(p, e) = [Settle(p, e) EXCEPT !.open = open]
    /\ Elements(open) = IF e.complete THEN Elements(p.open) \ {e.id} ELSE Elements(p.open)
    /\ Distinct(p.open) => Distinct(open)

\* It does so.
LEMMA FilledAccount ==
  ASSUME NEW instruments, NEW ids, NEW p \in Accounts(instruments, ids), NEW e \in FillEvents(instruments, ids)
  PROVE  /\ Settle(p, e) \in Accounts(instruments, ids) /\ Apply(p, e) \in Accounts(instruments, ids)
         /\ FillApplied(p, e, ids)
<1> DEFINE q == Settle(p, e)
<1>1. q \in Accounts(instruments, ids) /\ q.open = p.open
  <2>1. /\ e.instrument \in instruments /\ e.side \in Int /\ e.price \in Int
        /\ e.qty \in Int /\ e.fee \in Int
    BY DEF FillEvents
  <2>2. q \in Accounts(instruments, ids) /\ Settles(p, e, q)
    BY <2>1, SettledAccount
  <2> QED
    BY <2>2 DEF Settles
<1>2. Apply(p, e) = IF e.complete THEN CloseOrder(q, e.id) ELSE q
  BY ApplyCases DEF FillEvents, ApplyFill
<1> HIDE DEF q
<1>3. CASE e.complete
  <2>1. PICK open \in Seq(ids) :
          /\ CloseOrder(q, e.id) = [q EXCEPT !.open = open]
          /\ Elements(open) = Elements(q.open) \ {e.id}
          /\ Distinct(q.open) => Distinct(open)
    BY <1>1, ClosedAccount
  <2>2. CloseOrder(q, e.id) \in Accounts(instruments, ids)
    BY <1>1, ClosedAccount
  <2>3. Apply(p, e) = [q EXCEPT !.open = open]
    BY <1>2, <1>3, <2>1
  <2> QED
    BY <1>1, <1>2, <1>3, <2>1, <2>2, <2>3 DEF q, FillApplied
<1>4. CASE ~e.complete
  <2>1. q = [q EXCEPT !.open = p.open] /\ p.open \in Seq(ids)
    BY <1>1 DEF Accounts
  <2> QED
    BY <1>1, <1>2, <1>4, <2>1 DEF q, FillApplied
<1> QED
  BY <1>3, <1>4 DEF FillEvents

-----------------------------------------------------------------------------
(* Sets of numbers                                                          *)

\* A set of numbers up to a bound is finite and has a least and a greatest.
LEMMA Extremes ==
  ASSUME NEW bound \in Nat, NEW S \in SUBSET (0..bound)
  PROVE  /\ IsFiniteSet(S) /\ Cardinality(S) \in Nat
         /\ S # {} => /\ Min(S) \in S /\ \A y \in S : Min(S) <= y
                      /\ Max(S) \in S /\ \A y \in S : y <= Max(S)
<1>1. IsFiniteSet(S) /\ Cardinality(S) \in Nat
  <2>1. IsFiniteSet(0..bound)
    BY FS_Interval
  <2> QED
    BY <2>1, FS_Subset, FS_CardinalityType
<1>a. S \subseteq Nat /\ \A s \in S : s \in Nat /\ bound - s \in Nat
  OBVIOUS
<1>2. ASSUME S # {} PROVE \E x \in S : \A y \in S : x <= y
  BY <1>a, <1>2, LeastNat
<1>3. ASSUME S # {} PROVE \E x \in S : \A y \in S : y <= x
  <2> DEFINE T == {bound - s : s \in S}
  <2>1. T \subseteq Nat /\ T # {}
    BY <1>a, <1>3
  <2>2. PICK x \in T : \A y \in T : x <= y
    <3> HIDE DEF T
    <3> QED
      BY <2>1, LeastNat
  <2>3. PICK s \in S : x = bound - s
    BY <2>2
  <2>4. ASSUME NEW y \in S PROVE y <= s
    <3>1. bound - y \in T
      OBVIOUS
    <3>2. bound - s <= bound - y
      <4> HIDE DEF T
      <4> QED
        BY <2>2, <2>3, <3>1
    <3>3. bound \in Nat /\ s \in Nat /\ y \in Nat
      BY <1>a
    <3> HIDE DEF T
    <3> QED
      BY <3>2, <3>3
  <2> QED
    BY <2>4
<1>4. ASSUME S # {} PROVE Min(S) \in S /\ \A y \in S : Min(S) <= y
  BY <1>2, <1>4 DEF Min
<1>5. ASSUME S # {} PROVE Max(S) \in S /\ \A y \in S : y <= Max(S)
  BY <1>3, <1>5 DEF Max
<1> QED
  BY <1>1, <1>4, <1>5
=============================================================================

---------------------------- MODULE CacheProofs -----------------------------
(***************************************************************************)
(* What the two caches promise, for every venue, history, set of windows   *)
(* and number of calls, crashes and faults.                                *)
(*                                                                         *)
(* They rest on two algorithms: the plan of missing_gaps is exact, by way  *)
(* of the runs that coalescing makes (Plan), and the back-fill loop of     *)
(* every connector, whatever the clock does between two of its requests,   *)
(* collects all that its window had closed when it was opened, without a   *)
(* hole.  Paging says where a loop stands, and PageStep that a page keeps  *)
(* it so and that a loop it ends is Drained.                               *)
(*                                                                         *)
(* None of the promises is inductive.  CacheInv adds what the stages of a  *)
(* call have in hand: a journal has no hole and what was flushed of its    *)
(* gap, a chunk is written before its range is recorded and a range before *)
(* it is saved, and the feed stands where Paging says.  EmptyInv adds why  *)
(* a download that is over may lack a candle of its gap, LoadInv how the   *)
(* gaps that are left and the manifest share the window between them, and  *)
(* PartitionInv the same of the feed for the other cache.                  *)
(***************************************************************************)
EXTENDS PartitionCache, FiniteSetTheorems, WellFoundedInduction, TLAPS


-----------------------------------------------------------------------------
(* Finite sets                                                              *)

\* A set of natural numbers has a least one.
LEMMA LeastNatural ==
  ASSUME NEW T \in SUBSET Nat, T # {}
  PROVE  \E x \in T : \A y \in T : x <= y
<1>1. PICK x \in T : \A y \in T : ~(<<y, x>> \in OpToRel(<, Nat))
  BY NatLessThanWellFounded, WFMin
<1>2. \A y \in T : ~(y < x)
  BY <1>1 DEF OpToRel
<1> QED
  BY <1>2

\* A function on a finite set has a least value, ...
LEMMA FiniteLeast ==
  ASSUME NEW S, IsFiniteSet(S), S # {}, NEW f \in [S -> Int]
  PROVE  \E x \in S : \A y \in S : f[x] <= f[y]
<1> DEFINE Has(T) == \E x \in T : \A y \in T : f[x] <= f[y]
           Sizes  == {n \in Nat : \E T \in SUBSET S : T # {} /\ Cardinality(T) = n /\ ~Has(T)}
<1>1. SUFFICES ASSUME Sizes # {} PROVE FALSE
  <2>1. Cardinality(S) \in Nat
    BY FS_CardinalityType
  <2> QED
    BY <1>1, <2>1
<1>2. PICK n \in Sizes : \A m \in Sizes : n <= m
  <2>1. Sizes \subseteq Nat
    OBVIOUS
  <2> QED
    BY <1>1, <2>1, LeastNatural
<1>3. PICK T \in SUBSET S : T # {} /\ Cardinality(T) = n /\ ~Has(T)
  BY <1>2
<1>4. PICK a \in T : TRUE
  BY <1>3
<1> DEFINE U == T \ {a}
<1>5. IsFiniteSet(T)
  BY FS_Subset
<1>6. Cardinality(U) = n - 1 /\ Cardinality(U) \in Nat
  BY <1>3, <1>4, <1>5, FS_RemoveElement, FS_CardinalityType
<1>7. \A x, y \in S : f[x] \in Int /\ f[y] \in Int
  OBVIOUS
<1>8. U # {}
  <2>1. CASE T = {a}
    BY <1>3, <1>7, <2>1
  <2> QED
    BY <2>1, <1>4
<1>9. Has(U)
  <2>1. Cardinality(U) \notin Sizes
    <3>1. n \in Nat
      OBVIOUS
    <3>2. n <= Cardinality(U) => FALSE
      BY <1>6, <3>1
    <3> HIDE DEF Sizes, U
    <3> QED
      BY <1>2, <3>2
  <2>2. U \in SUBSET S
    OBVIOUS
  <2> HIDE DEF Has, U
  <2> QED
    BY <2>1, <2>2, <1>6, <1>8
<1>10. PICK x \in U : \A y \in U : f[x] <= f[y]
  BY <1>9
<1>11. CASE f[x] <= f[a]
  BY <1>3, <1>10, <1>11
<1>12. CASE f[a] < f[x]
  <2>1. \A y \in T : f[a] <= f[y]
    BY <1>7, <1>10, <1>12, <1>4
  <2> QED
    BY <1>3, <1>4, <2>1
<1> QED
  BY <1>7, <1>11, <1>12, <1>4, <1>10

\* ... and a greatest value.
LEMMA FiniteGreatest ==
  ASSUME NEW S, IsFiniteSet(S), S # {}, NEW f \in [S -> Int]
  PROVE  \E x \in S : \A y \in S : f[y] <= f[x]
<1> DEFINE g == [x \in S |-> 0 - f[x]]
<1>1. g \in [S -> Int]
  OBVIOUS
<1>2. PICK x \in S : \A y \in S : g[x] <= g[y]
  <2> HIDE DEF g
  <2> QED
    BY <1>1, FiniteLeast
<1> QED
  BY <1>2

\* Min and Max of the community modules, which are choices, are what they are
\* called.
LEMMA MinMax ==
  ASSUME NEW S \in SUBSET Int, IsFiniteSet(S), S # {}
  PROVE  /\ Min(S) \in S /\ \A y \in S : Min(S) <= y
         /\ Max(S) \in S /\ \A y \in S : y <= Max(S)
<1> DEFINE f == [x \in S |-> x]
<1>1. f \in [S -> Int]
  OBVIOUS
<1>2. \E x \in S : \A y \in S : x <= y
  <2>1. \E x \in S : \A y \in S : f[x] <= f[y]
    BY <1>1, FiniteLeast
  <2> QED
    BY <2>1
<1>3. \E x \in S : \A y \in S : y <= x
  <2>1. \E x \in S : \A y \in S : f[y] <= f[x]
    BY <1>1, FiniteGreatest
  <2> QED
    BY <2>1
<1> QED
  BY <1>2, <1>3 DEF Min, Max

\* The values of a function on a finite set are finitely many.
LEMMA FiniteImage ==
  ASSUME NEW S, IsFiniteSet(S), NEW f, DOMAIN f = S, f = [x \in S |-> f[x]]
  PROVE  IsFiniteSet({f[x] : x \in S})
<1> DEFINE T == {f[x] : x \in S}
<1>1. f \in Surjection(S, T)
  BY DEF Surjection
<1> QED
  BY <1>1, FS_Surjection

-----------------------------------------------------------------------------
(* missing_gaps                                                             *)

\* So are the ends of finitely many ranges.
LEMMA FiniteLos ==
  ASSUME NEW M, IsFiniteSet(M), \A r \in M : r.lo \in Int /\ r.hi \in Int
  PROVE  IsFiniteSet({r.lo : r \in M}) /\ IsFiniteSet({r.hi : r \in M})
<1> DEFINE f == [r \in M |-> r.lo]
           g == [r \in M |-> r.hi]
<1>1. IsFiniteSet({f[x] : x \in M})
  <2>1. DOMAIN f = M /\ f = [x \in M |-> f[x]]
    OBVIOUS
  <2> HIDE DEF f
  <2> QED
    BY <2>1, FiniteImage
<1>2. IsFiniteSet({g[x] : x \in M})
  <2>1. DOMAIN g = M /\ g = [x \in M |-> g[x]]
    OBVIOUS
  <2> HIDE DEF g
  <2> QED
    BY <2>1, FiniteImage
<1>3. {f[x] : x \in M} = {r.lo : r \in M} /\ {g[x] : x \in M} = {r.hi : r \in M}
  OBVIOUS
<1> QED
  BY <1>1, <1>2, <1>3

\* Of finitely many ranges one begins first, and one ends last.
LEMMA Extremes ==
  ASSUME NEW M, IsFiniteSet(M), M # {}, \A r \in M : r.lo \in Int /\ r.hi \in Int
  PROVE  /\ \E r \in M : \A s \in M : r.lo <= s.lo
         /\ \E r \in M : \A s \in M : s.hi <= r.hi
<1> DEFINE f == [r \in M |-> r.lo]
           g == [r \in M |-> r.hi]
<1>1. f \in [M -> Int] /\ g \in [M -> Int]
  OBVIOUS
<1>2. \E r \in M : \A s \in M : f[r] <= f[s]
  <2> HIDE DEF f
  <2> QED
    BY <1>1, FiniteLeast
<1>3. \E r \in M : \A s \in M : g[s] <= g[r]
  <2> HIDE DEF g
  <2> QED
    BY <1>1, FiniteGreatest
<1> QED
  BY <1>2, <1>3

\* Ranges as a manifest has them, and the run of them that begins at a.
Bounded(M) == \A r \in M : r.lo \in Int /\ r.hi \in Int /\ r.lo <= r.hi

RunOf(M, a) == {r \in M : a <= r.lo /\ \A b \in RunStarts(M) : b <= a \/ r.lo < b}

\* A run: it begins at its range of that start, no earlier range comes within
\* a bar of it, and one of it that is not the first follows another that does.
LEMMA Run ==
  ASSUME NEW M, IsFiniteSet(M), Bounded(M), NEW a \in RunStarts(M)
  PROVE  /\ a \in Int
         /\ \E r \in RunOf(M, a) : r.lo = a
         /\ RunOf(M, a) \subseteq M
         /\ IsFiniteSet(RunOf(M, a))
         /\ \A q \in M : q.lo < a => q.hi + BAR < a
         /\ \E r \in RunOf(M, a) : /\ Max({s.hi : s \in RunOf(M, a)}) = r.hi
                                   /\ \A s \in RunOf(M, a) : s.hi <= r.hi
         /\ \A q \in RunOf(M, a) :
              a < q.lo => \E s \in RunOf(M, a) : s.lo < q.lo /\ q.lo <= s.hi + BAR
<1> USE BarAssumption DEF Bounded
<1>1. PICK r \in M : r.lo = a /\ \A s \in M : s.lo < r.lo => s.hi + BAR < r.lo
  BY DEF RunStarts
<1>2. \A b \in RunStarts(M) : b \in Int
  BY DEF RunStarts
<1>3. r \in RunOf(M, a)
  BY <1>1, <1>2 DEF RunOf
<1>4. RunOf(M, a) \subseteq M
  BY DEF RunOf
<1>5. IsFiniteSet(RunOf(M, a))
  BY <1>4, FS_Subset
<1>6. \E q \in RunOf(M, a) : /\ Max({s.hi : s \in RunOf(M, a)}) = q.hi
                             /\ \A s \in RunOf(M, a) : s.hi <= q.hi
  <2> DEFINE H == {s.hi : s \in RunOf(M, a)}
  <2>1. H \in SUBSET Int /\ H # {}
    BY <1>3, <1>4
  <2>2. IsFiniteSet(H)
    BY <1>4, <1>5, FiniteLos
  <2>3. Max(H) \in H /\ \A y \in H : y <= Max(H)
    <3> HIDE DEF H
    <3> QED
      BY <2>1, <2>2, MinMax
  <2> QED
    BY <2>3
<1>7. ASSUME NEW q \in RunOf(M, a), a < q.lo
      PROVE  \E s \in RunOf(M, a) : s.lo < q.lo /\ q.lo <= s.hi + BAR
  <2>1. q \in M /\ a \in Int /\ \A b \in RunStarts(M) : b <= a \/ q.lo < b
    BY <1>1, <1>4 DEF RunOf
  <2>2. q.lo \notin RunStarts(M)
    BY <1>2, <1>7, <2>1
  <2>3. PICK s \in M : s.lo < q.lo /\ ~(s.hi + BAR < q.lo)
    BY <2>1, <2>2 DEF RunStarts
  <2>4. a <= s.lo
    BY <1>1, <1>7, <2>1, <2>3
  <2>5. \A b \in RunStarts(M) : b <= a \/ s.lo < b
    BY <1>2, <2>1, <2>3
  <2>6. s \in RunOf(M, a)
    BY <2>4, <2>5 DEF RunOf
  <2> QED
    BY <2>1, <2>3, <2>6
<1> QED
  BY <1>1, <1>3, <1>4, <1>5, <1>6, <1>7

\* Every range is in a run.
LEMMA InARun ==
  ASSUME NEW M, IsFiniteSet(M), Bounded(M), NEW r \in M
  PROVE  \E a \in RunStarts(M) : r \in RunOf(M, a)
<1> USE BarAssumption DEF Bounded
<1> DEFINE A == {b \in RunStarts(M) : b <= r.lo}
<1>1. A \in SUBSET Int
  BY DEF RunStarts
<1>2. IsFiniteSet(A)
  <2>1. A \subseteq {s.lo : s \in M}
    BY DEF RunStarts
  <2> QED
    BY <2>1, FiniteLos, FS_Subset
<1>3. A # {}
  <2>1. PICK s \in M : \A q \in M : s.lo <= q.lo
    BY Extremes
  <2>2. s.lo \in RunStarts(M)
    BY <2>1 DEF RunStarts
  <2> QED
    BY <2>1, <2>2
<1>4. Max(A) \in A /\ \A y \in A : y <= Max(A)
  <2> HIDE DEF A
  <2> QED
    BY <1>1, <1>2, <1>3, MinMax
<1>5. r \in RunOf(M, Max(A))
  <2>1. \A b \in RunStarts(M) : b \in Int
    BY DEF RunStarts
  <2> QED
    BY <1>4, <2>1 DEF RunOf
<1> QED
  BY <1>4, <1>5
\* What coalescing gives: runs more than a bar apart, that cover every range,
\* each of them from the start of one of its ranges to the end of another.
LEMMA Coalescing ==
  ASSUME NEW M, IsFiniteSet(M), Bounded(M)
  PROVE  /\ IsFiniteSet(Coalesced(M))
         /\ \A c \in Coalesced(M) : c.lo \in Int /\ c.hi \in Int /\ c.lo <= c.hi
         /\ \A c, d \in Coalesced(M) : c.lo < d.lo => c.hi + BAR < d.lo
         /\ \A c, d \in Coalesced(M) : c.lo = d.lo => c = d
         /\ \A r \in M : \E c \in Coalesced(M) : c.lo <= r.lo /\ r.hi <= c.hi
         /\ \A c \in Coalesced(M) : c.lo \in RunStarts(M)
         /\ \A c \in Coalesced(M) : \E r \in RunOf(M, c.lo) :
              c.hi = r.hi /\ \A s \in RunOf(M, c.lo) : s.hi <= r.hi
<1> USE BarAssumption DEF Bounded
<1> DEFINE S    == RunStarts(M)
           C(a) == [lo |-> a, hi |-> Max({r.hi : r \in RunOf(M, a)})]
<1>1. Coalesced(M) = {C(a) : a \in S}
  BY DEF Coalesced, RunOf
<1>2. IsFiniteSet(S)
  <2>1. S \subseteq {s.lo : s \in M}
    BY DEF RunStarts
  <2> QED
    BY <2>1, FiniteLos, FS_Subset
<1>3. IsFiniteSet(Coalesced(M))
  <2> DEFINE f == [a \in S |-> C(a)]
  <2>1. Coalesced(M) = {f[a] : a \in S}
    BY <1>1
  <2>2. DOMAIN f = S /\ f = [a \in S |-> f[a]]
    OBVIOUS
  <2>3. IsFiniteSet({f[a] : a \in S})
    <3> HIDE DEF f
    <3> QED
      BY <1>2, <2>2, FiniteImage
  <2> QED
    BY <2>1, <2>3
<1>4. \A a \in S : /\ C(a).lo = a /\ a \in Int /\ C(a).hi \in Int /\ a <= C(a).hi
                   /\ \E r \in RunOf(M, a) : C(a).hi = r.hi /\ \A s \in RunOf(M, a) : s.hi <= r.hi
  <2> TAKE a \in S
  <2>1. PICK q \in RunOf(M, a) : q.lo = a
    BY Run
  <2>2. PICK r \in RunOf(M, a) : /\ Max({s.hi : s \in RunOf(M, a)}) = r.hi
                                 /\ \A s \in RunOf(M, a) : s.hi <= r.hi
    BY Run
  <2>3. RunOf(M, a) \subseteq M /\ a \in Int
    BY Run
  <2>4. C(a).lo = a /\ C(a).hi = r.hi
    BY <2>2
  <2>5. r.hi \in Int /\ q.hi \in Int /\ q.lo <= q.hi /\ q.hi <= r.hi
    BY <2>1, <2>2, <2>3
  <2>6. \E x \in RunOf(M, a) : C(a).hi = x.hi /\ \A s \in RunOf(M, a) : s.hi <= x.hi
    BY <2>2, <2>4
  <2> HIDE DEF C
  <2> QED
    BY <2>1, <2>3, <2>4, <2>5, <2>6
<1> HIDE DEF C
<1>5. \A a, b \in S : a < b => C(a).hi + BAR < b
  <2> SUFFICES ASSUME NEW a \in S, NEW b \in S, a < b
               PROVE  C(a).hi + BAR < b
    OBVIOUS
  <2>1. PICK r \in RunOf(M, a) : C(a).hi = r.hi
    BY <1>4
  <2>2. r \in M /\ r.lo < b
    <3>1. a \in Int /\ b \in Int
      BY <1>4
    <3>2. r \in M /\ (b <= a \/ r.lo < b)
      BY DEF RunOf
    <3> QED
      BY <3>1, <3>2
  <2>3. \A q \in M : q.lo < b => q.hi + BAR < b
    BY Run
  <2> QED
    BY <2>1, <2>2, <2>3
<1>6. \A r \in M : \E a \in S : C(a).lo <= r.lo /\ r.hi <= C(a).hi
  <2> TAKE r \in M
  <2>1. PICK a \in S : r \in RunOf(M, a)
    BY InARun
  <2>2. PICK q \in RunOf(M, a) : C(a).hi = q.hi /\ \A s \in RunOf(M, a) : s.hi <= q.hi
    BY <1>4
  <2>3. a <= r.lo
    BY <2>1 DEF RunOf
  <2> QED
    BY <1>4, <2>1, <2>2, <2>3
<1> QED
  <2>1. \A c \in Coalesced(M) : c.lo \in S /\ c = C(c.lo)
    BY <1>1, <1>4
  <2>2. \A c \in Coalesced(M) : /\ c.lo \in Int /\ c.hi \in Int /\ c.lo <= c.hi
                                /\ \E r \in RunOf(M, c.lo) :
                                     c.hi = r.hi /\ \A s \in RunOf(M, c.lo) : s.hi <= r.hi
    BY <1>4, <2>1
  <2>3. \A c, d \in Coalesced(M) : c.lo < d.lo => c.hi + BAR < d.lo
    BY <1>5, <2>1
  <2>4. \A c, d \in Coalesced(M) : c.lo = d.lo => c = d
    BY <2>1
  <2>5. \A r \in M : \E c \in Coalesced(M) : c.lo <= r.lo /\ r.hi <= c.hi
    BY <1>1, <1>6
  <2> QED
    BY <1>3, <2>1, <2>2, <2>3, <2>4, <2>5

\* A stamp within a bar of a run that reaches into the window is within a bar
\* of a range that does, but for a window that two ranges bridge.
LEMMA NearRange ==
  ASSUME NEW M, IsFiniteSet(M), Bounded(M), NEW lo \in Int, NEW hi \in Int, NEW t \in lo..hi,
         NEW c \in Coalesced(M), lo <= c.hi, c.lo <= hi, c.lo - BAR < t, t < c.hi + BAR,
         ~Bridged(M, lo, hi)
  PROVE  \E r \in M : lo <= r.hi /\ r.lo <= hi /\ r.lo - BAR < t /\ t < r.hi + BAR
<1> USE BarAssumption DEF Bounded
<1> DEFINE R == RunOf(M, c.lo)
<1>1. c.lo \in RunStarts(M) /\ c.lo \in Int /\ c.hi \in Int
  BY Coalescing
<1>2. R \subseteq M /\ IsFiniteSet(R)
  BY <1>1, Run
<1>3. PICK first \in R : first.lo = c.lo
  BY <1>1, Run
<1>4. PICK last \in R : last.hi = c.hi /\ \A s \in R : s.hi <= last.hi
  BY Coalescing
<1>5. \A q \in R : c.lo < q.lo => \E s \in R : s.lo < q.lo /\ q.lo <= s.hi + BAR
  BY <1>1, Run
<1>6. \A q \in R : q \in M /\ q.lo \in Int /\ q.hi \in Int /\ q.lo <= q.hi /\ c.lo <= q.lo
  BY <1>1, <1>2 DEF RunOf
<1>7. \A r, s \in M : r.hi < lo /\ hi < s.lo => ~(s.lo <= r.hi + BAR)
  BY DEF Bridged
<1> HIDE DEF R
\* Its first range that ends in the window or later ...
<1>8. \A T \in SUBSET R : T # {} => /\ \E q \in T : \A x \in T : q.lo <= x.lo
                                    /\ \E q \in T : \A x \in T : x.hi <= q.hi
  <2> TAKE T \in SUBSET R
  <2>1. IsFiniteSet(T)
    BY <1>2, FS_Subset
  <2> QED
    BY <1>6, <2>1, Extremes
<1>9. \E r \in R : r.lo - BAR < t /\ t < r.hi + BAR
  <2> DEFINE D == {x \in R : x.lo - BAR < t}
  <2>1. PICK m \in D : \A x \in D : x.hi <= m.hi
    <3>1. first \in D
      BY <1>3
    <3> QED
      BY <1>8, <3>1
  <2>2. CASE t < m.hi + BAR
    BY <2>1, <2>2
  <2>3. CASE ~(t < m.hi + BAR)
    <3> DEFINE E == {x \in R : t <= x.lo - BAR}
    <3>1. last \in E
      <4>1. last \notin D
        BY <1>1, <1>4, <1>6, <2>1, <2>3
      <4> QED
        BY <4>1, <1>4, <1>6
    <3>2. PICK q \in E : \A x \in E : q.lo <= x.lo
      BY <1>8, <3>1
    <3>3. c.lo < q.lo
      BY <1>1, <1>6, <3>2
    <3>4. PICK s \in R : s.lo < q.lo /\ q.lo <= s.hi + BAR
      BY <1>5, <3>2, <3>3
    <3>5. s \in D
      BY <1>6, <3>2, <3>4
    <3> QED
      BY <1>6, <2>1, <2>3, <3>2, <3>4, <3>5
  <2> QED
    BY <2>2, <2>3
<1>10. PICK r \in R : r.lo - BAR < t /\ t < r.hi + BAR
  BY <1>9
<1>11. CASE r.hi < lo
  <2> DEFINE E == {x \in R : lo <= x.hi}
  <2>1. PICK q \in E : \A x \in E : q.lo <= x.lo
    <3>1. last \in E
      BY <1>4
    <3> QED
      BY <1>8, <3>1
  <2>2. CASE q.lo <= r.lo
    BY <1>6, <1>10, <1>11, <2>1, <2>2
  <2>3. CASE r.lo < q.lo
    <3>1. c.lo < q.lo
      BY <1>1, <1>6, <2>1, <2>3
    <3>2. PICK s \in R : s.lo < q.lo /\ q.lo <= s.hi + BAR
      BY <1>5, <2>1, <3>1
    <3>3. s.hi < lo
      BY <1>6, <2>1, <3>2
    <3>4. q.lo <= hi
      BY <1>6, <1>7, <2>1, <3>2, <3>3
    <3> QED
      BY <1>6, <1>10, <1>11, <2>1, <3>2, <3>3, <3>4
  <2> QED
    BY <1>6, <2>1, <2>2, <2>3
<1>12. CASE hi < r.lo
  <2> DEFINE D == {x \in R : x.lo <= hi}
             E == {x \in R : hi < x.lo}
  <2>1. PICK q \in D : \A x \in D : x.hi <= q.hi
    <3>1. first \in D
      BY <1>3
    <3> QED
      BY <1>8, <3>1
  <2>2. PICK x \in E : \A y \in E : x.lo <= y.lo
    BY <1>8, <1>12
  <2>3. c.lo < x.lo
    BY <1>1, <1>6, <2>2
  <2>4. PICK s \in R : s.lo < x.lo /\ x.lo <= s.hi + BAR
    BY <1>5, <2>2, <2>3
  <2>5. s \in D
    BY <1>6, <2>2, <2>4
  <2>6. x.lo <= q.hi + BAR
    BY <1>6, <2>1, <2>2, <2>4, <2>5
  <2>7. lo <= q.hi
    BY <1>6, <1>7, <2>1, <2>2, <2>6
  <2>8. x.lo <= r.lo
    BY <1>12, <2>2
  <2>9. q.lo - BAR < t
    BY <1>6, <1>10, <1>12, <2>1
  <2>10. t < q.hi + BAR
    BY <1>6, <2>1, <2>2, <2>6
  <2> QED
    BY <1>6, <2>1, <2>7, <2>9, <2>10
<1> QED
  BY <1>6, <1>10, <1>11, <1>12
\* Where a hole begins.
LEMMA HoleStarts ==
  ASSUME NEW runs, IsFiniteSet(runs), \A r \in runs : r.lo \in Int /\ r.hi \in Int, NEW lo \in Int
  PROVE  /\ HoleStart(runs, lo) \in Int
         /\ lo <= HoleStart(runs, lo)
         /\ \A r \in runs : r.hi + BAR <= HoleStart(runs, lo)
         /\ \A t \in Int : /\ lo <= t
                           /\ \A r \in runs : r.hi + BAR <= t
                           => HoleStart(runs, lo) <= t
<1> USE BarAssumption
<1> DEFINE f == [r \in runs |-> r.hi + BAR]
           S == {lo} \cup {r.hi + BAR : r \in runs}
<1>1. S \in SUBSET Int /\ S # {}
  OBVIOUS
<1>2. IsFiniteSet(S)
  <2>1. DOMAIN f = runs /\ f = [x \in runs |-> f[x]]
    OBVIOUS
  <2>2. IsFiniteSet({f[x] : x \in runs})
    <3> HIDE DEF f
    <3> QED
      BY <2>1, FiniteImage
  <2>3. {f[x] : x \in runs} = {r.hi + BAR : r \in runs}
    OBVIOUS
  <2>4. S = {r.hi + BAR : r \in runs} \cup {lo}
    OBVIOUS
  <2> QED
    BY <2>2, <2>3, <2>4, FS_AddElement
<1>3. Max(S) \in S /\ \A y \in S : y <= Max(S)
  <2> HIDE DEF S
  <2> QED
    BY <1>1, <1>2, MinMax
<1>4. HoleStart(runs, lo) = Max(S)
  BY DEF HoleStart
<1> QED
  BY <1>3, <1>4

\* ... and where one ends.
LEMMA HoleEnds ==
  ASSUME NEW run, run.lo \in Int, NEW hi \in Int
  PROVE  /\ HoleEnd(run, hi) \in Int
         /\ HoleEnd(run, hi) <= hi /\ HoleEnd(run, hi) <= run.lo - BAR
         /\ \A t \in Int : t <= hi /\ t <= run.lo - BAR => t <= HoleEnd(run, hi)
<1> USE BarAssumption
<1> DEFINE S == {run.lo - BAR, hi}
<1>1. S \in SUBSET Int /\ S # {}
  OBVIOUS
<1>2. IsFiniteSet(S)
  <2>1. S = {run.lo - BAR} \cup {hi}
    OBVIOUS
  <2>2. IsFiniteSet({run.lo - BAR})
    BY FS_Singleton
  <2>3. IsFiniteSet({run.lo - BAR} \cup {hi})
    BY <2>2, FS_AddElement
  <2> QED
    BY <2>1, <2>3
<1>3. Min(S) \in S /\ \A y \in S : Min(S) <= y
  <2> HIDE DEF S
  <2> QED
    BY <1>1, <1>2, MinMax
<1> QED
  BY <1>3 DEF HoleEnd

\* The plan, for every manifest and window.
LEMMA Plan ==
  ASSUME NEW M, IsFiniteSet(M), Bounded(M), NEW lo \in Int, NEW hi \in Int
  PROVE  LET gs == MissingGaps(M, lo, hi)
         IN  /\ IsFiniteSet(gs)
             /\ \A g \in gs : /\ g = <<g[1], g[2]>> /\ g[1] \in Int /\ g[2] \in Int
                              /\ lo <= g[1] /\ g[1] <= g[2] /\ g[2] <= hi
             /\ Ticks(gs) = IF Bridged(M, lo, hi) THEN {} ELSE Unrecorded(M, lo, hi)
             /\ \A g, h \in gs : g # h => g[2] < h[1] \/ h[2] < g[1]
<1> USE BarAssumption
<1> DEFINE gs     == MissingGaps(M, lo, hi)
           runs   == {r \in Coalesced(M) : lo <= r.hi /\ r.lo <= hi}
           Pre(r) == {s \in runs : s.lo < r.lo}
           From(r) == HoleStart(Pre(r), lo)
           To(r)   == HoleEnd(r, hi)
           Hole(r) == <<From(r), To(r)>>
           tail   == <<HoleStart(runs, lo), hi>>
           holes  == {Hole(r) : r \in runs} \cup {tail}
<1>1. gs = {g \in holes : g[1] <= g[2]}
  BY DEF MissingGaps
<1>2. /\ \A c \in runs : c.lo \in Int /\ c.hi \in Int /\ c.lo <= c.hi
      /\ \A c, d \in runs : c.lo < d.lo => c.hi + BAR < d.lo
      /\ \A c, d \in runs : c.lo = d.lo => c = d
  BY Coalescing
<1>3. IsFiniteSet(runs)
  BY Coalescing, FS_Subset
<1>4. ASSUME NEW r \in runs
      PROVE  /\ From(r) \in Int /\ lo <= From(r)
             /\ \A s \in Pre(r) : s.hi + BAR <= From(r)
             /\ \A u \in Int : lo <= u /\ (\A s \in Pre(r) : s.hi + BAR <= u) => From(r) <= u
  <2>1. IsFiniteSet(Pre(r)) /\ \A s \in Pre(r) : s.lo \in Int /\ s.hi \in Int
    BY <1>2, <1>3, FS_Subset
  <2> HIDE DEF Pre, runs
  <2> QED
    BY <2>1, HoleStarts
<1>5. \A r \in runs : /\ To(r) \in Int /\ To(r) <= hi /\ To(r) <= r.lo - BAR
                      /\ \A t \in Int : t <= hi /\ t <= r.lo - BAR => t <= To(r)
  BY <1>2, HoleEnds
<1>6. /\ tail[1] \in Int /\ lo <= tail[1]
      /\ \A s \in runs : s.hi + BAR <= tail[1]
      /\ \A t \in Int : lo <= t /\ (\A s \in runs : s.hi + BAR <= t) => tail[1] <= t
  <2> HIDE DEF runs
  <2> QED
    BY <1>2, <1>3, HoleStarts
<1>7. tail = <<tail[1], hi>> /\ tail[2] = hi
  OBVIOUS
<1>8. \A r \in runs : Hole(r)[1] = From(r) /\ Hole(r)[2] = To(r)
  OBVIOUS
<1>9. IsFiniteSet(gs)
  <2> DEFINE f == [r \in runs |-> Hole(r)]
  <2>1. DOMAIN f = runs /\ f = [r \in runs |-> f[r]]
    OBVIOUS
  <2>2. IsFiniteSet({f[r] : r \in runs})
    <3> HIDE DEF f, runs
    <3> QED
      BY <1>3, <2>1, FiniteImage
  <2>3. {f[r] : r \in runs} = {Hole(r) : r \in runs}
    OBVIOUS
  <2>4. IsFiniteSet(holes)
    <3> HIDE DEF tail, Hole, runs, f
    <3> QED
      BY <2>2, <2>3, FS_AddElement
  <2> QED
    BY <1>1, <2>4, FS_Subset
<1> HIDE DEF From, To, tail, Pre
<1>10. \A g \in gs : \/ g = tail
                     \/ \E r \in runs : g = Hole(r) /\ g[1] = From(r) /\ g[2] = To(r)
  BY <1>1, <1>8
<1>11. \A g \in gs : /\ g = <<g[1], g[2]>> /\ g[1] \in Int /\ g[2] \in Int
                     /\ lo <= g[1] /\ g[1] <= g[2] /\ g[2] <= hi
  <2> TAKE g \in gs
  <2>1. g[1] <= g[2]
    BY <1>1
  <2>2. CASE g = tail
    BY <2>1, <2>2, <1>6, <1>7
  <2>3. CASE \E r \in runs : g = Hole(r) /\ g[1] = From(r) /\ g[2] = To(r)
    BY <2>1, <2>3, <1>4, <1>5
  <2> QED
    BY <1>10, <2>2, <2>3
<1> DEFINE Away(t) == \A c \in runs : t <= c.lo - BAR \/ c.hi + BAR <= t
<1>12. ASSUME NEW t \in lo..hi
       PROVE  (\E g \in gs : t \in g[1]..g[2]) <=> Away(t)
  <2>1. ASSUME NEW g \in gs, t \in g[1]..g[2]
        PROVE  Away(t)
    <3>1. t \in Int /\ g[1] <= t /\ t <= g[2] /\ g[1] \in Int /\ g[2] \in Int
      BY <1>11, <2>1
    <3>2. CASE g = tail
      BY <3>1, <3>2, <1>2, <1>6
    <3>3. CASE \E r \in runs : g = Hole(r) /\ g[1] = From(r) /\ g[2] = To(r)
      <4>1. PICK r \in runs : g[1] = From(r) /\ g[2] = To(r)
        BY <3>3
      <4> SUFFICES ASSUME NEW c \in runs
                   PROVE  t <= c.lo - BAR \/ c.hi + BAR <= t
        OBVIOUS
      <4>2. CASE c.lo < r.lo
        <5>1. c \in Pre(r)
          BY <4>2 DEF Pre
        <5>2. c.hi + BAR <= From(r) /\ From(r) \in Int
          BY <5>1, <1>4
        <5> QED
          BY <3>1, <4>1, <5>2, <1>2
      <4>3. CASE r.lo <= c.lo
        <5>1. t <= r.lo - BAR
          BY <3>1, <4>1, <1>2, <1>5
        <5> QED
          BY <3>1, <4>3, <5>1, <1>2
      <4> QED
        BY <4>2, <4>3, <1>2
    <3> QED
      BY <1>10, <3>2, <3>3
  <2>2. ASSUME Away(t)
        PROVE  \E g \in gs : t \in g[1]..g[2]
    <3> DEFINE N == {c \in runs : t <= c.lo - BAR}
    <3>1. CASE N = {}
      <4>1. \A c \in runs : c.hi + BAR <= t
        BY <2>2, <3>1
      <4>2. tail[1] <= t
        BY <4>1, <1>6
      <4>3. tail \in gs
        BY <4>2, <1>1, <1>6, <1>7
      <4> QED
        BY <4>2, <4>3, <1>6, <1>7
    <3>2. CASE N # {}
      <4>1. PICK r \in N : \A x \in N : r.lo <= x.lo
        <5>1. IsFiniteSet(N)
          BY <1>3, FS_Subset
        <5>2. \A x \in N : x.lo \in Int /\ x.hi \in Int
          BY <1>2
        <5> HIDE DEF N
        <5> QED
          BY <3>2, <5>1, <5>2, Extremes
      <4>2. \A s \in Pre(r) : s.hi + BAR <= t
        <5> SUFFICES ASSUME NEW s \in Pre(r) PROVE s.hi + BAR <= t
          OBVIOUS
        <5>1. s \in runs /\ s.lo < r.lo
          BY DEF Pre
        <5>2. s \notin N
          BY <4>1, <5>1, <1>2
        <5> QED
          BY <2>2, <5>1, <5>2
      <4>3. From(r) <= t /\ t <= To(r)
        <5>1. r \in runs /\ t <= r.lo - BAR /\ t \in Int /\ lo <= t /\ t <= hi
          BY <4>1
        <5>2. From(r) <= t
          <6> HIDE DEF runs, N, gs, Hole, holes
          <6> QED
            BY <4>2, <5>1, <1>4
        <5>3. t <= To(r)
          BY <5>1, <1>5
        <5> QED
          BY <5>2, <5>3
      <4>4. Hole(r) \in gs
        <5>1. From(r) <= To(r)
          BY <4>1, <4>3, <1>4, <1>5
        <5> QED
          BY <4>1, <5>1, <1>1, <1>8
      <4> QED
        BY <4>1, <4>3, <4>4, <1>4, <1>5, <1>8
    <3> QED
      BY <3>1, <3>2
  <2> QED
    BY <2>1, <2>2
<1>13. Ticks(gs) = {t \in lo..hi : Away(t)}
  <2>1. \A t \in Ticks(gs) : t \in lo..hi
    <3> HIDE DEF gs
    <3> QED
      BY <1>11 DEF Ticks
  <2>2. \A t : t \in Ticks(gs) <=> \E g \in gs : t \in g[1]..g[2]
    BY DEF Ticks
  <2> HIDE DEF gs, Away
  <2> QED
    BY <1>12, <2>1, <2>2
<1>14. ASSUME NEW t \in lo..hi, ~Bridged(M, lo, hi)
       PROVE  Away(t) <=> t \in Unrecorded(M, lo, hi)
  <2>1. ASSUME NEW r \in M, ~(r.hi < lo \/ hi < r.lo \/ t <= r.lo - BAR \/ r.hi + BAR <= t)
        PROVE  ~Away(t)
    <3>1. PICK c \in Coalesced(M) : c.lo <= r.lo /\ r.hi <= c.hi
      BY Coalescing
    <3>2. c.lo \in Int /\ c.hi \in Int
      BY Coalescing
    <3>3. r.lo \in Int /\ r.hi \in Int
      BY DEF Bounded
    <3> QED
      BY <2>1, <3>1, <3>2, <3>3
  <2>2. ASSUME NEW c \in runs, ~(t <= c.lo - BAR \/ c.hi + BAR <= t)
        PROVE  t \notin Unrecorded(M, lo, hi)
    <3>1. c \in Coalesced(M) /\ lo <= c.hi /\ c.lo <= hi /\ c.lo - BAR < t /\ t < c.hi + BAR
      BY <1>2, <2>2
    <3>2. PICK r \in M : lo <= r.hi /\ r.lo <= hi /\ r.lo - BAR < t /\ t < r.hi + BAR
      BY <1>14, <3>1, NearRange
    <3>3. r.lo \in Int /\ r.hi \in Int
      BY DEF Bounded
    <3> QED
      BY <3>2, <3>3 DEF Unrecorded
  <2> QED
    BY <2>1, <2>2 DEF Unrecorded
<1>15. ASSUME NEW t \in lo..hi, Bridged(M, lo, hi)
       PROVE  ~Away(t)
  <2>1. PICK r \in M, s \in M : r.hi < lo /\ hi < s.lo /\ s.lo <= r.hi + BAR
    BY <1>15 DEF Bridged
  <2>2. /\ r.lo \in Int /\ r.hi \in Int /\ r.lo <= r.hi
        /\ s.lo \in Int /\ s.hi \in Int /\ s.lo <= s.hi
    BY DEF Bounded
  <2>3. PICK c \in Coalesced(M) : c.lo <= r.lo /\ r.hi <= c.hi
    BY Coalescing
  <2>4. PICK d \in Coalesced(M) : d.lo <= s.lo /\ s.hi <= d.hi
    BY Coalescing
  <2>5. /\ c.lo \in Int /\ c.hi \in Int /\ d.lo \in Int /\ d.hi \in Int
        /\ c.lo < d.lo => c.hi + BAR < d.lo
        /\ d.lo < c.lo => d.hi + BAR < c.lo
        /\ c.lo = d.lo => c = d
    BY Coalescing
  <2>6. c = d
    BY <2>1, <2>2, <2>3, <2>4, <2>5
  <2> QED
    BY <2>1, <2>2, <2>3, <2>4, <2>5, <2>6
<1>16. Ticks(gs) = IF Bridged(M, lo, hi) THEN {} ELSE Unrecorded(M, lo, hi)
  <2>1. Unrecorded(M, lo, hi) \subseteq lo..hi
    BY DEF Unrecorded
  <2> HIDE DEF gs, Away
  <2> QED
    BY <1>13, <1>14, <1>15, <2>1
<1>17. ASSUME NEW g \in gs, NEW h \in gs, g # h
       PROVE  g[2] < h[1] \/ h[2] < g[1]
  <2>1. ASSUME NEW r \in runs, NEW s \in runs, r.lo < s.lo
        PROVE  To(r) < From(s)
    <3>1. r \in Pre(s)
      BY <2>1 DEF Pre
    <3>2. r.hi + BAR <= From(s) /\ From(s) \in Int
      BY <3>1, <1>4
    <3> QED
      BY <3>2, <1>2, <1>5
  <2>2. ASSUME NEW r \in runs
        PROVE  To(r) < tail[1]
    BY <1>2, <1>5, <1>6
  <2>3. CASE g = tail
    BY <1>10, <1>17, <2>2, <2>3
  <2>4. CASE h = tail
    BY <1>10, <1>17, <2>2, <2>4
  <2>5. CASE g # tail /\ h # tail
    <3>1. PICK r \in runs : g = Hole(r) /\ g[1] = From(r) /\ g[2] = To(r)
      BY <1>10, <2>5
    <3>2. PICK s \in runs : h = Hole(s) /\ h[1] = From(s) /\ h[2] = To(s)
      BY <1>10, <2>5
    <3>3. r # s
      BY <1>17, <3>1, <3>2
    <3>4. r.lo < s.lo \/ s.lo < r.lo
      BY <1>2, <3>3
    <3> QED
      BY <2>1, <3>1, <3>2, <3>4
  <2> QED
    BY <2>3, <2>4, <2>5
<1> QED
  BY <1>9, <1>11, <1>16, <1>17
-----------------------------------------------------------------------------
(* Pages                                                                    *)

\* A venue's candles do not overlap, and there are finitely many.
Candled(H) ==
  /\ H \subseteq Nat /\ IsFiniteSet(H)
  /\ \A o, p \in H : o < p => o + BAR <= p

\* Finitely many candles have finitely many open times.
LEMMA FiniteOpens ==
  ASSUME NEW S, IsFiniteSet(S)
  PROVE  IsFiniteSet({c.open : c \in S})
<1> DEFINE f == [c \in S |-> c.open]
<1>1. DOMAIN f = S /\ f = [c \in S |-> f[c]]
  OBVIOUS
<1>2. IsFiniteSet({f[c] : c \in S})
  <2> HIDE DEF f
  <2> QED
    BY <1>1, FiniteImage
<1> QED
  BY <1>2

\* What a venue has at a time: one candle for every open time that has come,
\* done when a bar has gone by since.
LEMMA CandlesKnown ==
  ASSUME NEW H, Candled(H), NEW n \in Int
  PROVE  LET C == CandlesAt(H, n)
         IN  /\ IsFiniteSet(C)
             /\ C \subseteq [open : H, done : BOOLEAN]
             /\ \A c \in C : c.open \in H /\ c.open \in Nat /\ c.open <= n
             /\ \A c \in C : c.done => c.open + BAR <= n
             /\ \A c \in C : c.open + BAR <= n => c.done
             /\ \A c, d \in C : c.open = d.open => c = d
             /\ \A o \in H : o <= n => \E c \in C : c.open = o
<1> USE BarAssumption DEF Candled
<1> DEFINE B == {h \in H : h <= n}
           f == [o \in B |-> [open |-> o, done |-> o + BAR <= n]]
<1>1. CandlesAt(H, n) = {f[o] : o \in B}
  BY DEF CandlesAt
<1>2. IsFiniteSet(CandlesAt(H, n))
  <2>1. IsFiniteSet(B)
    BY FS_Subset
  <2>2. DOMAIN f = B /\ f = [o \in B |-> f[o]]
    OBVIOUS
  <2>3. IsFiniteSet({f[o] : o \in B})
    <3> HIDE DEF f, B
    <3> QED
      BY <2>1, <2>2, FiniteImage
  <2> QED
    BY <1>1, <2>3
<1>3. \A c \in CandlesAt(H, n) : \E o \in B : c = [open |-> o, done |-> o + BAR <= n]
  BY DEF CandlesAt
<1>4. \A o \in B : [open |-> o, done |-> o + BAR <= n] \in CandlesAt(H, n)
  BY DEF CandlesAt
<1> DEFINE C == CandlesAt(H, n)
<1>5. ASSUME NEW c \in C
      PROVE  /\ c \in [open : H, done : BOOLEAN]
             /\ c.open \in H /\ c.open \in Nat /\ c.open <= n
             /\ c = [open |-> c.open, done |-> c.open + BAR <= n]
             /\ c.done => c.open + BAR <= n
             /\ c.open + BAR <= n => c.done
  <2>1. PICK o \in B : c = [open |-> o, done |-> o + BAR <= n]
    BY <1>3
  <2>2. c.open = o /\ (c.done <=> o + BAR <= n) /\ c.done = (o + BAR <= n)
    BY <2>1
  <2>3. (o + BAR <= n) \in BOOLEAN
    OBVIOUS
  <2> QED
    BY <2>1, <2>2, <2>3
<1>6. \A c, d \in C : c.open = d.open => c = d
  <2> SUFFICES ASSUME NEW c \in C, NEW d \in C, c.open = d.open
               PROVE  c = d
    OBVIOUS
  <2>1. c = [open |-> c.open, done |-> c.open + BAR <= n]
    BY <1>5
  <2>2. d = [open |-> d.open, done |-> d.open + BAR <= n]
    BY <1>5
  <2> QED
    BY <2>1, <2>2
<1>7. ASSUME NEW o \in H, o <= n PROVE \E c \in C : c.open = o
  <2>1. [open |-> o, done |-> o + BAR <= n] \in C
    BY <1>4, <1>7
  <2>2. [open |-> o, done |-> o + BAR <= n].open = o
    OBVIOUS
  <2> QED
    BY <2>1, <2>2
<1> HIDE DEF C
<1>8. C = CandlesAt(H, n)
  BY DEF C
<1>9. C \subseteq [open : H, done : BOOLEAN]
  BY <1>5
<1> QED
  BY <1>2, <1>5, <1>6, <1>7, <1>8, <1>9

\* The newest of them are those above some time, the oldest those below.
LEMMA NewestAbove ==
  ASSUME NEW S, IsFiniteSet(S), \A c \in S : c.open \in Int
  PROVE  /\ Newest(S) \subseteq S
         /\ \A c \in Newest(S), d \in S : c.open <= d.open => d \in Newest(S)
         /\ \A c \in S : (\A d, e \in S : c.open < d.open /\ c.open < e.open => d = e)
                         => c \in Newest(S)
<1> USE LimitAssumption
<1> DEFINE Above(c) == {d \in S : d.open > c.open}
<1>1. \A c : IsFiniteSet(Above(c)) /\ Cardinality(Above(c)) \in Nat
  BY FS_Subset, FS_CardinalityType
<1>2. ASSUME NEW c \in Newest(S), NEW d \in S, c.open <= d.open
      PROVE  d \in Newest(S)
  <2>1. c \in S /\ Cardinality(Above(c)) < Limit
    BY DEF Newest
  <2>2. Above(d) \subseteq Above(c)
    BY <1>2, <2>1
  <2>3. Cardinality(Above(d)) <= Cardinality(Above(c))
    <3> HIDE DEF Above
    <3> QED
      BY <1>1, <2>2, FS_Subset
  <2>4. Cardinality(Above(d)) < Limit
    <3> HIDE DEF Above
    <3> QED
      BY <1>1, <2>1, <2>3
  <2> QED
    BY <2>4 DEF Newest
<1>3. ASSUME NEW c \in S, \A d, e \in S : c.open < d.open /\ c.open < e.open => d = e
      PROVE  c \in Newest(S)
  <2>1. Cardinality(Above(c)) \in {0, 1}
    <3>1. CASE Above(c) = {}
      BY <3>1, FS_EmptySet
    <3>2. CASE Above(c) # {}
      <4>1. PICK d \in Above(c) : TRUE
        BY <3>2
      <4>2. Above(c) = {d}
        BY <1>3, <4>1
      <4> QED
        BY <4>2, FS_Singleton
    <3> QED
      BY <3>1, <3>2
  <2>2. Cardinality(Above(c)) < Limit
    <3> HIDE DEF Above
    <3> QED
      BY <2>1
  <2> QED
    BY <2>2 DEF Newest
<1>4. Newest(S) \subseteq S
  BY DEF Newest
<1> QED
  BY <1>2, <1>3, <1>4

\* The oldest of them, of which there is one if there is any.
LEMMA OldestBelow ==
  ASSUME NEW S, IsFiniteSet(S), \A c \in S : c.open \in Int
  PROVE  /\ Oldest(S) \subseteq S
         /\ \A c \in Oldest(S), d \in S : d.open <= c.open => d \in Oldest(S)
         /\ S # {} => Oldest(S) # {}
<1> USE LimitAssumption
<1> DEFINE Below(c) == {d \in S : d.open < c.open}
<1>1. \A c : IsFiniteSet(Below(c)) /\ Cardinality(Below(c)) \in Nat
  BY FS_Subset, FS_CardinalityType
<1>2. ASSUME NEW c \in Oldest(S), NEW d \in S, d.open <= c.open
      PROVE  d \in Oldest(S)
  <2>1. c \in S /\ Cardinality(Below(c)) < Limit
    BY DEF Oldest
  <2>2. Below(d) \subseteq Below(c)
    BY <1>2, <2>1
  <2>3. Cardinality(Below(d)) <= Cardinality(Below(c))
    <3> HIDE DEF Below
    <3> QED
      BY <1>1, <2>2, FS_Subset
  <2>4. Cardinality(Below(d)) < Limit
    <3> HIDE DEF Below
    <3> QED
      BY <1>1, <2>1, <2>3
  <2> QED
    BY <2>4 DEF Oldest
<1>3. ASSUME S # {} PROVE Oldest(S) # {}
  <2> DEFINE f == [c \in S |-> c.open]
  <2>1. PICK c \in S : \A d \in S : c.open <= d.open
    <3>1. f \in [S -> Int]
      OBVIOUS
    <3>2. \E x \in S : \A y \in S : f[x] <= f[y]
      <4> HIDE DEF f
      <4> QED
        BY <1>3, <3>1, FiniteLeast
    <3> QED
      BY <3>2
  <2>2. Below(c) = {}
    BY <2>1
  <2>3. Cardinality(Below(c)) = 0
    BY <2>2, FS_EmptySet
  <2> QED
    BY <2>3 DEF Oldest
<1>4. Oldest(S) \subseteq S
  BY DEF Oldest
<1> QED
  BY <1>2, <1>3, <1>4

\* The loops by the way their cursor moves, and the page that comes next.
Backward == {"okx", "bybit", "kucoin", "mexcFutures"}
Forward  == {"binance", "mexc"}

PageAt(ven, H, n, f) == Parsed(ven, Answer(ven, CandlesAt(H, n), f))

\* What a connector asks for, by the way its loop goes.
LEMMA AskedBounds ==
  ASSUME NEW f, f.start \in Int, f.end \in Int, f.cursor \in Int, NEW ven \in Venues
  PROVE  /\ Asked(ven, f).from \in Int /\ Asked(ven, f).to \in Int
         /\ ven \in Backward => /\ Asked(ven, f).from \in {0, f.start}
                                /\ Asked(ven, f).to = (IF ven = "okx" THEN f.cursor - 1 ELSE f.cursor)
                                /\ Asked(ven, f).newest
         /\ ven \in Forward => /\ Asked(ven, f).from = f.cursor
                               /\ Asked(ven, f).to = (IF ven = "mexc" THEN f.end - 1 ELSE f.end)
                               /\ ~Asked(ven, f).newest
<1>1. CASE ven = "okx"
  BY <1>1 DEF Asked, Backward, Forward, OkxAsks
<1>2. CASE ven = "bybit"
  BY <1>2 DEF Asked, Backward, Forward, BybitAsks
<1>3. CASE ven = "kucoin"
  BY <1>3 DEF Asked, Backward, Forward, KucoinAsks
<1>4. CASE ven = "mexcFutures"
  BY <1>4 DEF Asked, Backward, Forward, MexcFuturesAsks
<1>5. CASE ven = "binance"
  BY <1>5 DEF Asked, Backward, Forward, BinanceAsks
<1>6. CASE ven = "mexc"
  BY <1>6 DEF Asked, Backward, Forward, MexcAsks
<1> QED
  BY <1>1, <1>2, <1>3, <1>4, <1>5, <1>6 DEF Venues

\* What a page is of.
LEMMA PageTrue ==
  ASSUME NEW ven \in Venues, NEW H, Candled(H), NEW n \in Int,
         NEW f, f.start \in Int, f.end \in Int, f.cursor \in Int
  PROVE  LET page == PageAt(ven, H, n, f)
         IN  /\ IsFiniteSet(page)
             /\ page \subseteq CandlesAt(H, n)
             /\ \A c \in page : /\ c.open \in H /\ c.open \in Nat /\ c.open <= n
                                /\ Asked(ven, f).from <= c.open /\ c.open <= Asked(ven, f).to
                                /\ c.done => c.open + BAR <= n
                                /\ ven = "okx" => c.done
<1> DEFINE C == CandlesAt(H, n)
           found == {c \in C : c.open \in Asked(ven, f).from..Asked(ven, f).to}
           page == PageAt(ven, H, n, f)
<1>1. Newest(found) \subseteq found /\ Oldest(found) \subseteq found
  BY DEF Newest, Oldest
<1>2. Answer(ven, C, f) \subseteq found
  BY <1>1 DEF Answer
<1>3. page \subseteq Answer(ven, C, f) /\ (ven = "okx" => \A c \in page : c.done)
  BY DEF PageAt, Parsed, OkxParsed
<1>4. page \subseteq C
  BY <1>2, <1>3
<1>5. IsFiniteSet(page)
  BY <1>4, CandlesKnown, FS_Subset
<1>6. \A c \in page : Asked(ven, f).from <= c.open /\ c.open <= Asked(ven, f).to
  <2>1. Asked(ven, f).from \in Int /\ Asked(ven, f).to \in Int
    BY AskedBounds
  <2> HIDE DEF page, C
  <2> QED
    BY <2>1, <1>2, <1>3
<1> HIDE DEF page, C
<1>7. \A c \in page : c.open \in H /\ c.open \in Nat /\ c.open <= n /\ (c.done => c.open + BAR <= n)
  BY <1>4, CandlesKnown DEF C
<1> QED
  BY <1>3, <1>4, <1>5, <1>6, <1>7 DEF C, page

\* A page of the newest candles leaves out none but older ones, and those
\* that were not over.
LEMMA BackwardPage ==
  ASSUME NEW ven \in Backward, NEW H, Candled(H), NEW n \in Int,
         NEW f, f.start \in Int, f.end \in Int, f.cursor \in Int,
         NEW o \in H, Asked(ven, f).from <= o, o <= Asked(ven, f).to
  PROVE  LET page == PageAt(ven, H, n, f)
         IN  \/ o \in Opens(page)
             \/ page # {} /\ \A c \in page : o < c.open
             \/ n < o + BAR /\ \A c \in page : c.open < o
<1> USE BarAssumption
<1> DEFINE C == CandlesAt(H, n)
           found == {c \in C : c.open \in Asked(ven, f).from..Asked(ven, f).to}
           page == PageAt(ven, H, n, f)
<1>1. /\ ven \in Venues /\ ven # "mexc" /\ Asked(ven, f).newest
      /\ Asked(ven, f).from \in Int /\ Asked(ven, f).to \in Int
  <2>1. ven \in Venues /\ ven # "mexc"
    BY DEF Backward, Venues
  <2> QED
    BY <2>1, AskedBounds
<1>2. /\ IsFiniteSet(C)
      /\ \A c \in C : c.open \in H /\ c.open \in Nat /\ c.open <= n
      /\ \A c \in C : c.done => c.open + BAR <= n
      /\ \A c \in C : c.open + BAR <= n => c.done
      /\ \A c, d \in C : c.open = d.open => c = d
      /\ \A q \in H : q <= n => \E c \in C : c.open = q
  BY CandlesKnown
<1>3. page = IF ven = "okx" THEN {c \in Newest(found) : c.done} ELSE Newest(found)
  BY <1>1 DEF PageAt, Parsed, OkxParsed, Answer
<1>4. IsFiniteSet(found) /\ \A c \in found : c \in C /\ c.open \in Int
  BY <1>2, FS_Subset
<1>5. /\ Newest(found) \subseteq found
      /\ \A c \in Newest(found), d \in found : c.open <= d.open => d \in Newest(found)
      /\ \A c \in found : (\A d, e \in found : c.open < d.open /\ c.open < e.open => d = e)
                          => c \in Newest(found)
  <2> HIDE DEF found
  <2> QED
    BY <1>4, NewestAbove
<1>6. o \in Nat /\ \A p, q \in H : p < q => p + BAR <= q
  BY DEF Candled
<1>7. \A c \in found : c.open \in H /\ c.open \in Nat /\ c.open <= n
  BY <1>2
<1>8. CASE n < o
  <2>1. \A c \in page : c.open <= n
    BY <1>2, <1>3, <1>4, <1>5
  <2>2. \A c \in page : c.open \in Nat
    BY <1>2, <1>3, <1>4, <1>5
  <2> HIDE DEF page
  <2>3. n < o + BAR /\ \A c \in page : c.open < o
    BY <1>6, <1>8, <2>1, <2>2
  <2> QED
    BY <2>3 DEF page
<1>9. CASE o <= n
  <2>1. PICK c \in C : c.open = o
    BY <1>2, <1>9
  <2>2. c \in found
    BY <1>1, <1>6, <2>1
  <2> HIDE DEF C, found, page
  <2>3. CASE c \in Newest(found) /\ (ven = "okx" => c.done)
    <3>1. c \in page
      BY <1>3, <2>3
    <3> QED
      BY <2>1, <3>1 DEF Opens, page
  <2>4. CASE c \in Newest(found) /\ ven = "okx" /\ ~c.done
    <3>1. n < o + BAR
      BY <1>2, <1>6, <2>1, <2>4
    <3>2. \A d \in page : d.open < o
      <4> SUFFICES ASSUME NEW d \in page PROVE d.open < o
        OBVIOUS
      <4>1. d \in found /\ d.done
        BY <1>3, <1>5, <2>4
      <4>2. d.open + BAR <= n /\ d.open \in Nat
        BY <1>2, <1>4, <4>1
      <4> QED
        BY <1>6, <3>1, <4>2
    <3> QED
      BY <3>1, <3>2 DEF page
  <2>5. CASE c \notin Newest(found)
    <3>1. \A d \in page : o < d.open
      <4> SUFFICES ASSUME NEW d \in page PROVE o < d.open
        OBVIOUS
      <4>1. d \in Newest(found) /\ d \in found
        BY <1>3, <1>5
      <4>2. ~(d.open <= c.open)
        BY <1>5, <2>2, <2>5, <4>1
      <4> QED
        BY <1>6, <1>7, <2>1, <4>1, <4>2
    <3>2. PICK d \in found, e \in found : c.open < d.open /\ c.open < e.open /\ d # e
      BY <1>5, <2>2, <2>5
    <3>3. \E x \in found : c.open < x.open /\ x.open + BAR <= n
      <4>1. d \in C /\ e \in C /\ d.open # e.open
        BY <1>2, <1>4, <3>2
      <4>2. d.open < e.open \/ e.open < d.open
        BY <1>7, <4>1
      <4>3. d.open + BAR <= e.open \/ e.open + BAR <= d.open
        BY <1>6, <1>7, <4>2
      <4> QED
        BY <1>7, <3>2, <4>3
    <3> DEFINE Over == {x \in found : x.open + BAR <= n}
    <3>4. PICK x \in Over : \A y \in Over : y.open <= x.open
      <4> DEFINE g == [y \in Over |-> y.open]
      <4>1. g \in [Over -> Int]
        BY <1>7
      <4>2. IsFiniteSet(Over) /\ Over # {}
        BY <1>4, <3>3, FS_Subset
      <4>3. \E y \in Over : \A z \in Over : g[z] <= g[y]
        <5> HIDE DEF g, Over
        <5> QED
          BY <4>1, <4>2, FiniteGreatest
      <4> QED
        BY <4>3
    <3>5. x \in Newest(found)
      <4>1. ASSUME NEW y \in found, NEW z \in found, x.open < y.open, x.open < z.open
            PROVE  y = z
        <5>1. y \notin Over /\ z \notin Over
          BY <1>7, <3>4, <4>1
        <5>2. n < y.open + BAR /\ n < z.open + BAR
          BY <1>7, <5>1
        <5>3. ~(y.open < z.open) /\ ~(z.open < y.open)
          BY <1>6, <1>7, <5>2
        <5>4. y.open = z.open
          BY <1>7, <5>3
        <5> QED
          BY <1>2, <1>4, <5>4
      <4> QED
        BY <1>5, <3>4, <4>1
    <3>6. x \in page
      BY <1>2, <1>3, <1>4, <3>4, <3>5
    <3> QED
      BY <3>1, <3>6 DEF page
  <2> QED
    BY <2>3, <2>4, <2>5
<1> QED
  BY <1>2, <1>6, <1>8, <1>9

\* A page of the oldest leaves out none but newer ones.
LEMMA ForwardPage ==
  ASSUME NEW ven \in Forward, NEW H, Candled(H), NEW n \in Int,
         NEW f, f.start \in Int, f.end \in Int, f.cursor \in Int,
         NEW o \in H, Asked(ven, f).from <= o, o <= Asked(ven, f).to
  PROVE  LET page == PageAt(ven, H, n, f)
         IN  \/ o \in Opens(page)
             \/ page # {} /\ \A c \in page : c.open < o
             \/ page = {} /\ n < o
             \/ /\ page = {} /\ ven = "mexc" /\ f.cursor + Limit * BAR <= o
                /\ \A p \in H : p <= n => f.cursor + Limit * BAR <= p
<1> USE BarAssumption, LimitAssumption
<1> DEFINE C == CandlesAt(H, n)
           past == f.cursor + Limit * BAR
           found == {c \in C : c.open \in Asked(ven, f).from..Asked(ven, f).to}
           page == PageAt(ven, H, n, f)
<1>1. /\ ven \in Venues /\ ven # "okx" /\ ~Asked(ven, f).newest
      /\ Asked(ven, f).from \in Int /\ Asked(ven, f).to \in Int
  <2>1. ven \in Venues /\ ven # "okx"
    BY DEF Forward, Venues
  <2> QED
    BY <2>1, AskedBounds
<1>2. /\ IsFiniteSet(C)
      /\ \A c \in C : c.open \in H /\ c.open \in Nat /\ c.open <= n
      /\ \A c, d \in C : c.open = d.open => c = d
      /\ \A q \in H : q <= n => \E c \in C : c.open = q
  BY CandlesKnown
<1>3. page = IF ven = "mexc" /\ \A c \in C : past <= c.open THEN {} ELSE Oldest(found)
  BY <1>1 DEF PageAt, Parsed, Answer
<1>4. IsFiniteSet(found) /\ \A c \in found : c \in C /\ c.open \in Int
  BY <1>2, FS_Subset
<1>5. /\ Oldest(found) \subseteq found
      /\ \A c \in Oldest(found), d \in found : d.open <= c.open => d \in Oldest(found)
      /\ found # {} => Oldest(found) # {}
  <2> HIDE DEF found
  <2> QED
    BY <1>4, OldestBelow
<1>6. o \in Nat
  BY DEF Candled
<1>7. \A c \in found : c.open \in H /\ c.open \in Nat /\ c.open <= n
  BY <1>2
<1>8. CASE n < o
  <2>1. \A c \in page : c.open <= n /\ c.open \in Nat
    BY <1>2, <1>3, <1>4, <1>5
  <2> HIDE DEF page
  <2>2. \A c \in page : c.open < o
    BY <1>6, <1>8, <2>1
  <2> QED
    BY <1>8, <2>2 DEF page
<1>9. CASE o <= n
  <2>1. PICK c \in C : c.open = o
    BY <1>2, <1>9
  <2>2. c \in found
    BY <1>1, <1>6, <2>1
  <2>3. past \in Int
    OBVIOUS
  <2>4. CASE ven = "mexc" /\ \A d \in C : past <= d.open
    <3>1. page = {} /\ past <= o
      BY <1>3, <2>1, <2>4
    <3>2. \A p \in H : p <= n => past <= p
      BY <1>2, <2>4
    <3> HIDE DEF page, C
    <3> QED
      BY <2>4, <3>1, <3>2 DEF page
  <2> HIDE DEF C, found, page, past
  <2>5. CASE ~(ven = "mexc" /\ \A d \in C : past <= d.open)
    <3>1. page = Oldest(found) /\ page # {}
      BY <1>3, <1>5, <2>2, <2>5
    <3>2. CASE c \in page
      BY <2>1, <3>2 DEF Opens, page
    <3>3. CASE c \notin page
      <4>1. \A d \in page : d.open < o
        <5> SUFFICES ASSUME NEW d \in page PROVE d.open < o
          OBVIOUS
        <5>1. d \in found /\ ~(c.open <= d.open)
          BY <1>5, <2>2, <3>1, <3>3
        <5> QED
          BY <1>6, <1>7, <2>1, <5>1
      <4> QED
        BY <3>1, <4>1 DEF page
    <3> QED
      BY <3>2, <3>3
  <2> QED
    BY <2>4, <2>5
<1>10. n < o \/ o <= n
  BY <1>6
<1> QED
  BY <1>8, <1>9, <1>10

-----------------------------------------------------------------------------
(* Where a loop stands                                                      *)

\* A page joins those before it.
LEMMA Joined ==
  ASSUME NEW all, NEW page
  PROVE  /\ Opens(AddPage(all, page)) = Opens(all) \cup Opens(page)
         /\ AddPage(all, page) \subseteq all \cup page
         /\ all \subseteq AddPage(all, page)
  BY DEF Opens, AddPage

\* The states of a loop over the candles of H.
FeedState(H) ==
  [start : Nat, end : Int, cursor : Int, all : SUBSET [open : H, done : BOOLEAN], over : BOOLEAN]

\* Where a loop stands: behind its cursor it has all there is, but for what
\* was not over when the request was made.
Paging(ven, H, w, f) ==
  /\ f \in FeedState(H)
  /\ \A c \in f.all : c.open <= f.end
  /\ ven \in Backward =>
       /\ Asked(ven, f).to <= f.end
       /\ \A c \in f.all : Asked(ven, f).to < c.open
       /\ \A o \in H : Asked(ven, f).to < o /\ o < f.end =>
            o \in Opens(f.all) \/ (w < o + BAR /\ \A c \in f.all : c.open < o)
  /\ ven \in Forward =>
       /\ f.start <= f.cursor
       /\ \A c \in f.all : f.start <= c.open /\ c.open < f.cursor
       /\ \A o \in H : f.start <= o /\ o < f.cursor /\ o < f.end =>
            o \in Opens(f.all) \/ (ven = "mexc" /\ w < o /\ \A c \in f.all : o < c.open)

\* What it has when it ends.
Drained(ven, H, w, f) ==
  \A o \in H : f.start <= o /\ o < f.end =>
    \/ o \in Opens(f.all)
    \/ w < o + BAR /\ (ven \in Forward => w < o) /\ \A c \in f.all : c.open < o
    \/ ven = "mexc" /\ w < o /\ \A c \in f.all : o < c.open

\* The oldest and the newest candle of a page are in it.
LEMMA PageEdges ==
  ASSUME NEW page, IsFiniteSet(page), page # {}, \A c \in page : c.open \in Nat
  PROVE  /\ OldestOpen(page) \in Nat /\ NewestOpen(page) \in Nat
         /\ \E c \in page : c.open = OldestOpen(page)
         /\ \E c \in page : c.open = NewestOpen(page)
         /\ \A c \in page : OldestOpen(page) <= c.open /\ c.open <= NewestOpen(page)
<1> DEFINE S == {c.open : c \in page}
<1>1. S \in SUBSET Int /\ S # {}
  OBVIOUS
<1>2. IsFiniteSet(S)
  BY FiniteOpens
<1>3. /\ Min(S) \in S /\ \A y \in S : Min(S) <= y
      /\ Max(S) \in S /\ \A y \in S : y <= Max(S)
  <2> HIDE DEF S
  <2> QED
    BY <1>1, <1>2, MinMax
<1> QED
  BY <1>3 DEF OldestOpen, NewestOpen

\* A page moves a backward loop to just before its oldest candle, or ends it.
LEMMA BackwardStep ==
  ASSUME NEW ven \in Backward, NEW H, Candled(H), NEW n \in Int, NEW w \in Int, w <= n,
         NEW f, Paging(ven, H, w, f), \A c \in f.all : c.open <= n
  PROVE  LET g == Paged(ven, f, PageAt(ven, H, n, f))
         IN  /\ Paging(ven, H, w, g)
             /\ g.start = f.start /\ g.end = f.end
             /\ g.over => Drained(ven, H, w, g)
<1> USE BarAssumption
<1> DEFINE page == PageAt(ven, H, n, f)
           next == CASE ven = "okx" -> OldestOpen(page)
                     [] ven \in {"bybit", "kucoin"} -> OldestOpen(page) - 1
                     [] ven = "mexcFutures" -> OldestOpen(page) - BAR
           g == Paged(ven, f, page)
           to(x) == IF ven = "okx" THEN x.cursor - 1 ELSE x.cursor
<1>1. g = PagedBack(f, page, next)
  BY DEF Backward, Paged, OkxPaged, BybitPaged, KucoinPaged, MexcFuturesPaged
<1>2. /\ f \in FeedState(H) /\ f.start \in Nat /\ f.end \in Int /\ f.cursor \in Int
      /\ f.start \in Int
      /\ \A c \in f.all : c.open <= f.end /\ c.open \in H /\ c.open \in Nat
      /\ ven \notin Forward /\ ven \in Venues /\ ven # "mexc"
  <2>1. f \in FeedState(H) /\ \A c \in f.all : c.open <= f.end
    BY DEF Paging
  <2>2. /\ f.start \in Nat /\ f.end \in Int /\ f.cursor \in Int
        /\ f.all \subseteq [open : H, done : BOOLEAN]
    BY <2>1 DEF FeedState
  <2>3. \A c \in f.all : c.open \in H /\ c.open \in Nat
    BY <2>2 DEF Candled
  <2>4. ven \notin Forward /\ ven \in Venues /\ ven # "mexc"
    BY DEF Backward, Forward, Venues
  <2> QED
    BY <2>1, <2>2, <2>3, <2>4
<1>3. /\ Asked(ven, f).to = to(f) /\ Asked(ven, f).from \in Int /\ Asked(ven, f).from <= f.start
  BY <1>2, AskedBounds
<1>4. /\ to(f) <= f.end
      /\ \A c \in f.all : to(f) < c.open
      /\ \A o \in H : to(f) < o /\ o < f.end =>
           o \in Opens(f.all) \/ (w < o + BAR /\ \A c \in f.all : c.open < o)
  BY <1>3 DEF Paging
<1>5. /\ IsFiniteSet(page)
      /\ \A c \in page : /\ c \in [open : H, done : BOOLEAN]
                         /\ c.open \in H /\ c.open \in Nat /\ c.open <= n
                         /\ Asked(ven, f).from <= c.open /\ c.open <= to(f)
  <2>1. page \subseteq [open : H, done : BOOLEAN]
    BY <1>2, PageTrue, CandlesKnown
  <2>2. /\ IsFiniteSet(page)
        /\ \A c \in page : /\ c.open \in H /\ c.open \in Nat /\ c.open <= n
                           /\ Asked(ven, f).from <= c.open /\ c.open <= Asked(ven, f).to
    <3>1. ven \in Venues /\ f.start \in Int /\ f.end \in Int /\ f.cursor \in Int
      BY <1>2
    <3>2. /\ IsFiniteSet(page)
          /\ page \subseteq CandlesAt(H, n)
          /\ \A c \in page : /\ c.open \in H /\ c.open \in Nat /\ c.open <= n
                             /\ Asked(ven, f).from <= c.open /\ c.open <= Asked(ven, f).to
                             /\ c.done => c.open + BAR <= n
                             /\ ven = "okx" => c.done
      BY <3>1, PageTrue
    <3> HIDE DEF page
    <3> QED
      BY <3>2
  <2> HIDE DEF page, to
  <2> QED
    BY <1>3, <2>1, <2>2
<1>6. ASSUME NEW o \in H, Asked(ven, f).from <= o, o <= to(f)
      PROVE  \/ o \in Opens(page)
             \/ page # {} /\ \A c \in page : o < c.open
             \/ n < o + BAR /\ \A c \in page : c.open < o
  <2>1. Asked(ven, f).from <= o /\ o <= Asked(ven, f).to
    BY <1>3, <1>6
  <2> QED
    BY <1>2, <2>1, BackwardPage
<1>7. \A o \in H : o \in Nat
  BY DEF Candled
<1>8. \A o, p \in H : o < p => o + BAR <= p
  BY DEF Candled
<1> HIDE DEF page, g, next
<1>9. CASE page = {}
  <2>1. g = [f EXCEPT !.over = TRUE]
    BY <1>1, <1>9 DEF PagedBack
  <2>2. /\ g \in FeedState(H) /\ g.start = f.start /\ g.end = f.end
        /\ g.cursor = f.cursor /\ g.all = f.all
    BY <1>2, <2>1 DEF FeedState
  <2>3. Asked(ven, g).to = to(f)
    BY <1>2, <2>2, AskedBounds
  <2>4. Paging(ven, H, w, g)
    BY <1>2, <1>4, <2>2, <2>3 DEF Paging
  <2>5. Drained(ven, H, w, g)
    <3> SUFFICES ASSUME NEW o \in H, f.start <= o, o < f.end
                 PROVE  o \in Opens(f.all) \/ (w < o + BAR /\ \A c \in f.all : c.open < o)
      BY <1>2, <2>2 DEF Drained
    <3>1. CASE to(f) < o
      BY <1>4, <3>1
    <3>2. CASE o <= to(f)
      <4>1. n < o + BAR
        BY <1>2, <1>3, <1>6, <1>7, <1>9, <3>2 DEF Opens
      <4>2. f.all = {}
        <5> SUFFICES ASSUME NEW c \in f.all PROVE FALSE
          OBVIOUS
        <5>1. o < c.open
          BY <1>2, <1>4, <1>7, <3>2
        <5>2. o + BAR <= c.open
          BY <1>2, <1>8, <5>1
        <5> QED
          BY <1>2, <1>7, <4>1, <5>2
      <4> QED
        BY <1>7, <4>1, <4>2
    <3> QED
      BY <1>2, <1>7, <3>1, <3>2
  <2> QED
    BY <2>2, <2>4, <2>5 DEF g, page
<1>10. CASE page # {}
  <2> DEFINE old == OldestOpen(page)
  <2>1. /\ old \in Nat /\ old \in H /\ old <= to(f)
        /\ \A c \in page : old <= c.open
        /\ \E c \in page : c.open = old
    <3>1. /\ old \in Nat /\ \E c \in page : c.open = old
          /\ \A c \in page : old <= c.open
      BY <1>5, <1>10, PageEdges
    <3> QED
      BY <1>5, <3>1
  <2> HIDE DEF old
  <2>2. /\ next \in Int /\ next < f.cursor
        /\ to([cursor |-> next]) < old
        /\ \A o \in H : to([cursor |-> next]) < o => old <= o
    <3>1. CASE ven = "okx"
      BY <1>2, <1>7, <2>1, <3>1 DEF next, old
    <3>2. CASE ven \in {"bybit", "kucoin"}
      BY <1>2, <1>7, <2>1, <3>2 DEF next, old
    <3>3. CASE ven = "mexcFutures"
      <4>1. next = old - BAR
        BY <3>3 DEF next, old
      <4>2. ASSUME NEW o \in H, next < o PROVE old <= o
        <5>1. o < old => o + BAR <= old
          BY <1>8, <2>1
        <5>2. o \in Nat /\ old \in Nat
          BY <1>7, <2>1
        <5> QED
          BY <4>1, <4>2, <5>1, <5>2
      <4>3. next \in Int /\ next < f.cursor /\ next < old
        BY <1>2, <2>1, <3>3, <4>1
      <4>4. to([cursor |-> next]) = next
        BY <3>3
      <4> HIDE DEF to
      <4> QED
        BY <4>2, <4>3, <4>4
    <3> QED
      BY <3>1, <3>2, <3>3 DEF Backward
  <2>3. g = [f EXCEPT !.all = AddPage(@, page), !.cursor = next,
                      !.over = old <= f.start \/ next >= f.cursor]
    BY <1>1, <1>10 DEF PagedBack, old
  <2>4. /\ g \in FeedState(H) /\ g.start = f.start /\ g.end = f.end
        /\ g.cursor = next /\ g.all = AddPage(f.all, page)
        /\ g.over => old <= f.start
    <3>1. AddPage(f.all, page) \in SUBSET [open : H, done : BOOLEAN]
      BY <1>2, <1>5, Joined DEF FeedState
    <3>2. (old <= f.start \/ next >= f.cursor) = (old <= f.start)
      BY <1>2, <2>1, <2>2
    <3>3. g = [f EXCEPT !.all = AddPage(f.all, page), !.cursor = next, !.over = (old <= f.start)]
      BY <2>3, <3>2
    <3>4. f \in FeedState(H) /\ next \in Int /\ (old <= f.start) \in BOOLEAN
      BY <1>2, <2>2
    <3>5. /\ g.start = f.start /\ g.end = f.end
          /\ g.cursor = next /\ g.all = AddPage(f.all, page)
          /\ g.over = (old <= f.start)
      BY <3>3, <3>4 DEF FeedState
    <3>6. g \in FeedState(H)
      BY <3>1, <3>3, <3>4 DEF FeedState
    <3> QED
      BY <3>5, <3>6
  <2>5. Asked(ven, g).to = to([cursor |-> next])
    BY <1>2, <2>2, <2>4, AskedBounds
  <2>6. \A c \in g.all : c \in f.all \/ c \in page
    BY <2>4, Joined
  <2>7. \A c \in g.all : c.open <= g.end /\ Asked(ven, g).to < c.open
    <3> SUFFICES ASSUME NEW c \in g.all
                 PROVE  c.open <= g.end /\ Asked(ven, g).to < c.open
      OBVIOUS
    <3>1. Asked(ven, g).to \in Int /\ Asked(ven, g).to < old
      BY <2>2, <2>5
    <3>2. CASE c \in f.all
      BY <1>2, <1>4, <2>1, <2>4, <3>1, <3>2
    <3>3. CASE c \in page
      <4>1. c.open \in Nat /\ c.open <= to(f) /\ old <= c.open
        BY <1>5, <2>1, <3>3
      <4> QED
        BY <1>2, <1>4, <2>1, <2>4, <3>1, <4>1
    <3> QED
      BY <2>6, <3>2, <3>3
  <2>8. ASSUME NEW o \in H, old <= o, o < f.end
        PROVE  o \in Opens(g.all) \/ (w < o + BAR /\ \A c \in g.all : c.open < o)
    <3>1. Opens(g.all) = Opens(f.all) \cup Opens(page)
      BY <2>4, Joined
    <3>2. CASE to(f) < o
      <4>1. \A c \in page : c.open < o
        BY <1>2, <1>5, <1>7, <3>2
      <4> QED
        BY <1>4, <2>6, <2>8, <3>1, <3>2, <4>1
    <3>3. CASE o <= to(f)
      <4>1. Asked(ven, f).from <= o
        BY <1>3, <1>5, <1>7, <2>1, <2>8
      <4>2. \/ o \in Opens(page)
            \/ n < o + BAR /\ \A c \in page : c.open < o
        BY <1>6, <1>7, <2>1, <2>8, <3>3, <4>1
      <4>3. CASE n < o + BAR /\ \A c \in page : c.open < o
        <5>1. \A c \in f.all : FALSE
          <6> SUFFICES ASSUME NEW c \in f.all PROVE FALSE
            OBVIOUS
          <6>1. o < c.open
            BY <1>2, <1>4, <1>7, <3>3
          <6>2. o + BAR <= c.open
            BY <1>2, <1>8, <6>1
          <6> QED
            BY <1>2, <1>7, <4>3, <6>2
        <5>2. w < o + BAR
          BY <1>7, <4>3
        <5> QED
          BY <2>6, <4>3, <5>1, <5>2
      <4> QED
        BY <3>1, <4>2, <4>3
    <3> QED
      BY <1>2, <1>7, <3>2, <3>3
  <2>9. Paging(ven, H, w, g)
    <3>1. Asked(ven, g).to <= g.end
      BY <1>2, <1>4, <2>1, <2>2, <2>4, <2>5
    <3>2. \A o \in H : Asked(ven, g).to < o => old <= o
      BY <2>2, <2>5
    <3> QED
      BY <1>2, <2>4, <2>7, <2>8, <3>1, <3>2 DEF Paging
  <2>10. g.over => Drained(ven, H, w, g)
    <3> SUFFICES ASSUME old <= f.start, NEW o \in H, f.start <= o, o < f.end
                 PROVE  o \in Opens(g.all) \/ (w < o + BAR /\ \A c \in g.all : c.open < o)
      BY <1>2, <2>4 DEF Drained
    <3>1. old \in Nat /\ o \in Nat /\ f.start \in Nat
      BY <1>2, <1>7, <2>1
    <3>2. old <= o
      BY <3>1
    <3> QED
      BY <2>8, <3>2
  <2> QED
    BY <2>4, <2>9, <2>10 DEF g, page
<1> QED
  BY <1>9, <1>10

\* A page moves a forward loop to just after its newest candle; one that is
\* empty ends it, or moves MEXC's by a page.
LEMMA ForwardStep ==
  ASSUME NEW ven \in Forward, NEW H, Candled(H), NEW n \in Int, NEW w \in Int, w <= n,
         NEW f, Paging(ven, H, w, f), \A c \in f.all : c.open <= n
  PROVE  LET g == Paged(ven, f, PageAt(ven, H, n, f))
         IN  /\ Paging(ven, H, w, g)
             /\ g.start = f.start /\ g.end = f.end
             /\ g.over => Drained(ven, H, w, g)
<1> USE BarAssumption, LimitAssumption
<1> DEFINE page == PageAt(ven, H, n, f)
           new  == NewestOpen(page)
           past == f.cursor + Limit * BAR
           g == Paged(ven, f, page)
<1>1. /\ ven = "binance" => g = BinancePaged(f, page)
      /\ ven = "mexc" => g = MexcPaged(f, page)
  BY DEF Paged
<1>2. /\ f \in FeedState(H) /\ f.start \in Nat /\ f.end \in Int /\ f.cursor \in Int
      /\ f.start \in Int
      /\ \A c \in f.all : c.open <= f.end /\ c.open \in H /\ c.open \in Nat
      /\ ven \notin Backward /\ ven \in Venues /\ ven \in {"binance", "mexc"}
  <2>1. f \in FeedState(H) /\ \A c \in f.all : c.open <= f.end
    BY DEF Paging
  <2>2. /\ f.start \in Nat /\ f.end \in Int /\ f.cursor \in Int
        /\ f.all \subseteq [open : H, done : BOOLEAN]
    BY <2>1 DEF FeedState
  <2>3. \A c \in f.all : c.open \in H /\ c.open \in Nat
    BY <2>2 DEF Candled
  <2>4. ven \notin Backward /\ ven \in Venues /\ ven \in {"binance", "mexc"}
    BY DEF Backward, Forward, Venues
  <2> QED
    BY <2>1, <2>2, <2>3, <2>4
<1>3. /\ Asked(ven, f).from = f.cursor /\ Asked(ven, f).to \in Int
      /\ Asked(ven, f).to <= f.end /\ f.end - 1 <= Asked(ven, f).to
  <2>1. /\ Asked(ven, f).from = f.cursor
        /\ Asked(ven, f).to = (IF ven = "mexc" THEN f.end - 1 ELSE f.end)
    BY <1>2, AskedBounds
  <2> HIDE DEF page, new, past, g
  <2> QED
    BY <1>2, <2>1
<1>4. /\ f.start <= f.cursor
      /\ \A c \in f.all : f.start <= c.open /\ c.open < f.cursor
      /\ \A o \in H : f.start <= o /\ o < f.cursor /\ o < f.end =>
           o \in Opens(f.all) \/ (ven = "mexc" /\ w < o /\ \A c \in f.all : o < c.open)
  BY DEF Paging
<1>5. /\ IsFiniteSet(page)
      /\ \A c \in page : /\ c \in [open : H, done : BOOLEAN]
                         /\ c.open \in H /\ c.open \in Nat /\ c.open <= n
                         /\ f.cursor <= c.open /\ c.open <= f.end
  <2>1. /\ IsFiniteSet(page)
        /\ page \subseteq CandlesAt(H, n)
        /\ \A c \in page : /\ c.open \in H /\ c.open \in Nat /\ c.open <= n
                           /\ Asked(ven, f).from <= c.open /\ c.open <= Asked(ven, f).to
                           /\ c.done => c.open + BAR <= n
                           /\ ven = "okx" => c.done
    BY <1>2, PageTrue
  <2>2. page \subseteq [open : H, done : BOOLEAN]
    BY <2>1, CandlesKnown
  <2> HIDE DEF page
  <2> QED
    BY <1>2, <1>3, <2>1, <2>2
<1>6. ASSUME NEW o \in H, f.cursor <= o, o <= Asked(ven, f).to
      PROVE  \/ o \in Opens(page)
             \/ page # {} /\ \A c \in page : c.open < o
             \/ page = {} /\ n < o
             \/ /\ page = {} /\ ven = "mexc" /\ past <= o
                /\ \A p \in H : p <= n => past <= p
  BY <1>2, <1>3, <1>6, ForwardPage
<1>7. past \in Int /\ f.cursor < past
  <2>1. Limit * BAR \in Int /\ 0 < Limit * BAR
    OBVIOUS
  <2> QED
    BY <1>2, <2>1
<1>8. \A o \in H : o \in Nat
  BY DEF Candled
<1>9. \A o, p \in H : o < p => o + BAR <= p
  BY DEF Candled
<1> HIDE DEF page, g, past, new
\* No candle of the window behind an empty page had begun.
<1>10. ASSUME page = {}, f.all # {} \/ ven = "binance", NEW o \in H, f.cursor <= o, o < f.end
       PROVE  n < o
  <2>1. o <= Asked(ven, f).to
    BY <1>2, <1>3, <1>8, <1>10
  <2>2. n < o \/ (ven = "mexc" /\ \A p \in H : p <= n => past <= p)
    BY <1>6, <1>10, <2>1 DEF Opens
  <2>3. CASE ven = "mexc" /\ \A p \in H : p <= n => past <= p
    <3>1. PICK c \in f.all : TRUE
      BY <1>10, <2>3
    <3>2. past <= c.open
      BY <1>2, <2>3
    <3> QED
      BY <1>2, <1>4, <1>7, <3>2
  <2> QED
    BY <2>2, <2>3
<1>11. CASE page = {} /\ (f.all # {} \/ ven = "binance")
  <2>1. g = [f EXCEPT !.over = TRUE]
    BY <1>1, <1>2, <1>11 DEF BinancePaged, MexcPaged
  <2>2. /\ g \in FeedState(H) /\ g.start = f.start /\ g.end = f.end
        /\ g.cursor = f.cursor /\ g.all = f.all
    BY <1>2, <2>1 DEF FeedState
  <2>3. Paging(ven, H, w, g)
    BY <1>2, <1>4, <2>2 DEF Paging
  <2>4. Drained(ven, H, w, g)
    <3> SUFFICES ASSUME NEW o \in H, f.start <= o, o < f.end
                 PROVE  \/ o \in Opens(f.all)
                        \/ w < o + BAR /\ w < o /\ \A c \in f.all : c.open < o
                        \/ ven = "mexc" /\ w < o /\ \A c \in f.all : o < c.open
      BY <1>2, <2>2 DEF Drained
    <3>1. CASE o < f.cursor
      BY <1>4, <3>1
    <3>2. CASE f.cursor <= o
      <4>1. n < o
        BY <1>10, <1>11, <3>2
      <4>2. w < o + BAR /\ w < o
        BY <1>8, <4>1
      <4>3. \A c \in f.all : c.open < o
        BY <1>2, <1>8, <4>1
      <4> QED
        BY <4>2, <4>3
    <3> QED
      BY <1>2, <1>8, <3>1, <3>2
  <2> QED
    BY <2>2, <2>3, <2>4 DEF g, page
<1>12. CASE page = {} /\ f.all = {} /\ ven = "mexc"
  <2>1. g = [f EXCEPT !.cursor = past, !.over = (past >= f.end)]
    BY <1>1, <1>12 DEF MexcPaged, past
  <2>2. (past >= f.end) \in BOOLEAN
    OBVIOUS
  <2>3. /\ g \in FeedState(H) /\ g.start = f.start /\ g.end = f.end
        /\ g.cursor = past /\ g.all = f.all /\ g.over = (past >= f.end)
    BY <1>2, <1>7, <2>1, <2>2 DEF FeedState
  <2>4. ASSUME NEW o \in H, f.start <= o, o < past, o < f.end
        PROVE  w < o
    <3>1. CASE o < f.cursor
      BY <1>4, <1>12, <2>4, <3>1 DEF Opens
    <3>2. CASE f.cursor <= o
      <4>1. o <= Asked(ven, f).to
        BY <1>2, <1>3, <1>8, <2>4
      <4>2. n < o
        BY <1>6, <1>7, <1>8, <1>12, <2>4, <3>2, <4>1 DEF Opens
      <4> QED
        BY <1>8, <4>2
    <3> QED
      BY <1>2, <1>8, <3>1, <3>2
  <2>5. Paging(ven, H, w, g)
    <3>1. f.start <= past
      BY <1>2, <1>4, <1>7
    <3> QED
      BY <1>2, <1>12, <2>3, <2>4, <3>1 DEF Paging
  <2>6. g.over => Drained(ven, H, w, g)
    <3> SUFFICES ASSUME past >= f.end, NEW o \in H, f.start <= o, o < f.end
                 PROVE  w < o
      BY <1>2, <1>12, <2>3 DEF Drained
    <3> QED
      BY <1>2, <1>7, <1>8, <2>4
  <2> QED
    BY <2>3, <2>5, <2>6 DEF g, page
<1>13. CASE page # {}
  <2>1. /\ new \in Nat /\ new \in H /\ f.cursor <= new /\ new <= f.end
        /\ \A c \in page : c.open <= new
        /\ \E c \in page : c.open = new
    <3>1. /\ new \in Nat /\ \E c \in page : c.open = new
          /\ \A c \in page : c.open <= new
      BY <1>5, <1>13, PageEdges DEF new
    <3> QED
      BY <1>5, <3>1
  <2>2. g = [f EXCEPT !.all = AddPage(f.all, page), !.cursor = new + BAR,
                      !.over = (new + BAR >= f.end)]
    <3>1. CASE ven = "binance"
      <4>1. g = [f EXCEPT !.all = AddPage(@, page), !.cursor = (new + BAR - 1) + 1,
                          !.over = new + BAR - 1 <= f.cursor \/ (new + BAR - 1) + 1 >= f.end]
        BY <1>1, <1>13, <3>1 DEF BinancePaged, new
      <4>2. /\ (new + BAR - 1) + 1 = new + BAR
            /\ (new + BAR - 1 <= f.cursor \/ new + BAR >= f.end) = (new + BAR >= f.end)
        BY <1>2, <2>1
      <4>3. g = [f EXCEPT !.all = AddPage(f.all, page), !.cursor = new + BAR,
                          !.over = new + BAR - 1 <= f.cursor \/ new + BAR >= f.end]
        BY <4>1, <4>2
      <4> QED
        BY <4>2, <4>3
    <3>2. CASE ven = "mexc"
      <4>1. g = [f EXCEPT !.all = AddPage(@, page), !.cursor = new + BAR,
                          !.over = new + BAR <= f.cursor \/ new + BAR >= f.end]
        BY <1>1, <1>13, <3>2 DEF MexcPaged, new
      <4>2. (new + BAR <= f.cursor \/ new + BAR >= f.end) = (new + BAR >= f.end)
        BY <1>2, <2>1
      <4> QED
        BY <4>1, <4>2
    <3> QED
      BY <1>2, <3>1, <3>2
  <2>3. /\ g \in FeedState(H) /\ g.start = f.start /\ g.end = f.end
        /\ g.cursor = new + BAR /\ g.all = AddPage(f.all, page)
        /\ g.over => new + BAR >= f.end
    <3>1. AddPage(f.all, page) \in SUBSET [open : H, done : BOOLEAN]
      BY <1>2, <1>5, Joined DEF FeedState
    <3>2. new + BAR \in Int /\ (new + BAR >= f.end) \in BOOLEAN
      BY <2>1
    <3>3. /\ g.start = f.start /\ g.end = f.end
          /\ g.cursor = new + BAR /\ g.all = AddPage(f.all, page)
          /\ g.over = (new + BAR >= f.end)
      BY <1>2, <2>2 DEF FeedState
    <3>4. g \in FeedState(H)
      BY <1>2, <2>2, <3>1, <3>2 DEF FeedState
    <3> QED
      BY <3>3, <3>4
  <2>4. \A c \in g.all : c \in f.all \/ c \in page
    BY <2>3, Joined
  <2>5. \A c \in g.all : c.open <= g.end /\ g.start <= c.open /\ c.open < g.cursor
    <3> SUFFICES ASSUME NEW c \in g.all
                 PROVE  c.open <= g.end /\ g.start <= c.open /\ c.open < g.cursor
      OBVIOUS
    <3>1. CASE c \in f.all
      BY <1>2, <1>4, <2>1, <2>3, <3>1
    <3>2. CASE c \in page
      BY <1>2, <1>4, <1>5, <2>1, <2>3, <3>2
    <3> QED
      BY <2>4, <3>1, <3>2
  <2>6. ASSUME NEW o \in H, f.start <= o, o < new + BAR, o < f.end
        PROVE  o \in Opens(g.all) \/ (ven = "mexc" /\ w < o /\ \A c \in g.all : o < c.open)
    <3>1. Opens(g.all) = Opens(f.all) \cup Opens(page)
      BY <2>3, Joined
    <3>2. CASE o < f.cursor
      <4>1. \A c \in page : o < c.open
        BY <1>2, <1>5, <1>8, <3>2
      <4> QED
        BY <1>4, <2>4, <2>6, <3>1, <3>2, <4>1
    <3>3. CASE f.cursor <= o
      <4>1. o <= new
        <5>1. new < o => new + BAR <= o
          BY <1>9, <2>1
        <5>2. o \in Nat /\ new \in Nat
          BY <1>8, <2>1
        <5> QED
          BY <2>6, <5>1, <5>2
      <4>2. o <= Asked(ven, f).to
        BY <1>2, <1>3, <1>8, <2>6
      <4>3. ~(\A c \in page : c.open < o)
        <5>1. PICK c \in page : c.open = new
          BY <2>1
        <5>2. o \in Nat /\ new \in Nat
          BY <1>8, <2>1
        <5>3. ~(c.open < o)
          BY <4>1, <5>1, <5>2
        <5> QED
          BY <5>3
      <4>4. o \in Opens(page)
        BY <1>6, <1>13, <3>3, <4>2, <4>3
      <4> QED
        BY <3>1, <4>4
    <3> QED
      BY <1>2, <1>8, <3>2, <3>3
  <2>7. Paging(ven, H, w, g)
    <3>1. f.start <= new + BAR
      BY <1>2, <1>4, <2>1
    <3> QED
      BY <1>2, <2>3, <2>5, <2>6, <3>1 DEF Paging
  <2>8. g.over => Drained(ven, H, w, g)
    <3> SUFFICES ASSUME new + BAR >= f.end, NEW o \in H, f.start <= o, o < f.end
                 PROVE  \/ o \in Opens(g.all)
                        \/ ven = "mexc" /\ w < o /\ \A c \in g.all : o < c.open
      BY <1>2, <2>3 DEF Drained
    <3>1. o < new + BAR
      BY <1>2, <1>8, <2>1
    <3> QED
      BY <2>6, <3>1
  <2> QED
    BY <2>3, <2>7, <2>8 DEF g, page
<1> QED
  BY <1>2, <1>11, <1>12, <1>13

\* A page, of either kind of loop, keeps what is known of one, and the loop that
\* it ends has all of its window.
LEMMA PageStep ==
  ASSUME NEW ven \in Venues, NEW H, Candled(H), NEW n \in Int, NEW w \in Int, w <= n,
         NEW f, Paging(ven, H, w, f), \A c \in f.all : c.open <= n
  PROVE  LET g == Paged(ven, f, PageAt(ven, H, n, f))
         IN  /\ Paging(ven, H, w, g)
             /\ g.start = f.start /\ g.end = f.end
             /\ g.over => Drained(ven, H, w, g)
<1>1. ven \in Backward \/ ven \in Forward
  BY DEF Venues, Backward, Forward
<1> QED
  BY <1>1, BackwardStep, ForwardStep

\* What a page adds.
LEMMA PageAdds ==
  ASSUME NEW ven \in Venues, NEW H, NEW f \in FeedState(H), NEW page
  PROVE  /\ Paged(ven, f, page).all \in {f.all, AddPage(f.all, page)}
         /\ Opens(Paged(ven, f, page).all) = Opens(f.all) \cup Opens(page)
<1> DEFINE g == Paged(ven, f, page)
<1>1. g.all \in {f.all, AddPage(f.all, page)} /\ (page # {} => g.all = AddPage(f.all, page))
  <2>1. CASE ven \in Backward
    <3>1. \E next : g = PagedBack(f, page, next)
      BY <2>1 DEF Backward, Paged, OkxPaged, BybitPaged, KucoinPaged, MexcFuturesPaged
    <3>2. PICK next : g = PagedBack(f, page, next)
      BY <3>1
    <3> HIDE DEF g
    <3> QED
      BY <3>2 DEF PagedBack
  <2>2. CASE ven = "binance"
    BY <2>2 DEF Paged, BinancePaged
  <2>3. CASE ven = "mexc"
    BY <2>3 DEF Paged, MexcPaged
  <2> QED
    BY <2>1, <2>2, <2>3 DEF Venues, Backward
<1> HIDE DEF g
<1>2. page = {} => AddPage(f.all, page) = f.all
  BY DEF AddPage
<1>3. g.all = AddPage(f.all, page)
  BY <1>1, <1>2
<1> QED
  BY <1>1, <1>3, Joined DEF g

\* A feed that has just been opened has nothing, and nothing behind its cursor.
LEMMA FeedOpened ==
  ASSUME NEW ven \in Venues, NEW H, Candled(H), NEW w \in Int,
         NEW start \in Nat, NEW end \in Int
  PROVE  /\ Paging(ven, H, w, OpenFeed(ven, start, end))
         /\ OpenFeed(ven, start, end).start = start
         /\ OpenFeed(ven, start, end).end = end
         /\ OpenFeed(ven, start, end).all = {}
         /\ ~OpenFeed(ven, start, end).over
<1> DEFINE f == OpenFeed(ven, start, end)
<1>1. /\ f.start = start /\ f.end = end /\ f.all = {} /\ f.over = FALSE
      /\ f.cursor = IF ven \in Forward THEN start ELSE end
  BY DEF OpenFeed, Forward
<1>2. f \in FeedState(H)
  BY DEF OpenFeed, FeedState
<1>3. ven \in Backward => Asked(ven, f).to <= f.end
  <2>1. ven \in Backward => Asked(ven, f).to = (IF ven = "okx" THEN f.cursor - 1 ELSE f.cursor)
    BY <1>2, AskedBounds DEF FeedState
  <2>2. ven \in Backward => ven \notin Forward
    BY DEF Backward, Forward
  <2> QED
    BY <1>1, <2>1, <2>2
<1>4. ASSUME ven \in Backward, NEW o \in H
      PROVE  Asked(ven, f).to < o => ~(o < f.end)
  <2>1. Asked(ven, f).to = (IF ven = "okx" THEN f.cursor - 1 ELSE f.cursor)
    BY <1>2, <1>4, AskedBounds DEF FeedState
  <2>2. f.cursor = end
    BY <1>1, <1>4 DEF Backward, Forward
  <2>3. o \in Nat
    BY DEF Candled
  <2> HIDE DEF f
  <2> QED
    BY <1>1, <2>1, <2>2, <2>3
<1>5. ASSUME ven \in Forward, NEW o \in H
      PROVE  f.start <= o => ~(o < f.cursor)
  BY <1>1, <1>5 DEF Candled
<1> HIDE DEF f
<1>6. Paging(ven, H, w, f)
  BY <1>1, <1>2, <1>3, <1>4, <1>5 DEF Paging
<1> QED
  BY <1>1, <1>6 DEF f

\* A loop that reads an error as an empty page ends.
LEMMA ErrorEnds ==
  ASSUME NEW ven \in Venues, ReadsErrorAsEmpty(ven), NEW H, NEW w, NEW f, Paging(ven, H, w, f)
  PROVE  LET g == Paged(ven, f, {})
         IN  /\ g = [f EXCEPT !.over = TRUE]
             /\ Paging(ven, H, w, g)
<1> DEFINE g == Paged(ven, f, {})
<1>1. g = [f EXCEPT !.over = TRUE]
  BY DEF ReadsErrorAsEmpty, Paged, OkxPaged, BybitPaged, KucoinPaged, PagedBack
<1>2. f \in FeedState(H)
  BY DEF Paging
<1>3. /\ g \in FeedState(H) /\ g.start = f.start /\ g.end = f.end
      /\ g.cursor = f.cursor /\ g.all = f.all
  BY <1>1, <1>2 DEF FeedState
<1>4. Asked(ven, g) = Asked(ven, f)
  <2>1. ven \in {"okx", "bybit", "kucoin"}
    BY DEF ReadsErrorAsEmpty
  <2> HIDE DEF g
  <2> QED
    BY <1>3, <2>1 DEF Asked, OkxAsks, BybitAsks, KucoinAsks
<1> HIDE DEF g
<1>5. Paging(ven, H, w, g)
  BY <1>3, <1>4 DEF Paging
<1> QED
  BY <1>1, <1>5 DEF g

\* Nothing is missing between two of a set of open times.
Whole(H, O) == \A o \in H : o \in O \/ (\A p \in O : p < o) \/ (\A p \in O : o < p)

\* What a loop has collected has no hole in it, wherever it stands.
LEMMA PagedWhole ==
  ASSUME NEW ven \in Venues, NEW H, Candled(H), NEW w \in Int, NEW f, Paging(ven, H, w, f)
  PROVE  Whole(H, Opens(f.all))
<1>1. /\ f.start \in Int /\ f.end \in Int /\ f.cursor \in Int
      /\ \A c \in f.all : c.open <= f.end /\ c.open \in H
  BY DEF Paging, FeedState
<1>2. \A o \in H : o \in Nat
  BY DEF Candled
<1> SUFFICES ASSUME NEW o \in H, o \notin Opens(f.all)
             PROVE  (\A c \in f.all : c.open < o) \/ (\A c \in f.all : o < c.open)
  BY DEF Whole, Opens
<1>3. \A c \in f.all : c.open # o
  BY DEF Opens
<1>4. CASE ven \in Backward
  <2>1. /\ Asked(ven, f).to \in Int
        /\ \A c \in f.all : Asked(ven, f).to < c.open
        /\ \A p \in H : Asked(ven, f).to < p /\ p < f.end =>
             p \in Opens(f.all) \/ (w < p + BAR /\ \A c \in f.all : c.open < p)
    BY <1>1, <1>4, AskedBounds DEF Paging
  <2>2. CASE o <= Asked(ven, f).to
    BY <1>1, <1>2, <2>1, <2>2
  <2>3. CASE Asked(ven, f).to < o /\ o < f.end
    BY <2>1, <2>3
  <2>4. CASE f.end <= o
    BY <1>1, <1>2, <1>3, <2>4
  <2> QED
    BY <1>1, <1>2, <2>1, <2>2, <2>3, <2>4
<1>5. CASE ven \in Forward
  <2>1. /\ \A c \in f.all : f.start <= c.open /\ c.open < f.cursor
        /\ \A p \in H : f.start <= p /\ p < f.cursor /\ p < f.end =>
             p \in Opens(f.all) \/ (ven = "mexc" /\ w < p /\ \A c \in f.all : p < c.open)
    BY <1>5 DEF Paging
  <2>2. CASE o < f.start
    BY <1>1, <1>2, <2>1, <2>2
  <2>3. CASE f.start <= o /\ o < f.cursor /\ o < f.end
    BY <2>1, <2>3
  <2>4. CASE f.cursor <= o
    BY <1>1, <1>2, <2>1, <2>4
  <2>5. CASE f.end <= o
    BY <1>1, <1>2, <1>3, <2>5
  <2> QED
    BY <1>1, <1>2, <2>2, <2>3, <2>4, <2>5
<1> QED
  BY <1>4, <1>5 DEF Venues, Backward, Forward


-----------------------------------------------------------------------------
(* The invariant                                                            *)

\* Types.  A file is named by its range, which the bars need not fill.
Candles   == [open : history, done : BOOLEAN]
ChunkFile == [lo : Int, hi : Int, bars : SUBSET Candles]
Ranges    == {r \in [lo : Int, hi : Int, kind : Kinds] : r.lo <= r.hi}
Gaps      == {g \in Int \X Int : g[1] <= g[2]}

WorldTypes ==
  /\ venue \in Venues /\ Candled(history)
  /\ now \in Int /\ FirstNow <= now /\ now <= LastNow

DiskTypes ==
  /\ chunks \subseteq ChunkFile
  /\ saved \subseteq Ranges /\ IsFiniteSet(saved)
  /\ journals \subseteq ChunkFile /\ IsFiniteSet(journals)

ProcessTypes ==
  /\ stage \in {"idle", "recover", "recovered", "gap", "fetch", "failed", "recorded", "dropped"}
  /\ request \in [lo : Int, hi : Int, wall : Int]
  /\ manifest \subseteq Ranges /\ IsFiniteSet(manifest)
  /\ gaps \subseteq Gaps /\ IsFiniteSet(gaps)
  /\ feed \in FeedState(history)
  /\ buffered \subseteq Candles

\* Every candle there is had begun when it was fetched, and had ended if OKX's.
Fetched(candles) == \A c \in candles : c.open <= now /\ (venue = "okx" => c.done)

FetchedOnly ==
  /\ \A f \in chunks \cup journals : Fetched(f.bars)
  /\ Fetched(feed.all) /\ Fetched(buffered)

\* What is on disk has no hole in it: a chunk all of the range it is named
\* after, a journal all between its first bar and its last.
ChunksWhole ==
  \A f \in chunks, o \in history : Within(StampOf(o), f) => o \in Opens(f.bars)

JournalsWhole == \A j \in journals : Whole(history, Opens(j.bars))

\* Every range called downloaded has its chunk file.
Named(r) == \E f \in chunks : f.lo = r.lo /\ f.hi = r.hi

RangesBacked == \A r \in saved \cup manifest : r.kind = "Bars" => Named(r)

\* The journals of earlier calls are gone before a gap is fetched, and the one
\* of the gap goes when a chunk has its bars; a recovered one has its chunk.
JournalsKept ==
  /\ stage \in {"gap", "dropped"} => journals = {}
  /\ stage \in {"fetch", "recorded"} =>
       \E j \in journals : journals = {j} /\ <<j.lo, j.hi>> = NextGap
  /\ stage = "recovered" =>
       /\ journals # {} /\ NextJournal.bars # {}
       /\ \E f \in chunks : /\ f.bars = NextJournal.bars
                            /\ f.lo = Min(Stamps(f.bars)) /\ f.hi = Max(Stamps(f.bars))
  /\ stage = "recorded" =>
       \A j \in journals : \A c \in j.bars :
         Within(Stamp(venue, c), j) => \E f \in chunks : c.open \in Opens(f.bars)

\* The feed pages through the window of the gap at hand, and what it has is in
\* the journal or waits to be flushed to it.
FetchUnderWay ==
  /\ stage \in {"fetch", "recorded", "dropped"} => gaps # {}
  /\ stage # "idle" => FirstNow <= request.wall /\ request.wall <= now
  /\ stage = "fetch" =>
       /\ Paging(venue, history, request.wall, feed)
       /\ feed.start = Max({NextGap[1] - BAR, 0}) /\ feed.end = NextGap[2] + 1
       /\ \A j \in journals : Opens(j.bars) \cup Opens(buffered) = Opens(feed.all)

CacheInv ==
  /\ WorldTypes /\ DiskTypes /\ ProcessTypes
  /\ FetchedOnly
  /\ ChunksWhole /\ JournalsWhole /\ RangesBacked /\ JournalsKept
  /\ CoverageDisjoint /\ FetchUnderWay

-----------------------------------------------------------------------------
(* What the stages choose and compute                                       *)

\* The gap at hand is the earliest.
LEMMA NextGapIs ==
  ASSUME ProcessTypes, gaps # {}
  PROVE  /\ NextGap \in gaps /\ \A h \in gaps : NextGap[1] <= h[1]
         /\ NextGap[1] \in Int /\ NextGap[2] \in Int /\ NextGap[1] <= NextGap[2]
         /\ NextGap = <<NextGap[1], NextGap[2]>>
<1> DEFINE f == [g \in gaps |-> g[1]]
<1>1. \A g \in gaps : g[1] \in Int /\ g[2] \in Int /\ g[1] <= g[2] /\ g = <<g[1], g[2]>>
  BY DEF ProcessTypes, Gaps
<1>2. f \in [gaps -> Int]
  BY <1>1
<1>3. \E g \in gaps : \A h \in gaps : f[g] <= f[h]
  <2> HIDE DEF f
  <2> QED
    BY <1>2, FiniteLeast DEF ProcessTypes
<1>4. NextGap \in gaps /\ \A h \in gaps : NextGap[1] <= h[1]
  BY <1>3 DEF NextGap
<1> QED
  BY <1>1, <1>4

\* The journal at hand is one of them.
LEMMA NextJournalIs ==
  ASSUME DiskTypes, journals # {}
  PROVE  NextJournal \in journals
<1> DEFINE f == [j \in journals |-> j.lo]
<1>1. f \in [journals -> Int]
  BY DEF DiskTypes, ChunkFile
<1>2. \E g \in journals : \A h \in journals : f[g] <= f[h]
  <2> HIDE DEF f
  <2> QED
    BY <1>1, FiniteLeast DEF DiskTypes
<1> QED
  BY <1>2 DEF NextJournal

\* There are finitely many candles.
LEMMA FiniteCandles ==
  ASSUME WorldTypes
  PROVE  IsFiniteSet(Candles)
<1> DEFINE over == [o \in history |-> [open |-> o, done |-> TRUE]]
           open == [o \in history |-> [open |-> o, done |-> FALSE]]
<1>1. IsFiniteSet(history)
  BY DEF WorldTypes, Candled
<1>2. IsFiniteSet({over[o] : o \in history})
  <2>1. DOMAIN over = history /\ over = [o \in history |-> over[o]]
    OBVIOUS
  <2> HIDE DEF over
  <2> QED
    BY <1>1, <2>1, FiniteImage
<1>3. IsFiniteSet({open[o] : o \in history})
  <2>1. DOMAIN open = history /\ open = [o \in history |-> open[o]]
    OBVIOUS
  <2> HIDE DEF open
  <2> QED
    BY <1>1, <2>1, FiniteImage
<1>4. Candles \subseteq {over[o] : o \in history} \cup {open[o] : o \in history}
  <2> SUFFICES ASSUME NEW c \in Candles
               PROVE  c \in {over[o] : o \in history} \cup {open[o] : o \in history}
    OBVIOUS
  <2>1. c.open \in history /\ c.done \in BOOLEAN /\ c = [open |-> c.open, done |-> c.done]
    BY DEF Candles
  <2>2. CASE c.done = TRUE
    <3>1. c = over[c.open]
      BY <2>1, <2>2
    <3> QED
      BY <2>1, <3>1
  <2>3. CASE c.done = FALSE
    <3>1. c = open[c.open]
      BY <2>1, <2>3
    <3> QED
      BY <2>1, <3>1
  <2> QED
    BY <2>1, <2>2, <2>3
<1> HIDE DEF over, open
<1>5. IsFiniteSet({over[o] : o \in history} \cup {open[o] : o \in history})
  BY <1>2, <1>3, FS_Union
<1> QED
  BY <1>4, <1>5, FS_Subset

\* How long after its open time a bar is stamped.
Shift == IF venue = "binance" THEN BAR - 1 ELSE BAR

\* A stamp is the open time and a constant of the venue's.
LEMMA Stamped ==
  /\ Shift \in Nat /\ Shift <= BAR /\ BAR <= Shift + 1
  /\ \A c : Stamp(venue, c) = c.open + Shift
  /\ \A o : StampOf(o) = o + Shift
  BY BarAssumption DEF Shift, Stamp, StampOf

\* The stamps of bars lie between two of them.
LEMMA StampEdges ==
  ASSUME WorldTypes, NEW bars \in SUBSET Candles, bars # {}
  PROVE  /\ Min(Stamps(bars)) \in Int /\ Max(Stamps(bars)) \in Int
         /\ Min(Stamps(bars)) <= Max(Stamps(bars))
         /\ \E c \in bars : Min(Stamps(bars)) = Stamp(venue, c)
         /\ \E c \in bars : Max(Stamps(bars)) = Stamp(venue, c)
         /\ \A c \in bars : /\ Min(Stamps(bars)) <= Stamp(venue, c)
                            /\ Stamp(venue, c) <= Max(Stamps(bars))
<1> DEFINE f == [c \in bars |-> Stamp(venue, c)]
<1>1. IsFiniteSet(bars)
  BY FiniteCandles, FS_Subset
<1>2. \A c \in bars : Stamp(venue, c) \in Int
  <2>1. \A c \in bars : c.open \in Nat
    BY DEF WorldTypes, Candled, Candles
  <2> QED
    BY <2>1, Stamped
<1>3. IsFiniteSet(Stamps(bars))
  <2>1. DOMAIN f = bars /\ f = [c \in bars |-> f[c]]
    OBVIOUS
  <2>2. IsFiniteSet({f[c] : c \in bars})
    <3> HIDE DEF f
    <3> QED
      BY <1>1, <2>1, FiniteImage
  <2>3. {f[c] : c \in bars} = Stamps(bars)
    BY DEF Stamps
  <2> QED
    BY <2>2, <2>3
<1>4. Stamps(bars) \in SUBSET Int /\ Stamps(bars) # {}
  BY <1>2 DEF Stamps
<1>5. /\ Min(Stamps(bars)) \in Stamps(bars) /\ \A y \in Stamps(bars) : Min(Stamps(bars)) <= y
      /\ Max(Stamps(bars)) \in Stamps(bars) /\ \A y \in Stamps(bars) : y <= Max(Stamps(bars))
  BY <1>3, <1>4, MinMax
<1>6. \A c \in bars : Stamp(venue, c) \in Stamps(bars)
  BY DEF Stamps
<1>7. \A y \in Stamps(bars) : \E c \in bars : y = Stamp(venue, c)
  BY DEF Stamps
<1> QED
  BY <1>4, <1>5, <1>6, <1>7

-----------------------------------------------------------------------------
(* Steps                                                                    *)

\* What a step leaves alone.
LEMMA Frame ==
  ASSUME CacheInv, UNCHANGED <<venue, history, now>>
  PROVE  /\ WorldTypes' /\ Candles' = Candles
         /\ UNCHANGED disk => DiskTypes'
         /\ UNCHANGED chunks => ChunksWhole' /\ \A r : Named(r)' <=> Named(r)
         /\ UNCHANGED journals => JournalsWhole'
         /\ UNCHANGED <<chunks, saved, manifest>> => RangesBacked'
         /\ UNCHANGED <<saved, manifest>> => CoverageDisjoint'
         /\ UNCHANGED <<chunks, journals, feed, buffered>> => FetchedOnly'
         /\ UNCHANGED process /\ stage' \in {"idle", "recover", "recovered", "gap", "fetch",
                                             "failed", "recorded", "dropped"} => ProcessTypes'
<1> USE DEF CacheInv
<1>1. WorldTypes' /\ Candles' = Candles
  BY DEF WorldTypes, Candles
<1>2. UNCHANGED disk => DiskTypes'
  BY <1>1 DEF DiskTypes, ChunkFile, disk
<1>3. UNCHANGED chunks => ChunksWhole'
  BY DEF ChunksWhole, StampOf
<1>4. UNCHANGED chunks => \A r : Named(r)' <=> Named(r)
  BY DEF Named
<1>5. UNCHANGED journals => JournalsWhole'
  BY DEF JournalsWhole
<1>6. UNCHANGED <<chunks, saved, manifest>> => RangesBacked'
  BY <1>4 DEF RangesBacked
<1>7. UNCHANGED <<saved, manifest>> => CoverageDisjoint'
  BY DEF CoverageDisjoint
<1>8. UNCHANGED <<chunks, journals, feed, buffered>> => FetchedOnly'
  BY DEF FetchedOnly, Fetched
<1>9. UNCHANGED process /\ stage' \in {"idle", "recover", "recovered", "gap", "fetch",
                                       "failed", "recorded", "dropped"} => ProcessTypes'
  BY <1>1 DEF ProcessTypes, process
<1> QED
  BY <1>1, <1>2, <1>3, <1>4, <1>5, <1>6, <1>7, <1>8, <1>9

\* A chunk of bars with no hole in them keeps the directory as it should be.
LEMMA ChunkWritten ==
  ASSUME CacheInv, UNCHANGED <<venue, history, now>>,
         NEW bars \in SUBSET Candles, bars # {}, Whole(history, Opens(bars)), Fetched(bars),
         WriteChunk(Min(Stamps(bars)), Max(Stamps(bars)), bars)
  PROVE  /\ chunks' \subseteq ChunkFile'
         /\ ChunksWhole'
         /\ \A f \in chunks' : Fetched(f.bars)'
         /\ \A r : Named(r) => Named(r)'
         /\ [lo |-> Min(Stamps(bars)), hi |-> Max(Stamps(bars)), bars |-> bars] \in chunks'
<1> USE DEF CacheInv
<1> DEFINE lo == Min(Stamps(bars))
           hi == Max(Stamps(bars))
           new == [lo |-> lo, hi |-> hi, bars |-> bars]
<1>1. chunks' = {f \in chunks : f.lo # lo \/ f.hi # hi} \cup {new}
  BY DEF WriteChunk
<1>2. /\ lo \in Int /\ hi \in Int
      /\ \E c \in bars : lo = Stamp(venue, c)
      /\ \E c \in bars : hi = Stamp(venue, c)
  BY StampEdges
<1> HIDE DEF lo, hi
<1>3. new \in ChunkFile
  BY <1>2 DEF ChunkFile
<1>4. chunks' \subseteq ChunkFile'
  BY <1>1, <1>3 DEF DiskTypes, ChunkFile, Candles
<1>5. \A o \in history : Within(StampOf(o), new) => o \in Opens(bars)
  <2> SUFFICES ASSUME NEW o \in history, lo <= StampOf(o), StampOf(o) <= hi, o \notin Opens(bars)
               PROVE  FALSE
    BY DEF Within
  <2>1. PICK a \in bars : lo = Stamp(venue, a)
    BY <1>2
  <2>2. PICK b \in bars : hi = Stamp(venue, b)
    BY <1>2
  <2>3. o \in Nat /\ a.open \in Nat /\ b.open \in Nat
    BY DEF WorldTypes, Candled, Candles
  <2>4. Shift \in Nat /\ lo = a.open + Shift /\ hi = b.open + Shift /\ StampOf(o) = o + Shift
    BY <2>1, <2>2, Stamped
  <2>5. a.open <= o /\ o <= b.open
    BY <2>3, <2>4
  <2>6. a.open \in Opens(bars) /\ b.open \in Opens(bars)
    BY DEF Opens
  <2> QED
    BY <2>3, <2>5, <2>6 DEF Whole
<1>6. ChunksWhole'
  <2> SUFFICES ASSUME NEW f \in chunks', NEW o \in history, Within(StampOf(o), f)
               PROVE  o \in Opens(f.bars)
    BY DEF ChunksWhole, StampOf
  <2>1. CASE f \in chunks
    BY <2>1 DEF ChunksWhole
  <2>2. CASE f = new
    BY <1>5, <2>2
  <2> QED
    BY <1>1, <2>1, <2>2
<1>7. \A f \in chunks' : Fetched(f.bars)'
  BY <1>1 DEF FetchedOnly, Fetched
<1>8. \A r : Named(r) => Named(r)'
  <2> SUFFICES ASSUME NEW CONSTANT r, Named(r)
               PROVE  Named(r)'
    OBVIOUS
  <2>1. PICK f \in chunks : f.lo = r.lo /\ f.hi = r.hi
    BY DEF Named
  <2>2. CASE f.lo # lo \/ f.hi # hi
    <3>1. f \in chunks'
      BY <1>1, <2>2
    <3> QED
      BY <2>1, <3>1 DEF Named
  <2>3. CASE f.lo = lo /\ f.hi = hi
    <3>1. new \in chunks' /\ new.lo = r.lo /\ new.hi = r.hi
      BY <1>1, <2>1, <2>3
    <3> QED
      BY <3>1 DEF Named
  <2> QED
    BY <2>2, <2>3
<1> QED
  BY <1>1, <1>4, <1>6, <1>7, <1>8 DEF lo, hi

\* A call begins with the manifest that was saved.
LEMMA BeginKeeps ==
  ASSUME CacheInv, NEW w \in Windows, Begin(w)
  PROVE  CacheInv'
<1> USE DEF CacheInv, Begin
<1>1. UNCHANGED <<venue, history, now>>
  OBVIOUS
<1>2. ProcessTypes'
  <2>1. w[1] \in Int /\ w[2] \in Int
    BY CacheAssumption
  <2> QED
    BY <1>1, <2>1, Frame DEF ProcessTypes, DiskTypes, WorldTypes
<1>3. RangesBacked'
  BY Frame DEF RangesBacked, disk
<1>4. CoverageDisjoint'
  BY DEF CoverageDisjoint, disk
<1>5. FetchUnderWay'
  BY DEF FetchUnderWay, WorldTypes
<1>6. JournalsKept'
  BY DEF JournalsKept
<1> QED
  BY <1>1, <1>2, <1>3, <1>4, <1>5, <1>6, Frame DEF disk

\* A journal without a bar is no loss.
LEMMA DiscardEmptyJournalKeeps ==
  ASSUME CacheInv, DiscardEmptyJournal
  PROVE  CacheInv'
<1> USE DEF CacheInv, DiscardEmptyJournal
<1>1. UNCHANGED <<venue, history, now>>
  OBVIOUS
<1>2. DiskTypes'
  BY <1>1, FS_RemoveElement, Frame DEF DiskTypes, ChunkFile
<1>3. JournalsWhole'
  BY DEF JournalsWhole
<1>4. FetchedOnly'
  BY DEF FetchedOnly, Fetched, process
<1>5. FetchUnderWay'
  BY DEF FetchUnderWay, process
<1>6. JournalsKept'
  BY DEF JournalsKept
<1> QED
  BY <1>1, <1>2, <1>3, <1>4, <1>5, <1>6, Frame DEF ProcessTypes, process

\* A journal has no hole, so its chunk has none.
LEMMA WriteRecoveredKeeps ==
  ASSUME CacheInv, WriteRecovered
  PROVE  CacheInv'
<1> USE DEF CacheInv, WriteRecovered
<1> DEFINE bars == NextJournal.bars
<1>1. UNCHANGED <<venue, history, now>>
  OBVIOUS
<1>2. /\ bars \in SUBSET Candles /\ bars # {} /\ Whole(history, Opens(bars)) /\ Fetched(bars)
      /\ NextJournal \in journals
  BY NextJournalIs DEF DiskTypes, ChunkFile, JournalsWhole, FetchedOnly
<1>3. WriteChunk(Min(Stamps(bars)), Max(Stamps(bars)), bars)
  OBVIOUS
<1>4. /\ chunks' \subseteq ChunkFile'
      /\ ChunksWhole'
      /\ \A f \in chunks' : Fetched(f.bars)'
      /\ \A r : Named(r) => Named(r)'
      /\ [lo |-> Min(Stamps(bars)), hi |-> Max(Stamps(bars)), bars |-> bars] \in chunks'
  <2> HIDE DEF bars
  <2> QED
    BY <1>1, <1>2, <1>3, ChunkWritten
<1>5. DiskTypes'
  BY <1>1, <1>4 DEF DiskTypes, ChunkFile, Candles
<1>6. FetchedOnly'
  BY <1>4 DEF FetchedOnly, Fetched, process
<1>7. RangesBacked'
  BY <1>4 DEF RangesBacked, process
<1>8. JournalsKept'
  <2>1. NextJournal' = NextJournal /\ Stamps(bars)' = Stamps(bars)
    BY DEF NextJournal, Stamps
  <2>2. \E f \in chunks' : /\ f.bars = NextJournal.bars
                           /\ f.lo = Min(Stamps(f.bars)) /\ f.hi = Max(Stamps(f.bars))
    BY <1>4
  <2>3. \A x : Stamps(x)' = Stamps(x)
    BY DEF Stamps
  <2> QED
    BY <1>2, <2>1, <2>2, <2>3 DEF JournalsKept
<1>9. FetchUnderWay'
  BY DEF FetchUnderWay, process
<1> QED
  BY <1>1, <1>4, <1>5, <1>6, <1>7, <1>8, <1>9, Frame DEF process

\* A range that is accepted overlaps none of the others.
LEMMA Accepted ==
  ASSUME NEW M, \A r, s \in M : r # s => ~InteriorOverlap(r, s), NEW r, Accepts(M, r)
  PROVE  \A p, q \in M \cup {r} : p # q => ~InteriorOverlap(p, q)
<1>1. \A p, q : InteriorOverlap(p, q) <=> InteriorOverlap(q, p)
  BY DEF InteriorOverlap
<1> QED
  BY <1>1 DEF Accepts

\* The range recorded for a journal has the chunk just written.
LEMMA RecordRecoveredKeeps ==
  ASSUME CacheInv, RecordRecovered
  PROVE  CacheInv'
<1> USE DEF CacheInv, RecordRecovered
<1> DEFINE bars == NextJournal.bars
           found == Span(Min(Stamps(bars)), Max(Stamps(bars)), "Bars")
<1>1. UNCHANGED <<venue, history, now>>
  OBVIOUS
<1>2. NextJournal \in journals /\ bars \in SUBSET Candles /\ bars # {}
  BY NextJournalIs DEF JournalsKept, DiskTypes, ChunkFile
<1>3. found \in Ranges
  <2>1. /\ Min(Stamps(bars)) \in Int /\ Max(Stamps(bars)) \in Int
        /\ Min(Stamps(bars)) <= Max(Stamps(bars))
    <3> HIDE DEF bars
    <3> QED
      BY <1>2, StampEdges
  <2> QED
    BY <2>1 DEF Span, Ranges, Kinds
<1>4. Named(found)
  BY DEF JournalsKept, Named, Span
<1>5. /\ manifest' \in {manifest, manifest \cup {found}}
      /\ manifest' # manifest => Accepts(manifest, found)
  BY DEF RecordRange
<1> HIDE DEF found
<1>6. ProcessTypes'
  <2>1. manifest' \subseteq Ranges /\ IsFiniteSet(manifest')
    BY <1>3, <1>5, FS_AddElement DEF ProcessTypes
  <2> QED
    BY <1>1, <2>1, Frame DEF ProcessTypes
<1>7. RangesBacked'
  BY <1>1, <1>4, <1>5, Frame DEF RangesBacked
<1>8. CoverageDisjoint'
  <2>1. \A r, s \in manifest : r # s => ~InteriorOverlap(r, s)
    BY DEF CoverageDisjoint
  <2>2. \A r, s \in manifest' : r # s => ~InteriorOverlap(r, s)
    BY <1>5, <2>1, Accepted
  <2> QED
    BY <2>2 DEF CoverageDisjoint
<1>9. DiskTypes'
  BY <1>1, FS_RemoveElement, Frame DEF DiskTypes, ChunkFile
<1>10. JournalsWhole'
  BY DEF JournalsWhole
<1>11. FetchedOnly'
  BY DEF FetchedOnly, Fetched
<1>12. FetchUnderWay'
  BY DEF FetchUnderWay
<1>13. JournalsKept'
  BY DEF JournalsKept
<1> QED
  BY <1>1, <1>6, <1>7, <1>8, <1>9, <1>10, <1>11, <1>12, <1>13, Frame

\* What is saved is what has been recorded, and the gaps are planned from it.
LEMMA SaveRecoveredKeeps ==
  ASSUME CacheInv, SaveRecovered
  PROVE  CacheInv'
<1> USE DEF CacheInv, SaveRecovered
<1>1. UNCHANGED <<venue, history, now>>
  OBVIOUS
<1>2. gaps' \subseteq Gaps /\ IsFiniteSet(gaps')
  BY Plan DEF ProcessTypes, Ranges, Bounded, Gaps
<1>3. ProcessTypes'
  BY <1>1, <1>2, Frame DEF ProcessTypes
<1>4. DiskTypes'
  BY <1>1, Frame DEF DiskTypes, ChunkFile, ProcessTypes
<1>5. RangesBacked'
  BY <1>1, Frame DEF RangesBacked
<1>6. CoverageDisjoint'
  BY DEF CoverageDisjoint
<1>7. FetchUnderWay'
  BY DEF FetchUnderWay
<1>8. JournalsKept'
  BY DEF JournalsKept
<1> QED
  BY <1>1, <1>3, <1>4, <1>5, <1>6, <1>7, <1>8, Frame

\* Where a window of open times begins.
LEMMA OpeningOf ==
  ASSUME NEW a \in Int
  PROVE  /\ Max({a - BAR, 0}) \in Nat
         /\ \A o \in Nat : a <= o + BAR => Max({a - BAR, 0}) <= o
<1> DEFINE S == {a - BAR, 0}
<1>1. S \in SUBSET Int /\ S # {} /\ IsFiniteSet(S)
  <2>1. S = {a - BAR} \cup {0}
    OBVIOUS
  <2>2. IsFiniteSet({a - BAR} \cup {0})
    BY FS_Singleton, FS_AddElement
  <2> QED
    BY <2>1, <2>2, BarAssumption
<1>2. Max(S) \in S /\ \A y \in S : y <= Max(S)
  <2> HIDE DEF S
  <2> QED
    BY <1>1, MinMax
<1> QED
  BY <1>2, BarAssumption

\* A feed just opened has nothing, like the journal created for it.
LEMMA OpenGapKeeps ==
  ASSUME CacheInv, OpenGap
  PROVE  CacheInv'
<1> USE DEF CacheInv, OpenGap
<1> DEFINE start == Max({NextGap[1] - BAR, 0})
           new == [lo |-> NextGap[1], hi |-> NextGap[2], bars |-> {}]
<1>1. UNCHANGED <<venue, history, now>> /\ NextGap' = NextGap
  BY DEF NextGap
<1>2. /\ NextGap[1] \in Int /\ NextGap[2] \in Int
      /\ NextGap = <<NextGap[1], NextGap[2]>>
  BY NextGapIs
<1>3. journals' = {new}
  BY DEF JournalsKept
<1>4. feed' = OpenFeed(venue, start, NextGap[2] + 1)
  OBVIOUS
<1>5. start \in Nat
  BY <1>2, OpeningOf
<1> HIDE DEF start
<1>6. /\ Paging(venue, history, request.wall, feed')
      /\ feed'.start = start /\ feed'.end = NextGap[2] + 1 /\ feed'.all = {}
  <2>1. venue \in Venues /\ Candled(history) /\ request.wall \in Int /\ NextGap[2] + 1 \in Int
    BY <1>2 DEF WorldTypes, ProcessTypes
  <2> HIDE DEF OpenGap, CacheInv
  <2> QED
    BY <1>4, <1>5, <2>1, FeedOpened
<1>7. DiskTypes'
  <2>1. new \in ChunkFile
    BY <1>2 DEF ChunkFile
  <2>2. ChunkFile' = ChunkFile
    BY <1>1 DEF ChunkFile, Candles
  <2>3. IsFiniteSet(journals')
    BY <1>3, FS_Singleton
  <2> QED
    BY <1>3, <2>1, <2>2, <2>3 DEF DiskTypes
<1>8. ProcessTypes'
  <2>1. feed' \in FeedState(history)
    BY <1>6 DEF Paging
  <2> QED
    BY <1>1, <2>1, Frame DEF ProcessTypes
<1>9. JournalsWhole'
  BY <1>3 DEF JournalsWhole, Whole, Opens
<1>10. FetchedOnly'
  BY <1>3, <1>6 DEF FetchedOnly, Fetched
<1>11. JournalsKept'
  <2>1. /\ new \in journals' /\ journals' = {new}
        /\ <<new.lo, new.hi>> = NextGap'
    BY <1>1, <1>2, <1>3
  <2> HIDE DEF new
  <2> QED
    BY <2>1 DEF JournalsKept
<1>12. FetchUnderWay'
  <2>1. \A j \in journals' : Opens(j.bars) \cup Opens(buffered') = Opens(feed'.all)
    BY <1>3, <1>6 DEF Opens
  <2>2. FirstNow <= request.wall /\ request.wall <= now
    BY DEF FetchUnderWay
  <2> QED
    BY <1>1, <1>6, <2>1, <2>2 DEF FetchUnderWay, start
<1>13. RangesBacked' /\ CoverageDisjoint' /\ WorldTypes' /\ ChunksWhole'
  BY <1>1, Frame
<1> QED
  BY <1>7, <1>8, <1>9, <1>10, <1>11, <1>12, <1>13

\* The open times of two sets of candles.
LEMMA OpensUnion ==
  ASSUME NEW S, NEW T
  PROVE  Opens(S \cup T) = Opens(S) \cup Opens(T)
  BY DEF Opens

\* What a page brings had begun, and had ended if OKX's.
LEMMA PageFetched ==
  ASSUME WorldTypes, NEW f \in FeedState(history)
  PROVE  /\ PageAt(venue, history, now, f) \subseteq Candles
         /\ Fetched(PageAt(venue, history, now, f))
<1> DEFINE page == PageAt(venue, history, now, f)
<1>1. f.start \in Int /\ f.end \in Int /\ f.cursor \in Int
  BY DEF FeedState
<1>2. venue \in Venues /\ Candled(history) /\ now \in Int
  BY DEF WorldTypes
<1>3. /\ page \subseteq CandlesAt(history, now)
      /\ \A c \in page : c.open <= now /\ (venue = "okx" => c.done)
  BY <1>1, <1>2, PageTrue
<1>4. CandlesAt(history, now) \subseteq Candles
  BY <1>2, CandlesKnown DEF Candles
<1> QED
  BY <1>3, <1>4 DEF Fetched

\* What the feed has is in the journal or waits to be flushed to it.
LEMMA FetchPageKeeps ==
  ASSUME CacheInv, FetchPage
  PROVE  CacheInv'
<1> DEFINE page == PageAt(venue, history, now, feed)
<1>1. /\ stage = "fetch" /\ stage' = stage
      /\ feed' = Paged(venue, feed, page)
      /\ \/ JournalGrows(buffered \cup page) /\ buffered' = {}
         \/ buffered' = buffered \cup page /\ UNCHANGED journals
      /\ UNCHANGED <<venue, history, now, chunks, saved, request, manifest, gaps>>
  BY DEF FetchPage, PageAt
<1>2. NextGap' = NextGap
  BY <1>1 DEF NextGap
<1>3. /\ venue \in Venues /\ Candled(history) /\ now \in Int /\ request.wall \in Int
      /\ request.wall <= now /\ feed \in FeedState(history)
      /\ Paging(venue, history, request.wall, feed)
      /\ feed.start = Max({NextGap[1] - BAR, 0}) /\ feed.end = NextGap[2] + 1
      /\ \A c \in feed.all : c.open <= now
  BY <1>1 DEF CacheInv, WorldTypes, ProcessTypes, FetchUnderWay, FetchedOnly, Fetched
<1>4. /\ Paging(venue, history, request.wall, feed')
      /\ feed'.start = feed.start /\ feed'.end = feed.end
  BY <1>1, <1>3, PageStep
<1>5. /\ page \subseteq Candles
      /\ \A c \in page : c.open <= now /\ (venue = "okx" => c.done)
  BY <1>3, PageFetched DEF CacheInv, Fetched
<1>6. /\ feed'.all \in {feed.all, AddPage(feed.all, page)}
      /\ Opens(feed'.all) = Opens(feed.all) \cup Opens(page)
  BY <1>1, <1>3, PageAdds
<1> HIDE DEF page
<1>7. Candles' = Candles /\ Candles = [open : history, done : BOOLEAN]
  BY <1>1 DEF Candles
<1>8. buffered' \subseteq Candles /\ buffered \subseteq Candles
  BY <1>1, <1>5 DEF CacheInv, ProcessTypes
<1>9. ProcessTypes'
  <2>1. feed' \in FeedState(history)
    BY <1>4 DEF Paging
  <2> QED
    BY <1>1, <1>7, <1>8, <2>1 DEF CacheInv, ProcessTypes
<1>10. /\ \A c \in feed'.all : c.open <= now /\ (venue = "okx" => c.done)
       /\ \A c \in buffered \cup page : c.open <= now /\ (venue = "okx" => c.done)
  <2>1. \A c \in feed.all \cup buffered : c.open <= now /\ (venue = "okx" => c.done)
    BY DEF CacheInv, FetchedOnly, Fetched
  <2>2. feed'.all \subseteq feed.all \cup page
    BY <1>6, Joined
  <2> QED
    BY <1>5, <2>1, <2>2
<1>11. PICK j \in journals : journals = {j} /\ <<j.lo, j.hi>> = NextGap
  BY <1>1 DEF CacheInv, JournalsKept
<1>12. /\ j \in ChunkFile /\ Fetched(j.bars) /\ Whole(history, Opens(j.bars))
       /\ Opens(j.bars) \cup Opens(buffered) = Opens(feed.all)
  BY <1>1, <1>11 DEF CacheInv, DiskTypes, FetchedOnly, JournalsWhole, FetchUnderWay
<1>13. \E k : /\ journals' = {k} /\ k \in ChunkFile
              /\ <<k.lo, k.hi>> = NextGap
              /\ Fetched(k.bars)
              /\ Whole(history, Opens(k.bars))
              /\ Opens(k.bars) \cup Opens(buffered') = Opens(feed'.all)
  <2>1. CASE JournalGrows(buffered \cup page) /\ buffered' = {}
    <3> DEFINE k == [j EXCEPT !.bars = AddPage(j.bars, buffered \cup page)]
    <3>1. journals' = {k}
      BY <1>11, <2>1 DEF JournalGrows
    <3>2. AddPage(j.bars, buffered \cup page) \subseteq Candles
      BY <1>5, <1>8, <1>12, Joined DEF ChunkFile
    <3>3. /\ k \in ChunkFile /\ k.lo = j.lo /\ k.hi = j.hi
          /\ k.bars = AddPage(j.bars, buffered \cup page)
      BY <1>12, <3>2 DEF ChunkFile
    <3> HIDE DEF k
    <3>4. Fetched(k.bars)
      <4>1. k.bars \subseteq j.bars \cup (buffered \cup page)
        BY <3>3, Joined
      <4> QED
        BY <1>10, <1>12, <4>1 DEF Fetched
    <3>5. Opens(k.bars) = Opens(feed'.all)
      BY <1>6, <1>12, <3>3, Joined, OpensUnion
    <3>6. Whole(history, Opens(k.bars))
      BY <1>3, <1>4, <3>5, PagedWhole
    <3>7. Opens(buffered') = {}
      BY <2>1 DEF Opens
    <3> QED
      BY <1>11, <3>1, <3>3, <3>4, <3>5, <3>6, <3>7
  <2>2. CASE buffered' = buffered \cup page /\ UNCHANGED journals
    <3>1. Opens(j.bars) \cup Opens(buffered') = Opens(feed'.all)
      BY <1>6, <1>12, <2>2, OpensUnion
    <3> QED
      BY <1>11, <1>12, <2>2, <3>1
  <2> QED
    BY <1>1, <2>1, <2>2
<1>14. PICK k : /\ journals' = {k} /\ k \in ChunkFile
                /\ <<k.lo, k.hi>> = NextGap
                /\ Fetched(k.bars)
                /\ Whole(history, Opens(k.bars))
                /\ Opens(k.bars) \cup Opens(buffered') = Opens(feed'.all)
  BY <1>13
<1>15. DiskTypes'
  <2>1. ChunkFile' = ChunkFile
    BY <1>7 DEF ChunkFile
  <2>2. IsFiniteSet(journals')
    BY <1>14, FS_Singleton
  <2> QED
    BY <1>1, <1>14, <2>1, <2>2 DEF CacheInv, DiskTypes
<1>16. JournalsWhole'
  BY <1>1, <1>14 DEF JournalsWhole
<1>17. FetchedOnly'
  <2>1. \A f \in chunks : Fetched(f.bars)
    BY DEF CacheInv, FetchedOnly
  <2>2. \A c \in buffered' : c \in buffered \cup page
    BY <1>1
  <2> QED
    BY <1>1, <1>10, <1>14, <2>1, <2>2 DEF FetchedOnly, Fetched
<1>18. JournalsKept'
  BY <1>1, <1>2, <1>14 DEF JournalsKept
<1>19. FetchUnderWay'
  <2>1. gaps # {} /\ FirstNow <= request.wall /\ request.wall <= now
    BY <1>1 DEF CacheInv, FetchUnderWay
  <2>2. \A i \in journals' : Opens(i.bars) \cup Opens(buffered') = Opens(feed'.all)
    BY <1>14
  <2> QED
    BY <1>1, <1>2, <1>3, <1>4, <2>1, <2>2 DEF FetchUnderWay
<1>20. WorldTypes' /\ ChunksWhole' /\ RangesBacked' /\ CoverageDisjoint'
  BY <1>1, Frame
<1> QED
  BY <1>9, <1>15, <1>16, <1>17, <1>18, <1>19, <1>20 DEF CacheInv

\* An error read as an empty page ends the loop, and changes nothing else.
LEMMA SwallowErrorKeeps ==
  ASSUME CacheInv, SwallowError
  PROVE  CacheInv'
<1> USE DEF CacheInv
<1>1. /\ stage = "fetch" /\ stage' = stage
      /\ ReadsErrorAsEmpty(venue) /\ feed' = Paged(venue, feed, {})
      /\ UNCHANGED <<venue, history, now, disk, request, manifest, gaps, buffered>>
  BY DEF SwallowError
<1>2. NextGap' = NextGap
  BY <1>1 DEF NextGap
<1>3. venue \in Venues /\ Paging(venue, history, request.wall, feed) /\ feed \in FeedState(history)
  BY <1>1 DEF WorldTypes, FetchUnderWay, ProcessTypes
<1>4. /\ feed' = [feed EXCEPT !.over = TRUE]
      /\ Paging(venue, history, request.wall, feed')
  BY <1>1, <1>3, ErrorEnds
<1>5. feed'.all = feed.all /\ feed'.start = feed.start /\ feed'.end = feed.end
  BY <1>3, <1>4 DEF FeedState
<1>6. ProcessTypes'
  <2>1. feed' \in FeedState(history)
    BY <1>4 DEF Paging
  <2>2. Candles' = Candles
    BY <1>1, Frame
  <2> QED
    BY <1>1, <2>1, <2>2 DEF ProcessTypes
<1>7. FetchedOnly'
  BY <1>1, <1>5 DEF FetchedOnly, Fetched, disk
<1>8. JournalsKept'
  BY <1>1, <1>2 DEF JournalsKept, disk
<1>9. FetchUnderWay'
  BY <1>1, <1>2, <1>4, <1>5 DEF FetchUnderWay, disk
<1>10. /\ WorldTypes' /\ DiskTypes' /\ ChunksWhole' /\ JournalsWhole'
       /\ RangesBacked' /\ CoverageDisjoint'
  BY <1>1, Frame DEF disk
<1> QED
  BY <1>6, <1>7, <1>8, <1>9, <1>10

\* A download that breaks off leaves what its journal has.
LEMMA FetchFailsKeeps ==
  ASSUME CacheInv, FetchFails
  PROVE  CacheInv'
<1> USE DEF CacheInv
<1>1. /\ stage = "fetch" /\ stage' = "failed" /\ buffered' = {}
      /\ UNCHANGED <<venue, history, now, disk, request, manifest, gaps, feed>>
  BY DEF FetchFails
<1>2. ProcessTypes'
  <2>1. Candles' = Candles
    BY <1>1, Frame
  <2> QED
    BY <1>1, <2>1 DEF ProcessTypes
<1>3. FetchedOnly'
  BY <1>1 DEF FetchedOnly, Fetched, disk
<1>4. JournalsKept'
  BY <1>1 DEF JournalsKept
<1>5. FetchUnderWay'
  BY <1>1 DEF FetchUnderWay
<1>6. /\ WorldTypes' /\ DiskTypes' /\ ChunksWhole' /\ JournalsWhole'
      /\ RangesBacked' /\ CoverageDisjoint'
  BY <1>1, Frame DEF disk
<1> QED
  BY <1>2, <1>3, <1>4, <1>5, <1>6

\* What the gap keeps of a download is what closes in it.
LEMMA CollectedIs ==
  ASSUME CacheInv, stage = "fetch"
  PROVE  Collected = {c \in feed.all : NextGap[1] <= Stamp(venue, c) /\ Stamp(venue, c) <= NextGap[2]}
<1>1. /\ NextGap[1] \in Int /\ NextGap[2] \in Int
      /\ feed.start = Max({NextGap[1] - BAR, 0}) /\ feed.end = NextGap[2] + 1
      /\ \A c \in feed.all : c.open \in Nat
  BY NextGapIs DEF CacheInv, FetchUnderWay, ProcessTypes, FeedState, WorldTypes, Candled
<1>2. CASE venue \in {"binance", "mexc"}
  BY <1>2 DEF Collected, Yielded
<1>3. CASE venue \notin {"binance", "mexc"}
  <2>1. /\ Yielded(venue, feed) = {c \in feed.all : feed.start <= c.open /\ c.open < feed.end}
        /\ BAR \in Nat \ {0} /\ \A c \in feed.all : Stamp(venue, c) = c.open + BAR
    BY <1>3, BarAssumption DEF Yielded, Stamp
  <2>2. ASSUME NEW c \in feed.all, NextGap[1] <= Stamp(venue, c), Stamp(venue, c) <= NextGap[2]
        PROVE  feed.start <= c.open /\ c.open < feed.end
    <3>1. c.open \in Nat /\ NextGap[1] <= c.open + BAR /\ c.open + BAR <= NextGap[2]
      BY <1>1, <2>1, <2>2
    <3>2. feed.start <= c.open
      BY <1>1, <3>1, OpeningOf
    <3> QED
      BY <1>1, <2>1, <3>1, <3>2
  <2> QED
    BY <2>1, <2>2 DEF Collected
<1> QED
  BY <1>2, <1>3

\* A download has no hole, so its part within the gap has none.
LEMMA CollectedWhole ==
  ASSUME CacheInv, stage = "fetch"
  PROVE  /\ Collected \in SUBSET Candles /\ Fetched(Collected)
         /\ Whole(history, Opens(Collected))
<1>1. /\ NextGap[1] \in Int /\ NextGap[2] \in Int
      /\ venue \in Venues /\ Candled(history) /\ request.wall \in Int
      /\ Paging(venue, history, request.wall, feed)
      /\ feed.all \subseteq Candles /\ Fetched(feed.all)
      /\ \A o \in history : o \in Nat
  BY NextGapIs DEF CacheInv, FetchUnderWay, ProcessTypes, FeedState, WorldTypes, Candled,
                   FetchedOnly, Candles
<1>2. \A c : c \in Collected <=>
        c \in feed.all /\ NextGap[1] <= c.open + Shift /\ c.open + Shift <= NextGap[2]
  BY CollectedIs, Stamped
<1>3. Collected \in SUBSET Candles /\ Fetched(Collected)
  BY <1>1, <1>2 DEF Fetched
<1>4. Whole(history, Opens(feed.all))
  BY <1>1, PagedWhole
<1> SUFFICES ASSUME NEW o \in history, o \notin Opens(Collected)
             PROVE  (\A c \in Collected : c.open < o) \/ (\A c \in Collected : o < c.open)
  BY <1>3 DEF Whole, Opens
<1>5. \A c \in Collected : c.open \in Nat
  BY <1>1, <1>3 DEF Candles
<1>6. CASE o \in Opens(feed.all)
  <2>1. PICK d \in feed.all : d.open = o
    BY <1>6 DEF Opens
  <2>2. d \notin Collected
    BY <2>1 DEF Opens
  <2>3. Shift \in Nat
    BY Stamped
  <2>4. o + Shift < NextGap[1] \/ NextGap[2] < o + Shift
    BY <1>1, <1>2, <2>1, <2>2, <2>3
  <2> QED
    BY <1>1, <1>2, <1>5, <2>3, <2>4
<1>7. CASE o \notin Opens(feed.all)
  <2>1. (\A p \in Opens(feed.all) : p < o) \/ (\A p \in Opens(feed.all) : o < p)
    BY <1>4, <1>7 DEF Whole
  <2>2. \A c \in Collected : c.open \in Opens(feed.all)
    BY <1>2 DEF Opens
  <2> QED
    BY <2>1, <2>2
<1> QED
  BY <1>6, <1>7

\* The part of the journal within its gap was fetched.
LEMMA JournalCollected ==
  ASSUME CacheInv, stage = "fetch", NEW j \in journals, NEW c \in j.bars, Within(Stamp(venue, c), j)
  PROVE  c.open \in Opens(Collected)
<1>1. PICK k \in journals : journals = {k} /\ <<k.lo, k.hi>> = NextGap
  BY DEF CacheInv, JournalsKept
<1>2. j.lo = NextGap[1] /\ j.hi = NextGap[2]
  BY <1>1
<1>3. c.open \in Opens(feed.all)
  <2>1. Opens(j.bars) \cup Opens(buffered) = Opens(feed.all)
    BY DEF CacheInv, FetchUnderWay
  <2> QED
    BY <2>1 DEF Opens
<1>4. PICK d \in feed.all : d.open = c.open
  BY <1>3 DEF Opens
<1>5. Stamp(venue, d) = Stamp(venue, c)
  BY <1>4, Stamped
<1>6. d \in Collected
  BY <1>2, <1>5, CollectedIs DEF Within
<1> QED
  BY <1>4, <1>6 DEF Opens

\* A gap without a bar: its journal has none of it either.
LEMMA LeaveGapKeeps ==
  ASSUME CacheInv, LeaveGap
  PROVE  CacheInv'
<1> USE DEF CacheInv
<1>1. /\ stage = "fetch" /\ stage' = "recorded" /\ Collected = {} /\ buffered' = {}
      /\ UNCHANGED <<venue, history, now, disk, request, manifest, gaps, feed>>
  BY DEF LeaveGap
<1>2. NextGap' = NextGap
  BY <1>1 DEF NextGap
<1>3. ProcessTypes'
  <2>1. Candles' = Candles
    BY <1>1, Frame
  <2> QED
    BY <1>1, <2>1 DEF ProcessTypes
<1>4. FetchedOnly'
  BY <1>1 DEF FetchedOnly, Fetched, disk
<1>5. JournalsKept'
  <2>1. \A j \in journals : \A c \in j.bars : ~Within(Stamp(venue, c), j)
    BY <1>1, JournalCollected DEF Opens
  <2>2. \A j \in journals' : \A c \in j.bars : ~Within(Stamp(venue', c), j)
    BY <1>1, <2>1 DEF disk
  <2> QED
    BY <1>1, <1>2, <2>2 DEF JournalsKept, disk
<1>6. FetchUnderWay'
  BY <1>1 DEF FetchUnderWay
<1>7. /\ WorldTypes' /\ DiskTypes' /\ ChunksWhole' /\ JournalsWhole'
      /\ RangesBacked' /\ CoverageDisjoint'
  BY <1>1, Frame DEF disk
<1> QED
  BY <1>3, <1>4, <1>5, <1>6, <1>7

\* The journal goes when its bars are in a chunk.
LEMMA DropJournalKeeps ==
  ASSUME CacheInv, DropJournal
  PROVE  CacheInv'
<1> USE DEF CacheInv
<1>1. /\ stage = "recorded" /\ stage' = "dropped"
      /\ journals' = {j \in journals : <<j.lo, j.hi>> # NextGap}
      /\ UNCHANGED <<venue, history, now, chunks, saved, process>>
  BY DEF DropJournal
<1>2. journals' = {}
  BY <1>1 DEF JournalsKept
<1>3. DiskTypes'
  <2>1. Candles' = Candles
    BY <1>1, Frame
  <2> QED
    BY <1>1, <1>2, <2>1, FS_EmptySet DEF DiskTypes, ChunkFile
<1>4. JournalsWhole' /\ JournalsKept'
  BY <1>1, <1>2 DEF JournalsWhole, JournalsKept
<1>5. FetchedOnly'
  BY <1>1, <1>2 DEF FetchedOnly, Fetched, process
<1>6. FetchUnderWay'
  BY <1>1 DEF FetchUnderWay, process
<1>7. /\ WorldTypes' /\ ChunksWhole' /\ ProcessTypes' /\ RangesBacked' /\ CoverageDisjoint'
  BY <1>1, Frame DEF process
<1> QED
  BY <1>3, <1>4, <1>5, <1>6, <1>7

\* The gap is done.
LEMMA SaveGapKeeps ==
  ASSUME CacheInv, SaveGap
  PROVE  CacheInv'
<1> USE DEF CacheInv
<1>1. /\ stage = "dropped" /\ stage' = "gap"
      /\ saved' = manifest /\ gaps' = gaps \ {NextGap}
      /\ UNCHANGED <<venue, history, now, chunks, journals, request, manifest, feed, buffered>>
  BY DEF SaveGap
<1>2. Candles' = Candles
  BY <1>1, Frame
<1>3. DiskTypes'
  BY <1>1, <1>2 DEF DiskTypes, ChunkFile, ProcessTypes
<1>4. ProcessTypes'
  <2>1. IsFiniteSet(gaps')
    BY <1>1, FS_RemoveElement DEF ProcessTypes
  <2> QED
    BY <1>1, <1>2, <2>1 DEF ProcessTypes
<1>5. JournalsKept' /\ FetchUnderWay'
  BY <1>1 DEF JournalsKept, FetchUnderWay
<1>6. RangesBacked' /\ CoverageDisjoint'
  BY <1>1, Frame DEF RangesBacked, CoverageDisjoint
<1>7. WorldTypes' /\ ChunksWhole' /\ JournalsWhole' /\ FetchedOnly'
  BY <1>1, Frame
<1> QED
  BY <1>3, <1>4, <1>5, <1>6, <1>7

\* Nothing of a call is left when it is over, or its process dead.
Cleared ==
  /\ stage' = "idle" /\ request' = NoRequest /\ manifest' = {} /\ gaps' = {}
  /\ feed' = NoFeed /\ buffered' = {}

\* A call that is over leaves the directory, which is all there is to keep.
LEMMA ClearedKeeps ==
  ASSUME CacheInv, Cleared, UNCHANGED <<venue, history, now, journals>>,
         DiskTypes', ChunksWhole', \A f \in chunks' : Fetched(f.bars)',
         \A r : Named(r) => Named(r)', saved' \in {saved, manifest}
  PROVE  CacheInv'
<1> USE DEF CacheInv, Cleared
<1>1. ProcessTypes'
  <2>1. NoFeed \in FeedState(history)
    BY DEF NoFeed, FeedState
  <2>2. NoRequest \in [lo : Int, hi : Int, wall : Int]
    BY DEF NoRequest
  <2> QED
    BY <2>1, <2>2, FS_EmptySet DEF ProcessTypes
<1>2. FetchedOnly'
  <2>1. feed'.all = {}
    BY DEF NoFeed
  <2> QED
    BY <2>1 DEF FetchedOnly, Fetched
<1>3. JournalsKept' /\ FetchUnderWay'
  BY DEF JournalsKept, FetchUnderWay
<1>4. RangesBacked'
  BY DEF RangesBacked
<1>5. CoverageDisjoint'
  BY DEF CoverageDisjoint
<1>6. WorldTypes' /\ JournalsWhole'
  BY Frame
<1> QED
  BY <1>1, <1>2, <1>3, <1>4, <1>5, <1>6

\* The same where the directory keeps its chunks.
LEMMA ClearedAlone ==
  ASSUME CacheInv, Cleared, UNCHANGED <<venue, history, now, journals, chunks>>,
         saved' \in {saved, manifest}
  PROVE  CacheInv'
<1>1. Candles' = Candles /\ ChunksWhole' /\ \A r : Named(r)' <=> Named(r)
  BY Frame
<1>2. DiskTypes'
  BY <1>1 DEF CacheInv, DiskTypes, ChunkFile, ProcessTypes
<1>3. \A f \in chunks' : Fetched(f.bars)'
  BY DEF CacheInv, FetchedOnly, Fetched
<1> QED
  BY <1>1, <1>2, <1>3, ClearedKeeps

\* The holes on both sides of what was found.
LEMMA Holes ==
  ASSUME CacheInv, stage = "fetch", NEW lo \in Int, NEW hi \in Int, lo <= hi
  PROVE  LET holes == HolesAround(NextGap, lo, hi, request.wall)
         IN  /\ holes \subseteq Ranges /\ IsFiniteSet(holes)
             /\ \A r \in holes : r.kind = "EmptyVerified"
             /\ \A r \in holes : \/ r.lo = NextGap[1] /\ r.hi = lo - BAR
                                 \/ r.lo = hi + BAR /\ r.hi <= NextGap[2] /\ r.hi <= request.wall - BAR
             /\ \A r, s \in holes : r # s => ~InteriorOverlap(r, s)
<1> USE BarAssumption
<1> DEFINE end    == Min({NextGap[2], request.wall - BAR})
           before == Span(NextGap[1], lo - BAR, "EmptyVerified")
           after  == Span(hi + BAR, end, "EmptyVerified")
           holes  == HolesAround(NextGap, lo, hi, request.wall)
<1>1. NextGap[1] \in Int /\ NextGap[2] \in Int /\ request.wall \in Int
  BY NextGapIs DEF CacheInv, FetchUnderWay, ProcessTypes
<1>2. end \in Int /\ end <= NextGap[2] /\ end <= request.wall - BAR
  <2> DEFINE S == {NextGap[2], request.wall - BAR}
  <2>1. S \in SUBSET Int /\ S # {}
    BY <1>1
  <2>2. IsFiniteSet(S)
    <3>1. S = {NextGap[2]} \cup {request.wall - BAR}
      OBVIOUS
    <3>2. IsFiniteSet({NextGap[2]} \cup {request.wall - BAR})
      BY FS_Singleton, FS_AddElement
    <3> QED
      BY <3>1, <3>2
  <2>3. Min(S) \in S /\ \A y \in S : Min(S) <= y
    <3> HIDE DEF S
    <3> QED
      BY <2>1, <2>2, MinMax
  <2> QED
    BY <1>1, <2>3
<1> HIDE DEF end
<1>3. /\ before.lo = NextGap[1] /\ before.hi = lo - BAR /\ before.kind = "EmptyVerified"
      /\ after.lo = hi + BAR /\ after.hi = end /\ after.kind = "EmptyVerified"
      /\ before \in [lo : Int, hi : Int, kind : Kinds] /\ after \in [lo : Int, hi : Int, kind : Kinds]
  BY <1>1, <1>2 DEF Span, Kinds
<1>4. holes = {r \in {before, after} : r.lo <= r.hi}
  BY DEF HolesAround, end
<1> HIDE DEF before, after, holes
<1>5. holes \subseteq Ranges
  BY <1>3, <1>4 DEF Ranges
<1>6. IsFiniteSet(holes)
  <2>1. IsFiniteSet({before} \cup {after})
    BY FS_Singleton, FS_AddElement
  <2>2. holes \subseteq {before} \cup {after}
    BY <1>4
  <2> QED
    BY <2>1, <2>2, FS_Subset
<1>7. ~InteriorOverlap(before, after) /\ ~InteriorOverlap(after, before)
  <2>1. ~(after.lo < before.hi)
    BY <1>3
  <2> QED
    BY <2>1 DEF InteriorOverlap
<1> QED
  BY <1>2, <1>3, <1>4, <1>5, <1>6, <1>7 DEF holes

\* The chunk of a gap has no hole in it, and the ranges recorded overlap none
\* of the others.
LEMMA RecordGapKeeps ==
  ASSUME CacheInv, RecordGap
  PROVE  CacheInv'
<1> DEFINE lo    == Min(Stamps(Collected))
           hi    == Max(Stamps(Collected))
           found == Span(lo, hi, "Bars")
           holes == HolesAround(NextGap, lo, hi, request.wall)
<1>1. /\ stage = "fetch" /\ Collected # {}
      /\ WriteChunk(lo, hi, Collected)
      /\ UNCHANGED <<venue, history, now, saved, journals>>
      /\ \/ /\ Accepts(manifest, found)
            /\ \A hole \in holes : Accepts(manifest \cup {found}, hole)
            /\ manifest' = manifest \cup {found} \cup holes
            /\ stage' = "recorded" /\ buffered' = {}
            /\ UNCHANGED <<request, gaps, feed>>
         \/ Return("rejected", {})
  BY DEF RecordGap
<1>2. /\ Collected \in SUBSET Candles /\ Fetched(Collected)
      /\ Whole(history, Opens(Collected))
  BY <1>1, CollectedWhole
<1>3. /\ lo \in Int /\ hi \in Int /\ lo <= hi
  BY <1>1, <1>2, StampEdges DEF CacheInv
<1>4. /\ chunks' \subseteq ChunkFile'
      /\ ChunksWhole'
      /\ \A f \in chunks' : Fetched(f.bars)'
      /\ \A r : Named(r) => Named(r)'
      /\ [lo |-> lo, hi |-> hi, bars |-> Collected] \in chunks'
  BY <1>1, <1>2, ChunkWritten
<1>5. DiskTypes'
  <2>1. Candles' = Candles
    BY <1>1, Frame
  <2> QED
    BY <1>1, <1>4, <2>1 DEF CacheInv, DiskTypes, ChunkFile
<1>6. /\ holes \subseteq Ranges /\ IsFiniteSet(holes)
      /\ \A r \in holes : r.kind = "EmptyVerified"
      /\ \A r, s \in holes : r # s => ~InteriorOverlap(r, s)
  <2> HIDE DEF lo, hi
  <2> QED
    BY <1>1, <1>3, Holes
<1>7. PICK q : q = found
  OBVIOUS
<1>8. q \in Ranges /\ Named(q)'
  <2>1. q.lo = lo /\ q.hi = hi
    BY <1>7 DEF Span
  <2>2. q \in Ranges
    BY <1>3, <1>7 DEF Span, Ranges, Kinds
  <2>3. \E f \in chunks' : f.lo = q.lo /\ f.hi = q.hi
    BY <1>4, <2>1
  <2> QED
    BY <2>2, <2>3 DEF Named
<1> HIDE DEF lo, hi, found, holes
<1>9. CASE /\ Accepts(manifest, found)
           /\ \A hole \in holes : Accepts(manifest \cup {found}, hole)
           /\ manifest' = manifest \cup {found} \cup holes
           /\ stage' = "recorded" /\ buffered' = {}
           /\ UNCHANGED <<request, gaps, feed>>
  <2> USE <1>9
  <2>1. NextGap' = NextGap
    BY DEF NextGap
  <2>2. ProcessTypes'
    <3>1. manifest' \subseteq Ranges /\ IsFiniteSet(manifest')
      BY <1>6, <1>7, <1>8, FS_AddElement, FS_Union DEF CacheInv, ProcessTypes
    <3>2. Candles' = Candles
      BY <1>1, Frame
    <3> QED
      BY <1>1, <3>1, <3>2 DEF CacheInv, ProcessTypes
  <2>3. RangesBacked'
    <3>1. \A r : r \in saved' \cup manifest' /\ r.kind = "Bars" => r \in saved \cup manifest \cup {q}
      BY <1>1, <1>6, <1>7
    <3>2. \A r \in saved \cup manifest : r.kind = "Bars" => Named(r)'
      BY <1>4 DEF CacheInv, RangesBacked
    <3> QED
      BY <1>8, <3>1, <3>2 DEF RangesBacked
  <2>4. CoverageDisjoint'
    <3>1. \A r, s \in manifest : r # s => ~InteriorOverlap(r, s)
      BY DEF CacheInv, CoverageDisjoint
    <3>2. \A r, s \in manifest \cup {found} : r # s => ~InteriorOverlap(r, s)
      BY <3>1, Accepted
    <3>3. \A r \in holes, s \in manifest \cup {found} : ~InteriorOverlap(r, s) /\ ~InteriorOverlap(s, r)
      BY DEF Accepts, InteriorOverlap
    <3>4. \A r, s \in manifest' : r # s => ~InteriorOverlap(r, s)
      BY <1>6, <3>2, <3>3
    <3>5. \A r, s \in saved' : r # s => ~InteriorOverlap(r, s)
      BY <1>1 DEF CacheInv, CoverageDisjoint
    <3> QED
      BY <3>4, <3>5 DEF CoverageDisjoint
  <2>5. FetchedOnly'
    BY <1>1, <1>4 DEF CacheInv, FetchedOnly, Fetched
  <2>6. JournalsKept'
    <3>1. \A j \in journals : \A c \in j.bars :
            Within(Stamp(venue, c), j) => \E f \in chunks' : c.open \in Opens(f.bars)
      BY <1>1, <1>4, JournalCollected
    <3> QED
      BY <1>1, <2>1, <3>1 DEF CacheInv, JournalsKept
  <2>7. FetchUnderWay'
    BY <1>1 DEF CacheInv, FetchUnderWay
  <2>8. WorldTypes' /\ JournalsWhole'
    BY <1>1, Frame
  <2> QED
    BY <1>4, <1>5, <2>2, <2>3, <2>4, <2>5, <2>6, <2>7, <2>8 DEF CacheInv
<1>10. CASE Return("rejected", {})
  <2>1. Cleared
    BY <1>10 DEF Return, Cleared
  <2> QED
    BY <1>1, <1>4, <1>5, <2>1, ClearedKeeps
<1> QED
  BY <1>1, <1>9, <1>10

\* What had begun or ended by a time has by a later one.
LEMMA TickKeeps ==
  ASSUME CacheInv, Tick
  PROVE  CacheInv'
<1> USE DEF CacheInv
<1>1. /\ now' = now + 1 /\ now \in Int /\ now < LastNow
      /\ UNCHANGED <<venue, history, disk, stage, process>>
  BY DEF Tick, WorldTypes
<1>2. WorldTypes' /\ DiskTypes' /\ ProcessTypes'
  BY <1>1, CacheAssumption DEF WorldTypes, DiskTypes, ProcessTypes, ChunkFile, Candles, disk, process
<1>3. FetchedOnly'
  <2>1. \A B : B \subseteq Candles /\ Fetched(B) => Fetched(B)'
    <3> SUFFICES ASSUME NEW CONSTANT B, B \subseteq Candles, Fetched(B)
                 PROVE  Fetched(B)'
      OBVIOUS
    <3>1. \A c \in B : c.open \in Nat
      BY DEF WorldTypes, Candled, Candles
    <3> QED
      BY <1>1, <3>1 DEF Fetched
  <2>2. /\ \A f \in chunks \cup journals : f.bars \subseteq Candles /\ Fetched(f.bars)
        /\ feed.all \subseteq Candles /\ Fetched(feed.all)
        /\ buffered \subseteq Candles /\ Fetched(buffered)
    BY DEF FetchedOnly, DiskTypes, ProcessTypes, ChunkFile, FeedState, Candles
  <2> QED
    BY <1>1, <2>1, <2>2 DEF FetchedOnly, disk, process
<1>4. JournalsKept'
  <2>1. NextGap' = NextGap /\ NextJournal' = NextJournal
    BY <1>1 DEF NextGap, NextJournal, process, disk
  <2>2. \A S : Stamps(S)' = Stamps(S)
    BY <1>1 DEF Stamps
  <2> QED
    BY <1>1, <2>1, <2>2 DEF JournalsKept, disk, process
<1>5. FetchUnderWay'
  <2>1. request.wall \in Int
    BY DEF ProcessTypes
  <2>2. NextGap' = NextGap
    BY <1>1 DEF NextGap, process
  <2> QED
    BY <1>1, <2>1, <2>2 DEF FetchUnderWay, disk, process
<1>6. ChunksWhole' /\ JournalsWhole' /\ RangesBacked' /\ CoverageDisjoint'
  <2>1. \A r : Named(r)' <=> Named(r)
    BY <1>1 DEF Named, disk
  <2> QED
    BY <1>1, <2>1 DEF ChunksWhole, StampOf, JournalsWhole, RangesBacked, CoverageDisjoint, disk, process
<1> QED
  BY <1>2, <1>3, <1>4, <1>5, <1>6

-----------------------------------------------------------------------------
(* The theorems                                                             *)

\* An empty directory keeps all of it.
LEMMA CacheInitial == CacheInit => CacheInv
<1> SUFFICES ASSUME Init
             PROVE  CacheInv
  BY DEF CacheInit
<1> USE DEF Init
<1>1. WorldTypes
  BY CacheAssumption DEF WorldTypes, Candled
<1>2. DiskTypes /\ ProcessTypes
  <2>1. NoFeed \in FeedState(history)
    BY DEF NoFeed, FeedState
  <2>2. NoRequest \in [lo : Int, hi : Int, wall : Int]
    BY DEF NoRequest
  <2> QED
    BY <2>1, <2>2, FS_EmptySet DEF DiskTypes, ProcessTypes
<1>3. FetchedOnly /\ ChunksWhole /\ JournalsWhole /\ RangesBacked /\ CoverageDisjoint
  BY DEF FetchedOnly, Fetched, NoFeed, ChunksWhole, JournalsWhole, RangesBacked, CoverageDisjoint
<1>4. JournalsKept /\ FetchUnderWay
  BY DEF JournalsKept, FetchUnderWay
<1> QED
  BY <1>1, <1>2, <1>3, <1>4 DEF CacheInv

\* Every step of either cache keeps it, and is a step or a stutter of BarCache.
LEMMA CacheStep ==
  ASSUME CacheInv, [CacheNext]_cacheVars
  PROVE  CacheInv' /\ [Next]_vars
<1>1. [Next]_vars
  BY DEF CacheNext, cacheVars, Next
<1> SUFFICES CacheInv'
  BY <1>1
<1>2. CASE Next
  <2>1. CASE \E w \in Windows : Begin(w)
    BY <2>1, BeginKeeps
  <2>2. CASE Recovery
    BY <2>2, DiscardEmptyJournalKeeps, WriteRecoveredKeeps, RecordRecoveredKeeps,
       SaveRecoveredKeeps DEF Recovery
  <2>3. CASE Fetching
    BY <2>3, OpenGapKeeps, FetchPageKeeps, RecordGapKeeps, LeaveGapKeeps, DropJournalKeeps,
       SaveGapKeeps DEF Fetching
  <2>4. CASE ReturnFetchError
    BY <2>4, ClearedAlone DEF ReturnFetchError, Return, Cleared
  <2>5. CASE Assemble
    BY <2>5, ClearedAlone DEF Assemble, Return, Cleared, disk
  <2>6. CASE SwallowError
    BY <2>6, SwallowErrorKeeps
  <2>7. CASE FetchFails
    BY <2>7, FetchFailsKeeps
  <2>8. CASE Crash
    BY <2>8, ClearedAlone DEF Crash, Cleared, disk
  <2>9. CASE Tick
    BY <2>9, TickKeeps
  <2> QED
    BY <1>2, <2>1, <2>2, <2>3, <2>4, <2>5, <2>6, <2>7, <2>8, <2>9 DEF Next, Loader
<1>3. CASE UNCHANGED vars
  <2> USE DEF CacheInv
  <2>1. UNCHANGED <<venue, history, now, stage, process, disk>>
    BY <1>3 DEF vars
  <2>2. FetchedOnly'
    BY <2>1 DEF FetchedOnly, Fetched, process, disk
  <2>3. JournalsKept'
    <3>1. NextGap' = NextGap /\ NextJournal' = NextJournal
      BY <2>1 DEF NextGap, NextJournal, process, disk
    <3>2. \A S : Stamps(S)' = Stamps(S)
      BY <2>1 DEF Stamps
    <3> QED
      BY <2>1, <3>1, <3>2 DEF JournalsKept, process, disk
  <2>4. FetchUnderWay'
    <3>1. NextGap' = NextGap
      BY <2>1 DEF NextGap, process
    <3> QED
      BY <2>1, <3>1 DEF FetchUnderWay, process, disk
  <2> QED
    <3>1. /\ WorldTypes' /\ DiskTypes' /\ ChunksWhole' /\ JournalsWhole'
          /\ RangesBacked' /\ CoverageDisjoint' /\ Candles' = Candles
      BY <2>1, Frame DEF process, disk
    <3>2. ProcessTypes'
      BY <2>1, <3>1 DEF ProcessTypes, process
    <3> QED
      BY <2>2, <2>3, <2>4, <3>1, <3>2
<1> QED
  BY <1>1, <1>2, <1>3

\* What the cache keeps at every step of either of the two caches: no hole in
\* a chunk or a journal, a chunk for every range called downloaded, no two
\* ranges that overlap, a journal that has what was flushed (load_bars).
THEOREM CacheKept == CacheSpec => []CacheInv
<1>1. CacheInv /\ [CacheNext]_cacheVars => CacheInv'
  BY CacheStep
<1> QED
  BY <1>1, CacheInitial, PTL DEF CacheSpec

\* The plan of missing_gaps is exact, whatever the manifest has come to be.
THEOREM PlanIsExact == CacheSpec => []PlanExact
<1>1. CacheInv => PlanExact
  <2> SUFFICES ASSUME CacheInv
               PROVE  PlanExact
    OBVIOUS
  <2>1. /\ IsFiniteSet(manifest) /\ Bounded(manifest)
        /\ request.lo \in Int /\ request.hi \in Int
    BY DEF CacheInv, ProcessTypes, Ranges, Bounded
  <2> QED
    BY <2>1, Plan DEF PlanExact
<1> QED
  BY <1>1, CacheKept, PTL

\* A connector that leaves out the forming candle never has one cached.
THEOREM ClosedBars == CacheSpec => []ClosedBarsOnly
<1>1. CacheInv => ClosedBarsOnly
  BY DEF CacheInv, FetchedOnly, Fetched, ClosedBarsOnly
<1> QED
  BY <1>1, CacheKept, PTL

\* A step takes no flushed page of a gap from the disk before a chunk has it.
LEMMA JournalStep ==
  ASSUME CacheInv, [Next]_vars, NEW j \in journals, NEW c \in j.bars, Within(Stamp(venue, c), j)
  PROVE  \E f \in journals' \cup chunks' : c.open \in Opens(f.bars)
<1>1. c.open \in Opens(j.bars)
  BY DEF Opens
<1>2. CASE UNCHANGED journals
  BY <1>1, <1>2
<1>3. CASE DiscardEmptyJournal
  <2>1. j \in journals'
    BY <1>3 DEF DiscardEmptyJournal
  <2> QED
    BY <1>1, <2>1
<1>4. CASE RecordRecovered
  <2>1. CASE j = NextJournal
    <3>1. \E f \in chunks : f.bars = j.bars
      BY <1>4, <2>1 DEF RecordRecovered, CacheInv, JournalsKept
    <3>2. chunks' = chunks
      BY <1>4 DEF RecordRecovered
    <3> QED
      BY <1>1, <3>1, <3>2
  <2>2. CASE j # NextJournal
    <3>1. j \in journals'
      BY <1>4, <2>2 DEF RecordRecovered
    <3> QED
      BY <1>1, <3>1
  <2> QED
    BY <2>1, <2>2
<1>5. CASE OpenGap
  BY <1>5 DEF OpenGap, CacheInv, JournalsKept
<1>6. CASE FetchPage
  <2>1. PICK bars : JournalGrows(bars) \/ UNCHANGED journals
    BY <1>6 DEF FetchPage
  <2>2. CASE JournalGrows(bars)
    <3> DEFINE k == IF <<j.lo, j.hi>> = NextGap THEN [j EXCEPT !.bars = AddPage(@, bars)] ELSE j
    <3>1. k \in journals'
      BY <2>2 DEF JournalGrows
    <3>2. k.bars = AddPage(j.bars, bars) \/ k.bars = j.bars
      BY DEF CacheInv, DiskTypes, ChunkFile
    <3>3. c.open \in Opens(k.bars)
      BY <1>1, <3>2, Joined
    <3> QED
      BY <3>1, <3>3
  <2> QED
    BY <1>2, <2>1, <2>2
<1>7. CASE DropJournal
  BY <1>7 DEF DropJournal, CacheInv, JournalsKept
<1> QED
  BY <1>2, <1>3, <1>4, <1>5, <1>6, <1>7
     DEF Next, Begin, Loader, Recovery, Fetching, WriteRecovered, SaveRecovered, RecordGap,
         LeaveGap, SaveGap, ReturnFetchError, Assemble, SwallowError, FetchFails, Crash, Tick,
         vars, disk

\* No crash loses a flushed page: a journal is deleted only when every bar of
\* its gap is in a chunk file (recover_orphans, load_bars).
THEOREM JournalsOutlived == CacheSpec => JournalOutlived
<1>1. CacheInv /\ [CacheNext]_cacheVars =>
        [\A j \in journals : \A c \in j.bars :
           Within(Stamp(venue, c), j) =>
             \E f \in journals' \cup chunks' : c.open \in Opens(f.bars)]_vars
  BY CacheStep, JournalStep
<1> QED
  BY <1>1, CacheKept, PTL DEF CacheSpec, JournalOutlived

-----------------------------------------------------------------------------
(* What is recorded as empty                                                *)

\* MEXC's loop skips the empty pages before its first candle.  Were the first
\* candles of a window to begin between two of its requests, it would skip
\* them too, and what it skips before a later one is recorded as empty.  That
\* cannot be in a window that lies in the past, nor within a bar's time.
MexcSteady ==
  "mexc" \in Connectors =>
    \/ LastNow <= FirstNow + BAR
    \/ \A w \in Windows : w[2] <= FirstNow + BAR

InGap(s) == NextGap[1] <= s /\ s <= NextGap[2]

\* What the request and the gaps planned for it come from.
WindowKnown ==
  /\ venue \in Connectors
  /\ stage # "idle" => \E w \in Windows : request.hi = w[2]
  /\ stage \in {"idle", "recover", "recovered"} => gaps = {}
  /\ \A g \in gaps : request.lo <= g[1] /\ g[2] <= request.hi

\* Why a download that is over may lack a candle of its gap.
Lacking(o) ==
  \/ StampOf(o) \in swallowed
  \/ /\ request.wall < o + BAR /\ (venue \in Forward => request.wall < o)
     /\ \A c \in feed.all : c.open < o
  \/ /\ venue = "mexc" /\ request.wall < o
     /\ \A c \in feed.all : o < c.open

\* A download that is over has the rest of it.
DownloadKnown ==
  stage = "fetch" /\ feed.over =>
    \A o \in history : InGap(StampOf(o)) => o \in Opens(feed.all) \/ Lacking(o)

EmptyInv == WindowKnown /\ DownloadKnown /\ VerifiedEmptyIsEmpty

\* What no step of the cache changes.
LEMMA StepFrame ==
  ASSUME [Next]_vars
  PROVE  /\ UNCHANGED <<venue, history>>
         /\ swallowed \subseteq swallowed'
         /\ UNCHANGED now \/ Tick
<1>1. CASE UNCHANGED vars
  BY <1>1 DEF vars, budget
<1>2. CASE SwallowError
  BY <1>2 DEF SwallowError
<1>3. CASE Next /\ ~SwallowError
  BY <1>3
     DEF Next, Begin, Loader, Recovery, Fetching, DiscardEmptyJournal, WriteRecovered,
         RecordRecovered, SaveRecovered, OpenGap, FetchPage, RecordGap, LeaveGap, DropJournal,
         SaveGap, ReturnFetchError, Assemble, FetchFails, Crash, Tick, budget
<1> QED
  BY <1>1, <1>2, <1>3

\* The candles of a gap are in the window the connector was asked for.
LEMMA GapOpens ==
  ASSUME CacheInv, stage = "fetch", NEW o \in history, InGap(StampOf(o))
  PROVE  feed.start <= o /\ o < feed.end
<1>1. /\ NextGap[1] \in Int /\ NextGap[2] \in Int
      /\ feed.start = Max({NextGap[1] - BAR, 0}) /\ feed.end = NextGap[2] + 1
      /\ o \in Nat
  BY NextGapIs DEF CacheInv, FetchUnderWay, WorldTypes, Candled
<1>2. Shift \in Nat /\ Shift <= BAR /\ BAR \in Nat /\ StampOf(o) = o + Shift
  BY Stamped, BarAssumption
<1>3. NextGap[1] <= o + BAR
  BY <1>1, <1>2 DEF InGap
<1>4. feed.start <= o
  BY <1>1, <1>3, OpeningOf
<1>5. o < feed.end
  BY <1>1, <1>2 DEF InGap
<1> QED
  BY <1>4, <1>5

\* A download that is over has all of its gap that was closed at the start.
LEMMA DownloadStep ==
  ASSUME CacheInv, EmptyInv, [Next]_vars
  PROVE  DownloadKnown'
<1> SUFFICES ASSUME stage' = "fetch", feed'.over, NEW o \in history, InGap(StampOf(o))'
             PROVE  o \in Opens(feed'.all) \/ Lacking(o)'
  BY StepFrame DEF DownloadKnown
<1>1. CASE UNCHANGED <<stage, gaps, feed, request>>
  <2>1. NextGap' = NextGap /\ venue' = venue /\ swallowed \subseteq swallowed'
    BY <1>1, StepFrame DEF NextGap
  <2>2. StampOf(o)' = StampOf(o)
    BY <2>1 DEF StampOf, Stamp
  <2>3. InGap(StampOf(o))
    BY <2>1, <2>2 DEF InGap
  <2>4. o \in Opens(feed.all) \/ Lacking(o)
    BY <1>1, <2>3 DEF EmptyInv, DownloadKnown
  <2>5. Lacking(o) => Lacking(o)'
    BY <1>1, <2>1, <2>2 DEF Lacking
  <2> QED
    BY <1>1, <2>4, <2>5
<1>2. CASE FetchPage
  <2>1. /\ stage = "fetch"
        /\ feed' = Paged(venue, feed, PageAt(venue, history, now, feed))
        /\ UNCHANGED <<venue, history, now, request, gaps>>
    BY <1>2 DEF FetchPage, PageAt
  <2>2. NextGap' = NextGap
    BY <2>1 DEF NextGap
  <2>3. StampOf(o)' = StampOf(o)
    BY <2>1 DEF StampOf, Stamp
  <2>4. InGap(StampOf(o))
    BY <2>2, <2>3 DEF InGap
  <2>5. feed.start <= o /\ o < feed.end
    BY <2>1, <2>4, GapOpens
  <2>6. /\ venue \in Venues /\ Candled(history) /\ now \in Int /\ request.wall \in Int
        /\ request.wall <= now
        /\ Paging(venue, history, request.wall, feed)
        /\ \A c \in feed.all : c.open <= now
    BY <2>1 DEF CacheInv, WorldTypes, ProcessTypes, FetchUnderWay, FetchedOnly, Fetched
  <2>7. /\ feed'.start = feed.start /\ feed'.end = feed.end
        /\ Drained(venue, history, request.wall, feed')
    BY <2>1, <2>6, PageStep
  <2>8. \/ o \in Opens(feed'.all)
        \/ /\ request.wall < o + BAR /\ (venue \in Forward => request.wall < o)
           /\ \A c \in feed'.all : c.open < o
        \/ /\ venue = "mexc" /\ request.wall < o /\ \A c \in feed'.all : o < c.open
    BY <2>5, <2>7 DEF Drained
  <2> QED
    BY <2>1, <2>8 DEF Lacking
<1>3. CASE SwallowError
  <2>1. /\ stage = "fetch" /\ ReadsErrorAsEmpty(venue)
        /\ feed' = Paged(venue, feed, {})
        /\ UNCHANGED <<venue, history, now, gaps>>
        /\ swallowed' = swallowed \cup
             {s \in Stamps({[open |-> p, done |-> TRUE] : p \in history \ Opens(feed.all)}) :
                NextGap[1] <= s /\ s <= NextGap[2]}
    BY <1>3 DEF SwallowError
  <2>2. NextGap' = NextGap
    BY <2>1 DEF NextGap
  <2>3. StampOf(o)' = StampOf(o)
    BY <2>1 DEF StampOf, Stamp
  <2>4. InGap(StampOf(o))
    BY <2>2, <2>3 DEF InGap
  <2>5. feed'.all = feed.all
    <3>1. venue \in Venues /\ Paging(venue, history, request.wall, feed)
      BY <2>1 DEF CacheInv, WorldTypes, FetchUnderWay
    <3>2. feed' = [feed EXCEPT !.over = TRUE]
      BY <2>1, <3>1, ErrorEnds
    <3>3. feed \in FeedState(history)
      BY <3>1 DEF Paging
    <3> QED
      BY <3>2, <3>3 DEF FeedState
  <2>6. CASE o \notin Opens(feed.all)
    <3>1. StampOf(o) \in Stamps({[open |-> p, done |-> TRUE] : p \in history \ Opens(feed.all)})
      BY <2>6 DEF Stamps, StampOf
    <3>2. StampOf(o) \in swallowed'
      BY <2>1, <2>4, <3>1 DEF InGap
    <3> QED
      BY <2>3, <3>2 DEF Lacking
  <2> QED
    BY <2>5, <2>6
<1>4. CASE OpenGap
  <2>1. feed' = OpenFeed(venue, Max({NextGap[1] - BAR, 0}), NextGap[2] + 1)
    BY <1>4 DEF OpenGap
  <2>2. ~feed'.over
    BY <2>1 DEF OpenFeed
  <2> QED
    BY <2>2
<1> QED
  <2>1. CASE UNCHANGED vars
    BY <1>1, <2>1 DEF vars, process
  <2>2. CASE Next
    BY <1>1, <1>2, <1>3, <1>4, <2>2
       DEF Next, Begin, Loader, Recovery, Fetching, DiscardEmptyJournal, WriteRecovered,
           RecordRecovered, SaveRecovered, RecordGap, LeaveGap, DropJournal, SaveGap,
           ReturnFetchError, Assemble, Return, FetchFails, Crash, Tick, process
  <2> QED
    BY <2>1, <2>2

\* The gaps stay within the window of the call.
LEMMA WindowStep ==
  ASSUME CacheInv, WindowKnown, [Next]_vars
  PROVE  WindowKnown'
<1>1. CASE \E w \in Windows : Begin(w)
  <2>1. PICK w \in Windows : Begin(w)
    BY <1>1
  <2>2. /\ stage = "idle" /\ stage' = "recover" /\ request'.hi = w[2]
        /\ UNCHANGED <<venue, gaps>>
    BY <2>1 DEF Begin
  <2> QED
    BY <2>2 DEF WindowKnown
<1>2. CASE SaveRecovered
  <2>1. /\ stage = "recover" /\ stage' = "gap"
        /\ gaps' = MissingGaps(manifest, request.lo, request.hi)
        /\ UNCHANGED <<venue, request>>
    BY <1>2 DEF SaveRecovered
  <2>2. \A g \in gaps' : request.lo <= g[1] /\ g[2] <= request.hi
    BY <2>1, Plan DEF CacheInv, ProcessTypes, Ranges, Bounded
  <2> QED
    BY <2>1, <2>2 DEF WindowKnown
<1>3. CASE Tick
  BY <1>3 DEF Tick, process, WindowKnown
<1>4. CASE Cleared /\ UNCHANGED venue
  BY <1>4 DEF WindowKnown, Cleared
<1>5. CASE /\ UNCHANGED <<venue, request>> /\ gaps' \subseteq gaps
           /\ stage' \in {"idle", "recover", "recovered"} => stage \in {"idle", "recover", "recovered"}
           /\ stage = "idle" => stage' = "idle"
  BY <1>5 DEF WindowKnown
<1>6. CASE UNCHANGED vars
  BY <1>5, <1>6 DEF vars, process
<1>7. CASE RecordGap \/ ReturnFetchError \/ Assemble \/ Crash
  <2>1. (Cleared /\ UNCHANGED venue)
        \/ (RecordGap /\ stage' = "recorded" /\ UNCHANGED <<venue, request, gaps>>)
    BY <1>7 DEF RecordGap, ReturnFetchError, Assemble, Crash, Return, Cleared
  <2> QED
    BY <1>4, <1>5, <2>1 DEF RecordGap
<1>8. CASE DiscardEmptyJournal \/ WriteRecovered \/ RecordRecovered
  BY <1>5, <1>8 DEF DiscardEmptyJournal, WriteRecovered, RecordRecovered, process
<1>9. CASE \/ OpenGap \/ FetchPage \/ LeaveGap \/ DropJournal \/ SaveGap
           \/ SwallowError \/ FetchFails
  BY <1>5, <1>9 DEF OpenGap, FetchPage, LeaveGap, DropJournal, SaveGap, SwallowError, FetchFails,
                    process
<1> QED
  BY <1>1, <1>2, <1>3, <1>6, <1>7, <1>8, <1>9 DEF Next, Loader, Recovery, Fetching

\* What a download that is over lacks of its gap, where nothing was swallowed,
\* had not closed when the call began.
LEMMA LackingIsOpen ==
  ASSUME CacheInv, EmptyInv, MexcSteady, stage = "fetch", feed.over,
         NEW o \in history, InGap(StampOf(o)), o \notin Opens(feed.all), StampOf(o) \notin swallowed
  PROVE  /\ request.wall < StampOf(o)
         /\ \A c \in feed.all : c.open < o
<1>1. /\ venue \in Venues /\ Candled(history) /\ now \in Int /\ request.wall \in Int
      /\ FirstNow <= request.wall /\ request.wall <= now
      /\ \A c \in feed.all : c.open \in history /\ c.open <= now
  BY DEF CacheInv, WorldTypes, ProcessTypes, FetchUnderWay, FetchedOnly, Fetched, FeedState
<1>2. o \in Nat /\ \A p \in history : p \in Nat /\ (o < p => o + BAR <= p)
  BY <1>1 DEF Candled
<1>3. BAR \in Nat /\ BAR > 1 /\ FirstNow \in Int /\ LastNow \in Int
  BY BarAssumption, CacheAssumption
<1>4. StampOf(o) = o + (IF venue = "binance" THEN BAR - 1 ELSE BAR)
  BY DEF StampOf, Stamp
<1>5. Lacking(o)
  BY DEF EmptyInv, DownloadKnown
<1>6. CASE /\ request.wall < o + BAR /\ (venue \in Forward => request.wall < o)
           /\ \A c \in feed.all : c.open < o
  <2>1. CASE venue = "binance"
    BY <1>1, <1>2, <1>3, <1>4, <1>6, <2>1 DEF Forward
  <2>2. CASE venue # "binance"
    BY <1>1, <1>2, <1>3, <1>4, <1>6, <2>2
  <2> QED
    BY <2>1, <2>2
<1>7. CASE venue = "mexc" /\ request.wall < o /\ \A c \in feed.all : o < c.open
  <2>1. request.wall < StampOf(o)
    BY <1>1, <1>2, <1>3, <1>4, <1>7
  <2>2. CASE LastNow <= FirstNow + BAR
    <3>1. now <= FirstNow + BAR
      BY <1>1, <1>3, <2>2 DEF CacheInv, WorldTypes
    <3>2. ASSUME NEW c \in feed.all
          PROVE  FALSE
      <4>1. c.open \in Nat /\ o + BAR <= c.open /\ c.open <= now
        BY <1>1, <1>2, <1>7
      <4> QED
        BY <1>1, <1>2, <1>3, <1>7, <3>1, <4>1
    <3> QED
      BY <2>1, <3>2
  <2>3. CASE \A w \in Windows : w[2] <= FirstNow + BAR
    <3>1. PICK w \in Windows : request.hi = w[2]
      BY DEF EmptyInv, WindowKnown
    <3>2. NextGap \in gaps /\ NextGap[2] \in Int
      BY NextGapIs DEF CacheInv, FetchUnderWay
    <3>3. NextGap[2] <= request.hi /\ request.hi \in Int
      BY <3>2 DEF EmptyInv, WindowKnown, CacheInv, ProcessTypes
    <3>4. StampOf(o) <= FirstNow + BAR
      BY <1>1, <1>2, <1>3, <1>4, <1>7, <2>3, <3>1, <3>2, <3>3 DEF InGap
    <3> QED
      BY <1>1, <1>2, <1>3, <1>4, <1>7, <3>4
  <2> QED
    BY <1>7, <2>2, <2>3 DEF EmptyInv, WindowKnown, MexcSteady
<1> QED
  BY <1>5, <1>6, <1>7 DEF Lacking

\* The holes recorded around a download are empty.
LEMMA HolesEmpty ==
  ASSUME CacheInv, EmptyInv, MexcSteady, stage = "fetch", feed.over, Collected # {},
         NEW r \in HolesAround(NextGap, Min(Stamps(Collected)), Max(Stamps(Collected)), request.wall),
         NEW o \in history, Within(StampOf(o), r)
  PROVE  StampOf(o) \in swallowed
<1> DEFINE lo == Min(Stamps(Collected))
           hi == Max(Stamps(Collected))
<1>1. Collected \in SUBSET Candles /\ WorldTypes
  BY CollectedWhole DEF CacheInv
<1>2. /\ lo \in Int /\ hi \in Int /\ lo <= hi
      /\ \E c \in Collected : lo = Stamp(venue, c)
      /\ \A c \in Collected : lo <= Stamp(venue, c) /\ Stamp(venue, c) <= hi
  BY <1>1, StampEdges
<1> HIDE DEF lo, hi
<1>3. r \in HolesAround(NextGap, lo, hi, request.wall)
  BY DEF lo, hi
<1>4. r \in Ranges
  BY <1>2, <1>3, Holes
<1>5. \/ r.lo = NextGap[1] /\ r.hi = lo - BAR
      \/ r.lo = hi + BAR /\ r.hi <= NextGap[2] /\ r.hi <= request.wall - BAR
  BY <1>2, <1>3, Holes
<1>6. PICK c \in Collected : lo = Stamp(venue, c)
  BY <1>2
<1>7. /\ NextGap[1] \in Int /\ NextGap[2] \in Int /\ request.wall \in Int
      /\ c \in feed.all /\ c.open \in Nat /\ o \in Nat
      /\ NextGap[1] <= lo /\ lo <= NextGap[2]
  BY <1>6, CollectedIs, NextGapIs
     DEF CacheInv, FetchUnderWay, ProcessTypes, FeedState, WorldTypes, Candled
<1>8. /\ Shift \in Nat /\ Shift <= BAR /\ BAR \in Nat /\ BAR > 1
      /\ StampOf(o) = o + Shift /\ lo = c.open + Shift
  BY <1>6, Stamped, BarAssumption
<1>9. InGap(StampOf(o))
  <2>1. NextGap[1] <= hi
    BY <1>2, <1>7
  <2> QED
    BY <1>2, <1>4, <1>5, <1>7, <1>8, <2>1 DEF Within, Ranges, InGap
<1>10. o \notin Opens(feed.all)
  <2> SUFFICES ASSUME NEW e \in feed.all, e.open = o
               PROVE  FALSE
    BY DEF Opens
  <2>1. Stamp(venue, e) = StampOf(o)
    BY Stamped
  <2>2. e \in Collected
    BY <1>9, <2>1, CollectedIs DEF InGap
  <2>3. lo <= StampOf(o) /\ StampOf(o) <= hi
    BY <1>2, <2>1, <2>2
  <2> QED
    BY <1>2, <1>4, <1>5, <1>7, <1>8, <2>3 DEF Within, Ranges
<1> SUFFICES ASSUME StampOf(o) \notin swallowed
             PROVE  FALSE
  OBVIOUS
<1>11. request.wall < StampOf(o) /\ c.open < o
  BY <1>7, <1>9, <1>10, LackingIsOpen
<1> QED
  BY <1>2, <1>4, <1>5, <1>7, <1>8, <1>11 DEF Within, Ranges

\* Where a range comes from.
LEMMA RangesFrom ==
  ASSUME [Next]_vars
  PROVE  \A r \in saved' \cup manifest' :
           \/ r \in saved \cup manifest
           \/ /\ RecordRecovered
              /\ r = Span(Min(Stamps(NextJournal.bars)), Max(Stamps(NextJournal.bars)), "Bars")
           \/ RecordGap /\ r = Span(Min(Stamps(Collected)), Max(Stamps(Collected)), "Bars")
           \/ /\ RecordGap
              /\ r \in HolesAround(NextGap, Min(Stamps(Collected)), Max(Stamps(Collected)), request.wall)
<1>1. CASE RecordGap
  BY <1>1 DEF RecordGap, Return
<1>2. CASE RecordRecovered
  BY <1>2 DEF RecordRecovered, RecordRange
<1>3. CASE UNCHANGED vars
  BY <1>3 DEF vars, disk, process
<1> QED
  BY <1>1, <1>2, <1>3
     DEF Next, Begin, Loader, Recovery, Fetching, DiscardEmptyJournal, WriteRecovered,
         SaveRecovered, OpenGap, FetchPage, LeaveGap, DropJournal,
         SaveGap, ReturnFetchError, Assemble, Return, SwallowError, FetchFails, Crash, Tick,
         process, disk

\* No step records as empty what is not.
LEMMA EmptyStep ==
  ASSUME CacheInv, EmptyInv, MexcSteady, [Next]_vars
  PROVE  EmptyInv'
<1>1. VerifiedEmptyIsEmpty'
  <2>1. venue' = venue /\ history' = history /\ swallowed \subseteq swallowed'
    BY StepFrame
  <2>2. \A o : StampOf(o)' = StampOf(o)
    BY <2>1 DEF StampOf, Stamp
  <2> SUFFICES ASSUME NEW r \in saved' \cup manifest', r.kind = "EmptyVerified",
                      NEW o \in history, Within(StampOf(o), r)
               PROVE  StampOf(o) \in swallowed
    BY <2>1, <2>2 DEF VerifiedEmptyIsEmpty, Within
  <2>3. CASE r \in saved \cup manifest
    BY <2>3 DEF EmptyInv, VerifiedEmptyIsEmpty
  <2>4. CASE /\ RecordGap
             /\ r \in HolesAround(NextGap, Min(Stamps(Collected)), Max(Stamps(Collected)), request.wall)
    <3>1. stage = "fetch" /\ feed.over /\ Collected # {}
      BY <2>4 DEF RecordGap
    <3> QED
      BY <2>4, <3>1, HolesEmpty
  <2> QED
    BY <2>3, <2>4, RangesFrom DEF Span
<1> QED
  BY <1>1, DownloadStep, WindowStep DEF EmptyInv

\* Nothing is recorded at first.
LEMMA EmptyInitial == CacheInit => EmptyInv
  BY CacheAssumption, BarAssumption
     DEF CacheInit, Init, EmptyInv, WindowKnown, DownloadKnown, VerifiedEmptyIsEmpty

\* Ranges are disjoint, those called downloaded are on disk and whole, those
\* called empty are empty, at every step and after every crash, whatever pages
\* were cut short, refused or horizons passed (record_fetched_gap,
\* recover_orphans, Manifest::record_range).
THEOREM CoverageIsTrue ==
  ASSUME MexcSteady
  PROVE  CacheSpec => []CoverageTrue
<1>1. CacheInv /\ EmptyInv => CoverageTrue
  <2>1. CacheInv => CoverageBacked
    BY DEF CacheInv, RangesBacked, Named, ChunksWhole, CoverageBacked, Within
  <2> QED
    BY <2>1 DEF CacheInv, EmptyInv, CoverageTrue
<1>2. CacheInv /\ EmptyInv /\ [CacheNext]_cacheVars => EmptyInv'
  BY CacheStep, EmptyStep
<1> QED
  BY <1>1, <1>2, CacheKept, EmptyInitial, PTL DEF CacheSpec

-----------------------------------------------------------------------------
(* What a call returns                                                      *)

\* A gap or a stamp off all that is recorded.
Off(g, r) == r.hi < g[1] \/ g[2] < r.lo

\* The gaps not yet recorded.
Left == IF stage \in {"recorded", "dropped"} THEN gaps \ {NextGap} ELSE gaps

Busy == stage \in {"gap", "fetch", "recorded", "dropped"}

\* A bar that no later step of the call need see to.
SeenTo(s) ==
  \/ s \in swallowed
  \/ \E r \in manifest : r.kind = "Bars" /\ Within(s, r)
  \/ \E r \in manifest : /\ r.kind = "EmptyVerified" /\ ~Within(s, r)
                         /\ r.lo - BAR < s /\ s < r.hi + BAR

\* The gaps and the manifest share nothing, and between them have every bar of
\* the window that had closed when the call began.
PlanKept ==
  Busy =>
    /\ saved \subseteq manifest
    /\ stage \in {"gap", "fetch"} => saved = manifest
    /\ \A g, h \in gaps : g # h => g[2] < h[1] \/ h[2] < g[1]
    /\ \A g \in Left, r \in manifest : Off(g, r)
    /\ \A o \in history :
         LET s == StampOf(o)
         IN  request.lo <= s /\ s <= request.hi /\ s <= request.wall =>
               SeenTo(s) \/ \E g \in Left : g[1] <= s /\ s <= g[2]

\* A range called downloaded begins and ends with a bar.
EdgesAreBars ==
  \A r \in saved \cup manifest : r.kind = "Bars" =>
    \E p, q \in history : r.lo = StampOf(p) /\ r.hi = StampOf(q)

LoadInv ==
  /\ PlanKept /\ EdgesAreBars /\ LoadComplete
  /\ stage # "idle" => outcome = Nothing

\* Two candles close a bar apart at least.
LEMMA BarApart ==
  ASSUME WorldTypes, NEW o \in history, NEW p \in history, StampOf(o) < StampOf(p)
  PROVE  StampOf(o) + BAR <= StampOf(p)
<1>1. o \in Nat /\ p \in Nat /\ (o < p => o + BAR <= p)
  BY DEF WorldTypes, Candled
<1>2. Shift \in Nat /\ StampOf(o) = o + Shift /\ StampOf(p) = p + Shift /\ BAR \in Nat
  BY Stamped, BarAssumption
<1> QED
  BY <1>1, <1>2

\* A candle's stamp is a time.
LEMMA StampTyped ==
  ASSUME WorldTypes, NEW o \in history
  PROVE  StampOf(o) \in Int
<1>1. o \in Nat
  BY DEF WorldTypes, Candled
<1> QED
  BY <1>1, Stamped DEF StampOf, Stamp

\* A bar that comes within a bar of a recorded range is in it, or beside one
\* recorded as empty.
LEMMA NearIsSeen ==
  ASSUME CacheInv, EmptyInv, EdgesAreBars, NEW o \in history, NEW r \in manifest,
         r.lo - BAR < StampOf(o), StampOf(o) < r.hi + BAR
  PROVE  SeenTo(StampOf(o))
<1>1. /\ WorldTypes /\ StampOf(o) \in Int /\ BAR \in Nat
      /\ r.lo \in Int /\ r.hi \in Int /\ r.kind \in {"Bars", "EmptyVerified"}
  BY StampTyped, BarAssumption DEF CacheInv, ProcessTypes, Ranges, Kinds
<1>2. CASE Within(StampOf(o), r)
  <2>1. CASE r.kind = "Bars"
    BY <1>2, <2>1 DEF SeenTo
  <2>2. CASE r.kind = "EmptyVerified"
    BY <1>2, <2>2 DEF EmptyInv, VerifiedEmptyIsEmpty, SeenTo
  <2> QED
    BY <1>1, <2>1, <2>2
<1>3. CASE ~Within(StampOf(o), r)
  <2>1. CASE r.kind = "Bars"
    <3>1. PICK p, q \in history : r.lo = StampOf(p) /\ r.hi = StampOf(q)
      BY <2>1 DEF EdgesAreBars
    <3>2. StampOf(o) < StampOf(p) => StampOf(o) + BAR <= StampOf(p)
      BY <1>1, BarApart
    <3>3. StampOf(q) < StampOf(o) => StampOf(q) + BAR <= StampOf(o)
      BY <1>1, BarApart
    <3> QED
      BY <1>1, <1>3, <3>1, <3>2, <3>3 DEF Within
  <2>2. CASE r.kind = "EmptyVerified"
    BY <1>3, <2>2 DEF SeenTo
  <2> QED
    BY <1>1, <2>1, <2>2
<1> QED
  BY <1>2, <1>3

\* The plan leaves nothing of the window to chance.
LEMMA PlanCovers ==
  ASSUME CacheInv, EmptyInv, EdgesAreBars
  PROVE  LET gs == MissingGaps(manifest, request.lo, request.hi)
         IN  /\ \A g, h \in gs : g # h => g[2] < h[1] \/ h[2] < g[1]
             /\ \A g \in gs, r \in manifest : Off(g, r)
             /\ \A o \in history :
                  request.lo <= StampOf(o) /\ StampOf(o) <= request.hi =>
                    SeenTo(StampOf(o)) \/ \E g \in gs : g[1] <= StampOf(o) /\ StampOf(o) <= g[2]
<1> DEFINE lo == request.lo
           hi == request.hi
           gs == MissingGaps(manifest, lo, hi)
<1>1. /\ IsFiniteSet(manifest) /\ Bounded(manifest) /\ lo \in Int /\ hi \in Int
      /\ BAR \in Nat /\ BAR > 1 /\ WorldTypes
  BY BarAssumption DEF CacheInv, ProcessTypes, Ranges, Bounded
<1>2. /\ \A g \in gs : /\ g[1] \in Int /\ g[2] \in Int
                       /\ lo <= g[1] /\ g[1] <= g[2] /\ g[2] <= hi
      /\ Ticks(gs) = IF Bridged(manifest, lo, hi) THEN {} ELSE Unrecorded(manifest, lo, hi)
      /\ \A g, h \in gs : g # h => g[2] < h[1] \/ h[2] < g[1]
  BY <1>1, Plan
<1> HIDE DEF lo, hi, gs
<1>3. \A g \in gs, t \in Int : g[1] <= t /\ t <= g[2] => t \in Ticks(gs)
  BY <1>2 DEF Ticks
<1>4. \A t \in Ticks(gs) : t \in Unrecorded(manifest, lo, hi)
  BY <1>2
<1>5. ASSUME NEW g \in gs, NEW r \in manifest, ~Off(g, r)
      PROVE  FALSE
  <2>1. /\ r.lo \in Int /\ r.hi \in Int /\ r.lo <= r.hi
        /\ g[1] <= r.hi /\ r.lo <= g[2]
        /\ g[1] \in Int /\ g[2] \in Int /\ lo <= g[1] /\ g[1] <= g[2] /\ g[2] <= hi
    BY <1>1, <1>2, <1>5 DEF Bounded, Off
  <2>2. CASE r.lo <= g[1]
    <3>1. g[1] \in Unrecorded(manifest, lo, hi)
      BY <1>3, <1>4, <2>1
    <3> QED
      BY <1>1, <2>1, <2>2, <3>1 DEF Unrecorded
  <2>3. CASE g[1] < r.lo
    <3>1. r.lo \in Unrecorded(manifest, lo, hi)
      BY <1>3, <1>4, <2>1, <2>3
    <3> QED
      BY <1>1, <2>1, <2>3, <3>1 DEF Unrecorded
  <2> QED
    BY <2>1, <2>2, <2>3
<1>6. ASSUME NEW o \in history, lo <= StampOf(o), StampOf(o) <= hi,
             ~\E g \in gs : g[1] <= StampOf(o) /\ StampOf(o) <= g[2]
      PROVE  SeenTo(StampOf(o))
  <2>1. StampOf(o) \in Int
    BY <1>1, StampTyped
  <2>2. StampOf(o) \notin Ticks(gs)
    <3> SUFFICES ASSUME NEW g \in gs, StampOf(o) \in g[1]..g[2]
                 PROVE  FALSE
      BY DEF Ticks
    <3> QED
      BY <1>2, <1>6, <2>1
  <2>3. CASE Bridged(manifest, lo, hi)
    <3>1. PICK r, s \in manifest : r.hi < lo /\ hi < s.lo /\ s.lo <= r.hi + BAR
      BY <2>3 DEF Bridged
    <3>2. r.lo \in Int /\ r.hi \in Int /\ r.lo <= r.hi /\ s.lo \in Int
      BY <1>1 DEF Bounded
    <3>3. r.lo - BAR < StampOf(o) /\ StampOf(o) < r.hi + BAR
      BY <1>1, <1>6, <2>1, <3>1, <3>2
    <3> QED
      BY <3>3, NearIsSeen
  <2>4. CASE ~Bridged(manifest, lo, hi)
    <3>1. StampOf(o) \notin Unrecorded(manifest, lo, hi)
      BY <1>2, <2>2, <2>4
    <3>2. PICK r \in manifest : /\ ~(StampOf(o) <= r.lo - BAR) /\ ~(r.hi + BAR <= StampOf(o))
      BY <1>1, <1>6, <2>1, <3>1 DEF Unrecorded
    <3>3. r.lo \in Int /\ r.hi \in Int
      BY <1>1 DEF Bounded
    <3> QED
      BY <1>1, <2>1, <3>2, <3>3, NearIsSeen
  <2> QED
    BY <2>3, <2>4
<1> QED
  BY <1>2, <1>5, <1>6 DEF lo, hi, gs

\* What does not disturb the plan.
LEMMA PlanSame ==
  ASSUME PlanKept, Busy, Busy', UNCHANGED <<venue, history, request, manifest>>,
         swallowed \subseteq swallowed', gaps' \subseteq gaps, Left' = Left,
         \/ saved' = saved /\ (stage' \in {"gap", "fetch"} => stage \in {"gap", "fetch"})
         \/ saved' = manifest
  PROVE  PlanKept'
<1>1. \A s : SeenTo(s) => SeenTo(s)'
  BY DEF SeenTo
<1>2. \A o : StampOf(o)' = StampOf(o)
  BY DEF StampOf, Stamp
<1>3. /\ saved' \subseteq manifest'
      /\ stage' \in {"gap", "fetch"} => saved' = manifest'
      /\ \A g, h \in gaps' : g # h => g[2] < h[1] \/ h[2] < g[1]
      /\ \A g \in Left', r \in manifest' : Off(g, r)
  BY DEF PlanKept
<1>4. ASSUME NEW o \in history', request'.lo <= StampOf(o)', StampOf(o)' <= request'.hi,
             StampOf(o)' <= request'.wall
      PROVE  SeenTo(StampOf(o))' \/ \E g \in Left' : g[1] <= StampOf(o)' /\ StampOf(o)' <= g[2]
  <2>1. SeenTo(StampOf(o)) \/ \E g \in Left : g[1] <= StampOf(o) /\ StampOf(o) <= g[2]
    BY <1>2, <1>4 DEF PlanKept
  <2>2. PICK s : s = StampOf(o) /\ s = StampOf(o)'
    BY <1>2
  <2>3. SeenTo(s) => SeenTo(s)'
    BY <1>1
  <2>4. SeenTo(StampOf(o)) => SeenTo(StampOf(o))'
    BY <2>2, <2>3 DEF SeenTo
  <2> QED
    BY <1>2, <2>1, <2>4
<1> QED
  BY <1>3, <1>4 DEF PlanKept, Off

\* A range within a gap is accepted.
LEMMA InGapAccepted ==
  ASSUME CacheInv, PlanKept, stage = "fetch",
         NEW r \in Ranges, NextGap[1] <= r.lo, r.hi <= NextGap[2]
  PROVE  /\ Accepts(manifest, r)
         /\ \A g \in gaps : g # NextGap => Off(g, r)
<1>1. /\ NextGap \in gaps /\ NextGap[1] \in Int /\ NextGap[2] \in Int
      /\ r.lo \in Int /\ r.hi \in Int /\ r.lo <= r.hi
  BY NextGapIs DEF CacheInv, FetchUnderWay, Ranges
<1>2. \A s \in manifest : s.lo \in Int /\ s.hi \in Int
  BY DEF CacheInv, ProcessTypes, Ranges
<1>3. \A s \in manifest : s.hi < NextGap[1] \/ NextGap[2] < s.lo
  BY <1>1 DEF PlanKept, Busy, Left, Off
<1>4. \A s \in manifest : ~InteriorOverlap(s, r)
  <2> SUFFICES ASSUME NEW s \in manifest, InteriorOverlap(s, r)
               PROVE  FALSE
    OBVIOUS
  <2>1. s.lo < r.hi /\ r.lo < s.hi
    BY DEF InteriorOverlap
  <2> QED
    BY <1>1, <1>2, <1>3, <2>1
<1>5. \A g \in gaps : g # NextGap => g[2] < NextGap[1] \/ NextGap[2] < g[1]
  BY <1>1 DEF PlanKept, Busy
<1>6. \A g \in gaps : g[1] \in Int /\ g[2] \in Int
  BY DEF CacheInv, ProcessTypes, Gaps
<1>7. Accepts(manifest, r)
  <2>1. \A s \in manifest : ~InteriorOverlap(r, s)
    BY <1>4 DEF InteriorOverlap
  <2> QED
    BY <1>1, <1>4, <2>1 DEF Accepts
<1>8. \A g \in gaps : g # NextGap => Off(g, r)
  BY <1>1, <1>5, <1>6 DEF Off
<1> QED
  BY <1>7, <1>8

\* The manifest takes what is fetched for a gap.
LEMMA NeverRejected ==
  ASSUME CacheInv, PlanKept, stage = "fetch", Collected # {}
  PROVE  LET lo    == Min(Stamps(Collected))
             hi    == Max(Stamps(Collected))
             found == Span(lo, hi, "Bars")
             holes == HolesAround(NextGap, lo, hi, request.wall)
         IN  /\ Accepts(manifest, found)
             /\ \A hole \in holes : Accepts(manifest \cup {found}, hole)
             /\ \A g \in gaps : g # NextGap => Off(g, found) /\ \A hole \in holes : Off(g, hole)
<1> DEFINE lo    == Min(Stamps(Collected))
           hi    == Max(Stamps(Collected))
           found == Span(lo, hi, "Bars")
           holes == HolesAround(NextGap, lo, hi, request.wall)
<1>1. /\ lo \in Int /\ hi \in Int /\ lo <= hi
      /\ \E c \in Collected : lo = Stamp(venue, c)
      /\ \E c \in Collected : hi = Stamp(venue, c)
  BY CollectedWhole, StampEdges DEF CacheInv
<1> HIDE DEF lo, hi
<1>2. NextGap[1] <= lo /\ hi <= NextGap[2]
  BY <1>1, CollectedIs
<1>3. BAR \in Nat /\ BAR > 1 /\ NextGap[1] \in Int /\ NextGap[2] \in Int
  BY BarAssumption, NextGapIs DEF CacheInv, FetchUnderWay
<1>4. found \in Ranges /\ found.lo = lo /\ found.hi = hi
  BY <1>1 DEF Span, Ranges, Kinds
<1>5. /\ Accepts(manifest, found)
      /\ \A g \in gaps : g # NextGap => Off(g, found)
  <2> HIDE DEF found
  <2> QED
    BY <1>2, <1>4, InGapAccepted
<1>6. ASSUME NEW hole \in holes
      PROVE  /\ Accepts(manifest \cup {found}, hole)
             /\ \A g \in gaps : g # NextGap => Off(g, hole)
  <2>1. /\ hole \in Ranges
        /\ \/ hole.lo = NextGap[1] /\ hole.hi = lo - BAR
           \/ hole.lo = hi + BAR /\ hole.hi <= NextGap[2]
    BY <1>1, <1>6, Holes
  <2>2. NextGap[1] <= hole.lo /\ hole.hi <= NextGap[2]
    BY <1>1, <1>2, <1>3, <2>1 DEF Ranges
  <2>3. /\ Accepts(manifest, hole)
        /\ \A g \in gaps : g # NextGap => Off(g, hole)
    BY <2>1, <2>2, InGapAccepted
  <2>4. ~InteriorOverlap(hole, found)
    <3>1. ~(found.lo < hole.hi /\ hole.lo < found.hi)
      BY <1>1, <1>3, <1>4, <2>1 DEF Ranges
    <3> QED
      BY <3>1 DEF InteriorOverlap
  <2> QED
    BY <2>3, <2>4 DEF Accepts
<1> QED
  BY <1>5, <1>6 DEF lo, hi

\* Once a gap is done with, nothing closed of it is wanting.
LEMMA GapSeenTo ==
  ASSUME CacheInv, EmptyInv, MexcSteady, stage = "fetch", feed.over,
         NEW o \in history, InGap(StampOf(o)), StampOf(o) <= request.wall
  PROVE  \/ StampOf(o) \in swallowed
         \/ /\ Collected # {}
            /\ Within(StampOf(o), Span(Min(Stamps(Collected)), Max(Stamps(Collected)), "Bars"))
<1>1. StampOf(o) \in Int /\ request.wall \in Int
  BY StampTyped DEF CacheInv, ProcessTypes
<1>2. CASE o \notin Opens(feed.all)
  BY <1>1, <1>2, LackingIsOpen
<1>3. CASE o \in Opens(feed.all)
  <2>1. PICK c \in feed.all : c.open = o
    BY <1>3 DEF Opens
  <2>2. Stamp(venue, c) = StampOf(o)
    BY <2>1, Stamped
  <2>3. c \in Collected
    BY <2>2, CollectedIs DEF InGap
  <2>4. /\ Min(Stamps(Collected)) <= Stamp(venue, c)
        /\ Stamp(venue, c) <= Max(Stamps(Collected))
    BY <2>3, CollectedWhole, StampEdges DEF CacheInv
  <2> QED
    BY <2>2, <2>3, <2>4 DEF Within, Span
<1> QED
  BY <1>2, <1>3

\* A gap done with joins what is seen to.
LEMMA GapDone ==
  ASSUME CacheInv, EmptyInv, PlanKept, MexcSteady, stage = "fetch", feed.over,
         stage' = "recorded", UNCHANGED <<venue, history, saved, request, gaps, swallowed>>,
         NEW new, manifest' = manifest \cup new,
         \A r \in new, g \in gaps : g # NextGap => Off(g, r),
         Collected # {} => Span(Min(Stamps(Collected)), Max(Stamps(Collected)), "Bars") \in new
  PROVE  PlanKept'
<1>1. NextGap' = NextGap
  BY DEF NextGap
<1>2. Left = gaps /\ Left' = gaps \ {NextGap}
  BY <1>1 DEF Left
<1>3. /\ saved' \subseteq manifest'
      /\ \A g, h \in gaps' : g # h => g[2] < h[1] \/ h[2] < g[1]
  BY DEF PlanKept, Busy
<1>4. \A g \in Left', r \in manifest' : Off(g, r)
  BY <1>2 DEF PlanKept, Busy
<1>5. ASSUME NEW o \in history, request.lo <= StampOf(o), StampOf(o) <= request.hi,
             StampOf(o) <= request.wall
      PROVE  SeenTo(StampOf(o))' \/ \E g \in Left' : g[1] <= StampOf(o) /\ StampOf(o) <= g[2]
  <2>1. PICK s : s = StampOf(o) /\ s = StampOf(o)'
    BY DEF StampOf, Stamp
  <2>2. SeenTo(StampOf(o))' <=> SeenTo(s)'
    BY <2>1 DEF SeenTo
  <2>3. CASE SeenTo(s)
    <3>1. SeenTo(s)'
      BY <2>3 DEF SeenTo
    <3> QED
      BY <2>2, <3>1
  <2>4. CASE InGap(s)
    <3>1. \/ s \in swallowed
          \/ Collected # {} /\ Within(s, Span(Min(Stamps(Collected)), Max(Stamps(Collected)), "Bars"))
      BY <1>5, <2>1, <2>4, GapSeenTo
    <3>2. CASE s \in swallowed
      BY <2>2, <3>2 DEF SeenTo
    <3>3. CASE Collected # {} /\ Within(s, Span(Min(Stamps(Collected)), Max(Stamps(Collected)), "Bars"))
      <4>1. PICK r : r = Span(Min(Stamps(Collected)), Max(Stamps(Collected)), "Bars")
        OBVIOUS
      <4>2. r \in manifest' /\ r.kind = "Bars" /\ Within(s, r)
        BY <3>3, <4>1 DEF Span
      <4>3. SeenTo(s)'
        BY <4>2 DEF SeenTo, Within
      <4> QED
        BY <2>2, <4>3
    <3> QED
      BY <3>1, <3>2, <3>3
  <2>5. CASE \E g \in gaps : g # NextGap /\ g[1] <= s /\ s <= g[2]
    BY <1>2, <2>1, <2>5
  <2>6. SeenTo(s) \/ \E g \in gaps : g[1] <= s /\ s <= g[2]
    BY <1>2, <1>5, <2>1 DEF PlanKept, Busy
  <2> QED
    BY <2>3, <2>4, <2>5, <2>6 DEF InGap
<1>6. \A o : StampOf(o)' = StampOf(o)
  BY DEF StampOf, Stamp
<1> QED
  BY <1>3, <1>4, <1>5, <1>6 DEF PlanKept, Off

\* A gap leaves the plan when its bars are recorded, or there are none in it.
LEMMA PlanStep ==
  ASSUME CacheInv, EmptyInv, PlanKept, EdgesAreBars, MexcSteady, [Next]_vars
  PROVE  PlanKept'
<1>1. CASE ~Busy'
  BY <1>1 DEF PlanKept
<1>2. /\ UNCHANGED <<venue, history>> /\ swallowed \subseteq swallowed'
      /\ \A o : StampOf(o)' = StampOf(o)
  BY StepFrame DEF StampOf, Stamp
<1>3. CASE SaveRecovered
  <2>1. /\ stage' = "gap" /\ saved' = manifest /\ manifest' = manifest
        /\ gaps' = MissingGaps(manifest, request.lo, request.hi)
        /\ UNCHANGED <<request, swallowed>>
    BY <1>3 DEF SaveRecovered, budget
  <2>2. Left' = gaps'
    BY <2>1 DEF Left
  <2>3. /\ \A g, h \in gaps' : g # h => g[2] < h[1] \/ h[2] < g[1]
        /\ \A g \in gaps', r \in manifest : Off(g, r)
        /\ \A o \in history :
             request.lo <= StampOf(o) /\ StampOf(o) <= request.hi =>
               SeenTo(StampOf(o)) \/ \E g \in gaps' : g[1] <= StampOf(o) /\ StampOf(o) <= g[2]
    BY <2>1, PlanCovers
  <2>4. \A o : SeenTo(StampOf(o)) <=> SeenTo(StampOf(o))'
    <3> SUFFICES ASSUME NEW CONSTANT o
                 PROVE  SeenTo(StampOf(o)) <=> SeenTo(StampOf(o))'
      OBVIOUS
    <3>1. PICK s : s = StampOf(o) /\ s = StampOf(o)'
      BY <1>2
    <3> QED
      BY <2>1, <3>1 DEF SeenTo, Within
  <2>5. /\ saved' \subseteq manifest'
        /\ stage' \in {"gap", "fetch"} => saved' = manifest'
        /\ \A g \in Left', r \in manifest' : Off(g, r)
    BY <2>1, <2>2, <2>3
  <2>6. \A o \in history' :
          LET s == StampOf(o)'
          IN  request'.lo <= s /\ s <= request'.hi /\ s <= request'.wall =>
                SeenTo(StampOf(o))' \/ \E g \in Left' : g[1] <= s /\ s <= g[2]
    BY <1>2, <2>1, <2>2, <2>3, <2>4
  <2> QED
    BY <2>3, <2>5, <2>6 DEF PlanKept, Off
<1>4. CASE OpenGap \/ FetchPage \/ SwallowError
  <2>1. /\ stage \in {"gap", "fetch"} /\ stage' = "fetch"
        /\ UNCHANGED <<request, manifest, gaps, saved>>
    BY <1>4 DEF OpenGap, FetchPage, SwallowError, disk
  <2>2. Busy /\ Busy' /\ Left' = Left
    BY <2>1 DEF Busy, Left
  <2> QED
    BY <1>2, <2>1, <2>2, PlanSame
<1>5. CASE DropJournal
  <2>1. /\ stage = "recorded" /\ stage' = "dropped"
        /\ UNCHANGED <<request, manifest, gaps, saved>>
    BY <1>5 DEF DropJournal, process
  <2>2. Busy /\ Busy' /\ Left' = Left
    BY <2>1 DEF Busy, Left, NextGap
  <2> QED
    BY <1>2, <2>1, <2>2, PlanSame
<1>6. CASE SaveGap
  <2>1. /\ stage = "dropped" /\ stage' = "gap" /\ saved' = manifest /\ gaps' = gaps \ {NextGap}
        /\ UNCHANGED <<request, manifest>>
    BY <1>6 DEF SaveGap
  <2>2. Busy /\ Busy' /\ Left' = Left
    BY <2>1 DEF Busy, Left
  <2> QED
    BY <1>2, <2>1, <2>2, PlanSame
<1>7. CASE LeaveGap
  <2>1. /\ stage = "fetch" /\ feed.over /\ Collected = {} /\ stage' = "recorded"
        /\ UNCHANGED <<request, manifest, gaps, saved, swallowed>>
    BY <1>7 DEF LeaveGap, budget, disk
  <2>2. manifest' = manifest \cup {}
    BY <2>1
  <2> QED
    BY <1>2, <2>1, <2>2, GapDone
<1>8. CASE RecordGap /\ Busy'
  <2> DEFINE lo    == Min(Stamps(Collected))
             hi    == Max(Stamps(Collected))
             found == Span(lo, hi, "Bars")
             holes == HolesAround(NextGap, lo, hi, request.wall)
  <2>1. /\ stage = "fetch" /\ feed.over /\ Collected # {} /\ stage' = "recorded"
        /\ manifest' = manifest \cup {found} \cup holes
        /\ UNCHANGED <<request, gaps, saved, swallowed>>
    BY <1>8 DEF RecordGap, Return, Busy, budget
  <2>2. \A g \in gaps : g # NextGap => Off(g, found) /\ \A hole \in holes : Off(g, hole)
    BY <2>1, NeverRejected
  <2>3. /\ manifest' = manifest \cup ({found} \cup holes)
        /\ \A r \in {found} \cup holes, g \in gaps : g # NextGap => Off(g, r)
        /\ found \in {found} \cup holes
    <3> HIDE DEF found, holes
    <3> QED
      BY <2>1, <2>2
  <2> QED
    BY <1>2, <2>1, <2>3, GapDone
<1>9. CASE Tick
  <2>1. UNCHANGED <<stage, request, manifest, gaps, saved>>
    BY <1>9 DEF Tick, process, disk
  <2>2. (Busy <=> Busy') /\ Left' = Left
    BY <2>1 DEF Busy, Left, NextGap
  <2> QED
    BY <1>1, <1>2, <2>1, <2>2, PlanSame
<1>10. CASE UNCHANGED vars
  <2>1. UNCHANGED <<stage, request, manifest, gaps, saved>>
    BY <1>10 DEF vars, process, disk
  <2>2. (Busy <=> Busy') /\ Left' = Left
    BY <2>1 DEF Busy, Left, NextGap
  <2> QED
    BY <1>1, <1>2, <2>1, <2>2, PlanSame
<1>11. ASSUME \/ \E w \in Windows : Begin(w)
              \/ DiscardEmptyJournal \/ WriteRecovered \/ RecordRecovered
              \/ ReturnFetchError \/ Assemble \/ FetchFails \/ Crash
       PROVE  ~Busy'
  BY <1>11 DEF Begin, DiscardEmptyJournal, WriteRecovered, RecordRecovered, ReturnFetchError,
               Assemble, Return, FetchFails, Crash, Busy
<1> QED
  BY <1>1, <1>3, <1>4, <1>5, <1>6, <1>7, <1>8, <1>9, <1>10, <1>11 DEF Next, Loader, Recovery, Fetching

\* A range called downloaded is of a chunk's first bar to its last.
LEMMA EdgesStep ==
  ASSUME CacheInv, EdgesAreBars, [Next]_vars
  PROVE  EdgesAreBars'
<1>1. /\ UNCHANGED <<venue, history>>
      /\ \A o : StampOf(o)' = StampOf(o)
  BY StepFrame DEF StampOf, Stamp
<1>2. ASSUME NEW B \in SUBSET Candles, B # {}
      PROVE  \E p, q \in history : Min(Stamps(B)) = StampOf(p) /\ Max(Stamps(B)) = StampOf(q)
  <2>1. PICK c \in B : Min(Stamps(B)) = Stamp(venue, c)
    BY <1>2, StampEdges DEF CacheInv
  <2>2. PICK d \in B : Max(Stamps(B)) = Stamp(venue, d)
    BY <1>2, StampEdges DEF CacheInv
  <2>3. c.open \in history /\ d.open \in history
    BY DEF Candles
  <2>4. Stamp(venue, c) = StampOf(c.open) /\ Stamp(venue, d) = StampOf(d.open)
    BY Stamped
  <2> QED
    BY <2>1, <2>2, <2>3, <2>4
<1> SUFFICES ASSUME NEW r \in saved' \cup manifest', r.kind = "Bars"
             PROVE  \E p, q \in history : r.lo = StampOf(p) /\ r.hi = StampOf(q)
  BY <1>1 DEF EdgesAreBars
<1>3. CASE r \in saved \cup manifest
  BY <1>3 DEF EdgesAreBars
<1>4. CASE /\ RecordRecovered
           /\ r = Span(Min(Stamps(NextJournal.bars)), Max(Stamps(NextJournal.bars)), "Bars")
  <2> DEFINE B == NextJournal.bars
  <2>1. B \in SUBSET Candles /\ B # {}
    BY <1>4, NextJournalIs DEF RecordRecovered, CacheInv, JournalsKept, DiskTypes, ChunkFile
  <2>2. r.lo = Min(Stamps(B)) /\ r.hi = Max(Stamps(B))
    BY <1>4 DEF Span
  <2> HIDE DEF B
  <2> QED
    BY <1>2, <2>1, <2>2
<1>5. CASE RecordGap /\ r = Span(Min(Stamps(Collected)), Max(Stamps(Collected)), "Bars")
  <2>1. Collected \in SUBSET Candles /\ Collected # {}
    BY <1>5, CollectedWhole DEF RecordGap
  <2>2. r.lo = Min(Stamps(Collected)) /\ r.hi = Max(Stamps(Collected))
    BY <1>5 DEF Span
  <2> QED
    BY <1>2, <2>1, <2>2
<1>6. CASE /\ RecordGap
           /\ r \in HolesAround(NextGap, Min(Stamps(Collected)), Max(Stamps(Collected)), request.wall)
  BY <1>6 DEF HolesAround, Span
<1> QED
  BY <1>3, <1>4, <1>5, <1>6, RangesFrom

\* A bar of a range that is read is among those returned.
LEMMA AssembledHas ==
  ASSUME CacheInv, NEW o \in history, NEW r \in ChunksRead, Within(StampOf(o), r),
         request.lo <= StampOf(o), StampOf(o) <= request.hi
  PROVE  o \in Opens(Assembled)
<1> DEFINE Y == {q \in ChunksRead : \E f \in ChunkOf(q) : o \in Opens(f.bars)}
           g == [q \in Y |-> q.lo]
           read == UNION {UNION {{[from |-> q.lo, bar |-> c] : c \in f.bars} : f \in ChunkOf(q)} :
                            q \in ChunksRead}
<1>1. r \in Y
  <2>1. r \in manifest /\ r.kind = "Bars"
    BY DEF ChunksRead
  <2>2. PICK f \in chunks : f.lo = r.lo /\ f.hi = r.hi
    BY <2>1 DEF CacheInv, RangesBacked, Named
  <2>3. o \in Opens(f.bars)
    BY <2>2 DEF CacheInv, ChunksWhole, Within
  <2> QED
    BY <2>2, <2>3 DEF ChunkOf
<1>2. Y \subseteq manifest /\ IsFiniteSet(Y) /\ \A q \in manifest : q.lo \in Int
  <2>1. Y \subseteq manifest
    BY DEF ChunksRead
  <2> QED
    BY <2>1, FS_Subset DEF CacheInv, ProcessTypes, Ranges
<1>3. g \in [Y -> Int]
  BY <1>2
<1>4. PICK q \in Y : \A p \in Y : g[q] <= g[p]
  <2> HIDE DEF Y, g
  <2> QED
    BY <1>1, <1>2, <1>3, FiniteLeast
<1>5. PICK f \in ChunkOf(q) : o \in Opens(f.bars)
  OBVIOUS
<1>6. PICK c \in f.bars : c.open = o
  BY <1>5 DEF Opens
<1> DEFINE y == [from |-> q.lo, bar |-> c]
<1>7. y \in read
  OBVIOUS
<1>8. Stamp(venue, c) \in request.lo..request.hi
  <2>1. Stamp(venue, c) = StampOf(o)
    BY <1>6, Stamped
  <2> QED
    BY <2>1, StampTyped DEF CacheInv, ProcessTypes
<1>9. ASSUME NEW z \in read, z.bar.open = o
      PROVE  q.lo <= z.from
  <2>1. PICK p \in ChunksRead :
          z \in UNION {{[from |-> p.lo, bar |-> d] : d \in h.bars} : h \in ChunkOf(p)}
    BY <1>9
  <2>2. PICK h \in ChunkOf(p) : z \in {[from |-> p.lo, bar |-> d] : d \in h.bars}
    BY <2>1
  <2>3. PICK d \in h.bars : z = [from |-> p.lo, bar |-> d]
    BY <2>2
  <2>4. o \in Opens(h.bars)
    BY <1>9, <2>3 DEF Opens
  <2>5. p \in Y
    BY <2>4
  <2> QED
    BY <1>4, <2>3, <2>5
<1>10. y.bar = c /\ y.from = q.lo
  OBVIOUS
<1>11. c \in Assembled
  <2>1. Assembled = {x.bar : x \in {v \in read :
          /\ Stamp(venue, v.bar) \in request.lo..request.hi
          /\ \A z \in read : z.bar.open = v.bar.open => v.from <= z.from}}
    BY DEF Assembled
  <2> HIDE DEF read, y
  <2> QED
    BY <1>6, <1>7, <1>8, <1>9, <1>10, <2>1
<1> QED
  BY <1>6, <1>11 DEF Opens

\* No step ends a call with less than it was to return.
LEMMA LoadStep ==
  ASSUME CacheInv, EmptyInv, LoadInv, MexcSteady, [Next]_vars
  PROVE  LoadInv'
<1>1. PlanKept' /\ EdgesAreBars'
  BY PlanStep, EdgesStep DEF LoadInv
<1>2. CASE Assemble
  <2>1. /\ stage = "gap" /\ gaps = {} /\ stage' = "idle"
        /\ UNCHANGED <<venue, history, saved, swallowed>>
        /\ outcome'.lo = request.lo /\ outcome'.hi = request.hi /\ outcome'.wall = request.wall
        /\ outcome'.status = "ok" /\ outcome'.bars = Assembled
    <3>1. \A r \in ChunksRead : ChunkOf(r) # {}
      BY DEF ChunksRead, ChunkOf, CacheInv, RangesBacked, Named
    <3> QED
      BY <1>2, <3>1 DEF Assemble, Return, disk, budget
  <2>2. ASSUME NEW o \in history, request.lo <= StampOf(o), StampOf(o) <= request.hi,
               StampOf(o) <= request.wall
        PROVE  o \in Opens(Assembled) \/ StampOf(o) \in swallowed \/ BesideEmptySpan(StampOf(o))
    <3>1. SeenTo(StampOf(o)) /\ saved = manifest
      BY <2>1, <2>2 DEF LoadInv, PlanKept, Busy, Left
    <3>2. CASE \E r \in manifest : r.kind = "Bars" /\ Within(StampOf(o), r)
      <4>1. PICK r \in manifest : r.kind = "Bars" /\ Within(StampOf(o), r)
        BY <3>2
      <4>2. r \in ChunksRead
        <5>1. /\ r.lo \in Int /\ r.hi \in Int /\ request.lo \in Int /\ request.hi \in Int
              /\ StampOf(o) \in Int
          BY StampTyped DEF CacheInv, ProcessTypes, Ranges
        <5> QED
          BY <2>2, <4>1, <5>1 DEF ChunksRead, Within
      <4> QED
        BY <2>2, <4>1, <4>2, AssembledHas
    <3> QED
      BY <3>1, <3>2 DEF SeenTo, BesideEmptySpan
  <2>3. LoadComplete'
    BY <2>1, <2>2 DEF LoadComplete, NeverStuck, StampOf, Stamp, BesideEmptySpan, Within
  <2> QED
    BY <1>1, <2>1, <2>3 DEF LoadInv
<1>3. CASE RecordGap
  <2>1. stage' = "recorded" /\ outcome' = outcome
    <3>1. stage = "fetch" /\ Collected # {}
      BY <1>3 DEF RecordGap
    <3> QED
      BY <1>3, <3>1, NeverRejected DEF RecordGap, LoadInv
  <2>2. outcome = Nothing
    BY <1>3 DEF RecordGap, LoadInv
  <2> QED
    BY <1>1, <2>1, <2>2 DEF LoadInv, LoadComplete, NeverStuck, Nothing
<1>4. CASE outcome' = Nothing
  BY <1>1, <1>4 DEF LoadInv, LoadComplete, NeverStuck, Nothing
<1>5. CASE ReturnFetchError
  <2>1. outcome'.status = "error" /\ stage' = "idle"
    BY <1>5 DEF ReturnFetchError, Return
  <2> QED
    BY <1>1, <2>1 DEF LoadInv, LoadComplete, NeverStuck
<1>6. CASE /\ UNCHANGED outcome
           /\ stage = "idle" => UNCHANGED <<venue, history, saved, swallowed, stage>>
  <2>1. CASE stage = "idle"
    BY <1>1, <1>6, <2>1 DEF LoadInv, LoadComplete, NeverStuck, StampOf, Stamp, BesideEmptySpan, Within
  <2>2. CASE stage # "idle"
    BY <1>4, <1>6, <2>2 DEF LoadInv
  <2> QED
    BY <2>1, <2>2
<1>7. CASE UNCHANGED vars
  BY <1>6, <1>7 DEF vars, disk, budget
<1>8. CASE Next /\ ~Assemble /\ ~RecordGap /\ ~ReturnFetchError
  <2>1. \/ outcome' = Nothing
        \/ /\ UNCHANGED outcome
           /\ stage = "idle" => UNCHANGED <<venue, history, saved, swallowed, stage>>
    BY <1>8
       DEF Next, Begin, Loader, Recovery, Fetching, DiscardEmptyJournal, WriteRecovered,
           RecordRecovered, SaveRecovered, OpenGap, FetchPage, LeaveGap, DropJournal,
           SaveGap, SwallowError, FetchFails, Crash, Tick, disk, budget
  <2> QED
    BY <1>4, <1>6, <2>1
<1> QED
  BY <1>2, <1>3, <1>5, <1>7, <1>8

\* No call has ended at first.
LEMMA LoadInitial == CacheInit => LoadInv
  BY DEF CacheInit, Init, LoadInv, PlanKept, Busy, EdgesAreBars, LoadComplete, NeverStuck, Nothing

\* A call never fails for what an earlier one left behind, and one that succeeds
\* returns every bar the venue had closed in its window when it began, after
\* any crashes, failed downloads and earlier windows (load_bars).
THEOREM LoadIsComplete ==
  ASSUME MexcSteady
  PROVE  CacheSpec => []LoadComplete
<1>1. EmptyInv /\ CacheInv /\ [CacheNext]_cacheVars => EmptyInv'
  BY CacheStep, EmptyStep
<1>2. LoadInv /\ EmptyInv /\ CacheInv /\ [CacheNext]_cacheVars => LoadInv'
  BY CacheStep, LoadStep
<1>3. LoadInv => LoadComplete
  BY DEF LoadInv
<1> QED
  BY <1>1, <1>2, <1>3, CacheKept, EmptyInitial, LoadInitial, PTL DEF CacheSpec

-----------------------------------------------------------------------------
(* The other cache: what a page of the newest candles has                   *)

\* A candle that is among the newest at some time was so before, once it had
\* begun.
LEMMA NewestBefore ==
  ASSUME NEW H, Candled(H), NEW n \in Int, NEW m \in Int, n <= m,
         NEW o \in Opens(Newest(CandlesAt(H, m))), o <= n
  PROVE  o \in Opens(Newest(CandlesAt(H, n)))
<1> DEFINE C == CandlesAt(H, n)
           D == CandlesAt(H, m)
<1>1. /\ IsFiniteSet(C) /\ \A c \in C : c.open \in H /\ c.open \in Nat /\ c.open <= n
      /\ \A c, d \in C : c.open = d.open => c = d
      /\ \A p \in H : p <= n => \E c \in C : c.open = p
  BY CandlesKnown
<1>2. /\ IsFiniteSet(D) /\ \A c \in D : c.open \in H /\ c.open \in Nat
      /\ \A p \in H : p <= m => \E c \in D : c.open = p
  BY CandlesKnown
<1> HIDE DEF C, D
<1>3. PICK c \in Newest(D) : c.open = o
  BY DEF Opens, D
<1>4. c \in D /\ Cardinality({d \in D : d.open > o}) < Limit
  BY <1>3 DEF Newest
<1>5. PICK b \in C : b.open = o
  BY <1>1, <1>2, <1>3, <1>4
<1> DEFINE S == {d \in C : d.open > o}
           T == {d \in D : d.open > o}
           f == [d \in S |-> CHOOSE e \in D : e.open = d.open]
<1>6. \A d \in S : f[d] \in D /\ f[d].open = d.open
  <2> SUFFICES ASSUME NEW d \in S
               PROVE  f[d] \in D /\ f[d].open = d.open
    OBVIOUS
  <2>1. d.open \in H /\ d.open \in Int /\ d.open <= n
    BY <1>1
  <2>2. d.open <= m
    BY <2>1
  <2>3. \E e \in D : e.open = d.open
    BY <1>2, <2>1, <2>2
  <2> QED
    BY <2>3
<1>7. f \in [S -> T]
  BY <1>6
<1>8. \A d, e \in S : f[d] = f[e] => d = e
  <2> SUFFICES ASSUME NEW d \in S, NEW e \in S, f[d] = f[e]
               PROVE  d = e
    OBVIOUS
  <2>1. d.open = e.open
    BY <1>6
  <2> QED
    BY <1>1, <2>1
<1>9. IsFiniteSet(T) /\ IsFiniteSet(S)
  BY <1>1, <1>2, FS_Subset
<1>10. f \in Injection(S, T)
  <2>1. DOMAIN f = S
    OBVIOUS
  <2> HIDE DEF f
  <2> QED
    BY <1>7, <1>8, <2>1 DEF Injection, IsInjective
<1>11. Cardinality(S) <= Cardinality(T) /\ Cardinality(S) \in Nat /\ Cardinality(T) \in Nat
  <2> HIDE DEF f, S, T
  <2> QED
    BY <1>9, <1>10, FS_Injection, FS_CardinalityType
<1>12. Cardinality(S) < Limit
  BY <1>4, <1>11, LimitAssumption
<1>13. b \in Newest(C)
  BY <1>5, <1>12 DEF Newest
<1> QED
  BY <1>5, <1>13 DEF Opens, C

\* What a page of the newest candles has.
LEMMA RecentPage ==
  ASSUME WorldTypes, NEW from \in Int, from <= now
  PROVE  LET page == Parsed(venue, Newest(CandlesAt(history, now)))
         IN  /\ page \subseteq Candles /\ Fetched(page)
             /\ Whole(history, Opens(page))
             /\ \A o \in history :
                  o + BAR <= from /\ o \in Opens(Newest(CandlesAt(history, LastNow))) =>
                    o \in Opens(page)
<1> DEFINE C    == CandlesAt(history, now)
           page == Parsed(venue, Newest(C))
<1>1. /\ Candled(history) /\ now \in Int /\ LastNow \in Int /\ now <= LastNow
      /\ BAR \in Nat /\ BAR > 1
  BY CacheAssumption, BarAssumption DEF WorldTypes
<1>2. \A o \in history : o \in Nat /\ \A p \in history : o < p => o + BAR <= p
  BY <1>1 DEF Candled
<1>3. /\ IsFiniteSet(C) /\ C \subseteq Candles
      /\ \A c \in C : c.open \in history /\ c.open \in Nat /\ c.open <= now
      /\ \A c \in C : c.open + BAR <= now => c.done
      /\ \A o \in history : o <= now => \E c \in C : c.open = o
  BY <1>1, CandlesKnown DEF Candles
<1> HIDE DEF C
<1>4. /\ Newest(C) \subseteq C
      /\ \A c \in Newest(C), d \in C : c.open <= d.open => d \in Newest(C)
  BY <1>3, NewestAbove
<1>5. page = {c \in Newest(C) : venue = "okx" => c.done}
  BY DEF Parsed, OkxParsed
<1> HIDE DEF page
<1>6. page \subseteq Candles /\ Fetched(page)
  BY <1>3, <1>4, <1>5 DEF Fetched
<1>7. Whole(history, Opens(page))
  <2> SUFFICES ASSUME NEW o \in history, NEW a \in page, NEW b \in page, a.open <= o, o <= b.open
               PROVE  \E c \in page : c.open = o
    <3>1. \A p \in Opens(page) : p \in Nat
      BY <1>3, <1>4, <1>5 DEF Opens
    <3> QED
      BY <1>2, <3>1 DEF Whole, Opens
  <2>1. a \in Newest(C) /\ a.open \in Nat /\ b.open \in Nat /\ b.open \in history /\ b.open <= now
    BY <1>3, <1>4, <1>5
  <2>2. PICK c \in C : c.open = o
    BY <1>1, <1>2, <1>3, <2>1
  <2>3. c \in Newest(C)
    BY <1>4, <2>1, <2>2
  <2>4. CASE o = b.open
    BY <2>4
  <2>5. CASE o < b.open
    <3>1. o + BAR <= now
      BY <1>1, <1>2, <2>1, <2>5
    <3>2. c.done
      BY <1>3, <2>2, <3>1
    <3> QED
      BY <1>5, <2>2, <2>3, <3>2
  <2> QED
    BY <1>2, <2>1, <2>4, <2>5
<1>8. ASSUME NEW o \in history, o + BAR <= from, o \in Opens(Newest(CandlesAt(history, LastNow)))
      PROVE  o \in Opens(page)
  <2>1. o + BAR <= now /\ o <= now
    BY <1>1, <1>2, <1>8
  <2>2. o \in Opens(Newest(C))
    BY <1>1, <1>8, <2>1, NewestBefore DEF C
  <2>3. PICK c \in Newest(C) : c.open = o
    BY <2>2 DEF Opens
  <2>4. c.done
    BY <1>3, <1>4, <2>1, <2>3
  <2> QED
    BY <1>5, <2>3, <2>4 DEF Opens
<1> QED
  BY <1>6, <1>7, <1>8 DEF page, C

-----------------------------------------------------------------------------
(* The other cache: its invariant                                           *)

SpecRecord == [path : Nat, instrument : Nat, scale : Nat, from : Nat, to : Nat, recent : BOOLEAN]

\* What a partition is to be, and that the bars are what the call asked for.
Sound(file) ==
  /\ Unbroken(file)
  /\ file.clean => Complete(file)
  /\ venue = "okx" => \A c \in file.candles : c.done

Fitting(bars, call) ==
  \A b \in bars : \E spec \in Range(call) : b.instrument = spec.instrument /\ b.scale = spec.scale

\* The specs left of a call are among its specs.
CallTypes ==
  /\ todo \in Seq(SpecRecord) /\ specs \in Seq(SpecRecord)
  /\ Range(todo) \subseteq Range(specs)
  /\ DOMAIN files = Paths
  /\ at = "paging" => todo # << >>

\* A feed for a window pages as BarCache's does; one for the newest candles
\* has them, or nothing yet.
PagesKept(f, spec, w, spoilt) ==
  /\ f \in FeedState(history) /\ Fetched(f.all) /\ Whole(history, Opens(f.all))
  /\ ~spec.recent =>
       /\ Paging(venue, history, w, f)
       /\ f.start = spec.from /\ f.end = spec.to
       /\ f.over /\ ~spoilt => Drained(venue, history, w, f)
  /\ spec.recent /\ f.over /\ ~spoilt =>
       \A o \in history :
         o + BAR <= w /\ o \in Opens(Newest(CandlesAt(history, LastNow))) => o \in Opens(f.all)

PagingKept ==
  at = "paging" => began \in Int /\ began <= now /\ PagesKept(pager, Wanted, began, spoiled)

\* And what the files and the answers have to be.
PartitionInv ==
  /\ CallTypes /\ PagingKept
  /\ \A p \in Paths : Cached(p) => Sound(files[p])
  /\ Fitting(merged, specs)
  /\ answer.status = "ok" => Fitting(answer.bars, answer.specs)

\* What is left of the call begins with a spec of it.
LEMMA WantedIs ==
  ASSUME CallTypes, todo # << >>
  PROVE  /\ Wanted \in Range(specs) /\ Wanted \in SpecRecord
         /\ Tail(todo) \in Seq(SpecRecord) /\ Range(Tail(todo)) \subseteq Range(specs)
<1>1. todo \in Seq(SpecRecord) /\ Len(todo) \in Nat /\ Len(todo) >= 1 /\ DOMAIN todo = 1..Len(todo)
  BY DEF CallTypes
<1>2. Wanted = todo[1] /\ 1 \in DOMAIN todo
  BY <1>1 DEF Wanted
<1>3. Wanted \in Range(todo) /\ Wanted \in SpecRecord
  BY <1>1, <1>2 DEF Range
<1>4. Tail(todo) \in Seq(SpecRecord)
  BY <1>1
<1>5. Range(Tail(todo)) \subseteq Range(todo)
  <2> SUFFICES ASSUME NEW i \in DOMAIN Tail(todo)
               PROVE  Tail(todo)[i] \in Range(todo)
    BY DEF Range
  <2>1. /\ i \in 1..(Len(todo) - 1)
        /\ Tail(todo)[i] = todo[i + 1]
    BY <1>1
  <2>2. i + 1 \in DOMAIN todo
    BY <1>1, <2>1
  <2> QED
    BY <2>1, <2>2 DEF Range
<1> QED
  BY <1>3, <1>4, <1>5 DEF CallTypes

\* A file written keeps the others as they were.
LEMMA WritePartitionKeeps ==
  ASSUME PartitionInv, NEW candles, NEW clean, WritePartition(candles, clean), UNCHANGED vars,
         at = "paging", Sound([spec |-> Wanted, candles |-> candles, began |-> began, clean |-> clean])
  PROVE  PartitionInv'
<1> DEFINE new == [spec |-> Wanted, candles |-> candles, began |-> began, clean |-> clean]
<1>1. /\ files' = [files EXCEPT ![Wanted.path] = new] /\ at' = "next"
      /\ UNCHANGED <<specs, todo, merged, answer>>
  BY DEF WritePartition
<1>2. \A f : Sound(f)' <=> Sound(f)
  BY DEF vars, Sound, Unbroken, Complete
<1>3. PICK n : n = new
  OBVIOUS
<1>4. Sound(n)
  BY <1>3
<1>5. \A p \in Paths : files'[p] = files[p] \/ files'[p] = n
  BY <1>1, <1>3 DEF PartitionInv, CallTypes
<1>6. \A p \in Paths : Cached(p)' => Sound(files[p])'
  <2> SUFFICES ASSUME NEW p \in Paths, Cached(p)'
               PROVE  Sound(files[p])'
    OBVIOUS
  <2>1. PICK f : f = files'[p]
    OBVIOUS
  <2>2. Sound(f)
    <3>1. CASE f = n
      BY <1>4, <3>1
    <3>2. CASE f # n
      BY <1>5, <2>1, <3>2 DEF PartitionInv, Cached
    <3> QED
      BY <3>1, <3>2
  <2>3. Sound(f)'
    BY <1>2, <2>2
  <2> QED
    BY <2>1, <2>3 DEF Sound, Unbroken, Complete
<1>7. CallTypes'
  BY <1>1 DEF PartitionInv, CallTypes
<1>8. PagingKept'
  BY <1>1 DEF PagingKept, PagesKept
<1>9. Fitting(merged, specs)' /\ (answer'.status = "ok" => Fitting(answer.bars, answer.specs)')
  BY <1>1 DEF PartitionInv, Fitting
<1> QED
  BY <1>6, <1>7, <1>8, <1>9 DEF PartitionInv

\* What a feed yields, whether it ended or broke off, has no hole.
LEMMA YieldedSound ==
  ASSUME WorldTypes, NEW f \in FeedState(history), Fetched(f.all), Whole(history, Opens(f.all)),
         NEW file, file.candles = Yielded(venue, f), ~file.clean
  PROVE  Sound(file)
<1>1. \A c \in f.all : c.open \in Nat /\ (venue = "okx" => c.done)
  BY DEF FeedState, WorldTypes, Candled, Fetched
<1>2. file.candles \subseteq f.all
  BY DEF Yielded
<1>3. f.start \in Int /\ f.end \in Int /\ \A o \in history : o \in Nat
  BY DEF FeedState, WorldTypes, Candled
<1>4. Unbroken(file)
  <2> SUFFICES ASSUME NEW o \in history, NEW c \in file.candles, NEW d \in file.candles,
                      c.open < o, o < d.open
               PROVE  o \in Opens(file.candles)
    BY DEF Unbroken
  <2>1. /\ c \in f.all /\ d \in f.all /\ c.open \in Nat /\ d.open \in Nat /\ o \in Nat
        /\ c.open \in Opens(f.all) /\ d.open \in Opens(f.all)
    BY <1>1, <1>2, <1>3 DEF Opens
  <2>2. o \in Opens(f.all)
    BY <2>1 DEF Whole
  <2>3. PICK e \in f.all : e.open = o
    BY <2>2 DEF Opens
  <2>4. e \in file.candles
    BY <1>3, <2>1, <2>3 DEF Yielded
  <2> QED
    BY <2>3, <2>4 DEF Opens
<1> QED
  BY <1>1, <1>2, <1>4 DEF Sound

\* One that ended has all of its window that was closed when it began.
LEMMA DrainedComplete ==
  ASSUME WorldTypes, NEW w \in Int, NEW f \in FeedState(history), Drained(venue, history, w, f),
         NEW spec, spec.from = f.start, spec.to = f.end, ~spec.recent
  PROVE  Complete([spec |-> spec, candles |-> Yielded(venue, f), began |-> w, clean |-> TRUE])
<1>1. Candled(history) /\ \A o \in history : o \in Nat
  BY DEF WorldTypes, Candled
<1>2. BAR \in Nat /\ BAR > 1 /\ f.start \in Int /\ f.end \in Int
  BY BarAssumption DEF FeedState
<1> SUFFICES ASSUME NEW c \in CandlesAt(history, w), c.done, c.open \in f.start..f.end - 1
             PROVE  c.open \in Opens(Yielded(venue, f))
  BY DEF Complete
<1>3. c.open \in history /\ c.open \in Nat /\ c.open + BAR <= w
  BY <1>1, CandlesKnown
<1>4. c.open \in Opens(f.all)
  BY <1>2, <1>3 DEF Drained
<1>5. PICK d \in f.all : d.open = c.open
  BY <1>4 DEF Opens
<1>6. d \in Yielded(venue, f)
  BY <1>2, <1>5 DEF Yielded
<1> QED
  BY <1>5, <1>6 DEF Opens

\* A page of the newest candles has those that were closed when it was asked for.
LEMMA RecentComplete ==
  ASSUME WorldTypes, NEW w \in Int, NEW candles, NEW spec, spec.recent,
         \A o \in history :
           o + BAR <= w /\ o \in Opens(Newest(CandlesAt(history, LastNow))) => o \in Opens(candles)
  PROVE  Complete([spec |-> spec, candles |-> candles, began |-> w, clean |-> TRUE])
<1>1. Candled(history)
  BY DEF WorldTypes
<1> SUFFICES ASSUME NEW c \in CandlesAt(history, w), c.done,
                    c.open \in Opens(Newest(CandlesAt(history, LastNow)))
             PROVE  c.open \in Opens(candles)
  BY DEF Complete
<1>2. c.open \in history /\ c.open + BAR <= w
  BY <1>1, CandlesKnown
<1> QED
  BY <1>2

\* Such a page has no hole.
LEMMA RecentSound ==
  ASSUME WorldTypes, NEW file, file.candles \subseteq Candles, Fetched(file.candles),
         Whole(history, Opens(file.candles)), ~file.clean
  PROVE  Sound(file)
<1>1. \A c \in file.candles : c.open \in Nat /\ (venue = "okx" => c.done)
  BY DEF Candles, WorldTypes, Candled, Fetched
<1>2. Unbroken(file)
  <2> SUFFICES ASSUME NEW o \in history, NEW c \in file.candles, NEW d \in file.candles,
                      c.open < o, o < d.open
               PROVE  o \in Opens(file.candles)
    BY DEF Unbroken
  <2>1. /\ c.open \in Nat /\ d.open \in Nat /\ o \in Nat
        /\ c.open \in Opens(file.candles) /\ d.open \in Opens(file.candles)
    BY <1>1 DEF Opens, WorldTypes, Candled
  <2> QED
    BY <2>1 DEF Whole
<1> QED
  BY <1>1, <1>2 DEF Sound

\* A file that was not cut short is sound if the cut one would be, and it is
\* complete.
LEMMA CleanSound ==
  ASSUME NEW spec, NEW candles, NEW w, NEW clean \in BOOLEAN,
         Sound([spec |-> spec, candles |-> candles, began |-> w, clean |-> FALSE]),
         clean => Complete([spec |-> spec, candles |-> candles, began |-> w, clean |-> TRUE])
  PROVE  Sound([spec |-> spec, candles |-> candles, began |-> w, clean |-> clean])
  BY DEF Sound, Unbroken, Complete

\* A download that breaks off is cached with the pages its connector keeps.
LEMMA GiveUpKeeps ==
  ASSUME CacheInv, PartitionInv, GiveUp, UNCHANGED vars
  PROVE  PartitionInv'
<1>1. PICK trouble : at = "paging" /\ WritePartition(KeptBy(trouble), FALSE)
  BY DEF GiveUp
<1>2. /\ WorldTypes /\ pager \in FeedState(history) /\ Fetched(pager.all)
      /\ Whole(history, Opens(pager.all))
  BY <1>1 DEF CacheInv, PartitionInv, PagingKept, PagesKept
<1> DEFINE new == [spec |-> Wanted, candles |-> KeptBy(trouble), began |-> began, clean |-> FALSE]
<1>3. Sound(new)
  <2>1. CASE KeptBy(trouble) = {}
    BY <2>1 DEF Sound, Unbroken
  <2>2. CASE KeptBy(trouble) = Yielded(venue, pager)
    <3>1. new.candles = Yielded(venue, pager) /\ ~new.clean
      BY <2>2
    <3> HIDE DEF new
    <3> QED
      BY <1>2, <3>1, YieldedSound
  <2> QED
    BY <2>1, <2>2 DEF KeptBy, OkxKeeps, MexcKeeps, BinanceKeeps
<1> QED
  BY <1>1, <1>3, WritePartitionKeeps

\* One that ends is cached whole.
LEMMA CacheDrainedKeeps ==
  ASSUME CacheInv, PartitionInv, CacheDrained, UNCHANGED vars
  PROVE  PartitionInv'
<1> DEFINE candles == IF Wanted.recent THEN pager.all ELSE Yielded(venue, pager)
           cut     == [spec |-> Wanted, candles |-> candles, began |-> began, clean |-> FALSE]
<1>1. /\ at = "paging" /\ pager.over
      /\ WritePartition(candles, ~spoiled)
  BY DEF CacheDrained
<1>2. /\ WorldTypes /\ pager \in FeedState(history) /\ Fetched(pager.all) /\ began \in Int
      /\ Whole(history, Opens(pager.all))
  BY <1>1 DEF CacheInv, PartitionInv, PagingKept, PagesKept
<1>3. Wanted \in SpecRecord
  BY <1>1, WantedIs DEF PartitionInv, CallTypes
<1>4. Sound(cut)
  <2>1. CASE Wanted.recent
    <3>1. cut.candles = pager.all /\ ~cut.clean /\ pager.all \subseteq Candles
      BY <1>2, <2>1 DEF FeedState, Candles
    <3> HIDE DEF cut
    <3> QED
      BY <1>2, <3>1, RecentSound
  <2>2. CASE ~Wanted.recent
    <3>1. cut.candles = Yielded(venue, pager) /\ ~cut.clean
      BY <2>2
    <3> HIDE DEF cut
    <3> QED
      BY <1>2, <3>1, YieldedSound
  <2> QED
    BY <2>1, <2>2
<1>5. ASSUME ~spoiled
      PROVE  Complete([spec |-> Wanted, candles |-> candles, began |-> began, clean |-> TRUE])
  <2>1. CASE Wanted.recent
    <3>1. \A o \in history :
            o + BAR <= began /\ o \in Opens(Newest(CandlesAt(history, LastNow))) =>
              o \in Opens(pager.all)
      BY <1>1, <1>5, <2>1 DEF PartitionInv, PagingKept, PagesKept
    <3>2. candles = pager.all
      BY <2>1
    <3> HIDE DEF candles
    <3> QED
      BY <1>2, <2>1, <3>1, <3>2, RecentComplete
  <2>2. CASE ~Wanted.recent
    <3>1. /\ Drained(venue, history, began, pager)
          /\ pager.start = Wanted.from /\ pager.end = Wanted.to
      BY <1>1, <1>5, <2>2 DEF PartitionInv, PagingKept, PagesKept
    <3>2. candles = Yielded(venue, pager)
      BY <2>2
    <3> HIDE DEF candles
    <3> QED
      BY <1>2, <2>2, <3>1, <3>2, DrainedComplete
  <2> QED
    BY <2>1, <2>2
<1>6. Sound([spec |-> Wanted, candles |-> candles, began |-> began, clean |-> ~spoiled])
  <2> HIDE DEF candles
  <2> QED
    BY <1>4, <1>5, CleanSound
<1> HIDE DEF candles
<1> QED
  BY <1>1, <1>6, WritePartitionKeeps

\* Outside the download of a file there is nothing to keep of one.
LEMMA CallKeeps ==
  ASSUME PartitionInv, UNCHANGED vars, UNCHANGED files, at' # "paging",
         CallTypes', Fitting(merged', specs'),
         answer'.status = "ok" => Fitting(answer'.bars, answer'.specs)
  PROVE  PartitionInv'
<1>1. \A f : Sound(f)' <=> Sound(f)
  BY DEF vars, Sound, Unbroken, Complete
<1>2. \A p \in Paths : Cached(p)' => Sound(files[p])'
  <2> SUFFICES ASSUME NEW p \in Paths, Cached(p)'
               PROVE  Sound(files[p])'
    OBVIOUS
  <2>1. PICK f : f = files[p]
    OBVIOUS
  <2>2. Sound(f)'
    BY <1>1, <2>1 DEF PartitionInv, Cached
  <2> QED
    BY <2>1, <2>2 DEF Sound, Unbroken, Complete
<1>3. PagingKept'
  BY DEF PagingKept, PagesKept
<1>4. Fitting(merged, specs)' /\ (answer'.status = "ok" => Fitting(answer.bars, answer.specs)')
  BY DEF Fitting
<1> QED
  BY <1>2, <1>3, <1>4 DEF PartitionInv

\* A call that ends, or dies, keeps what it cached.
LEMMA EndedKeeps ==
  ASSUME PartitionInv, UNCHANGED vars, UNCHANGED files, Idle,
         answer'.status = "ok" => Fitting(answer'.bars, answer'.specs)
  PROVE  PartitionInv'
<1>1. CallTypes' /\ at' # "paging" /\ Fitting(merged', specs')
  BY DEF Idle, PartitionInv, CallTypes, Fitting, Range
<1> QED
  BY <1>1, CallKeeps

\* A call begins with its specs.
LEMMA LoadOrCacheManyKeeps ==
  ASSUME PartitionInv, UNCHANGED vars, NEW call \in Pulls, LoadOrCacheMany(call)
  PROVE  PartitionInv'
<1>1. call \in Seq(SpecRecord)
  BY PullsAssumption DEF SpecRecord
<1>2. CallTypes' /\ Fitting(merged', specs')
  BY <1>1 DEF LoadOrCacheMany, PartitionInv, CallTypes, Fitting
<1> QED
  BY <1>2, CallKeeps DEF LoadOrCacheMany, NoAnswer

\* What is read of a file is of the instrument and the scale of the spec.
LEMMA ReadPartitionKeeps ==
  ASSUME PartitionInv, UNCHANGED vars, ReadPartition
  PROVE  PartitionInv'
<1>1. Wanted \in Range(specs) /\ Tail(todo) \in Seq(SpecRecord) /\ Range(Tail(todo)) \subseteq Range(specs)
  BY WantedIs DEF ReadPartition, PartitionInv
<1>2. CallTypes'
  BY <1>1 DEF ReadPartition, PartitionInv, CallTypes
<1>3. Fitting(BarsOf(files[Wanted.path]), specs)
  BY <1>1 DEF ReadPartition, Fits, BarsOf, Fitting
<1>4. Fitting(merged', specs')
  BY <1>3 DEF ReadPartition, PartitionInv, Fitting
<1>5. answer'.status = "ok" => Fitting(answer'.bars, answer'.specs)
  BY DEF ReadPartition, PartitionInv
<1> QED
  BY <1>2, <1>4, <1>5, CallKeeps DEF ReadPartition

\* A call returns what it has read, or an error.
LEMMA ReturnsKeeps ==
  ASSUME PartitionInv, UNCHANGED vars, RejectPartition \/ ReturnMerged
  PROVE  PartitionInv'
<1>1. answer'.status = "ok" => Fitting(answer'.bars, answer'.specs)
  BY DEF RejectPartition, ReturnMerged, Returns, PartitionInv, Fitting
<1> QED
  BY <1>1, EndedKeeps DEF RejectPartition, ReturnMerged, Returns

\* A process that dies leaves the files it has renamed into place.
LEMMA DieKeeps ==
  ASSUME PartitionInv, UNCHANGED vars, Die
  PROVE  PartitionInv'
  BY EndedKeeps DEF Die, NoAnswer

\* A step that changes the feed and no file.
LEMMA FeedKeeps ==
  ASSUME PartitionInv, UNCHANGED vars, UNCHANGED <<files, specs, todo, merged, answer>>,
         at' = "paging", todo # << >>, began' \in Int, began' <= now,
         PagesKept(pager', Wanted, began', spoiled')
  PROVE  PartitionInv'
<1>1. CallTypes'
  BY DEF PartitionInv, CallTypes
<1>2. Wanted' = Wanted
  BY DEF Wanted
<1>3. UNCHANGED <<venue, history, now>>
  BY DEF vars
<1>4. PagingKept'
  <2>1. PICK f, w, spoilt : f = pager' /\ w = began' /\ spoilt = spoiled'
    OBVIOUS
  <2>2. PagesKept(f, Wanted, w, spoilt)
    BY <2>1
  <2>3. Fetched(pager.all)'
    BY <1>3, <2>1, <2>2 DEF PagesKept, Fetched
  <2> QED
    BY <1>2, <1>3, <2>1, <2>2, <2>3 DEF PagingKept, PagesKept
<1>5. \A f : Sound(f)' <=> Sound(f)
  BY DEF vars, Sound, Unbroken, Complete
<1>6. \A p \in Paths : Cached(p)' => Sound(files[p])'
  <2> SUFFICES ASSUME NEW p \in Paths, Cached(p)'
               PROVE  Sound(files[p])'
    OBVIOUS
  <2>1. PICK f : f = files[p]
    OBVIOUS
  <2>2. Sound(f)'
    BY <1>5, <2>1 DEF PartitionInv, Cached
  <2> QED
    BY <2>1, <2>2 DEF Sound, Unbroken, Complete
<1>7. Fitting(merged, specs)' /\ (answer'.status = "ok" => Fitting(answer.bars, answer.specs)')
  BY DEF PartitionInv, Fitting
<1> QED
  BY <1>1, <1>4, <1>6, <1>7 DEF PartitionInv

\* A feed just opened has nothing yet.
LEMMA OpenPartitionFeedKeeps ==
  ASSUME CacheInv, PartitionInv, UNCHANGED vars, OpenPartitionFeed
  PROVE  PartitionInv'
<1>1. /\ pager' = OpenFeed(venue, Wanted.from, Wanted.to) /\ began' = now /\ at' = "paging"
      /\ todo # << >> /\ UNCHANGED <<files, specs, todo, merged, answer>>
  BY DEF OpenPartitionFeed
<1>2. Wanted \in SpecRecord
  BY <1>1, WantedIs DEF PartitionInv
<1>3. venue \in Venues /\ Candled(history) /\ now \in Int
  BY DEF CacheInv, WorldTypes
<1>4. PICK f, spec, w, spoilt : f = pager' /\ spec = Wanted /\ w = now /\ spoilt = spoiled'
  OBVIOUS
<1>5. /\ Paging(venue, history, w, f) /\ f.start = spec.from /\ f.end = spec.to
      /\ f.all = {} /\ ~f.over
  BY <1>1, <1>2, <1>3, <1>4, FeedOpened DEF SpecRecord
<1>6. PagesKept(f, spec, w, spoilt)
  BY <1>5 DEF PagesKept, Paging, Fetched, Whole, Opens
<1> QED
  BY <1>1, <1>3, <1>4, <1>6, FeedKeeps

\* A page of a window moves its loop on; one of the newest candles is the answer.
LEMMA PageArrivesKeeps ==
  ASSUME CacheInv, PartitionInv, UNCHANGED vars, PageArrives
  PROVE  PartitionInv'
<1>1. /\ at = "paging" /\ at' = "paging" /\ todo # << >>
      /\ pager' = PagerAfter(Parsed(venue, PageOf(CandlesAt(history, now))))
      /\ UNCHANGED <<files, specs, todo, merged, began, spoiled, answer>>
  BY DEF PageArrives, PartitionInv, CallTypes
<1>2. WorldTypes /\ venue \in Venues /\ Candled(history) /\ now \in Int
  BY DEF CacheInv, WorldTypes
<1>3. /\ began \in Int /\ began <= now
      /\ pager \in FeedState(history) /\ Fetched(pager.all) /\ Whole(history, Opens(pager.all))
      /\ ~Wanted.recent =>
           Paging(venue, history, began, pager) /\ pager.start = Wanted.from /\ pager.end = Wanted.to
  BY <1>1 DEF PartitionInv, PagingKept, PagesKept
<1>4. Wanted \in SpecRecord
  BY <1>1, WantedIs DEF PartitionInv
<1>5. PICK g, spec, w, spoilt : g = pager' /\ spec = Wanted /\ w = began /\ spoilt = spoiled
  OBVIOUS
<1>6. ASSUME spec.recent
      PROVE  PagesKept(g, spec, w, spoilt)
  <2> DEFINE page == Parsed(venue, Newest(CandlesAt(history, now)))
  <2>1. /\ page \subseteq Candles /\ Fetched(page) /\ Whole(history, Opens(page))
        /\ \A o \in history :
             o + BAR <= w /\ o \in Opens(Newest(CandlesAt(history, LastNow))) => o \in Opens(page)
    BY <1>2, <1>3, <1>5, RecentPage
  <2>2. g = [pager EXCEPT !.all = page, !.over = TRUE]
    BY <1>1, <1>5, <1>6 DEF PagerAfter, PageOf
  <2> HIDE DEF page
  <2>3. g \in FeedState(history) /\ g.all = page
    BY <1>3, <2>1, <2>2 DEF FeedState, Candles
  <2> QED
    BY <1>6, <2>1, <2>3 DEF PagesKept
<1>7. ASSUME ~spec.recent
      PROVE  PagesKept(g, spec, w, spoilt)
  <2>1. PICK f : f = pager
    OBVIOUS
  <2>2. /\ f \in FeedState(history) /\ Fetched(f.all)
        /\ Paging(venue, history, w, f) /\ f.start = spec.from /\ f.end = spec.to
    BY <1>3, <1>5, <1>7, <2>1
  <2> DEFINE page == PageAt(venue, history, now, f)
  <2>3. g = Paged(venue, f, page)
    BY <1>1, <1>5, <1>7, <2>1 DEF PagerAfter, PageOf, PageAt
  <2>4. \A c \in f.all : c.open <= now
    BY <2>2 DEF Fetched
  <2>5. /\ Paging(venue, history, w, g) /\ g.start = f.start /\ g.end = f.end
        /\ g.over => Drained(venue, history, w, g)
    BY <1>2, <1>3, <1>5, <2>2, <2>3, <2>4, PageStep
  <2>6. Fetched(page)
    BY <1>2, <2>2, PageFetched
  <2>7. g.all \in {f.all, AddPage(f.all, page)}
    <3> HIDE DEF page
    <3> QED
      BY <1>2, <2>2, <2>3, PageAdds
  <2> HIDE DEF page
  <2>8. Fetched(g.all)
    BY <2>2, <2>6, <2>7, Joined DEF Fetched
  <2>9. Whole(history, Opens(g.all))
    BY <1>2, <1>3, <1>5, <2>5, PagedWhole
  <2> QED
    BY <1>7, <2>2, <2>5, <2>8, <2>9 DEF PagesKept, Paging
<1>8. PagesKept(g, spec, w, spoilt)
  BY <1>6, <1>7
<1> QED
  BY <1>1, <1>3, <1>5, <1>8, FeedKeeps

\* An error read as an empty page ends the feed, which is spoiled then.
LEMMA PageIsAnErrorKeeps ==
  ASSUME CacheInv, PartitionInv, UNCHANGED vars, PageIsAnError
  PROVE  PartitionInv'
<1>1. /\ at = "paging" /\ at' = "paging" /\ todo # << >> /\ ReadsErrorAsEmpty(venue)
      /\ pager' = PagerAfter({}) /\ spoiled' = TRUE
      /\ UNCHANGED <<files, specs, todo, merged, began, answer>>
  BY DEF PageIsAnError, PartitionInv, CallTypes
<1>2. venue \in Venues
  BY DEF CacheInv, WorldTypes
<1>3. /\ began \in Int /\ began <= now
      /\ pager \in FeedState(history) /\ Fetched(pager.all) /\ Whole(history, Opens(pager.all))
      /\ ~Wanted.recent =>
           Paging(venue, history, began, pager) /\ pager.start = Wanted.from /\ pager.end = Wanted.to
  BY <1>1 DEF PartitionInv, PagingKept, PagesKept
<1>4. PICK g, f, spec, w, spoilt :
        g = pager' /\ f = pager /\ spec = Wanted /\ w = began /\ spoilt = spoiled'
  OBVIOUS
<1>5. ASSUME spec.recent
      PROVE  PagesKept(g, spec, w, spoilt)
  <2>1. g = [f EXCEPT !.all = {}, !.over = TRUE]
    BY <1>1, <1>4, <1>5 DEF PagerAfter
  <2>2. g \in FeedState(history) /\ g.all = {}
    BY <1>3, <1>4, <2>1 DEF FeedState
  <2> QED
    BY <1>1, <1>4, <1>5, <2>2 DEF PagesKept, Fetched, Whole, Opens
<1>6. ASSUME ~spec.recent
      PROVE  PagesKept(g, spec, w, spoilt)
  <2>1. Paging(venue, history, w, f) /\ f.start = spec.from /\ f.end = spec.to
    BY <1>3, <1>4, <1>6
  <2>2. g = Paged(venue, f, {})
    BY <1>1, <1>4, <1>6 DEF PagerAfter
  <2>3. g = [f EXCEPT !.over = TRUE] /\ Paging(venue, history, w, g)
    BY <1>1, <1>2, <2>1, <2>2, ErrorEnds
  <2>4. g.all = f.all /\ g.start = f.start /\ g.end = f.end
    BY <1>3, <1>4, <2>3 DEF FeedState
  <2> QED
    BY <1>1, <1>3, <1>4, <1>6, <2>1, <2>3, <2>4 DEF PagesKept, Paging
<1>7. PagesKept(g, spec, w, spoilt)
  BY <1>5, <1>6
<1> QED
  BY <1>1, <1>3, <1>4, <1>7, FeedKeeps

\* A request made again changes nothing of the feed.
LEMMA AskAgainKeeps ==
  ASSUME PartitionInv, UNCHANGED vars, AskAgain
  PROVE  PartitionInv'
<1>1. /\ at = "paging" /\ at' = "paging" /\ todo # << >>
      /\ UNCHANGED <<files, specs, todo, merged, pager, began, spoiled, answer>>
  BY DEF AskAgain, PartitionInv, CallTypes
<1>2. began' \in Int /\ began' <= now /\ PagesKept(pager', Wanted, began', spoiled')
  BY <1>1 DEF PartitionInv, PagingKept, PagesKept
<1> QED
  BY <1>1, <1>2, FeedKeeps

\* The clock may go on, and the other cache about its work.
LEMMA OthersKeep ==
  ASSUME CacheInv, PartitionInv, [Next]_vars, UNCHANGED partitionVars
  PROVE  PartitionInv'
<1>1. UNCHANGED <<venue, history>> /\ now \in Int /\ now' \in Int /\ now <= now'
  BY StepFrame DEF Tick, CacheInv, WorldTypes
<1>2. UNCHANGED <<files, at, specs, todo, merged, pager, began, spoiled, answer>>
  BY DEF partitionVars, fetching
<1>3. CallTypes' /\ Wanted' = Wanted
  BY <1>2 DEF PartitionInv, CallTypes, Wanted
<1>4. PagingKept'
  <2> SUFFICES ASSUME at = "paging"
               PROVE  PagingKept'
    BY <1>2 DEF PagingKept, PagesKept
  <2>1. began \in Int /\ began <= now /\ pager \in FeedState(history) /\ Fetched(pager.all)
    BY DEF PartitionInv, PagingKept, PagesKept
  <2>2. \A c \in pager.all : c.open \in Int
    <3>1. \A o \in history : o \in Int
      BY DEF CacheInv, WorldTypes, Candled
    <3> QED
      BY <2>1, <3>1 DEF FeedState
  <2>3. Fetched(pager.all)'
    BY <1>1, <1>2, <2>1, <2>2 DEF Fetched
  <2>4. began <= now'
    BY <1>1, <2>1
  <2> QED
    BY <1>1, <1>2, <1>3, <2>1, <2>3, <2>4 DEF PartitionInv, PagingKept, PagesKept
<1>5. \A p \in Paths : Cached(p)' => Sound(files[p])'
  BY <1>1, <1>2 DEF PartitionInv, Cached, Sound, Unbroken, Complete
<1>6. Fitting(merged, specs)' /\ (answer'.status = "ok" => Fitting(answer.bars, answer.specs)')
  BY <1>2 DEF PartitionInv, Fitting
<1> QED
  BY <1>2, <1>3, <1>4, <1>5, <1>6 DEF PartitionInv

\* Every step of either cache keeps what the partitions promise.
LEMMA PartitionStep ==
  ASSUME CacheInv, PartitionInv, [CacheNext]_cacheVars
  PROVE  PartitionInv'
<1>1. [Next]_vars
  BY CacheStep
<1>2. CASE UNCHANGED partitionVars
  BY <1>1, <1>2, OthersKeep
<1>3. CASE UNCHANGED vars /\ \E call \in Pulls : LoadOrCacheMany(call)
  BY <1>3, LoadOrCacheManyKeeps
<1>4. CASE UNCHANGED vars /\ Die
  BY <1>4, DieKeeps
<1>5. CASE UNCHANGED vars /\ PartitionSteps
  BY <1>5, ReadPartitionKeeps, ReturnsKeeps, OpenPartitionFeedKeeps, PageArrivesKeeps,
     PageIsAnErrorKeeps, AskAgainKeeps, GiveUpKeeps, CacheDrainedKeeps DEF PartitionSteps
<1> QED
  BY <1>2, <1>3, <1>4, <1>5 DEF CacheNext, cacheVars

\* There is no file at first.
LEMMA PartitionInitial == CacheInit => PartitionInv
<1> SUFFICES ASSUME PartitionInit
             PROVE  PartitionInv
  BY DEF CacheInit
<1> USE DEF PartitionInit
<1>1. CallTypes
  BY DEF CallTypes, Range
<1>2. \A p \in Paths : ~Cached(p)
  BY DEF Cached
<1> QED
  BY <1>1, <1>2 DEF PartitionInv, PagingKept, PagesKept, Fitting, NoAnswer

\* What the first download leaves is replayed for good, and it is right: a file
\* has no hole, one that was not cut short has all that was closed of its
\* window, OKX's forming candle is in none, and a call answers with bars of the
\* instruments and the scales it asked for (load_or_cache_many).
THEOREM PartitionIsTrue == CacheSpec => []PartitionTrue
<1>1. PartitionInv => PartitionTrue
  BY DEF PartitionInv, Sound, Fitting, PartitionTrue
<1>2. CacheInv /\ PartitionInv /\ [CacheNext]_cacheVars => PartitionInv'
  BY PartitionStep
<1> QED
  BY <1>1, <1>2, CacheKept, PartitionInitial, PTL DEF CacheSpec
====

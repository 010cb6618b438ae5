----------------------------- MODULE Tournament -----------------------------
(***************************************************************************)
(* TournamentTree (merge.rs): which of several slots holds the least key.  *)
(* Slots count from 0 and are padded to a power of two; a key is a stamp,  *)
(* or Exhausted.  `win` is the heap: node 1 is the root, 2i and 2i+1 are   *)
(* below i, and the leaf of slot s is node size + s.                       *)
(***************************************************************************)
EXTENDS Integers, FiniteSetsExt

Exhausted == -1

\* n.max(1).next_power_of_two().
PowersUpTo(n) ==
  LET power[k \in 0..n] == IF k = 0 THEN 1 ELSE 2 * power[k - 1]
  IN  power

PaddedSize(n) == Min({m \in {PowersUpTo(n)[k] : k \in 0..n} : n <= m})

\* The smaller key, of equal keys the lower slot; an exhausted slot loses.
Better(key, a, b) ==
  CASE key[a] = Exhausted /\ key[b] = Exhausted -> IF a < b THEN a ELSE b
    [] key[a] = Exhausted /\ key[b] # Exhausted -> b
    [] key[a] # Exhausted /\ key[b] = Exhausted -> a
    [] OTHER -> IF key[a] < key[b] \/ (key[a] = key[b] /\ a <= b) THEN a ELSE b

Winners(size, key) ==
  LET win[node \in 1..(2 * size - 1)] ==
        IF node >= size THEN node - size
        ELSE Better(key, win[2 * node], win[2 * node + 1])
  IN  win

NewTree(keys, n) ==
  LET size == PaddedSize(n)
      key  == [s \in 0..(size - 1) |-> IF s < n THEN keys[s] ELSE Exhausted]
  IN  [size |-> size, key |-> key, win |-> Winners(size, key)]

Winner(tree) == tree.win[1]

\* What a node comes to by halving, down to 1.
Halves(node) ==
  LET halves[m \in 0..node] ==
        IF m <= 1 THEN {} ELSE {m \div 2} \cup halves[m \div 2]
  IN  halves[node]

\* Seeded fault: the walk starts a level too high.
AboveParent(size, s) == Halves((size + s) \div 2)

\* The nodes set() recomputes: from midpoint(size, s), halving, to the root.
Above(size, s) == Halves(size + s)

\* Slot s gets a new key; the nodes above it are recomputed from below.
SetKey(tree, s, k) ==
  LET key  == [tree.key EXCEPT ![s] = k]
      path == Above(tree.size, s)
      win[node \in 1..(2 * tree.size - 1)] ==
        IF node \in path THEN Better(key, win[2 * node], win[2 * node + 1])
        ELSE tree.win[node]
  IN  [size |-> tree.size, key |-> key, win |-> win]
=============================================================================

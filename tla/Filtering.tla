----------------------------- MODULE Filtering ------------------------------
(***************************************************************************)
(* Vec::retain: the elements of a sequence that belong to a set, in their  *)
(* order.  SelectSeq says the same, but is built into the provers' library *)
(* without a definition, so nothing can be proved of it.                   *)
(***************************************************************************)
EXTENDS Sequences, Integers

\* What is kept of the first n elements of s, as a function of n.
KeptPrefix(s, K) ==
  LET kept[n \in 0..Len(s)] ==
        IF n = 0 THEN << >>
        ELSE IF s[n] \in K THEN Append(kept[n - 1], s[n]) ELSE kept[n - 1]
  IN  kept

Keep(s, K) == KeptPrefix(s, K)[Len(s)]
=============================================================================

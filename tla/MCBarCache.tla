----------------------------- MODULE MCBarCache -----------------------------
(***************************************************************************)
(* Small instances of the two caches: candles two ticks wide, in pages     *)
(* of two.                                                                 *)
(***************************************************************************)
EXTENDS PartitionCache

\* One missing inside; none before a retention horizon.
SmallHistories == { {0, 4, 6, 8}, {4, 6, 8} }

\* A window that reaches the future, one whose ends are no bar's stamps, and
\* one that begins before the others.
SmallWindows == { <<4, 8>>, <<3, 7>>, <<0, 6>> }

Wide == [path |-> 1, instrument |-> 1, scale |-> 1, from |-> 0, to |-> 8, recent |-> FALSE]
Late == [path |-> 2, instrument |-> 2, scale |-> 1, from |-> 3, to |-> 9, recent |-> FALSE]
Tip  == [path |-> 1, instrument |-> 2, scale |-> 1, from |-> 0, to |-> 0, recent |-> TRUE]

\* One series; two; the first after a change of scale; another instrument's
\* newest candles at the path of the first.
SmallPulls == { <<Wide>>, <<Wide, Late>>, <<[Wide EXCEPT !.scale = 2]>>, <<Tip, Late>> }
=============================================================================

---------------------------- MODULE BarManifest -----------------------------
(***************************************************************************)
(* What the bar cache knows of one series: the ranges of close stamps it   *)
(* has recorded, and the gaps that a request leaves to be downloaded       *)
(* (manifest.rs, gap.rs).                                                  *)
(*                                                                         *)
(* Time is counted in ticks, the finest unit the code distinguishes (one   *)
(* millisecond); a bar is BAR ticks wide.  A range [lo, hi] includes both  *)
(* of its ends.  The code keeps the ranges in a list sorted by lo, and the *)
(* gaps in another; nothing depends on more than their order, which the    *)
(* bounds give, so both are sets here.                                     *)
(***************************************************************************)
EXTENDS Integers, FiniteSetsExt

CONSTANT BAR    \* the width of a bar, in ticks

ASSUME BarAssumption == BAR \in Nat \ {0, 1}

\* Coverage::Bars has a chunk file of the same name; Coverage::EmptyVerified
\* is a span the venue is believed to have nothing for.
Kinds == {"Bars", "EmptyVerified"}

Span(lo, hi, kind) == [lo |-> lo, hi |-> hi, kind |-> kind]

-----------------------------------------------------------------------------
(* Manifest::record_range                                                   *)

\* max of the starts below min of the ends: more than a point is shared.
InteriorOverlap(r, s) == \A start \in {r.lo, s.lo}, end \in {r.hi, s.hi} : start < end

Accepts(ranges, r) == r.lo <= r.hi /\ \A s \in ranges : ~InteriorOverlap(r, s)

RecordRange(ranges, r) == IF Accepts(ranges, r) THEN ranges \cup {r} ELSE ranges

-----------------------------------------------------------------------------
(* missing_gaps                                                             *)

\* The runs of ranges at most a bar apart.  A run begins at a range that no
\* earlier one comes within a bar of, and lasts until the next begins.
RunStarts(ranges) ==
  {r.lo : r \in {q \in ranges : \A s \in ranges : s.lo < q.lo => s.hi + BAR < q.lo}}

Coalesced(ranges) ==
  LET starts == RunStarts(ranges)
      Of(a)  == {r \in ranges : a <= r.lo /\ \A b \in starts : b <= a \/ r.lo < b}
  IN  {[lo |-> a, hi |-> Max({r.hi : r \in Of(a)})] : a \in starts}

\* A hole begins a bar after the run that precedes it, or with the window ...
HoleStart(runs, lo) == Max({lo} \cup {r.hi + BAR : r \in runs})

\* Seeded fault: the hole ends where the next run begins.
HoleEndTouching(run, hi) == Min({run.lo, hi})

\* ... and ends a bar before the run that follows it, or with the window.
HoleEnd(run, hi) == Min({run.lo - BAR, hi})

\* The holes of lo..hi, as <<first, last>>.  Runs that do not reach into the
\* window play no part.
MissingGaps(ranges, lo, hi) ==
  LET runs  == {r \in Coalesced(ranges) : lo <= r.hi /\ r.lo <= hi}
      holes == {<<HoleStart({s \in runs : s.lo < r.lo}, lo), HoleEnd(r, hi)>> : r \in runs}
                 \cup {<<HoleStart(runs, lo), hi>>}
  IN  {g \in holes : g[1] <= g[2]}

-----------------------------------------------------------------------------
(* What a plan is to be                                                     *)

Ticks(gs) == UNION {g[1]..g[2] : g \in gs}

\* Two ranges no more than a bar apart count as one, and a narrow window may
\* lie between them.
Bridged(ranges, lo, hi) ==
  \E r, s \in ranges : r.hi < lo /\ hi < s.lo /\ s.lo <= r.hi + BAR

\* Away from what is recorded of the window.
Unrecorded(ranges, lo, hi) ==
  {t \in lo..hi : \A r \in ranges : \/ r.hi < lo \/ hi < r.lo
                                    \/ t <= r.lo - BAR \/ r.hi + BAR <= t}
=============================================================================

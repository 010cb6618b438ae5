------------------------------ MODULE Resample ------------------------------
(***************************************************************************)
(* Coarser bars from finer ones: bars_from_trades and aggregate_bars of    *)
(* akadro-data/src/trades.rs, and load_bars_aggregated, which loads the    *)
(* finer series and rolls it up.                                           *)
(*                                                                         *)
(* A bar is stamped with the end of its interval.  Both algorithms walk    *)
(* their input once, holding the bucket they are in; here each is a fold   *)
(* over the same accumulator.                                              *)
(***************************************************************************)
EXTENDS Integers, Sequences, SequencesExt

CONSTANTS
  FineWidth,      \* the finer series' bar width
  CoarseWidths,   \* the widths asked for
  PrintTimes,     \* trade prints may happen at these times,
  Prints,         \*   at these prices and quantities,
  MaxPrints       \*   and this often

ASSUME ResampleAssumption ==
  /\ FineWidth \in Nat \ {0}
  /\ CoarseWidths \subseteq Nat \ {0}
  /\ PrintTimes \subseteq Nat
  /\ \A p \in Prints : p.price \in Int /\ p.qty \in Nat
  /\ MaxPrints \in Nat

NoBucket == -1

\* The start of the interval a time lies in.
BucketOf(time, width) == (time \div width) * width

HigherOf(a, b) == IF a > b THEN a ELSE b
LowerOf(a, b)  == IF a < b THEN a ELSE b

\* A print is a bar of its own price.
PrintBar(p) ==
  [ts |-> p.ts, open |-> p.price, high |-> p.price, low |-> p.price,
   close |-> p.price, volume |-> p.qty]

\* Seeded fault: the high is the last high.
LastHighExtended(bar, next) ==
  [bar EXCEPT !.high = next.high, !.low = LowerOf(@, next.low), !.close = next.close,
              !.volume = @ + next.volume]

\* A bucket's bar takes in what comes next in it.
Extended(bar, next) ==
  [bar EXCEPT !.high = HigherOf(@, next.high), !.low = LowerOf(@, next.low),
              !.close = next.close, !.volume = @ + next.volume]

NoAccumulator == [bucket |-> NoBucket, bar |-> <<>>, count |-> 0, out |-> << >>, incomplete |-> << >>]

\* A bucket of which `expected` pieces are there is a bar, at the stamp of its
\* end; any other is incomplete.  expected = 0 accepts any number.
Flushed(acc, width, expected) ==
  LET stamp == acc.bucket + width
  IN  IF acc.bucket = NoBucket THEN acc
      ELSE IF expected = 0 \/ acc.count = expected
      THEN [acc EXCEPT !.out = Append(@, [acc.bar EXCEPT !.ts = stamp])]
      ELSE [acc EXCEPT !.incomplete = Append(@, stamp)]

\* The walk over `pieces`, each a bar that lies in the bucket of its `start`.
Bucketed(pieces, width, expected) ==
  LET Take(acc, piece) ==
        LET bucket == BucketOf(piece.start, width)
            next   == piece.bar
        IN  IF acc.bucket = bucket
            THEN [acc EXCEPT !.bar = Extended(@, next), !.count = @ + 1]
            ELSE [Flushed(acc, width, expected) EXCEPT
                   !.bucket = bucket, !.bar = next, !.count = 1]
  IN  Flushed(FoldLeft(Take, NoAccumulator, pieces), width, expected)

BarsFromTrades(trades, width) ==
  Bucketed([n \in DOMAIN trades |-> [start |-> trades[n].ts, bar |-> PrintBar(trades[n])]],
           width, 0).out

\* aggregate_bars_checked: the coarse bars of complete buckets, and the stamps
\* of the incomplete ones.  A fine bar lies where it opens.
Aggregated(fine, fineWidth, coarseWidth) ==
  IF fine = << >> \/ coarseWidth < fineWidth \/ coarseWidth % fineWidth # 0
  THEN NoAccumulator
  ELSE Bucketed([n \in DOMAIN fine |-> [start |-> fine[n].ts - fineWidth, bar |-> fine[n]]],
                coarseWidth, coarseWidth \div fineWidth)

-----------------------------------------------------------------------------
VARIABLES
  tape,      \* the trades the venue has printed, in order of time
  coarse,    \* the coarse width asked for
  fine,      \* the finer series as loaded
  rolled     \* what load_bars_aggregated returned, or Waiting or Refused; with
             \*   the incomplete stamps, which it drops

resampleVars == <<tape, coarse, fine, rolled>>

Waiting == [status |-> "waiting", bars |-> << >>, incomplete |-> << >>]
Refused == [status |-> "refused", bars |-> << >>, incomplete |-> << >>]

ResampleInit ==
  /\ tape = << >> /\ fine = << >> /\ rolled = Waiting
  /\ coarse \in CoarseWidths

\* The venue forms its candles from its prints.
PrintTrade ==
  /\ rolled = Waiting /\ Len(tape) < MaxPrints
  /\ \E t \in PrintTimes, p \in Prints :
       /\ tape # << >> => Last(tape).ts <= t
       /\ tape' = Append(tape, [ts |-> t, price |-> p.price, qty |-> p.qty])
  /\ UNCHANGED <<coarse, fine, rolled>>

Selected(bars, which) ==
  LET number == SetToSortSeq(which, <)
  IN  [n \in 1..Len(number) |-> bars[number[n]]]

\* load_bars gives the bars there are, with the holes a failed download or a
\* window's edge leaves (BarCache); a width that is no multiple is refused.
LoadAggregated ==
  /\ rolled = Waiting
  /\ IF coarse < FineWidth \/ coarse % FineWidth # 0
     THEN rolled' = Refused /\ UNCHANGED fine
     ELSE LET all == BarsFromTrades(tape, FineWidth)
          IN  \E which \in SUBSET DOMAIN all :
                /\ fine' = Selected(all, which)
                /\ LET result == Aggregated(fine', FineWidth, coarse)
                   IN  rolled' = [status |-> "returned", bars |-> result.out,
                                  incomplete |-> result.incomplete]
  /\ UNCHANGED <<tape, coarse>>

ResampleNext == PrintTrade \/ LoadAggregated

-----------------------------------------------------------------------------

\* The coarse bar that ends at `stamp`, from the definition of a bar: of the
\* prints in its interval the first, the extremes, the last and the sum.
TrueBar(stamp) ==
  LET inside == SelectSeq(tape, LAMBDA t : t.ts >= stamp - coarse /\ t.ts < stamp)
      prices == {inside[n].price : n \in DOMAIN inside}
  IN  [ts |-> stamp, open |-> Head(inside).price, high |-> Max(prices), low |-> Min(prices),
       close |-> Last(inside).price,
       volume |-> FoldLeft(LAMBDA sum, t : sum + t.qty, 0, inside)]

\* Rolling up loses nothing and invents nothing: where every finer bar of a
\* coarse interval was loaded, the coarse bar is that of the venue's own prints;
\* where some are missing there is none, and aggregate_bars_checked has its
\* stamp; and both come in order (bars_from_trades, aggregate_bars_checked).
AggregateAgrees ==
  rolled.status = "returned" =>
    LET StampsOf(bars) == {bars[n].ts : n \in DOMAIN bars}
        Pieces(stamp) ==
          {n \in DOMAIN fine : fine[n].ts > stamp - coarse /\ fine[n].ts <= stamp}
        stamps   == {BucketOf(s - 1, coarse) + coarse : s \in StampsOf(fine)}
        complete == {s \in stamps : Cardinality(Pieces(s)) = coarse \div FineWidth}
        ordered  == SetToSortSeq(complete, <)
    IN  /\ rolled.bars = [n \in DOMAIN ordered |-> TrueBar(ordered[n])]
        /\ rolled.incomplete = SetToSortSeq(stamps \ complete, <)
=============================================================================

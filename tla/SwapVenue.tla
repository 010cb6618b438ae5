------------------------------ MODULE SwapVenue -----------------------------
(***************************************************************************)
(* The automated market maker (akadro-venue-dex/src/lib.rs): it takes      *)
(* market orders only, and swaps all that wait for an instrument, whole,   *)
(* at the open of its next bar moved against them by their size.  A swap   *)
(* costs a fee and gas; it cannot be cancelled, and reduce-only is not     *)
(* looked at.                                                              *)
(***************************************************************************)
EXTENDS FixedPoint, SequencesExt

CONSTANTS
  Depth, ImpactCoef, LpFeeBps, Gas   \* DexConfig

ASSUME SwapVenueAssumption == {Depth, ImpactCoef, LpFeeBps, Gas} \subseteq Int

\* A price does not go below one tick.
Impacted(mid, side, qty) ==
  LET impact == TruncDiv(qty * ImpactCoef, Depth)
  IN  IF Depth <= 0 \/ ImpactCoef <= 0 THEN mid
      ELSE Greater(1, mid + side * TruncDiv(mid * impact, 10000))

\* A negative fee or gas charges nothing.
SwapCosts(notional) ==
  (IF LpFeeBps > 0 THEN MulBps(notional, LpFeeBps) ELSE 0) + (IF Gas > 0 THEN Gas ELSE 0)

\* submit: [pool, event], where pool is what waits for its next bar.
SwapSubmit(pool, id, order, catalogue) ==
  IF order.instrument \notin catalogue \/ order.kind # "Market" \/ order.qty <= 0
  THEN [pool |-> pool, event |-> [type |-> "OrderRejected", id |-> id]]
  ELSE [pool |-> Append(pool, [id |-> id, order |-> order]),
        event |-> [type |-> "OrderAccepted", id |-> id]]

Swapped(r, bar) ==
  LET price == Impacted(bar.open, r.order.side, r.order.qty)
  IN  [type |-> "Fill", id |-> r.id, instrument |-> bar.instrument, side |-> r.order.side,
       price |-> price, qty |-> r.order.qty,
       fee |-> SwapCosts(Notional(price, r.order.qty)), complete |-> TRUE]

\* Seeded fault: the bar of any instrument swaps all that waits.
WaitsNever(r, bar) == FALSE

WaitsFor(r, bar) == r.order.instrument # bar.instrument

\* observe: the fills of a bar, and what goes on waiting.
SwapFills(pool, bar) ==
  LET due == SelectSeq(pool, LAMBDA r : ~WaitsFor(r, bar))
  IN  [n \in DOMAIN due |-> Swapped(due[n], bar)]
SwapLeft(pool, bar) == SelectSeq(pool, LAMBDA r : WaitsFor(r, bar))
=============================================================================

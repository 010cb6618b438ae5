----------------------------- MODULE FillRules ------------------------------
(***************************************************************************)
(* When, and at what price, a bar fills an order: the pure part of         *)
(* akadro-backtest/src/exchange.rs (marketable, limit_fill, stop_fill,     *)
(* stop_triggered, Trailing offset and SimulatedExchange::evaluate).       *)
(*                                                                         *)
(* A side is its sign, Buy = 1 and Sell = -1 (Side::sign), so that a rule  *)
(* and its mirror image are one formula.  An order request is a record     *)
(*   [instrument, side, qty, kind, trigger, limit, trail, tif,             *)
(*    reduceOnly, postOnly, oco]                                           *)
(* whose price fields are 0 where the kind has none.  trail is             *)
(* [percent, by]: an absolute offset, or basis points of the reference.    *)
(* oco is 0 (no group) or the group's id.  A bar is                        *)
(*   [instrument, open, high, low, close, volume].                         *)
(***************************************************************************)
EXTENDS FixedPoint

Buy  == 1
Sell == -1

\* Kinds that only act once a condition is met.
ConditionalKinds == {"Stop", "StopLimit", "MarketIfTouched", "TrailingStop"}
\* Conditional kinds that trade at the market once triggered.
MarketOnTriggerKinds == {"Stop", "MarketIfTouched", "TrailingStop"}
\* Kinds that fill at their limit price or better.
PassiveKinds == {"Limit", "StopLimit"}
OrderKinds == {"Market"} \cup PassiveKinds \cup ConditionalKinds

\* The price a side would rather have, and the one it would rather not.
BetterOf(side, a, b) == IF side * a <= side * b THEN a ELSE b
\* Seeded fault: a stop fills at its trigger even when the bar gaps past it.
FirstOf(side, a, b)  == a
WorseOf(side, a, b)  == IF side * a <= side * b THEN b ELSE a

\* A limit at `limit` would take liquidity at `open`.
Marketable(side, limit, open) == side * (limit - open) >= 0

\* The bar reaches `price` from the order's favourable side: low for a buy.
Reaches(side, price, bar) ==
  IF side = Buy THEN bar.low <= price ELSE bar.high >= price

\* The bar moves against the order as far as `trigger`.
StopTriggered(side, trigger, bar) ==
  IF side = Buy THEN bar.high >= trigger ELSE bar.low <= trigger

\* The best price a trailing stop has seen: the high for a sell, the low for
\* a buy.  trailRef is {} before the first bar, then a singleton.
BestSeen(side, trailRef, bar) ==
  LET seen == trailRef \cup {IF side = Buy THEN bar.low ELSE bar.high}
  IN  CHOOSE best \in seen : \A p \in seen : BetterOf(side, best, p) = best

TrailTrigger(side, trail, ref) ==
  ref + side * (IF trail.percent THEN MulBps(ref, trail.by) ELSE trail.by)

-----------------------------------------------------------------------------
(***************************************************************************)
(* The verdict on one resting order against one bar: does it fill (at what *)
(* base price), is it cancelled, or does it rest; and its updated arming   *)
(* state and trailing reference.                                           *)
(***************************************************************************)
Fills(r, price) == [state |-> r, outcome |-> "fill",   price |-> price]
Cancels(r)      == [state |-> r, outcome |-> "cancel", price |-> 0]
Rests(r)        == [state |-> r, outcome |-> "rest",   price |-> 0]

\* A working limit, active from the reference price `ref` on.  A post-only
\* leg that would take liquidity there is cancelled.
WorkLimit(r, bar, ref) ==
  LET o == r.order
  IN  IF o.postOnly /\ Marketable(o.side, o.limit, ref) THEN Cancels(r)
      ELSE IF Reaches(o.side, o.limit, bar)
           THEN Fills(r, BetterOf(o.side, ref, o.limit))
           ELSE Rests(r)

\* A stop-limit that arms on this bar is active from its trigger, one armed
\* earlier from the bar's open.
WorkStopLimit(r, bar) ==
  LET o         == r.order
      justArmed == ~r.armed /\ StopTriggered(o.side, o.trigger, bar)
  IN  IF justArmed THEN WorkLimit([r EXCEPT !.armed = TRUE], bar, o.trigger)
      ELSE IF r.armed THEN WorkLimit(r, bar, bar.open)
      ELSE Rests(r)

WorkTrailing(r, bar) ==
  LET o       == r.order
      ref     == BestSeen(o.side, r.trailRef, bar)
      trigger == TrailTrigger(o.side, o.trail, ref)
      trailed == [r EXCEPT !.trailRef = {ref}]
  IN  IF StopTriggered(o.side, trigger, bar) THEN Fills(trailed, trigger)
      ELSE Rests(trailed)

Evaluate(r, bar) ==
  LET o == r.order
  IN  CASE o.kind = "Market" -> Fills(r, bar.open)
        [] o.kind = "Limit"  -> WorkLimit(r, bar, bar.open)
        [] o.kind = "Stop"   ->
             IF StopTriggered(o.side, o.trigger, bar)
             THEN Fills(r, WorseOf(o.side, o.trigger, bar.open))
             ELSE Rests(r)
        [] o.kind = "StopLimit" -> WorkStopLimit(r, bar)
        [] o.kind = "MarketIfTouched" ->
             IF Reaches(o.side, o.trigger, bar) THEN Fills(r, o.trigger)
             ELSE Rests(r)
        [] o.kind = "TrailingStop" -> WorkTrailing(r, bar)

\* The bar met the limit exactly without trading through it, so whether the
\* order filled depends on its place in the queue.
OnlyTouches(o, bar) ==
  /\ o.kind \in PassiveKinds
  /\ o.limit = IF o.side = Buy THEN bar.low ELSE bar.high
=============================================================================

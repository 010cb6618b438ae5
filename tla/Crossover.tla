------------------------------ MODULE Crossover -----------------------------
(***************************************************************************)
(* The strategies of the repository, as a reaction to a bar: SmaCross      *)
(* (sma-crossover/src/lib.rs), the playground's SmaCrossover, which sizes  *)
(* its entries by equity, and one that follows a signal with               *)
(* Ctx::rebalance.  A reaction is the strategy's next state and the orders *)
(* it submits.  `view` is the context: the market, the net quantity in     *)
(* each instrument, equity, and the instruments with an open order.        *)
(***************************************************************************)
EXTENDS FixedPoint, MarketHistory

CONSTANTS
  Fast, Slow,    \* windows of the moving averages
  OrderQty,      \* SmaCross's size
  DeployPct      \* SmaCrossover's share of equity

ASSUME CrossoverAssumption ==
  /\ {Fast, Slow, OrderQty, DeployPct} \subseteq Nat \ {0}
  /\ Fast < Slow

NewCross == [fastSum |-> 0, slowSum |-> 0, count |-> 0, above |-> << >>]

MarketOrder(instrument, side, qty) ==
  [kind |-> "Market", instrument |-> instrument, side |-> side, qty |-> qty,
   reduceOnly |-> FALSE]

\* A running sum takes the new close; the one that left the window, read from
\* the series, is dropped.
Slid(sum, close, closes, count, window) ==
  IF count > window /\ Ago(closes, window) # << >>
  THEN sum + close - Head(Ago(closes, window)) ELSE sum + close

Summed(s, bar, closes) ==
  LET count == s.count + 1
  IN  [s EXCEPT !.count = count,
                !.fastSum = Slid(@, bar.close, closes, count, Fast),
                !.slowSum = Slid(@, bar.close, closes, count, Slow)]

FastAbove(s) == TruncDiv(s.fastSum, Fast) >= TruncDiv(s.slowSum, Slow)

\* Both crossovers: nothing until the slow window is full, then whether the
\* averages have crossed since the last bar, and which way.
Crossed(s, bar, instrument, view) ==
  LET summed == Summed(s, bar, ClosesOf(view.market, instrument))
      above  == FastAbove(summed)
  IN  IF summed.count < Slow THEN [next |-> summed, turn |-> "none"]
      ELSE [next |-> [summed EXCEPT !.above = <<above>>],
            turn |-> IF s.above = << >> \/ s.above = <<above>> THEN "none"
                     ELSE IF above THEN "up" ELSE "down"]

\* SmaCross: a fixed size, long and short.
CrossOnBar(s, bar, instrument, view) ==
  LET crossed == Crossed(s, bar, instrument, view)
      net     == view.net[instrument]
  IN  [next |-> crossed.next,
       orders |->
         CASE crossed.turn = "up" /\ net <= 0   -> <<MarketOrder(instrument, 1, OrderQty)>>
           [] crossed.turn = "down" /\ net >= 0 -> <<MarketOrder(instrument, -1, OrderQty)>>
           [] OTHER -> << >>]

\* SmaCrossover: a share of equity at this close, and back to flat.
SizedOnBar(s, bar, instrument, view) ==
  LET crossed == Crossed(s, bar, instrument, view)
      net     == view.net[instrument]
      qty     == TruncDiv(TruncDiv(view.equity * DeployPct, 100), bar.close)
  IN  [next |-> crossed.next,
       orders |->
         CASE crossed.turn = "up" /\ net <= 0 /\ qty > 0 -> <<MarketOrder(instrument, 1, qty)>>
           [] crossed.turn = "down" /\ net > 0 -> <<MarketOrder(instrument, -1, net)>>
           [] OTHER -> << >>]

\* Ctx::rebalance for one target: the difference, reduce-only if it moves
\* toward flat and not past it.
Rebalance(instrument, net, target) ==
  LET delta   == target - net
      reduces == (net > 0 /\ delta < 0 /\ target >= 0) \/ (net < 0 /\ delta > 0 /\ target <= 0)
  IN  IF delta = 0 THEN << >>
      ELSE <<[MarketOrder(instrument, Sign(delta), Abs(delta)) EXCEPT !.reduceOnly = reduces]>>

\* A strategy outside the repository: each bar of an instrument that has no
\* open order moves its position to the latest value of its signal.
FollowOnBar(s, bar, view) ==
  LET target == Latest(SignalOf(view.market, bar.instrument, "Target"))
  IN  [next |-> s,
       orders |-> IF target = << >> \/ bar.instrument \in view.busy THEN << >>
                  ELSE Rebalance(bar.instrument, view.net[bar.instrument], Head(target))]
=============================================================================

----------------------------- MODULE MCUmbrella -----------------------------
(***************************************************************************)
(* Small instances of Umbrella.  Market data: a symbol whose listing       *)
(* changes (MCCatalog); three requests on two workers, series of up to     *)
(* three bars whose stamps coincide; a perpetual that settles up to once a *)
(* tick, six ticks a day, in pages of one to three; tapes of up to four    *)
(* prints.  Research: bars that rise, fall, gap and stand still; every     *)
(* plan of lengths up to two over timelines with ties, holes and a bar out *)
(* of order; every grouping of up to five blocks; logs of three fills that *)
(* open, add to, reduce, close and flip two positions; bars on which the   *)
(* averages cross both ways, and targets that open, close and flip.        *)
(***************************************************************************)
EXTENDS Umbrella, MCCatalog

SmallSeries  == { << >>, <<1, 3>>, <<2, 2, 3>> }
SmallSignals == { <<2>>, <<1, 2, 4>> }

SmallPages ==
  [l \in Loops |-> IF l = "binance" THEN 3 ELSE IF l \in {"bybit", "okxPaged"} THEN 2 ELSE 1]
SmallWindows == { [lo |-> 0, hi |-> 5], [lo |-> 2, hi |-> 3], [lo |-> 3, hi |-> 7] }

SmallPrints == { [price |-> 1, qty |-> 1], [price |-> 2, qty |-> 2], [price |-> 3, qty |-> 1] }

SmallInputs ==
  { [high |-> 3, low |-> 1, close |-> 2],  [high |-> 6, low |-> 4, close |-> 4],
    [high |-> 5, low |-> 5, close |-> 5],  [high |-> 19, low |-> 11, close |-> 17] }

SmallPlans ==
  [scheme : Schemes, begin : {1}, end : {7}, train : {0, 1, 2}, test : {1, 2}, step : {1, 2},
   purge : {0, 1}, embargo : {0, 1}]

Stamped(stamps, instruments) ==
  [n \in DOMAIN stamps |-> [ts |-> stamps[n], instrument |-> instruments[n]]]

SmallTimelines ==
  { Stamped(<<1, 2, 3, 4, 5, 6, 7>>, <<1, 1, 1, 1, 1, 1, 1>>),
    Stamped(<<1, 2, 2, 4, 4, 5, 6, 6>>, <<1, 1, 2, 1, 2, 1, 1, 2>>),
    Stamped(<<1, 2, 4, 3, 5>>, <<1, 1, 1, 1, 1>>),
    Stamped(<<2, 3, 3, 5>>, <<1, 1, 1, 1>>) }

\* At odd averages, so that rounding shows.
SmallDeals ==
  { [price |-> 7, qty |-> 1], [price |-> 8, qty |-> 2], [price |-> 10, qty |-> 1] }

SmallSwapBars ==
  { [instrument |-> 1, open |-> 2, close |-> 3], [instrument |-> 1, open |-> 5, close |-> 2],
    [instrument |-> 2, open |-> 4, close |-> 4] }
SmallTargets ==
  { [instrument |-> 1, value |-> 2], [instrument |-> 1, value |-> -1],
    [instrument |-> 2, value |-> 1] }

SmallGroupings == [groups : 0..5, chosen : 0..4]
=============================================================================

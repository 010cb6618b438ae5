------------------------ MODULE MCSimulatedExchange -------------------------
(***************************************************************************)
(* Small instances of SimulatedExchange: bars chosen to touch, gap through *)
(* and sweep the prices of the requests.                                   *)
(***************************************************************************)
EXTENDS SimulatedExchange

CONSTANTS btc, eth

Request(instrument, side, qty, kind) ==
  [NoOrder EXCEPT !.instrument = instrument, !.side = side, !.qty = qty, !.kind = kind]
MarketOrder(i, side, qty)         == Request(i, side, qty, "Market")
LimitOrder(i, side, qty, limit)   == [Request(i, side, qty, "Limit") EXCEPT !.limit = limit]
StopOrder(i, side, qty, trigger)  == [Request(i, side, qty, "Stop") EXCEPT !.trigger = trigger]
TouchOrder(i, side, qty, trigger) ==
  [Request(i, side, qty, "MarketIfTouched") EXCEPT !.trigger = trigger]
StopLimitOrder(i, side, qty, trigger, limit) ==
  [Request(i, side, qty, "StopLimit") EXCEPT !.trigger = trigger, !.limit = limit]
TrailingOrder(i, side, qty, percent, by) ==
  [Request(i, side, qty, "TrailingStop") EXCEPT !.trail = [percent |-> percent, by |-> by]]

OneBar(i, open, high, low, close, volume) ==
  [instrument |-> i, open |-> open, high |-> high, low |-> low,
   close |-> close, volume |-> volume]

(* Brackets, reduce-only and immediate orders under a volume cap. *)
BracketRequests ==
  { MarketOrder(btc, Buy, 2),
    [LimitOrder(btc, Sell, 2, 7) EXCEPT !.oco = 1],
    [StopOrder(btc, Sell, 3, 3) EXCEPT !.oco = 1, !.reduceOnly = TRUE],
    [TrailingOrder(btc, Sell, 2, FALSE, 2) EXCEPT !.reduceOnly = TRUE],
    [StopLimitOrder(btc, Buy, 2, 6, 3) EXCEPT !.tif = "Ioc"],
    [LimitOrder(btc, Buy, 2, 4) EXCEPT !.tif = "Fok"] }

BracketBars ==
  { OneBar(btc, 5, 6, 4, 5, 4),     \* quiet; a cap of 2
    OneBar(btc, 5, 8, 2, 5, 8),     \* sweeps both legs of a bracket; a cap of 4
    OneBar(btc, 2, 3, 1, 2, 2) }    \* gaps down beyond the stop; a cap of 1

(* Limit buys and the sales that pay for them, with the cash guard on. *)
CashRequests ==
  { LimitOrder(btc, Buy, 2, 5),
    LimitOrder(btc, Buy, 3, 4),
    [LimitOrder(btc, Buy, 2, 3) EXCEPT !.oco = 1],
    [StopLimitOrder(btc, Buy, 2, 6, 7) EXCEPT !.oco = 1, !.postOnly = TRUE],
    LimitOrder(btc, Sell, 1, 6),
    MarketOrder(btc, Sell, 2) }

CashBars ==
  { OneBar(btc, 5, 6, 4, 5, 2),
    OneBar(btc, 4, 7, 2, 6, 6),
    OneBar(btc, 7, 7, 5, 5, 4) }

(* A leveraged perpetual next to a spot instrument. *)
MarginRequests ==
  { MarketOrder(btc, Buy, 2),
    MarketOrder(btc, Sell, 1),
    LimitOrder(btc, Buy, 1, 4),
    LimitOrder(eth, Buy, 1, 4),
    TouchOrder(btc, Sell, 2, 7) }

MarginBars ==
  { OneBar(btc, 5, 6, 5, 5, 4),
    OneBar(btc, 5, 5, 3, 3, 4),
    OneBar(btc, 6, 8, 6, 7, 2),
    OneBar(eth, 5, 5, 4, 5, 2) }

\* Backwardation and contango.
MarginFundingRates == {-10, 20}

(* Trailing stops and brackets over bars that gap and sweep. *)
GapRequests ==
  { MarketOrder(btc, Buy, 2), TrailingOrder(btc, Sell, 2, FALSE, 2) }

GapBars == { OneBar(btc, 5, 6, 5, 5, 4), OneBar(btc, 2, 3, 1, 2, 2) }

SweptRequests ==
  { MarketOrder(btc, Buy, 2),
    [LimitOrder(btc, Sell, 2, 7) EXCEPT !.oco = 1],
    [StopOrder(btc, Sell, 2, 3) EXCEPT !.oco = 1, !.reduceOnly = TRUE] }

SweptBars ==
  { OneBar(btc, 5, 6, 4, 5, 4), OneBar(btc, 5, 8, 2, 5, 2) }
=============================================================================

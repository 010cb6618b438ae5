----------------------------- MODULE MCEngineLoop -----------------------------
(***************************************************************************)
(* Small instances of EngineLoop: a leveraged perpetual whose bars fill,   *)
(* gap and liquidate, under a strategy that reacts to every callback: it   *)
(* buys, takes profit at once or not at all, and stops its loss.           *)
(***************************************************************************)
EXTENDS EngineLoop

CONSTANTS btc, eth

EngineRequests ==
  { [NoOrder EXCEPT !.instrument = btc, !.qty = 2],
    [NoOrder EXCEPT !.instrument = btc, !.side = Sell, !.qty = 3,
                    !.kind = "Limit", !.limit = 6, !.tif = "Ioc", !.oco = 1],
    [NoOrder EXCEPT !.instrument = btc, !.side = Sell, !.qty = 2, !.kind = "Stop",
                    !.trigger = 3, !.oco = 1, !.reduceOnly = TRUE] }

EngineBars ==
  { [instrument |-> btc, open |-> 5, high |-> 6, low |-> 4, close |-> 5, volume |-> 6],
    [instrument |-> btc, open |-> 5, high |-> 5, low |-> 2, close |-> 3, volume |-> 2] }
==============================================================================

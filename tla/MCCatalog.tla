----------------------------- MODULE MCCatalog -----------------------------
(***************************************************************************)
(* Small instances of Catalog: two coins against a third; the wanted row   *)
(* may change its precision, be halted, or say nothing of its state, and   *)
(* another may come and go above or below it, without a grid or dated.     *)
(***************************************************************************)
EXTENDS Catalog

Row(symbol, base, state, scale) ==
  [symbol |-> symbol, base |-> base, quote |-> "usdt", state |-> state, dated |-> FALSE,
   scale |-> scale, grid |-> TRUE]

Btc == Row("BTC-USDT", "btc", "open", 1)
Eth == Row("ETH-USDT", "eth", "open", 2)

SmallRows ==
  { Btc, Row("BTC-USDT", "btc", "open", 2), Row("BTC-USDT", "btc", "halted", 1),
    Eth, Row("ETH-USDT", "eth", "unsaid", 2), [Eth EXCEPT !.grid = FALSE] }

SmallListings == { <<Btc>>, <<Eth, Btc>>, <<[Eth EXCEPT !.dated = TRUE], Btc>> }
=============================================================================

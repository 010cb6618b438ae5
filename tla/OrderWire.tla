----------------------------- MODULE OrderWire ------------------------------
(***************************************************************************)
(* What each connector's submit makes of an order request: the fields of   *)
(* the venue's own vocabulary that say how the order may execute, or       *)
(* nothing when it refuses the request itself.  Side, quantity and price   *)
(* are copied by all of them and left out, as are signatures.              *)
(*                                                                         *)
(* Meaning, at the end, is the venues' side of it, outside the repository. *)
(***************************************************************************)
EXTENDS Integers, Sequences

Clients == {"binance", "binanceFutures", "bybit", "bybitLinear", "kucoin", "okx", "okxSwap", "mexc"}

\* What a strategy can ask for.  A request of any kind carries every field.
OrderRequest ==
  [kind: {"Market", "Limit", "Stop", "StopLimit", "TrailingStop", "MarketIfTouched"},
   tif: {"Gtc", "Ioc", "Fok"}, postOnly: BOOLEAN, reduceOnly: BOOLEAN]

\* Futures, linear perpetuals and swaps know reduce-only orders.
Derivative(client) == client \in {"binanceFutures", "bybitLinear", "okxSwap"}

\* Seeded fault: on a spot market reduce-only is left out instead of refused.
ContradictionSpotReduce(client, o) ==
  \/ o.postOnly /\ o.kind # "Limit"
  \/ o.kind \notin {"Market", "Limit"}

\* Post-only means something for a limit order only, reduce-only for a
\* derivative only, and stops and triggers are not encoded by any of them.
Contradiction(client, o) ==
  \/ o.postOnly /\ o.kind # "Limit"
  \/ o.reduceOnly /\ ~Derivative(client)
  \/ o.kind \notin {"Market", "Limit"}

BinanceFields(o) ==
  [type |-> CASE o.kind = "Market" -> "MARKET"
              [] o.kind = "Limit" /\ o.postOnly -> "LIMIT_MAKER"
              [] OTHER -> "LIMIT",
   timeInForce |-> IF o.kind = "Market" \/ o.postOnly THEN "absent"
                   ELSE CASE o.tif = "Ioc" -> "IOC" [] o.tif = "Fok" -> "FOK" [] OTHER -> "GTC",
   reduceOnly |-> o.reduceOnly]

BybitFields(o) ==
  [type |-> o.kind,
   timeInForce |-> IF o.kind = "Market" THEN "absent"
                   ELSE IF o.postOnly THEN "PostOnly"
                   ELSE CASE o.tif = "Ioc" -> "IOC" [] o.tif = "Fok" -> "FOK" [] OTHER -> "GTC",
   reduceOnly |-> o.reduceOnly]

\* Seeded fault: the time in force of a limit order is not sent.
KucoinFieldsGtc(o) ==
  [type |-> IF o.kind = "Market" THEN "market" ELSE "limit",
   postOnly |-> o.kind = "Limit" /\ o.postOnly,
   timeInForce |-> "absent"]

\* Spot only: a reduce-only order never gets here.
KucoinFields(o) ==
  [type |-> IF o.kind = "Market" THEN "market" ELSE "limit",
   postOnly |-> o.kind = "Limit" /\ o.postOnly,
   timeInForce |-> IF o.kind = "Market" \/ o.postOnly THEN "absent"
                   ELSE CASE o.tif = "Ioc" -> "IOC" [] o.tif = "Fok" -> "FOK" [] OTHER -> "GTC"]

OkxFields(o) ==
  [ordType |-> CASE o.kind = "Market" -> "market"
                 [] o.kind = "Limit" /\ o.postOnly -> "post_only"
                 [] OTHER -> CASE o.tif = "Ioc" -> "ioc" [] o.tif = "Fok" -> "fok"
                               [] OTHER -> "limit",
   reduceOnly |-> o.reduceOnly]

\* order_type: post-only is looked at before the kind and its time in force.
MexcFields(o) ==
  [type |-> IF o.postOnly THEN "LIMIT_MAKER"
            ELSE IF o.kind = "Market" THEN "MARKET"
            ELSE CASE o.tif = "Gtc" -> "LIMIT"
                   [] o.tif = "Ioc" -> "IMMEDIATE_OR_CANCEL"
                   [] o.tif = "Fok" -> "FILL_OR_KILL"]

\* What client puts on the wire for o, a request it does not refuse.
Fields(client, o) ==
  CASE client \in {"binance", "binanceFutures"} -> BinanceFields(o)
    [] client \in {"bybit", "bybitLinear"}      -> BybitFields(o)
    [] client = "kucoin"                        -> KucoinFields(o)
    [] client \in {"okx", "okxSwap"}            -> OkxFields(o)
    [] client = "mexc"                          -> MexcFields(o)

-----------------------------------------------------------------------------
(* The venues                                                               *)

Lifetime(field) ==
  CASE field \in {"IOC", "ioc", "IMMEDIATE_OR_CANCEL"}    -> "ioc"
    [] field \in {"FOK", "fok", "FILL_OR_KILL"}           -> "fok"
    [] field \in {"PostOnly", "post_only", "LIMIT_MAKER"} -> "maker"
    [] field \in {"MARKET", "market", "Market"}           -> "market"
    [] field \in {"GTC", "absent", "limit", "LIMIT", "Limit"} -> "gtc"

\* How the venue lets an order with these fields execute.
Meaning(client, f) ==
  CASE client \in {"okx", "okxSwap"} -> Lifetime(f.ordType)
    [] client = "kucoin" /\ f.postOnly -> "maker"
    [] client = "mexc" -> Lifetime(f.type)
    [] OTHER -> IF Lifetime(f.type) \in {"market", "maker"} THEN Lifetime(f.type)
                ELSE Lifetime(f.timeInForce)

OnlyReduces(client, f) == Derivative(client) /\ f.reduceOnly
=============================================================================

--------------------------- MODULE MCLiveSession ----------------------------
(***************************************************************************)
(* Small instances of LiveSession: each client under a feed its venue or   *)
(* another has, with an order of every kind that is encoded apart, and one *)
(* client under a feed of either kind.                                     *)
(***************************************************************************)
EXTENDS LiveSession

Request(kind, tif, postOnly, reduceOnly) ==
  [kind |-> kind, tif |-> tif, postOnly |-> postOnly, reduceOnly |-> reduceOnly]

AllRequests ==
  { Request("Market", "Gtc", FALSE, FALSE), Request("Stop", "Gtc", FALSE, FALSE),
    Request("Limit", "Gtc", FALSE, FALSE), Request("Limit", "Ioc", FALSE, FALSE),
    Request("Limit", "Fok", FALSE, FALSE), Request("Limit", "Ioc", TRUE, FALSE),
    Request("Limit", "Gtc", FALSE, TRUE), Request("Market", "Gtc", TRUE, FALSE) }

\* Binance spot encodes the others as Binance futures does; with its stream of
\* reports it has the most states.
SmallRequests ==
  [c \in Clients |->
     IF c = "binance"
     THEN { Request("Market", "Gtc", FALSE, FALSE), Request("Limit", "Gtc", FALSE, FALSE),
            Request("Limit", "Ioc", FALSE, FALSE), Request("Limit", "Gtc", FALSE, TRUE) }
     ELSE AllRequests]

SmallPrices == <<1, 2>>

SmallSessions ==
  { <<"binance", c>> : c \in Clients \ {"mexc"} } \cup { <<"mexc", c>> : c \in {"mexc", "okx"} }
=============================================================================

---------------------------- MODULE LiveSession -----------------------------
(***************************************************************************)
(* A live session of akadro-live: the feed of LiveFeed and the orders of   *)
(* LiveOrders under one engine thread, which pulls an event, has the       *)
(* execution client observe it, lets the strategy act on it, and pulls the *)
(* next.  The producer's thread, the user-data thread and the venue go on  *)
(* meanwhile.                                                              *)
(***************************************************************************)
EXTENDS LiveFeed, LiveOrders

CONSTANTS
  Sessions,   \* pairs of a transport and an execution client
  TradedBars  \* bound: windows closed by the time of an order and after it

ASSUME SessionsAssumption ==
  /\ Sessions \subseteq ({"binance", "mexc"} \X Clients)
  /\ TradedBars \in Nat

vars == <<feedVars, orderVars>>

Init ==
  \E s \in Sessions : FeedInit({s[1]}) /\ OrdersInit({s[2]})

\* The engine has nothing more to do for the event before.
Pull ==
  /\ stage = "deciding" /\ consumer = "returned"
  /\ stage' = "waiting"
  /\ consumer' = "pulling"
  /\ UNCHANGED <<socket, market, producer, aggregated, bridge, connected, started, lastTs,
                 connectFailed, connections, feed>>
  /\ UNCHANGED <<client, placed, asked, venueSide, clientSide, account, unanswered>>

\* Every event is shown to the execution client before the strategy sees it.
Observe ==
  /\ stage = "waiting" /\ consumer = "returned"
  /\ stage' = ObserveStage(feed[Len(feed)].type = "Bar")
  /\ UNCHANGED <<feedVars, client, placed, asked, venueSide, clientSide, account, unanswered>>

EngineThread ==
  \/ NextEvent /\ UNCHANGED orderVars
  \/ Orders /\ UNCHANGED feedVars
  \/ Pull
  \/ Observe

\* Bound: what goes on around a session that is over is not followed.
Running == ~HungUp

\* Bound: a session in which an order is sent is a shorter one.
Traded == placed = 0 \/ windows <= TradedBars

Next ==
  /\ \/ Running /\ (WindowCloses \/ LinkDrops) /\ UNCHANGED orderVars
     \/ ProducerThread /\ UNCHANGED orderVars
     \/ Running /\ (Venue \/ ReadReport) /\ UNCHANGED feedVars
     \/ EngineThread
  /\ Traded'

\* Each thread runs on when it can; the venue and the network do as they like.
Spec ==
  /\ Init /\ [][Next]_vars
  /\ WF_feedVars(ProducerThread)
  /\ WF_vars(EngineThread)
=============================================================================

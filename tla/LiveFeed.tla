------------------------------ MODULE LiveFeed ------------------------------
(***************************************************************************)
(* The live market-data path of akadro-live, on two threads.  A producer   *)
(* (run_klines of binance.rs or mexc.rs) reads closed bars off a socket    *)
(* and sends them into a bounded bridge (bridge.rs); the engine's thread   *)
(* pulls from a ReconnectingFeed (reconnect.rs), which opens a new socket  *)
(* and bridge whenever the last one has ended.                             *)
(*                                                                         *)
(* Bars are numbered by their window, from 1; the number is the stamp.     *)
(* The venue and the socket, outside the repository, are LinkDrops,        *)
(* WindowCloses and what is pushed on `wire`.                              *)
(***************************************************************************)
EXTENDS Integers, Sequences

CONSTANTS
  Capacity,         \* of the bridge
  LastBar,          \* bound: windows the venue closes
  MaxConnections    \* bound: connections the factory makes before it gives up

ASSUME LiveFeedAssumption ==
  Capacity \in Nat /\ LastBar \in Nat /\ MaxConnections \in Nat

VARIABLES
  socket,        \* which transport, "binance" or "mexc"
  windows,       \* windows the venue has closed
  link,          \* the socket is open
  wire,          \* klines pushed on it and not read, by window
  producer,      \* where the producer's thread stands
  aggregated,    \* KlineAggregator.last, 0 for None
  queue,         \* the bridge
  overflow,      \* its flag
  consumer,      \* where the engine's thread stands in next_event
  connected,     \* ReconnectingFeed.current is some
  started,       \*   .started
  lastTs,        \*   .last_ts, 0 for the epoch
  connectFailed, \*   .connect_failed
  connections,   \* connections the factory has made
  feed           \* history: what next_event returned

market   == <<windows, link, wire>>
bridge   == <<queue, overflow>>
feedSide == <<consumer, connected, started, lastTs, connectFailed, connections, feed>>
feedVars == <<socket, market, producer, aggregated, bridge, feedSide>>

Bar(n)    == [type |-> "Bar", ts |-> n]
Resync(n) == [type |-> "Resync", ts |-> n]

\* bounded_bridge clamps its capacity to one at least.
Room == IF Capacity = 0 THEN 1 ELSE Capacity

FeedInit(sockets) ==
  /\ socket \in sockets
  /\ windows = 0 /\ link = FALSE /\ wire = << >>
  /\ producer = "ended" /\ aggregated = 0
  /\ queue = << >> /\ overflow = FALSE
  /\ consumer = "returned"
  /\ connected = FALSE /\ started = FALSE /\ lastTs = 0 /\ connectFailed = FALSE
  /\ connections = 0
  /\ feed = << >>

-----------------------------------------------------------------------------
(* The venue                                                                *)

\* Binance pushes a window's kline as closed when it closes; MEXC pushes the
\* next window's, still in progress, from its beginning on.
WindowCloses ==
  /\ windows < LastBar
  /\ windows' = windows + 1
  /\ wire' = IF ~link THEN wire
             ELSE Append(wire, IF socket = "binance" THEN windows + 1 ELSE windows + 2)
  /\ UNCHANGED <<socket, link, producer, aggregated, bridge, feedSide>>

\* The connection is lost, with some of what is on it.
LinkDrops ==
  /\ link
  /\ link' = FALSE
  /\ \E n \in 0..Len(wire) : wire' = SubSeq(wire, 1, n)
  /\ UNCHANGED <<socket, windows, producer, aggregated, bridge, feedSide>>

-----------------------------------------------------------------------------
(* The producer's thread                                                    *)

Connects ==
  /\ producer = "connecting"
  /\ producer' = "reading"
  /\ link' = TRUE
  /\ wire' = IF socket = "mexc" THEN <<windows + 1>> ELSE << >>
  /\ UNCHANGED <<socket, windows, aggregated, bridge, feedSide>>

\* The connection, or MEXC's subscription, fails.
ConnectFails ==
  /\ producer = "connecting"
  /\ producer' = "ended"
  /\ UNCHANGED <<socket, market, aggregated, bridge, feedSide>>

\* KlineAggregator::push: the window before, once another begins.
Aggregate(kline) == IF aggregated \in {0, kline} THEN << >> ELSE <<aggregated>>

\* The bars that a pushed kline closes: none or one.
ClosedBars(kline) == IF socket = "binance" THEN <<kline>> ELSE Aggregate(kline)

HungUp == consumer \in {"aborted", "finished"}

\* One frame is read, decoded and, if it closes a bar, sent with try_send.
ReadFrame ==
  /\ producer = "reading" /\ wire # << >>
  /\ wire' = Tail(wire)
  /\ aggregated' = IF socket = "mexc" THEN Head(wire) ELSE 0
  /\ LET closed == ClosedBars(Head(wire))
     IN  \/ /\ closed = << >> \/ HungUp
            /\ UNCHANGED <<producer, queue>>
         \/ /\ closed # << >> /\ ~HungUp
            /\ Len(queue) < Room
            /\ queue' = queue \o closed
            /\ UNCHANGED producer
         \/ /\ closed # << >> /\ ~HungUp
            /\ Len(queue) >= Room
            /\ producer' = "full"
            /\ UNCHANGED queue
  /\ UNCHANGED <<socket, windows, link, overflow, feedSide>>

\* Seeded fault: the error of send is not looked at.
RaiseFlagAndGoOn ==
  /\ producer = "full"
  /\ overflow' = TRUE
  /\ producer' = "reading"
  /\ UNCHANGED <<socket, market, aggregated, queue, feedSide>>

\* The bar did not fit.  The flag is raised after the attempt, and the thread
\* ends, which drops its sender and closes the socket.
RaiseFlag ==
  /\ producer = "full"
  /\ overflow' = TRUE
  /\ producer' = "ended"
  /\ link' = FALSE /\ wire' = << >>
  /\ UNCHANGED <<socket, windows, aggregated, queue, feedSide>>

\* The socket is read to its end.
ReadFails ==
  /\ producer = "reading" /\ wire = << >> /\ ~link
  /\ producer' = "ended"
  /\ UNCHANGED <<socket, market, aggregated, bridge, feedSide>>

ProducerThread == Connects \/ ConnectFails \/ ReadFrame \/ RaiseFlag \/ ReadFails

-----------------------------------------------------------------------------
(* The engine's thread: ReconnectingFeed::next_event                        *)

\* Seeded fault: only an overflow is taken to lose bars.
NeedsResyncIfFull == started /\ lastTs # 0 /\ overflow

\* A reconnection after data has flowed leaves a gap to be reconciled.
NeedsResync == started /\ lastTs # 0

\* The factory makes a connection: a new bridge and its producer.
Reconnect ==
  /\ consumer = "pulling" /\ ~connected
  /\ connections < MaxConnections
  /\ connections' = connections + 1
  /\ connected' = TRUE
  /\ producer' = "connecting" /\ aggregated' = 0
  /\ queue' = << >> /\ overflow' = FALSE
  /\ IF NeedsResync
     THEN /\ feed' = Append(feed, Resync(lastTs))
          /\ consumer' = "returned"
          /\ UNCHANGED started
     ELSE /\ started' = TRUE
          /\ UNCHANGED <<feed, consumer>>
  /\ UNCHANGED <<socket, market, lastTs, connectFailed>>

\* The factory makes none: the stream is over.
GiveUp ==
  /\ consumer = "pulling" /\ ~connected
  /\ consumer' = "finished"
  /\ connectFailed' = (connectFailed \/ ~started)
  /\ UNCHANGED <<socket, market, producer, aggregated, bridge, connected, started, lastTs,
                 connections, feed>>

\* BoundedBridge::next_event looks at the flag, ...
CheckFlag ==
  /\ consumer = "pulling" /\ connected
  /\ consumer' = IF overflow THEN "aborted" ELSE "receiving"
  /\ UNCHANGED <<socket, market, producer, aggregated, bridge, connected, started, lastTs,
                 connectFailed, connections, feed>>

\* ... then waits for an event, ...
Receive ==
  /\ consumer = "receiving" /\ queue # << >>
  /\ queue' = Tail(queue)
  /\ feed' = Append(feed, Bar(Head(queue)))
  /\ lastTs' = Head(queue)
  /\ consumer' = "returned"
  /\ UNCHANGED <<socket, market, producer, aggregated, overflow, connected, started,
                 connectFailed, connections>>

\* ... or for the end of every sender, upon which the feed reconnects.
Disconnect ==
  /\ consumer = "receiving" /\ queue = << >>
  /\ producer = "ended"
  /\ connected' = FALSE
  /\ consumer' = "pulling"
  /\ UNCHANGED <<socket, market, producer, aggregated, bridge, started, lastTs, connectFailed,
                 connections, feed>>

NextEvent == Reconnect \/ GiveUp \/ CheckFlag \/ Receive \/ Disconnect

-----------------------------------------------------------------------------
(* Properties                                                               *)

\* No bar reaches the engine twice or out of order, none before its window has
\* closed, and where bars were missed - while the socket was down, cut off with
\* it, kept back by the aggregator, or turned away by a full bridge whose flag
\* the engine had already looked at - a resync stands in the gap and is stamped
\* with the last bar before it (reconnect.rs, bridge.rs, KlineAggregator).
GapsMarked ==
  /\ \A m \in DOMAIN feed : feed[m].type = "Bar" => feed[m].ts <= windows
  /\ \A m, n \in DOMAIN feed :
       /\ m < n
       /\ feed[m].type = "Bar" /\ feed[n].type = "Bar"
       /\ \A k \in DOMAIN feed : m < k /\ k < n => feed[k].type # "Bar"
       => /\ feed[m].ts < feed[n].ts
          /\ \/ feed[n].ts = feed[m].ts + 1
             \/ \E k \in DOMAIN feed : m < k /\ k < n /\ feed[k] = Resync(feed[m].ts)

\* An overflow ends the connection: the engine aborts, or finds the bridge at
\* its end; it is never left waiting on it (BridgeSender::send, next_event).
OverflowEnds == producer = "full" ~> HungUp \/ ~connected
=============================================================================

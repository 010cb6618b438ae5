----------------------------- MODULE LiveProofs -----------------------------
(***************************************************************************)
(* What a live session promises, for any capacity of the bridge, any       *)
(* number of bars, connections and orders, any quantity and prices, and    *)
(* any requests: where the feed lost bars it says so, no connector changes *)
(* what an order may do, and every trade and every end of an order reaches *)
(* the account once.                                                       *)
(*                                                                         *)
(* GapsMarked is about what has reached the engine.  What makes it true is *)
(* on its way: the bars in the bridge follow one another, the socket's     *)
(* klines follow those, and the first of all of them follows the last bar  *)
(* the engine had, or a resync (FlowInv).                                  *)
(*                                                                         *)
(* PositionTrue and OpenTrue are about two connectors that differ in all.  *)
(* Under a stream the account is behind by what is on its way, so the      *)
(* invariant speaks of the account once that has come (StreamInv).  Under  *)
(* a poll it is behind order by order: what it has seen of one is in the   *)
(* record that is kept of it, or all there is (PollInv).                   *)
(***************************************************************************)
EXTENDS LiveSession, OperatorProofs

FeedEvent == [type: {"Bar", "Resync"}, ts: Nat]

FeedTypes ==
  /\ socket \in {"binance", "mexc"}
  /\ windows \in Nat /\ link \in BOOLEAN /\ wire \in Seq(Nat)
  /\ producer \in {"ended", "connecting", "reading", "full"} /\ aggregated \in Nat
  /\ queue \in Seq(Nat)
  /\ consumer \in {"returned", "pulling", "receiving", "aborted", "finished"}
  /\ lastTs \in Nat
  /\ feed \in Seq(FeedEvent)

\* The engine's side: lastTs is the last bar it had, if any, and a connection
\* is read only when there is one.
HistoryInv ==
  /\ lastTs <= windows
  /\ lastTs # 0 => started
  /\ connected => started
  /\ consumer = "receiving" => connected
  /\ \A m \in DOMAIN feed :
       feed[m].type = "Bar" =>
         /\ feed[m].ts # 0
         /\ (\A k \in DOMAIN feed : m < k => feed[k].type # "Bar") => feed[m].ts = lastTs

\* Bars may be missing after the last one: the engine has had none, or has
\* just been told.
Marked == lastTs = 0 \/ (feed # << >> /\ feed[Len(feed)] = Resync(lastTs))

\* Bar b may come next to the engine.
Expected(b) == b > lastTs /\ (b = lastTs + 1 \/ Marked)

\* The kline the socket pushes when the next window closes.
NextPush == IF socket = "binance" THEN windows + 1 ELSE windows + 2

\* The socket goes on where bar t ended: the aggregator holds the next bar or
\* none, and the wire has what comes after.
GoesOn(t) ==
  /\ aggregated \in {0, t + 1} /\ (socket = "binance" => aggregated = 0)
  /\ LET base == IF aggregated = 0 THEN t ELSE aggregated
     IN  /\ \A n \in DOMAIN wire : wire[n] = base + n
         /\ base + Len(wire) + 1 <= NextPush
         /\ link => base + Len(wire) + 1 = NextPush

\* The bridge holds the bars after bar q, of which the first may come next.
\* Once the engine has hung up, what the socket has goes nowhere.
Carries(q) ==
  /\ Expected(q + 1)
  /\ \A n \in DOMAIN queue : queue[n] = q + n /\ q + n <= windows
  /\ producer = "reading" /\ ~HungUp => GoesOn(q + Len(queue))

FlowInv ==
  /\ \E q \in Nat : Carries(q)
  /\ producer = "connecting" => queue = << >> /\ aggregated = 0 /\ Marked

FeedInv == FeedTypes /\ HistoryInv /\ FlowInv /\ GapsMarked

-----------------------------------------------------------------------------
\* Nothing has been connected at first.
LEMMA InitFeed == Init => FeedInv
<1> SUFFICES ASSUME Init PROVE FeedInv
  OBVIOUS
<1>1. PICK s \in Sessions : FeedInit({s[1]})
  BY DEF Init
<1>2. socket \in {"binance", "mexc"}
  BY <1>1, SessionsAssumption DEF FeedInit
<1>3. FeedTypes
  <2>1. /\ windows = 0 /\ link = FALSE /\ wire = << >> /\ producer = "ended" /\ aggregated = 0
        /\ queue = << >> /\ consumer = "returned" /\ lastTs = 0 /\ feed = << >>
    BY <1>1 DEF FeedInit
  <2>2. wire \in Seq(Nat) /\ queue \in Seq(Nat) /\ feed \in Seq(FeedEvent)
    BY <2>1
  <2>3. link \in BOOLEAN
    BY <2>1
  <2> QED
    BY <1>2, <2>1, <2>2, <2>3 DEF FeedTypes
<1>4. HistoryInv /\ GapsMarked
  BY <1>1 DEF FeedInit, HistoryInv, GapsMarked
<1>5. Carries(0)
  BY <1>1 DEF FeedInit, Carries, Expected, Marked
<1>6. FlowInv
  BY <1>1, <1>5 DEF FeedInit, FlowInv
<1> QED
  BY <1>3, <1>4, <1>6 DEF FeedInv

\* What the engine has had stays as it is when it is told nothing new.
LEMMA NothingTold ==
  ASSUME FeedInv, UNCHANGED <<lastTs, feed, socket>>, windows' \in Nat, windows' >= windows
  PROVE  /\ GapsMarked' /\ lastTs' <= windows'
         /\ Marked' = Marked /\ \A b : Expected(b)' = Expected(b)
<1>1. \A m \in DOMAIN feed : feed[m] \in FeedEvent
  BY DEF FeedInv, FeedTypes
<1>2. GapsMarked'
  BY <1>1 DEF FeedInv, FeedTypes, FeedEvent, GapsMarked, Resync
<1> QED
  BY <1>2 DEF FeedInv, FeedTypes, HistoryInv, Marked, Expected, Resync

\* A step that moves no bar and tells the engine nothing: what is on its way is
\* what was.
LEMMA StillFlows ==
  ASSUME FeedInv, UNCHANGED <<socket, windows, wire, aggregated, queue, lastTs, feed>>,
         producer' \in {producer, "ended"}, link' \in {link, FALSE},
         HungUp => HungUp'
  PROVE  FlowInv' /\ GapsMarked'
<1>1. GapsMarked' /\ Marked' = Marked /\ \A b : Expected(b)' = Expected(b)
  BY NothingTold DEF FeedInv, FeedTypes
<1>2. PICK q \in Nat : Carries(q)
  BY DEF FeedInv, FlowInv
<1>3. \A t : GoesOn(t) => GoesOn(t)'
  BY DEF GoesOn, NextPush
<1>4. Carries(q)'
  BY <1>1, <1>2, <1>3 DEF Carries, HungUp
<1> QED
  BY <1>1, <1>2, <1>4 DEF FeedInv, FlowInv

\* Steps of either thread that move no bar.
LEMMA QuietFeed ==
  ASSUME FeedInv,
         \/ UNCHANGED feedVars \/ Pull \/ ConnectFails \/ ReadFails \/ GiveUp \/ CheckFlag
         \/ Disconnect
  PROVE  FeedInv'
<1>1. FlowInv' /\ GapsMarked'
  BY StillFlows
     DEF FeedInv, FeedTypes, HungUp, feedVars, market, bridge, feedSide, Pull, ConnectFails,
         ReadFails, GiveUp, CheckFlag, Disconnect
<1>2. UNCHANGED <<socket, windows, link, wire, aggregated, queue, started, lastTs, feed>>
  BY DEF feedVars, market, bridge, feedSide, Pull, ConnectFails, ReadFails, GiveUp, CheckFlag,
         Disconnect
<1>3. producer' \in {producer, "ended"}
  BY DEF feedVars, bridge, feedSide, Pull, ConnectFails, ReadFails, GiveUp, CheckFlag, Disconnect
<1>4. /\ connected' => connected
      /\ \/ consumer' \in {"pulling", "aborted", "finished"}
         \/ consumer' = "receiving" /\ connected'
         \/ consumer' = consumer /\ connected' = connected
  BY DEF feedVars, feedSide, Pull, ConnectFails, ReadFails, GiveUp, CheckFlag, Disconnect
<1>5. FeedTypes'
  <2>1. producer' \in {"ended", "connecting", "reading", "full"}
    BY <1>3 DEF FeedInv, FeedTypes
  <2>2. consumer' \in {"returned", "pulling", "receiving", "aborted", "finished"}
    BY <1>4 DEF FeedInv, FeedTypes
  <2> QED
    BY <1>2, <2>1, <2>2 DEF FeedInv, FeedTypes
<1>6. HistoryInv'
  BY <1>2, <1>4 DEF FeedInv, HistoryInv
<1> QED
  BY <1>1, <1>5, <1>6 DEF FeedInv

\* A window closes, and an open socket gets the next kline.
LEMMA WindowClosesFeed ==
  ASSUME FeedInv, WindowCloses
  PROVE  FeedInv'
<1> DEFINE push == IF socket = "binance" THEN windows + 1 ELSE windows + 2
<1>1. /\ windows' = windows + 1 /\ windows \in Nat
      /\ wire' = IF ~link THEN wire ELSE Append(wire, push)
      /\ UNCHANGED <<socket, link, producer, aggregated, queue, lastTs, feed, consumer,
                     connected, started>>
  BY DEF WindowCloses, FeedInv, FeedTypes, bridge, feedSide
<1>2. push \in Nat /\ wire' \in Seq(Nat) /\ wire \in Seq(Nat)
  BY <1>1 DEF FeedInv, FeedTypes
<1>3. GapsMarked' /\ Marked' = Marked /\ \A b : Expected(b)' = Expected(b)
  BY <1>1, NothingTold
<1>4. PICK q \in Nat : Carries(q)
  BY DEF FeedInv, FlowInv
<1>5. ASSUME NEW t \in Nat, GoesOn(t) PROVE GoesOn(t)'
  <2>1. aggregated \in Nat /\ link \in BOOLEAN /\ Len(wire) \in Nat
    BY DEF FeedInv, FeedTypes
  <2>2. CASE ~link
    BY <1>1, <1>5, <2>1, <2>2 DEF GoesOn, NextPush
  <2>3. CASE link
    <3>1. /\ Len(wire') = Len(wire) + 1
          /\ \A n \in DOMAIN wire' : wire'[n] = IF n \in DOMAIN wire THEN wire[n] ELSE push
          /\ DOMAIN wire' = 1..Len(wire) + 1 /\ DOMAIN wire = 1..Len(wire)
      BY <1>1, <1>2, <2>3
    <3>2. push = NextPush /\ NextPush' = NextPush + 1
      BY <1>1 DEF NextPush
    <3> HIDE DEF push
    <3> PICK base \in Nat : base = IF aggregated = 0 THEN t ELSE aggregated
      BY <2>1
    <3>3. /\ \A n \in DOMAIN wire : wire[n] = base + n
          /\ base + Len(wire) + 1 = push
      BY <1>5, <2>3, <3>2 DEF GoesOn
    <3>4. \A n \in DOMAIN wire' : wire'[n] = base + n
      BY <2>1, <3>1, <3>3
    <3>5. base + Len(wire') + 1 = NextPush' /\ base + Len(wire') + 1 <= NextPush'
      BY <2>1, <3>1, <3>2, <3>3
    <3>6. base = IF aggregated' = 0 THEN t ELSE aggregated'
      BY <1>1
    <3>7. aggregated' \in {0, t + 1} /\ (socket' = "binance" => aggregated' = 0)
      BY <1>1, <1>5 DEF GoesOn
    <3> QED
      BY <3>4, <3>5, <3>6, <3>7 DEF GoesOn
  <2> QED
    BY <2>2, <2>3
<1>6. q + Len(queue) \in Nat /\ \A n \in DOMAIN queue : n \in Nat
  BY DEF FeedInv, FeedTypes
<1>7. Carries(q)'
  <2>1. producer' = "reading" /\ ~HungUp' => GoesOn(q + Len(queue))'
    BY <1>1, <1>4, <1>5, <1>6 DEF Carries, HungUp
  <2> QED
    BY <1>1, <1>3, <1>4, <1>6, <2>1 DEF Carries, HungUp
<1>8. FlowInv'
  BY <1>1, <1>3, <1>7 DEF FeedInv, FlowInv
<1>9. FeedTypes' /\ HistoryInv'
  BY <1>1, <1>2 DEF FeedInv, FeedTypes, HistoryInv
<1> QED
  BY <1>3, <1>8, <1>9 DEF FeedInv

\* The socket is lost with some of what is on it: what is left has no gap.
LEMMA LinkDropsFeed ==
  ASSUME FeedInv, LinkDrops
  PROVE  FeedInv'
<1>1. PICK k \in 0..Len(wire) : wire' = SubSeq(wire, 1, k)
  BY DEF LinkDrops
<1>2. /\ wire' \in Seq(Nat) /\ Len(wire') = k /\ k <= Len(wire)
      /\ \A n \in DOMAIN wire' : n \in DOMAIN wire /\ wire'[n] = wire[n]
  BY <1>1 DEF FeedInv, FeedTypes
<1>3. /\ link' = FALSE
      /\ UNCHANGED <<socket, windows, producer, aggregated, queue, lastTs, feed, consumer,
                     connected, started>>
  BY DEF LinkDrops, bridge, feedSide
<1>4. GapsMarked' /\ Marked' = Marked /\ \A b : Expected(b)' = Expected(b)
  BY <1>3, NothingTold DEF FeedInv, FeedTypes
<1>5. PICK q \in Nat : Carries(q)
  BY DEF FeedInv, FlowInv
<1>6. ASSUME NEW t \in Nat, GoesOn(t) PROVE GoesOn(t)'
  <2>1. aggregated \in Nat /\ Len(wire) \in Nat /\ k \in Nat /\ windows \in Nat
    BY DEF FeedInv, FeedTypes
  <2> QED
    BY <1>2, <1>3, <1>6, <2>1 DEF GoesOn, NextPush
<1>7. q + Len(queue) \in Nat
  BY DEF FeedInv, FeedTypes
<1>8. Carries(q)'
  BY <1>3, <1>4, <1>5, <1>6, <1>7 DEF Carries, HungUp
<1>9. FlowInv'
  BY <1>3, <1>4, <1>8 DEF FeedInv, FlowInv
<1>10. FeedTypes' /\ HistoryInv'
  BY <1>2, <1>3 DEF FeedInv, FeedTypes, HistoryInv
<1> QED
  BY <1>4, <1>9, <1>10 DEF FeedInv

\* A socket opens: its first bar is one that has not closed yet.
LEMMA ConnectsFeed ==
  ASSUME FeedInv, Connects
  PROVE  FeedInv'
<1>1. /\ producer = "connecting" /\ producer' = "reading" /\ link' = TRUE
      /\ wire' = IF socket = "mexc" THEN <<windows + 1>> ELSE << >>
      /\ UNCHANGED <<socket, windows, aggregated, queue, lastTs, feed, consumer, connected,
                     started>>
  BY DEF Connects, bridge, feedSide
<1>2. GapsMarked' /\ Marked' = Marked /\ \A b : Expected(b)' = Expected(b)
  BY <1>1, NothingTold DEF FeedInv, FeedTypes
<1>3. queue = << >> /\ aggregated = 0 /\ Marked /\ windows \in Nat
      /\ lastTs <= windows /\ lastTs \in Nat /\ socket \in {"binance", "mexc"}
  BY <1>1 DEF FeedInv, FeedTypes, HistoryInv, FlowInv
<1>4. wire' \in Seq(Nat) /\ Len(wire') = IF socket = "mexc" THEN 1 ELSE 0
  BY <1>1, <1>3
<1>5. \A n \in DOMAIN wire' : n = 1 /\ wire'[n] = windows + 1
  BY <1>1, <1>3
<1> PICK now \in Nat : now = windows
  BY <1>3
<1>6. GoesOn(now)'
  BY <1>1, <1>3, <1>4, <1>5 DEF GoesOn, NextPush
<1>7. Carries(now)'
  <2>1. Len(queue') = 0 /\ DOMAIN queue' = {}
    BY <1>1, <1>3
  <2>2. Expected(now + 1)
    BY <1>3 DEF Expected
  <2>3. GoesOn(now + Len(queue))'
    <3>1. now + Len(queue') = now
      BY <2>1
    <3> QED
      BY <1>6, <3>1
  <2> QED
    BY <1>2, <2>1, <2>2, <2>3 DEF Carries, HungUp
<1>8. FlowInv'
  BY <1>1, <1>3, <1>7 DEF FlowInv
<1>9. FeedTypes' /\ HistoryInv'
  BY <1>1, <1>4 DEF FeedInv, FeedTypes, HistoryInv
<1> QED
  BY <1>2, <1>8, <1>9 DEF FeedInv

\* A read passes on at most one bar, the next: the one that has just closed.
LEMMA ReadFrameFeed ==
  ASSUME FeedInv, ReadFrame
  PROVE  FeedInv'
<1> DEFINE kline  == Head(wire)
           closed == ClosedBars(kline)
<1>1. /\ producer = "reading" /\ wire # << >> /\ wire' = Tail(wire)
      /\ aggregated' = IF socket = "mexc" THEN kline ELSE 0
      /\ UNCHANGED <<socket, windows, link, lastTs, feed, consumer, connected, started>>
      /\ \/ closed = << >> /\ UNCHANGED <<producer, queue>>
         \/ HungUp /\ UNCHANGED <<producer, queue>>
         \/ closed # << >> /\ ~HungUp /\ queue' = queue \o closed /\ UNCHANGED producer
         \/ producer' = "full" /\ UNCHANGED queue
  BY DEF ReadFrame, feedSide
<1>2. /\ wire \in Seq(Nat) /\ kline \in Nat /\ wire' \in Seq(Nat) /\ Len(wire') = Len(wire) - 1
      /\ kline = wire[1] /\ \A n \in DOMAIN wire' : n + 1 \in DOMAIN wire /\ wire'[n] = wire[n + 1]
      /\ windows \in Nat /\ aggregated \in Nat /\ queue \in Seq(Nat) /\ link \in BOOLEAN
      /\ aggregated' \in Nat /\ socket \in {"binance", "mexc"} /\ Len(wire) \in Nat
  BY <1>1 DEF FeedInv, FeedTypes
<1>3. GapsMarked' /\ Marked' = Marked /\ \A b : Expected(b)' = Expected(b)
  BY <1>1, <1>2, NothingTold
<1>4. HistoryInv' /\ HungUp' = HungUp
  BY <1>1 DEF FeedInv, HistoryInv, HungUp
<1>5. closed = IF socket = "binance" THEN <<kline>>
               ELSE IF aggregated \in {0, kline} THEN << >> ELSE <<aggregated>>
  BY DEF ClosedBars, Aggregate
<1> HIDE DEF kline, closed
<1>6. queue' \in Seq(Nat) /\ producer' \in {"reading", "full"}
  <2>1. closed \in Seq(Nat)
    BY <1>2, <1>5
  <2>2. queue \o closed \in Seq(Nat)
    BY <1>2, <2>1
  <2> QED
    BY <1>1, <1>2, <2>2
<1>7. FeedTypes'
  BY <1>1, <1>2, <1>6 DEF FeedInv, FeedTypes
<1>8. PICK q \in Nat : Carries(q)
  BY DEF FeedInv, FlowInv
<1>9. CASE producer' = "full" \/ HungUp
  <2>1. UNCHANGED queue
    BY <1>1, <1>9
  <2>2. Carries(q)'
    BY <1>1, <1>3, <1>4, <1>8, <1>9, <2>1 DEF Carries
  <2>3. FlowInv'
    BY <1>6, <2>2 DEF FlowInv
  <2> QED
    BY <1>3, <1>4, <1>7, <2>3 DEF FeedInv
<1>10. CASE producer' = "reading" /\ ~HungUp
  <2> PICK t \in Nat : t = q + Len(queue)
    BY <1>2
  <2> PICK base \in Nat : base = IF aggregated = 0 THEN t ELSE aggregated
    BY <1>2
  <2>0. GoesOn(t)
    BY <1>1, <1>8, <1>10 DEF Carries
  <2>1. /\ aggregated \in {0, t + 1} /\ (socket = "binance" => aggregated = 0)
        /\ kline = base + 1
        /\ \A n \in DOMAIN wire' : wire'[n] = base + 1 + n
        /\ base + 1 + Len(wire') + 1 <= NextPush
        /\ link => base + 1 + Len(wire') + 1 = NextPush
    <3>1. /\ aggregated \in {0, t + 1} /\ (socket = "binance" => aggregated = 0)
          /\ \A n \in DOMAIN wire : wire[n] = base + n
          /\ base + Len(wire) + 1 <= NextPush
          /\ link => base + Len(wire) + 1 = NextPush
      BY <2>0 DEF GoesOn
    <3>2. \A n \in DOMAIN wire' : n \in Nat
      <4>1. DOMAIN wire' = 1..Len(wire')
        BY <1>2
      <4> QED
        BY <4>1
    <3>3. 1 \in DOMAIN wire
      BY <1>1, <1>2
    <3>4. NextPush \in Nat /\ base + Len(wire) + 1 = base + 1 + Len(wire') + 1
      BY <1>2 DEF NextPush
    <3>5. kline = base + 1
      BY <1>2, <3>1, <3>3
    <3>6. ASSUME NEW n \in DOMAIN wire' PROVE wire'[n] = base + 1 + n
      <4>1. n \in Nat /\ wire'[n] = wire[n + 1] /\ wire[n + 1] = base + (n + 1)
        BY <1>2, <3>1, <3>2
      <4> QED
        BY <4>1
    <3> QED
      BY <3>1, <3>4, <3>5, <3>6
  <2>2. NextPush' = NextPush
    BY <1>1 DEF NextPush
  <2>3. CASE closed = << >>
    <3>1. socket = "mexc" /\ aggregated = 0 /\ aggregated' = t + 1 /\ UNCHANGED queue
      BY <1>1, <1>2, <1>5, <2>1, <2>3
    <3>2. GoesOn(t)'
      BY <1>1, <1>2, <2>1, <2>2, <3>1 DEF GoesOn
    <3>3. Carries(q)'
      BY <1>1, <1>3, <1>8, <3>1, <3>2 DEF Carries
    <3> QED
      BY <1>3, <1>4, <1>7, <1>10, <3>3 DEF FeedInv, FlowInv
  <2>4. CASE closed # << >>
    <3>1. closed = <<t + 1>>
      BY <1>2, <1>5, <2>1, <2>4
    <3>2. queue' = queue \o <<t + 1>>
      BY <1>1, <1>10, <2>4, <3>1
    <3>3. /\ Len(queue') = Len(queue) + 1 /\ DOMAIN queue' = 1..Len(queue) + 1
          /\ \A n \in 1..Len(queue) : queue'[n] = queue[n]
          /\ queue'[Len(queue) + 1] = t + 1
      BY <1>2, <3>2
    <3>4. t + 1 <= windows
      BY <1>1, <1>2, <2>1, <2>4, <1>5 DEF NextPush
    <3>5. PICK s \in Nat : s = t + 1
      OBVIOUS
    <3>6. GoesOn(s)'
      <4>1. base + 1 = IF aggregated' = 0 THEN s ELSE aggregated'
        BY <1>1, <1>2, <1>5, <2>1, <2>4, <3>5
      <4>2. aggregated' \in {0, s + 1} /\ (socket' = "binance" => aggregated' = 0)
        BY <1>1, <1>2, <1>5, <2>1, <2>4, <3>5
      <4> PICK next \in Nat : next = base + 1
        OBVIOUS
      <4>3. /\ \A n \in DOMAIN wire' : wire'[n] = next + n
            /\ next + Len(wire') + 1 <= NextPush'
            /\ link' => next + Len(wire') + 1 = NextPush'
        BY <1>1, <2>1, <2>2
      <4>4. next = IF aggregated' = 0 THEN s ELSE aggregated'
        BY <4>1
      <4> QED
        BY <4>2, <4>3, <4>4 DEF GoesOn
    <3>7. q + Len(queue') = s
      BY <1>2, <3>3, <3>5
    <3>8. \A n \in DOMAIN queue' : queue'[n] = q + n /\ q + n <= windows'
      <4>1. \A n \in 1..Len(queue) : queue[n] = q + n /\ q + n <= windows
        <5>1. DOMAIN queue = 1..Len(queue)
          BY <1>2
        <5> QED
          BY <1>8, <5>1 DEF Carries
      <4>2. \A n \in 1..Len(queue) + 1 : n \in 1..Len(queue) \/ n = Len(queue) + 1
        <5>1. Len(queue) \in Nat
          BY <1>2
        <5> QED
          BY <5>1
      <4>3. q + (Len(queue) + 1) = t + 1
        BY <1>2
      <4> QED
        BY <1>1, <3>3, <3>4, <4>1, <4>2, <4>3
    <3>9. Expected(q + 1)'
      BY <1>3, <1>8 DEF Carries
    <3>10. Carries(q)'
      BY <3>6, <3>7, <3>8, <3>9 DEF Carries
    <3> QED
      BY <1>3, <1>4, <1>7, <1>10, <3>10 DEF FeedInv, FlowInv
  <2> QED
    BY <2>3, <2>4
<1> QED
  BY <1>6, <1>9, <1>10

\* A full bridge raises its flag and ends the thread, and with it the socket.
LEMMA RaiseFlagFeed ==
  ASSUME FeedInv, RaiseFlag
  PROVE  FeedInv'
<1>1. /\ producer' = "ended" /\ link' = FALSE /\ wire' = << >>
      /\ UNCHANGED <<socket, windows, aggregated, queue, lastTs, feed, consumer, connected,
                     started>>
  BY DEF RaiseFlag, feedSide
<1>2. GapsMarked' /\ Marked' = Marked /\ \A b : Expected(b)' = Expected(b)
  BY <1>1, NothingTold DEF FeedInv, FeedTypes
<1>3. PICK q \in Nat : Carries(q)
  BY DEF FeedInv, FlowInv
<1>4. Carries(q)'
  BY <1>1, <1>2, <1>3 DEF Carries
<1>5. FlowInv'
  BY <1>1, <1>4 DEF FlowInv
<1>6. FeedTypes' /\ HistoryInv'
  <2>1. wire' \in Seq(Nat)
    BY <1>1
  <2>2. link' \in BOOLEAN
    BY <1>1
  <2> QED
    BY <1>1, <2>1, <2>2 DEF FeedInv, FeedTypes, HistoryInv
<1> QED
  BY <1>2, <1>5, <1>6 DEF FeedInv

\* An event appended to the history leaves the rest of it as it was.
LEMMA Told ==
  ASSUME FeedTypes, NEW e \in FeedEvent, feed' = Append(feed, e)
  PROVE  /\ feed' \in Seq(FeedEvent) /\ feed' # << >> /\ Len(feed) \in Nat
         /\ Len(feed') = Len(feed) + 1 /\ feed'[Len(feed) + 1] = e
         /\ DOMAIN feed' = DOMAIN feed \cup {Len(feed) + 1}
         /\ \A m \in DOMAIN feed : /\ m \in Nat /\ m < Len(feed) + 1
                                   /\ feed[m] \in FeedEvent /\ feed'[m] = feed[m]
<1>1. feed \in Seq(FeedEvent)
  BY DEF FeedTypes
<1>2. Len(feed) \in Nat /\ DOMAIN feed = 1..Len(feed) /\ \A m \in DOMAIN feed : feed[m] \in FeedEvent
  BY <1>1
<1>3. feed' \in Seq(FeedEvent) /\ Len(feed') = Len(feed) + 1 /\ feed'[Len(feed) + 1] = e
      /\ \A m \in 1..Len(feed) : feed'[m] = feed[m]
  BY <1>1
<1>4. feed' # << >>
  BY <1>2, <1>3
<1>5. DOMAIN feed' = 1..Len(feed) + 1
  BY <1>3
<1>6. DOMAIN feed' = DOMAIN feed \cup {Len(feed) + 1}
  BY <1>2, <1>5
<1> QED
  BY <1>2, <1>3, <1>4, <1>6

\* A bar or a resync appended leaves every gap marked, if a bar was expected.
LEMMA ToldInOrder ==
  ASSUME FeedInv, NEW e \in FeedEvent, feed' = Append(feed, e), windows' = windows,
         e.type = "Bar" => Expected(e.ts) /\ e.ts <= windows
  PROVE  GapsMarked'
<1> DEFINE last == Len(feed) + 1
<1>1. /\ last \in Nat /\ feed'[last] = e /\ DOMAIN feed' = DOMAIN feed \cup {last}
      /\ \A m \in DOMAIN feed : /\ m \in Nat /\ m < last
                                /\ feed[m] \in FeedEvent /\ feed'[m] = feed[m]
  BY Told DEF FeedInv
<1>2. GapsMarked /\ HistoryInv /\ lastTs \in Nat /\ windows \in Nat
  BY DEF FeedInv, FeedTypes
<1>3. \A m \in DOMAIN feed' : feed'[m].type = "Bar" => feed'[m].ts <= windows'
  BY <1>1, <1>2 DEF GapsMarked
<1>4. ASSUME NEW m \in DOMAIN feed', NEW n \in DOMAIN feed', m < n,
             feed'[m].type = "Bar", feed'[n].type = "Bar",
             \A k \in DOMAIN feed' : m < k /\ k < n => feed'[k].type # "Bar"
      PROVE  /\ feed'[m].ts < feed'[n].ts
             /\ \/ feed'[n].ts = feed'[m].ts + 1
                \/ \E k \in DOMAIN feed' : m < k /\ k < n /\ feed'[k] = Resync(feed'[m].ts)
  <2>1. m \in DOMAIN feed
    BY <1>1, <1>4
  <2>2. CASE n \in DOMAIN feed
    BY <1>1, <1>2, <1>4, <2>1, <2>2 DEF GapsMarked
  <2>3. CASE n = last
    <3>1. \A k \in DOMAIN feed : m < k => feed[k].type # "Bar"
      BY <1>1, <1>4, <2>3
    <3>2. feed'[m].ts = lastTs /\ lastTs # 0
      BY <1>1, <1>2, <1>4, <2>1, <3>1 DEF HistoryInv
    <3>3. Expected(e.ts) /\ feed'[n].ts = e.ts
      BY <1>1, <1>4, <2>3
    <3>4. CASE e.ts = lastTs + 1
      BY <1>2, <3>2, <3>3, <3>4
    <3>5. CASE Marked
      <4>1. feed # << >> /\ feed[Len(feed)] = Resync(lastTs)
        BY <3>2, <3>5 DEF Marked
      <4>2. Len(feed) \in DOMAIN feed
        BY <4>1 DEF FeedInv, FeedTypes
      <4>3. m # Len(feed) /\ m <= Len(feed)
        BY <1>1, <1>4, <2>1, <4>1 DEF Resync
      <4>4. m < Len(feed) /\ Len(feed) < n /\ feed'[Len(feed)] = Resync(feed'[m].ts)
        BY <1>1, <2>1, <2>3, <3>2, <4>1, <4>2, <4>3
      <4> QED
        BY <1>1, <3>2, <3>3, <4>2, <4>4 DEF Expected
    <3> QED
      BY <3>3, <3>4, <3>5 DEF Expected
  <2> QED
    BY <1>1, <2>2, <2>3
<1> QED
  BY <1>3, <1>4 DEF GapsMarked

\* A new connection, and a resync if any bar came before it.
LEMMA ReconnectFeed ==
  ASSUME FeedInv, Reconnect
  PROVE  FeedInv'
<1>1. /\ consumer = "pulling" /\ connected' = TRUE /\ producer' = "connecting"
      /\ aggregated' = 0 /\ queue' = << >>
      /\ UNCHANGED <<socket, windows, link, wire, lastTs>>
      /\ \/ /\ NeedsResync
            /\ feed' = Append(feed, Resync(lastTs)) /\ consumer' = "returned" /\ UNCHANGED started
         \/ ~NeedsResync /\ started' = TRUE /\ UNCHANGED <<feed, consumer>>
  BY DEF Reconnect, market
<1>2. /\ lastTs \in Nat /\ windows \in Nat /\ lastTs <= windows /\ (lastTs # 0 => started)
      /\ FeedTypes
  BY DEF FeedInv, FeedTypes, HistoryInv
<1>3. feed' \in Seq(FeedEvent) /\ GapsMarked' /\ HistoryInv' /\ Marked'
  <2>1. CASE ~NeedsResync
    <3>1. GapsMarked'
      BY <1>1, <1>2, <2>1, NothingTold
    <3>2. HistoryInv' /\ Marked'
      BY <1>1, <1>2, <2>1 DEF FeedInv, HistoryInv, Marked, NeedsResync
    <3> QED
      BY <1>1, <2>1, <3>1, <3>2 DEF FeedInv, FeedTypes
  <2>2. CASE NeedsResync
    <3>1. Resync(lastTs) \in FeedEvent /\ Resync(lastTs).type = "Resync"
      BY <1>2 DEF Resync, FeedEvent
    <3>2. feed' = Append(feed, Resync(lastTs)) /\ started'
      BY <1>1, <2>2 DEF NeedsResync
    <3>3. /\ feed' \in Seq(FeedEvent) /\ feed' # << >> /\ Len(feed) \in Nat
          /\ Len(feed') = Len(feed) + 1 /\ feed'[Len(feed) + 1] = Resync(lastTs)
          /\ DOMAIN feed' = DOMAIN feed \cup {Len(feed) + 1}
          /\ \A m \in DOMAIN feed : /\ m \in Nat /\ m < Len(feed) + 1
                                    /\ feed[m] \in FeedEvent /\ feed'[m] = feed[m]
      BY <1>2, <3>1, <3>2, Told
    <3>4. Marked'
      BY <1>1, <3>3 DEF Marked, Resync
    <3>5. GapsMarked'
      BY <1>1, <3>1, <3>2, ToldInOrder
    <3>6. HistoryInv'
      <4>1. ASSUME NEW m \in DOMAIN feed', feed'[m].type = "Bar"
            PROVE  /\ feed'[m].ts # 0
                   /\ (\A k \in DOMAIN feed' : m < k => feed'[k].type # "Bar")
                        => feed'[m].ts = lastTs'
        <5>1. m \in DOMAIN feed
          BY <3>1, <3>3, <4>1
        <5> QED
          BY <1>1, <3>3, <4>1, <5>1 DEF FeedInv, HistoryInv
      <4> QED
        BY <1>1, <1>2, <3>2, <4>1 DEF FeedInv, HistoryInv
    <3> QED
      BY <3>3, <3>4, <3>5, <3>6
  <2> QED
    BY <2>1, <2>2
<1> PICK q \in Nat : q = lastTs
  BY <1>2
<1>4. Carries(q)'
  <2>1. Expected(q + 1)'
    BY <1>1, <1>2 DEF Expected
  <2> QED
    BY <1>1, <2>1 DEF Carries
<1>5. FlowInv'
  BY <1>1, <1>3, <1>4 DEF FlowInv
<1>6. FeedTypes'
  <2>1. queue' \in Seq(Nat)
    BY <1>1
  <2> QED
    BY <1>1, <1>3, <2>1 DEF FeedInv, FeedTypes
<1> QED
  BY <1>3, <1>5, <1>6 DEF FeedInv

\* The engine gets the bar at the head of the bridge.
LEMMA ReceiveFeed ==
  ASSUME FeedInv, Receive
  PROVE  FeedInv'
<1>1. /\ consumer = "receiving" /\ queue # << >> /\ queue' = Tail(queue)
      /\ feed' = Append(feed, Bar(Head(queue))) /\ lastTs' = Head(queue)
      /\ consumer' = "returned"
      /\ UNCHANGED <<socket, windows, link, wire, producer, aggregated, connected, started>>
  BY DEF Receive, market
<1>2. PICK q \in Nat : Carries(q)
  BY DEF FeedInv, FlowInv
<1>3. /\ queue \in Seq(Nat) /\ Len(queue) \in Nat \ {0} /\ 1 \in DOMAIN queue
      /\ Head(queue) = queue[1]
  BY <1>1 DEF FeedInv, FeedTypes
<1>4. Head(queue) = q + 1 /\ q + 1 <= windows /\ Expected(q + 1)
  BY <1>2, <1>3 DEF Carries
<1>5. /\ queue' \in Seq(Nat) /\ Len(queue') = Len(queue) - 1
      /\ \A n \in DOMAIN queue' : n \in Nat /\ n + 1 \in DOMAIN queue /\ queue'[n] = queue[n + 1]
  BY <1>1, <1>3
<1>6. Bar(q + 1) \in FeedEvent /\ Bar(q + 1).type = "Bar" /\ Bar(q + 1).ts = q + 1
  BY DEF Bar, FeedEvent
<1>7. GapsMarked'
  BY <1>1, <1>4, <1>6, ToldInOrder
<1>8. /\ feed' \in Seq(FeedEvent) /\ feed'[Len(feed) + 1] = Bar(q + 1) /\ Len(feed) \in Nat
      /\ DOMAIN feed' = DOMAIN feed \cup {Len(feed) + 1}
      /\ \A m \in DOMAIN feed : /\ m \in Nat /\ m < Len(feed) + 1
                                /\ feed[m] \in FeedEvent /\ feed'[m] = feed[m]
  BY <1>1, <1>4, <1>6, Told DEF FeedInv
<1>9. HistoryInv'
  <2>1. ASSUME NEW m \in DOMAIN feed', feed'[m].type = "Bar"
        PROVE  /\ feed'[m].ts # 0
               /\ (\A k \in DOMAIN feed' : m < k => feed'[k].type # "Bar") => feed'[m].ts = lastTs'
    <3>1. CASE m = Len(feed) + 1
      BY <1>1, <1>4, <1>6, <1>8, <3>1
    <3>2. CASE m \in DOMAIN feed
      BY <1>6, <1>8, <2>1, <3>2 DEF FeedInv, HistoryInv
    <3> QED
      BY <1>8, <3>1, <3>2
  <2> QED
    BY <1>1, <1>4, <2>1 DEF FeedInv, HistoryInv
<1> PICK t \in Nat : t = q + 1
  OBVIOUS
<1>10. Carries(t)'
  <2>1. Expected(t + 1)'
    BY <1>1, <1>4 DEF Expected
  <2>2. \A n \in DOMAIN queue' : queue'[n] = t + n /\ t + n <= windows'
    <3>1. ASSUME NEW n \in DOMAIN queue' PROVE queue'[n] = t + n /\ t + n <= windows'
      <4>1. n \in Nat /\ queue'[n] = q + (n + 1) /\ q + (n + 1) <= windows'
        BY <1>1, <1>2, <1>5 DEF Carries
      <4> QED
        BY <4>1
    <3> QED
      BY <3>1
  <2>3. t + Len(queue') = q + Len(queue)
    BY <1>3, <1>5
  <2>4. producer' = "reading" /\ ~HungUp' => GoesOn(t + Len(queue))'
    <3> PICK s \in Nat : s = q + Len(queue)
      BY <1>3
    <3>1. GoesOn(s) => GoesOn(s)'
      BY <1>1 DEF GoesOn, NextPush
    <3> QED
      BY <1>1, <1>2, <2>3, <3>1 DEF Carries, HungUp
  <2> QED
    BY <2>1, <2>2, <2>4 DEF Carries
<1>11. FlowInv'
  <2>1. producer' # "connecting"
    BY <1>1 DEF FeedInv, FlowInv
  <2> QED
    BY <1>10, <2>1 DEF FlowInv
<1>12. FeedTypes'
  BY <1>1, <1>4, <1>5, <1>8 DEF FeedInv, FeedTypes
<1> QED
  BY <1>7, <1>9, <1>11, <1>12 DEF FeedInv

-----------------------------------------------------------------------------
\* Every step of the session keeps the feed in order.
LEMMA NextFeed ==
  ASSUME FeedInv, [Next]_vars
  PROVE  FeedInv'
<1>1. \/ WindowCloses \/ LinkDrops \/ Connects \/ ReadFrame \/ RaiseFlag \/ Reconnect \/ Receive
      \/ UNCHANGED feedVars \/ Pull \/ ConnectFails \/ ReadFails \/ GiveUp \/ CheckFlag
      \/ Disconnect
  BY DEF Next, vars, ProducerThread, EngineThread, NextEvent, Observe
<1> QED
  BY <1>1, WindowClosesFeed, LinkDropsFeed, ConnectsFeed, ReadFrameFeed, RaiseFlagFeed,
     ReconnectFeed, ReceiveFeed, QuietFeed

\* Where bars were missed a resync stands in the gap, and no bar comes twice,
\* out of order or before its window has closed, however the socket, the
\* producer's thread and the engine interleave.
THEOREM GapsAreMarked == Spec => []GapsMarked
<1>1. Init => FeedInv
  BY InitFeed
<1>2. FeedInv /\ [Next]_vars => FeedInv'
  BY NextFeed
<1>3. FeedInv => GapsMarked
  BY DEF FeedInv
<1> QED
  BY <1>1, <1>2, <1>3, PTL DEF Spec

-----------------------------------------------------------------------------
(* Orders                                                                   *)

\* What a venue may read an order to mean, given what was asked.
MeaningKept(o, meaning) ==
  /\ meaning \in {"market", "gtc", "ioc", "fok", "maker"}
  /\ meaning \in {"gtc", "maker"} => o.kind = "Limit" /\ (o.tif = "Gtc" \/ o.postOnly)
  /\ o.tif = "Fok" /\ o.kind = "Limit" /\ ~o.postOnly => meaning = "fok"
  /\ o.postOnly => meaning = "maker"

\* No connector changes an order's instructions: what it does not refuse the
\* venue reads as it was meant, whatever the client and the request.
THEOREM EncodingFaithful ==
  ASSUME NEW c \in Clients, NEW o \in OrderRequest, ~Contradiction(c, o),
         ~OnlyReduces(c, Fields(c, o))
  PROVE  MeaningKept(o, Meaning(c, Fields(c, o))) /\ ~o.reduceOnly
<1> DEFINE f == Fields(c, o)
<1>1. /\ o.kind \in {"Market", "Limit"} /\ (o.postOnly => o.kind = "Limit")
      /\ o.tif \in {"Gtc", "Ioc", "Fok"} /\ o.postOnly \in BOOLEAN /\ o.reduceOnly \in BOOLEAN
      /\ o.reduceOnly => Derivative(c)
  BY DEF Contradiction, OrderRequest
<1>2. CASE c \in {"binance", "binanceFutures"}
  <2>1. f = BinanceFields(o)
    BY <1>2 DEF Fields
  <2>2. Meaning(c, f) = IF Lifetime(f.type) \in {"market", "maker"} THEN Lifetime(f.type)
                        ELSE Lifetime(f.timeInForce)
    BY <1>2 DEF Meaning
  <2>3. MeaningKept(o, Meaning(c, f))
    BY <1>1, <2>1, <2>2 DEF BinanceFields, Lifetime, MeaningKept
  <2> QED
    BY <1>1, <2>1, <2>3 DEF OnlyReduces, BinanceFields
<1>3. CASE c \in {"bybit", "bybitLinear"}
  <2>1. f = BybitFields(o)
    BY <1>3 DEF Fields
  <2>2. Meaning(c, f) = IF Lifetime(f.type) \in {"market", "maker"} THEN Lifetime(f.type)
                        ELSE Lifetime(f.timeInForce)
    BY <1>3 DEF Meaning
  <2>3. MeaningKept(o, Meaning(c, f))
    BY <1>1, <2>1, <2>2 DEF BybitFields, Lifetime, MeaningKept
  <2> QED
    BY <1>1, <2>1, <2>3 DEF OnlyReduces, BybitFields
<1>4. CASE c = "kucoin"
  <2>1. f = KucoinFields(o)
    BY <1>4 DEF Fields
  <2>2. Meaning(c, f) = IF f.postOnly THEN "maker"
                        ELSE IF Lifetime(f.type) \in {"market", "maker"} THEN Lifetime(f.type)
                        ELSE Lifetime(f.timeInForce)
    BY <1>4 DEF Meaning
  <2>3. MeaningKept(o, Meaning(c, f))
    <3>1. CASE o.kind = "Market"
      BY <1>1, <2>1, <2>2, <3>1 DEF KucoinFields, Lifetime, MeaningKept
    <3>2. CASE o.kind = "Limit"
      <4>1. /\ f.postOnly = o.postOnly /\ f.type = "limit"
            /\ ~o.postOnly => f.timeInForce = CASE o.tif = "Ioc" -> "IOC" [] o.tif = "Fok" -> "FOK"
                                               [] OTHER -> "GTC"
        BY <1>1, <2>1, <3>2 DEF KucoinFields
      <4> QED
        BY <1>1, <2>2, <3>2, <4>1 DEF Lifetime, MeaningKept
    <3> QED
      BY <1>1, <3>1, <3>2
  <2> QED
    BY <1>1, <1>4, <2>3 DEF Derivative
<1>5. CASE c \in {"okx", "okxSwap"}
  <2>1. f = OkxFields(o)
    BY <1>5 DEF Fields
  <2>2. Meaning(c, f) = Lifetime(f.ordType)
    BY <1>5 DEF Meaning
  <2>3. MeaningKept(o, Meaning(c, f))
    BY <1>1, <2>1, <2>2 DEF OkxFields, Lifetime, MeaningKept
  <2> QED
    BY <1>1, <2>1, <2>3 DEF OnlyReduces, OkxFields
<1>6. CASE c = "mexc"
  <2>1. f = MexcFields(o)
    BY <1>6 DEF Fields
  <2>2. Meaning(c, f) = Lifetime(f.type)
    BY <1>6 DEF Meaning
  <2>3. f.type = IF o.postOnly THEN "LIMIT_MAKER"
                 ELSE IF o.kind = "Market" THEN "MARKET"
                 ELSE IF o.tif = "Gtc" THEN "LIMIT"
                 ELSE IF o.tif = "Ioc" THEN "IMMEDIATE_OR_CANCEL" ELSE "FILL_OR_KILL"
    <3>1. o.postOnly => f.type = "LIMIT_MAKER"
      BY <2>1 DEF MexcFields
    <3>2. ~o.postOnly /\ o.kind = "Market" => f.type = "MARKET"
      BY <2>1 DEF MexcFields
    <3>3. ~o.postOnly /\ o.kind = "Limit" /\ o.tif = "Gtc" => f.type = "LIMIT"
      BY <2>1 DEF MexcFields
    <3>4. ~o.postOnly /\ o.kind = "Limit" /\ o.tif = "Ioc" => f.type = "IMMEDIATE_OR_CANCEL"
      BY <2>1 DEF MexcFields
    <3>5. ~o.postOnly /\ o.kind = "Limit" /\ o.tif = "Fok" => f.type = "FILL_OR_KILL"
      BY <2>1 DEF MexcFields
    <3> QED
      BY <1>1, <3>1, <3>2, <3>3, <3>4, <3>5
  <2>4. MeaningKept(o, Meaning(c, f))
    BY <1>1, <2>2, <2>3 DEF Lifetime, MeaningKept
  <2> QED
    BY <1>1, <1>6, <2>4 DEF Derivative
<1> QED
  BY <1>2, <1>3, <1>4, <1>5, <1>6 DEF Clients

\* An order as it lies at the venue is what was asked: what works may rest and
\* does not reduce.  Nothing is known there of an order not placed.
OrderKept(id) ==
  LET o == asked[id]
      b == book[id]
  IN  /\ DOMAIN b = {"status", "executed", "quote", "took"}
      /\ id > placed => b = Unplaced
      /\ b.status \in {"working", "canceled"} => o.kind = "Limit" /\ (o.tif = "Gtc" \/ o.postOnly)
      /\ o.tif = "Fok" /\ o.kind = "Limit" /\ ~o.postOnly => b.executed \in {0, Lots}
      /\ o.postOnly => b.took = 0 /\ b.status # "expired"
      /\ o.reduceOnly => b.executed = 0 /\ b.status # "working"

BookKept ==
  /\ client \in Clients /\ placed \in 0..MaxOrders
  /\ DOMAIN asked = Ids /\ DOMAIN book = Ids
  /\ \A id \in Ids : OrderKept(id)

\* Nothing is at the venue at first.
LEMMA InitOrders == Init => BookKept
<1> SUFFICES ASSUME Init PROVE BookKept
  OBVIOUS
<1>1. PICK s \in Sessions : OrdersInit({s[2]})
  BY DEF Init
<1>2. /\ client \in Clients /\ placed = 0 /\ MaxOrders \in Nat
      /\ asked = [id \in Ids |-> NoRequest] /\ book = [id \in Ids |-> Unplaced]
  BY <1>1, SessionsAssumption, OrdersAssumption DEF OrdersInit
<1>3. ASSUME NEW id \in Ids PROVE OrderKept(id)
  BY <1>2, <1>3 DEF OrderKept, Unplaced, NoRequest
<1> QED
  BY <1>2, <1>3 DEF BookKept

\* An order that works at the venue trades, or is cancelled there.
LEMMA VenueKeeps ==
  ASSUME BookKept, NEW id \in Ids, VenueTrades(id) \/ VenueCancels(id)
  PROVE  BookKept'
<1>1. /\ book[id].status = "working" /\ UNCHANGED <<client, placed, asked>>
      /\ DOMAIN book' = Ids /\ \A other \in Ids \ {id} : book'[other] = book[other]
  BY DEF VenueTrades, VenueCancels, BookKept
<1>2. /\ DOMAIN book'[id] = DOMAIN book[id] /\ book'[id].took = book[id].took
      /\ book'[id].status \in {"working", "filled", "canceled"}
      /\ book'[id].status = "canceled" => book'[id].executed = book[id].executed
  <2>1. DOMAIN book = Ids /\ DOMAIN book[id] = {"status", "executed", "quote", "took"}
    BY DEF BookKept, OrderKept
  <2>2. CASE VenueTrades(id)
    <3> DEFINE executed == book[id].executed + 1
    <3>1. book' = [book EXCEPT
            ![id] = [book[id] EXCEPT !.status = StatusAfter("gtc", executed),
                                     !.executed = executed,
                                     !.quote = book[id].quote + Prices[executed]]]
      BY <2>2 DEF VenueTrades
    <3>2. StatusAfter("gtc", executed) \in {"working", "filled"}
      BY DEF StatusAfter
    <3> HIDE DEF executed
    <3>3. /\ DOMAIN book'[id] = DOMAIN book[id] /\ book'[id].took = book[id].took
          /\ book'[id].status = StatusAfter("gtc", executed)
      BY <2>1, <3>1
    <3> QED
      BY <3>2, <3>3
  <2>3. CASE VenueCancels(id)
    <3>1. book'[id] = [book[id] EXCEPT !.status = "canceled"]
      BY <2>1, <2>3 DEF VenueCancels
    <3> QED
      BY <2>1, <3>1
  <2> QED
    BY <2>2, <2>3
<1>3. id <= placed
  BY <1>1 DEF BookKept, OrderKept, Unplaced, Ids
<1>4. OrderKept(id)'
  BY <1>1, <1>2, <1>3 DEF BookKept, OrderKept, Ids
<1>5. \A other \in Ids \ {id} : OrderKept(other)'
  BY <1>1 DEF BookKept, OrderKept
<1> QED
  BY <1>1, <1>4, <1>5 DEF BookKept, Ids

\* An order is refused, or lost on its way.
LEMMA RefusedKeeps ==
  ASSUME BookKept, SubmitRefused
  PROVE  BookKept'
<1>1. PICK o \in Requests[client] : Places(o) /\ UNCHANGED <<client, book>>
  BY DEF SubmitRefused, venueSide
<1>2. /\ placed \in Nat /\ MaxOrders \in Nat /\ placed < MaxOrders /\ placed' = placed + 1
      /\ asked' = [asked EXCEPT ![placed + 1] = o] /\ book[placed + 1] = Unplaced
  BY <1>1, OrdersAssumption DEF Places, NextId, BookKept, OrderKept, Ids
<1>3. ASSUME NEW id \in Ids PROVE OrderKept(id)'
  <2>1. id \in Nat /\ OrderKept(id)
    BY DEF Ids, BookKept
  <2>2. CASE id = placed + 1
    BY <1>1, <1>2, <2>1, <2>2 DEF OrderKept, Unplaced
  <2>3. CASE id # placed + 1
    BY <1>1, <1>2, <2>1, <2>3 DEF OrderKept, BookKept
  <2> QED
    BY <2>2, <2>3
<1> QED
  BY <1>1, <1>2, <1>3 DEF BookKept, Ids

\* The venue takes an order, and does with it what its fields say.
LEMMA TakenKeeps ==
  ASSUME BookKept, SubmitTaken
  PROVE  BookKept'
<1>1. PICK o \in Requests[client] :
        /\ Places(o) /\ ~Contradiction(client, o) /\ ~OnlyReduces(client, Fields(client, o))
        /\ \E trades \in Arrivals(Meaning(client, Fields(client, o))) :
             book' = [book EXCEPT
               ![NextId] = [status |-> StatusAfter(Meaning(client, Fields(client, o)), trades),
                            executed |-> trades, took |-> trades,
                            quote |-> SumFunctionOnSet(Prices, 1..trades)]]
        /\ UNCHANGED client
  BY DEF SubmitTaken
<1>2. client \in Clients /\ o \in OrderRequest /\ Lots \in Nat \ {0} /\ MaxOrders \in Nat
  BY OrdersAssumption DEF BookKept
<1> DEFINE meaning == Meaning(client, Fields(client, o))
<1>3. MeaningKept(o, meaning) /\ ~o.reduceOnly
  BY <1>1, <1>2, EncodingFaithful
<1>4. PICK trades \in Arrivals(meaning) :
        book' = [book EXCEPT
          ![NextId] = [status |-> StatusAfter(meaning, trades), executed |-> trades,
                       took |-> trades, quote |-> SumFunctionOnSet(Prices, 1..trades)]]
  BY <1>1
<1> HIDE DEF meaning
<1>5. /\ placed \in Nat /\ placed < MaxOrders /\ placed' = placed + 1 /\ placed + 1 \in Ids
      /\ asked' = [asked EXCEPT ![placed + 1] = o]
  <2>1. placed \in 0..MaxOrders
    BY DEF BookKept
  <2>2. placed < MaxOrders /\ placed' = placed + 1 /\ asked' = [asked EXCEPT ![placed + 1] = o]
    BY <1>1 DEF Places, NextId
  <2> QED
    BY <1>2, <2>1, <2>2 DEF Ids
<1>6. ASSUME NEW id \in Ids PROVE OrderKept(id)'
  <2>1. id \in Nat /\ OrderKept(id)
    BY DEF Ids, BookKept
  <2>2. CASE id = placed + 1
    <3>1. /\ DOMAIN book'[id] = {"status", "executed", "quote", "took"}
          /\ book'[id].status = StatusAfter(meaning, trades)
          /\ book'[id].executed = trades /\ book'[id].took = trades
      BY <1>4, <1>5, <2>2 DEF NextId, BookKept
    <3>2. asked'[id] = o
      BY <1>5, <2>2 DEF BookKept
    <3>3. trades \in CASE meaning = "market"         -> {Lots}
                       [] meaning = "fok"            -> {0, Lots}
                       [] meaning \in {"ioc", "gtc"} -> 0..Lots
                       [] meaning = "maker"          -> {0}
      BY DEF Arrivals
    <3>4. /\ meaning = "fok" => trades \in {0, Lots}
          /\ meaning = "maker" => trades = 0
      BY <3>3
    <3>5. /\ StatusAfter(meaning, trades) \in {"filled", "working", "expired"}
          /\ StatusAfter(meaning, trades) = "working" => meaning \in {"gtc", "maker"}
          /\ meaning = "maker" => StatusAfter(meaning, trades) # "expired"
      BY DEF StatusAfter
    <3> QED
      BY <1>2, <1>3, <1>5, <2>2, <3>1, <3>2, <3>4, <3>5 DEF OrderKept, MeaningKept
  <2>3. CASE id # placed + 1
    <3>1. book'[id] = book[id] /\ asked'[id] = asked[id]
      BY <1>4, <1>5, <2>3 DEF NextId, BookKept
    <3> QED
      BY <1>5, <2>1, <2>3, <3>1 DEF OrderKept
  <2> QED
    BY <2>2, <2>3
<1>7. DOMAIN book' = Ids /\ DOMAIN asked' = Ids
  BY <1>4, <1>5 DEF BookKept
<1>8. placed' \in 0..MaxOrders
  BY <1>2, <1>5
<1>9. client' \in Clients
  BY <1>1, <1>2
<1> QED
  BY <1>6, <1>7, <1>8, <1>9 DEF BookKept, Ids

\* Every other step leaves the book and what was asked alone.
LEMMA NextKeeps ==
  ASSUME BookKept, [Next]_vars
  PROVE  BookKept'
<1>1. \/ SubmitRefused \/ SubmitTaken
      \/ \E id \in Ids : VenueTrades(id) \/ VenueCancels(id)
      \/ UNCHANGED <<client, placed, asked, book>>
  BY DEF Next, vars, orderVars, venueSide, EngineThread, Orders, Venue, Pull, Observe, PollOk,
         PollFails, PollDone, DrainFill, DrainDone, UserLinkDrops, ReadReport
<1>2. CASE UNCHANGED <<client, placed, asked, book>>
  BY <1>2 DEF BookKept, OrderKept
<1> QED
  BY <1>1, <1>2, RefusedKeeps, TakenKeeps, VenueKeeps

\* What rests at a venue was asked to rest, a post-only order never took on its
\* arrival, and one that may only reduce never bought, for every client and
\* request.
THEOREM IntentIsKept == Spec => []IntentKept
<1>1. Init => BookKept
  BY InitOrders
<1>2. BookKept /\ [Next]_vars => BookKept'
  BY NextKeeps
<1>3. BookKept => IntentKept
  BY OrdersAssumption DEF BookKept, OrderKept, IntentKept, PlacedIds, Ids
<1> QED
  BY <1>1, <1>2, <1>3, PTL DEF Spec

-----------------------------------------------------------------------------
(* The account of a live session                                            *)

Account == Accounts({Coin}, Ids)
Net(q)  == q.positions[Coin].net

\* What is told of the orders N.
Ends == {"OrderRejected", "OrderCanceled", "OrderExpired"}
OrderTold(N) == [type : {"OrderAccepted"} \cup Ends, id : N]
FillTold(N) ==
  [type : {"Fill"}, id : N, instrument : {Coin}, side : {1}, price : Int, qty : Nat,
   fee : {0}, complete : BOOLEAN]
Ignored == [type |-> "Ignored"]
ToldOf(N) == OrderTold(N) \cup FillTold(N) \cup {Ignored}

\* What an event buys and what that costs, and the open orders it leaves.
BoughtBy(e) == IF e.type = "Fill" THEN e.qty ELSE 0
PaidBy(e)   == IF e.type = "Fill" THEN e.price * e.qty ELSE 0
OpenAfter(S, e) ==
  IF e.type = "OrderAccepted" THEN S \cup {e.id}
  ELSE IF e.type \in Ends \/ (e.type = "Fill" /\ e.complete) THEN S \ {e.id}
  ELSE S

Shows(q, e, r) ==
  /\ r \in Account
  /\ Net(r) = Net(q) + BoughtBy(e) /\ r.cash = q.cash - PaidBy(e)
  /\ Elements(r.open) = OpenAfter(Elements(q.open), e)

\* An account that is told of an event shows it.
LEMMA ToldShows ==
  ASSUME NEW q \in Account, NEW N, N \subseteq Ids, NEW e \in ToldOf(N)
  PROVE  Shows(q, e, Apply(q, e))
<1>1. CASE e \in OrderTold(N)
  <2>1. e.id \in Ids /\ e.type \in {"OrderAccepted"} \cup Ends
    BY <1>1 DEF OrderTold
  <2>2. q.open \in Seq(Ids)
    BY DEF Account, Accounts
  <2>3. CASE e.type = "OrderAccepted"
    <3>1. Apply(q, e) = OpenOrder(q, e.id)
      BY <2>3, ApplyCases
    <3>2. Append(q.open, e.id) \in Seq(Ids)
      BY <2>1, <2>2
    <3> DEFINE open == Append(q.open, e.id)
    <3>3. Elements(open) = Elements(q.open) \cup {e.id}
      BY <2>1, <2>2, AppendElements
    <3> HIDE DEF open
    <3>4. OpenOrder(q, e.id) = [q EXCEPT !.open = open]
      BY DEF OpenOrder, open
    <3>5. [q EXCEPT !.open = open] \in Account
      BY <3>2 DEF Account, Accounts, open
    <3>6. /\ [q EXCEPT !.open = open].open = open
          /\ [q EXCEPT !.open = open].cash = q.cash
          /\ [q EXCEPT !.open = open].positions = q.positions
      BY DEF Account, Accounts
    <3>7. q.cash \in Int /\ Net(q) \in Int
      BY DEF Account, Accounts, Position, Net
    <3> QED
      BY <2>3, <3>1, <3>3, <3>4, <3>5, <3>6, <3>7 DEF Shows, BoughtBy, PaidBy, OpenAfter, Net
  <2>4. CASE e.type \in Ends
    <3>1. Apply(q, e) = CloseOrder(q, e.id)
      BY <2>4, ApplyCases DEF Ends
    <3>2. CloseOrder(q, e.id) \in Account
      BY ClosedAccount DEF Account
    <3>3. PICK open \in Seq(Ids) :
            /\ CloseOrder(q, e.id) = [q EXCEPT !.open = open]
            /\ Elements(open) = Elements(q.open) \ {e.id}
            /\ Distinct(q.open) => Distinct(open)
      <4>1. q \in Accounts({Coin}, Ids)
        BY DEF Account
      <4> QED
        BY <4>1, ClosedAccount
    <3>4. /\ [q EXCEPT !.open = open].open = open
          /\ [q EXCEPT !.open = open].cash = q.cash
          /\ [q EXCEPT !.open = open].positions = q.positions
      BY DEF Account, Accounts
    <3>5. q.cash \in Int /\ Net(q) \in Int
      BY DEF Account, Accounts, Position, Net
    <3> QED
      BY <2>4, <3>1, <3>2, <3>3, <3>4, <3>5 DEF Shows, BoughtBy, PaidBy, OpenAfter, Net, Ends
  <2> QED
    BY <2>1, <2>3, <2>4
<1>2. CASE e \in FillTold(N)
  <2>1. e \in FillEvents({Coin}, Ids) /\ e.side = 1 /\ e.fee = 0 /\ e.instrument = Coin
        /\ e.type = "Fill" /\ e.qty \in Nat /\ e.price \in Int
    BY <1>2 DEF FillTold, FillEvents
  <2> DEFINE s == Settle(q, e)
             r == Apply(q, e)
  <2>2. s \in Account /\ Settles(q, e, s)
    <3>1. e.instrument \in {Coin} /\ e.side \in Int /\ e.qty \in Int /\ e.fee \in Int
      BY <2>1
    <3> QED
      BY <2>1, <3>1, SettledAccount DEF Account
  <2>3. r \in Account /\ FillApplied(q, e, Ids)
    BY <2>1, FilledAccount DEF Account
  <2>4. PICK open \in Seq(Ids) :
          /\ r = [s EXCEPT !.open = open]
          /\ Elements(open) = IF e.complete THEN Elements(q.open) \ {e.id} ELSE Elements(q.open)
    BY <2>3 DEF FillApplied
  <2> HIDE DEF s, r
  <2>5. r.open = open /\ r.cash = s.cash /\ r.positions = s.positions
    BY <2>2, <2>4 DEF Account, Accounts
  <2>6. Net(s) = Net(q) + e.qty
    <3>1. q.positions \in [{Coin} -> Position] /\ Net(q) \in Int
      BY DEF Account, Accounts, Net, Position
    <3>2. \E avg : s.positions = [q.positions EXCEPT ![Coin] =
                                    [net |-> q.positions[Coin].net + e.side * e.qty, avg |-> avg]]
      BY <2>1, <2>2 DEF Settles
    <3>3. s.positions[Coin].net = q.positions[Coin].net + e.side * e.qty
      BY <3>1, <3>2
    <3>4. e.side * e.qty = e.qty
      BY <2>1
    <3> QED
      BY <3>3, <3>4 DEF Net
  <2>7. s.cash = q.cash - e.price * e.qty
    <3>1. s.cash = q.cash - e.side * Notional(e.price, e.qty) - e.fee
      BY <2>2 DEF Settles
    <3>2. e.price * e.qty \in Int /\ q.cash \in Int
      BY <2>1, IntTimes DEF Account, Accounts
    <3> DEFINE cost == e.price * e.qty
    <3>3. s.cash = q.cash - 1 * cost - 0
      BY <2>1, <3>1 DEF Notional
    <3> HIDE DEF cost
    <3>4. cost \in Int
      BY <3>2 DEF cost
    <3>5. s.cash = q.cash - cost
      BY <3>2, <3>3, <3>4
    <3> QED
      BY <3>5 DEF cost
  <2>8. Elements(r.open) = OpenAfter(Elements(q.open), e)
    BY <2>1, <2>4, <2>5 DEF OpenAfter, Ends
  <2>9. Net(r) = Net(q) + BoughtBy(e) /\ r.cash = q.cash - PaidBy(e)
    BY <2>1, <2>5, <2>6, <2>7 DEF Net, BoughtBy, PaidBy
  <2> QED
    BY <2>3, <2>8, <2>9 DEF Shows, r
<1>3. CASE e = Ignored
  <2>1. Apply(q, e) = q
    BY <1>3 DEF Apply, Ignored
  <2>2. q.cash \in Int /\ Net(q) \in Int
    BY DEF Account, Accounts, Position, Net
  <2> QED
    BY <1>3, <2>1, <2>2 DEF Shows, BoughtBy, PaidBy, OpenAfter, Ends, Ignored
<1> QED
  BY <1>1, <1>2, <1>3 DEF ToldOf

\* So it stays an account.
LEMMA ToldCloses ==
  ASSUME NEW N, N \subseteq Ids
  PROVE  ClosedUnder(Account, ToldOf(N))
BY ToldShows DEF ClosedUnder, Shows

\* What holds of two accounts and is kept by every event of E holds of them
\* when they have been told the same.
LEMMA ReplayPairs ==
  ASSUME NEW P, NEW E, ClosedUnder(P, E), NEW R,
         \A q, r \in P : \A e \in E : <<q, r>> \in R => <<Apply(q, e), Apply(r, e)>> \in R,
         NEW q \in P, NEW r \in P, <<q, r>> \in R, NEW s \in Seq(E)
  PROVE  <<Replay(q, s), Replay(r, s)>> \in R
<1> DEFINE f == ReplayedPrefix(q, s)
           g == ReplayedPrefix(r, s)
           Fail == {n \in 0..Len(s) : <<f[n], g[n]>> \notin R}
<1>1. /\ Len(s) \in Nat
      /\ \A n \in 0..Len(s) : f[n] \in P /\ f[n] = IF n = 0 THEN q ELSE Apply(f[n - 1], s[n])
      /\ \A n \in 0..Len(s) : g[n] \in P /\ g[n] = IF n = 0 THEN r ELSE Apply(g[n - 1], s[n])
  BY ReplayEquation
<1> HIDE DEF f, g
<1>2. ASSUME Fail # {} PROVE FALSE
  <2>1. Fail \subseteq Nat
    OBVIOUS
  <2>2. PICK n \in Fail : \A m \in Fail : n <= m
    BY <1>2, <2>1, LeastNat
  <2>3. n # 0
    BY <1>1, <2>2
  <2>4. n - 1 \in 0..Len(s) /\ n \in 0..Len(s) /\ n - 1 < n /\ s[n] \in E
    BY <1>1, <2>2, <2>3
  <2>5. <<f[n - 1], g[n - 1]>> \in R
    BY <2>2, <2>4
  <2>6. <<Apply(f[n - 1], s[n]), Apply(g[n - 1], s[n])>> \in R
    BY <1>1, <2>4, <2>5
  <2> QED
    BY <1>1, <2>2, <2>3, <2>4, <2>6
<1>3. Len(s) \in 0..Len(s)
  BY <1>1
<1> QED
  BY <1>2, <1>3 DEF Replay, f, g

-----------------------------------------------------------------------------
(* What is on the socket *)

Statuses == {"NEW", "PARTIALLY_FILLED", "FILLED", "CANCELED", "EXPIRED"}
Tag == IF client = "mexc" THEN "akadro-" ELSE "ak"
ReportOn(N) ==
  [exec : {"NEW", "TRADE", "CANCELED", "EXPIRED"}, id : N, price : Int, status : Statuses,
   tag : {Tag}]

\* The event a report becomes is about its order.
LEMMA EventOfType ==
  ASSUME NEW N, NEW r \in ReportOn(N), client \in Clients
  PROVE  EventOf(r) \in ToldOf(N)
<1>1. r.exec \in {"NEW", "TRADE", "CANCELED", "EXPIRED"} /\ r.id \in N /\ r.price \in Int
  BY DEF ReportOn
<1>2. AccountEvent(r) =
        CASE r.exec = "NEW"   -> Accepted(r.id)
          [] r.exec = "TRADE" -> Fill(r.id, r.price, 1, client = "binance" /\ r.status = "FILLED")
          [] r.exec \in {"CANCELED", "EXPIRED"} -> Canceled(r.id)
  BY DEF AccountEvent
<1>3. Fill(r.id, r.price, 1, client = "binance" /\ r.status = "FILLED") \in FillTold(N)
  BY <1>1 DEF Fill, FillTold
<1>4. Accepted(r.id) \in OrderTold(N) /\ Canceled(r.id) \in OrderTold(N)
  BY <1>1 DEF Accepted, Canceled, OrderTold, Ends
<1>5. AccountEvent(r) \in ToldOf(N)
  BY <1>1, <1>2, <1>3, <1>4 DEF ToldOf
<1>6. Ignored \in ToldOf(N)
  BY DEF ToldOf
<1> QED
  BY <1>5, <1>6 DEF EventOf, Ignored

\* The events of the reports on the wire, of one after another, and of one.
LEMMA EventsOfWire ==
  ASSUME NEW N, client \in Clients, NEW s \in Seq(ReportOn(N)), NEW t \in Seq(ReportOn(N))
  PROVE  /\ EventsOf(s) \in Seq(ToldOf(N)) /\ s \o t \in Seq(ReportOn(N))
         /\ EventsOf(s \o t) = EventsOf(s) \o EventsOf(t)
         /\ s # << >> => EventsOf(s) = <<EventOf(Head(s))>> \o EventsOf(Tail(s))
<1>1. \A u \in Seq(ReportOn(N)) :
        /\ EventsOf(u) \in Seq(ToldOf(N)) /\ Len(EventsOf(u)) = Len(u)
        /\ \A n \in 1..Len(u) : EventsOf(u)[n] = EventOf(u[n])
  <2> SUFFICES ASSUME NEW u \in Seq(ReportOn(N))
               PROVE  /\ EventsOf(u) \in Seq(ToldOf(N)) /\ Len(EventsOf(u)) = Len(u)
                      /\ \A n \in 1..Len(u) : EventsOf(u)[n] = EventOf(u[n])
    OBVIOUS
  <2>1. DOMAIN u = 1..Len(u) /\ Len(u) \in Nat /\ \A n \in 1..Len(u) : u[n] \in ReportOn(N)
    OBVIOUS
  <2>2. \A n \in 1..Len(u) : EventOf(u[n]) \in ToldOf(N)
    BY <2>1, EventOfType
  <2>3. EventsOf(u) = [n \in 1..Len(u) |-> EventOf(u[n])]
    BY <2>1 DEF EventsOf
  <2> QED
    BY <2>1, <2>2, <2>3
<1>2. s \o t \in Seq(ReportOn(N)) /\ Len(s \o t) = Len(s) + Len(t)
  OBVIOUS
<1>3. EventsOf(s \o t) = EventsOf(s) \o EventsOf(t)
  <2> DEFINE x == EventsOf(s \o t)
             y == EventsOf(s)
             z == EventsOf(t)
  <2>1. x \in Seq(ToldOf(N)) /\ y \in Seq(ToldOf(N)) /\ z \in Seq(ToldOf(N))
        /\ Len(x) = Len(s) + Len(t) /\ Len(y) = Len(s) /\ Len(z) = Len(t)
        /\ Len(s) \in Nat /\ Len(t) \in Nat
    <3>1. x \in Seq(ToldOf(N)) /\ Len(x) = Len(s) + Len(t)
      BY <1>1, <1>2
    <3>2. y \in Seq(ToldOf(N)) /\ z \in Seq(ToldOf(N)) /\ Len(y) = Len(s) /\ Len(z) = Len(t)
      BY <1>1
    <3>3. Len(s) \in Nat /\ Len(t) \in Nat
      OBVIOUS
    <3> QED
      BY <3>1, <3>2, <3>3
  <2>2. \A n \in 1..Len(s) + Len(t) : x[n] = EventOf((s \o t)[n])
    BY <1>1, <1>2
  <2>3. \A n \in 1..Len(s) : y[n] = EventOf(s[n])
    BY <1>1
  <2>4. \A n \in 1..Len(t) : z[n] = EventOf(t[n])
    BY <1>1
  <2> HIDE DEF x, y, z
  <2>5. ASSUME NEW n \in 1..Len(s) + Len(t) PROVE x[n] = (y \o z)[n]
    <3>1. CASE n <= Len(s)
      <4>1. n \in 1..Len(s) /\ (s \o t)[n] = s[n] /\ (y \o z)[n] = y[n]
        BY <2>1, <2>5, <3>1
      <4> QED
        BY <2>2, <2>3, <2>5, <4>1
    <3>2. CASE n > Len(s)
      <4>1. n - Len(s) \in 1..Len(t) /\ (s \o t)[n] = t[n - Len(s)]
            /\ (y \o z)[n] = z[n - Len(s)]
        BY <2>1, <2>5, <3>2
      <4> QED
        BY <2>2, <2>4, <2>5, <4>1
    <3> QED
      BY <2>1, <3>1, <3>2
  <2>6. y \o z \in Seq(ToldOf(N)) /\ Len(y \o z) = Len(s) + Len(t)
    <3>1. y \o z \in Seq(ToldOf(N)) /\ Len(y \o z) = Len(y) + Len(z)
      <4>1. y \in Seq(ToldOf(N)) /\ z \in Seq(ToldOf(N))
        BY <2>1
      <4> QED
        BY <4>1
    <3> QED
      BY <2>1, <3>1
  <2>7. x = y \o z
    BY <2>1, <2>5, <2>6
  <2> QED
    BY <2>7 DEF x, y, z
<1>4. ASSUME s # << >> PROVE EventsOf(s) = <<EventOf(Head(s))>> \o EventsOf(Tail(s))
  <2> DEFINE x == EventsOf(s)
             z == EventsOf(Tail(s))
  <2>1. Tail(s) \in Seq(ReportOn(N)) /\ Len(Tail(s)) = Len(s) - 1 /\ Len(s) \in Nat
        /\ Len(s) # 0 /\ Head(s) = s[1] /\ \A n \in 1..Len(s) - 1 : Tail(s)[n] = s[n + 1]
    BY <1>4
  <2>2. /\ x \in Seq(ToldOf(N)) /\ Len(x) = Len(s)
        /\ \A n \in 1..Len(s) : x[n] = EventOf(s[n])
    BY <1>1
  <2>3. /\ z \in Seq(ToldOf(N)) /\ Len(z) = Len(s) - 1
        /\ \A n \in 1..Len(s) - 1 : z[n] = EventOf(Tail(s)[n])
    BY <1>1, <2>1
  <2> HIDE DEF x, z
  <2> DEFINE e == EventOf(Head(s))
  <2>4. e = x[1] /\ x[1] \in ToldOf(N)
    BY <2>1, <2>2
  <2> HIDE DEF e
  <2>5. \A n \in 1..Len(s) - 1 : z[n] = x[n + 1]
    BY <2>1, <2>2, <2>3
  <2>6. x = <<e>> \o z
    <3>1. <<e>> \o z \in Seq(ToldOf(N)) /\ Len(<<e>> \o z) = Len(s)
      <4> DEFINE u == <<e>>
      <4>1. u \in Seq(ToldOf(N)) /\ Len(u) = 1
        BY <2>4
      <4> HIDE DEF u
      <4>2. z \in Seq(ToldOf(N)) /\ Len(z) = Len(s) - 1
        BY <2>3
      <4>3. u \o z \in Seq(ToldOf(N)) /\ Len(u \o z) = Len(u) + Len(z)
        <5>1. u \in Seq(ToldOf(N)) /\ z \in Seq(ToldOf(N))
          BY <4>1, <4>2
        <5> QED
          BY <5>1
      <4>4. Len(u \o z) = Len(s)
        BY <2>1, <4>1, <4>2, <4>3
      <4> QED
        BY <4>3, <4>4 DEF u
    <3>2. ASSUME NEW n \in 1..Len(s) PROVE x[n] = (<<e>> \o z)[n]
      <4>1. CASE n = 1
        BY <2>4, <4>1
      <4>2. CASE n # 1
        <5>1. n - 1 \in 1..Len(s) - 1 /\ (n - 1) + 1 = n
          BY <2>1, <3>2, <4>2
        <5>2. (<<e>> \o z)[n] = z[n - 1]
          BY <2>1, <2>3, <3>2, <4>2
        <5> QED
          BY <2>5, <5>1, <5>2
      <4> QED
        BY <4>1, <4>2
    <3> QED
      BY <2>2, <3>1, <3>2
  <2> QED
    BY <2>6 DEF x, z, e
<1> QED
  BY <1>1, <1>2, <1>3, <1>4

\* The report of a trade, and what the stream makes of it.
LEMMA TradeReported ==
  ASSUME NEW id, NEW n \in 1..Lots
  PROVE  /\ TradeReport(id, n) \in ReportOn({id})
         /\ client = "binance" => EventOf(TradeReport(id, n)) = Fill(id, Prices[n], 1, n = Lots)
         /\ Prices[n] \in Nat
<1>1. Prices[n] \in Nat
  BY OrdersAssumption
<1>2. TradeReport(id, n) =
        [exec |-> "TRADE", id |-> id, price |-> Prices[n],
         status |-> IF n = Lots THEN "FILLED" ELSE "PARTIALLY_FILLED",
         tag |-> IF client = "mexc" THEN "akadro-" ELSE "ak"]
  BY DEF TradeReport, Report
<1>3. TradeReport(id, n) \in ReportOn({id})
  BY <1>1, <1>2 DEF ReportOn, Statuses, Tag
<1>4. ASSUME client = "binance" PROVE EventOf(TradeReport(id, n)) = Fill(id, Prices[n], 1, n = Lots)
  BY <1>2, <1>4 DEF EventOf, Tagged, AccountEvent
<1> QED
  BY <1>1, <1>2, <1>3, <1>4

TradeReports(id, k) == [n \in 1..k |-> TradeReport(id, n)]

\* One more trade comes last.
LEMMA TradesGrow ==
  ASSUME NEW id, NEW k \in 1..Lots
  PROVE  /\ TradeReports(id, k - 1) \in Seq(ReportOn({id}))
         /\ TradeReports(id, k) \in Seq(ReportOn({id}))
         /\ <<TradeReport(id, k)>> \in Seq(ReportOn({id}))
         /\ TradeReports(id, k) = TradeReports(id, k - 1) \o <<TradeReport(id, k)>>
<1> DEFINE s == TradeReports(id, k - 1)
           t == TradeReports(id, k)
           r == TradeReport(id, k)
<1>0. Lots \in Nat /\ k \in Nat /\ k - 1 \in Nat
  BY OrdersAssumption
<1>1. \A n \in 1..k : TradeReport(id, n) \in ReportOn({id})
  BY <1>0, TradeReported
<1>2. /\ s \in Seq(ReportOn({id})) /\ Len(s) = k - 1
      /\ \A n \in 1..k - 1 : s[n] = TradeReport(id, n)
  <2>1. \A n \in 1..k - 1 : n \in 1..k
    BY <1>0
  <2>2. s = [n \in 1..k - 1 |-> TradeReport(id, n)]
    BY DEF TradeReports
  <2>3. PICK m \in Nat : m = k - 1
    BY <1>0
  <2> HIDE DEF s
  <2>4. s = [n \in 1..m |-> TradeReport(id, n)] /\ \A n \in 1..m : TradeReport(id, n) \in ReportOn({id})
    BY <1>1, <2>1, <2>2, <2>3
  <2>5. s \in Seq(ReportOn({id})) /\ Len(s) = m /\ \A n \in 1..m : s[n] = TradeReport(id, n)
    BY <2>4
  <2> QED
    BY <2>3, <2>5
<1>3. /\ t \in Seq(ReportOn({id})) /\ Len(t) = k
      /\ \A n \in 1..k : t[n] = TradeReport(id, n)
  <2>1. t = [n \in 1..k |-> TradeReport(id, n)]
    BY DEF TradeReports
  <2> HIDE DEF t
  <2> QED
    BY <1>0, <1>1, <2>1
<1>4. r \in ReportOn({id})
  BY <1>0, <1>1
<1>5. k \in 1..k /\ t[k] = r
  BY <1>0, <1>3
<1> HIDE DEF s, t, r
<1>6. <<r>> \in Seq(ReportOn({id})) /\ s \o <<r>> = Append(s, r)
  BY <1>2, <1>4
<1>7. t = Append(s, r)
  <2>1. Append(s, r) \in Seq(ReportOn({id})) /\ Len(Append(s, r)) = Len(s) + 1
        /\ Append(s, r)[Len(s) + 1] = r /\ \A n \in 1..Len(s) : Append(s, r)[n] = s[n]
    BY <1>2, <1>4
  <2>2. ASSUME NEW n \in 1..k PROVE t[n] = Append(s, r)[n]
    <3>1. CASE n = k
      <4>1. Len(s) + 1 = k
        BY <1>0, <1>2
      <4> QED
        BY <1>5, <2>1, <3>1, <4>1
    <3>2. CASE n # k
      <4>1. n \in 1..k - 1 /\ n \in 1..Len(s)
        BY <1>0, <1>2, <3>2
      <4>2. s[n] = TradeReport(id, n) /\ t[n] = TradeReport(id, n)
        BY <1>2, <1>3, <4>1
      <4> QED
        BY <2>1, <4>1, <4>2
    <3> QED
      BY <3>1, <3>2
  <2>3. Len(Append(s, r)) = k
    BY <1>0, <1>2, <2>1
  <2>4. Append(s, r) \in Seq(ReportOn({id}))
    BY <2>1
  <2> QED
    BY <1>3, <2>2, <2>3, <2>4
<1> QED
  BY <1>2, <1>3, <1>6, <1>7 DEF s, t, r

Shown(q, id, k, r) ==
  /\ r \in Account
  /\ Net(r) = Net(q) + k /\ r.cash = q.cash - SumFunctionOnSet(Prices, 1..k)
  /\ Elements(r.open) = IF k = Lots THEN Elements(q.open) \ {id} ELSE Elements(q.open)

\* Told of the first k trades of an order, an account has bought k lots at
\* their prices, and the last of them closes the order.
LEMMA TradesTold ==
  ASSUME client = "binance", NEW id \in Ids, NEW q \in Account, NEW k \in 0..Lots
  PROVE  Shown(q, id, k, Replay(q, EventsOf(TradeReports(id, k))))
<1> DEFINE After(j) == Replay(q, EventsOf(TradeReports(id, j)))
           Fail == {j \in 0..Lots : ~Shown(q, id, j, After(j))}
<1>0. Lots \in Nat \ {0} /\ client \in Clients /\ q.cash \in Int /\ Net(q) \in Int
  BY OrdersAssumption DEF Clients, Account, Accounts, Net, Position
<1>1. Shown(q, id, 0, After(0))
  <2>1. TradeReports(id, 0) = << >> /\ EventsOf(<< >>) = << >>
    BY DEF TradeReports, EventsOf
  <2>2. << >> \in Seq(ToldOf({id})) /\ ClosedUnder(Account, ToldOf({id}))
    <3>1. {id} \subseteq Ids
      OBVIOUS
    <3> QED
      BY <3>1, ToldCloses
  <2>3. After(0) = q
    <3>1. After(0) = Replay(q, << >>)
      BY <2>1
    <3>2. Replay(q, << >>) = q
      BY <2>2, ReplayNone
    <3> QED
      BY <3>1, <3>2
  <2>4. 1..0 = {} /\ SumFunctionOnSet(Prices, {}) = 0
    BY SumStep, FS_EmptySet
  <2> QED
    BY <1>0, <2>3, <2>4 DEF Shown
<1>2. ASSUME Fail # {} PROVE FALSE
  <2>1. Fail \subseteq Nat
    OBVIOUS
  <2>2. PICK j \in Fail : \A m \in Fail : j <= m
    BY <1>2, <2>1, LeastNat
  <2>3. j \in 1..Lots /\ j - 1 \in 0..Lots /\ j - 1 < j /\ j # 0
    <3> HIDE DEF After
    <3>1. j # 0 /\ j \in 0..Lots
      BY <1>1, <2>2
    <3> QED
      BY <1>0, <3>1
  <2> DEFINE p == After(j - 1)
             e == EventOf(TradeReport(id, j))
  <2>4. Shown(q, id, j - 1, p)
    <3> HIDE DEF After
    <3> QED
      BY <2>1, <2>2, <2>3
  <2>5. After(j) = Apply(p, e)
    <3> DEFINE s == TradeReports(id, j - 1)
               t == <<TradeReport(id, j)>>
    <3>1. /\ s \in Seq(ReportOn({id})) /\ t \in Seq(ReportOn({id}))
          /\ TradeReports(id, j) = s \o t
      BY <2>3, TradesGrow
    <3>2. t # << >> /\ Head(t) = TradeReport(id, j) /\ Tail(t) = << >>
      OBVIOUS
    <3> HIDE DEF s, t
    <3>3. /\ EventsOf(s) \in Seq(ToldOf({id})) /\ EventsOf(t) \in Seq(ToldOf({id}))
          /\ EventsOf(s \o t) = EventsOf(s) \o EventsOf(t)
      BY <1>0, <3>1, EventsOfWire
    <3>4. EventsOf(t) = <<e>> \o EventsOf(<< >>)
      BY <1>0, <3>1, <3>2, EventsOfWire
    <3>5. e \in ToldOf({id}) /\ EventsOf(t) = <<e>>
      <4>1. e \in ToldOf({id})
        BY <1>0, <2>3, TradeReported, EventOfType
      <4>2. EventsOf(<< >>) = << >>
        BY DEF EventsOf
      <4> HIDE DEF e
      <4>3. <<e>> \o << >> = <<e>>
        OBVIOUS
      <4> QED
        BY <3>4, <4>1, <4>2, <4>3
    <3>6. ClosedUnder(Account, ToldOf({id}))
      <4>1. {id} \subseteq Ids
        OBVIOUS
      <4> QED
        BY <4>1, ToldCloses
    <3>7. After(j) = Replay(p, EventsOf(t))
      <4>1. After(j) = Replay(q, EventsOf(s) \o EventsOf(t)) /\ p = Replay(q, EventsOf(s))
        BY <3>1, <3>3 DEF s
      <4> HIDE DEF After, p
      <4>2. Replay(q, EventsOf(s) \o EventsOf(t)) = Replay(Replay(q, EventsOf(s)), EventsOf(t))
        BY <3>3, <3>6, ReplayConcat
      <4> QED
        BY <4>1, <4>2
    <3>8. p \in Account
      BY <2>4 DEF Shown
    <3> HIDE DEF p, e
    <3>9. Replay(p, <<e>>) = Apply(p, e)
      BY <3>5, <3>6, <3>8, ReplayOne
    <3> QED
      BY <3>5, <3>7, <3>9
  <2>6. e = Fill(id, Prices[j], 1, j = Lots) /\ Prices[j] \in Nat
    BY <2>3, TradeReported
  <2>7. p \in Account /\ e \in ToldOf({id})
    BY <1>0, <2>3, <2>4, TradeReported, EventOfType DEF Shown
  <2> HIDE DEF After, p, e
  <2>8. Shows(p, e, Apply(p, e))
    BY <2>7, ToldShows
  <2>9. /\ BoughtBy(e) = 1 /\ PaidBy(e) = Prices[j]
        /\ OpenAfter(Elements(p.open), e)
             = IF j = Lots THEN Elements(p.open) \ {id} ELSE Elements(p.open)
    <3>1. /\ e.type = "Fill" /\ e.qty = 1 /\ e.price = Prices[j] /\ e.complete = (j = Lots)
          /\ e.id = id
      BY <2>6 DEF Fill
    <3>2. Prices[j] * 1 = Prices[j]
      BY <2>6
    <3> QED
      BY <3>1, <3>2 DEF BoughtBy, PaidBy, OpenAfter, Ends
  <2>10. SumFunctionOnSet(Prices, 1..j) = SumFunctionOnSet(Prices, 1..j - 1) + Prices[j]
         /\ SumFunctionOnSet(Prices, 1..j - 1) \in Int
    <3>1. \A i \in 1..Lots : Prices[i] \in Int
      BY OrdersAssumption
    <3>2. PICK m \in Nat : m = j - 1
      BY <2>3
    <3>3. m + 1 = j /\ 1..m + 1 = 1..j /\ 1..j \subseteq 1..Lots /\ 1..m \subseteq 1..Lots
      BY <1>0, <2>3, <3>2
    <3>4. SumFunctionOnSet(Prices, 1..m + 1) = SumFunctionOnSet(Prices, 1..m) + Prices[m + 1]
      <4>1. \A i \in 1..m + 1 : Prices[i] \in Int
        BY <3>1, <3>3
      <4>2. \A i \in 1..m : Prices[i] = Prices[i]
        OBVIOUS
      <4> QED
        BY <4>1, <4>2, SumAppend
    <3>5. SumFunctionOnSet(Prices, 1..m) \in Int
      <4>1. IsFiniteSet(1..m)
        BY FS_Interval
      <4>2. \A i \in 1..m : Prices[i] \in Int
        BY <3>1, <3>3
      <4> QED
        BY <4>1, <4>2, SumType
    <3> QED
      BY <3>2, <3>3, <3>4, <3>5
  <2>11. Shown(q, id, j, After(j))
    <3>1. /\ Apply(p, e) \in Account
          /\ Net(Apply(p, e)) = Net(p) + 1 /\ Apply(p, e).cash = p.cash - Prices[j]
          /\ Elements(Apply(p, e).open)
               = IF j = Lots THEN Elements(p.open) \ {id} ELSE Elements(p.open)
      BY <2>8, <2>9 DEF Shows
    <3>2. Elements(p.open) = Elements(q.open)
      BY <1>0, <2>3, <2>4 DEF Shown
    <3>3. Net(p) = Net(q) + (j - 1) /\ p.cash = q.cash - SumFunctionOnSet(Prices, 1..j - 1)
      BY <2>4 DEF Shown
    <3>4. Net(Apply(p, e)) = Net(q) + j
      BY <1>0, <2>3, <3>1, <3>3
    <3>5. Apply(p, e).cash = q.cash - SumFunctionOnSet(Prices, 1..j)
      BY <1>0, <2>6, <2>10, <3>1, <3>3
    <3> QED
      BY <2>5, <3>1, <3>2, <3>4, <3>5 DEF Shown
  <2> QED
    BY <2>2, <2>11
<1> HIDE DEF After
<1> QED
  BY <1>2 DEF After

-----------------------------------------------------------------------------
(* What has come of the orders, and what is still to come *)

OrderAtVenue ==
  [status : {"none", "working", "filled", "canceled", "expired"}, executed : 0..Lots,
   quote : Int, took : 0..Lots]
PollRecord == [id : Ids, filled : 0..Lots - 1, quote : Int]

SessionTypes ==
  /\ account \in Account
  /\ book \in [Ids -> OrderAtVenue]
  /\ \A id \in Ids : (book[id].status = "filled") = (book[id].executed = Lots)
  /\ userLink \in BOOLEAN /\ (userLink => client \in Streams)
  /\ userWire \in Seq(ReportOn(PlacedIds)) /\ fills \in Seq(ToldOf(PlacedIds))
  /\ pending \in Seq(PollRecord) /\ still \in Seq(PollRecord)
  /\ unanswered \subseteq PlacedIds
  /\ stage # "polling" => still = << >>
  /\ client # "mexc" => pending = << >> /\ still = << >> /\ stage # "polling"
  /\ client = "mexc" => fills = << >>

\* The account q shows everything that the orders N of the book b have done.
Bought(b, N)  == SumFunctionOnSet([id \in Ids |-> b[id].executed], N)
Cost(b, N)    == SumFunctionOnSet([id \in Ids |-> b[id].quote], N)
Working(b, N) == {id \in N : b[id].status = "working"}
Whole(b, N, q) ==
  /\ Net(q) = Bought(b, N) /\ q.cash + Cost(b, N) = 0
  /\ Elements(q.open) = Working(b, N)

\* The stream: once all of it has come, the account is whole; of a stream that
\* was lost it has no more than there was.
StreamInv ==
  client # "mexc" =>
    /\ Net(Arrived) <= Bought(book, PlacedIds)
    /\ userLink => Whole(book, PlacedIds, Arrived)

\* What the account has seen of each order that is polled: what its record
\* says; of one that is not, all.
HasRecord(R, id) == \E p \in R : p.id = id
RecordOf(R, id)  == CHOOSE p \in R : p.id = id
SeenIn(b, R) ==
  [id \in Ids |-> IF HasRecord(R, id) THEN RecordOf(R, id).filled ELSE b[id].executed]
PaidIn(b, R) ==
  [id \in Ids |-> IF HasRecord(R, id) THEN RecordOf(R, id).quote ELSE b[id].quote]

Polls(b, N, q, R) ==
  /\ q \in Account
  /\ Net(q) = SumFunctionOnSet(SeenIn(b, R), N)
  /\ q.cash + SumFunctionOnSet(PaidIn(b, R), N) \in 0..Net(q)
  /\ Elements(q.open) = {id \in N : HasRecord(R, id) \/ b[id].status = "working"}

Sound(b, N, R) ==
  /\ R \subseteq PollRecord
  /\ \A p, r \in R : p.id = r.id => p = r
  /\ \A p \in R :
       /\ p.id \in N /\ b[p.id].status # "none"
       /\ p.filled <= b[p.id].executed
       /\ p.filled = b[p.id].executed => p.quote = b[p.id].quote

Polling == pending \o still
Answered == PlacedIds \ unanswered

PollInv ==
  client = "mexc" =>
    /\ Distinct(Polling) /\ Sound(book, Answered, Elements(Polling))
    /\ \A id \in Answered : book[id].status = "working" => HasRecord(Elements(Polling), id)
    /\ Polls(book, Answered, account, Elements(Polling))

OrdersInv == BookKept /\ SessionTypes /\ StreamInv /\ PollInv

\* Dividing leaves a remainder smaller than the divisor.
LEMMA DivLeaves ==
  ASSUME NEW x \in Int, NEW d \in Nat \ {0}
  PROVE  x \div d \in Int /\ x - (x \div d) * d \in 0..d - 1
  OBVIOUS

\* A record is the one of its order, and an order without one counts in full.
LEMMA RecordFound ==
  ASSUME NEW b, NEW N, NEW R, Sound(b, N, R), NEW p \in R
  PROVE  HasRecord(R, p.id) /\ RecordOf(R, p.id) = p
BY DEF Sound, HasRecord, RecordOf

\* What is seen of an order is no more than it did, all of it without a record,
\* and with one what the record says.
LEMMA SeenTypes ==
  ASSUME NEW b \in [Ids -> OrderAtVenue], NEW N, NEW R, Sound(b, N, R), NEW id \in Ids
  PROVE  /\ SeenIn(b, R)[id] \in Int /\ PaidIn(b, R)[id] \in Int
         /\ b[id].executed \in Int /\ b[id].quote \in Int
         /\ 0 <= SeenIn(b, R)[id] /\ SeenIn(b, R)[id] <= b[id].executed
         /\ ~HasRecord(R, id) => SeenIn(b, R)[id] = b[id].executed /\ PaidIn(b, R)[id] = b[id].quote
         /\ \A p \in R : p.id = id => SeenIn(b, R)[id] = p.filled /\ PaidIn(b, R)[id] = p.quote
<1>1. b[id].executed \in 0..Lots /\ b[id].quote \in Int /\ Lots \in Nat
  BY OrdersAssumption DEF OrderAtVenue
<1>2. /\ SeenIn(b, R)[id] = IF HasRecord(R, id) THEN RecordOf(R, id).filled ELSE b[id].executed
      /\ PaidIn(b, R)[id] = IF HasRecord(R, id) THEN RecordOf(R, id).quote ELSE b[id].quote
  BY DEF SeenIn, PaidIn
<1>3. ASSUME NEW p \in R, p.id = id
      PROVE  /\ SeenIn(b, R)[id] = p.filled /\ PaidIn(b, R)[id] = p.quote
             /\ p.filled \in Nat /\ p.quote \in Int /\ p.filled <= b[id].executed
  <2>1. HasRecord(R, id) /\ RecordOf(R, id) = p
    BY <1>3, RecordFound
  <2>2. p \in PollRecord /\ p.filled <= b[id].executed
    BY <1>3 DEF Sound
  <2> QED
    BY <1>1, <1>2, <2>1, <2>2 DEF PollRecord
<1>4. CASE HasRecord(R, id)
  <2>1. PICK p \in R : p.id = id
    BY <1>4 DEF HasRecord
  <2> QED
    BY <1>1, <1>3, <1>4, <2>1
<1>5. CASE ~HasRecord(R, id)
  BY <1>1, <1>2, <1>5 DEF HasRecord
<1> QED
  BY <1>4, <1>5

\* What a poll reports of order p: its new trades as one, and how it ended.
NewTrades(p) == book[p.id].executed - p.filled
TradeEvent(p) ==
  Fill(p.id, MarginalPrice(p), book[p.id].executed - p.filled, book[p.id].executed >= Lots)
EndEvent(p)   == IF book[p.id].status = "canceled" THEN Canceled(p.id) ELSE Expired(p.id)
Ended(p)      == book[p.id].status \in {"canceled", "expired"}

\* A record held of an order that has been taken, as the invariant has it.
Pollable(p) ==
  /\ p \in PollRecord /\ book[p.id] \in OrderAtVenue /\ book[p.id].status # "none"
  /\ (book[p.id].status = "filled") = (book[p.id].executed = Lots)
  /\ p.filled <= book[p.id].executed

\* A poll reports nothing, its new trades, how the order ended, or both.
LEMMA PollCases ==
  ASSUME NEW p, Pollable(p)
  PROVE  /\ NewTrades(p) \in Nat /\ NewTrades(p) <= Lots
         /\ NewTrades(p) = 0 => book[p.id].status # "filled"
         /\ PollEvents(p) =
              IF NewTrades(p) = 0
              THEN IF Ended(p) THEN <<EndEvent(p)>> ELSE << >>
              ELSE IF Ended(p) THEN <<TradeEvent(p), EndEvent(p)>> ELSE <<TradeEvent(p)>>
<1> DEFINE o == book[p.id]
           f == TradeEvent(p)
           x == EndEvent(p)
           traded == IF o.executed = p.filled THEN << >> ELSE <<f>>
           ended  == IF ~Terminal(o.status) THEN << >>
                     ELSE CASE o.status = "canceled" -> <<Canceled(p.id)>>
                            [] o.status = "expired"  -> <<Expired(p.id)>>
                            [] o.status = "filled"   -> << >>
<1>1. /\ o.status \in {"working", "filled", "canceled", "expired"}
      /\ o.executed \in 0..Lots /\ p.filled \in 0..Lots - 1 /\ p.filled <= o.executed
      /\ (o.status = "filled") = (o.executed = Lots) /\ Lots \in Nat \ {0}
  BY OrdersAssumption DEF Pollable, OrderAtVenue, PollRecord
<1>2. NewTrades(p) = o.executed - p.filled
  BY DEF NewTrades
<1>3. /\ NewTrades(p) \in Nat /\ NewTrades(p) <= Lots
      /\ NewTrades(p) = 0 <=> o.executed = p.filled
      /\ NewTrades(p) = 0 => o.status # "filled"
  BY <1>1, <1>2
<1>4. PollEvents(p) = traded \o ended
  BY DEF PollEvents, TradeEvent
<1>5. ended = IF Ended(p) THEN <<x>> ELSE << >>
  <2>1. CASE o.status = "working"
    BY <2>1 DEF Terminal, Ended
  <2>2. CASE o.status = "filled"
    BY <2>2 DEF Terminal, Ended
  <2>3. CASE o.status = "canceled"
    BY <2>3 DEF Terminal, Ended, EndEvent
  <2>4. CASE o.status = "expired"
    BY <2>4 DEF Terminal, Ended, EndEvent
  <2> QED
    BY <1>1, <2>1, <2>2, <2>3, <2>4
<1>6. traded = IF NewTrades(p) = 0 THEN << >> ELSE <<f>>
  BY <1>3
<1> HIDE DEF traded, ended, f, x
<1>7. /\ << >> \o << >> = << >> /\ << >> \o <<x>> = <<x>> /\ <<f>> \o << >> = <<f>>
      /\ <<f>> \o <<x>> = <<f, x>>
  <2>1. << >> \o << >> = << >>
    OBVIOUS
  <2>2. << >> \o <<x>> = <<x>>
    OBVIOUS
  <2>3. <<f>> \o << >> = <<f>>
    OBVIOUS
  <2>4. <<f>> \o <<x>> = <<f, x>>
    <3>1. f \in {f, x} /\ x \in {f, x}
      OBVIOUS
    <3> QED
      BY <3>1, PairJoins
  <2> QED
    BY <2>1, <2>2, <2>3, <2>4
<1>8. PollEvents(p) = IF NewTrades(p) = 0 THEN IF Ended(p) THEN <<x>> ELSE << >>
                      ELSE IF Ended(p) THEN <<f, x>> ELSE <<f>>
  BY <1>4, <1>5, <1>6, <1>7
<1> QED
  BY <1>3, <1>8 DEF f, x, o

\* The account once it is told of it.
PollShown(p, q, r) ==
  /\ r \in Account
  /\ Net(r) = Net(q) + NewTrades(p)
  /\ r.cash = q.cash - (IF NewTrades(p) = 0 THEN 0 ELSE MarginalPrice(p) * NewTrades(p))
  /\ Elements(r.open) = IF book[p.id].status = "working" THEN Elements(q.open)
                        ELSE Elements(q.open) \ {p.id}

\* What a poll reports, told to the account.
LEMMA PollShows ==
  ASSUME NEW p, Pollable(p), NEW q \in Account
  PROVE  PollShown(p, q, Replay(q, PollEvents(p)))
<1> DEFINE f == TradeEvent(p)
           x == EndEvent(p)
           d == NewTrades(p)
           N == {p.id}
           o == book[p.id]
<1>1. /\ d \in Nat /\ (d = 0 => o.status # "filled")
      /\ PollEvents(p) = IF d = 0 THEN IF Ended(p) THEN <<x>> ELSE << >>
                         ELSE IF Ended(p) THEN <<f, x>> ELSE <<f>>
  BY PollCases
<1>2. /\ p.id \in Ids /\ N \subseteq Ids
      /\ o.status \in {"working", "filled", "canceled", "expired"}
      /\ o.executed \in 0..Lots /\ p.filled \in 0..Lots - 1 /\ o.quote \in Int /\ p.quote \in Int
      /\ (o.status = "filled") = (o.executed = Lots) /\ Lots \in Nat \ {0}
  BY OrdersAssumption DEF Pollable, OrderAtVenue, PollRecord
<1>3. d # 0 => MarginalPrice(p) \in Int
  <2>1. ASSUME d # 0 PROVE MarginalPrice(p) \in Int
    <3>1. o.quote - p.quote \in Int /\ o.executed - p.filled \in Nat \ {0}
      BY <1>1, <1>2, <2>1 DEF NewTrades
    <3> DEFINE a == o.quote - p.quote
               c == o.executed - p.filled
    <3>2. MarginalPrice(p) = a \div c
      BY DEF MarginalPrice
    <3> HIDE DEF a, c
    <3> QED
      BY <3>1, <3>2, DivLeaves DEF a, c
  <2> QED
    BY <2>1
<1>4. d # 0 => f \in ToldOf(N)
  <2>1. ASSUME d # 0 PROVE f \in FillTold(N)
    <3>1. f = Fill(p.id, MarginalPrice(p), d, o.executed >= Lots)
      BY DEF TradeEvent, NewTrades
    <3>2. MarginalPrice(p) \in Int /\ d \in Nat
      BY <1>1, <1>3, <2>1
    <3>3. (o.executed >= Lots) \in BOOLEAN
      OBVIOUS
    <3> DEFINE c == o.executed >= Lots
               m == MarginalPrice(p)
    <3> HIDE DEF c, m, d, f
    <3>4. f = [type |-> "Fill", id |-> p.id, instrument |-> Coin, side |-> 1, price |-> m,
               qty |-> d, fee |-> 0, complete |-> c]
      BY <3>1 DEF Fill, c, m
    <3>5. m \in Int /\ d \in Nat /\ c \in BOOLEAN
      BY <3>2, <3>3 DEF m, c
    <3> QED
      BY <3>4, <3>5 DEF FillTold
  <2> QED
    BY <2>1 DEF ToldOf
<1>5. x \in ToldOf(N)
  BY DEF EndEvent, Canceled, Expired, ToldOf, OrderTold, Ends
<1>6. ClosedUnder(Account, ToldOf(N))
  <2> HIDE DEF N
  <2> QED
    BY <1>2, ToldCloses
<1>7. ASSUME NEW r \in Account
      PROVE  /\ Apply(r, x) \in Account /\ Net(Apply(r, x)) = Net(r) /\ Apply(r, x).cash = r.cash
             /\ Elements(Apply(r, x).open) = Elements(r.open) \ {p.id}
  <2>1. Shows(r, x, Apply(r, x))
    <3> HIDE DEF x, N
    <3> QED
      BY <1>2, <1>5, ToldShows
  <2>2. x.type \in Ends /\ x.type # "Fill" /\ x.type # "OrderAccepted" /\ x.id = p.id
    BY DEF EndEvent, Canceled, Expired, Ends
  <2>3. BoughtBy(x) = 0 /\ PaidBy(x) = 0
        /\ OpenAfter(Elements(r.open), x) = Elements(r.open) \ {p.id}
    BY <2>2 DEF BoughtBy, PaidBy, OpenAfter
  <2> HIDE DEF x
  <2>4. Net(r) \in Int /\ r.cash \in Int
    BY DEF Account, Accounts, Position, Net
  <2> QED
    BY <2>1, <2>3, <2>4 DEF Shows
<1>8. ASSUME d # 0
      PROVE  /\ Apply(q, f) \in Account /\ Net(Apply(q, f)) = Net(q) + d
             /\ Apply(q, f).cash = q.cash - MarginalPrice(p) * d
             /\ Elements(Apply(q, f).open)
                  = IF o.executed >= Lots THEN Elements(q.open) \ {p.id} ELSE Elements(q.open)
  <2>1. Shows(q, f, Apply(q, f))
    <3> HIDE DEF f, N, d
    <3> QED
      BY <1>2, <1>4, <1>8, ToldShows
  <2>2. f.type = "Fill" /\ f.qty = d /\ f.price = MarginalPrice(p) /\ f.id = p.id
        /\ f.complete = (o.executed >= Lots)
    BY DEF TradeEvent, Fill, NewTrades
  <2>3. BoughtBy(f) = d /\ PaidBy(f) = MarginalPrice(p) * d
        /\ OpenAfter(Elements(q.open), f)
             = IF o.executed >= Lots THEN Elements(q.open) \ {p.id} ELSE Elements(q.open)
    <3> HIDE DEF f, d, o
    <3> QED
      BY <2>2 DEF BoughtBy, PaidBy, OpenAfter, Ends
  <2> HIDE DEF f
  <2> QED
    BY <2>1, <2>3 DEF Shows
<1>9. Net(q) \in Int /\ q.cash \in Int
  BY DEF Account, Accounts, Position, Net
<1>10. Ended(p) = (o.status \in {"canceled", "expired"})
  BY DEF Ended
<1> DEFINE r == Replay(q, PollEvents(p))
<1> HIDE DEF f, x, d, N, o
<1>11. CASE d = 0 /\ ~Ended(p)
  <2>1. r = q
    <3>1. PollEvents(p) = << >>
      BY <1>1, <1>11
    <3>2. Replay(q, << >>) = q
      BY <1>6, ReplayNone
    <3> QED
      BY <3>1, <3>2 DEF r
  <2>2. o.status = "working"
    BY <1>1, <1>2, <1>10, <1>11
  <2> HIDE DEF r
  <2> QED
    BY <1>9, <1>11, <2>1, <2>2 DEF PollShown, d, o, r
<1>12. CASE d = 0 /\ Ended(p)
  <2>1. r = Apply(q, x)
    <3>1. PollEvents(p) = <<x>>
      BY <1>1, <1>12
    <3>2. Replay(q, <<x>>) = Apply(q, x)
      BY <1>5, <1>6, ReplayOne
    <3> QED
      BY <3>1, <3>2
  <2>2. o.status # "working"
    BY <1>10, <1>12
  <2> HIDE DEF r
  <2>3. /\ r \in Account /\ Net(r) = Net(q) + d /\ r.cash = q.cash - 0
        /\ Elements(r.open) = Elements(q.open) \ {p.id}
    BY <1>7, <1>9, <1>12, <2>1
  <2> QED
    BY <1>12, <2>2, <2>3 DEF PollShown, d, o, r
<1>13. CASE d # 0 /\ ~Ended(p)
  <2>1. r = Apply(q, f)
    <3>1. PollEvents(p) = <<f>> /\ f \in ToldOf(N)
      BY <1>1, <1>4, <1>13
    <3>2. Replay(q, <<f>>) = Apply(q, f)
      BY <1>6, <3>1, ReplayOne
    <3> QED
      BY <3>1, <3>2
  <2>2. /\ o.status = "working" => ~(o.executed >= Lots)
        /\ o.status # "working" => o.executed >= Lots
    <3>1. o.status \in {"working", "filled"}
      BY <1>2, <1>10, <1>13
    <3>2. (o.status = "filled") <=> (o.executed = Lots)
      BY <1>2
    <3>3. o.executed \in 0..Lots /\ Lots \in Nat
      BY <1>2
    <3>4. o.executed >= Lots <=> o.executed = Lots
      BY <3>3
    <3> QED
      BY <3>1, <3>2, <3>4
  <2> HIDE DEF r
  <2> QED
    BY <1>8, <1>13, <2>1, <2>2 DEF PollShown, d, o, r
<1>14. CASE d # 0 /\ Ended(p)
  <2>1. r = Apply(Apply(q, f), x)
    <3>1. PollEvents(p) = <<f, x>> /\ f \in ToldOf(N)
      BY <1>1, <1>4, <1>14
    <3>2. Replay(q, <<f, x>>) = Apply(Apply(q, f), x)
      BY <1>5, <1>6, <3>1, ReplayTwo
    <3> QED
      BY <3>1, <3>2
  <2>2. o.status # "working" /\ ~(o.executed >= Lots)
    <3>1. o.status \in {"canceled", "expired"}
      BY <1>10, <1>14
    <3>2. (o.status = "filled") <=> (o.executed = Lots)
      BY <1>2
    <3>3. o.executed \in 0..Lots /\ Lots \in Nat
      BY <1>2
    <3>4. o.executed >= Lots <=> o.executed = Lots
      BY <3>3
    <3> QED
      BY <3>1, <3>2, <3>4
  <2> HIDE DEF r
  <2>3. Apply(q, f) \in Account /\ Net(Apply(q, f)) = Net(q) + d
        /\ Apply(q, f).cash = q.cash - MarginalPrice(p) * d
        /\ Elements(Apply(q, f).open) = Elements(q.open)
    BY <1>8, <1>14, <2>2
  <2>4. r \in Account /\ Net(r) = Net(q) + d /\ r.cash = q.cash - MarginalPrice(p) * d
        /\ Elements(r.open) = Elements(q.open) \ {p.id}
    BY <1>7, <2>1, <2>3
  <2> QED
    BY <1>14, <2>2, <2>4 DEF PollShown, d, o, r
<1> QED
  BY <1>11, <1>12, <1>13, <1>14 DEF r
BookType(b) ==
  /\ b \in [Ids -> OrderAtVenue]
  /\ \A id \in Ids : (b[id].status = "filled") = (b[id].executed = Lots)

\* Some of the orders are finitely many.
LEMMA FewIds == ASSUME NEW N, N \subseteq Ids PROVE IsFiniteSet(N)
<1>1. IsFiniteSet(Ids)
  BY OrdersAssumption, FS_Interval DEF Ids
<1> QED
  BY <1>1, FS_Subset

\* A record that is dropped: its order counts in full.
LEMMA RecordDrops ==
  ASSUME NEW b, BookType(b), NEW N, N \subseteq Ids, NEW R, Sound(b, N, R), NEW p \in R
  PROVE  /\ Sound(b, N, R \ {p})
         /\ \A id \in Ids : HasRecord(R \ {p}, id) <=> HasRecord(R, id) /\ id # p.id
<1>1. Sound(b, N, R \ {p})
  BY DEF Sound
<1> QED
  BY <1>1 DEF Sound, HasRecord

\* And what it said of its order's fills and their price gives way to the book.
LEMMA SumsDrop ==
  ASSUME NEW b, BookType(b), NEW N, N \subseteq Ids, NEW R, Sound(b, N, R), NEW p \in R
  PROVE  /\ SumFunctionOnSet(SeenIn(b, R \ {p}), N)
              = SumFunctionOnSet(SeenIn(b, R), N) - p.filled + b[p.id].executed
         /\ SumFunctionOnSet(PaidIn(b, R \ {p}), N)
              = SumFunctionOnSet(PaidIn(b, R), N) - p.quote + b[p.id].quote
<1> DEFINE S == R \ {p}
<1>1. Sound(b, N, S)
  BY RecordDrops
<1>2. p.id \in N /\ p.id \in Ids /\ IsFiniteSet(N) /\ p \in PollRecord
  BY FewIds DEF Sound
<1>3. \A id \in Ids : HasRecord(S, id) <=> HasRecord(R, id) /\ id # p.id
  BY RecordDrops
<1> HIDE DEF S
<1>4. ASSUME NEW id \in Ids \ {p.id}
      PROVE  SeenIn(b, S)[id] = SeenIn(b, R)[id] /\ PaidIn(b, S)[id] = PaidIn(b, R)[id]
  <2>1. CASE HasRecord(R, id)
    <3>1. PICK r \in R : r.id = id
      BY <2>1 DEF HasRecord
    <3>2. r \in S
      BY <1>4, <3>1 DEF S
    <3> QED
      BY <1>1, <3>1, <3>2, SeenTypes DEF BookType
  <2>2. CASE ~HasRecord(R, id)
    <3>1. ~HasRecord(S, id)
      BY <1>3, <2>2
    <3> QED
      BY <1>1, <2>2, <3>1, SeenTypes DEF BookType
  <2> QED
    BY <2>1, <2>2
<1>5. /\ SeenIn(b, R)[p.id] = p.filled /\ PaidIn(b, R)[p.id] = p.quote
      /\ SeenIn(b, S)[p.id] = b[p.id].executed /\ PaidIn(b, S)[p.id] = b[p.id].quote
      /\ b[p.id].executed \in Int /\ b[p.id].quote \in Int
  <2>1. ~HasRecord(S, p.id)
    BY <1>2, <1>3
  <2>2. /\ SeenIn(b, S)[p.id] = b[p.id].executed /\ PaidIn(b, S)[p.id] = b[p.id].quote
        /\ b[p.id].executed \in Int /\ b[p.id].quote \in Int
    BY <1>1, <1>2, <2>1, SeenTypes DEF BookType
  <2>3. SeenIn(b, R)[p.id] = p.filled /\ PaidIn(b, R)[p.id] = p.quote
    BY <1>2, SeenTypes DEF BookType
  <2> QED
    BY <2>2, <2>3
<1>6. \A id \in N : SeenIn(b, R)[id] \in Int /\ PaidIn(b, R)[id] \in Int
  BY SeenTypes DEF BookType
<1>7. \A id \in N \ {p.id} :
        SeenIn(b, S)[id] = SeenIn(b, R)[id] /\ PaidIn(b, S)[id] = PaidIn(b, R)[id]
  BY <1>4
<1>8. SumFunctionOnSet(SeenIn(b, S), N)
        = SumFunctionOnSet(SeenIn(b, R), N) - SeenIn(b, R)[p.id] + SeenIn(b, S)[p.id]
  BY <1>2, <1>5, <1>6, <1>7, SumChange
<1>9. SumFunctionOnSet(PaidIn(b, S), N)
        = SumFunctionOnSet(PaidIn(b, R), N) - PaidIn(b, R)[p.id] + PaidIn(b, S)[p.id]
  BY <1>2, <1>5, <1>6, <1>7, SumChange
<1> QED
  BY <1>5, <1>8, <1>9 DEF S

\* A poll that is answered: the account has seen all of that order.
LEMMA PollDrops ==
  ASSUME BookType(book), NEW N, N \subseteq Ids, NEW R, Sound(book, N, R), NEW p \in R,
         NEW q, Polls(book, N, q, R)
  PROVE  Polls(book, N, Replay(q, PollEvents(p)), R \ {p})
<1> DEFINE r == Replay(q, PollEvents(p))
           S == R \ {p}
           d == NewTrades(p)
           o == book[p.id]
           more == o.quote - p.quote
           paid == MarginalPrice(p) * d
<1>1. Pollable(p)
  BY DEF Pollable, BookType, Sound, PollRecord
<1>2. /\ p.id \in N /\ p.filled \in Int /\ p.quote \in Int /\ o.executed \in Int
      /\ o.quote \in Int /\ p.id \in Ids
      /\ (p.filled = o.executed => p.quote = o.quote)
  BY <1>1 DEF Sound, Pollable, PollRecord, OrderAtVenue
<1>3. d \in Nat /\ d = o.executed - p.filled
  BY <1>1, PollCases DEF NewTrades
<1>4. PollShown(p, q, r)
  BY <1>1, PollShows DEF Polls
<1>5. /\ \A id \in Ids : HasRecord(S, id) <=> HasRecord(R, id) /\ id # p.id
      /\ SumFunctionOnSet(SeenIn(book, S), N)
           = SumFunctionOnSet(SeenIn(book, R), N) - p.filled + o.executed
      /\ SumFunctionOnSet(PaidIn(book, S), N)
           = SumFunctionOnSet(PaidIn(book, R), N) - p.quote + o.quote
  <2>1. \A id \in Ids : HasRecord(S, id) <=> HasRecord(R, id) /\ id # p.id
    BY RecordDrops
  <2>2. /\ SumFunctionOnSet(SeenIn(book, S), N)
             = SumFunctionOnSet(SeenIn(book, R), N) - p.filled + o.executed
        /\ SumFunctionOnSet(PaidIn(book, S), N)
             = SumFunctionOnSet(PaidIn(book, R), N) - p.quote + o.quote
    BY SumsDrop
  <2> QED
    BY <2>1, <2>2
<1>6. /\ SumFunctionOnSet(SeenIn(book, R), N) \in Int
      /\ SumFunctionOnSet(PaidIn(book, R), N) \in Int
  <2>1. \A id \in N : SeenIn(book, R)[id] \in Int /\ PaidIn(book, R)[id] \in Int
    BY SeenTypes DEF BookType
  <2> QED
    BY <2>1, FewIds, SumType
<1>7. more \in Int /\ (d = 0 => more = 0)
      /\ (d # 0 => paid \in Int /\ more - paid \in 0..d - 1)
  <2>1. more \in Int /\ (d = 0 => more = 0)
    BY <1>2, <1>3
  <2>2. ASSUME d # 0 PROVE paid \in Int /\ more - paid \in 0..d - 1
    <3>1. MarginalPrice(p) = more \div d
      BY <1>3 DEF MarginalPrice
    <3> HIDE DEF more, d
    <3>2. more \div d \in Int /\ more - (more \div d) * d \in 0..d - 1
      BY <1>3, <2>1, <2>2, DivLeaves
    <3>3. (more \div d) * d \in Int
      BY <1>3, <3>2, IntTimes
    <3> QED
      BY <3>1, <3>2, <3>3
  <2> QED
    BY <2>1, <2>2
<1>8. r.cash = q.cash - (IF d = 0 THEN 0 ELSE paid) /\ Net(r) = Net(q) + d /\ r \in Account
  BY <1>4 DEF PollShown
<1>9. /\ Net(q) = SumFunctionOnSet(SeenIn(book, R), N)
      /\ q.cash + SumFunctionOnSet(PaidIn(book, R), N) \in 0..Net(q)
      /\ q.cash \in Int /\ Net(q) \in Int
  BY DEF Polls, Account, Accounts, Position, Net
<1> DEFINE seen == SumFunctionOnSet(SeenIn(book, R), N)
           paidNow == SumFunctionOnSet(PaidIn(book, R), N)
<1>10. Net(r) = SumFunctionOnSet(SeenIn(book, S), N)
  <2> HIDE DEF S, r, d
  <2> QED
    BY <1>2, <1>3, <1>5, <1>6, <1>8, <1>9
<1>11. r.cash + SumFunctionOnSet(PaidIn(book, S), N) \in 0..Net(r)
  <2>1. SumFunctionOnSet(PaidIn(book, S), N) = paidNow + more
    <3> HIDE DEF S
    <3> QED
      BY <1>2, <1>5, <1>6
  <2> HIDE DEF S, r, d, more, paid, paidNow
  <2>2. paidNow \in Int /\ q.cash + paidNow \in 0..Net(q)
    BY <1>6, <1>9 DEF paidNow
  <2>3. CASE d = 0
    BY <1>3, <1>7, <1>8, <1>9, <2>1, <2>2, <2>3
  <2>4. CASE d # 0
    BY <1>3, <1>7, <1>8, <1>9, <2>1, <2>2, <2>4
  <2> QED
    BY <2>3, <2>4
<1>12. Elements(r.open) = {id \in N : HasRecord(S, id) \/ book[id].status = "working"}
  <2>1. Elements(q.open) = {id \in N : HasRecord(R, id) \/ book[id].status = "working"}
    BY DEF Polls
  <2>2. Elements(r.open) = IF o.status = "working" THEN Elements(q.open)
                           ELSE Elements(q.open) \ {p.id}
    BY <1>4 DEF PollShown
  <2>3. HasRecord(R, p.id)
    BY DEF HasRecord
  <2> HIDE DEF S, r
  <2>4. ASSUME NEW id \in N
        PROVE  id \in Elements(r.open) <=> HasRecord(S, id) \/ book[id].status = "working"
    BY <1>2, <1>5, <2>1, <2>2, <2>3
  <2> QED
    BY <2>1, <2>2, <2>4
<1> QED
  BY <1>8, <1>10, <1>11, <1>12 DEF Polls

\* A record added, that says no more than its order's book.
LEMMA RecordAdds ==
  ASSUME NEW b, BookType(b), NEW N, N \subseteq Ids, NEW R, Sound(b, N, R), NEW p \in PollRecord,
         p.id \in N, ~HasRecord(R, p.id), b[p.id].status # "none",
         p.filled <= b[p.id].executed, p.filled = b[p.id].executed => p.quote = b[p.id].quote
  PROVE  /\ Sound(b, N, R \cup {p})
         /\ \A id \in Ids : HasRecord(R \cup {p}, id) <=> HasRecord(R, id) \/ id = p.id
         /\ SumFunctionOnSet(SeenIn(b, R \cup {p}), N)
              = SumFunctionOnSet(SeenIn(b, R), N) + p.filled - b[p.id].executed
         /\ SumFunctionOnSet(PaidIn(b, R \cup {p}), N)
              = SumFunctionOnSet(PaidIn(b, R), N) + p.quote - b[p.id].quote
<1> DEFINE S == R \cup {p}
<1>1. Sound(b, N, S)
  BY DEF Sound, HasRecord
<1>2. p \in S /\ S \ {p} = R
  BY DEF HasRecord
<1>3. \A id \in Ids : HasRecord(S, id) <=> HasRecord(R, id) \/ id = p.id
  BY DEF HasRecord
<1>4. /\ \A id \in N : SeenIn(b, S)[id] \in Int /\ PaidIn(b, S)[id] \in Int
      /\ p.filled \in Int /\ p.quote \in Int
      /\ b[p.id].executed \in Int /\ b[p.id].quote \in Int
  <2> HIDE DEF S
  <2>1. \A id \in N : SeenIn(b, S)[id] \in Int /\ PaidIn(b, S)[id] \in Int
    BY <1>1, SeenTypes DEF BookType
  <2>2. b[p.id].executed \in Int /\ b[p.id].quote \in Int
    BY <1>1, SeenTypes DEF BookType
  <2> QED
    BY <2>1, <2>2 DEF PollRecord
<1> HIDE DEF S
<1>5. /\ SumFunctionOnSet(SeenIn(b, R), N)
           = SumFunctionOnSet(SeenIn(b, S), N) - p.filled + b[p.id].executed
      /\ SumFunctionOnSet(PaidIn(b, R), N)
           = SumFunctionOnSet(PaidIn(b, S), N) - p.quote + b[p.id].quote
  <2>1. /\ SumFunctionOnSet(SeenIn(b, S \ {p}), N)
             = SumFunctionOnSet(SeenIn(b, S), N) - p.filled + b[p.id].executed
        /\ SumFunctionOnSet(PaidIn(b, S \ {p}), N)
             = SumFunctionOnSet(PaidIn(b, S), N) - p.quote + b[p.id].quote
    <3>1. p \in S
      BY <1>2
    <3>2. SumFunctionOnSet(SeenIn(b, S \ {p}), N)
            = SumFunctionOnSet(SeenIn(b, S), N) - p.filled + b[p.id].executed
      BY <1>1, <3>1, SumsDrop
    <3>3. SumFunctionOnSet(PaidIn(b, S \ {p}), N)
            = SumFunctionOnSet(PaidIn(b, S), N) - p.quote + b[p.id].quote
      BY <1>1, <3>1, SumsDrop
    <3> QED
      BY <3>2, <3>3
  <2> QED
    BY <1>2, <2>1
<1>6. SumFunctionOnSet(SeenIn(b, S), N) \in Int /\ SumFunctionOnSet(PaidIn(b, S), N) \in Int
  BY <1>4, FewIds, SumType
<1>7. /\ SumFunctionOnSet(SeenIn(b, S), N)
           = SumFunctionOnSet(SeenIn(b, R), N) + p.filled - b[p.id].executed
      /\ SumFunctionOnSet(PaidIn(b, S), N)
           = SumFunctionOnSet(PaidIn(b, R), N) + p.quote - b[p.id].quote
  BY <1>4, <1>5, <1>6
<1> QED
  BY <1>1, <1>3, <1>7 DEF S

\* PolledPrefix solves its equation.
LEMMA PolledEquation ==
  ASSUME NEW s \in Seq(PollRecord), \A n \in 1..Len(s) : Pollable(s[n]), NEW q \in Account
  PROVE  \A n \in 0..Len(s) :
           PolledPrefix(q, s)[n] =
             IF n = 0 THEN q ELSE Replay(PolledPrefix(q, s)[n - 1], PollEvents(s[n]))
<1> DEFINE F(g) == [n \in 0..Len(s) |-> IF n = 0 THEN q ELSE Replay(g[n - 1], PollEvents(s[n]))]
           step == [n \in 1..Len(s) |-> [v \in Account |-> Replay(v, PollEvents(s[n]))]]
           N    == Len(s)
<1>1. N \in Nat
  OBVIOUS
<1>2. \A n \in 1..N : \A v \in Account :
        step[n][v] = Replay(v, PollEvents(s[n])) /\ step[n][v] \in Account
  BY PollShows DEF PollShown
<1> HIDE DEF step
<1>3. StaysIn(Account, N, step)
  BY <1>2 DEF StaysIn
<1>4. PICK f : Solves(f, Account, N, q, step)
  <2> HIDE DEF N
  <2> QED
    BY <1>1, <1>3, RecursionExists
<1>5. f = F(f)
  <2>1. ASSUME NEW n \in 0..N
        PROVE f[n] = IF n = 0 THEN q ELSE Replay(f[n - 1], PollEvents(s[n]))
    <3>1. CASE n = 0
      BY <1>4, <3>1 DEF Solves
    <3>2. CASE n # 0
      <4>1. n \in 1..N /\ n - 1 \in 0..N
        BY <1>1, <3>2
      <4> QED
        BY <1>2, <1>4, <3>2, <4>1 DEF Solves
    <3> QED
      BY <3>1, <3>2
  <2> QED
    BY <1>4, <2>1 DEF Solves
<1> DEFINE r == PolledPrefix(q, s)
<1>6. r = CHOOSE g : g = F(g)
  BY DEF PolledPrefix
<1>7. r = F(r)
  <2> HIDE DEF F, r
  <2> QED
    BY <1>5, <1>6
<1> HIDE DEF r
<1> QED
  BY <1>7 DEF r

\* Once every order with a record has been polled, the account has seen all.
LEMMA PolledAll ==
  ASSUME BookType(book), NEW N, N \subseteq Ids, NEW s \in Seq(PollRecord), Distinct(s),
         Sound(book, N, Elements(s)), NEW q, Polls(book, N, q, Elements(s))
  PROVE  Polls(book, N, PolledPrefix(q, s)[Len(s)], {})
<1> DEFINE Left(n) == {s[m] : m \in n + 1..Len(s)}
           Good(n) == Sound(book, N, Left(n)) /\ Polls(book, N, PolledPrefix(q, s)[n], Left(n))
           Fail == {n \in 0..Len(s) : ~Good(n)}
<1>1. Len(s) \in Nat /\ DOMAIN s = 1..Len(s) /\ \A n \in 1..Len(s) : s[n] \in PollRecord
  OBVIOUS
<1>2. \A n \in 1..Len(s) : Pollable(s[n])
  BY <1>1 DEF Pollable, BookType, Sound, PollRecord, Elements
<1>3. \A n \in 0..Len(s) :
        PolledPrefix(q, s)[n] =
          IF n = 0 THEN q ELSE Replay(PolledPrefix(q, s)[n - 1], PollEvents(s[n]))
  BY <1>2, PolledEquation DEF Polls
<1>4. Good(0)
  <2>1. Left(0) = Elements(s)
    BY <1>1 DEF Elements
  <2>2. PolledPrefix(q, s)[0] = q
    BY <1>1, <1>3
  <2> QED
    BY <2>1, <2>2
<1>5. ASSUME Fail # {} PROVE FALSE
  <2>1. Fail \subseteq Nat
    OBVIOUS
  <2>2. PICK n \in Fail : \A m \in Fail : n <= m
    BY <1>5, <2>1, LeastNat
  <2>3. n \in 1..Len(s) /\ n - 1 \in 0..Len(s) /\ n - 1 < n
    <3> HIDE DEF Good
    <3> QED
      BY <1>1, <1>4, <2>2
  <2>4. Good(n - 1)
    <3> HIDE DEF Good
    <3> QED
      BY <2>1, <2>2, <2>3
  <2>5. s[n] \in Left(n - 1) /\ Left(n) = Left(n - 1) \ {s[n]}
    <3>1. (n - 1) + 1 = n /\ n..Len(s) = {n} \cup (n + 1..Len(s)) /\ n \in Nat
      BY <1>1, <2>3
    <3>2. \A m \in n + 1..Len(s) : m \in 1..Len(s) /\ m # n
      BY <1>1, <2>3
    <3>3. \A m \in n + 1..Len(s) : s[m] # s[n]
      BY <1>1, <2>3, <3>2 DEF Distinct
    <3> QED
      BY <3>1, <3>3
  <2>6. Sound(book, N, Left(n))
    <3>1. Sound(book, N, Left(n - 1))
      BY <2>4
    <3> HIDE DEF Left
    <3>2. Sound(book, N, Left(n - 1) \ {s[n]})
      BY <2>5, <3>1, RecordDrops
    <3> QED
      BY <2>5, <3>2
  <2>7. Polls(book, N, Replay(PolledPrefix(q, s)[n - 1], PollEvents(s[n])), Left(n))
    <3> HIDE DEF Left
    <3> QED
      BY <2>4, <2>5, PollDrops
  <2>8. PolledPrefix(q, s)[n] = Replay(PolledPrefix(q, s)[n - 1], PollEvents(s[n]))
    BY <1>1, <1>3, <2>3
  <2> QED
    BY <2>2, <2>6, <2>7, <2>8
<1>6. Left(Len(s)) = {} /\ Len(s) \in 0..Len(s)
  BY <1>1
<1>7. Good(Len(s))
  BY <1>5, <1>6
<1> QED
  BY <1>6, <1>7

\* MEXC's stream comes to nothing: its client orders are not tagged as its
\* reader expects.
LEMMA NothingArrives ==
  ASSUME SessionTypes, client = "mexc"
  PROVE  Arrived = account
<1> DEFINE s == EventsOf(userWire)
<1>1. userWire \in Seq(ReportOn(PlacedIds)) /\ fills = << >> /\ account \in Account
  BY DEF SessionTypes
<1>2. \A n \in DOMAIN userWire : EventOf(userWire[n]) = Ignored
  <2>1. \A n \in DOMAIN userWire : userWire[n].tag = "akadro-"
    <3>1. \A n \in DOMAIN userWire : userWire[n] \in ReportOn(PlacedIds)
      BY <1>1
    <3>2. Tag = "akadro-"
      BY DEF Tag
    <3> QED
      BY <3>1, <3>2 DEF ReportOn
  <2> QED
    BY <2>1 DEF EventOf, Tagged, Ignored
<1>3. s \in Seq({Ignored})
  <2>1. s = [n \in DOMAIN userWire |-> EventOf(userWire[n])] /\ DOMAIN userWire = 1..Len(userWire)
        /\ Len(userWire) \in Nat
    BY <1>1 DEF EventsOf
  <2> HIDE DEF s
  <2> QED
    BY <1>2, <2>1
<1> HIDE DEF s
<1>4. << >> \o s = s
  BY <1>3
<1>5. ClosedUnder({account}, {Ignored})
  BY DEF ClosedUnder, Apply, Ignored
<1>6. Replay(account, s) \in {account}
  BY <1>3, <1>5, ReplayHead
<1> QED
  BY <1>1, <1>4, <1>6 DEF Arrived, s

\* The sums over the orders are numbers; with no record left all is seen, and
\* fewer orders have bought no more.
LEMMA Counts ==
  ASSUME NEW b, BookType(b), NEW N, N \subseteq Ids
  PROVE  /\ Bought(b, N) \in Int /\ Cost(b, N) \in Int /\ 0 <= Bought(b, N)
         /\ SumFunctionOnSet(SeenIn(b, {}), N) = Bought(b, N)
         /\ SumFunctionOnSet(PaidIn(b, {}), N) = Cost(b, N)
         /\ \A M \in SUBSET N : Bought(b, M) <= Bought(b, N)
<1> DEFINE F == [id \in Ids |-> b[id].executed]
           G == [id \in Ids |-> b[id].quote]
<1>1. IsFiniteSet(N)
  BY FewIds
<1>2. \A id \in N : F[id] \in Int /\ 0 <= F[id] /\ G[id] \in Int
  BY OrdersAssumption DEF BookType, OrderAtVenue
<1>3. \A id \in N : SeenIn(b, {})[id] = F[id] /\ PaidIn(b, {})[id] = G[id]
  BY DEF SeenIn, PaidIn, HasRecord
<1>4. Bought(b, N) = SumFunctionOnSet(F, N) /\ Cost(b, N) = SumFunctionOnSet(G, N)
  BY DEF Bought, Cost
<1> HIDE DEF F, G
<1>5. /\ SumFunctionOnSet(F, N) \in Int /\ SumFunctionOnSet(G, N) \in Int
  BY <1>1, <1>2, SumType
<1>6. /\ SumFunctionOnSet(SeenIn(b, {}), N) = SumFunctionOnSet(F, N)
      /\ SumFunctionOnSet(PaidIn(b, {}), N) = SumFunctionOnSet(G, N)
  BY <1>1, <1>2, <1>3, SumSame
<1>7. ASSUME NEW M \in SUBSET N PROVE Bought(b, M) <= Bought(b, N)
  <2> DEFINE H == [id \in Ids |-> IF id \in M THEN F[id] ELSE 0]
  <2>1. \A id \in N : H[id] \in Int /\ H[id] <= F[id]
    BY <1>2
  <2>2. \A id \in N \ M : H[id] = 0
    OBVIOUS
  <2>3. \A id \in M : F[id] \in Int /\ H[id] = F[id]
    BY <1>2
  <2> HIDE DEF H
  <2>4. SumFunctionOnSet(H, N) <= SumFunctionOnSet(F, N)
    BY <1>1, <1>2, <2>1, SumMonotone
  <2>5. SumFunctionOnSet(H, N) = SumFunctionOnSet(H, M)
    BY <1>1, <2>1, <2>2, SumSubset
  <2>6. SumFunctionOnSet(H, M) = SumFunctionOnSet(F, M)
    <3>1. IsFiniteSet(M)
      BY <1>1, FS_Subset
    <3> QED
      BY <2>3, <3>1, SumSame
  <2>7. Bought(b, M) = SumFunctionOnSet(F, M)
    BY DEF Bought, F
  <2> QED
    BY <1>4, <2>4, <2>5, <2>6, <2>7
<1>8. 0 <= SumFunctionOnSet(F, N)
  <2> DEFINE Z == [id \in Ids |-> 0]
  <2>1. \A id \in N : Z[id] = 0 /\ Z[id] \in Int /\ Z[id] <= F[id]
    BY <1>2
  <2> HIDE DEF Z
  <2>2. SumFunctionOnSet(Z, N) <= SumFunctionOnSet(F, N)
    BY <1>1, <1>2, <2>1, SumMonotone
  <2>3. SumFunctionOnSet(Z, N) = 0
    BY <1>1, <2>1, SumZero
  <2> QED
    BY <2>2, <2>3
<1> QED
  BY <1>4, <1>5, <1>6, <1>7, <1>8

\* What OrdersInv says of an account that is polled is what the runs check.
LEMMA TrueByPoll ==
  ASSUME OrdersInv, client = "mexc"
  PROVE  PositionTrue /\ OpenTrue
<1> DEFINE ps == pending \o still
           q == CaughtUp
           N == Answered
<1>1. /\ SessionTypes /\ BookType(book) /\ placed \in 0..MaxOrders /\ N = Known
      /\ N \subseteq PlacedIds /\ PlacedIds \subseteq Ids
  <2>1. SessionTypes /\ placed \in 0..MaxOrders
    BY DEF OrdersInv, BookKept
  <2>2. BookType(book)
    BY <2>1 DEF SessionTypes, BookType
  <2>3. N = Known /\ N \subseteq PlacedIds
    BY DEF Answered, Known
  <2>4. PlacedIds \subseteq Ids
    BY <2>1, OrdersAssumption DEF PlacedIds, Ids
  <2> QED
    BY <2>1, <2>2, <2>3, <2>4
<1>2. N \subseteq Ids
  BY <1>1
<1>3. ps \in Seq(PollRecord)
  BY <1>1 DEF SessionTypes
<1>4. Distinct(ps) /\ Sound(book, N, Elements(ps)) /\ Polls(book, N, account, Elements(ps))
  BY DEF OrdersInv, PollInv, Polling
<1>5. q = PolledPrefix(account, ps)[Len(ps)]
  BY <1>1, NothingArrives DEF CaughtUp
<1> HIDE DEF q, ps, N
<1>6. Polls(book, N, q, {})
  BY <1>1, <1>2, <1>3, <1>4, <1>5, PolledAll
<1>7. /\ Bought(book, N) \in Int /\ Cost(book, N) \in Int /\ Bought(book, PlacedIds) \in Int
      /\ SumFunctionOnSet(SeenIn(book, {}), N) = Bought(book, N)
      /\ SumFunctionOnSet(PaidIn(book, {}), N) = Cost(book, N)
      /\ Bought(book, N) <= Bought(book, PlacedIds)
  BY <1>1, <1>2, Counts
<1>8. Net(account) <= Bought(book, N)
  <2> DEFINE R == Elements(ps)
             F == [id \in Ids |-> book[id].executed]
  <2>1. \A id \in N : SeenIn(book, R)[id] \in Int /\ F[id] \in Int /\ SeenIn(book, R)[id] <= F[id]
    BY <1>1, <1>2, <1>4, SeenTypes DEF BookType
  <2> HIDE DEF R, F
  <2>2. SumFunctionOnSet(SeenIn(book, R), N) <= SumFunctionOnSet(F, N)
    BY <1>2, <2>1, FewIds, SumMonotone
  <2>3. Net(account) = SumFunctionOnSet(SeenIn(book, R), N)
    BY <1>4 DEF Polls, R
  <2> QED
    BY <2>2, <2>3 DEF Bought, F
<1>9. account.positions[Coin].net <= Executed(PlacedIds)
  <2>1. Net(account) \in Int
    BY <1>1 DEF SessionTypes, Account, Accounts, Position, Net
  <2>2. Net(account) <= Bought(book, PlacedIds)
    BY <1>7, <1>8, <2>1
  <2> QED
    BY <2>2 DEF Executed, Bought, Net
<1>10. /\ q.positions[Coin].net = Executed(Known)
       /\ q.cash + Spent(Known) \in 0..q.positions[Coin].net
  BY <1>1, <1>6, <1>7 DEF Polls, Executed, Spent, Bought, Cost, Net
<1>11. PositionTrue
  BY <1>9, <1>10 DEF PositionTrue, q
<1>12. OpenTrue
  <2>1. Elements(q.open) = {id \in N : book[id].status = "working"}
    BY <1>6 DEF Polls, HasRecord
  <2>2. q.open \in Seq(Ids)
    BY <1>6 DEF Polls, Account, Accounts
  <2>3. \A id : Contains(q.open, id) <=> id \in Elements(q.open)
    BY <2>2 DEF Contains, Elements
  <2>4. {id \in PlacedIds : Contains(q.open, id)} = {id \in Known : book[id].status = "working"}
    BY <1>1, <2>1, <2>3
  <2> QED
    BY <2>4 DEF OpenTrue, q
<1> QED
  BY <1>11, <1>12

\* What an account is told never takes from what it has bought.
LEMMA NetGrows ==
  ASSUME NEW N, N \subseteq Ids, NEW q \in Account, NEW s \in Seq(ToldOf(N))
  PROVE  Replay(q, s) \in Account /\ Net(q) <= Net(Replay(q, s))
<1> DEFINE P == {r \in Account : Net(q) <= Net(r)}
<1>1. \A r \in Account : Net(r) \in Int
  BY DEF Account, Accounts, Position, Net
<1>2. ASSUME NEW r \in P, NEW e \in ToldOf(N) PROVE Apply(r, e) \in P
  <2>1. Shows(r, e, Apply(r, e))
    BY ToldShows
  <2>2. BoughtBy(e) \in Nat
    BY DEF ToldOf, OrderTold, FillTold, Ends, Ignored, BoughtBy
  <2>3. Apply(r, e) \in Account /\ Net(Apply(r, e)) = Net(r) + BoughtBy(e)
    BY <2>1 DEF Shows
  <2>4. r \in Account /\ Net(q) <= Net(r) /\ Net(r) \in Int /\ Net(q) \in Int
    BY <1>1
  <2>5. Net(q) <= Net(Apply(r, e))
    BY <2>2, <2>3, <2>4
  <2> QED
    BY <2>3, <2>5
<1>3. q \in P
  BY <1>1
<1> HIDE DEF P
<1>4. Replay(q, s) \in P
  BY <1>2, <1>3, ReplayHead DEF ClosedUnder
<1> QED
  BY <1>4 DEF P

\* What is on its way is about placed orders.
LEMMA RestTyped ==
  ASSUME BookKept, SessionTypes
  PROVE  /\ PlacedIds \subseteq Ids /\ BookType(book)
         /\ fills \in Seq(ToldOf(PlacedIds)) /\ userWire \in Seq(ReportOn(PlacedIds))
         /\ EventsOf(userWire) \in Seq(ToldOf(PlacedIds))
         /\ fills \o EventsOf(userWire) \in Seq(ToldOf(PlacedIds))
         /\ Arrived \in Account /\ account \in Account
<1>1. PlacedIds \subseteq Ids
  <2>1. placed \in 0..MaxOrders
    BY DEF BookKept
  <2> QED
    BY <2>1, OrdersAssumption DEF PlacedIds, Ids
<1>2. /\ fills \in Seq(ToldOf(PlacedIds)) /\ userWire \in Seq(ReportOn(PlacedIds))
      /\ account \in Account /\ BookType(book)
  BY DEF SessionTypes, BookType
<1>3. EventsOf(userWire) \in Seq(ToldOf(PlacedIds))
  BY <1>2, EventsOfWire DEF BookKept
<1>4. fills \o EventsOf(userWire) \in Seq(ToldOf(PlacedIds))
  <2> DEFINE s == EventsOf(userWire)
  <2>1. fills \in Seq(ToldOf(PlacedIds)) /\ s \in Seq(ToldOf(PlacedIds))
    BY <1>2, <1>3
  <2> HIDE DEF s
  <2>2. fills \o s \in Seq(ToldOf(PlacedIds))
    BY <2>1
  <2> QED
    BY <2>2 DEF s
<1>5. Arrived \in Account
  BY <1>1, <1>2, <1>4, NetGrows DEF Arrived
<1> QED
  BY <1>1, <1>2, <1>3, <1>4, <1>5

\* And of one that a stream tells.
LEMMA TrueByStream ==
  ASSUME OrdersInv, client # "mexc"
  PROVE  PositionTrue /\ OpenTrue
<1> DEFINE q == Arrived
<1>1. /\ SessionTypes /\ BookKept /\ PlacedIds \subseteq Ids /\ BookType(book)
      /\ q \in Account /\ account \in Account
  BY RestTyped DEF OrdersInv
<1>2. CaughtUp = q
  <2>1. pending = << >> /\ still = << >>
    BY <1>1 DEF SessionTypes
  <2>2. PICK none \in Seq(PollRecord) : none = << >>
    <3>1. << >> \in Seq(PollRecord)
      OBVIOUS
    <3> QED
      BY <3>1
  <2>3. pending \o still = none /\ Len(none) = 0 /\ 0 \in 0..Len(none)
    BY <2>1, <2>2
  <2>4. PolledPrefix(q, none)[0] = q
    <3>1. \A n \in 1..Len(none) : Pollable(none[n])
      BY <2>3
    <3> HIDE DEF q
    <3> QED
      BY <1>1, <2>3, <3>1, PolledEquation
  <2> QED
    BY <2>3, <2>4 DEF CaughtUp
<1>3. Net(account) <= Net(q)
  BY <1>1, RestTyped, NetGrows DEF Arrived
<1>4. /\ Net(q) <= Bought(book, PlacedIds)
      /\ userLink => Whole(book, PlacedIds, q)
  BY DEF OrdersInv, StreamInv
<1>5. Net(q) \in Int /\ Net(account) \in Int /\ q.cash \in Int /\ Bought(book, PlacedIds) \in Int
  <2>1. Bought(book, PlacedIds) \in Int
    BY <1>1, Counts
  <2> HIDE DEF q
  <2>2. \A r \in Account : Net(r) \in Int /\ r.cash \in Int
    BY DEF Account, Accounts, Position, Net
  <2> QED
    BY <1>1, <2>1, <2>2
<1> HIDE DEF q
<1>6. account.positions[Coin].net <= Executed(PlacedIds)
  <2>1. Net(account) <= Bought(book, PlacedIds)
    BY <1>3, <1>4, <1>5
  <2> QED
    BY <2>1 DEF Executed, Bought, Net
<1>7. ASSUME client = "binance", userLink
      PROVE  /\ q.positions[Coin].net = Executed(Known) /\ q.cash + Spent(Known) = 0
             /\ Known = PlacedIds /\ Elements(q.open) = Working(book, PlacedIds)
  BY <1>4, <1>7 DEF Whole, Executed, Spent, Bought, Cost, Net, Known
<1>8. PositionTrue
  <2>1. ASSUME client = "binance", userLink
        PROVE  /\ q.positions[Coin].net = Executed(Known)
               /\ q.cash + Spent(Known) \in 0..0
    BY <1>7, <2>1
  <2> QED
    BY <1>2, <1>6, <2>1 DEF PositionTrue
<1>9. OpenTrue
  <2>1. ASSUME client = "binance", userLink
        PROVE  {id \in PlacedIds : Contains(q.open, id)} = {id \in Known : book[id].status = "working"}
    <3>1. q.open \in Seq(Ids)
      BY <1>1 DEF Account, Accounts
    <3>2. \A id : Contains(q.open, id) <=> id \in Elements(q.open)
      BY <3>1 DEF Contains, Elements
    <3> QED
      BY <1>7, <2>1, <3>2 DEF Working
  <2> QED
    BY <1>2, <2>1 DEF OpenTrue
<1> QED
  BY <1>8, <1>9

\* Of the other clients only the bound is claimed.
LEMMA OrdersTrue == OrdersInv => PositionTrue /\ OpenTrue
BY TrueByPoll, TrueByStream

-----------------------------------------------------------------------------
(* Nothing that happens loses sight of an order *)

\* Reports on some of the orders are reports on more of them.
LEMMA Widen ==
  ASSUME NEW N, NEW M, N \subseteq M
  PROVE  /\ \A s \in Seq(ToldOf(N)) : s \in Seq(ToldOf(M))
         /\ \A s \in Seq(ReportOn(N)) : s \in Seq(ReportOn(M))
<1>1. ToldOf(N) \subseteq ToldOf(M)
  BY DEF ToldOf, OrderTold, FillTold
<1>2. ReportOn(N) \subseteq ReportOn(M)
  BY DEF ReportOn
<1> DEFINE A == ToldOf(N)
           B == ToldOf(M)
           C == ReportOn(N)
           D == ReportOn(M)
<1>3. A \subseteq B /\ C \subseteq D
  BY <1>1, <1>2
<1> HIDE DEF A, B, C, D
<1>4. (\A s \in Seq(A) : s \in Seq(B)) /\ \A s \in Seq(C) : s \in Seq(D)
  BY <1>3
<1> QED
  BY <1>4 DEF A, B, C, D

\* The connector stays the same, and with it what its reports say.
LEMMA SameClient ==
  ASSUME client' = client
  PROVE  /\ \A N : ReportOn(N)' = ReportOn(N)
         /\ Arrived' = Replay(account', fills' \o EventsOf(userWire'))
         /\ PlacedIds' = 1..placed'
BY DEF ReportOn, Tag, Arrived, EventsOf, EventOf, AccountEvent, Tagged, PlacedIds

\* What the types say of a step that takes no order.
LEMMA TypesStay ==
  ASSUME SessionTypes, UNCHANGED <<client, placed, unanswered, book>>,
         account' \in Account, userLink' \in BOOLEAN, userLink' => userLink,
         userWire' \in Seq(ReportOn(PlacedIds)), fills' \in Seq(ToldOf(PlacedIds)),
         pending' \in Seq(PollRecord), still' \in Seq(PollRecord),
         stage' # "polling" => still' = << >>,
         client # "mexc" => pending' = << >> /\ still' = << >> /\ stage' # "polling",
         client = "mexc" => fills' = << >>
  PROVE  SessionTypes'
<1>1. ReportOn(PlacedIds)' = ReportOn(PlacedIds) /\ PlacedIds' = PlacedIds
  BY DEF ReportOn, Tag, PlacedIds
<1> QED
  BY <1>1 DEF SessionTypes

\* Nothing but the engine's stage changes.
LEMMA QuietLive ==
  ASSUME OrdersInv, UNCHANGED <<client, placed, asked, venueSide, clientSide, account, unanswered>>,
         stage' # "polling" => still = << >>, client # "mexc" => stage' # "polling"
  PROVE  SessionTypes' /\ StreamInv' /\ PollInv'
<1>1. UNCHANGED <<book, userLink, userWire, fills, pending, still, client, placed, account, unanswered>>
  BY DEF venueSide, clientSide
<1>2. SessionTypes /\ StreamInv /\ PollInv /\ BookKept
  BY DEF OrdersInv
<1>3. SessionTypes'
  BY <1>1, <1>2, TypesStay DEF SessionTypes
<1>4. Arrived' = Arrived /\ PlacedIds' = PlacedIds
  BY <1>1, SameClient DEF Arrived, PlacedIds
<1>5. StreamInv'
  BY <1>1, <1>2, <1>4 DEF StreamInv
<1>6. PollInv'
  BY <1>1, <1>2, <1>4 DEF PollInv, Answered, Polling
<1> QED
  BY <1>3, <1>5, <1>6

\* Nothing is placed at first.
LEMMA InitLive == Init => OrdersInv
<1> SUFFICES ASSUME Init PROVE OrdersInv
  OBVIOUS
<1>0. BookKept
  BY InitOrders
<1>1. PICK s \in Sessions : OrdersInit({s[2]})
  BY DEF Init
<1>2. /\ placed = 0 /\ book = [id \in Ids |-> Unplaced] /\ userLink = (client \in Streams)
      /\ userWire = << >> /\ fills = << >> /\ pending = << >> /\ still = << >>
      /\ stage = "deciding" /\ account = OpenPortfolio({Coin}, 0) /\ unanswered = {}
      /\ Lots \in Nat \ {0}
  BY <1>1, OrdersAssumption DEF OrdersInit
<1>3. account \in Account /\ Net(account) = 0 /\ account.cash = 0 /\ Elements(account.open) = {}
  <2>1. account = [cash |-> 0, realized |-> 0, tradingFees |-> 0, fundingNet |-> 0,
                   liquidationPnl |-> 0, rounding |-> 0,
                   positions |-> [i \in {Coin} |-> [net |-> 0, avg |-> 0]],
                   held |-> {}, open |-> << >>]
    BY <1>2 DEF OpenPortfolio
  <2>2. [i \in {Coin} |-> [net |-> 0, avg |-> 0]] \in [{Coin} -> Position]
    BY DEF Position
  <2>3. << >> \in Seq(Ids)
    OBVIOUS
  <2>4. account \in Account
    BY <2>1, <2>2, <2>3 DEF Account, Accounts
  <2>5. Net(account) = 0 /\ account.cash = 0 /\ account.open = << >>
    BY <2>1 DEF Net
  <2> QED
    BY <2>4, <2>5 DEF Elements
<1>4. PlacedIds = {}
  BY <1>2 DEF PlacedIds
<1>5. SessionTypes
  <2>1. book \in [Ids -> OrderAtVenue]
        /\ \A id \in Ids : (book[id].status = "filled") = (book[id].executed = Lots)
    BY <1>2 DEF OrderAtVenue, Unplaced
  <2>2. userWire \in Seq(ReportOn(PlacedIds)) /\ fills \in Seq(ToldOf(PlacedIds))
        /\ pending \in Seq(PollRecord) /\ still \in Seq(PollRecord)
    BY <1>2
  <2>3. userLink \in BOOLEAN /\ (userLink => client \in Streams)
    <3>1. userLink = (client \in Streams)
      BY <1>2
    <3>2. (client \in Streams) \in BOOLEAN
      OBVIOUS
    <3>3. userLink \in BOOLEAN
      BY <3>1, <3>2, Zenon
    <3>4. userLink => client \in Streams
      BY <3>1
    <3> QED
      BY <3>3, <3>4
  <2>4. unanswered \subseteq PlacedIds
    BY <1>2
  <2>5. /\ stage # "polling" => still = << >>
        /\ client # "mexc" => pending = << >> /\ still = << >> /\ stage # "polling"
        /\ client = "mexc" => fills = << >>
    BY <1>2
  <2> QED
    BY <1>3, <2>1, <2>2, <2>3, <2>4, <2>5 DEF SessionTypes
<1>6. BookType(book) /\ Bought(book, {}) = 0 /\ Cost(book, {}) = 0
      /\ SumFunctionOnSet(SeenIn(book, {}), {}) = 0 /\ SumFunctionOnSet(PaidIn(book, {}), {}) = 0
  <2>1. IsFiniteSet({})
    BY FS_EmptySet
  <2>2. \A F : SumFunctionOnSet(F, {}) = 0
    BY <2>1, SumStep
  <2> QED
    BY <1>5, <2>2 DEF SessionTypes, BookType, Bought, Cost
<1>7. Arrived = account
  <2>1. EventsOf(userWire) = << >>
    BY <1>2 DEF EventsOf
  <2>2. fills \o EventsOf(userWire) = << >>
    BY <1>2, <2>1
  <2> DEFINE E == ToldOf(PlacedIds)
  <2>3. ClosedUnder(Account, E)
    <3>1. PlacedIds \subseteq Ids
      BY <1>4
    <3> QED
      BY <3>1, ToldCloses
  <2> HIDE DEF E
  <2>4. account \in Account
    BY <1>3
  <2>5. Replay(account, << >>) = account
    BY <2>3, <2>4, ReplayNone
  <2> QED
    BY <2>2, <2>5 DEF Arrived
<1>8. StreamInv
  BY <1>3, <1>4, <1>6, <1>7 DEF StreamInv, Whole, Working
<1>9. PollInv
  <2>1. Answered = {} /\ Polling = << >>
    BY <1>2, <1>4 DEF Answered, Polling
  <2>2. Elements(<< >>) = {} /\ Distinct(<< >>)
    BY DEF Elements, Distinct
  <2>3. Sound(book, {}, {})
    BY DEF Sound
  <2>4. Polls(book, {}, account, {})
    BY <1>3, <1>6 DEF Polls
  <2> QED
    BY <2>1, <2>2, <2>3, <2>4 DEF PollInv
<1> QED
  BY <1>0, <1>5, <1>8, <1>9 DEF OrdersInv

\* What comes last on the wire is what the account is told last.
LEMMA WireConcat ==
  ASSUME client \in Clients, NEW N, N \subseteq Ids, NEW q \in Account, NEW f \in Seq(ToldOf(N)),
         NEW u \in Seq(ReportOn(N)), NEW v \in Seq(ReportOn(N))
  PROVE  /\ Replay(q, f \o EventsOf(u)) \in Account /\ EventsOf(v) \in Seq(ToldOf(N))
         /\ Replay(q, f \o EventsOf(u \o v)) = Replay(Replay(q, f \o EventsOf(u)), EventsOf(v))
<1> DEFINE a == EventsOf(u)
           b == EventsOf(v)
           E == ToldOf(N)
<1>1. a \in Seq(E) /\ b \in Seq(E) /\ EventsOf(u \o v) = a \o b
  BY EventsOfWire
<1>2. ClosedUnder(Account, E)
  BY ToldCloses
<1>3. f \in Seq(E)
  OBVIOUS
<1> HIDE DEF a, b, E
<1>4. f \o (a \o b) = (f \o a) \o b
  BY <1>1, <1>3
<1>5. f \o a \in Seq(E)
  BY <1>1, <1>3
<1> DEFINE g == f \o a
<1> HIDE DEF g
<1>6. Replay(q, g \o b) = Replay(Replay(q, g), b) /\ Replay(q, g) \in Account
  <2>1. g \in Seq(E)
    BY <1>5 DEF g
  <2> QED
    BY <1>1, <1>2, <2>1, ReplayConcat, ReplayHead
<1>7. /\ Replay(q, (f \o a) \o b) = Replay(Replay(q, f \o a), b)
      /\ Replay(q, f \o a) \in Account
  BY <1>6 DEF g
<1> QED
  BY <1>1, <1>4, <1>7 DEF a, b, E

\* The user-data socket is lost: less will come.
LEMMA UserLinkDropsLive ==
  ASSUME OrdersInv, UserLinkDrops
  PROVE  SessionTypes' /\ StreamInv' /\ PollInv'
<1>1. /\ SessionTypes /\ BookKept /\ StreamInv /\ PollInv
      /\ userLink' = FALSE
      /\ UNCHANGED <<client, placed, book, fills, pending, still, stage, account, unanswered>>
  BY DEF OrdersInv, UserLinkDrops, clientSide
<1>2. PICK n \in 0..Len(userWire) : userWire' = SubSeq(userWire, 1, n)
  BY DEF UserLinkDrops
<1> DEFINE u == SubSeq(userWire, 1, n)
           v == SubSeq(userWire, n + 1, Len(userWire))
<1>3. /\ userWire \in Seq(ReportOn(PlacedIds)) /\ PlacedIds \subseteq Ids /\ BookType(book)
      /\ fills \in Seq(ToldOf(PlacedIds)) /\ account \in Account /\ client \in Clients
  BY <1>1, RestTyped DEF BookKept
<1>4. u \in Seq(ReportOn(PlacedIds)) /\ v \in Seq(ReportOn(PlacedIds)) /\ userWire = u \o v
  <2> DEFINE T == ReportOn(PlacedIds)
  <2>1. userWire \in Seq(T) /\ Len(userWire) \in Nat /\ n \in Nat /\ n <= Len(userWire)
    BY <1>3
  <2> HIDE DEF T
  <2>2. /\ u \in Seq(T) /\ Len(u) = n
        /\ \A i \in 1..n : u[i] = userWire[i]
    BY <2>1
  <2>3. /\ v \in Seq(T) /\ Len(v) = Len(userWire) - n
        /\ \A i \in 1..Len(userWire) - n : v[i] = userWire[n + i]
    BY <2>1
  <2> HIDE DEF u, v
  <2>4. u \o v \in Seq(T) /\ Len(u \o v) = Len(userWire)
    BY <2>1, <2>2, <2>3
  <2>5. ASSUME NEW i \in 1..Len(userWire) PROVE (u \o v)[i] = userWire[i]
    <3>1. CASE i <= n
      BY <2>1, <2>2, <2>3, <3>1
    <3>2. CASE i > n
      <4>1. i - n \in 1..Len(userWire) - n /\ n + (i - n) = i
        BY <2>1, <3>2
      <4>2. (u \o v)[i] = v[i - n]
        BY <2>1, <2>2, <2>3, <3>2
      <4> QED
        BY <2>3, <4>1, <4>2
    <3>3. i <= n \/ i > n
      BY <2>1
    <3> QED
      BY <3>1, <3>2, <3>3
  <2> DEFINE w == u \o v
  <2> HIDE DEF w
  <2>6. userWire = w
    <3>1. w \in Seq(T) /\ Len(w) = Len(userWire) /\ \A i \in 1..Len(userWire) : w[i] = userWire[i]
      BY <2>4, <2>5 DEF w
    <3> QED
      BY <2>1, <3>1
  <2> QED
    BY <2>2, <2>3, <2>6 DEF T, w
<1> HIDE DEF u, v
<1>5. userWire' = u
  BY <1>2 DEF u
<1>6. SessionTypes'
  <2>1. userWire' \in Seq(ReportOn(PlacedIds))
    BY <1>4, <1>5
  <2> QED
    BY <1>1, <2>1, TypesStay DEF SessionTypes
<1>7. Net(Arrived') <= Net(Arrived) /\ Net(Arrived) \in Int /\ Net(Arrived') \in Int
  <2> DEFINE early == Replay(account, fills \o EventsOf(u))
  <2>1. Arrived' = early
    BY <1>1, <1>5, SameClient
  <2>2. early \in Account /\ EventsOf(v) \in Seq(ToldOf(PlacedIds))
        /\ Replay(account, fills \o EventsOf(u \o v)) = Replay(early, EventsOf(v))
    BY <1>3, <1>4, WireConcat
  <2> HIDE DEF early
  <2>3. Arrived = Replay(early, EventsOf(v))
    BY <1>4, <2>2 DEF Arrived
  <2>4. Net(early) <= Net(Arrived) /\ Arrived \in Account
    BY <1>3, <2>2, <2>3, NetGrows
  <2> QED
    BY <2>1, <2>2, <2>4 DEF Account, Accounts, Position, Net
<1>8. PlacedIds' = PlacedIds /\ Bought(book, PlacedIds) \in Int
  BY <1>1, <1>3, Counts DEF PlacedIds
<1>9. StreamInv'
  <2>1. client # "mexc" => Net(Arrived) <= Bought(book, PlacedIds)
    BY <1>1 DEF StreamInv
  <2>2. client # "mexc" => Net(Arrived') <= Bought(book, PlacedIds)
    BY <1>7, <1>8, <2>1
  <2> QED
    BY <1>1, <1>8, <2>2 DEF StreamInv
<1>10. PollInv'
  BY <1>1, <1>8 DEF PollInv, Answered, Polling
<1> QED
  BY <1>6, <1>9, <1>10

\* A report is read off the wire: it is still on its way.
LEMMA ReadReportLive ==
  ASSUME OrdersInv, ReadReport
  PROVE  SessionTypes' /\ StreamInv' /\ PollInv'
<1> DEFINE r == Head(userWire)
           e == EventOf(r)
           T == ToldOf(PlacedIds)
<1>1. /\ SessionTypes /\ BookKept /\ StreamInv /\ PollInv
      /\ userWire # << >> /\ userWire' = Tail(userWire)
      /\ fills' = IF Tagged(r) THEN Append(fills, AccountEvent(r)) ELSE fills
      /\ UNCHANGED <<client, placed, book, userLink, pending, still, stage, account, unanswered>>
  BY DEF OrdersInv, ReadReport
<1>2. /\ userWire \in Seq(ReportOn(PlacedIds)) /\ PlacedIds \subseteq Ids
      /\ fills \in Seq(T) /\ account \in Account /\ client \in Clients
  BY <1>1, RestTyped DEF BookKept
<1>3. userWire' \in Seq(ReportOn(PlacedIds)) /\ r \in ReportOn(PlacedIds)
  BY <1>1, <1>2
<1>4. e \in T /\ (Tagged(r) => AccountEvent(r) = e)
  BY <1>2, <1>3, EventOfType DEF EventOf
<1>5. Tagged(r) = (client # "mexc")
  <2>1. r.tag = Tag
    BY <1>3 DEF ReportOn
  <2> QED
    BY <2>1 DEF Tagged, Tag
<1>6. fills' \in Seq(T) /\ (client = "mexc" => fills' = << >>)
  <2>1. client = "mexc" => fills = << >>
    BY <1>1 DEF SessionTypes
  <2> HIDE DEF r, e, T
  <2>2. CASE Tagged(r)
    <3>1. fills' = Append(fills, e)
      BY <1>1, <1>4, <2>2
    <3>2. Append(fills, e) \in Seq(T)
      BY <1>2, <1>4
    <3> QED
      BY <1>5, <2>2, <3>1, <3>2
  <2>3. CASE ~Tagged(r)
    BY <1>1, <1>2, <2>1, <2>3
  <2> QED
    BY <2>2, <2>3
<1>7. SessionTypes'
  BY <1>1, <1>2, <1>3, <1>6, TypesStay DEF SessionTypes
<1>8. PlacedIds' = PlacedIds
  BY <1>1 DEF PlacedIds
<1>9. ASSUME client # "mexc" PROVE Arrived' = Arrived
  <2> DEFINE rest == EventsOf(Tail(userWire))
  <2>1. Arrived' = Replay(account, fills' \o rest)
    BY <1>1, SameClient
  <2>2. EventsOf(userWire) = <<e>> \o rest /\ rest \in Seq(T)
    <3>1. EventsOf(userWire) = <<e>> \o rest
      BY <1>1, <1>2, EventsOfWire
    <3>2. rest \in Seq(T)
      BY <1>1, <1>2, <1>3, EventsOfWire
    <3> QED
      BY <3>1, <3>2
  <2> HIDE DEF rest, r, e, T
  <2>3. fills' = Append(fills, e)
    BY <1>1, <1>4, <1>5, <1>9
  <2> DEFINE one == <<e>>
  <2>4. one \in Seq(T)
    BY <1>4
  <2>5. Append(fills, e) = fills \o one
    BY <1>2, <1>4
  <2> HIDE DEF one
  <2>6. (fills \o one) \o rest = fills \o (one \o rest)
    <3>1. fills \in Seq(T) /\ one \in Seq(T) /\ rest \in Seq(T)
      BY <1>2, <2>2, <2>4
    <3> QED
      BY <3>1
  <2> QED
    BY <2>1, <2>2, <2>3, <2>5, <2>6 DEF Arrived, one
<1>10. StreamInv'
  BY <1>1, <1>8, <1>9 DEF StreamInv
<1>11. PollInv'
  BY <1>1, <1>8 DEF PollInv, Answered, Polling
<1> QED
  BY <1>7, <1>10, <1>11

\* What has been read is told to the account: it is no longer on its way.
LEMMA DrainFillLive ==
  ASSUME OrdersInv, DrainFill
  PROVE  SessionTypes' /\ StreamInv' /\ PollInv'
<1> DEFINE T == ToldOf(PlacedIds)
           rest == EventsOf(userWire)
<1>1. /\ SessionTypes /\ BookKept /\ StreamInv /\ PollInv
      /\ fills # << >> /\ fills' = Tail(fills) /\ account' = Apply(account, Head(fills))
      /\ UNCHANGED <<client, placed, book, userLink, userWire, pending, still, stage, unanswered>>
  BY DEF OrdersInv, DrainFill, venueSide
<1>2. /\ userWire \in Seq(ReportOn(PlacedIds)) /\ PlacedIds \subseteq Ids
      /\ fills \in Seq(T) /\ account \in Account /\ rest \in Seq(T)
  BY <1>1, RestTyped
<1>3. fills' \in Seq(T) /\ Head(fills) \in T
  BY <1>1, <1>2
<1>4. client # "mexc"
  BY <1>1 DEF SessionTypes
<1>5. ClosedUnder(Account, T)
  BY <1>2, ToldCloses
<1>6. account' \in Account
  BY <1>1, <1>2, <1>3, <1>5 DEF ClosedUnder
<1>7. SessionTypes'
  BY <1>1, <1>2, <1>3, <1>4, <1>6, TypesStay DEF SessionTypes
<1>8. PlacedIds' = PlacedIds
  BY <1>1 DEF PlacedIds
<1>9. Arrived' = Arrived
  <2>1. Arrived' = Replay(account', fills' \o rest)
    BY <1>1, SameClient
  <2> HIDE DEF rest, T
  <2>2. /\ fills \o rest \in Seq(T) /\ fills \o rest # << >>
        /\ Head(fills \o rest) = Head(fills) /\ Tail(fills \o rest) = Tail(fills) \o rest
    BY <1>1, <1>2
  <2> DEFINE w == fills \o rest
  <2> HIDE DEF w
  <2>3. Replay(Apply(account, Head(w)), Tail(w)) = Replay(account, w)
    <3>1. w \in Seq(T) /\ w # << >> /\ account \in Account
      BY <1>2, <2>2 DEF w
    <3> QED
      BY <1>5, <3>1, ReplayHead
  <2> QED
    BY <1>1, <2>1, <2>2, <2>3 DEF Arrived, rest, w
<1>10. StreamInv'
  BY <1>1, <1>8, <1>9 DEF StreamInv
<1>11. PollInv'
  BY <1>1, <1>4 DEF PollInv
<1> QED
  BY <1>7, <1>10, <1>11

\* One order of the book changes: the sums change by as much.
LEMMA BookChange ==
  ASSUME NEW b, BookType(b), NEW c, BookType(c), NEW N, N \subseteq Ids, NEW id \in N,
         \A j \in N \ {id} : c[j] = b[j]
  PROVE  /\ Bought(c, N) = Bought(b, N) - b[id].executed + c[id].executed
         /\ Cost(c, N) = Cost(b, N) - b[id].quote + c[id].quote
<1> DEFINE E(a) == [j \in Ids |-> a[j].executed]
           Q(a) == [j \in Ids |-> a[j].quote]
<1>1. IsFiniteSet(N)
  BY FewIds
<1>2. ASSUME NEW a, BookType(a), NEW j \in Ids
      PROVE E(a)[j] = a[j].executed /\ Q(a)[j] = a[j].quote /\ a[j].executed \in Int /\ a[j].quote \in Int
  BY <1>2, OrdersAssumption DEF BookType, OrderAtVenue
<1>3. /\ \A j \in N : E(b)[j] \in Int /\ Q(b)[j] \in Int
      /\ E(c)[id] \in Int /\ Q(c)[id] \in Int
      /\ E(b)[id] = b[id].executed /\ Q(b)[id] = b[id].quote
      /\ E(c)[id] = c[id].executed /\ Q(c)[id] = c[id].quote
  BY <1>2
<1>4. \A j \in N \ {id} : E(c)[j] = E(b)[j] /\ Q(c)[j] = Q(b)[j]
  OBVIOUS
<1>5. \A a : Bought(a, N) = SumFunctionOnSet(E(a), N) /\ Cost(a, N) = SumFunctionOnSet(Q(a), N)
  BY DEF Bought, Cost
<1> HIDE DEF E, Q
<1>6. SumFunctionOnSet(E(c), N) = SumFunctionOnSet(E(b), N) - E(b)[id] + E(c)[id]
  BY <1>1, <1>3, <1>4, SumChange
<1>7. SumFunctionOnSet(Q(c), N) = SumFunctionOnSet(Q(b), N) - Q(b)[id] + Q(c)[id]
  BY <1>1, <1>3, <1>4, SumChange
<1> QED
  BY <1>3, <1>5, <1>6, <1>7

PollState(b, N, q, R) ==
  /\ Sound(b, N, R) /\ Polls(b, N, q, R)
  /\ \A id \in N : b[id].status = "working" => HasRecord(R, id)

\* An order that works, and so is polled, trades or ends at the venue: the poll
\* has yet to see it.
LEMMA BookMoves ==
  ASSUME NEW b, BookType(b), NEW c, BookType(c), NEW N, N \subseteq Ids, NEW id \in Ids,
         b[id].status = "working", c[id].status # "none",
         \A j \in Ids \ {id} : c[j] = b[j],
         \/ c[id].executed = b[id].executed /\ c[id].quote = b[id].quote
         \/ c[id].executed > b[id].executed,
         NEW R, NEW q, PollState(b, N, q, R)
  PROVE  PollState(c, N, q, R)
<1>1. \A j \in N : HasRecord(R, j) \/ c[j] = b[j]
  BY DEF PollState
<1>2. Sound(c, N, R)
  <2>1. ASSUME NEW p \in R
        PROVE  /\ p.id \in N /\ c[p.id].status # "none" /\ p.filled <= c[p.id].executed
               /\ p.filled = c[p.id].executed => p.quote = c[p.id].quote
    <3>1. /\ p.id \in N /\ p.id \in Ids /\ b[p.id].status # "none"
          /\ p.filled <= b[p.id].executed
          /\ p.filled = b[p.id].executed => p.quote = b[p.id].quote
          /\ p.filled \in 0..Lots - 1
      BY DEF PollState, Sound, PollRecord
    <3>2. CASE p.id = id
      <4>1. b[id].executed \in 0..Lots /\ c[id].executed \in 0..Lots /\ Lots \in Nat
        BY OrdersAssumption DEF BookType, OrderAtVenue
      <4> QED
        BY <3>1, <3>2, <4>1
    <3>3. CASE p.id # id
      <4>1. c[p.id] = b[p.id]
        BY <3>1, <3>3
      <4> QED
        BY <3>1, <4>1
    <3> QED
      BY <3>2, <3>3
  <2> QED
    BY <2>1 DEF Sound, PollState
<1>3. \A j \in N : c[j].status = "working" => HasRecord(R, j)
  BY DEF PollState
<1>4. \A j \in N : /\ SeenIn(c, R)[j] = SeenIn(b, R)[j] /\ PaidIn(c, R)[j] = PaidIn(b, R)[j]
                   /\ SeenIn(b, R)[j] \in Int /\ PaidIn(b, R)[j] \in Int
  <2> SUFFICES ASSUME NEW j \in N
               PROVE  /\ SeenIn(c, R)[j] = SeenIn(b, R)[j] /\ PaidIn(c, R)[j] = PaidIn(b, R)[j]
                      /\ SeenIn(b, R)[j] \in Int /\ PaidIn(b, R)[j] \in Int
    OBVIOUS
  <2>1. SeenIn(b, R)[j] \in Int /\ PaidIn(b, R)[j] \in Int
    BY SeenTypes DEF BookType, PollState
  <2>2. /\ SeenIn(b, R)[j] = IF HasRecord(R, j) THEN RecordOf(R, j).filled ELSE b[j].executed
        /\ PaidIn(b, R)[j] = IF HasRecord(R, j) THEN RecordOf(R, j).quote ELSE b[j].quote
        /\ SeenIn(c, R)[j] = IF HasRecord(R, j) THEN RecordOf(R, j).filled ELSE c[j].executed
        /\ PaidIn(c, R)[j] = IF HasRecord(R, j) THEN RecordOf(R, j).quote ELSE c[j].quote
    BY DEF SeenIn, PaidIn
  <2> QED
    BY <1>1, <2>1, <2>2
<1>5. /\ SumFunctionOnSet(SeenIn(c, R), N) = SumFunctionOnSet(SeenIn(b, R), N)
      /\ SumFunctionOnSet(PaidIn(c, R), N) = SumFunctionOnSet(PaidIn(b, R), N)
  BY <1>4, FewIds, SumSame
<1>6. {j \in N : HasRecord(R, j) \/ c[j].status = "working"}
        = {j \in N : HasRecord(R, j) \/ b[j].status = "working"}
  BY <1>1
<1> QED
  BY <1>2, <1>3, <1>5, <1>6 DEF PollState, Polls

\* What the venue sends of some reports.
LEMMA SentOn ==
  ASSUME NEW N, NEW s \in Seq(ReportOn(N))
  PROVE  /\ Sent(s) \in Seq(ReportOn(N))
         /\ ~userLink => Sent(s) = << >>
         /\ userLink /\ client # "mexc" => Sent(s) = s
<1> DEFINE T == ReportOn(N)
           kept == Keep(s, {r \in Range(s) : r.exec = "TRADE"})
<1>1. kept \in Seq(T)
  BY KeepFacts
<1>2. << >> \in Seq(T)
  OBVIOUS
<1>3. Sent(s) = IF ~userLink THEN << >> ELSE IF client = "mexc" THEN kept ELSE s
  BY DEF Sent
<1> HIDE DEF kept
<1> QED
  BY <1>1, <1>2, <1>3

\* One report is one event.
LEMMA OneReport ==
  ASSUME client \in Clients, NEW N, N \subseteq Ids, NEW r \in ReportOn(N), NEW q \in Account
  PROVE  /\ <<r>> \in Seq(ReportOn(N)) /\ EventOf(r) \in ToldOf(N)
         /\ Replay(q, EventsOf(<<r>>)) = Apply(q, EventOf(r))
<1> DEFINE e == EventOf(r)
           t == <<r>>
           T == ToldOf(N)
           S == ReportOn(N)
<1>1. e \in T
  BY EventOfType
<1>2. EventsOf(t) = <<e>>
  <2>1. Len(t) = 1 /\ DOMAIN t = {1} /\ t[1] = r
    OBVIOUS
  <2>2. EventsOf(t) = [n \in DOMAIN t |-> EventOf(t[n])]
    BY DEF EventsOf
  <2> HIDE DEF t
  <2>3. EventsOf(t) = [n \in {1} |-> e]
    BY <2>1, <2>2
  <2> HIDE DEF e
  <2>4. 1..1 = {1}
    OBVIOUS
  <2>5. <<e>> = [n \in {1} |-> e]
    BY <2>4
  <2> QED
    BY <2>3, <2>5
<1>3. ClosedUnder(Account, T)
  BY ToldCloses
<1>4. t \in Seq(S)
  OBVIOUS
<1> HIDE DEF e, t, T
<1>5. Replay(q, <<e>>) = Apply(q, e)
  BY <1>1, <1>3, ReplayOne
<1> QED
  BY <1>1, <1>2, <1>4, <1>5 DEF e, t, T

\* No report is no event.
LEMMA NoReport ==
  ASSUME NEW q \in Account
  PROVE  Replay(q, EventsOf(<< >>)) = q
<1> DEFINE E == ToldOf({})
<1>1. ClosedUnder(Account, E)
  <2>1. {} \subseteq Ids
    OBVIOUS
  <2> QED
    BY <2>1, ToldCloses
<1> HIDE DEF E
<1>2. Replay(q, << >>) = q
  BY <1>1, ReplayNone
<1>3. EventsOf(<< >>) = << >>
  BY DEF EventsOf
<1> QED
  BY <1>2, <1>3

\* What the report r of an order is to tell: what changes of it in the book.
Tells(r, was, is, id) ==
  \A q \in Account :
    LET told == Apply(q, EventOf(r))
    IN  /\ Net(told) = Net(q) + (is.executed - was.executed)
        /\ told.cash = q.cash - (is.quote - was.quote)
        /\ Elements(told.open) = IF is.status = "working" THEN Elements(q.open)
                                 ELSE Elements(q.open) \ {id}

\* A working order changes at the venue, which sends a report of it.
LEMMA VenueSends ==
  ASSUME OrdersInv, NEW id \in Ids, book[id].status = "working",
         UNCHANGED <<client, placed, userLink, fills, pending, still, stage, account, unanswered>>,
         NEW b, book' = b, BookType(b), b[id].status # "none", \A j \in Ids \ {id} : b[j] = book[j],
         \/ b[id].executed = book[id].executed /\ b[id].quote = book[id].quote
         \/ b[id].executed > book[id].executed,
         NEW r \in ReportOn({id}), userWire' = userWire \o Sent(<<r>>),
         client = "binance" => Tells(r, book[id], b[id], id)
  PROVE  SessionTypes' /\ StreamInv' /\ PollInv'
<1>1. /\ SessionTypes /\ BookKept /\ StreamInv /\ PollInv
  BY DEF OrdersInv
<1>2. /\ userWire \in Seq(ReportOn(PlacedIds)) /\ PlacedIds \subseteq Ids /\ BookType(book)
      /\ fills \in Seq(ToldOf(PlacedIds)) /\ account \in Account /\ Arrived \in Account
      /\ client \in Clients
  BY <1>1, RestTyped DEF BookKept
<1>3. id \in PlacedIds
  <2>1. id <= placed /\ id \in 1..MaxOrders
    BY <1>1 DEF BookKept, OrderKept, Unplaced, Ids
  <2> QED
    BY <2>1 DEF PlacedIds
<1>4. r \in ReportOn(PlacedIds)
  BY <1>3 DEF ReportOn
<1>5. /\ <<r>> \in Seq(ReportOn(PlacedIds)) /\ EventOf(r) \in ToldOf(PlacedIds)
      /\ \A q \in Account : Replay(q, EventsOf(<<r>>)) = Apply(q, EventOf(r))
  BY <1>2, <1>4, OneReport
<1> DEFINE s == <<r>>
           v == Sent(s)
<1>6. /\ v \in Seq(ReportOn(PlacedIds)) /\ (~userLink => v = << >>)
      /\ (userLink /\ client # "mexc" => v = s)
  BY <1>5, SentOn
<1>7. userWire' = userWire \o v
  OBVIOUS
<1> HIDE DEF s, v
<1>8. userWire' \in Seq(ReportOn(PlacedIds))
  <2> DEFINE T == ReportOn(PlacedIds)
  <2>1. userWire \in Seq(T) /\ v \in Seq(T)
    BY <1>2, <1>6
  <2> HIDE DEF T
  <2>2. userWire \o v \in Seq(T)
    BY <2>1
  <2> QED
    BY <1>7, <2>2 DEF T
<1>9. PlacedIds' = PlacedIds /\ ReportOn(PlacedIds)' = ReportOn(PlacedIds)
  BY DEF PlacedIds, ReportOn, Tag
<1>10. SessionTypes'
  BY <1>1, <1>8, <1>9 DEF SessionTypes, BookType
<1>11. Arrived' = Replay(Arrived, EventsOf(v))
  <2>1. Arrived' = Replay(account, fills \o EventsOf(userWire \o v))
    BY <1>7, SameClient
  <2>2. Replay(account, fills \o EventsOf(userWire \o v))
          = Replay(Replay(account, fills \o EventsOf(userWire)), EventsOf(v))
    <3>1. client \in Clients /\ PlacedIds \subseteq Ids /\ account \in Account
      BY <1>2
    <3>2. fills \in Seq(ToldOf(PlacedIds))
      BY <1>2
    <3>3. userWire \in Seq(ReportOn(PlacedIds)) /\ v \in Seq(ReportOn(PlacedIds))
      BY <1>2, <1>6
    <3> QED
      BY <3>1, <3>2, <3>3, WireConcat
  <2> QED
    BY <2>1, <2>2 DEF Arrived
<1>12. /\ Bought(b, PlacedIds) = Bought(book, PlacedIds) - book[id].executed + b[id].executed
       /\ Cost(b, PlacedIds) = Cost(book, PlacedIds) - book[id].quote + b[id].quote
       /\ Bought(book, PlacedIds) \in Int /\ Cost(book, PlacedIds) \in Int
  <2>1. \A j \in PlacedIds \ {id} : b[j] = book[j]
    BY <1>2
  <2> QED
    <3>1. BookType(book) /\ PlacedIds \subseteq Ids
      BY <1>2
    <3>2. /\ Bought(b, PlacedIds) = Bought(book, PlacedIds) - book[id].executed + b[id].executed
          /\ Cost(b, PlacedIds) = Cost(book, PlacedIds) - book[id].quote + b[id].quote
      BY <1>3, <2>1, <3>1, BookChange
    <3>3. Bought(book, PlacedIds) \in Int /\ Cost(book, PlacedIds) \in Int
      BY <3>1, Counts
    <3> QED
      BY <3>2, <3>3
<1>13. /\ book[id].executed \in Int /\ book[id].quote \in Int
       /\ b[id].executed \in Int /\ b[id].quote \in Int /\ b[id].executed >= book[id].executed
  BY <1>2, OrdersAssumption DEF BookType, OrderAtVenue
<1>14. Net(Arrived) \in Int /\ Arrived.cash \in Int
  BY <1>2 DEF Account, Accounts, Position, Net
<1>15. ASSUME client # "mexc" PROVE StreamInv'
  <2>1. Net(Arrived) <= Bought(book, PlacedIds) /\ (userLink => Whole(book, PlacedIds, Arrived))
    BY <1>1, <1>15 DEF StreamInv
  <2>2. CASE ~userLink
    <3>1. v = << >>
      BY <1>6, <2>2
    <3>2. Arrived' = Arrived
      <4>1. Replay(Arrived, EventsOf(<< >>)) = Arrived
        BY <1>2, NoReport
      <4> QED
        BY <1>11, <3>1, <4>1
    <3>3. Net(Arrived) <= Bought(b, PlacedIds)
      BY <1>12, <1>13, <1>14, <2>1
    <3> QED
      BY <1>9, <2>2, <3>2, <3>3 DEF StreamInv
  <2>3. CASE userLink
    <3>1. client = "binance"
      BY <1>1, <1>15, <2>3 DEF SessionTypes, Streams
    <3> DEFINE told == Apply(Arrived, EventOf(r))
    <3>2. Arrived' = told
      BY <1>2, <1>5, <1>6, <1>11, <1>15, <2>3 DEF s
    <3>3. /\ Net(told) = Net(Arrived) + (b[id].executed - book[id].executed)
          /\ told.cash = Arrived.cash - (b[id].quote - book[id].quote)
          /\ Elements(told.open) = IF b[id].status = "working" THEN Elements(Arrived.open)
                                   ELSE Elements(Arrived.open) \ {id}
      BY <1>2, <3>1 DEF Tells
    <3> HIDE DEF told
    <3>4. /\ Net(Arrived) = Bought(book, PlacedIds) /\ Arrived.cash + Cost(book, PlacedIds) = 0
          /\ Elements(Arrived.open) = Working(book, PlacedIds)
      BY <2>1, <2>3 DEF Whole
    <3>5. Net(told) = Bought(b, PlacedIds) /\ told.cash + Cost(b, PlacedIds) = 0
      <4>1. Net(told) = Bought(b, PlacedIds)
        BY <1>12, <1>13, <1>14, <3>3, <3>4
      <4>2. told.cash + Cost(b, PlacedIds) = 0
        BY <1>12, <1>13, <1>14, <3>3, <3>4
      <4> QED
        BY <4>1, <4>2
    <3>6. Elements(told.open) = Working(b, PlacedIds)
      <4>1. \A j \in PlacedIds \ {id} : b[j] = book[j]
        BY <1>2
      <4> QED
        BY <1>3, <3>3, <3>4, <4>1 DEF Working
    <3>7. Net(told) <= Bought(b, PlacedIds) /\ Whole(b, PlacedIds, told)
      BY <1>12, <1>13, <3>5, <3>6 DEF Whole
    <3> QED
      BY <1>9, <3>2, <3>7 DEF StreamInv
  <2> QED
    BY <1>1, <2>2, <2>3 DEF SessionTypes
<1>16. StreamInv'
  <2>1. client = "mexc" => StreamInv'
    BY DEF StreamInv
  <2> QED
    BY <1>15, <2>1
<1>17. PollInv'
  <2>1. Answered' = Answered /\ Polling' = Polling /\ Answered \subseteq Ids
    BY <1>2, <1>9 DEF Answered, Polling
  <2>2. ASSUME client = "mexc" PROVE PollState(b, Answered, account, Elements(Polling))
    <3>1. PollState(book, Answered, account, Elements(Polling))
      BY <1>1, <2>2 DEF PollInv, PollState
    <3> QED
      BY <1>2, <2>1, <3>1, BookMoves
  <2> QED
    BY <1>1, <2>1, <2>2 DEF PollInv, PollState
<1> QED
  BY <1>10, <1>16, <1>17

\* A working order meets another trade.
LEMMA VenueTradesLive ==
  ASSUME OrdersInv, NEW id \in Ids, VenueTrades(id)
  PROVE  SessionTypes' /\ StreamInv' /\ PollInv'
<1> DEFINE x == book[id].executed + 1
           b == [book EXCEPT ![id] = [book[id] EXCEPT !.status = StatusAfter("gtc", x),
                                                      !.executed = x,
                                                      !.quote = book[id].quote + Prices[x]]]
           r == TradeReport(id, x)
<1>1. /\ book[id].status = "working" /\ book' = b
      /\ userWire' = userWire \o Sent(<<r>>)
      /\ UNCHANGED <<client, placed, userLink, fills, pending, still, stage, account, unanswered>>
  BY DEF VenueTrades, clientSide
<1>2. book \in [Ids -> OrderAtVenue] /\ book[id] \in OrderAtVenue
      /\ (book[id].status = "filled") = (book[id].executed = Lots)
      /\ BookType(book) /\ client \in Clients
  BY DEF OrdersInv, SessionTypes, BookType, BookKept
<1>3. x \in 1..Lots /\ Prices[x] \in Int /\ Prices[x] \in Nat
  <2>1. book[id].executed \in 0..Lots /\ book[id].executed # Lots /\ Lots \in Nat
    BY <1>1, <1>2, OrdersAssumption DEF OrderAtVenue
  <2>2. x \in 1..Lots
    BY <2>1
  <2> HIDE DEF x
  <2>3. Prices[x] \in Nat
    BY <2>2, OrdersAssumption
  <2> QED
    BY <2>2, <2>3
<1>4. /\ b[id] \in OrderAtVenue /\ b \in [Ids -> OrderAtVenue]
      /\ b[id].status = IF x = Lots THEN "filled" ELSE "working"
      /\ b[id].executed = x /\ b[id].quote = book[id].quote + Prices[x]
      /\ \A j \in Ids \ {id} : b[j] = book[j]
  <2>1. StatusAfter("gtc", x) = IF x = Lots THEN "filled" ELSE "working"
    BY DEF StatusAfter
  <2>2. b[id] = [book[id] EXCEPT !.status = StatusAfter("gtc", x), !.executed = x,
                                 !.quote = book[id].quote + Prices[x]]
    <3> DEFINE new == [book[id] EXCEPT !.status = StatusAfter("gtc", x), !.executed = x,
                                       !.quote = book[id].quote + Prices[x]]
    <3>1. b = [book EXCEPT ![id] = new]
      OBVIOUS
    <3>2. id \in DOMAIN book
      BY <1>2
    <3> HIDE DEF b, new
    <3>3. b[id] = new
      BY <3>1, <3>2
    <3> QED
      BY <3>3 DEF new
  <2>3. /\ book[id].took \in 0..Lots /\ book[id].quote \in Int
        /\ DOMAIN book[id] = {"status", "executed", "quote", "took"}
    BY <1>2 DEF OrderAtVenue
  <2>4. \A j \in Ids \ {id} : b[j] = book[j]
    BY <1>2
  <2>5. x \in 0..Lots /\ book[id].quote + Prices[x] \in Int
    BY <1>3, <2>3, OrdersAssumption
  <2> HIDE DEF x
  <2>6. b[id].status = StatusAfter("gtc", x) /\ b[id].executed = x
        /\ b[id].quote = book[id].quote + Prices[x]
    BY <1>2, <2>2 DEF OrderAtVenue
  <2>7. b[id] \in OrderAtVenue
    BY <1>2, <2>1, <2>2, <2>5 DEF OrderAtVenue
  <2>8. b \in [Ids -> OrderAtVenue]
    <3>1. DOMAIN b = Ids
      BY <1>2
    <3>2. b = [j \in Ids |-> b[j]]
      BY <1>2
    <3> HIDE DEF b
    <3>3. \A j \in Ids : b[j] \in OrderAtVenue
      BY <1>2, <2>4, <2>7
    <3> QED
      BY <3>2, <3>3
  <2> QED
    BY <2>1, <2>4, <2>6, <2>7, <2>8
<1>5. BookType(b)
  <2> HIDE DEF b, x
  <2>1. (b[id].status = "filled") = (b[id].executed = Lots)
    BY <1>4
  <2>2. \A j \in Ids \ {id} : (b[j].status = "filled") = (b[j].executed = Lots)
    BY <1>2, <1>4 DEF BookType
  <2> QED
    BY <1>4, <2>1, <2>2 DEF BookType
<1>6. r \in ReportOn({id}) /\ (client = "binance" => EventOf(r) = Fill(id, Prices[x], 1, x = Lots))
  <2> HIDE DEF x
  <2> QED
    BY <1>3, TradeReported
<1>7. client = "binance" => Tells(r, book[id], b[id], id)
  <2> HIDE DEF b, r
  <2> SUFFICES ASSUME client = "binance", NEW q \in Account
               PROVE  /\ Net(Apply(q, EventOf(r))) = Net(q) + (b[id].executed - book[id].executed)
                      /\ Apply(q, EventOf(r)).cash = q.cash - (b[id].quote - book[id].quote)
                      /\ Elements(Apply(q, EventOf(r)).open)
                           = IF b[id].status = "working" THEN Elements(q.open)
                             ELSE Elements(q.open) \ {id}
    BY DEF Tells
  <2> DEFINE e == EventOf(r)
  <2>1. /\ e.type = "Fill" /\ e.qty = 1 /\ e.price = Prices[x] /\ e.complete = (x = Lots)
        /\ e.id = id
    BY <1>6 DEF Fill
  <2>2. e \in ToldOf({id})
    BY <1>2, <1>6, EventOfType
  <2> HIDE DEF e
  <2>3. Shows(q, e, Apply(q, e))
    <3>1. {id} \subseteq Ids
      OBVIOUS
    <3> QED
      BY <2>2, <3>1, ToldShows
  <2>4. BoughtBy(e) = 1 /\ PaidBy(e) = Prices[x]
        /\ OpenAfter(Elements(q.open), e) = IF x = Lots THEN Elements(q.open) \ {id} ELSE Elements(q.open)
    <3>1. Prices[x] * 1 = Prices[x]
      BY <1>3
    <3> HIDE DEF x
    <3> QED
      BY <2>1, <3>1 DEF BoughtBy, PaidBy, OpenAfter, Ends
  <2>5. b[id].executed - book[id].executed = 1 /\ b[id].quote - book[id].quote = Prices[x]
    <3>1. book[id].executed \in Int /\ book[id].quote \in Int
      BY <1>2, OrdersAssumption DEF OrderAtVenue
    <3> QED
      BY <1>3, <1>4, <3>1
  <2>6. Elements(Apply(q, e).open) = IF b[id].status = "working" THEN Elements(q.open)
                                     ELSE Elements(q.open) \ {id}
    <3> HIDE DEF x
    <3> QED
      BY <1>4, <2>3, <2>4 DEF Shows
  <2>7. Net(Apply(q, e)) = Net(q) + 1 /\ Apply(q, e).cash = q.cash - Prices[x]
    BY <2>3, <2>4 DEF Shows
  <2> QED
    BY <2>5, <2>6, <2>7 DEF e
<1>8. b[id].status # "none" /\ b[id].executed > book[id].executed
  <2>1. book[id].executed \in Int
    BY <1>2, OrdersAssumption DEF OrderAtVenue
  <2> HIDE DEF b
  <2> QED
    BY <1>4, <2>1
<1> HIDE DEF b, r, x
<1> QED
  BY <1>1, <1>4, <1>5, <1>6, <1>7, <1>8, VenueSends

\* What is left of a working order is cancelled.
LEMMA VenueCancelsLive ==
  ASSUME OrdersInv, NEW id \in Ids, VenueCancels(id)
  PROVE  SessionTypes' /\ StreamInv' /\ PollInv'
<1> DEFINE b == [book EXCEPT ![id].status = "canceled"]
           r == Report("CANCELED", id, 0, "CANCELED")
<1>1. /\ book[id].status = "working" /\ book' = b
      /\ userWire' = userWire \o Sent(<<r>>)
      /\ UNCHANGED <<client, placed, userLink, fills, pending, still, stage, account, unanswered>>
  BY DEF VenueCancels, clientSide
<1>2. book \in [Ids -> OrderAtVenue] /\ book[id] \in OrderAtVenue
      /\ (book[id].status = "filled") = (book[id].executed = Lots)
      /\ BookType(book) /\ client \in Clients
  BY DEF OrdersInv, SessionTypes, BookType, BookKept
<1>3. /\ b[id].status = "canceled" /\ b[id].executed = book[id].executed
      /\ b[id].quote = book[id].quote /\ b[id] \in OrderAtVenue
      /\ \A j \in Ids \ {id} : b[j] = book[j]
  <2>1. b[id] = [book[id] EXCEPT !.status = "canceled"]
    BY <1>2
  <2> QED
    BY <1>2, <2>1 DEF OrderAtVenue
<1>4. b \in [Ids -> OrderAtVenue]
  <2>1. b = [j \in Ids |-> b[j]]
    BY <1>2
  <2> HIDE DEF b
  <2>2. \A j \in Ids : b[j] \in OrderAtVenue
    BY <1>2, <1>3
  <2> QED
    BY <2>1, <2>2
<1> HIDE DEF b
<1>5. BookType(b)
  <2>1. (b[id].status = "filled") = (b[id].executed = Lots)
    BY <1>1, <1>2, <1>3
  <2>2. \A j \in Ids \ {id} : (b[j].status = "filled") = (b[j].executed = Lots)
    BY <1>2, <1>3 DEF BookType
  <2> QED
    BY <1>4, <2>1, <2>2 DEF BookType
<1>6. r = [exec |-> "CANCELED", id |-> id, price |-> 0, status |-> "CANCELED", tag |-> Tag]
  BY DEF Report, Tag
<1>7. r \in ReportOn({id})
  BY <1>6 DEF ReportOn, Statuses
<1>8. client = "binance" => EventOf(r) = Canceled(id)
  <2>1. client = "binance" => r.tag = "ak" /\ r.exec = "CANCELED" /\ r.id = id
    BY <1>6 DEF Tag
  <2> QED
    BY <2>1 DEF EventOf, Tagged, AccountEvent
<1> HIDE DEF r
<1>9. client = "binance" => Tells(r, book[id], b[id], id)
  <2> SUFFICES ASSUME client = "binance", NEW q \in Account
               PROVE  /\ Net(Apply(q, EventOf(r))) = Net(q) + (b[id].executed - book[id].executed)
                      /\ Apply(q, EventOf(r)).cash = q.cash - (b[id].quote - book[id].quote)
                      /\ Elements(Apply(q, EventOf(r)).open)
                           = IF b[id].status = "working" THEN Elements(q.open)
                             ELSE Elements(q.open) \ {id}
    BY DEF Tells
  <2> DEFINE e == EventOf(r)
  <2>1. e.type = "OrderCanceled" /\ e.id = id
    BY <1>8 DEF Canceled
  <2>2. e \in ToldOf({id})
    BY <1>2, <1>7, EventOfType
  <2> HIDE DEF e
  <2>3. Shows(q, e, Apply(q, e))
    <3>1. {id} \subseteq Ids
      OBVIOUS
    <3> QED
      BY <2>2, <3>1, ToldShows
  <2>4. BoughtBy(e) = 0 /\ PaidBy(e) = 0 /\ OpenAfter(Elements(q.open), e) = Elements(q.open) \ {id}
    BY <2>1 DEF BoughtBy, PaidBy, OpenAfter, Ends
  <2>5. b[id].executed - book[id].executed = 0 /\ b[id].quote - book[id].quote = 0
    BY <1>2, <1>3, OrdersAssumption DEF OrderAtVenue
  <2>6. Net(Apply(q, e)) = Net(q) + 0 /\ Apply(q, e).cash = q.cash - 0
        /\ Elements(Apply(q, e).open) = Elements(q.open) \ {id}
    BY <2>3, <2>4 DEF Shows
  <2> QED
    BY <1>3, <2>5, <2>6 DEF e
<1> QED
  BY <1>1, <1>3, <1>5, <1>7, <1>9, VenueSends DEF r

\* The account r is the account q, but for whether the order id is open in it.
Beside(id, there, q, r) ==
  /\ Net(r) = Net(q) /\ r.cash = q.cash
  /\ Elements(r.open) = (Elements(q.open) \ {id}) \cup there

\* What an order's answer does to the account: it is open, or it is not.
LEMMA Answers ==
  ASSUME NEW id \in Ids, NEW q \in Account
  PROVE  /\ Apply(q, Accepted(id)) \in Account /\ Apply(q, Rejected(id)) \in Account
         /\ Beside(id, {id}, q, Apply(q, Accepted(id)))
         /\ Beside(id, {}, q, Apply(q, Rejected(id)))
<1>1. /\ Accepted(id) \in ToldOf({id}) /\ Rejected(id) \in ToldOf({id}) /\ {id} \subseteq Ids
  BY DEF Accepted, Rejected, ToldOf, OrderTold, Ends
<1>2. Net(q) \in Int /\ q.cash \in Int
  BY DEF Account, Accounts, Position, Net
<1>3. Shows(q, Accepted(id), Apply(q, Accepted(id)))
  BY <1>1, ToldShows
<1>4. Shows(q, Rejected(id), Apply(q, Rejected(id)))
  BY <1>1, ToldShows
<1>5. /\ BoughtBy(Accepted(id)) = 0 /\ PaidBy(Accepted(id)) = 0
      /\ OpenAfter(Elements(q.open), Accepted(id)) = Elements(q.open) \cup {id}
      /\ BoughtBy(Rejected(id)) = 0 /\ PaidBy(Rejected(id)) = 0
      /\ OpenAfter(Elements(q.open), Rejected(id)) = Elements(q.open) \ {id}
  BY DEF Accepted, Rejected, BoughtBy, PaidBy, OpenAfter, Ends
<1>6. /\ Apply(q, Accepted(id)) \in Account
      /\ Net(Apply(q, Accepted(id))) = Net(q) + 0 /\ Apply(q, Accepted(id)).cash = q.cash - 0
      /\ Elements(Apply(q, Accepted(id)).open) = Elements(q.open) \cup {id}
  BY <1>3, <1>5 DEF Shows
<1>7. /\ Apply(q, Rejected(id)) \in Account
      /\ Net(Apply(q, Rejected(id))) = Net(q) + 0 /\ Apply(q, Rejected(id)).cash = q.cash - 0
      /\ Elements(Apply(q, Rejected(id)).open) = Elements(q.open) \ {id}
  BY <1>4, <1>5 DEF Shows
<1> QED
  BY <1>2, <1>6, <1>7 DEF Beside

\* What is told of other orders leaves it at that.
LEMMA StaysBeside ==
  ASSUME NEW id \in Ids, NEW there \in SUBSET {id}, NEW N, N \subseteq Ids, id \notin N,
         NEW q \in Account, NEW r \in Account, Beside(id, there, q, r),
         NEW s \in Seq(ToldOf(N))
  PROVE  Beside(id, there, Replay(q, s), Replay(r, s))
<1> DEFINE E == ToldOf(N)
           R == {pair \in Account \X Account : Beside(id, there, pair[1], pair[2])}
<1>1. ClosedUnder(Account, E)
  BY ToldCloses
<1>2. ASSUME NEW p \in Account, NEW t \in Account, NEW e \in E, <<p, t>> \in R
      PROVE  <<Apply(p, e), Apply(t, e)>> \in R
  <2>1. Beside(id, there, p, t)
    BY <1>2
  <2>2. Shows(p, e, Apply(p, e)) /\ Shows(t, e, Apply(t, e))
    BY ToldShows
  <2>3. e.type \in {"OrderAccepted", "Fill"} \cup Ends => e.id # id
    BY DEF ToldOf, OrderTold, FillTold, Ignored, Ends
  <2>4. OpenAfter(Elements(t.open), e) = (OpenAfter(Elements(p.open), e) \ {id}) \cup there
    BY <2>1, <2>3 DEF OpenAfter, Beside
  <2>5. Net(t) = Net(p) /\ t.cash = p.cash
    BY <2>1 DEF Beside
  <2>6. Beside(id, there, Apply(p, e), Apply(t, e))
    BY <2>2, <2>4, <2>5 DEF Shows, Beside
  <2>7. Apply(p, e) \in Account /\ Apply(t, e) \in Account
    BY <2>2 DEF Shows
  <2> QED
    BY <2>6, <2>7
<1>3. <<q, r>> \in R
  OBVIOUS
<1>4. s \in Seq(E)
  OBVIOUS
<1> HIDE DEF E, R
<1>5. <<Replay(q, s), Replay(r, s)>> \in R
  BY <1>1, <1>2, <1>3, <1>4, ReplayPairs
<1> QED
  BY <1>5 DEF R

\* What the stream tells of a new order: all it did on its arrival.
ToldAll(q, o, id, r) ==
  /\ r \in Account
  /\ Net(r) = Net(q) + o.executed /\ r.cash = q.cash - o.quote
  /\ Elements(r.open) = IF o.status = "working" THEN Elements(q.open) \cup {id}
                        ELSE Elements(q.open) \ {id}

\* The reports of an order that arrives are reports of that order.
LEMMA ArrivalTyped ==
  ASSUME NEW id, NEW k \in 0..Lots, NEW status
  PROVE  ArrivalReports(id, k, status) \in Seq(ReportOn({id}))
<1> DEFINE T == ReportOn({id})
           first == <<Report("NEW", id, 0, "NEW")>>
           trades == TradeReports(id, k)
           last == IF status = "expired" THEN <<Report("EXPIRED", id, 0, "EXPIRED")>> ELSE << >>
<1>1. Report("NEW", id, 0, "NEW") \in T /\ Report("EXPIRED", id, 0, "EXPIRED") \in T
  BY DEF Report, ReportOn, Tag, Statuses
<1>2. first \in Seq(T) /\ last \in Seq(T)
  <2> HIDE DEF T
  <2> QED
    BY <1>1
<1>3. trades \in Seq(T)
  <2>1. \A n \in 1..k : TradeReport(id, n) \in T
    BY TradeReported, OrdersAssumption
  <2>2. trades = [n \in 1..k |-> TradeReport(id, n)] /\ k \in Nat
    BY OrdersAssumption DEF TradeReports
  <2> HIDE DEF T, trades
  <2> QED
    BY <2>1, <2>2
<1>4. ArrivalReports(id, k, status) = first \o trades \o last
  BY DEF ArrivalReports, TradeReports
<1> HIDE DEF T, first, trades, last
<1>5. first \o trades \o last \in Seq(T)
  BY <1>2, <1>3
<1> QED
  BY <1>4, <1>5 DEF T

\* They tell an account all that it did, and whether it works.
LEMMA ArrivalTold ==
  ASSUME client = "binance", NEW id \in Ids, NEW q \in Account, NEW k \in 0..Lots, NEW status,
         (status = "filled") = (k = Lots), status \in {"working", "filled", "expired"},
         NEW o, o.status = status, o.executed = k, o.quote = SumFunctionOnSet(Prices, 1..k)
  PROVE  ToldAll(q, o, id, Replay(q, EventsOf(ArrivalReports(id, k, status))))
<1> DEFINE S == ReportOn({id})
           E == ToldOf({id})
           new == Report("NEW", id, 0, "NEW")
           end == Report("EXPIRED", id, 0, "EXPIRED")
           trades == TradeReports(id, k)
           last == IF status = "expired" THEN <<end>> ELSE << >>
           q1 == Apply(q, Accepted(id))
           q2 == Replay(q1, EventsOf(trades))
           q3 == Replay(q2, EventsOf(last))
<1>1. /\ {id} \subseteq Ids /\ client \in Clients /\ new \in S /\ end \in S
      /\ EventOf(new) = Accepted(id) /\ EventOf(end) = Canceled(id)
  <2>1. client \in Clients
    BY DEF Clients
  <2>2. /\ new = [exec |-> "NEW", id |-> id, price |-> 0, status |-> "NEW", tag |-> Tag]
        /\ end = [exec |-> "EXPIRED", id |-> id, price |-> 0, status |-> "EXPIRED", tag |-> Tag]
    BY DEF Report, Tag
  <2>3. new \in S /\ end \in S
    BY <2>2 DEF ReportOn, Statuses
  <2>4. Tag = "ak"
    BY DEF Tag
  <2>5. EventOf(new) = Accepted(id) /\ EventOf(end) = Canceled(id)
    BY <2>2, <2>4 DEF EventOf, Tagged, AccountEvent
  <2> QED
    BY <2>1, <2>3, <2>5
<1>2. trades \in Seq(S) /\ <<new>> \in Seq(S) /\ last \in Seq(S)
  <2>1. trades \in Seq(S)
    <3>1. \A n \in 1..k : TradeReport(id, n) \in S
      BY TradeReported, OrdersAssumption
    <3>2. trades = [n \in 1..k |-> TradeReport(id, n)] /\ k \in Nat
      BY OrdersAssumption DEF TradeReports
    <3> HIDE DEF S, trades
    <3> QED
      BY <3>1, <3>2
  <2> HIDE DEF S, trades
  <2>2. last \in Seq(S) /\ <<new>> \in Seq(S)
    BY <1>1
  <2> QED
    BY <2>1, <2>2
<1>3. q1 \in Account /\ Beside(id, {id}, q, q1)
  BY Answers
<1>4. Shown(q1, id, k, q2)
  <2> HIDE DEF q1
  <2> QED
    BY <1>3, TradesTold DEF trades
<1>5. q2 \in Account
  BY <1>4 DEF Shown
<1>6. Replay(q, EventsOf(ArrivalReports(id, k, status))) = q3
  <2> DEFINE two == <<new>> \o trades
  <2>1. ArrivalReports(id, k, status) = two \o last
    BY DEF ArrivalReports, TradeReports
  <2> HIDE DEF S, E, new, end, trades, last
  <2>2. two \in Seq(S)
    BY <1>2
  <2>3. Replay(q, EventsOf(<<new>>)) = q1
    <3>1. Replay(q, EventsOf(<<new>>)) = Apply(q, EventOf(new))
      BY <1>1, OneReport DEF S
    <3> QED
      BY <1>1, <3>1
  <2> HIDE DEF q1
  <2> DEFINE one == <<new>>
  <2>4. one \in Seq(S) /\ two = one \o trades /\ Replay(q, EventsOf(one)) = q1
    BY <1>2, <2>3
  <2> HIDE DEF one, two
  <2>5. /\ EventsOf(one) \in Seq(E) /\ EventsOf(trades) \in Seq(E) /\ EventsOf(last) \in Seq(E)
        /\ EventsOf(two) = EventsOf(one) \o EventsOf(trades) /\ EventsOf(two) \in Seq(E)
    BY <1>1, <1>2, <2>2, <2>4, EventsOfWire DEF S, E
  <2>6. EventsOf(two \o last) = EventsOf(two) \o EventsOf(last)
    BY <1>1, <1>2, <2>2, EventsOfWire DEF S
  <2>7. ClosedUnder(Account, E)
    BY <1>1, ToldCloses DEF E
  <2>8. Replay(q, EventsOf(two)) = q2
    <3>1. Replay(q, EventsOf(one) \o EventsOf(trades)) = Replay(Replay(q, EventsOf(one)), EventsOf(trades))
      BY <2>5, <2>7, ReplayConcat
    <3> QED
      BY <2>4, <2>5, <3>1
  <2> HIDE DEF q2
  <2> DEFINE first == EventsOf(two)
             then  == EventsOf(last)
  <2>9. Replay(q, first \o then) = Replay(Replay(q, first), then)
    <3>1. first \in Seq(E) /\ then \in Seq(E)
      BY <2>5
    <3> HIDE DEF first, then
    <3> QED
      BY <2>7, <3>1, ReplayConcat
  <2> QED
    BY <2>1, <2>6, <2>8, <2>9
<1>7. q3 \in Account /\ Net(q3) = Net(q2) /\ q3.cash = q2.cash
      /\ Elements(q3.open) = IF status = "expired" THEN Elements(q2.open) \ {id} ELSE Elements(q2.open)
  <2>1. CASE status = "expired"
    <3>1. q3 = Apply(q2, Canceled(id))
      <4> HIDE DEF q2, S, end
      <4>1. Replay(q2, EventsOf(<<end>>)) = Apply(q2, EventOf(end))
        BY <1>1, <1>5, OneReport DEF S
      <4>2. last = <<end>>
        BY <2>1
      <4> QED
        BY <1>1, <4>1, <4>2
    <3>2. Canceled(id) \in E
      BY DEF ToldOf, OrderTold, Canceled, Ends
    <3> DEFINE e == Canceled(id)
    <3>3. Shows(q2, e, Apply(q2, e))
      <4> HIDE DEF q2, e
      <4> QED
        BY <1>1, <1>5, <3>2, ToldShows DEF e
    <3>4. BoughtBy(e) = 0 /\ PaidBy(e) = 0 /\ OpenAfter(Elements(q2.open), e) = Elements(q2.open) \ {id}
      BY DEF BoughtBy, PaidBy, OpenAfter, Canceled, Ends
    <3>5. Net(q2) \in Int /\ q2.cash \in Int
      <4> HIDE DEF q2
      <4> QED
        BY <1>5 DEF Account, Accounts, Position, Net
    <3> HIDE DEF q2, q3, e
    <3>6. q3 \in Account /\ Net(q3) = Net(q2) + 0 /\ q3.cash = q2.cash - 0
          /\ Elements(q3.open) = Elements(q2.open) \ {id}
      BY <3>1, <3>3, <3>4 DEF Shows, e
    <3> QED
      BY <2>1, <3>5, <3>6
  <2>2. CASE status # "expired"
    <3>1. last = << >>
      BY <2>2
    <3>2. q3 = q2
      <4> HIDE DEF q2
      <4>1. Replay(q2, EventsOf(<< >>)) = q2
        BY <1>5, NoReport
      <4> QED
        BY <3>1, <4>1
    <3> HIDE DEF q2, q3
    <3> QED
      BY <1>5, <2>2, <3>2
  <2> QED
    BY <2>1, <2>2
<1> HIDE DEF q1, q2, q3
<1>8. /\ Net(q3) = Net(q) + k /\ q3.cash = q.cash - SumFunctionOnSet(Prices, 1..k)
  BY <1>3, <1>4, <1>7 DEF Shown, Beside
<1>9. Elements(q3.open) = IF status = "working" THEN Elements(q.open) \cup {id}
                          ELSE Elements(q.open) \ {id}
  <2>1. Elements(q1.open) = Elements(q.open) \cup {id}
    BY <1>3 DEF Beside
  <2>2. Elements(q2.open) = IF k = Lots THEN Elements(q1.open) \ {id} ELSE Elements(q1.open)
    BY <1>4 DEF Shown
  <2>3. CASE status = "filled"
    BY <1>7, <2>1, <2>2, <2>3
  <2>4. CASE status # "filled"
    BY <1>7, <2>1, <2>2, <2>4
  <2> QED
    BY <2>3, <2>4
<1> QED
  BY <1>6, <1>7, <1>8, <1>9 DEF ToldAll

\* Another order is placed: one more id, and nothing of the others changes.
Another(n, b, v) ==
  /\ n = placed + 1 /\ n \in Ids /\ placed' = n
  /\ book' = b /\ BookType(b) /\ \A j \in Ids \ {n} : b[j] = book[j]
  /\ v \in Seq(ReportOn({n})) /\ userWire' = userWire \o v
  /\ UNCHANGED <<client, userLink, fills, still, stage>>
  /\ account' \in {Apply(account, Accepted(n)), Apply(account, Rejected(n))}

\* What it brings.
LEMMA AnotherFacts ==
  ASSUME OrdersInv, NEW n, NEW b, NEW v, Another(n, b, v)
  PROVE  /\ n \in Ids /\ n \notin PlacedIds /\ PlacedIds' = PlacedIds \cup {n}
         /\ PlacedIds \subseteq Ids /\ PlacedIds' \subseteq Ids
         /\ BookType(book) /\ BookType(b) /\ account \in Account /\ account' \in Account
         /\ \A j \in PlacedIds : b[j] = book[j]
         /\ \E there \in SUBSET {n} :
              /\ Beside(n, there, account, account')
              /\ account' = Apply(account, Rejected(n)) => there = {}
<1>1. SessionTypes /\ BookKept
  BY DEF OrdersInv
<1>2. /\ PlacedIds \subseteq Ids /\ BookType(book) /\ account \in Account
  BY <1>1, RestTyped
<1>3. /\ n = placed + 1 /\ n \in Ids /\ placed' = n /\ BookType(b)
      /\ \A j \in Ids \ {n} : b[j] = book[j]
      /\ account' \in {Apply(account, Accepted(n)), Apply(account, Rejected(n))}
  BY DEF Another
<1>4. placed \in 0..MaxOrders /\ MaxOrders \in Nat
  BY <1>1, OrdersAssumption DEF BookKept
<1>5. n \notin PlacedIds /\ PlacedIds' = PlacedIds \cup {n}
  BY <1>3, <1>4 DEF PlacedIds
<1>6. /\ Apply(account, Accepted(n)) \in Account /\ Apply(account, Rejected(n)) \in Account
      /\ Beside(n, {n}, account, Apply(account, Accepted(n)))
      /\ Beside(n, {}, account, Apply(account, Rejected(n)))
  BY <1>2, <1>3, Answers
<1>7. \E there \in SUBSET {n} :
        /\ Beside(n, there, account, account')
        /\ account' = Apply(account, Rejected(n)) => there = {}
  <2>1. CASE account' = Apply(account, Rejected(n))
    <3>1. Beside(n, {}, account, account') /\ {} \in SUBSET {n}
      BY <1>6, <2>1
    <3> QED
      BY <3>1
  <2>2. CASE account' # Apply(account, Rejected(n))
    <3>1. Beside(n, {n}, account, account') /\ {n} \in SUBSET {n}
      BY <1>3, <1>6, <2>2
    <3> QED
      BY <2>2, <3>1
  <2> QED
    BY <2>1, <2>2
<1>8. PlacedIds' \subseteq Ids /\ account' \in Account
  BY <1>2, <1>3, <1>5, <1>6
<1>9. \A j \in PlacedIds : b[j] = book[j]
  BY <1>2, <1>3, <1>5
<1> QED
  BY <1>2, <1>3, <1>5, <1>7, <1>8, <1>9

\* Another order keeps the types, with its id among those that are placed.
LEMMA AnotherTyped ==
  ASSUME OrdersInv, NEW n, NEW b, NEW v, Another(n, b, v),
         unanswered' \subseteq unanswered \cup {n},
         pending' \in Seq(PollRecord), client # "mexc" => pending' = pending
  PROVE  SessionTypes'
<1>1. SessionTypes /\ BookKept
  BY DEF OrdersInv
<1>2. /\ PlacedIds' = PlacedIds \cup {n} /\ BookType(b) /\ account' \in Account
  BY AnotherFacts
<1>3. /\ v \in Seq(ReportOn({n})) /\ userWire' = userWire \o v /\ book' = b
      /\ UNCHANGED <<client, userLink, fills, still, stage>>
  BY DEF Another
<1>4. userWire \in Seq(ReportOn(PlacedIds)) /\ fills \in Seq(ToldOf(PlacedIds))
  BY <1>1 DEF SessionTypes
<1> DEFINE M == PlacedIds \cup {n}
           S == ReportOn(M)
<1>5. userWire \in Seq(S) /\ v \in Seq(S) /\ fills \in Seq(ToldOf(M))
  <2>1. PlacedIds \subseteq M /\ {n} \subseteq M
    OBVIOUS
  <2> HIDE DEF M
  <2> QED
    BY <1>3, <1>4, <2>1, Widen
<1>6. userWire' \in Seq(S)
  <2> HIDE DEF S
  <2> QED
    BY <1>3, <1>5
<1>7. ReportOn(PlacedIds)' = S
  BY <1>2, <1>3 DEF ReportOn, Tag
<1>8. fills' \in Seq(ToldOf(PlacedIds)') 
  <2>1. ToldOf(PlacedIds)' = ToldOf(M)
    BY <1>2 DEF ToldOf, OrderTold, FillTold
  <2> QED
    BY <1>3, <1>5, <2>1
<1>9. unanswered' \subseteq PlacedIds'
  BY <1>1, <1>2 DEF SessionTypes
<1> HIDE DEF M, S
<1>10. /\ userWire' \in Seq(ReportOn(PlacedIds)') /\ book' \in [Ids -> OrderAtVenue]
       /\ \A id \in Ids : (book'[id].status = "filled") = (book'[id].executed = Lots)
  BY <1>2, <1>3, <1>6, <1>7 DEF BookType
<1>11. /\ client' = client /\ userLink' = userLink /\ still' = still /\ stage' = stage /\ fills' = fills
       /\ userLink \in BOOLEAN /\ (userLink => client \in Streams)
       /\ still \in Seq(PollRecord)
       /\ stage # "polling" => still = << >>
       /\ client # "mexc" => pending = << >> /\ still = << >> /\ stage # "polling"
       /\ client = "mexc" => fills = << >>
  BY <1>1, <1>3 DEF SessionTypes
<1> QED
  BY <1>2, <1>8, <1>9, <1>10, <1>11 DEF SessionTypes

\* The sums grow by what the new order did.
LEMMA AnotherCounts ==
  ASSUME NEW b, BookType(b), NEW c, BookType(c), NEW N, N \subseteq Ids, NEW n \in Ids,
         n \notin N, \A j \in N : c[j] = b[j]
  PROVE  /\ Bought(c, N \cup {n}) = Bought(b, N) + c[n].executed
         /\ Cost(c, N \cup {n}) = Cost(b, N) + c[n].quote
         /\ c[n].executed \in Nat /\ c[n].quote \in Int
         /\ Bought(b, N) \in Int /\ Cost(b, N) \in Int
<1> DEFINE E(a) == [j \in Ids |-> a[j].executed]
           Q(a) == [j \in Ids |-> a[j].quote]
           M == N \cup {n}
<1>1. IsFiniteSet(M) /\ IsFiniteSet(N) /\ M \ {n} = N /\ n \in M
  BY FewIds
<1>2. ASSUME NEW a, BookType(a), NEW j \in Ids
      PROVE /\ E(a)[j] = a[j].executed /\ Q(a)[j] = a[j].quote
            /\ a[j].executed \in Int /\ a[j].quote \in Int /\ a[j].executed \in Nat
  <2>1. a[j] \in OrderAtVenue
    BY <1>2 DEF BookType
  <2>2. a[j].quote \in Int /\ a[j].executed \in 0..Lots
    BY <2>1 DEF OrderAtVenue
  <2>3. a[j].executed \in Nat
    BY <2>2, OrdersAssumption
  <2> QED
    BY <2>2, <2>3
<1>3. /\ \A j \in M : E(c)[j] \in Int /\ Q(c)[j] \in Int
      /\ \A j \in N : E(b)[j] \in Int /\ Q(b)[j] \in Int
      /\ E(c)[n] = c[n].executed /\ Q(c)[n] = c[n].quote
      /\ c[n].executed \in Nat /\ c[n].quote \in Int
  BY <1>2
<1>4. \A j \in N : E(c)[j] = E(b)[j] /\ Q(c)[j] = Q(b)[j]
  OBVIOUS
<1>5. \A a, L : Bought(a, L) = SumFunctionOnSet(E(a), L) /\ Cost(a, L) = SumFunctionOnSet(Q(a), L)
  BY DEF Bought, Cost
<1> HIDE DEF E, Q, M
<1>6. /\ SumFunctionOnSet(E(c), M) = E(c)[n] + SumFunctionOnSet(E(c), N)
      /\ SumFunctionOnSet(Q(c), M) = Q(c)[n] + SumFunctionOnSet(Q(c), N)
  BY <1>1, <1>3, SumSplit
<1>7. /\ SumFunctionOnSet(E(c), N) = SumFunctionOnSet(E(b), N)
      /\ SumFunctionOnSet(Q(c), N) = SumFunctionOnSet(Q(b), N)
  BY <1>1, <1>3, <1>4, SumSame
<1>8. SumFunctionOnSet(E(b), N) \in Int /\ SumFunctionOnSet(Q(b), N) \in Int
  BY <1>1, <1>3, SumType
<1>9. Bought(c, M) = SumFunctionOnSet(E(c), M) /\ Cost(c, M) = SumFunctionOnSet(Q(c), M)
      /\ Bought(b, N) = SumFunctionOnSet(E(b), N) /\ Cost(b, N) = SumFunctionOnSet(Q(b), N)
  BY <1>5
<1>10. Bought(c, M) = Bought(b, N) + c[n].executed /\ Cost(c, M) = Cost(b, N) + c[n].quote
       /\ Bought(b, N) \in Int /\ Cost(b, N) \in Int
  BY <1>3, <1>6, <1>7, <1>8, <1>9
<1> QED
  BY <1>3, <1>10 DEF M

\* What was on its way shows the same of the others, and the new reports come
\* after it.
LEMMA AnotherStream ==
  ASSUME OrdersInv, NEW n, NEW b, NEW v, Another(n, b, v),
         ~userLink => v = << >>,
         client = "binance" /\ userLink =>
           \A q \in Account :
             (account' = Apply(account, Rejected(n)) => n \notin Elements(q.open))
               => ToldAll(q, b[n], n, Replay(q, EventsOf(v)))
  PROVE  StreamInv'
<1> DEFINE T == ToldOf(PlacedIds)
           was == fills \o EventsOf(userWire)
           m == Replay(account', was)
<1>1. SessionTypes /\ BookKept /\ StreamInv
  BY DEF OrdersInv
<1>2. /\ n \in Ids /\ n \notin PlacedIds /\ PlacedIds' = PlacedIds \cup {n}
      /\ PlacedIds \subseteq Ids /\ PlacedIds' \subseteq Ids
      /\ BookType(book) /\ BookType(b) /\ account \in Account /\ account' \in Account
      /\ \A j \in PlacedIds : b[j] = book[j]
  BY AnotherFacts
<1>3. PICK there \in SUBSET {n} :
        /\ Beside(n, there, account, account')
        /\ account' = Apply(account, Rejected(n)) => there = {}
  BY AnotherFacts
<1>4. /\ v \in Seq(ReportOn({n})) /\ userWire' = userWire \o v /\ book' = b
      /\ UNCHANGED <<client, userLink, fills, still, stage>>
  BY DEF Another
<1>5. /\ was \in Seq(T) /\ fills \in Seq(T) /\ userWire \in Seq(ReportOn(PlacedIds))
      /\ client \in Clients /\ Arrived \in Account
  BY <1>1, RestTyped DEF BookKept
<1>6. Arrived' = Replay(m, EventsOf(v)) /\ m \in Account
  <2> DEFINE M == PlacedIds \cup {n}
  <2>1. PlacedIds \subseteq M /\ {n} \subseteq M /\ M \subseteq Ids
    BY <1>2
  <2> HIDE DEF M
  <2>2. userWire \in Seq(ReportOn(M)) /\ v \in Seq(ReportOn(M)) /\ fills \in Seq(ToldOf(M))
    BY <1>4, <1>5, <2>1, Widen
  <2>3. /\ Replay(account', fills \o EventsOf(userWire \o v))
             = Replay(Replay(account', fills \o EventsOf(userWire)), EventsOf(v))
        /\ Replay(account', fills \o EventsOf(userWire)) \in Account
    <3>1. client \in Clients /\ account' \in Account
      BY <1>2, <1>5
    <3> QED
      BY <2>1, <2>2, <3>1, WireConcat
  <2>4. Arrived' = Replay(account', fills' \o EventsOf(userWire'))
    BY <1>4, SameClient
  <2> QED
    BY <1>4, <2>3, <2>4
<1>7. Beside(n, there, Arrived, m)
  <2> HIDE DEF T, was
  <2>1. Arrived = Replay(account, was)
    BY DEF Arrived, was
  <2>2. Beside(n, there, Replay(account, was), Replay(account', was))
    BY <1>2, <1>3, <1>5, StaysBeside DEF T
  <2> QED
    BY <2>1, <2>2
<1> HIDE DEF T, was, m
<1>8. Net(m) = Net(Arrived) /\ m.cash = Arrived.cash
      /\ Elements(m.open) = (Elements(Arrived.open) \ {n}) \cup there
  BY <1>7 DEF Beside
<1>9. /\ Bought(b, PlacedIds') = Bought(book, PlacedIds) + b[n].executed
      /\ Cost(b, PlacedIds') = Cost(book, PlacedIds) + b[n].quote
      /\ b[n].executed \in Nat /\ b[n].quote \in Int
      /\ Bought(book, PlacedIds) \in Int /\ Cost(book, PlacedIds) \in Int
  BY <1>2, AnotherCounts
<1>10. Net(Arrived) \in Int /\ Arrived.cash \in Int
  BY <1>5 DEF Account, Accounts, Position, Net
<1> SUFFICES ASSUME client # "mexc" PROVE StreamInv'
  BY <1>4 DEF StreamInv
<1>11. Net(Arrived) <= Bought(book, PlacedIds) /\ (userLink => Whole(book, PlacedIds, Arrived))
  BY <1>1 DEF StreamInv
<1>12. CASE ~userLink
  <2>1. Arrived' = m
    <3>1. Replay(m, EventsOf(<< >>)) = m
      BY <1>6, NoReport
    <3> QED
      BY <1>6, <1>12, <3>1
  <2>2. Net(m) <= Bought(b, PlacedIds')
    BY <1>8, <1>9, <1>10, <1>11
  <2> QED
    BY <1>4, <1>12, <2>1, <2>2 DEF StreamInv
<1>13. CASE userLink
  <2>1. client = "binance"
    BY <1>1, <1>13 DEF SessionTypes, Streams
  <2>2. account' = Apply(account, Rejected(n)) => n \notin Elements(m.open)
    BY <1>3, <1>8
  <2>3. ToldAll(m, b[n], n, Arrived')
    BY <1>6, <1>13, <2>1, <2>2
  <2>4. /\ Net(Arrived) = Bought(book, PlacedIds) /\ Arrived.cash + Cost(book, PlacedIds) = 0
        /\ Elements(Arrived.open) = Working(book, PlacedIds)
    BY <1>11, <1>13 DEF Whole
  <2>5. Net(Arrived') = Net(Arrived) + b[n].executed /\ Arrived'.cash = Arrived.cash - b[n].quote
        /\ Elements(Arrived'.open) = IF b[n].status = "working" THEN Elements(m.open) \cup {n}
                                     ELSE Elements(m.open) \ {n}
    BY <1>8, <2>3 DEF ToldAll
  <2>6. Net(Arrived') = Bought(b, PlacedIds') /\ Arrived'.cash + Cost(b, PlacedIds') = 0
    BY <1>9, <1>10, <2>4, <2>5
  <2>7. Elements(Arrived'.open) = Working(b, PlacedIds')
    BY <1>2, <1>8, <2>4, <2>5 DEF Working
  <2>8. Net(Arrived') <= Bought(b, PlacedIds') /\ Whole(b, PlacedIds', Arrived')
    BY <1>9, <2>6, <2>7 DEF Whole
  <2>9. Net(Arrived)' = Net(Arrived')
    BY DEF Net
  <2> QED
    BY <1>4, <2>8, <2>9 DEF StreamInv
<1> QED
  BY <1>1, <1>12, <1>13 DEF SessionTypes

\* What the book says of other orders is nothing to the poll.
LEMMA OtherOrder ==
  ASSUME NEW b, BookType(b), NEW c, BookType(c), NEW N, N \subseteq Ids,
         \A j \in N : c[j] = b[j], NEW R, NEW q, PollState(b, N, q, R)
  PROVE  PollState(c, N, q, R)
<1>1. Sound(c, N, R)
  BY DEF Sound, PollState
<1>2. \A j \in N : c[j].status = "working" => HasRecord(R, j)
  BY DEF PollState
<1>3. \A j \in N : /\ SeenIn(c, R)[j] = SeenIn(b, R)[j] /\ PaidIn(c, R)[j] = PaidIn(b, R)[j]
                   /\ SeenIn(b, R)[j] \in Int /\ PaidIn(b, R)[j] \in Int
  <2> SUFFICES ASSUME NEW j \in N
               PROVE  /\ SeenIn(c, R)[j] = SeenIn(b, R)[j] /\ PaidIn(c, R)[j] = PaidIn(b, R)[j]
                      /\ SeenIn(b, R)[j] \in Int /\ PaidIn(b, R)[j] \in Int
    OBVIOUS
  <2>1. SeenIn(b, R)[j] \in Int /\ PaidIn(b, R)[j] \in Int
    BY SeenTypes DEF BookType, PollState
  <2>2. /\ SeenIn(b, R)[j] = IF HasRecord(R, j) THEN RecordOf(R, j).filled ELSE b[j].executed
        /\ PaidIn(b, R)[j] = IF HasRecord(R, j) THEN RecordOf(R, j).quote ELSE b[j].quote
        /\ SeenIn(c, R)[j] = IF HasRecord(R, j) THEN RecordOf(R, j).filled ELSE c[j].executed
        /\ PaidIn(c, R)[j] = IF HasRecord(R, j) THEN RecordOf(R, j).quote ELSE c[j].quote
    BY DEF SeenIn, PaidIn
  <2> QED
    BY <2>1, <2>2
<1>4. /\ SumFunctionOnSet(SeenIn(c, R), N) = SumFunctionOnSet(SeenIn(b, R), N)
      /\ SumFunctionOnSet(PaidIn(c, R), N) = SumFunctionOnSet(PaidIn(b, R), N)
  BY <1>3, FewIds, SumSame
<1>5. {j \in N : HasRecord(R, j) \/ c[j].status = "working"}
        = {j \in N : HasRecord(R, j) \/ b[j].status = "working"}
  OBVIOUS
<1> QED
  BY <1>1, <1>2, <1>4, <1>5 DEF PollState, Polls

\* An order without a record counts for what it has executed.
LEMMA PollWidens ==
  ASSUME NEW b, BookType(b), NEW N, N \subseteq Ids, NEW R, Sound(b, N, R), NEW n \in Ids, n \notin N
  PROVE  /\ Sound(b, N \cup {n}, R) /\ ~HasRecord(R, n)
         /\ SumFunctionOnSet(SeenIn(b, R), N \cup {n}) = SumFunctionOnSet(SeenIn(b, R), N) + b[n].executed
         /\ SumFunctionOnSet(PaidIn(b, R), N \cup {n}) = SumFunctionOnSet(PaidIn(b, R), N) + b[n].quote
         /\ SumFunctionOnSet(SeenIn(b, R), N) \in Int /\ SumFunctionOnSet(PaidIn(b, R), N) \in Int
         /\ b[n].executed \in Int /\ b[n].quote \in Int
<1> DEFINE M == N \cup {n}
<1>1. IsFiniteSet(M) /\ IsFiniteSet(N) /\ M \ {n} = N /\ n \in M /\ M \subseteq Ids
  BY FewIds
<1>2. Sound(b, M, R) /\ ~HasRecord(R, n)
  BY DEF Sound, HasRecord
<1>3. \A j \in Ids : /\ SeenIn(b, R)[j] \in Int /\ PaidIn(b, R)[j] \in Int
                     /\ b[j].executed \in Int /\ b[j].quote \in Int
                     /\ ~HasRecord(R, j) => SeenIn(b, R)[j] = b[j].executed /\ PaidIn(b, R)[j] = b[j].quote
  BY SeenTypes DEF BookType
<1>4. /\ SeenIn(b, R)[n] = b[n].executed /\ PaidIn(b, R)[n] = b[n].quote
      /\ b[n].executed \in Int /\ b[n].quote \in Int
  BY <1>2, <1>3
<1> HIDE DEF M
<1>5. /\ \A j \in M : SeenIn(b, R)[j] \in Int /\ PaidIn(b, R)[j] \in Int
      /\ \A j \in N : SeenIn(b, R)[j] \in Int /\ PaidIn(b, R)[j] \in Int
  BY <1>1, <1>3
<1>6. /\ SumFunctionOnSet(SeenIn(b, R), M) = SeenIn(b, R)[n] + SumFunctionOnSet(SeenIn(b, R), N)
      /\ SumFunctionOnSet(PaidIn(b, R), M) = PaidIn(b, R)[n] + SumFunctionOnSet(PaidIn(b, R), N)
  BY <1>1, <1>5, SumSplit
<1>7. SumFunctionOnSet(SeenIn(b, R), N) \in Int /\ SumFunctionOnSet(PaidIn(b, R), N) \in Int
  BY <1>1, <1>5, SumType
<1>8. /\ SumFunctionOnSet(SeenIn(b, R), M) = SumFunctionOnSet(SeenIn(b, R), N) + b[n].executed
      /\ SumFunctionOnSet(PaidIn(b, R), M) = SumFunctionOnSet(PaidIn(b, R), N) + b[n].quote
  BY <1>4, <1>6, <1>7
<1> QED
  BY <1>2, <1>4, <1>7, <1>8 DEF M

\* An order that did nothing, and is not polled.
LEMMA PollIdle ==
  ASSUME NEW b, BookType(b), NEW N, N \subseteq Ids, NEW n \in Ids, n \notin N,
         b[n].status = "none", b[n].executed = 0, b[n].quote = 0,
         NEW R, NEW q, PollState(b, N, q, R), NEW r \in Account, Beside(n, {}, q, r)
  PROVE  PollState(b, N \cup {n}, r, R)
<1>1. Sound(b, N, R)
  BY DEF PollState
<1>2. /\ Sound(b, N \cup {n}, R) /\ ~HasRecord(R, n)
      /\ SumFunctionOnSet(SeenIn(b, R), N \cup {n}) = SumFunctionOnSet(SeenIn(b, R), N)
      /\ SumFunctionOnSet(PaidIn(b, R), N \cup {n}) = SumFunctionOnSet(PaidIn(b, R), N)
  <2>1. /\ Sound(b, N \cup {n}, R) /\ ~HasRecord(R, n)
        /\ SumFunctionOnSet(SeenIn(b, R), N \cup {n}) = SumFunctionOnSet(SeenIn(b, R), N) + b[n].executed
        /\ SumFunctionOnSet(PaidIn(b, R), N \cup {n}) = SumFunctionOnSet(PaidIn(b, R), N) + b[n].quote
        /\ SumFunctionOnSet(SeenIn(b, R), N) \in Int /\ SumFunctionOnSet(PaidIn(b, R), N) \in Int
    BY <1>1, PollWidens
  <2> QED
    BY <2>1
<1>3. Polls(b, N, q, R)
  BY DEF PollState
<1>4. Elements(r.open) = {j \in N \cup {n} : HasRecord(R, j) \/ b[j].status = "working"}
  BY <1>2, <1>3 DEF Polls, Beside
<1>5. Polls(b, N \cup {n}, r, R)
  BY <1>2, <1>3, <1>4 DEF Polls, Beside
<1> QED
  BY <1>2, <1>5 DEF PollState

\* An order whose acknowledgement was lost is not among those that are polled.
LEMMA PollUnaware ==
  ASSUME NEW b, NEW N, N \subseteq Ids, NEW n \in Ids, n \notin N,
         NEW R, NEW q, PollState(b, N, q, R), NEW r \in Account, Beside(n, {}, q, r)
  PROVE  PollState(b, N, r, R)
<1>1. Polls(b, N, q, R)
  BY DEF PollState
<1>2. Elements(r.open) = Elements(q.open)
  BY <1>1 DEF Polls, Beside
<1> QED
  BY <1>1, <1>2 DEF PollState, Polls, Beside

\* An order that the venue took is polled from then on.
LEMMA PollTakes ==
  ASSUME NEW b, BookType(b), NEW N, N \subseteq Ids, NEW n \in Ids, n \notin N,
         b[n].status # "none", b[n].executed = 0 => b[n].quote = 0,
         NEW R, NEW q, PollState(b, N, q, R), NEW r \in Account, Beside(n, {n}, q, r)
  PROVE  PollState(b, N \cup {n}, r, R \cup {NewPending(n)})
<1> DEFINE p == NewPending(n)
           M == N \cup {n}
           S == R \cup {p}
<1>1. Sound(b, N, R) /\ Polls(b, N, q, R) /\ \A j \in N : b[j].status = "working" => HasRecord(R, j)
  BY DEF PollState
<1>2. /\ Sound(b, M, R) /\ ~HasRecord(R, n)
      /\ SumFunctionOnSet(SeenIn(b, R), M) = SumFunctionOnSet(SeenIn(b, R), N) + b[n].executed
      /\ SumFunctionOnSet(PaidIn(b, R), M) = SumFunctionOnSet(PaidIn(b, R), N) + b[n].quote
      /\ SumFunctionOnSet(SeenIn(b, R), N) \in Int /\ SumFunctionOnSet(PaidIn(b, R), N) \in Int
      /\ b[n].executed \in Int /\ b[n].quote \in Int
  BY <1>1, PollWidens
<1>3. p \in PollRecord /\ p.id = n /\ p.filled = 0 /\ p.quote = 0 /\ 0 <= b[n].executed
      /\ M \subseteq Ids /\ n \in M
  BY OrdersAssumption DEF NewPending, PollRecord, BookType, OrderAtVenue
<1> HIDE DEF p, M
<1>4. /\ Sound(b, M, S) /\ \A j \in Ids : HasRecord(S, j) <=> HasRecord(R, j) \/ j = n
      /\ SumFunctionOnSet(SeenIn(b, S), M) = SumFunctionOnSet(SeenIn(b, R), M) + p.filled - b[n].executed
      /\ SumFunctionOnSet(PaidIn(b, S), M) = SumFunctionOnSet(PaidIn(b, R), M) + p.quote - b[n].quote
  <2>1. /\ ~HasRecord(R, p.id) /\ p.id \in M /\ b[p.id].status # "none"
        /\ p.filled <= b[p.id].executed /\ (p.filled = b[p.id].executed => p.quote = b[p.id].quote)
    BY <1>2, <1>3
  <2>2. /\ Sound(b, M, R \cup {p})
        /\ \A id \in Ids : HasRecord(R \cup {p}, id) <=> HasRecord(R, id) \/ id = p.id
        /\ SumFunctionOnSet(SeenIn(b, R \cup {p}), M)
             = SumFunctionOnSet(SeenIn(b, R), M) + p.filled - b[p.id].executed
        /\ SumFunctionOnSet(PaidIn(b, R \cup {p}), M)
             = SumFunctionOnSet(PaidIn(b, R), M) + p.quote - b[p.id].quote
    <3>1. Sound(b, M, R) /\ p \in PollRecord /\ M \subseteq Ids
      BY <1>2, <1>3
    <3> QED
      BY <2>1, <3>1, RecordAdds
  <2> QED
    BY <1>3, <2>2
<1> HIDE DEF S
<1>5. /\ SumFunctionOnSet(SeenIn(b, S), M) = SumFunctionOnSet(SeenIn(b, R), N)
      /\ SumFunctionOnSet(PaidIn(b, S), M) = SumFunctionOnSet(PaidIn(b, R), N)
  BY <1>2, <1>3, <1>4
<1>6. Elements(r.open) = {j \in M : HasRecord(S, j) \/ b[j].status = "working"}
  <2>1. Elements(q.open) = {j \in N : HasRecord(R, j) \/ b[j].status = "working"}
    BY <1>1 DEF Polls
  <2>2. Elements(r.open) = Elements(q.open) \cup {n}
    BY <2>1 DEF Beside
  <2> QED
    BY <1>4, <2>1, <2>2 DEF M
<1>7. Polls(b, M, r, S)
  BY <1>1, <1>5, <1>6 DEF Polls, Beside
<1>8. \A j \in M : b[j].status = "working" => HasRecord(S, j)
  BY <1>1, <1>4 DEF M
<1> QED
  BY <1>4, <1>7, <1>8 DEF PollState, M, S, p

\* The poll knows of the new order, or of its rejection.
LEMMA AnotherPoll ==
  ASSUME OrdersInv, NEW n, NEW b, NEW v, Another(n, b, v), stage = "deciding", client = "mexc",
         \/ /\ account' = Apply(account, Rejected(n)) /\ UNCHANGED <<pending, unanswered>>
            /\ b[n].status = "none" /\ b[n].executed = 0 /\ b[n].quote = 0
         \/ /\ account' = Apply(account, Rejected(n)) /\ UNCHANGED pending
            /\ unanswered' = unanswered \cup {n}
         \/ /\ account' = Apply(account, Accepted(n)) /\ UNCHANGED unanswered
            /\ pending' = Append(pending, NewPending(n))
            /\ b[n].status # "none" /\ (b[n].executed = 0 => b[n].quote = 0)
  PROVE  PollInv'
<1>1. /\ n \in Ids /\ n \notin PlacedIds /\ PlacedIds' = PlacedIds \cup {n}
      /\ PlacedIds \subseteq Ids /\ BookType(book) /\ BookType(b)
      /\ account \in Account /\ account' \in Account
      /\ \A j \in PlacedIds : b[j] = book[j]
  BY AnotherFacts
<1>2. SessionTypes /\ PollInv /\ client' = client /\ still' = still /\ book' = b
  BY DEF OrdersInv, Another
<1>3. unanswered \subseteq PlacedIds /\ still = << >> /\ pending \in Seq(PollRecord)
  BY <1>2 DEF SessionTypes
<1> DEFINE N == Answered
           R == Elements(pending)
           K == PollRecord
<1>4. N \subseteq Ids /\ n \notin N /\ \A j \in N : b[j] = book[j]
  BY <1>1 DEF Answered
<1>5. Polling = pending /\ (pending' \in Seq(K) => Polling' = pending')
  <2> HIDE DEF K
  <2>1. \A s \in Seq(K) : s \o << >> = s
    OBVIOUS
  <2> QED
    BY <1>2, <1>3, <2>1 DEF Polling, K
<1>6. NewPending(n) \in K /\ NewPending(n).id = n
  BY <1>1, OrdersAssumption DEF NewPending, PollRecord
<1>7. /\ Distinct(pending) /\ PollState(book, N, account, R)
  BY <1>2, <1>5 DEF PollInv, PollState
<1>8. PollState(b, N, account, R)
  BY <1>1, <1>4, <1>7, OtherOrder
<1>9. /\ Beside(n, {n}, account, Apply(account, Accepted(n)))
      /\ Beside(n, {}, account, Apply(account, Rejected(n)))
  BY <1>1, Answers
<1> HIDE DEF N, R, K
<1>10. CASE /\ account' = Apply(account, Rejected(n)) /\ UNCHANGED <<pending, unanswered>>
            /\ b[n].status = "none" /\ b[n].executed = 0 /\ b[n].quote = 0
  <2>1. Answered' = N \cup {n}
    BY <1>1, <1>3, <1>10 DEF Answered, N
  <2>2. PollState(b, N \cup {n}, account', R)
    BY <1>1, <1>4, <1>8, <1>9, <1>10, PollIdle
  <2>3. pending' \in Seq(K) /\ pending' = pending /\ pending \in Seq(K)
    BY <1>3, <1>10 DEF K
  <2>4. Polling' = pending
    BY <1>5, <2>3
  <2> QED
    BY <1>2, <1>7, <2>1, <2>2, <2>4 DEF PollInv, PollState, R
<1>11. CASE /\ account' = Apply(account, Rejected(n)) /\ UNCHANGED pending
            /\ unanswered' = unanswered \cup {n}
  <2>1. Answered' = N
    BY <1>1, <1>11 DEF Answered, N
  <2>2. PollState(b, N, account', R)
    BY <1>1, <1>4, <1>8, <1>9, <1>11, PollUnaware
  <2>3. pending' \in Seq(K) /\ pending' = pending /\ pending \in Seq(K)
    BY <1>3, <1>11 DEF K
  <2>4. Polling' = pending
    BY <1>5, <2>3
  <2> QED
    BY <1>2, <1>7, <2>1, <2>2, <2>4 DEF PollInv, PollState, R
<1>12. CASE /\ account' = Apply(account, Accepted(n)) /\ UNCHANGED unanswered
            /\ pending' = Append(pending, NewPending(n))
            /\ b[n].status # "none" /\ (b[n].executed = 0 => b[n].quote = 0)
  <2>1. Answered' = N \cup {n}
    BY <1>1, <1>3, <1>12 DEF Answered, N
  <2>2. PollState(b, N \cup {n}, account', R \cup {NewPending(n)})
    BY <1>1, <1>4, <1>8, <1>9, <1>12, PollTakes
  <2>3. pending \in Seq(K)
    BY <1>3 DEF K
  <2>4. NewPending(n) \notin R
    <3>1. Sound(book, N, R)
      BY <1>7 DEF PollState
    <3> QED
      BY <1>4, <1>6, <3>1 DEF Sound
  <2>5. pending' \in Seq(K) /\ Distinct(pending') /\ Elements(pending') = R \cup {NewPending(n)}
    <3>1. Append(pending, NewPending(n)) \in Seq(K)
      BY <1>6, <2>3
    <3>2. Distinct(Append(pending, NewPending(n)))
      BY <1>6, <1>7, <2>3, <2>4, AppendDistinct DEF R
    <3>3. Elements(Append(pending, NewPending(n))) = R \cup {NewPending(n)}
      BY <1>6, <2>3, AppendElements DEF R
    <3> QED
      BY <1>12, <3>1, <3>2, <3>3
  <2>6. Polling' = pending'
    BY <1>5, <2>5
  <2> QED
    BY <1>2, <2>1, <2>2, <2>5, <2>6 DEF PollInv, PollState
<1> QED
  BY <1>10, <1>11, <1>12

\* The id of an order to be placed.
LEMMA NextFree ==
  ASSUME OrdersInv, placed < MaxOrders
  PROVE  NextId \in Ids /\ NextId = placed + 1 /\ book[NextId] = Unplaced
<1>1. BookKept
  BY DEF OrdersInv
<1>2. placed \in 0..MaxOrders /\ MaxOrders \in Nat
  BY <1>1, OrdersAssumption DEF BookKept
<1>3. NextId \in Ids /\ NextId = placed + 1 /\ NextId > placed
  BY <1>2 DEF NextId, Ids
<1> QED
  BY <1>1, <1>3 DEF BookKept, OrderKept

\* A refused order is told of, and is not at the venue.
LEMMA RefusedLive ==
  ASSUME OrdersInv, SubmitRefused
  PROVE  SessionTypes' /\ StreamInv' /\ PollInv'
<1> DEFINE n == NextId
           v == << >>
<1>1. /\ stage = "deciding" /\ placed < MaxOrders /\ placed' = n
      /\ account' = Apply(account, Rejected(n))
      /\ UNCHANGED <<client, book, userLink, userWire, fills, pending, still, stage, unanswered>>
  BY DEF SubmitRefused, Places, venueSide, clientSide
<1>2. /\ SessionTypes /\ BookType(book) /\ userWire \in Seq(ReportOn(PlacedIds))
  BY RestTyped DEF OrdersInv
<1>3. n \in Ids /\ n = placed + 1 /\ book[n] = Unplaced
  BY <1>1, NextFree
<1>4. book[n].status = "none" /\ book[n].executed = 0 /\ book[n].quote = 0
  BY <1>3 DEF Unplaced
<1> HIDE DEF n
<1>5. Another(n, book, v)
  <2>1. userWire \o << >> = userWire /\ << >> \in Seq(ReportOn({n}))
    <3> DEFINE K == ReportOn(PlacedIds)
    <3>1. userWire \in Seq(K)
      BY <1>2
    <3> HIDE DEF K
    <3> QED
      BY <3>1
  <2> QED
    BY <1>1, <1>2, <1>3, <2>1 DEF Another
<1>6. SessionTypes'
  <2>1. pending' \in Seq(PollRecord) /\ pending' = pending /\ unanswered' = unanswered
    BY <1>1, <1>2 DEF SessionTypes
  <2> QED
    BY <1>5, <2>1, AnotherTyped
<1>7. StreamInv'
  <2>1. ASSUME NEW q \in Account, n \notin Elements(q.open)
        PROVE  ToldAll(q, book[n], n, Replay(q, EventsOf(v)))
    <3>1. Replay(q, EventsOf(v)) = q
      BY NoReport
    <3>2. Net(q) \in Int /\ q.cash \in Int
      BY DEF Account, Accounts, Position, Net
    <3> QED
      BY <1>4, <2>1, <3>1, <3>2 DEF ToldAll
  <2> QED
    BY <1>1, <1>5, <2>1, AnotherStream
<1>8. PollInv'
  <2>1. CASE client = "mexc"
    BY <1>1, <1>4, <1>5, <2>1, AnotherPoll
  <2>2. CASE client # "mexc"
    BY <1>1, <2>2 DEF PollInv
  <2> QED
    BY <2>1, <2>2
<1> QED
  BY <1>6, <1>7, <1>8

\* What an order has executed on its arrival, and where that leaves it.
LEMMA ArrivalFacts ==
  ASSUME NEW meaning, NEW k \in Arrivals(meaning),
         meaning \in {"market", "fok", "ioc", "gtc", "maker"}
  PROVE  /\ k \in 0..Lots /\ (StatusAfter(meaning, k) = "filled") = (k = Lots)
         /\ StatusAfter(meaning, k) \in {"working", "filled", "expired"}
         /\ SumFunctionOnSet(Prices, 1..k) \in Int
         /\ k = 0 => SumFunctionOnSet(Prices, 1..k) = 0
<1>1. k \in 0..Lots /\ Lots \in Nat
  BY OrdersAssumption DEF Arrivals
<1>2. /\ (StatusAfter(meaning, k) = "filled") = (k = Lots)
      /\ StatusAfter(meaning, k) \in {"working", "filled", "expired"}
  BY DEF StatusAfter
<1>3. SumFunctionOnSet(Prices, 1..k) \in Int
  <2>1. \A i \in 1..k : Prices[i] \in Int
    BY <1>1, OrdersAssumption
  <2>2. IsFiniteSet(1..k)
    BY <1>1, FS_Interval
  <2> QED
    BY <2>1, <2>2, SumType
<1>4. k = 0 => SumFunctionOnSet(Prices, 1..k) = 0
  <2>1. 1..0 = {} /\ IsFiniteSet({})
    BY FS_EmptySet
  <2>2. SumFunctionOnSet(Prices, {}) = 0
    BY <2>1, SumStep
  <2> QED
    BY <2>1, <2>2
<1> QED
  BY <1>1, <1>2, <1>3, <1>4

\* The record of an order that has just come, at its venue.
NewAtVenue(meaning, k) ==
  [status |-> StatusAfter(meaning, k), executed |-> k, took |-> k,
   quote |-> SumFunctionOnSet(Prices, 1..k)]

Takes(n, meaning, k) ==
  /\ stage = "deciding" /\ placed < MaxOrders /\ placed' = n
  /\ book' = [book EXCEPT ![n] = NewAtVenue(meaning, k)]
  /\ userWire' = userWire \o Sent(ArrivalReports(n, k, StatusAfter(meaning, k)))
  /\ UNCHANGED <<client, userLink, fills, still, stage>>
  /\ \/ /\ account' = Apply(account, Accepted(n)) /\ UNCHANGED unanswered
        /\ pending' = IF client = "mexc" THEN Append(pending, NewPending(n)) ELSE pending
     \/ /\ account' = Apply(account, Rejected(n)) /\ UNCHANGED pending
        /\ unanswered' = unanswered \cup {n}

\* What taking an order comes to.
LEMMA TakenFacts ==
  ASSUME OrdersInv, SubmitTaken
  PROVE  \E meaning \in {"market", "fok", "ioc", "gtc", "maker"} : \E k \in Arrivals(meaning) :
           Takes(NextId, meaning, k)
<1>1. PICK o \in Requests[client] :
        /\ Places(o) /\ ~Contradiction(client, o) /\ ~OnlyReduces(client, Fields(client, o))
        /\ \E k \in Arrivals(Meaning(client, Fields(client, o))) :
             /\ book' = [book EXCEPT ![NextId] = NewAtVenue(Meaning(client, Fields(client, o)), k)]
             /\ userWire' = userWire
                  \o Sent(ArrivalReports(NextId, k, StatusAfter(Meaning(client, Fields(client, o)), k)))
  BY DEF SubmitTaken, NewAtVenue
<1>2. client \in Clients /\ o \in OrderRequest
  BY OrdersAssumption DEF BookKept, OrdersInv
<1> DEFINE meaning == Meaning(client, Fields(client, o))
<1>3. meaning \in {"market", "fok", "ioc", "gtc", "maker"}
  BY <1>1, <1>2, EncodingFaithful DEF MeaningKept
<1>4. stage = "deciding" /\ placed < MaxOrders /\ placed' = NextId
  BY <1>1 DEF Places
<1>5. /\ UNCHANGED <<client, userLink, fills, still, stage>>
      /\ \/ /\ account' = Apply(account, Accepted(NextId)) /\ UNCHANGED unanswered
            /\ pending' = IF client = "mexc" THEN Append(pending, NewPending(NextId)) ELSE pending
         \/ /\ account' = Apply(account, Rejected(NextId)) /\ UNCHANGED pending
            /\ unanswered' = unanswered \cup {NextId}
  BY DEF SubmitTaken
<1>6. \E k \in Arrivals(meaning) :
        /\ book' = [book EXCEPT ![NextId] = NewAtVenue(meaning, k)]
        /\ userWire' = userWire \o Sent(ArrivalReports(NextId, k, StatusAfter(meaning, k)))
  BY <1>1
<1> HIDE DEF meaning
<1> QED
  BY <1>3, <1>4, <1>5, <1>6 DEF Takes

\* An order that is taken is in the book as its venue reports it.
LEMMA TakenLive ==
  ASSUME OrdersInv, SubmitTaken
  PROVE  SessionTypes' /\ StreamInv' /\ PollInv'
<1> DEFINE n == NextId
<1>0. PICK meaning \in {"market", "fok", "ioc", "gtc", "maker"} :
        \E k \in Arrivals(meaning) : Takes(n, meaning, k)
  BY TakenFacts
<1>1. PICK k \in Arrivals(meaning) : Takes(n, meaning, k)
  BY <1>0
<1>2. /\ SessionTypes /\ BookType(book)
  BY RestTyped DEF OrdersInv
<1>3. n \in Ids /\ n = placed + 1
  BY <1>1, NextFree DEF Takes
<1> HIDE DEF n
<1> DEFINE status == StatusAfter(meaning, k)
           new == NewAtVenue(meaning, k)
           b == [book EXCEPT ![n] = new]
           reports == ArrivalReports(n, k, status)
           v == Sent(reports)
<1>4. /\ k \in 0..Lots /\ (status = "filled") = (k = Lots)
      /\ status \in {"working", "filled", "expired"}
      /\ SumFunctionOnSet(Prices, 1..k) \in Int
      /\ k = 0 => SumFunctionOnSet(Prices, 1..k) = 0
  BY ArrivalFacts
<1>5. /\ new.status = status /\ new.executed = k
      /\ new.quote = SumFunctionOnSet(Prices, 1..k) /\ new \in OrderAtVenue
  BY <1>4 DEF NewAtVenue, OrderAtVenue
<1> HIDE DEF new
<1>6. b[n] = new /\ \A j \in Ids \ {n} : b[j] = book[j]
  BY <1>2, <1>3 DEF BookType
<1>7. BookType(b)
  <2>1. b \in [Ids -> OrderAtVenue]
    BY <1>2, <1>3, <1>5 DEF BookType
  <2> HIDE DEF b, status
  <2>2. (b[n].status = "filled") = (b[n].executed = Lots)
    BY <1>4, <1>5, <1>6
  <2>3. \A j \in Ids \ {n} : (b[j].status = "filled") = (b[j].executed = Lots)
    BY <1>2, <1>6 DEF BookType
  <2> QED
    BY <2>1, <2>2, <2>3 DEF BookType
<1>8. reports \in Seq(ReportOn({n}))
  <2> HIDE DEF status
  <2> QED
    BY <1>4, ArrivalTyped
<1>9. /\ v \in Seq(ReportOn({n})) /\ (~userLink => v = << >>)
      /\ (userLink /\ client # "mexc" => v = reports)
  <2> HIDE DEF reports
  <2> QED
    BY <1>8, SentOn
<1>10. Another(n, b, v)
  <2>1. placed' = n /\ book' = b /\ userWire' = userWire \o v
        /\ UNCHANGED <<client, userLink, fills, still, stage>>
        /\ account' \in {Apply(account, Accepted(n)), Apply(account, Rejected(n))}
    BY <1>1 DEF Takes, new
  <2> HIDE DEF b, v
  <2> QED
    BY <1>3, <1>6, <1>7, <1>9, <2>1 DEF Another
<1> HIDE DEF b, v, reports, status
<1>11. SessionTypes'
  <2>1. NewPending(n) \in PollRecord /\ pending \in Seq(PollRecord)
    BY <1>2, <1>3, OrdersAssumption DEF NewPending, PollRecord, SessionTypes
  <2>2. Append(pending, NewPending(n)) \in Seq(PollRecord)
    <3> DEFINE K == PollRecord
    <3>1. NewPending(n) \in K /\ pending \in Seq(K)
      BY <2>1
    <3> HIDE DEF K
    <3>2. Append(pending, NewPending(n)) \in Seq(K)
      BY <3>1
    <3> QED
      BY <3>2 DEF K
  <2>3. pending' \in Seq(PollRecord) /\ (client # "mexc" => pending' = pending)
        /\ unanswered' \subseteq unanswered \cup {n}
    BY <1>1, <2>1, <2>2 DEF Takes
  <2> QED
    BY <1>10, <2>3, AnotherTyped
<1>12. StreamInv'
  <2>1. ASSUME client = "binance", userLink, NEW q \in Account
        PROVE  ToldAll(q, b[n], n, Replay(q, EventsOf(v)))
    <3>1. v = reports
      BY <1>9, <2>1
    <3>2. ToldAll(q, b[n], n, Replay(q, EventsOf(reports)))
      BY <1>3, <1>4, <1>5, <1>6, <2>1, ArrivalTold DEF reports
    <3> QED
      BY <3>1, <3>2
  <2> QED
    BY <1>9, <1>10, <2>1, AnotherStream
<1>13. PollInv'
  <2>1. CASE client = "mexc"
    <3>1. b[n].status # "none" /\ (b[n].executed = 0 => b[n].quote = 0)
      BY <1>4, <1>5, <1>6
    <3> QED
      BY <1>1, <1>10, <2>1, <3>1, AnotherPoll DEF Takes
  <2>2. CASE client # "mexc"
    BY <1>1, <2>2 DEF PollInv, Takes
  <2> QED
    BY <2>1, <2>2
<1> QED
  BY <1>11, <1>12, <1>13

\* The first record leaves the list of those to poll, and may join its end.
LEMMA PollingShifts ==
  ASSUME NEW K, NEW a \in Seq(K), NEW c \in Seq(K), a # << >>, Distinct(a \o c)
  PROVE  /\ Head(a) \in K /\ Head(a) \in Elements(a \o c)
         /\ Tail(a) \in Seq(K) /\ Tail(a) \o c \in Seq(K)
         /\ Distinct(Tail(a) \o c) /\ Elements(Tail(a) \o c) = Elements(a \o c) \ {Head(a)}
         /\ \A x \in K : /\ Append(c, x) \in Seq(K)
                         /\ Tail(a) \o Append(c, x) = Append(Tail(a) \o c, x)
                         /\ Elements(Tail(a) \o Append(c, x)) = Elements(Tail(a) \o c) \cup {x}
                         /\ x \notin Elements(Tail(a) \o c) => Distinct(Tail(a) \o Append(c, x))
<1> DEFINE w == a \o c
           t == Tail(a) \o c
<1>1. w \in Seq(K) /\ w # << >> /\ Head(w) = Head(a) /\ Tail(w) = t /\ t \in Seq(K)
      /\ Tail(a) \in Seq(K) /\ Head(a) \in K
  OBVIOUS
<1>2. \A x \in K : Append(c, x) \in Seq(K) /\ Tail(a) \o Append(c, x) = Append(t, x)
  OBVIOUS
<1>3. w = <<Head(a)>> \o t /\ <<Head(a)>> \in Seq(K)
  OBVIOUS
<1>4. Distinct(w)
  OBVIOUS
<1> HIDE DEF w, t
<1>5. Distinct(t)
  BY <1>1, <1>3, <1>4, SuffixDistinct
<1>6. Elements(t) = Elements(w) \ {Head(a)} /\ Head(a) \in Elements(w)
  BY <1>1, <1>4, TailElements
<1>7. ASSUME NEW x \in K
      PROVE  /\ Append(c, x) \in Seq(K) /\ Tail(a) \o Append(c, x) = Append(t, x)
             /\ Elements(Tail(a) \o Append(c, x)) = Elements(t) \cup {x}
             /\ x \notin Elements(t) => Distinct(Tail(a) \o Append(c, x))
  <2>1. Append(c, x) \in Seq(K) /\ Tail(a) \o Append(c, x) = Append(t, x)
    BY <1>2
  <2>2. Elements(Append(t, x)) = Elements(t) \cup {x}
    BY <1>1, AppendElements
  <2>3. x \notin Elements(t) => Distinct(Append(t, x))
    BY <1>1, <1>5, AppendDistinct
  <2> QED
    BY <2>1, <2>2, <2>3
<1> QED
  BY <1>1, <1>5, <1>6, <1>7 DEF w, t

\* An order is polled: what it did is told, and if it still works its record
\* says so.
LEMMA PollSettles ==
  ASSUME BookType(book), NEW N, N \subseteq Ids, NEW R, NEW p \in R,
         NEW q, PollState(book, N, q, R)
  PROVE  /\ Replay(q, PollEvents(p)) \in Account
         /\ Terminal(book[p.id].status)
              => PollState(book, N, Replay(q, PollEvents(p)), R \ {p})
         /\ ~Terminal(book[p.id].status) =>
              /\ Polled(p) \in PollRecord /\ Polled(p) \notin R \ {p}
              /\ PollState(book, N, Replay(q, PollEvents(p)), (R \ {p}) \cup {Polled(p)})
<1> DEFINE r == Replay(q, PollEvents(p))
           y == Polled(p)
           S == R \ {p}
           o == book[p.id]
<1>1. /\ Sound(book, N, R) /\ Polls(book, N, q, R)
      /\ \A id \in N : book[id].status = "working" => HasRecord(R, id)
  BY DEF PollState
<1>2. /\ Sound(book, N, S) /\ \A id \in Ids : HasRecord(S, id) <=> HasRecord(R, id) /\ id # p.id
  BY <1>1, RecordDrops
<1>3. Polls(book, N, r, S)
  BY <1>1, PollDrops
<1>4. p \in PollRecord /\ p.id \in N /\ p.id \in Ids /\ o.status # "none" /\ o \in OrderAtVenue
      /\ (o.status = "filled") = (o.executed = Lots)
  BY <1>1 DEF Sound, PollRecord, BookType
<1>5. r \in Account
  BY <1>3 DEF Polls
<1> HIDE DEF r, S
<1>6. ASSUME Terminal(o.status) PROVE PollState(book, N, r, S)
  <2>1. \A id \in N : book[id].status = "working" => HasRecord(S, id)
    BY <1>1, <1>2, <1>6 DEF Terminal
  <2> QED
    BY <1>2, <1>3, <2>1 DEF PollState
<1>7. ASSUME ~Terminal(o.status)
      PROVE  y \in PollRecord /\ y \notin S /\ PollState(book, N, r, S \cup {y})
  <2>1. o.status = "working" /\ o.executed \in 0..Lots - 1 /\ o.quote \in Int
    BY <1>4, <1>7, OrdersAssumption DEF Terminal, OrderAtVenue
  <2>2. y.id = p.id /\ y.filled = o.executed /\ y.quote = o.quote /\ y \in PollRecord
    BY <1>4, <2>1 DEF Polled, PollRecord
  <2> HIDE DEF y, o
  <2>3. ~HasRecord(S, p.id)
    BY <1>2, <1>4
  <2>4. y \notin S
    BY <2>2, <2>3 DEF HasRecord
  <2> DEFINE T == S \cup {y}
  <2>5. /\ Sound(book, N, T) /\ \A id \in Ids : HasRecord(T, id) <=> HasRecord(S, id) \/ id = p.id
        /\ SumFunctionOnSet(SeenIn(book, T), N) = SumFunctionOnSet(SeenIn(book, S), N) + o.executed - o.executed
        /\ SumFunctionOnSet(PaidIn(book, T), N) = SumFunctionOnSet(PaidIn(book, S), N) + o.quote - o.quote
    <3>1. /\ ~HasRecord(S, y.id) /\ y.id \in N /\ book[y.id].status # "none"
          /\ y.filled <= book[y.id].executed
          /\ (y.filled = book[y.id].executed => y.quote = book[y.id].quote)
      BY <1>4, <2>1, <2>2, <2>3, OrdersAssumption DEF o
    <3>2. /\ Sound(book, N, S \cup {y})
          /\ \A id \in Ids : HasRecord(S \cup {y}, id) <=> HasRecord(S, id) \/ id = y.id
          /\ SumFunctionOnSet(SeenIn(book, S \cup {y}), N)
               = SumFunctionOnSet(SeenIn(book, S), N) + y.filled - book[y.id].executed
          /\ SumFunctionOnSet(PaidIn(book, S \cup {y}), N)
               = SumFunctionOnSet(PaidIn(book, S), N) + y.quote - book[y.id].quote
      BY <1>2, <2>2, <3>1, RecordAdds
    <3> QED
      BY <2>2, <3>2 DEF o
  <2>6. SumFunctionOnSet(SeenIn(book, S), N) \in Int /\ SumFunctionOnSet(PaidIn(book, S), N) \in Int
    <3>1. \A j \in N : SeenIn(book, S)[j] \in Int /\ PaidIn(book, S)[j] \in Int
      BY <1>2, SeenTypes DEF BookType
    <3> QED
      BY <3>1, FewIds, SumType
  <2>7. /\ SumFunctionOnSet(SeenIn(book, T), N) = SumFunctionOnSet(SeenIn(book, S), N)
        /\ SumFunctionOnSet(PaidIn(book, T), N) = SumFunctionOnSet(PaidIn(book, S), N)
    <3>1. o.executed \in Int /\ o.quote \in Int
      BY <2>1, OrdersAssumption
    <3> HIDE DEF T
    <3> QED
      BY <2>5, <2>6, <3>1
  <2> HIDE DEF T
  <2>8. Elements(r.open) = {id \in N : HasRecord(T, id) \/ book[id].status = "working"}
    <3>1. Elements(r.open) = {id \in N : HasRecord(S, id) \/ book[id].status = "working"}
      BY <1>3 DEF Polls
    <3>2. book[p.id].status = "working"
      BY <2>1 DEF o
    <3>3. \A id \in N : HasRecord(T, id) \/ book[id].status = "working"
                     <=> HasRecord(S, id) \/ book[id].status = "working"
      BY <2>5, <3>2
    <3> QED
      BY <3>1, <3>3
  <2>9. Polls(book, N, r, T)
    BY <1>3, <2>7, <2>8 DEF Polls
  <2>10. \A id \in N : book[id].status = "working" => HasRecord(T, id)
    BY <1>1, <1>2, <2>5
  <2> QED
    BY <2>2, <2>4, <2>5, <2>9, <2>10 DEF PollState, T
<1> QED
  BY <1>5, <1>6, <1>7 DEF r, S

\* What a step of the poll leaves alone.
LEMMA PollSteps ==
  ASSUME OrdersInv, client = "mexc",
         UNCHANGED <<client, placed, book, userLink, userWire, fills, unanswered>>,
         pending' \in Seq(PollRecord), still' \in Seq(PollRecord),
         stage' # "polling" => still' = << >>,
         Distinct(pending' \o still'),
         PollState(book, Answered, account', Elements(pending' \o still'))
  PROVE  SessionTypes' /\ StreamInv' /\ PollInv'
<1>1. SessionTypes /\ BookType(book) /\ PlacedIds \subseteq Ids
  BY RestTyped DEF OrdersInv
<1>2. account' \in Account
  BY DEF PollState, Polls
<1>3. SessionTypes'
  <2>1. /\ userLink' \in BOOLEAN /\ userLink' = userLink /\ userWire' \in Seq(ReportOn(PlacedIds))
        /\ fills' \in Seq(ToldOf(PlacedIds)) /\ fills' = << >>
    BY <1>1 DEF SessionTypes
  <2> QED
    BY <1>1, <1>2, <2>1, TypesStay
<1>4. Answered' = Answered /\ Polling' = pending' \o still'
  BY DEF Answered, PlacedIds, Polling
<1>5. PollInv'
  BY <1>4 DEF PollInv, PollState
<1>6. StreamInv'
  BY DEF StreamInv
<1> QED
  BY <1>3, <1>5, <1>6

\* What is held while the poll runs.
LEMMA PollHolds ==
  ASSUME OrdersInv, stage = "polling"
  PROVE  /\ client = "mexc" /\ BookType(book) /\ Answered \subseteq Ids
         /\ pending \in Seq(PollRecord) /\ still \in Seq(PollRecord)
         /\ Distinct(Polling) /\ PollState(book, Answered, account, Elements(Polling))
<1>1. SessionTypes /\ BookType(book) /\ PlacedIds \subseteq Ids /\ PollInv
  BY RestTyped DEF OrdersInv
<1>2. client = "mexc" /\ pending \in Seq(PollRecord) /\ still \in Seq(PollRecord)
  BY <1>1 DEF SessionTypes
<1> QED
  BY <1>1, <1>2 DEF PollInv, PollState, Answered

\* A poll that is answered tells of what is new, and keeps what still works.
LEMMA PollOkLive ==
  ASSUME OrdersInv, PollOk
  PROVE  SessionTypes' /\ StreamInv' /\ PollInv'
<1> DEFINE p == Head(pending)
           K == PollRecord
           R == Elements(Polling)
           N == Answered
           x == Polled(p)
           r == Replay(account, PollEvents(p))
<1>1. /\ stage = "polling" /\ pending # << >> /\ account' = r
      /\ still' = IF Terminal(book[p.id].status) THEN still ELSE Append(still, x)
      /\ pending' = Tail(pending) /\ stage' = stage
      /\ UNCHANGED <<client, placed, book, userLink, userWire, fills, unanswered>>
  BY DEF PollOk, venueSide
<1>2. /\ client = "mexc" /\ BookType(book) /\ N \subseteq Ids
      /\ pending \in Seq(K) /\ still \in Seq(K)
      /\ Distinct(Polling) /\ PollState(book, N, account, R)
  BY <1>1, PollHolds
<1> HIDE DEF K, x, r
<1>3. /\ p \in K /\ p \in R
      /\ Tail(pending) \in Seq(K) /\ Tail(pending) \o still \in Seq(K)
      /\ Distinct(Tail(pending) \o still) /\ Elements(Tail(pending) \o still) = R \ {p}
      /\ \A y \in K : /\ Append(still, y) \in Seq(K)
                      /\ Elements(Tail(pending) \o Append(still, y)) = Elements(Tail(pending) \o still) \cup {y}
                      /\ y \notin Elements(Tail(pending) \o still) => Distinct(Tail(pending) \o Append(still, y))
  BY <1>1, <1>2, PollingShifts DEF Polling
<1> HIDE DEF p, R, N
<1>4. /\ r \in Account
      /\ Terminal(book[p.id].status) => PollState(book, N, r, R \ {p})
      /\ ~Terminal(book[p.id].status) =>
           x \in K /\ x \notin R \ {p} /\ PollState(book, N, r, (R \ {p}) \cup {x})
  BY <1>2, <1>3, PollSettles DEF r, x, K
<1>5. CASE Terminal(book[p.id].status)
  <2>1. still' = still /\ PollState(book, N, account', Elements(pending' \o still'))
        /\ Distinct(pending' \o still') /\ pending' \in Seq(K) /\ still' \in Seq(K)
    BY <1>1, <1>2, <1>3, <1>4, <1>5
  <2> QED
    BY <1>1, <1>2, <2>1, PollSteps DEF N, K
<1>6. CASE ~Terminal(book[p.id].status)
  <2>1. still' = Append(still, x) /\ PollState(book, N, account', Elements(pending' \o still'))
        /\ Distinct(pending' \o still') /\ pending' \in Seq(K) /\ still' \in Seq(K)
    BY <1>1, <1>2, <1>3, <1>4, <1>6
  <2> QED
    BY <1>1, <1>2, <2>1, PollSteps DEF N, K
<1> QED
  BY <1>5, <1>6

\* An order that could not be asked about keeps its record.
LEMMA PollFailsLive ==
  ASSUME OrdersInv, PollFails
  PROVE  SessionTypes' /\ StreamInv' /\ PollInv'
<1> DEFINE p == Head(pending)
           K == PollRecord
           R == Elements(Polling)
           N == Answered
<1>1. /\ stage = "polling" /\ pending # << >> /\ account' = account
      /\ still' = Append(still, p)
      /\ pending' = Tail(pending) /\ stage' = stage
      /\ UNCHANGED <<client, placed, book, userLink, userWire, fills, unanswered>>
  BY DEF PollFails, venueSide
<1>2. /\ client = "mexc" /\ BookType(book) /\ N \subseteq Ids
      /\ pending \in Seq(K) /\ still \in Seq(K)
      /\ Distinct(Polling) /\ PollState(book, N, account, R)
  BY <1>1, PollHolds
<1> HIDE DEF K
<1>3. /\ p \in K /\ p \in R
      /\ Tail(pending) \in Seq(K) /\ Tail(pending) \o still \in Seq(K)
      /\ Distinct(Tail(pending) \o still) /\ Elements(Tail(pending) \o still) = R \ {p}
      /\ \A y \in K : /\ Append(still, y) \in Seq(K)
                      /\ Elements(Tail(pending) \o Append(still, y)) = Elements(Tail(pending) \o still) \cup {y}
                      /\ y \notin Elements(Tail(pending) \o still) => Distinct(Tail(pending) \o Append(still, y))
  BY <1>1, <1>2, PollingShifts DEF Polling
<1> HIDE DEF p, R, N
<1>4. (R \ {p}) \cup {p} = R
  BY <1>3
<1>5. PollState(book, N, account', Elements(pending' \o still'))
      /\ Distinct(pending' \o still') /\ pending' \in Seq(K) /\ still' \in Seq(K)
  BY <1>1, <1>2, <1>3, <1>4
<1> QED
  BY <1>1, <1>2, <1>5, PollSteps DEF N, K

\* At its end what it kept is what there is to poll.
LEMMA PollDoneLive ==
  ASSUME OrdersInv, PollDone
  PROVE  SessionTypes' /\ StreamInv' /\ PollInv'
<1> DEFINE K == PollRecord
<1>1. /\ stage = "polling" /\ pending = << >> /\ account' = account
      /\ pending' = still /\ still' = << >> /\ stage' = "draining"
      /\ UNCHANGED <<client, placed, book, userLink, userWire, fills, unanswered>>
  BY DEF PollDone, venueSide
<1>2. /\ client = "mexc" /\ BookType(book) /\ Answered \subseteq Ids
      /\ pending \in Seq(K) /\ still \in Seq(K)
      /\ Distinct(Polling) /\ PollState(book, Answered, account, Elements(Polling))
  BY <1>1, PollHolds
<1> HIDE DEF K
<1>3. Polling = still /\ pending' \o still' = still /\ pending' \in Seq(K) /\ still' \in Seq(K)
  BY <1>1, <1>2 DEF Polling
<1>4. PollState(book, Answered, account', Elements(pending' \o still')) /\ Distinct(pending' \o still')
  BY <1>1, <1>2, <1>3
<1> QED
  BY <1>1, <1>2, <1>3, <1>4, PollSteps DEF K

\* Steps that leave the orders and the account alone.
LEMMA OtherLive ==
  ASSUME OrdersInv, Pull \/ Observe \/ DrainDone \/ UNCHANGED orderVars
  PROVE  SessionTypes' /\ StreamInv' /\ PollInv'
<1>1. /\ SessionTypes
      /\ stage # "polling" => still = << >>
      /\ client # "mexc" => stage # "polling"
  BY DEF OrdersInv, SessionTypes
<1>2. CASE Pull
  BY <1>1, <1>2, QuietLive DEF Pull
<1>3. CASE Observe
  <2>1. /\ stage = "waiting" /\ stage' \in {"deciding", "draining", "polling"}
        /\ client # "mexc" => stage' # "polling"
        /\ UNCHANGED <<client, placed, asked, venueSide, clientSide, account, unanswered>>
    BY <1>3 DEF Observe, ObserveStage
  <2> QED
    BY <1>1, <2>1, QuietLive
<1>4. CASE DrainDone
  BY <1>1, <1>4, QuietLive DEF DrainDone
<1>5. CASE UNCHANGED orderVars
  <2>1. /\ stage' = stage
        /\ UNCHANGED <<client, placed, asked, venueSide, clientSide, account, unanswered>>
    BY <1>5 DEF orderVars
  <2> QED
    BY <1>1, <2>1, QuietLive
<1> QED
  BY <1>2, <1>3, <1>4, <1>5

\* Every step of a session keeps the invariant.
LEMMA NextLive == OrdersInv /\ [Next]_vars => OrdersInv'
<1> SUFFICES ASSUME OrdersInv, [Next]_vars PROVE OrdersInv'
  OBVIOUS
<1>1. BookKept'
  BY NextKeeps DEF OrdersInv
<1>2. SessionTypes' /\ StreamInv' /\ PollInv'
  <2>1. \/ SubmitRefused \/ SubmitTaken
        \/ PollOk \/ PollFails \/ PollDone \/ DrainFill
        \/ UserLinkDrops \/ ReadReport
        \/ \E id \in Ids : VenueTrades(id) \/ VenueCancels(id)
        \/ Pull \/ Observe \/ DrainDone \/ UNCHANGED orderVars
    BY DEF Next, vars, EngineThread, Orders, Venue
  <2>2. CASE \E id \in Ids : VenueTrades(id) \/ VenueCancels(id)
    BY <2>2, VenueTradesLive, VenueCancelsLive
  <2>3. CASE SubmitRefused \/ SubmitTaken
    BY <2>3, RefusedLive, TakenLive
  <2>4. CASE PollOk \/ PollFails \/ PollDone
    BY <2>4, PollOkLive, PollFailsLive, PollDoneLive
  <2>5. CASE DrainFill \/ UserLinkDrops \/ ReadReport
    BY <2>5, DrainFillLive, UserLinkDropsLive, ReadReportLive
  <2>6. CASE Pull \/ Observe \/ DrainDone \/ UNCHANGED orderVars
    BY <2>6, OtherLive
  <2> QED
    BY <2>1, <2>2, <2>3, <2>4, <2>5, <2>6
<1> QED
  BY <1>1, <1>2 DEF OrdersInv

\* Whatever the requests, the quantity and the prices, and however the venue,
\* the socket and the poll take turns: with what is on its way the account holds
\* what the known orders have bought and has paid what that cost, but for less
\* than a unit a lot where a poll rounds; and it never holds more.
THEOREM PositionStaysTrue == Spec => []PositionTrue
<1>1. OrdersInv => PositionTrue
  BY OrdersTrue
<1> QED
  BY <1>1, InitLive, NextLive, PTL DEF Spec

\* In the same runs the open orders the engine shows are, once that has come,
\* the known ones that work at the venue.
THEOREM OpenStaysTrue == Spec => []OpenTrue
<1>1. OrdersInv => OpenTrue
  BY OrdersTrue
<1> QED
  BY <1>1, InitLive, NextLive, PTL DEF Spec
=============================================================================

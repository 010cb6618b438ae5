---------------------------- MODULE EngineProofs ----------------------------
(***************************************************************************)
(* Proofs about EngineLoop, for any strategy, bars and constants: the      *)
(* account the strategy reads reconciles with itself and, once the events  *)
(* under way are delivered, with the venue's; what it holds has a mark;    *)
(* and no timer or order asked for inside a callback is lost.              *)
(*                                                                         *)
(* The loop calls the venue with events of earlier calls still in the      *)
(* sink, so the venue's invariants are taken from the lemmas about         *)
(* VenueStep, which do not care what is in it.                             *)
(***************************************************************************)
EXTENDS EngineLoop, SimulatedExchangeProofs, SequenceTheorems

-----------------------------------------------------------------------------
(* The account and its events *)

PortfolioOf ==
  [cash : Int, realized : Int, tradingFees : Int, fundingNet : Int,
   liquidationPnl : Int, rounding : Int, positions : [Instruments -> Position],
   held : SUBSET Instruments, open : Seq(Ids)]

FillEvent ==
  [type : {"Fill"}, id : Ids, instrument : Instruments, side : Int, price : Int,
   qty : Int, fee : Int, complete : BOOLEAN]
LiquidationEvent ==
  [type : {"Liquidation"}, instrument : Instruments, side : Int, price : Int,
   qty : Int, fee : Int]
OrderEvent ==
  [type : {"OrderAccepted", "OrderRejected", "OrderTriggered", "OrderCancelRejected",
           "OrderExpired"}, id : Ids]
CancelReasons == {"Requested", "VenueCanceled", "OcoTriggered"}
CancelEvent  == [type : {"OrderCanceled"}, id : Ids, reason : CancelReasons]
FundingEvent == [type : {"FundingSettlement"}, instrument : Instruments, cost : Int]

AccountEvent ==
  FillEvent \cup LiquidationEvent \cup OrderEvent \cup CancelEvent \cup FundingEvent
    \cup {Resync}

IsTrade(e) == e.type \in {"Fill", "Liquidation"}

\* They are the accounts and fills of OperatorProofs.
LEMMA AccountsHere ==
  PortfolioOf = Accounts(Instruments, Ids) /\ FillEvent = FillEvents(Instruments, Ids)
BY DEF PortfolioOf, Accounts, FillEvent, FillEvents

\* What a trade leaves of the account, whatever its numbers.
LEMMA SettleFacts ==
  ASSUME NEW p \in PortfolioOf, NEW e, e.instrument \in Instruments, e.side \in Int,
         e.price \in Int, e.qty \in Int, e.fee \in Int
  PROVE  LET pos    == p.positions[e.instrument]
             signed == e.side * e.qty
             net    == pos.net + signed
             avg    == NewAvg(pos.net, pos.avg, signed, e.price)
             q      == Settle(p, e)
         IN  /\ q \in PortfolioOf
             /\ pos.net \in Int /\ pos.avg \in Int /\ signed \in Int
             /\ q.positions = [p.positions EXCEPT ![e.instrument] = [net |-> net, avg |-> avg]]
             /\ q.cash = p.cash - e.side * Notional(e.price, e.qty) - e.fee
             /\ q.realized = p.realized + RealizedBy(pos.net, pos.avg, signed, e.price)
             /\ q.tradingFees = p.tradingFees + e.fee
             /\ q.fundingNet = p.fundingNet
             /\ q.rounding = p.rounding + RoundingBy(pos.net, pos.avg, signed, e.price)
             /\ q.held = IF (pos.net # 0) = (net # 0) THEN p.held
                         ELSE IF net # 0 THEN p.held \cup {e.instrument}
                         ELSE p.held \ {e.instrument}
             /\ q.open = p.open
<1>1. p \in Accounts(Instruments, Ids)
  BY AccountsHere
<1>2. /\ e.instrument \in Instruments /\ e.side \in Int /\ e.price \in Int
      /\ e.qty \in Int /\ e.fee \in Int
  OBVIOUS
<1>3. Settle(p, e) \in Accounts(Instruments, Ids) /\ Settles(p, e, Settle(p, e))
  BY <1>1, <1>2, SettledAccount
<1> QED
  BY <1>3, AccountsHere DEF Settles

\* What is left of the open orders once one of them is closed.
LEMMA CloseOrderFacts ==
  ASSUME NEW p \in PortfolioOf, NEW id
  PROVE  /\ CloseOrder(p, id) \in PortfolioOf
         /\ \E open \in Seq(Ids) :
              /\ CloseOrder(p, id) = [p EXCEPT !.open = open]
              /\ Elements(open) = Elements(p.open) \ {id}
              /\ Distinct(p.open) => Distinct(open)
BY AccountsHere, ClosedAccount

\* A fill settles the account, and closes its order if it completes it.
LEMMA FillFacts ==
  ASSUME NEW p \in PortfolioOf, NEW e \in FillEvent
  PROVE  /\ Settle(p, e) \in PortfolioOf /\ Apply(p, e) \in PortfolioOf
         /\ \E open \in Seq(Ids) :
              /\ Apply(p, e) = [Settle(p, e) EXCEPT !.open = open]
              /\ Elements(open) = IF e.complete THEN Elements(p.open) \ {e.id} ELSE Elements(p.open)
              /\ Distinct(p.open) => Distinct(open)
<1>1. p \in Accounts(Instruments, Ids) /\ e \in FillEvents(Instruments, Ids)
  BY AccountsHere
<1>2. /\ Settle(p, e) \in Accounts(Instruments, Ids) /\ Apply(p, e) \in Accounts(Instruments, Ids)
      /\ FillApplied(p, e, Ids)
  BY <1>1, FilledAccount
<1> QED
  BY <1>2, AccountsHere DEF FillApplied

\* So does a forced close, but for its tally, and it closes no order.
LEMMA LiquidationFacts ==
  ASSUME NEW p \in PortfolioOf, NEW e \in LiquidationEvent
  PROVE  /\ Settle(p, e) \in PortfolioOf /\ Apply(p, e) \in PortfolioOf
         /\ \E pnl \in Int : Apply(p, e) = [Settle(p, e) EXCEPT !.liquidationPnl = pnl]
<1> DEFINE q   == Settle(p, e)
           pnl == q.liquidationPnl + (q.realized - p.realized)
<1>1. q \in PortfolioOf
  BY SettleFacts DEF LiquidationEvent
<1>2. Apply(p, e) = [q EXCEPT !.liquidationPnl = pnl]
  BY ApplyCases DEF LiquidationEvent, ApplyLiquidation
<1> HIDE DEF q
<1>3. q.liquidationPnl \in Int /\ q.realized \in Int /\ p.realized \in Int
  BY <1>1 DEF PortfolioOf
<1>4. pnl \in Int
  BY <1>3
<1> HIDE DEF pnl
<1>5. Apply(p, e) \in PortfolioOf
  BY <1>1, <1>2, <1>4 DEF PortfolioOf
<1> QED
  BY <1>1, <1>2, <1>4, <1>5 DEF q

\* Applying an event to an account leaves an account.
LEMMA ApplyType == ClosedUnder(PortfolioOf, AccountEvent)
<1> SUFFICES ASSUME NEW p \in PortfolioOf, NEW e \in AccountEvent
             PROVE  Apply(p, e) \in PortfolioOf
  BY DEF ClosedUnder
<1>1. CASE e \in FillEvent
  BY <1>1, FillFacts
<1>2. CASE e \in LiquidationEvent
  BY <1>2, LiquidationFacts
<1>3. CASE e \in OrderEvent
  <2>1. p.open \in Seq(Ids) /\ e.id \in Ids
    BY <1>3 DEF PortfolioOf, OrderEvent
  <2>2. Append(p.open, e.id) \in Seq(Ids)
    BY <2>1
  <2>3. OpenOrder(p, e.id) \in PortfolioOf
    BY <2>2 DEF OpenOrder, PortfolioOf
  <2> QED
    BY <1>3, <2>3, ApplyCases, CloseOrderFacts DEF OrderEvent
<1>4. CASE e \in CancelEvent
  BY <1>4, ApplyCases, CloseOrderFacts DEF CancelEvent
<1>5. CASE e \in FundingEvent
  <2>1. p.cash \in Int /\ p.fundingNet \in Int /\ e.cost \in Int
    BY <1>5 DEF PortfolioOf, FundingEvent
  <2>2. p.cash - e.cost \in Int /\ p.fundingNet + e.cost \in Int
    BY <2>1
  <2>3. ApplyFunding(p, e) \in PortfolioOf
    BY <2>2 DEF ApplyFunding, PortfolioOf
  <2> QED
    BY <1>5, <2>3, ApplyCases DEF FundingEvent
<1>6. CASE e = Resync
  BY <1>6, ApplyCases DEF Resync
<1> QED
  BY <1>1, <1>2, <1>3, <1>4, <1>5, <1>6 DEF AccountEvent

-----------------------------------------------------------------------------
(* The balance of an account                                                *)
(*                                                                          *)
(* CashReconciles says that what an account holds and has spent is what it  *)
(* opened with.  Every event keeps the difference: a trade that opens pays  *)
(* its notional for as much cost; one that closes turns cost and profit     *)
(* into cash; one that flips does both.                                     *)

Cost(p, i) == p.positions[i].net * p.positions[i].avg
Costs(p)   == [i \in Instruments |-> Cost(p, i)]

Balance(p) ==
  p.cash + SumFunctionOnSet(Costs(p), Instruments)
    - p.realized + p.tradingFees + p.fundingNet - p.rounding

\* What a trade adds to the cost of the position is what it pays, and the
\* profit it realizes, and what rounding the average adds.
LEMMA TradeBalances ==
  ASSUME NEW net \in Int, NEW avg \in Int, NEW signed \in Int, NEW price \in Int
  PROVE  (net + signed) * NewAvg(net, avg, signed, price) - net * avg =
           signed * price + RealizedBy(net, avg, signed, price) + RoundingBy(net, avg, signed, price)
<1> DEFINE net1  == net + signed
           avg1  == NewAvg(net, avg, signed, price)
           gain  == RealizedBy(net, avg, signed, price)
           round == RoundingBy(net, avg, signed, price)
           Goal  == net1 * avg1 - net * avg = signed * price + gain + round
<1>1. net1 \in Int /\ avg1 \in Int /\ gain \in Int /\ round \in Int
  BY TradeType
<1>2. net1 * avg1 \in Int /\ net * avg \in Int /\ signed * price \in Int
      /\ net * price \in Int /\ signed * avg \in Int
  BY <1>1, IntTimes
<1>3. CASE Opens(net, signed)
  <2>1. gain = 0 /\ round = net1 * avg1 - net * avg - signed * price
    BY <1>3 DEF RealizedBy, RoundingBy
  <2> HIDE DEF avg1, gain, net1, round
  <2>2. Goal
    BY <1>2, <2>1
  <2> QED
    BY <2>2 DEF avg1, gain, net1, round
<1>4. CASE ~Opens(net, signed) /\ signed = 0
  <2>1. net1 = net /\ avg1 = avg /\ gain = 0 /\ round = 0
    BY <1>4 DEF RealizedBy, RoundingBy, NewAvg
  <2>2. signed * price = 0
    BY <1>4
  <2> HIDE DEF net1, avg1, gain, round
  <2>3. Goal
    BY <1>2, <2>1, <2>2
  <2> QED
    BY <2>3 DEF avg1, gain, net1, round
<1>5. CASE ~Opens(net, signed) /\ signed # 0
  <2>1. /\ net # 0 /\ (net > 0 => signed < 0) /\ (net < 0 => signed > 0)
    <3>1. net # 0 /\ (net > 0) # (signed > 0)
      BY <1>5 DEF Opens
    <3>2. CASE net > 0
      BY <1>5, <3>1, <3>2
    <3>3. CASE ~(net > 0)
      BY <1>5, <3>1, <3>3
    <3> QED
      BY <3>2, <3>3
  <2>2. gain = Lesser(Abs(net), Abs(signed)) * (price - avg) * Sign(net) /\ round = 0
    BY <1>5 DEF RealizedBy, RoundingBy
  <2>3. avg1 = IF net1 = 0 THEN 0 ELSE IF Sign(net1) # Sign(net) THEN price ELSE avg
    BY <1>5 DEF AvgAfter, NewAvg
  <2>4. CASE net1 = 0 \/ Sign(net1) # Sign(net)
    <3>1. Lesser(Abs(net), Abs(signed)) = Abs(net)
      BY <2>1, <2>4 DEF Lesser, Abs, Sign
    <3>2. gain = Abs(net) * (price - avg) * Sign(net)
      BY <2>2, <3>1
    <3>3. gain = net * (price - avg)
      BY <2>1, <3>2 DEF Abs, Sign
    <3>4. net * (price - avg) = net * price - net * avg
      OBVIOUS
    <3>5. net1 * avg1 = net1 * price
      BY <2>3, <2>4
    <3>6. net1 * price = net * price + signed * price
      OBVIOUS
    <3> HIDE DEF net1, avg1, gain, round
    <3>7. Goal
      BY <1>2, <2>2, <3>3, <3>4, <3>5, <3>6
    <3> QED
      BY <3>7 DEF avg1, gain, net1, round
  <2>5. CASE net1 # 0 /\ Sign(net1) = Sign(net)
    <3>1. Lesser(Abs(net), Abs(signed)) = Abs(signed)
      BY <2>1, <2>5 DEF Lesser, Abs, Sign
    <3>2. gain = Abs(signed) * (price - avg) * Sign(net)
      BY <2>2, <3>1
    <3>3. gain = -signed * (price - avg)
      BY <2>1, <3>2 DEF Abs, Sign
    <3>4. -signed * (price - avg) = signed * avg - signed * price
      OBVIOUS
    <3>5. net1 * avg1 = net * avg + signed * avg
      BY <2>3, <2>5
    <3> HIDE DEF net1, avg1, gain, round
    <3>6. Goal
      BY <1>2, <2>2, <3>3, <3>4, <3>5
    <3> QED
      BY <3>6 DEF avg1, gain, net1, round
  <2> QED
    BY <2>4, <2>5
<1> QED
  BY <1>3, <1>4, <1>5

\* Every event leaves the balance of the account as it was.
LEMMA ApplyBalance ==
  ASSUME NEW p \in PortfolioOf, NEW e \in AccountEvent
  PROVE  Balance(Apply(p, e)) = Balance(p)
<1>1. ASSUME NEW q \in PortfolioOf
      PROVE  /\ \A i \in Instruments : Costs(q)[i] = Cost(q, i) /\ Cost(q, i) \in Int
             /\ SumFunctionOnSet(Costs(q), Instruments) \in Int
             /\ q.cash \in Int /\ q.realized \in Int /\ q.tradingFees \in Int
             /\ q.fundingNet \in Int /\ q.rounding \in Int
  <2>1. \A i \in Instruments : Costs(q)[i] = Cost(q, i)
    BY DEF Costs
  <2>2. \A i \in Instruments : Cost(q, i) \in Int
    <3>1. \A i \in Instruments : q.positions[i].net \in Int /\ q.positions[i].avg \in Int
      BY DEF PortfolioOf, Position
    <3> QED
      BY <3>1, IntTimes DEF Cost
  <2>3. SumFunctionOnSet(Costs(q), Instruments) \in Int
    BY <2>1, <2>2, SumType, EngineAssumption
  <2> QED
    BY <2>1, <2>2, <2>3 DEF PortfolioOf
<1>2. ASSUME NEW q \in PortfolioOf, q.positions = p.positions, q.cash - q.realized + q.tradingFees
               + q.fundingNet - q.rounding
                 = p.cash - p.realized + p.tradingFees + p.fundingNet - p.rounding
      PROVE  Balance(q) = Balance(p)
  <2>1. Costs(q) = Costs(p)
    BY <1>2 DEF Costs, Cost
  <2> QED
    BY <1>1, <1>2, <2>1 DEF Balance
<1>3. ASSUME IsTrade(e)
      PROVE  Balance(Settle(p, e)) = Balance(p) /\ Settle(p, e) \in PortfolioOf
  <2> DEFINE i      == e.instrument
             pos    == p.positions[i]
             signed == e.side * e.qty
             net    == pos.net + signed
             avg    == NewAvg(pos.net, pos.avg, signed, e.price)
             gain   == RealizedBy(pos.net, pos.avg, signed, e.price)
             round  == RoundingBy(pos.net, pos.avg, signed, e.price)
             paid   == e.side * Notional(e.price, e.qty)
             q      == Settle(p, e)
  <2>1. /\ i \in Instruments /\ e.side \in Int /\ e.price \in Int /\ e.qty \in Int
        /\ e.fee \in Int
    BY <1>3 DEF AccountEvent, IsTrade, FillEvent, LiquidationEvent, OrderEvent, CancelEvent,
                FundingEvent, Resync
  <2>2. /\ q \in PortfolioOf
        /\ pos.net \in Int /\ pos.avg \in Int /\ signed \in Int
        /\ q.positions = [p.positions EXCEPT ![i] = [net |-> net, avg |-> avg]]
        /\ q.cash = p.cash - paid - e.fee
        /\ q.realized = p.realized + gain
        /\ q.tradingFees = p.tradingFees + e.fee
        /\ q.fundingNet = p.fundingNet
        /\ q.rounding = p.rounding + round
    BY <2>1, SettleFacts
  <2> HIDE DEF q, pos, signed
  <2>3. avg \in Int /\ gain \in Int /\ round \in Int /\ net \in Int
    <3>1. net \in Int
      BY <2>2
    <3>2. avg \in Int /\ gain \in Int /\ round \in Int
      BY <2>1, <2>2, TradeType
    <3> QED
      BY <3>1, <3>2
  <2> DEFINE costAfter  == net * avg
             costBefore == pos.net * pos.avg
             value      == signed * e.price
  <2>4. costAfter - costBefore = value + gain + round
    <3>1. PICK n \in Int, a \in Int, d \in Int, c \in Int :
            n = pos.net /\ a = pos.avg /\ d = signed /\ c = e.price
      BY <2>1, <2>2
    <3>2. (n + d) * NewAvg(n, a, d, c) - n * a = d * c + RealizedBy(n, a, d, c) + RoundingBy(n, a, d, c)
      BY TradeBalances
    <3> QED
      BY <3>1, <3>2
  <2>5. paid = value
    <3>1. \A s, x, y \in Int : s * (x * y) = s * y * x
      OBVIOUS
    <3>2. paid = e.side * (e.price * e.qty)
      BY DEF Notional
    <3>4. e.side * (e.price * e.qty) = e.side * e.qty * e.price
      BY <2>1, <3>1
    <3>5. signed = e.side * e.qty
      BY DEF signed
    <3> QED
      BY <3>2, <3>4, <3>5, Zenon
  <2>6. costAfter \in Int /\ costBefore \in Int /\ value \in Int
    BY <2>1, <2>2, <2>3, IntTimes
  <2> HIDE DEF net, avg, gain, round, paid
  <2>7. Costs(q)[i] = costAfter /\ Costs(p)[i] = costBefore
    <3>1. q.positions[i] = [net |-> net, avg |-> avg]
      BY <2>1, <2>2 DEF PortfolioOf
    <3>2. q.positions[i].net = net /\ q.positions[i].avg = avg
      BY <3>1
    <3>3. Cost(q, i) = costAfter
      BY <3>2, Zenon DEF Cost
    <3>4. Cost(p, i) = costBefore
      BY Zenon DEF Cost, pos
    <3> QED
      BY <1>1, <2>1, <2>2, <3>3, <3>4
  <2>8. \A j \in Instruments \ {i} : Costs(q)[j] = Costs(p)[j]
    BY <2>1, <2>2 DEF Costs, Cost, PortfolioOf
  <2>9. SumFunctionOnSet(Costs(q), Instruments) =
          SumFunctionOnSet(Costs(p), Instruments) - Costs(p)[i] + Costs(q)[i]
    BY <1>1, <2>1, <2>2, <2>8, SumChange, EngineAssumption
  <2> HIDE DEF costAfter, costBefore, value, i
  <2> DEFINE sumAfter == SumFunctionOnSet(Costs(q), Instruments)
             sumBefore == SumFunctionOnSet(Costs(p), Instruments)
  <2>10. sumAfter = sumBefore - costBefore + costAfter
    BY <2>7, <2>9
  <2>11. sumAfter \in Int /\ sumBefore \in Int
    BY <1>1, <2>2
  <2> HIDE DEF sumAfter, sumBefore
  <2>12. q.cash + sumAfter - q.realized + q.tradingFees + q.fundingNet - q.rounding
           = p.cash + sumBefore - p.realized + p.tradingFees + p.fundingNet - p.rounding
    <3>1. /\ p.cash \in Int /\ p.realized \in Int /\ p.tradingFees \in Int
          /\ p.fundingNet \in Int /\ p.rounding \in Int
      BY <1>1
    <3> QED
      BY <2>1, <2>2, <2>3, <2>4, <2>5, <2>6, <2>10, <2>11, <3>1
  <2> QED
    BY <2>2, <2>12 DEF Balance, q, sumAfter, sumBefore
<1>4. CASE e \in FillEvent
  <2>1. Balance(Settle(p, e)) = Balance(p) /\ Settle(p, e) \in PortfolioOf
    BY <1>3, <1>4 DEF FillEvent, IsTrade
  <2>2. PICK open \in Seq(Ids) : Apply(p, e) = [Settle(p, e) EXCEPT !.open = open]
    BY <1>4, FillFacts
  <2>3. Balance(Apply(p, e)) = Balance(Settle(p, e))
    BY <2>1, <2>2 DEF Balance, Costs, Cost, PortfolioOf
  <2> QED
    BY <2>1, <2>3
<1>5. CASE e \in LiquidationEvent
  <2>1. Balance(Settle(p, e)) = Balance(p) /\ Settle(p, e) \in PortfolioOf
    BY <1>3, <1>5 DEF LiquidationEvent, IsTrade
  <2>2. PICK pnl \in Int : Apply(p, e) = [Settle(p, e) EXCEPT !.liquidationPnl = pnl]
    BY <1>5, LiquidationFacts
  <2>3. Balance(Apply(p, e)) = Balance(Settle(p, e))
    BY <2>1, <2>2 DEF Balance, Costs, Cost, PortfolioOf
  <2> QED
    BY <2>1, <2>3
<1>6. CASE e \in FundingEvent
  <2>1. Apply(p, e) = [p EXCEPT !.cash = @ - e.cost, !.fundingNet = @ + e.cost] /\ e.cost \in Int
    BY <1>6, ApplyCases DEF FundingEvent, ApplyFunding
  <2>2. Apply(p, e) \in PortfolioOf
    BY ApplyType DEF ClosedUnder
  <2> DEFINE q == Apply(p, e)
  <2>3. /\ q.positions = p.positions /\ q.cash = p.cash - e.cost /\ q.realized = p.realized
        /\ q.tradingFees = p.tradingFees /\ q.fundingNet = p.fundingNet + e.cost
        /\ q.rounding = p.rounding
    BY <2>1 DEF PortfolioOf
  <2> HIDE DEF q
  <2>4. q.cash - q.realized + q.tradingFees + q.fundingNet - q.rounding
          = p.cash - p.realized + p.tradingFees + p.fundingNet - p.rounding
    BY <1>1, <2>1, <2>3
  <2>5. q \in PortfolioOf
    BY <2>2 DEF q
  <2>6. Balance(q) = Balance(p)
    BY <1>2, <2>3, <2>4, <2>5, Zenon
  <2> QED
    BY <2>6 DEF q
<1>7. CASE e \in OrderEvent \cup CancelEvent \cup {Resync}
  <2>1. Apply(p, e) = p \/ \E open : Apply(p, e) = [p EXCEPT !.open = open]
    <3>1. e.type \in {"OrderAccepted", "OrderCanceled", "OrderRejected", "OrderExpired",
                      "OrderTriggered", "OrderCancelRejected", "Resync"}
      BY <1>7 DEF OrderEvent, CancelEvent, Resync
    <3>2. e.type = "OrderAccepted" =>
            Apply(p, e) = [p EXCEPT !.open = Append(p.open, e.id)]
      BY ApplyCases DEF OpenOrder
    <3>3. e.type \in {"OrderCanceled", "OrderRejected", "OrderExpired"} =>
            \E open : Apply(p, e) = [p EXCEPT !.open = open]
      <4>1. \E open : CloseOrder(p, e.id) = [p EXCEPT !.open = open]
        BY CloseOrderFacts
      <4> QED
        BY <4>1, ApplyCases
    <3> QED
      BY <3>1, <3>2, <3>3, ApplyCases
  <2>2. Apply(p, e) \in PortfolioOf
    BY ApplyType DEF ClosedUnder
  <2> DEFINE q == Apply(p, e)
  <2>3. /\ q.positions = p.positions /\ q.cash = p.cash /\ q.realized = p.realized
        /\ q.tradingFees = p.tradingFees /\ q.fundingNet = p.fundingNet
        /\ q.rounding = p.rounding
    BY <2>1 DEF PortfolioOf
  <2> HIDE DEF q
  <2> QED
    BY <1>2, <2>2, <2>3 DEF q
<1> QED
  BY <1>4, <1>5, <1>6, <1>7 DEF AccountEvent

-----------------------------------------------------------------------------
(* What the venue's events tell of its state                                *)
(*                                                                          *)
(* An account follows the venue when it has its positions, its cash and its *)
(* open orders.  Every call of the venue emits events that take an account  *)
(* that followed it before the call to one that follows it after.           *)

Follows(q) ==
  /\ \A i \in Instruments : q.positions[i] = [net |-> shadow[i].net, avg |-> shadow[i].avg]
  /\ cash # None => q.cash = cash
  /\ Distinct(q.open) /\ Elements(q.open) = OpenIds

\* Trades are told while a bar is observed, and of its instrument.
Tells(events) ==
  /\ events \in Seq(AccountEvent) /\ sink' = sink \o events
  /\ \A n \in DOMAIN events :
       IsTrade(events[n]) => bar # None /\ events[n].instrument = bar.instrument
  /\ \A q \in PortfolioOf : Follows(q) => Follows(Replay(q, events))'

PositionsStay ==
  \A i \in Instruments : shadow'[i].net = shadow[i].net /\ shadow'[i].avg = shadow[i].avg

\* The account with its orders changed follows the venue if they are its
\* orders, and nothing else of the venue has moved.
LEMMA OrdersFollow ==
  ASSUME NEW q, NEW r, Follows(q), PositionsStay, cash' = cash,
         r.positions = q.positions, r.cash = q.cash,
         Distinct(r.open), Elements(r.open) = OpenIds'
  PROVE  Follows(r)'
BY DEF Follows, PositionsStay

\* An account still follows a venue whose positions, cash and open orders stay.
LEMMA SameFollows ==
  ASSUME PositionsStay, cash' = cash, OpenIds' = OpenIds, NEW q, Follows(q)
  PROVE  Follows(q)'
BY DEF Follows, PositionsStay

\* An account that closes an order follows a venue that does nothing else.
LEMMA CloseFollows ==
  ASSUME PositionsStay, cash' = cash, NEW id \in Ids, OpenIds' = OpenIds \ {id},
         NEW q \in PortfolioOf, Follows(q)
  PROVE  Follows(CloseOrder(q, id))'
<1>1. PICK open \in Seq(Ids) :
        /\ CloseOrder(q, id) = [q EXCEPT !.open = open]
        /\ Elements(open) = Elements(q.open) \ {id}
        /\ Distinct(q.open) => Distinct(open)
  BY CloseOrderFacts
<1> DEFINE r == CloseOrder(q, id)
<1>2. r.positions = q.positions /\ r.cash = q.cash /\ r.open = open
  BY <1>1 DEF PortfolioOf
<1>3. Distinct(r.open) /\ Elements(r.open) = OpenIds'
  BY <1>1, <1>2 DEF Follows
<1> HIDE DEF r
<1>4. Follows(r)'
  BY <1>2, <1>3, OrdersFollow
<1> QED
  BY <1>4 DEF r

\* An account that opens an order follows a venue that does nothing else.
LEMMA OpenFollows ==
  ASSUME PositionsStay, cash' = cash, NEW id \in Ids, id \notin OpenIds,
         OpenIds' = OpenIds \cup {id}, NEW q \in PortfolioOf, Follows(q)
  PROVE  Follows(OpenOrder(q, id))'
<1>1. q.open \in Seq(Ids)
  BY DEF PortfolioOf
<1>2. /\ Elements(Append(q.open, id)) = Elements(q.open) \cup {id}
      /\ Distinct(Append(q.open, id))
  BY <1>1, AppendElements, AppendDistinct DEF Follows
<1> DEFINE r == OpenOrder(q, id)
<1>3. r.positions = q.positions /\ r.cash = q.cash /\ r.open = Append(q.open, id)
  BY DEF PortfolioOf, OpenOrder
<1>4. Distinct(r.open) /\ Elements(r.open) = OpenIds'
  BY <1>2, <1>3 DEF Follows
<1> HIDE DEF r
<1>5. Follows(r)'
  BY <1>3, <1>4, OrdersFollow
<1> QED
  BY <1>5 DEF r

\* The events about an order are account events, and none is a trade.
LEMMA OrderEvents ==
  ASSUME NEW id \in Ids
  PROVE  /\ \A e \in {Accepted(id), Rejected(id), Triggered(id), CancelRejected(id), Expired(id)} :
              e \in AccountEvent /\ ~IsTrade(e) /\ e.id = id
         /\ \A why \in CancelReasons : Canceled(id, why) \in AccountEvent /\ ~IsTrade(Canceled(id, why))
         /\ \A q : /\ Apply(q, Accepted(id)) = OpenOrder(q, id)
                   /\ Apply(q, Rejected(id)) = CloseOrder(q, id)
                   /\ Apply(q, Expired(id)) = CloseOrder(q, id)
                   /\ Apply(q, Triggered(id)) = q
                   /\ Apply(q, CancelRejected(id)) = q
                   /\ \A why : Apply(q, Canceled(id, why)) = CloseOrder(q, id)
<1>1. \A e \in {Accepted(id), Rejected(id), Triggered(id), CancelRejected(id), Expired(id)} :
        e \in OrderEvent /\ ~IsTrade(e) /\ e.id = id
  BY DEF Accepted, Rejected, Triggered, CancelRejected, Expired, OrderEvent, IsTrade
<1>2. \A why \in CancelReasons : Canceled(id, why) \in CancelEvent /\ ~IsTrade(Canceled(id, why))
  BY DEF Canceled, CancelEvent, IsTrade
<1>3. ASSUME NEW q
      PROVE  /\ Apply(q, Accepted(id)) = OpenOrder(q, id)
             /\ Apply(q, Rejected(id)) = CloseOrder(q, id)
             /\ Apply(q, Expired(id)) = CloseOrder(q, id)
             /\ Apply(q, Triggered(id)) = q
             /\ Apply(q, CancelRejected(id)) = q
             /\ \A why : Apply(q, Canceled(id, why)) = CloseOrder(q, id)
  BY ApplyCases DEF Accepted, Rejected, Triggered, CancelRejected, Expired, Canceled
<1> QED
  BY <1>1, <1>2, <1>3 DEF AccountEvent

\* Nothing is told, and nothing needs to be.
LEMMA TellsNothing ==
  ASSUME sink \in Seq(AccountEvent), sink' = sink, PositionsStay, cash' = cash,
         OpenIds' = OpenIds
  PROVE  Tells(<< >>)
<1>1. << >> \in Seq(AccountEvent) /\ sink \o << >> = sink /\ DOMAIN << >> = {}
  OBVIOUS
<1>2. \A q \in PortfolioOf : Replay(q, << >>) = q
  BY ApplyType, ReplayNone
<1> QED
  BY <1>1, <1>2, SameFollows DEF Tells

\* One event is told.
LEMMA TellsOne ==
  ASSUME sink \in Seq(AccountEvent), NEW e \in AccountEvent, sink' = Append(sink, e),
         IsTrade(e) => bar # None /\ e.instrument = bar.instrument,
         \A q \in PortfolioOf : Follows(q) => Follows(Apply(q, e))'
  PROVE  Tells(<<e>>)
<1>1. <<e>> \in Seq(AccountEvent) /\ sink \o <<e>> = Append(sink, e) /\ DOMAIN <<e>> = {1}
      /\ <<e>>[1] = e
  OBVIOUS
<1>2. \A q \in PortfolioOf : Replay(q, <<e>>) = Apply(q, e)
  BY ApplyType, ReplayOne
<1> QED
  BY <1>1, <1>2 DEF Tells

\* An order is told of, and then of its end.
LEMMA TellsTwo ==
  ASSUME sink \in Seq(AccountEvent), NEW d \in AccountEvent, NEW e \in AccountEvent,
         sink' = sink \o <<d, e>>, ~IsTrade(d), ~IsTrade(e),
         \A q \in PortfolioOf : Follows(q) => Follows(Apply(Apply(q, d), e))'
  PROVE  Tells(<<d, e>>)
<1>1. <<d, e>> \in Seq(AccountEvent) /\ <<d, e>>[1] = d /\ <<d, e>>[2] = e
      /\ \A n \in DOMAIN <<d, e>> : n = 1 \/ n = 2
  OBVIOUS
<1>2. \A q \in PortfolioOf : Replay(q, <<d, e>>) = Apply(Apply(q, d), e)
  BY ApplyType, ReplayTwo
<1> QED
  BY <1>1, <1>2 DEF Tells

\* Cancelling orders together tells of each, and of no trade.
LEMMA CancelEvents ==
  ASSUME NEW gone \in Seq(Ids), NEW why \in CancelReasons
  PROVE  LET events == CancelAll(gone, why)
         IN  /\ events \in Seq(AccountEvent) /\ Len(events) = Len(gone)
             /\ DOMAIN events = 1..Len(gone)
             /\ \A n \in 1..Len(gone) : events[n] = Canceled(gone[n], why)
             /\ \A n \in DOMAIN events : ~IsTrade(events[n])
<1> DEFINE events == CancelAll(gone, why)
<1>1. /\ Len(gone) \in Nat /\ DOMAIN gone = 1..Len(gone)
      /\ \A n \in 1..Len(gone) : gone[n] \in Ids
  OBVIOUS
<1>2. events = [n \in 1..Len(gone) |-> Canceled(gone[n], why)]
  BY <1>1 DEF CancelAll
<1>3. \A n \in 1..Len(gone) : /\ Canceled(gone[n], why) \in AccountEvent
                              /\ ~IsTrade(Canceled(gone[n], why))
  BY <1>1, OrderEvents
<1> HIDE DEF events
<1>4. events \in [1..Len(gone) -> AccountEvent]
  BY <1>2, <1>3
<1>5. events \in Seq(AccountEvent) /\ Len(events) = Len(gone)
  BY <1>1, <1>4
<1> QED
  BY <1>2, <1>3, <1>5 DEF events

\* It closes them and changes nothing else.
LEMMA ReplayCancels ==
  ASSUME NEW q \in PortfolioOf, NEW gone \in Seq(Ids), NEW why \in CancelReasons
  PROVE  LET r == Replay(q, CancelAll(gone, why))
         IN  /\ r \in PortfolioOf /\ r.positions = q.positions /\ r.cash = q.cash
             /\ Elements(r.open) = Elements(q.open) \ Elements(gone)
             /\ Distinct(q.open) => Distinct(r.open)
<1> DEFINE events == CancelAll(gone, why)
           f == ReplayedPrefix(q, events)
           First(n) == {gone[m] : m \in 1..n}
           Holds(n) == /\ f[n].positions = q.positions /\ f[n].cash = q.cash
                       /\ Elements(f[n].open) = Elements(q.open) \ First(n)
                       /\ Distinct(q.open) => Distinct(f[n].open)
           Bad == {n \in 0..Len(gone) : ~Holds(n)}
<1>1. /\ Len(gone) \in Nat /\ DOMAIN gone = 1..Len(gone)
      /\ \A n \in 1..Len(gone) : gone[n] \in Ids
  OBVIOUS
<1>4. /\ events \in Seq(AccountEvent) /\ Len(events) = Len(gone)
      /\ DOMAIN events = 1..Len(gone)
      /\ \A n \in 1..Len(gone) : events[n] = Canceled(gone[n], why)
  BY CancelEvents
<1> HIDE DEF events
<1>5. \A n \in 0..Len(gone) : /\ f[n] \in PortfolioOf
                             /\ f[n] = IF n = 0 THEN q ELSE Apply(f[n - 1], events[n])
  BY <1>4, ApplyType, ReplayEquation
<1> HIDE DEF f
<1>6. ASSUME Bad # {} PROVE FALSE
  <2>1. Bad \subseteq Nat
    BY <1>1
  <2>2. PICK n \in Bad : \A m \in Bad : n <= m
    BY <1>6, <2>1, LeastNat
  <2>3. n \in 0..Len(gone) /\ ~Holds(n)
    BY <2>2
  <2>4. n # 0
    <3>1. First(0) = {}
      BY <1>1
    <3>2. 0 \in 0..Len(gone) /\ f[0] = q
      BY <1>1, <1>5
    <3>3. Holds(0)
      BY <3>1, <3>2
    <3> QED
      BY <2>3, <3>3
  <2>5. n \in 1..Len(gone) /\ n - 1 \in 0..Len(gone) /\ ~(n <= n - 1) /\ n \in Nat
    BY <1>1, <2>3, <2>4
  <2>6. Holds(n - 1)
    BY <2>2, <2>5
  <2>7. f[n] = CloseOrder(f[n - 1], gone[n])
    <3>1. f[n] = Apply(f[n - 1], Canceled(gone[n], why))
      BY <1>4, <1>5, <2>3, <2>4, <2>5
    <3> QED
      BY <1>1, <2>5, <3>1, OrderEvents
  <2> DEFINE p == f[n - 1]
  <2>8. p \in PortfolioOf
    BY <1>5, <2>5
  <2>9. PICK open \in Seq(Ids) :
          /\ f[n] = [p EXCEPT !.open = open]
          /\ Elements(open) = Elements(p.open) \ {gone[n]}
          /\ Distinct(p.open) => Distinct(open)
    <3> HIDE DEF p
    <3>1. f[n] = CloseOrder(p, gone[n])
      BY <2>7 DEF p
    <3> QED
      BY <2>8, <3>1, CloseOrderFacts
  <2>10. First(n) = First(n - 1) \cup {gone[n]}
    <3>1. 1..n = (1..(n - 1)) \cup {n}
      BY <2>5
    <3> QED
      BY <3>1
  <2>11. f[n].positions = p.positions /\ f[n].cash = p.cash /\ f[n].open = open
    BY <2>8, <2>9 DEF PortfolioOf
  <2>12. Holds(n)
    <3> HIDE DEF First
    <3> QED
      BY <2>6, <2>9, <2>10, <2>11
  <2> QED
    BY <2>3, <2>12
<1>7. Len(gone) \in 0..Len(gone) /\ \A n \in 0..Len(gone) : n \notin Bad
  <2>1. \A n \in 0..Len(gone) : n \notin Bad
    BY <1>6, Zenon
  <2> QED
    BY <1>1, <2>1
<1>8. Holds(Len(gone)) /\ f[Len(gone)] \in PortfolioOf
  BY <1>5, <1>7
<1>9. First(Len(gone)) = Elements(gone)
  BY <1>1 DEF Elements
<1>10. Replay(q, events) = f[Len(gone)]
  BY <1>4 DEF Replay, f
<1> HIDE DEF First
<1> QED
  BY <1>8, <1>9, <1>10 DEF events

-----------------------------------------------------------------------------
(* Every call of the venue tells of what it changes *)

\* A submitted order is accepted or rejected, and its owner is told which.
LEMMA SubmitTells ==
  ASSUME TypeOK, sink \in Seq(AccountEvent), NEW id \in Ids, NEW o \in Requests, Submit(id, o)
  PROVE  \E events : Tells(events)
<1>1. /\ id \notin OpenIds /\ UNCHANGED <<shadow, cash>> /\ PositionsStay
  BY DEF Submit, NextId, OpenIds, PositionsStay
<1>2. CASE Refuses(o)
  <2>1. /\ ledger' = [ledger EXCEPT ![id].stage = "rejected"]
        /\ sink' = Append(sink, Rejected(id))
    BY <1>2 DEF Submit
  <2>2. OpenIds' = OpenIds \ {id}
    BY <1>1, <2>1 DEF OpenIds, TypeOK, Ledger
  <2>3. \A q \in PortfolioOf : Follows(q) => Follows(Apply(q, Rejected(id)))'
    BY <1>1, <2>2, CloseFollows, OrderEvents
  <2>4. Tells(<<Rejected(id)>>)
    BY <2>1, <2>3, TellsOne, OrderEvents
  <2> QED
    BY <2>4
<1>3. CASE ~Refuses(o)
  <2>1. /\ sink' = Append(sink, Accepted(id))
        /\ ledger' = [ledger EXCEPT ![id].stage = "open",
                                    ![id].placedAt = seen[o.instrument],
                                    ![id].late = GroupHasExecuted(o.oco)]
    BY <1>3 DEF Submit
  <2>2. OpenIds' = OpenIds \cup {id}
    <3>1. /\ ledger'[id].stage = "open"
          /\ \A other \in Ids \ {id} : ledger'[other] = ledger[other]
      BY <2>1 DEF TypeOK, Ledger
    <3> QED
      BY <3>1 DEF OpenIds
  <2>3. \A q \in PortfolioOf : Follows(q) => Follows(Apply(q, Accepted(id)))'
    BY <1>1, <2>2, OpenFollows, OrderEvents
  <2>4. Tells(<<Accepted(id)>>)
    BY <2>1, <2>3, TellsOne, OrderEvents
  <2> QED
    BY <2>4
<1> QED
  BY <1>2, <1>3

\* A cancellation is told of, or that there was nothing to cancel.
LEMMA CancelTells ==
  ASSUME TypeOK, sink \in Seq(AccountEvent), NEW id \in Ids, Cancel(id)
  PROVE  \E events : Tells(events)
<1>1. UNCHANGED <<shadow, cash>> /\ PositionsStay
  BY DEF Cancel, PositionsStay
<1>2. CASE id \in OnBook
  <2>1. /\ ledger' = [ledger EXCEPT ![id].stage = "closed"]
        /\ sink' = Append(sink, Canceled(id, "Requested"))
    BY <1>2 DEF Cancel
  <2>2. OpenIds' = OpenIds \ {id}
    BY <2>1 DEF OpenIds, TypeOK, Ledger
  <2>3. \A q \in PortfolioOf : Follows(q) => Follows(Apply(q, Canceled(id, "Requested")))'
    BY <1>1, <2>2, CloseFollows, OrderEvents
  <2>4. /\ Canceled(id, "Requested") \in AccountEvent
        /\ ~IsTrade(Canceled(id, "Requested"))
    BY OrderEvents DEF CancelReasons
  <2>5. Tells(<<Canceled(id, "Requested")>>)
    BY <2>1, <2>3, <2>4, TellsOne
  <2> QED
    BY <2>5
<1>3. CASE id \notin OnBook
  <2>1. sink' = Append(sink, CancelRejected(id)) /\ UNCHANGED ledger
    BY <1>3 DEF Cancel
  <2>2. OpenIds' = OpenIds
    BY <2>1 DEF OpenIds
  <2>3. \A q \in PortfolioOf : Follows(q) => Follows(Apply(q, CancelRejected(id)))'
    BY <1>1, <2>2, SameFollows, OrderEvents
  <2>4. Tells(<<CancelRejected(id)>>)
    BY <2>1, <2>3, TellsOne, OrderEvents
  <2> QED
    BY <2>4
<1> QED
  BY <1>2, <1>3

\* A bar that arrives changes neither positions, nor cash, nor open orders.
LEMMA BeginObserveTells ==
  ASSUME TypeOK, sink \in Seq(AccountEvent), NEW b \in Bars, BeginObserve(b)
  PROVE  \E events : Tells(events)
<1>1. /\ shadow' = [shadow EXCEPT ![b.instrument].mark = b.close]
      /\ UNCHANGED <<cash, sink, ledger>>
  BY DEF BeginObserve
<1>2. PositionsStay
  BY <1>1 DEF PositionsStay, TypeOK, ShadowState
<1>3. OpenIds' = OpenIds
  BY <1>1 DEF OpenIds
<1> QED
  BY <1>1, <1>2, <1>3, TellsNothing

\* Nor does an order the walk puts back.
LEMMA SkipTells ==
  ASSUME TypeOK, sink \in Seq(AccountEvent), NEW id \in Ids,
         SkipOtherInstrument(id) \/ AwaitLatency(id)
  PROVE  \E events : Tells(events)
<1>1. UNCHANGED <<shadow, cash, sink, ledger>>
  BY DEF SkipOtherInstrument, AwaitLatency, Leave
<1>2. PositionsStay /\ OpenIds' = OpenIds
  BY <1>1 DEF PositionsStay, OpenIds
<1> QED
  BY <1>1, <1>2, TellsNothing

\* A turn tells of a trigger, of an end, of both or of neither.
LEMMA TurnTells ==
  ASSUME TypeOK, BookInv, sink \in Seq(AccountEvent), NEW id \in Ids,
         NEW r, NEW stage, NEW rests, Turn(id, r, stage, rests)
  PROVE  \E events : Tells(events)
<1>1. /\ UNCHANGED <<shadow, cash>> /\ PositionsStay
      /\ ledger[id].stage = "open" /\ ledger'[id].stage = stage
      /\ \A other \in Ids \ {id} : ledger'[other] = ledger[other]
  BY TurnEffects DEF PositionsStay
<1>2. PICK events \in TurnEvents(id, stage) : Report(id, r, events, stage)
  BY DEF Turn
<1> DEFINE armed == r.armed /\ ~orders[id].armed
<1>3. sink' = sink \o (IF armed THEN <<Triggered(id)>> ELSE << >>) \o events
  BY <1>2 DEF Report
<1>4. /\ Triggered(id) \in AccountEvent /\ ~IsTrade(Triggered(id))
      /\ \A q : Apply(q, Triggered(id)) = q
  BY OrderEvents
<1>5. CASE stage = "open"
  <2>1. events = << >> /\ OpenIds' = OpenIds
    BY <1>1, <1>5 DEF TurnEvents, OpenIds
  <2>2. CASE armed
    <3>1. sink' = Append(sink, Triggered(id))
      <4>1. sink' = sink \o <<Triggered(id)>> \o << >>
        BY <1>3, <2>1, <2>2
      <4>2. sink \o <<Triggered(id)>> \o << >> = Append(sink, Triggered(id))
        BY <1>4
      <4> QED
        BY <4>1, <4>2
    <3>2. \A q \in PortfolioOf : Follows(q) => Follows(Apply(q, Triggered(id)))'
      BY <1>1, <1>4, <2>1, SameFollows
    <3>3. Tells(<<Triggered(id)>>)
      BY <1>4, <3>1, <3>2, TellsOne
    <3> QED
      BY <3>3
  <2>3. CASE ~armed
    <3>1. sink' = sink
      <4>1. sink' = sink \o << >> \o << >>
        BY <1>3, <2>1, <2>3
      <4> QED
        BY <4>1
    <3> QED
      BY <1>1, <2>1, <3>1, TellsNothing
  <2> QED
    BY <2>2, <2>3
<1>6. CASE stage # "open"
  <2>1. PICK e \in {Expired(id)} \cup {Canceled(id, why) : why \in {"VenueCanceled", "OcoTriggered"}} :
          events = <<e>>
    BY <1>6 DEF TurnEvents
  <2>2. e \in AccountEvent /\ ~IsTrade(e) /\ \A q : Apply(q, e) = CloseOrder(q, id)
    <3>1. "VenueCanceled" \in CancelReasons /\ "OcoTriggered" \in CancelReasons
      BY DEF CancelReasons
    <3> QED
      BY <2>1, <3>1, OrderEvents
  <2>3. OpenIds' = OpenIds \ {id}
    BY <1>1, <1>6 DEF OpenIds
  <2>4. \A q \in PortfolioOf : Follows(q) => Follows(Apply(q, e))'
    BY <1>1, <2>2, <2>3, CloseFollows
  <2>5. CASE armed
    <3>1. sink' = sink \o <<Triggered(id), e>>
      <4>1. sink' = sink \o <<Triggered(id)>> \o <<e>>
        BY <1>3, <2>1, <2>5
      <4>2. sink \o <<Triggered(id)>> \o <<e>> = sink \o <<Triggered(id), e>>
        BY <1>4, <2>2
      <4> QED
        BY <4>1, <4>2
    <3>2. \A q \in PortfolioOf : Follows(q) => Follows(Apply(Apply(q, Triggered(id)), e))'
      BY <1>4, <2>4
    <3>3. Tells(<<Triggered(id), e>>)
      BY <1>4, <2>2, <3>1, <3>2, TellsTwo
    <3> QED
      BY <3>3
  <2>6. CASE ~armed
    <3>1. sink' = Append(sink, e)
      <4>1. sink' = sink \o << >> \o <<e>>
        BY <1>3, <2>1, <2>6
      <4>2. sink \o << >> \o <<e>> = Append(sink, e)
        BY <2>2
      <4> QED
        BY <4>1, <4>2
    <3>2. Tells(<<e>>)
      BY <2>2, <2>4, <3>1, TellsOne
    <3> QED
      BY <3>2
  <2> QED
    BY <2>5, <2>6
<1> QED
  BY <1>5, <1>6

\* How a trade moves the venue's positions.
Moves(e) ==
  LET i == e.instrument
      held == shadow[i]
      signed == e.side * e.qty
  IN  /\ shadow'[i].net = held.net + signed
      /\ shadow'[i].avg = AvgAfter(held.net, held.avg, signed, e.price)
      /\ \A j \in Instruments \ {i} : shadow'[j].net = shadow[j].net /\ shadow'[j].avg = shadow[j].avg

\* An account told of it has the positions it leaves.
LEMMA TradeFollows ==
  ASSUME TypeOK, NEW e, e.instrument \in Instruments, e.side \in Int, e.price \in Int,
         e.qty \in Int, e.fee \in Int, e.side * e.qty # 0, Moves(e),
         NEW q \in PortfolioOf,
         \A i \in Instruments : q.positions[i] = [net |-> shadow[i].net, avg |-> shadow[i].avg]
  PROVE  \A i \in Instruments :
           Settle(q, e).positions[i] = [net |-> shadow'[i].net, avg |-> shadow'[i].avg]
<1> DEFINE i      == e.instrument
           signed == e.side * e.qty
           pos    == q.positions[i]
           held   == shadow[i]
<1>1. pos = [net |-> held.net, avg |-> held.avg] /\ pos.net = held.net /\ pos.avg = held.avg
  OBVIOUS
<1>2. /\ Settle(q, e).positions =
           [q.positions EXCEPT ![i] =
             [net |-> pos.net + signed, avg |-> NewAvg(pos.net, pos.avg, signed, e.price)]]
  BY SettleFacts
<1>3. NewAvg(pos.net, pos.avg, signed, e.price) = AvgAfter(held.net, held.avg, signed, e.price)
  BY <1>1 DEF NewAvg
<1>4. /\ shadow'[i].net = held.net + signed
      /\ shadow'[i].avg = AvgAfter(held.net, held.avg, signed, e.price)
      /\ \A j \in Instruments \ {i} : shadow'[j].net = shadow[j].net /\ shadow'[j].avg = shadow[j].avg
  BY DEF Moves
<1> HIDE DEF pos, signed, held
<1>5. /\ Settle(q, e).positions[i] = [net |-> shadow'[i].net, avg |-> shadow'[i].avg]
      /\ \A j \in Instruments \ {i} : Settle(q, e).positions[j] = q.positions[j]
  BY <1>1, <1>2, <1>3, <1>4 DEF PortfolioOf
<1>6. \A j \in Instruments \ {i} : Settle(q, e).positions[j] = [net |-> shadow'[j].net, avg |-> shadow'[j].avg]
  BY <1>4, <1>5
<1> QED
  BY <1>5, <1>6

\* The fill that is emitted, and what it does to the venue.
LEMMA EmitFillEvent ==
  ASSUME TypeOK, BookInv, OrderInv, EmitFill
  PROVE  \E e \in FillEvent :
           /\ sink' = Append(sink, e)
           /\ bar # None /\ e.instrument = bar.instrument
           /\ e.side * e.qty # 0 /\ Moves(e)
           /\ cash' = Settled(cash, e.side, e.price, e.qty, e.fee)
           /\ OpenIds' = IF e.complete THEN OpenIds \ {e.id} ELSE OpenIds
<1> DEFINE f    == Head(toFill)
           o    == orders[f.id].order
           i    == o.instrument
           sgnd == o.side * f.qty
           fee  == Fee(f.price, f.qty)
           e    == [type |-> "Fill", id |-> f.id, instrument |-> i, side |-> o.side,
                    price |-> f.price, qty |-> f.qty, fee |-> fee, complete |-> f.complete]
<1>1. f = toFill[1] /\ 1 \in DOMAIN toFill /\ bar # None
  BY EmitEffects
<1>2. f.id \in Ids /\ f.qty \in Int /\ f.price \in Int /\ f.complete \in BOOLEAN
  BY <1>1, StagedTypes
<1>3. /\ f.qty > 0 /\ ledger[f.id].stage \in {"open", "closed"} /\ i = bar.instrument
  BY <1>1 DEF OrderInv, StagedSoundly
<1>4. o \in OrderRequest
  BY <1>2, <1>3, ConstantsAssumption DEF OrderInv, Placed
<1>5. i \in Instruments /\ o.side \in Int /\ (o.side = 1 \/ o.side = -1)
  BY <1>4 DEF OrderRequest, Buy, Sell
<1>6. sgnd # 0
  BY <1>2, <1>3, <1>5
<1>7. /\ shadow' = [shadow EXCEPT ![i].net = @ + sgnd,
                                  ![i].avg = AvgAfter(shadow[i].net, shadow[i].avg, sgnd, f.price)]
      /\ cash' = Settled(cash, o.side, f.price, f.qty, fee)
      /\ sink' = Append(sink, e)
  BY DEF EmitFill
<1>8. /\ ledger'[f.id].stage = IF f.complete THEN "closed" ELSE ledger[f.id].stage
      /\ \A other \in Ids \ {f.id} : ledger'[other] = ledger[other]
  BY <1>1, EmitEffects
<1>9. OpenIds' = IF f.complete THEN OpenIds \ {f.id} ELSE OpenIds
  BY <1>2, <1>8 DEF OpenIds
<1>10. fee \in Int
  BY <1>2, FeeType
<1> HIDE DEF f, o, fee, i, sgnd
<1>11. e \in FillEvent
  BY <1>2, <1>5, <1>10 DEF FillEvent
<1>12. /\ e.instrument = i /\ e.side = o.side /\ e.qty = f.qty /\ e.price = f.price
       /\ e.fee = fee /\ e.complete = f.complete /\ e.id = f.id
  OBVIOUS
<1> HIDE DEF e
<1>13. Moves(e)
  <2>1. /\ shadow'[i].net = shadow[i].net + sgnd
        /\ shadow'[i].avg = AvgAfter(shadow[i].net, shadow[i].avg, sgnd, f.price)
        /\ \A j \in Instruments \ {i} : shadow'[j] = shadow[j]
    BY <1>5, <1>7 DEF TypeOK, ShadowState
  <2> QED
    BY <1>12, <2>1 DEF Moves, sgnd
<1> QED
  BY <1>1, <1>3, <1>6, <1>7, <1>9, <1>11, <1>12, <1>13 DEF sgnd

\* An emitted fill moves the account as it moves the venue's.
LEMMA EmitFillTells ==
  ASSUME TypeOK, BookInv, OrderInv, sink \in Seq(AccountEvent), EmitFill
  PROVE  \E events : Tells(events)
<1>1. PICK e \in FillEvent :
        /\ sink' = Append(sink, e)
        /\ bar # None /\ e.instrument = bar.instrument
        /\ e.side * e.qty # 0 /\ Moves(e)
        /\ cash' = Settled(cash, e.side, e.price, e.qty, e.fee)
        /\ OpenIds' = IF e.complete THEN OpenIds \ {e.id} ELSE OpenIds
  BY EmitFillEvent
<1>2. /\ e.instrument \in Instruments /\ e.side \in Int /\ e.price \in Int
      /\ e.qty \in Int /\ e.fee \in Int
  BY DEF FillEvent
<1>3. ASSUME NEW q \in PortfolioOf, Follows(q) PROVE Follows(Apply(q, e))'
  <2> DEFINE s == Settle(q, e)
             r == Apply(q, e)
  <2>1. \A j \in Instruments : s.positions[j] = [net |-> shadow'[j].net, avg |-> shadow'[j].avg]
    BY <1>1, <1>2, <1>3, TradeFollows DEF Follows
  <2>2. s \in PortfolioOf /\ s.cash = q.cash - e.side * Notional(e.price, e.qty) - e.fee
    BY <1>2, SettleFacts
  <2>3. PICK open \in Seq(Ids) :
          /\ r = [s EXCEPT !.open = open]
          /\ Elements(open) = IF e.complete THEN Elements(q.open) \ {e.id} ELSE Elements(q.open)
          /\ Distinct(q.open) => Distinct(open)
    BY FillFacts
  <2> HIDE DEF s, r
  <2>4. r.positions = s.positions /\ r.cash = s.cash /\ r.open = open
    BY <2>2, <2>3 DEF PortfolioOf
  <2>5. Distinct(r.open) /\ Elements(r.open) = OpenIds'
    BY <1>1, <1>3, <2>3, <2>4 DEF Follows
  <2>6. cash' # None => r.cash = cash'
    <3>1. CASE cash = None
      BY <1>1, <3>1 DEF Settled
    <3>2. CASE cash # None
      BY <1>1, <1>3, <2>2, <2>4, <3>2 DEF Settled, Follows
    <3> QED
      BY <3>1, <3>2
  <2>7. \A j \in Instruments : r.positions[j] = [net |-> shadow'[j].net, avg |-> shadow'[j].avg]
    BY <2>1, <2>4
  <2>8. Follows(r)'
    BY <2>5, <2>6, <2>7 DEF Follows
  <2> QED
    BY <2>8 DEF r
<1>4. e \in AccountEvent
  BY DEF AccountEvent
<1>5. Tells(<<e>>)
  BY <1>1, <1>3, <1>4, TellsOne
<1> QED
  BY <1>5

\* The legs that a claimed group loses are told of one by one.
LEMMA ResolveOcoTells ==
  ASSUME TypeOK, sink \in Seq(AccountEvent), ResolveOco
  PROVE  \E events : Tells(events)
<1>1. PICK gone \in Seq(Ids) :
        /\ sink' = sink \o CancelAll(gone, "OcoTriggered")
        /\ ledger' = CloseAll(gone)
  <2>1. \E losers : /\ sink' = sink \o CancelAll(Keep(resting, losers), "OcoTriggered")
                    /\ ledger' = CloseAll(Keep(resting, losers))
    BY DEF ResolveOco
  <2>2. resting \in Seq(Ids) /\ \A losers : Keep(resting, losers) \in Seq(Ids)
    BY KeepFacts DEF TypeOK
  <2> QED
    BY <2>1, <2>2
<1>2. UNCHANGED <<shadow, cash>> /\ PositionsStay
  BY DEF ResolveOco, PositionsStay
<1>3. OpenIds' = OpenIds \ Elements(gone)
  BY <1>1, CloseAllStage
<1> DEFINE events == CancelAll(gone, "OcoTriggered")
<1>4. "OcoTriggered" \in CancelReasons
  BY DEF CancelReasons
<1>5. ASSUME NEW q \in PortfolioOf, Follows(q) PROVE Follows(Replay(q, events))'
  <2> DEFINE r == Replay(q, events)
  <2>1. /\ r.positions = q.positions /\ r.cash = q.cash
        /\ Elements(r.open) = Elements(q.open) \ Elements(gone)
        /\ Distinct(q.open) => Distinct(r.open)
    BY <1>4, ReplayCancels
  <2> HIDE DEF r
  <2>2. Distinct(r.open) /\ Elements(r.open) = OpenIds'
    BY <1>3, <1>5, <2>1 DEF Follows
  <2>3. Follows(r)'
    BY <1>2, <1>5, <2>1, <2>2, OrdersFollow
  <2> QED
    BY <2>3 DEF r
<1>6. events \in Seq(AccountEvent) /\ \A n \in DOMAIN events : ~IsTrade(events[n])
  BY <1>4, CancelEvents
<1>7. Tells(events)
  BY <1>1, <1>5, <1>6 DEF Tells
<1> QED
  BY <1>7

\* What funding costs is told, if it costs anything.
FundingTold(fund, cost) ==
  /\ fund \in Seq(AccountEvent) /\ \A n \in DOMAIN fund : ~IsTrade(fund[n])
  /\ \A q \in PortfolioOf :
       LET r == Replay(q, fund)
       IN  /\ r \in PortfolioOf /\ r.positions = q.positions /\ r.open = q.open
           /\ r.cash = q.cash - cost

Charged(cost) == IF cash = None THEN None ELSE cash - cost

\* The event of a funding settlement, or none, tells of its cost.
LEMMA FundingTells ==
  ASSUME NEW i \in Instruments, NEW cost \in Int
  PROVE  /\ FundingTold(<< >>, 0)
         /\ FundingTold(<<[type |-> "FundingSettlement", instrument |-> i, cost |-> cost]>>, cost)
<1> DEFINE e == [type |-> "FundingSettlement", instrument |-> i, cost |-> cost]
<1>1. e \in FundingEvent /\ e \in AccountEvent /\ ~IsTrade(e) /\ e.cost = cost
      /\ e.type = "FundingSettlement"
  BY DEF FundingEvent, AccountEvent, IsTrade
<1> DEFINE none == << >>
<1>2. none \in Seq(AccountEvent) /\ none = << >> /\ DOMAIN none = {}
  OBVIOUS
<1> HIDE DEF e, none
<1>3. <<e>> \in Seq(AccountEvent) /\ DOMAIN <<e>> = {1} /\ <<e>>[1] = e
  BY <1>1
<1>4. ASSUME NEW q \in PortfolioOf
      PROVE  LET r == Replay(q, <<e>>)
             IN  /\ r \in PortfolioOf /\ r.positions = q.positions /\ r.open = q.open
                 /\ r.cash = q.cash - cost
  <2>1. Replay(q, <<e>>) = Apply(q, e) /\ Apply(q, e) \in PortfolioOf
    BY <1>1, ApplyType, ReplayOne DEF ClosedUnder
  <2>2. Apply(q, e) = [q EXCEPT !.cash = @ - e.cost, !.fundingNet = @ + e.cost]
    BY <1>1, ApplyCases DEF ApplyFunding
  <2>3. /\ Apply(q, e).positions = q.positions /\ Apply(q, e).open = q.open
        /\ Apply(q, e).cash = q.cash - cost
    BY <1>1, <2>2 DEF PortfolioOf
  <2> QED
    BY <2>1, <2>3
<1>5. ASSUME NEW q \in PortfolioOf
      PROVE  LET r == Replay(q, none)
             IN  /\ r \in PortfolioOf /\ r.positions = q.positions /\ r.open = q.open
                 /\ r.cash = q.cash - 0
  <2>1. Replay(q, none) = q
    <3>1. Replay(q, << >>) = q
      BY ApplyType, ReplayNone
    <3> QED
      BY <1>2, <3>1
  <2>2. q.cash = q.cash - 0
    BY DEF PortfolioOf
  <2> QED
    BY <2>1, <2>2
<1> QED
  BY <1>1, <1>2, <1>3, <1>4, <1>5 DEF FundingTold, e, none

\* The end of a bar as its events tell it: the funding, and the forced close
\* with the cancellations that go with it.
LEMMA FinishObserveEvents ==
  ASSUME TypeOK, sink \in Seq(AccountEvent), FinishObserve
  PROVE  \E cost \in Int, fund \in Seq(AccountEvent) :
           /\ FundingTold(fund, cost)
           /\ \/ /\ sink' = sink \o fund /\ cash' = Charged(cost)
                 /\ PositionsStay /\ UNCHANGED ledger
              \/ \E e \in LiquidationEvent, gone \in Seq(Ids) :
                   /\ sink' = (sink \o fund) \o <<e>> \o CancelAll(gone, "VenueCanceled")
                   /\ cash' = Settled(Charged(cost), e.side, e.price, e.qty, e.fee)
                   /\ e.instrument = bar.instrument /\ e.side * e.qty # 0
                   /\ Moves(e) /\ ledger' = CloseAll(gone)
<1>1. bar # None /\ Here \in Instruments /\ bar.close \in Int
  BY ObservedBarType DEF FinishObserve, Walked, Here
<1>2. shadow[Here].net \in Int /\ shadow[Here].avg \in Int
  BY <1>1 DEF TypeOK, ShadowState
<1>3. \A rate \in FundingRates : FundingCost(rate) \in Int
  <2>1. Notional(bar.close, shadow[Here].net) \in Int
    BY <1>1, <1>2, NotionalType
  <2>2. \A rate \in FundingRates : Notional(bar.close, shadow[Here].net) * rate \in Int
    BY <2>1, IntTimes, ConstantsAssumption
  <2> QED
    BY <2>2, TruncDivType, ConstantsAssumption DEF FundingCost
<1>4. PICK rate \in FundingRates :
        LET cost    == IF FundingIsDue THEN FundingCost(rate) ELSE 0
            balance == IF cash = None THEN None ELSE cash - cost
            events  == IF FundingIsDue
                       THEN Append(sink, [type |-> "FundingSettlement",
                                          instrument |-> Here, cost |-> cost])
                       ELSE sink
        IN  IF IsLiquidated THEN Liquidate(balance, FundingClock, events)
            ELSE /\ shadow' = [shadow EXCEPT ![Here].bars = FundingClock]
                 /\ cash' = balance
                 /\ sink' = events
                 /\ UNCHANGED <<resting, ledger>>
  BY DEF FinishObserve
<1> DEFINE dues == IF FundingIsDue THEN FundingCost(rate) ELSE 0
           told == IF FundingIsDue
                   THEN <<[type |-> "FundingSettlement", instrument |-> Here, cost |-> dues]>>
                   ELSE << >>
<1>5. dues \in Int
  BY <1>3
<1>6. FundingTold(told, dues)
  <2>1. CASE FundingIsDue
    BY <1>1, <1>5, <2>1, FundingTells
  <2>2. CASE ~FundingIsDue
    <3>1. told = << >> /\ dues = 0
      BY <2>2
    <3> QED
      BY <1>1, <3>1, FundingTells
  <2> QED
    BY <2>1, <2>2
<1>7. /\ IsLiquidated => Liquidate(Charged(dues), FundingClock, sink \o told)
      /\ ~IsLiquidated => /\ shadow' = [shadow EXCEPT ![Here].bars = FundingClock]
                          /\ cash' = Charged(dues) /\ sink' = sink \o told
                          /\ UNCHANGED ledger
  <2>1. sink \o told = IF FundingIsDue
                       THEN Append(sink, [type |-> "FundingSettlement",
                                          instrument |-> Here, cost |-> dues])
                       ELSE sink
    <3>1. \A e : sink \o <<e>> = Append(sink, e)
      OBVIOUS
    <3>2. sink \o << >> = sink
      OBVIOUS
    <3> QED
      BY <3>1, <3>2
  <2> QED
    BY <1>4, <2>1 DEF Charged
<1> HIDE DEF dues, told
<1>8. PICK cost \in Int, fund \in Seq(AccountEvent) : cost = dues /\ fund = told
  BY <1>5, <1>6 DEF FundingTold
<1>9. CASE ~IsLiquidated
  <2>1. PositionsStay
    BY <1>1, <1>7, <1>9 DEF PositionsStay, TypeOK, ShadowState
  <2> QED
    BY <1>6, <1>7, <1>8, <1>9, <2>1
<1>10. CASE IsLiquidated
  <2> DEFINE net   == shadow[Here].net
             side  == -Sign(net)
             qty   == Abs(net)
             price == Slipped(bar.close, side)
             fee   == Fee(price, qty)
             here  == {id \in Ids : orders[id].order.instrument = Here}
             liq   == [type |-> "Liquidation", instrument |-> Here, side |-> side,
                       price |-> price, qty |-> qty, fee |-> fee]
  <2>1. /\ shadow' = [shadow EXCEPT
           ![Here].net = @ + side * qty,
           ![Here].avg = AvgAfter(net, @, side * qty, price),
           ![Here].bars = FundingClock]
        /\ cash' = Settled(Charged(dues), side, price, qty, fee)
        /\ sink' = (sink \o told) \o <<liq>> \o CancelAll(Keep(resting, here), "VenueCanceled")
        /\ ledger' = CloseAll(Keep(resting, here))
    BY <1>7, <1>10 DEF Liquidate
  <2>2. side \in Int /\ qty \in Int /\ side * qty # 0
    <3>1. net \in Int /\ net # 0
      BY <1>2, <1>10 DEF IsLiquidated
    <3>2. \A n \in Int : -n \in Int /\ (n # 0 => -n # 0)
      OBVIOUS
    <3>3. \A n, m \in Int : n # 0 /\ m # 0 => n * m # 0
      OBVIOUS
    <3> HIDE DEF net
    <3> DEFINE sign == Sign(net)
    <3>4. sign \in Int /\ sign # 0 /\ qty \in Int /\ qty # 0
      BY <3>1 DEF Sign, Abs
    <3>5. side = -sign
      OBVIOUS
    <3> HIDE DEF sign, side, qty
    <3> QED
      BY <3>2, <3>3, <3>4, <3>5, IntTimes
  <2> HIDE DEF side, qty
  <2>3. price \in Int
    BY <1>1, <2>2, SlippedType
  <2> HIDE DEF price
  <2>4. fee \in Int
    BY <2>2, <2>3, FeeType
  <2> HIDE DEF fee
  <2>5. liq \in LiquidationEvent
    BY <1>1, <2>2, <2>3, <2>4 DEF LiquidationEvent
  <2>6. /\ liq.instrument = Here /\ liq.side = side /\ liq.qty = qty /\ liq.price = price
        /\ liq.fee = fee
    OBVIOUS
  <2> HIDE DEF liq
  <2>7. Moves(liq)
    <3>1. /\ shadow'[Here].net = net + side * qty
          /\ shadow'[Here].avg = AvgAfter(net, shadow[Here].avg, side * qty, price)
          /\ \A j \in Instruments \ {Here} : shadow'[j] = shadow[j]
      BY <1>1, <2>1 DEF TypeOK, ShadowState
    <3> QED
      BY <2>6, <3>1 DEF Moves
  <2>8. Keep(resting, here) \in Seq(Ids)
    BY KeepFacts DEF TypeOK
  <2> DEFINE kept == Keep(resting, here)
  <2>9. PICK e \in LiquidationEvent, gone \in Seq(Ids) : e = liq /\ gone = kept
    BY <2>5, <2>8
  <2>10. /\ sink' = (sink \o fund) \o <<e>> \o CancelAll(gone, "VenueCanceled")
         /\ cash' = Settled(Charged(cost), e.side, e.price, e.qty, e.fee)
         /\ e.instrument = bar.instrument /\ e.side * e.qty # 0
         /\ Moves(e) /\ ledger' = CloseAll(gone)
    <3>1. Moves(e)
      BY <2>7, <2>9
    <3> QED
      BY <1>8, <2>1, <2>2, <2>6, <2>9, <3>1 DEF Here
  <2> QED
    BY <1>6, <1>8, <2>10
<1> QED
  BY <1>9, <1>10

Joins(all, s, t) == all = s \o t

\* Four sequences may be joined from the left or from the right.
LEMMA ConcatRegroups ==
  ASSUME NEW S, NEW s \in Seq(S), NEW t \in Seq(S), NEW u \in Seq(S), NEW v \in Seq(S),
         NEW st, NEW stu, NEW all, NEW uv, NEW tuv,
         Joins(st, s, t), Joins(stu, st, u), Joins(all, stu, v), Joins(uv, u, v), Joins(tuv, t, uv)
  PROVE  Joins(all, s, tuv)
<1> DEFINE a == s \o t
           b == u \o v
<1>1. a \in Seq(S) /\ b \in Seq(S)
  OBVIOUS
<1> HIDE DEF a, b
<1>2. (a \o u) \o v = a \o (u \o v)
  BY <1>1, ConcatAssociative
<1>3. a \o b = s \o (t \o b)
  BY <1>1, ConcatAssociative DEF a
<1> QED
  BY <1>2, <1>3, Zenon DEF a, b, Joins

\* The account told of a bar's end is the venue's after it.
LEMMA FinishObserveTells ==
  ASSUME TypeOK, sink \in Seq(AccountEvent), FinishObserve
  PROVE  \E events : Tells(events)
<1>1. PICK cost \in Int, fund \in Seq(AccountEvent) :
        /\ FundingTold(fund, cost)
        /\ \/ /\ sink' = sink \o fund /\ cash' = Charged(cost)
              /\ PositionsStay /\ UNCHANGED ledger
           \/ \E e \in LiquidationEvent, gone \in Seq(Ids) :
                /\ sink' = (sink \o fund) \o <<e>> \o CancelAll(gone, "VenueCanceled")
                /\ cash' = Settled(Charged(cost), e.side, e.price, e.qty, e.fee)
                /\ e.instrument = bar.instrument /\ e.side * e.qty # 0
                /\ Moves(e) /\ ledger' = CloseAll(gone)
  BY FinishObserveEvents
<1>2. bar # None /\ \A n \in DOMAIN fund : ~IsTrade(fund[n])
  BY <1>1 DEF FundingTold, FinishObserve, Walked
<1>3. ASSUME NEW q \in PortfolioOf, Follows(q)
      PROVE  LET r == Replay(q, fund)
             IN  /\ r \in PortfolioOf
                 /\ \A i \in Instruments : r.positions[i] = [net |-> shadow[i].net, avg |-> shadow[i].avg]
                 /\ cash # None => r.cash = Charged(cost)
                 /\ Distinct(r.open) /\ Elements(r.open) = OpenIds
  BY <1>1, <1>3 DEF FundingTold, Follows, Charged
<1>4. CASE /\ sink' = sink \o fund /\ cash' = Charged(cost)
           /\ PositionsStay /\ UNCHANGED ledger
  <2>1. OpenIds' = OpenIds
    BY <1>4 DEF OpenIds
  <2>2. ASSUME NEW q \in PortfolioOf, Follows(q) PROVE Follows(Replay(q, fund))'
    <3> DEFINE r == Replay(q, fund)
    <3>1. /\ \A i \in Instruments : r.positions[i] = [net |-> shadow[i].net, avg |-> shadow[i].avg]
          /\ cash # None => r.cash = Charged(cost)
          /\ Distinct(r.open) /\ Elements(r.open) = OpenIds
      BY <1>3, <2>2
    <3> HIDE DEF r
    <3>2. cash' # None => r.cash = cash'
      BY <1>4, <3>1 DEF Charged
    <3>3. Follows(r)'
      BY <1>4, <2>1, <3>1, <3>2 DEF Follows, PositionsStay
    <3> QED
      BY <3>3 DEF r
  <2>3. Tells(fund)
    BY <1>2, <1>4, <2>2 DEF Tells
  <2> QED
    BY <2>3
<1>5. ASSUME NEW e \in LiquidationEvent, NEW gone \in Seq(Ids),
             sink' = (sink \o fund) \o <<e>> \o CancelAll(gone, "VenueCanceled"),
             cash' = Settled(Charged(cost), e.side, e.price, e.qty, e.fee),
             e.instrument = bar.instrument, e.side * e.qty # 0,
             Moves(e), ledger' = CloseAll(gone)
      PROVE  \E events : Tells(events)
  <2> DEFINE cancels == CancelAll(gone, "VenueCanceled")
             events  == fund \o (<<e>> \o cancels)
  <2>1. "VenueCanceled" \in CancelReasons
    BY DEF CancelReasons
  <2>2. cancels \in Seq(AccountEvent) /\ \A n \in DOMAIN cancels : ~IsTrade(cancels[n])
    BY <2>1, CancelEvents
  <2>3. e \in AccountEvent /\ <<e>> \in Seq(AccountEvent)
    <3>1. e \in AccountEvent
      BY DEF AccountEvent
    <3> QED
      BY <3>1
  <2>4. /\ e.instrument \in Instruments /\ e.side \in Int /\ e.price \in Int
        /\ e.qty \in Int /\ e.fee \in Int
    BY DEF LiquidationEvent
  <2>5. OpenIds' = OpenIds \ Elements(gone)
    BY <1>5, CloseAllStage
  <2>6. ASSUME NEW q \in PortfolioOf, Follows(q)
        PROVE  Follows(Replay(q, fund \o (<<e>> \o cancels)))'
    <3> DEFINE told  == Replay(q, fund)
               sold  == Settle(told, e)
               after == Apply(told, e)
               r     == Replay(after, cancels)
    <3>1. /\ told \in PortfolioOf
          /\ \A i \in Instruments : told.positions[i] = [net |-> shadow[i].net, avg |-> shadow[i].avg]
          /\ cash # None => told.cash = Charged(cost)
          /\ Distinct(told.open) /\ Elements(told.open) = OpenIds
      BY <1>3, <2>6
    <3>2. Replay(q, fund \o (<<e>> \o cancels)) = r
      <4> DEFINE one  == <<e>>
                 rest == one \o cancels
      <4> HIDE DEF cancels
      <4>1. Replay(told, one) = after
        BY <2>3, <3>1, ApplyType, ReplayOne
      <4>2. one \in Seq(AccountEvent)
        BY <2>3
      <4> HIDE DEF one
      <4>3. rest \in Seq(AccountEvent)
        BY <2>2, <4>2
      <4> HIDE DEF told
      <4>4. Replay(told, rest) = Replay(Replay(told, one), cancels)
        BY <2>2, <3>1, <4>2, ApplyType, ReplayConcat
      <4> HIDE DEF rest
      <4>5. Replay(q, fund \o rest) = Replay(told, rest)
        BY <4>3, ApplyType, ReplayConcat DEF told
      <4> QED
        BY <4>1, <4>4, <4>5 DEF rest, one
    <3> HIDE DEF told
    <3>3. \A i \in Instruments : sold.positions[i] = [net |-> shadow'[i].net, avg |-> shadow'[i].avg]
      BY <1>5, <2>4, <3>1, TradeFollows
    <3>4. /\ sold \in PortfolioOf /\ sold.open = told.open
          /\ sold.cash = told.cash - e.side * Notional(e.price, e.qty) - e.fee
      BY <2>4, <3>1, SettleFacts
    <3>5. /\ after \in PortfolioOf
          /\ after.positions = sold.positions /\ after.cash = sold.cash /\ after.open = sold.open
      <4>1. PICK pnl \in Int : after = [sold EXCEPT !.liquidationPnl = pnl]
        BY <3>1, LiquidationFacts
      <4>2. after \in PortfolioOf
        BY <3>1, LiquidationFacts
      <4> HIDE DEF sold, after
      <4> QED
        BY <3>4, <4>1, <4>2 DEF PortfolioOf
    <3> HIDE DEF after
    <3>6. /\ r.positions = after.positions /\ r.cash = after.cash
          /\ Elements(r.open) = Elements(after.open) \ Elements(gone)
          /\ Distinct(after.open) => Distinct(r.open)
      BY <2>1, <3>5, ReplayCancels
    <3> HIDE DEF r
    <3>7. cash' # None => r.cash = cash'
      <4>1. CASE cash = None
        BY <1>5, <4>1 DEF Settled, Charged
      <4>2. CASE cash # None
        <5>1. Charged(cost) \in Int
          BY <1>1, <4>2 DEF Charged, TypeOK
        <5>2. Charged(cost) # None
          BY <5>1, ConstantsAssumption
        <5>3. cash' = told.cash - e.side * Notional(e.price, e.qty) - e.fee
          BY <1>5, <3>1, <4>2, <5>2 DEF Settled
        <5> QED
          BY <3>4, <3>5, <3>6, <5>3
      <4> QED
        BY <4>1, <4>2
    <3>8. Distinct(r.open) /\ Elements(r.open) = OpenIds'
      BY <2>5, <3>1, <3>4, <3>5, <3>6
    <3>9. \A i \in Instruments : r.positions[i] = [net |-> shadow'[i].net, avg |-> shadow'[i].avg]
      BY <3>3, <3>5, <3>6
    <3>10. Follows(r)'
      BY <3>7, <3>8, <3>9 DEF Follows
    <3> QED
      BY <3>2, <3>10
  <2> DEFINE one  == <<e>>
             rest == one \o cancels
  <2> HIDE DEF cancels
  <2>7. one \in Seq(AccountEvent) /\ Elements(one) = {e}
    <3>1. DOMAIN one = {1} /\ one[1] = e
      OBVIOUS
    <3> QED
      BY <2>3, <3>1 DEF Elements
  <2> HIDE DEF one
  <2>8. rest \in Seq(AccountEvent)
    BY <2>2, <2>7
  <2>9. events = fund \o rest
    BY DEF one
  <2>10. events \in Seq(AccountEvent) /\ sink' = sink \o events
    <3>2. events \in Seq(AccountEvent)
      <4> HIDE DEF rest, events
      <4> QED
        BY <2>8, <2>9
    <3> DEFINE before == sink \o fund
               through == before \o one
    <3>3. /\ Joins(before, sink, fund) /\ Joins(through, before, one)
          /\ Joins(sink', through, cancels)
          /\ Joins(rest, one, cancels) /\ Joins(events, fund, rest)
      BY <1>5, <2>9 DEF Joins, cancels, one
    <3>4. cancels \in Seq(AccountEvent)
      BY <2>2
    <3> HIDE DEF before, through, rest, events
    <3>5. Joins(sink', sink, events)
      BY <2>7, <3>3, <3>4, ConcatRegroups
    <3> QED
      BY <3>2, <3>5 DEF Joins
  <2>11. \A n \in DOMAIN events :
          IsTrade(events[n]) => bar # None /\ events[n].instrument = bar.instrument
    <3>1. Elements(rest) = {e} \cup Elements(cancels)
      BY <2>2, <2>7, ConcatElements
    <3> HIDE DEF rest, events
    <3>2. Elements(events) = Elements(fund) \cup ({e} \cup Elements(cancels))
      BY <2>8, <2>9, <3>1, ConcatElements
    <3>3. \A d \in Elements(events) : IsTrade(d) => d = e
      BY <1>2, <2>2, <3>2 DEF Elements
    <3> QED
      BY <1>2, <1>5, <3>3 DEF Elements
  <2>12. Tells(events)
    <3> HIDE DEF events
    <3>1. \A q \in PortfolioOf : Follows(q) => Follows(Replay(q, events))'
      BY <2>6 DEF events
    <3> QED
      BY <2>10, <2>11, <3>1 DEF Tells
  <2> QED
    BY <2>12
<1> QED
  BY <1>1, <1>4, <1>5

\* So every step the venue takes, in a call or while it observes a bar, tells
\* of all it changes that an account knows of.
LEMMA VenueTells ==
  ASSUME TypeOK, BookInv, OrderInv, sink \in Seq(AccountEvent), CallStep \/ Observing
  PROVE  \E events : Tells(events)
<1>1. CASE CallStep
  BY <1>1, SubmitTells, CancelTells, BeginObserveTells DEF CallStep
<1>2. ASSUME NEW id \in Ids, Match(id) PROVE \E events : Tells(events)
  <2>1. CASE SkipOtherInstrument(id) \/ AwaitLatency(id)
    BY <2>1, SkipTells
  <2>2. CASE LeavesUnfilled(id)
    BY <2>2, UnfilledTurn, TurnTells
  <2>3. CASE StageFill(id)
    BY <2>3, StageFillTurn, TurnTells
  <2> QED
    BY <1>2, <2>1, <2>2, <2>3 DEF Match, LeavesUnfilled
<1>3. CASE EmitFill \/ ResolveOco \/ FinishObserve
  BY <1>3, EmitFillTells, ResolveOcoTells, FinishObserveTells
<1> QED
  BY <1>1, <1>2, <1>3 DEF Observing

-----------------------------------------------------------------------------
(* The loop's own state *)

Command ==
  [type : {"Submit"}, id : Ids, request : Requests] \cup [type : {"Cancel"}, id : Ids]

LoopTypes ==
  /\ portfolio \in PortfolioOf /\ sink \in Seq(AccountEvent)
  /\ commands \in Seq(Command) /\ issued \in Nat
  /\ timers \in Seq([at : Nat, setAt : Nat])
  /\ market \in [Instruments -> Nat]
  /\ now \in Nat /\ delivered \in Nat

LoopInv == TypeOK /\ BookInv /\ OrderInv /\ LoopTypes

\* How a step of the loop moves the venue, its events and the account.
VenueMoves   == (CallStep \/ Observing) /\ UNCHANGED portfolio
CallerWaits  == CallerStep /\ UNCHANGED <<portfolio, sink>>
CallerTells  == CallerStep /\ UNCHANGED portfolio /\ sink' = Append(sink, Resync)
CallerLearns ==
  /\ CallerStep /\ sink # << >>
  /\ portfolio' = Apply(portfolio, Head(sink)) /\ sink' = Tail(sink)

\* It calls the venue, does nothing to it, pushes a resync or takes an event.
LEMMA LoopMoves ==
  ASSUME LoopInv, [EngineNext]_allVars
  PROVE  VenueMoves \/ CallerWaits \/ CallerTells \/ CallerLearns
<1>1. CASE BarArrives
  BY <1>1 DEF BarArrives, VenueMoves, CallStep
<1>2. CASE VenueObserves
  BY <1>2 DEF VenueObserves, VenueMoves
<1>3. CASE Route
  <2>1. Head(commands) \in Command /\ UNCHANGED portfolio
    BY <1>3 DEF Route, LoopInv, LoopTypes
  <2> DEFINE action == Head(commands)
  <2>2. \/ action.type = "Submit" /\ Submit(action.id, action.request)
        \/ action.type = "Cancel" /\ Cancel(action.id)
    BY <1>3 DEF Route
  <2> HIDE DEF action
  <2>3. action \in Command
    BY <2>1 DEF action
  <2>4. action.id \in Ids /\ (action.type = "Submit" => action.request \in Requests)
    BY <2>3 DEF Command
  <2>5. CallStep
    BY <2>2, <2>4 DEF CallStep
  <2> QED
    BY <2>1, <2>5 DEF VenueMoves
<1>4. CASE Deliver
  BY <1>4 DEF Deliver, CallerLearns, CallerStep
<1>5. CASE NoticeArrives
  <2>1. CallerStep /\ UNCHANGED portfolio
    BY <1>5 DEF NoticeArrives, CallerStep
  <2>2. sink' = Append(sink, Resync) \/ sink' = sink
    BY <1>5 DEF NoticeArrives
  <2> QED
    BY <2>1, <2>2 DEF CallerTells, CallerWaits
<1>6. CASE UNCHANGED <<vars, portfolio>>
  BY <1>6 DEF CallerWaits, CallerStep, vars
<1>7. \/ BarArrives \/ VenueObserves \/ Route \/ Deliver \/ NoticeArrives
      \/ UNCHANGED <<vars, portfolio>>
  BY DEF EngineNext, Steps, OnStart, PushBar, FeedEnds, FireTimer, OnBarOrStop, AfterNotice,
         NextTurn, allVars, engineVars
<1> QED
  BY <1>1, <1>2, <1>3, <1>4, <1>5, <1>6, <1>7

\* So the venue's invariants are the loop's.
LEMMA LoopKeepsVenue ==
  ASSUME LoopInv, [EngineNext]_allVars
  PROVE  TypeOK' /\ BookInv' /\ OrderInv'
<1>1. VenueStep
  BY LoopMoves DEF VenueStep, VenueMoves, CallerWaits, CallerTells, CallerLearns
<1> QED
  BY <1>1, StepType, StepBook, StepOrders DEF LoopInv

\* And the events and the account keep their types.
LEMMA LoopKeepsAccount ==
  ASSUME LoopInv, [EngineNext]_allVars
  PROVE  portfolio' \in PortfolioOf /\ sink' \in Seq(AccountEvent)
<1>1. portfolio \in PortfolioOf /\ sink \in Seq(AccountEvent)
  BY DEF LoopInv, LoopTypes
<1>2. CASE VenueMoves
  <2>1. PICK events : Tells(events)
    BY <1>1, <1>2, VenueTells DEF VenueMoves, LoopInv
  <2>2. events \in Seq(AccountEvent) /\ sink' = sink \o events
    BY <2>1 DEF Tells
  <2> QED
    BY <1>1, <1>2, <2>2 DEF VenueMoves
<1>3. CASE CallerWaits
  BY <1>1, <1>3 DEF CallerWaits
<1>4. CASE CallerTells
  <2>1. Resync \in AccountEvent
    BY DEF AccountEvent
  <2> QED
    BY <1>1, <1>4, <2>1 DEF CallerTells
<1>5. CASE CallerLearns
  <2>1. Head(sink) \in AccountEvent /\ Tail(sink) \in Seq(AccountEvent)
    BY <1>1, <1>5 DEF CallerLearns
  <2> QED
    BY <1>1, <1>5, <2>1, ApplyType DEF CallerLearns, ClosedUnder
<1> QED
  BY <1>2, <1>3, <1>4, <1>5, LoopMoves

-----------------------------------------------------------------------------
(* What the strategy asks for *)

Queued(id) == \E c \in Elements(commands) : IsSubmission(c) /\ c.id = id

\* The actions a callback queues: at most one of them is a submission, and it
\* bears the next id.
QueuedActions(actions) ==
  \/ \A n \in DOMAIN actions : ~IsSubmission(actions[n])
  \/ /\ issued + 1 \in Ids
     /\ \E m \in DOMAIN actions :
          \A n \in DOMAIN actions :
            IsSubmission(actions[n]) <=> n = m /\ actions[n].id = issued + 1

\* What queueing them does.
LEMMA EnqueueFacts ==
  ASSUME LoopTypes, NEW actions \in Seq(Command), QueuedActions(actions), Enqueue(actions)
  PROVE  /\ commands' \in Seq(Command) /\ issued' \in Nat
         /\ \/ issued' = issued /\ \A id \in Ids : Queued(id)' <=> Queued(id)
            \/ /\ issued' = issued + 1
               /\ \A id \in Ids : Queued(id)' <=> Queued(id) \/ id = issued + 1
<1> DEFINE asked == {n \in DOMAIN actions : IsSubmission(actions[n])}
<1>1. commands \in Seq(Command) /\ issued \in Nat
  BY DEF LoopTypes
<1>2. commands' = commands \o actions /\ issued' = issued + Cardinality(asked)
  BY DEF Enqueue
<1>3. commands' \in Seq(Command)
  BY <1>1, <1>2
<1>4. Elements(commands') = Elements(commands) \cup Elements(actions)
  BY <1>1, <1>2, ConcatElements
<1>5. CASE \A n \in DOMAIN actions : ~IsSubmission(actions[n])
  <2>1. asked = {}
    BY <1>5
  <2>2. issued' = issued
    <3> HIDE DEF asked
    <3> QED
      BY <1>1, <1>2, <2>1, FS_EmptySet
  <2>3. \A c \in Elements(actions) : ~IsSubmission(c)
    BY <1>5 DEF Elements
  <2>4. \A id \in Ids : Queued(id)' <=> Queued(id)
    BY <1>4, <2>3 DEF Queued
  <2> QED
    BY <1>1, <1>3, <2>2, <2>4
<1>6. CASE \E m \in DOMAIN actions :
             \A n \in DOMAIN actions :
               IsSubmission(actions[n]) <=> n = m /\ actions[n].id = issued + 1
  <2>1. PICK m \in DOMAIN actions :
          \A n \in DOMAIN actions :
            IsSubmission(actions[n]) <=> n = m /\ actions[n].id = issued + 1
    BY <1>6
  <2>2. CASE IsSubmission(actions[m])
    <3>1. asked = {m} /\ actions[m].id = issued + 1
      BY <2>1, <2>2
    <3>2. issued' = issued + 1
      <4> HIDE DEF asked
      <4>1. Cardinality({m}) = 1
        BY FS_Singleton
      <4> QED
        BY <1>2, <3>1, <4>1
    <3>3. \A id : (\E c \in Elements(actions) : IsSubmission(c) /\ c.id = id) <=> id = issued + 1
      BY <2>1, <2>2, <3>1 DEF Elements
    <3>4. \A id \in Ids : Queued(id)' <=> Queued(id) \/ id = issued + 1
      BY <1>4, <3>3 DEF Queued
    <3> QED
      BY <1>1, <1>3, <3>2, <3>4
  <2>3. CASE ~IsSubmission(actions[m])
    BY <1>5, <2>1, <2>3
  <2> QED
    BY <2>2, <2>3
<1> QED
  BY <1>5, <1>6 DEF QueuedActions

\* What a callback asks for has its type, and what it does to the queue.
LEMMA CallbackFacts ==
  ASSUME LoopTypes, Callback
  PROVE  /\ commands' \in Seq(Command) /\ issued' \in Nat
         /\ \/ issued' = issued /\ \A id \in Ids : Queued(id)' <=> Queued(id)
            \/ /\ issued' = issued + 1
               /\ \A id \in Ids : Queued(id)' <=> Queued(id) \/ id = issued + 1
         /\ \/ UNCHANGED timers
            \/ \E at \in Nat : timers' = Append(timers, [at |-> at, setAt |-> delivered])
<1>1. CASE SetTimer
  <2>1. UNCHANGED <<commands, issued>>
    BY <1>1 DEF SetTimer
  <2>2. \A id \in Ids : Queued(id)' <=> Queued(id)
    BY <2>1 DEF Queued
  <2>3. \E at \in Nat : timers' = Append(timers, [at |-> at, setAt |-> delivered])
    <3>1. \A at \in now..now + 1 : at \in Nat
      BY DEF LoopTypes
    <3> QED
      BY <1>1, <3>1 DEF SetTimer
  <2> QED
    BY <2>1, <2>2, <2>3 DEF LoopTypes
<1>2. CASE QueueActions
  <2> DEFINE cancels == IF requested.cancels < MaxCancels
                        THEN {Cancellation(id) : id \in {i \in Ids : i <= issued}} ELSE {}
             submits == {Submission(issued + 1, o) :
                           o \in IF issued + 1 \in Ids THEN Requests ELSE {}}
  <2>1. PICK actions \in {<< >>} \cup {<<a>> : a \in cancels \cup submits}
                     \cup {<<c, d>> : c \in cancels, d \in submits} : Enqueue(actions)
    BY <1>2 DEF QueueActions
  <2>2. UNCHANGED timers
    BY <1>2 DEF QueueActions
  <2>3. \A c \in cancels : c \in Command /\ ~IsSubmission(c)
    BY DEF Cancellation, Command, IsSubmission
  <2>4. \A d \in submits : d \in Command /\ IsSubmission(d) /\ d.id = issued + 1 /\ issued + 1 \in Ids
    BY DEF Submission, Command, IsSubmission
  <2> HIDE DEF cancels, submits
  <2>5. actions \in Seq(Command) /\ QueuedActions(actions)
    <3>1. CASE actions = << >>
      BY <3>1 DEF QueuedActions
    <3>2. ASSUME NEW c \in cancels, actions = <<c>> PROVE actions \in Seq(Command) /\ QueuedActions(actions)
      <4>1. DOMAIN actions = {1} /\ actions[1] = c
        BY <3>2
      <4> QED
        BY <2>3, <3>2, <4>1 DEF QueuedActions
    <3>3. ASSUME NEW d \in submits, actions = <<d>> PROVE actions \in Seq(Command) /\ QueuedActions(actions)
      <4>1. DOMAIN actions = {1} /\ actions[1] = d
        BY <3>3
      <4> QED
        BY <2>4, <3>3, <4>1 DEF QueuedActions
    <3>4. ASSUME NEW c \in cancels, NEW d \in submits, actions = <<c, d>>
          PROVE  actions \in Seq(Command) /\ QueuedActions(actions)
      <4>1. DOMAIN actions = {1, 2} /\ actions[1] = c /\ actions[2] = d
        BY <3>4
      <4>2. actions \in Seq(Command)
        BY <2>3, <2>4, <3>4
      <4>3. \A n \in DOMAIN actions :
              IsSubmission(actions[n]) <=> n = 2 /\ actions[n].id = issued + 1
        BY <2>3, <2>4, <4>1
      <4>4. QueuedActions(actions)
        BY <2>4, <4>1, <4>3 DEF QueuedActions
      <4> QED
        BY <4>2, <4>4
    <3> QED
      BY <2>1, <3>1, <3>2, <3>3, <3>4
  <2>6. /\ commands' \in Seq(Command) /\ issued' \in Nat
        /\ \/ issued' = issued /\ \A id \in Ids : Queued(id)' <=> Queued(id)
           \/ /\ issued' = issued + 1
              /\ \A id \in Ids : Queued(id)' <=> Queued(id) \/ id = issued + 1
    BY <2>1, <2>5, EnqueueFacts
  <2> QED
    BY <2>2, <2>6
<1> QED
  BY <1>1, <1>2 DEF Callback

\* The timers left when those due are taken are due later.
LEMMA TimersTaken ==
  ASSUME LoopTypes, NEW time \in Nat, TakeDueTimers(time)
  PROVE  /\ timers' \in Seq([at : Nat, setAt : Nat])
         /\ \A n \in DOMAIN timers' : timers'[n].at \in Nat /\ ~(timers'[n].at <= time)
<1> DEFINE Timer   == [at : Nat, setAt : Nat]
           waiting == {t \in Range(timers) : t.at > time}
<1>1. timers' = Keep(timers, waiting) /\ timers \in Seq(Timer)
  BY DEF TakeDueTimers, LoopTypes
<1> HIDE DEF Timer
<1>2. timers' \in Seq(Timer) /\ Elements(timers') = Elements(timers) \cap waiting
  BY <1>1, KeepFacts
<1>3. \A n \in DOMAIN timers' : timers'[n] \in waiting /\ timers'[n] \in Timer
  BY <1>2 DEF Elements
<1>4. \A n \in DOMAIN timers' : timers'[n].at \in Nat /\ timers'[n].at > time
  BY <1>3 DEF Timer
<1> QED
  BY <1>2, <1>4 DEF Timer

\* The steps in which the strategy is called, and those in which due timers
\* are taken.
Calling ==
  /\ OnStart \/ Deliver \/ FireTimer \/ OnBarOrStop
  /\ Callback /\ UNCHANGED <<event, now, market, delivered>>
Sweeping ==
  /\ \E time \in Nat : TakeDueTimers(time) /\ now' = time
  /\ PushBar \/ NoticeArrives \/ FeedEnds
Quiet ==
  /\ VenueObserves \/ AfterNotice \/ NextTurn \/ UNCHANGED allVars
  /\ UNCHANGED <<event, now, gate, market, delivered>>

\* Each step of the loop is of one of five kinds.
LEMMA LoopSteps ==
  ASSUME LoopTypes, [EngineNext]_allVars
  PROVE  Calling \/ Sweeping \/ Quiet \/ BarArrives \/ Route
<1>1. CASE OnStart \/ Deliver \/ FireTimer \/ OnBarOrStop
  BY <1>1 DEF OnStart, Deliver, FireTimer, OnBarOrStop, Calling
<1>2. CASE VenueObserves \/ AfterNotice \/ NextTurn
  BY <1>2 DEF VenueObserves, AfterNotice, NextTurn, Quiet
<1>3. CASE PushBar \/ FeedEnds
  <2>1. TakeDueTimers(now) /\ now' = now /\ now \in Nat
    BY <1>3 DEF PushBar, FeedEnds, LoopTypes
  <2> QED
    BY <1>3, <2>1 DEF Sweeping
<1>4. CASE NoticeArrives
  <2>1. now' \in now..now + 1 /\ TakeDueTimers(now')
    BY <1>4 DEF NoticeArrives, Arrives
  <2>2. now' \in Nat
    BY <2>1 DEF LoopTypes
  <2> QED
    BY <1>4, <2>1, <2>2 DEF Sweeping
<1>5. CASE UNCHANGED allVars
  BY <1>5 DEF allVars, engineVars, Quiet
<1> QED
  BY <1>1, <1>2, <1>3, <1>4, <1>5 DEF EngineNext, Steps

\* The loop's state keeps its types.
LEMMA LoopKeepsTypes ==
  ASSUME LoopInv, [EngineNext]_allVars
  PROVE  LoopTypes'
<1>1. LoopTypes /\ portfolio' \in PortfolioOf /\ sink' \in Seq(AccountEvent)
  BY LoopKeepsAccount DEF LoopInv
<1>2. commands' \in Seq(Command) /\ issued' \in Nat /\ timers' \in Seq([at : Nat, setAt : Nat])
  <2>1. CASE Calling
    <3>1. commands' \in Seq(Command) /\ issued' \in Nat
      BY <1>1, <2>1, CallbackFacts DEF Calling
    <3>2. CASE UNCHANGED timers
      BY <1>1, <3>1, <3>2 DEF LoopTypes
    <3>3. ASSUME NEW at \in Nat, timers' = Append(timers, [at |-> at, setAt |-> delivered])
          PROVE  timers' \in Seq([at : Nat, setAt : Nat])
      <4>1. [at |-> at, setAt |-> delivered] \in [at : Nat, setAt : Nat]
        BY <1>1 DEF LoopTypes
      <4> DEFINE Timer == [at : Nat, setAt : Nat]
                 timer == [at |-> at, setAt |-> delivered]
      <4>2. timers \in Seq(Timer) /\ timer \in Timer /\ timers' = Append(timers, timer)
        BY <1>1, <3>3, <4>1 DEF LoopTypes
      <4> HIDE DEF Timer, timer
      <4>3. timers' \in Seq(Timer)
        BY <4>2
      <4> QED
        BY <4>3 DEF Timer
    <3> QED
      BY <1>1, <2>1, <3>1, <3>2, <3>3, CallbackFacts DEF Calling
  <2>2. CASE Sweeping
    <3>1. UNCHANGED <<commands, issued>>
      BY <2>2 DEF Sweeping, TakeDueTimers
    <3> QED
      BY <1>1, <2>2, <3>1, TimersTaken DEF Sweeping, LoopTypes
  <2>3. CASE Quiet \/ BarArrives
    BY <1>1, <2>3 DEF Quiet, BarArrives, gate, LoopTypes
  <2>4. CASE Route
    BY <1>1, <2>4 DEF Route, LoopTypes
  <2> QED
    BY <1>1, <2>1, <2>2, <2>3, <2>4, LoopSteps
<1>3. market' \in [Instruments -> Nat]
  <2>1. CASE PushBar
    <3>1. market' = [market EXCEPT ![event.instrument] = @ + 1] /\ market \in [Instruments -> Nat]
      BY <1>1, <2>1 DEF PushBar, LoopTypes
    <3>2. \A i \in Instruments : market[i] + 1 \in Nat
      BY <3>1
    <3> QED
      BY <3>1, <3>2
  <2>2. UNCHANGED market \/ PushBar
    BY <1>1, LoopSteps DEF Calling, Sweeping, Quiet, BarArrives, Route, NoticeArrives, FeedEnds
  <2> QED
    BY <1>1, <2>1, <2>2 DEF LoopTypes
<1>4. now' \in Nat /\ delivered' \in Nat
  <2>1. now \in Nat /\ delivered \in Nat
    BY <1>1 DEF LoopTypes
  <2>2. CASE BarArrives \/ NoticeArrives
    <3>1. now' \in now..now + 1 /\ delivered' = delivered + 1
      BY <2>2 DEF BarArrives, NoticeArrives, Arrives
    <3> QED
      BY <2>1, <3>1
  <2>3. BarArrives \/ NoticeArrives \/ UNCHANGED <<now, delivered>>
    BY <1>1, LoopSteps DEF Calling, Sweeping, Quiet, Route, PushBar, FeedEnds
  <2> QED
    BY <2>1, <2>2, <2>3
<1> QED
  BY <1>1, <1>2, <1>3, <1>4 DEF LoopTypes

\* The account the run opens with.
LEMMA InitLoop ==
  ASSUME EngineInit
  PROVE  LoopInv /\ sink = << >> /\ portfolio.held = {} /\ Balance(portfolio) = InitialCash
<1>1. /\ TypeOK /\ BookInv /\ OrderInv /\ sink = << >>
  BY InitType, InitBook, InitOrders DEF EngineInit, Init
<1>2. portfolio = OpenPortfolio(Instruments, InitialCash) /\ InitialCash \in Int
  BY EngineAssumption DEF EngineInit
<1>3. portfolio \in PortfolioOf
  BY <1>2 DEF OpenPortfolio, PortfolioOf, Position
<1>4. /\ commands = << >> /\ timers = << >> /\ issued = 0 /\ now = 0 /\ delivered = 0
      /\ market = [i \in Instruments |-> 0]
  BY DEF EngineInit
<1>5. LoopTypes
  BY <1>1, <1>3, <1>4 DEF LoopTypes
<1>6. Balance(portfolio) = InitialCash
  <2>1. \A i \in Instruments : Costs(portfolio)[i] = 0
    BY <1>2 DEF Costs, Cost, OpenPortfolio
  <2>2. SumFunctionOnSet(Costs(portfolio), Instruments) = 0
    BY <2>1, SumZero, EngineAssumption
  <2>3. /\ portfolio.cash = InitialCash /\ portfolio.realized = 0 /\ portfolio.tradingFees = 0
        /\ portfolio.fundingNet = 0 /\ portfolio.rounding = 0
    BY <1>2 DEF OpenPortfolio
  <2> QED
    BY <1>2, <2>2, <2>3 DEF Balance
<1> QED
  BY <1>1, <1>2, <1>5, <1>6 DEF LoopInv, OpenPortfolio

\* Every state of the loop is typed, and the venue's invariants hold in it.
LEMMA LoopStep == ASSUME LoopInv, [EngineNext]_allVars PROVE LoopInv'
  BY LoopKeepsVenue, LoopKeepsTypes DEF LoopInv

-----------------------------------------------------------------------------
(* Cash reconciles *)

Balanced == {p \in PortfolioOf : Balance(p) = InitialCash}

\* Whatever the strategy, the bars, the fees, the funding and the liquidations,
\* cash and the cost of what is held are at every moment what the account
\* opened with and has realized, less fees and funding, but for rounding.
THEOREM CashAlwaysReconciles == EngineSpec => []CashReconciles
<1>1. EngineInit => LoopInv /\ portfolio \in Balanced
  BY InitLoop DEF Balanced, LoopInv, LoopTypes
<1>2. LoopInv /\ portfolio \in Balanced /\ [EngineNext]_allVars => LoopInv' /\ (portfolio \in Balanced)'
  <2> SUFFICES ASSUME LoopInv, portfolio \in Balanced, [EngineNext]_allVars
               PROVE  LoopInv' /\ (portfolio \in Balanced)'
    OBVIOUS
  <2>1. CASE UNCHANGED portfolio
    BY <2>1, LoopStep
  <2>2. CASE CallerLearns
    <3>1. Head(sink) \in AccountEvent /\ portfolio \in PortfolioOf /\ Balance(portfolio) = InitialCash
      BY <2>2 DEF CallerLearns, LoopInv, LoopTypes, Balanced
    <3>2. Balance(Apply(portfolio, Head(sink))) = InitialCash
      BY <3>1, ApplyBalance
    <3>3. Apply(portfolio, Head(sink)) \in PortfolioOf
      BY <3>1, ApplyType DEF ClosedUnder
    <3>4. (portfolio \in Balanced)'
      BY <2>2, <3>2, <3>3 DEF CallerLearns, Balanced
    <3> QED
      BY <3>4, LoopStep
  <2> QED
    BY <2>1, <2>2, LoopMoves DEF VenueMoves, CallerWaits, CallerTells
<1>3. LoopInv /\ portfolio \in Balanced => CashReconciles
  <2> SUFFICES ASSUME LoopInv, portfolio \in Balanced PROVE CashReconciles
    OBVIOUS
  <2>1. /\ portfolio.cash \in Int /\ portfolio.realized \in Int /\ portfolio.tradingFees \in Int
        /\ portfolio.fundingNet \in Int /\ portfolio.rounding \in Int /\ InitialCash \in Int
    BY EngineAssumption DEF LoopInv, LoopTypes, PortfolioOf
  <2>2. SumFunctionOnSet(Costs(portfolio), Instruments) \in Int
    <3>1. \A i \in Instruments : Costs(portfolio)[i] \in Int
      <4>1. \A i \in Instruments : portfolio.positions[i].net \in Int
                                   /\ portfolio.positions[i].avg \in Int
        BY DEF LoopInv, LoopTypes, PortfolioOf, Position
      <4> QED
        BY <4>1, IntTimes DEF Costs, Cost
    <3> QED
      BY <3>1, SumType, EngineAssumption
  <2>3. portfolio.cash + SumFunctionOnSet(Costs(portfolio), Instruments)
          = InitialCash + portfolio.realized - portfolio.tradingFees
              - portfolio.fundingNet + portfolio.rounding
    BY <2>1, <2>2 DEF Balance, Balanced
  <2> QED
    BY <2>3 DEF CashReconciles, Costs, Cost
<1> QED
  BY <1>1, <1>2, <1>3, PTL DEF EngineSpec

-----------------------------------------------------------------------------
(* The strategy's account mirrors the venue's                               *)
(*                                                                          *)
(* The account the strategy reads lags behind the venue by the events in    *)
(* the sink.  The one it would have, were they all delivered, follows the   *)
(* venue at every moment, also while a bar is being observed.               *)

\* The run opens the venue's cash guard with the account's own cash.
SameOpening == StartingCash # None => InitialCash = StartingCash

\* Delivering an event takes it from the sink and changes nothing of the
\* account once all of them are delivered.
LEMMA FollowStep ==
  ASSUME LoopInv, Follows(CaughtUp), [EngineNext]_allVars
  PROVE  Follows(CaughtUp)'
<1>1. portfolio \in PortfolioOf /\ sink \in Seq(AccountEvent)
  BY DEF LoopInv, LoopTypes
<1>2. CaughtUp \in PortfolioOf
  BY <1>1, ApplyType, ReplayHead DEF CaughtUp
<1>3. CASE VenueMoves
  <2>1. PICK events : Tells(events)
    BY <1>1, <1>3, VenueTells DEF VenueMoves, LoopInv
  <2>2. CaughtUp' = Replay(CaughtUp, events)
    <3>1. events \in Seq(AccountEvent) /\ sink' = sink \o events /\ portfolio' = portfolio
      BY <1>3, <2>1 DEF Tells, VenueMoves
    <3>2. Replay(portfolio, sink \o events) = Replay(Replay(portfolio, sink), events)
      BY <1>1, <3>1, ApplyType, ReplayConcat
    <3> QED
      BY <3>1, <3>2 DEF CaughtUp
  <2>3. PICK q \in PortfolioOf : q = CaughtUp
    BY <1>2
  <2>4. Follows(q)
    BY <2>3 DEF Follows
  <2>5. Follows(Replay(q, events))'
    BY <2>1, <2>4 DEF Tells
  <2>6. CaughtUp' = Replay(q, events)
    BY <2>2, <2>3
  <2> QED
    BY <2>5, <2>6 DEF Follows
<1>4. CASE CaughtUp' = CaughtUp /\ CallerStep
  <2>1. UNCHANGED <<shadow, cash>> /\ OpenIds' = OpenIds
    BY <1>4 DEF CallerStep, OpenIds
  <2> QED
    BY <1>4, <2>1 DEF Follows
<1>5. CASE CallerWaits
  <2>1. CaughtUp' = CaughtUp
    BY <1>5 DEF CallerWaits, CaughtUp
  <2> QED
    BY <1>4, <1>5, <2>1 DEF CallerWaits
<1>6. CASE CallerTells
  <2> DEFINE one == <<Resync>>
  <2>1. Resync \in AccountEvent /\ \A q : Apply(q, Resync) = q
    BY ApplyCases DEF AccountEvent, Resync
  <2>2. one \in Seq(AccountEvent) /\ sink' = sink \o one /\ portfolio' = portfolio
    BY <1>1, <1>6, <2>1 DEF CallerTells
  <2>3. Replay(CaughtUp, one) = CaughtUp
    BY <1>2, <2>1, ApplyType, ReplayOne
  <2> HIDE DEF one
  <2>4. Replay(portfolio, sink \o one) = Replay(CaughtUp, one)
    BY <1>1, <2>2, ApplyType, ReplayConcat DEF CaughtUp
  <2>5. CaughtUp' = CaughtUp
    BY <2>2, <2>3, <2>4 DEF CaughtUp
  <2> QED
    BY <1>4, <1>6, <2>5 DEF CallerTells
<1>7. CASE CallerLearns
  <2>1. Replay(Apply(portfolio, Head(sink)), Tail(sink)) = Replay(portfolio, sink)
    BY <1>1, <1>7, ApplyType, ReplayHead DEF CallerLearns
  <2>2. CaughtUp' = CaughtUp
    BY <1>7, <2>1 DEF CaughtUp, CallerLearns
  <2> QED
    BY <1>4, <1>7, <2>2 DEF CallerLearns
<1> QED
  BY <1>3, <1>5, <1>6, <1>7, LoopMoves

\* Between the calls of the venue, and once the events under way are
\* delivered, the strategy's account has the venue's positions, averages and
\* cash, and the orders on its book, each once: by events alone, whatever the
\* venue did and in whatever order the loop routes, observes and drains.
THEOREM AccountMirrorsVenue == ASSUME SameOpening PROVE EngineSpec => []MirrorsAgree
<1>1. EngineInit => LoopInv /\ Follows(CaughtUp)
  <2> SUFFICES ASSUME EngineInit PROVE Follows(CaughtUp)
    BY InitLoop
  <2>1. portfolio \in PortfolioOf /\ sink = << >> /\ sink \in Seq(AccountEvent)
    BY InitLoop DEF LoopInv, LoopTypes
  <2>2. CaughtUp = portfolio
    BY <2>1, ApplyType, ReplayHead DEF CaughtUp
  <2>3. /\ portfolio = OpenPortfolio(Instruments, InitialCash)
        /\ shadow = [i \in Instruments |-> [net |-> 0, avg |-> 0, bars |-> 0, mark |-> 0]]
        /\ cash = StartingCash /\ \A id \in Ids : ledger[id].stage = "unused"
    BY DEF EngineInit, Init
  <2>4. OpenIds = {} /\ Elements(<< >>) = {} /\ Distinct(<< >>)
    BY <2>3 DEF OpenIds, Elements, Distinct
  <2>5. Follows(portfolio)
    BY <2>3, <2>4 DEF Follows, OpenPortfolio, SameOpening
  <2> QED
    BY <2>2, <2>5
<1>2. LoopInv /\ Follows(CaughtUp) /\ [EngineNext]_allVars => LoopInv' /\ Follows(CaughtUp)'
  BY LoopStep, FollowStep
<1>3. LoopInv /\ Follows(CaughtUp) => MirrorsAgree
  <2> SUFFICES ASSUME LoopInv, Follows(CaughtUp), Idle PROVE MirrorsAgree
    BY DEF MirrorsAgree
  <2>1. OnBook = OpenIds
    <3>1. pending = << >> /\ Finishing = {}
      BY DEF LoopInv, BookInv, Finishing
    <3>2. Held = resting
      BY <3>1 DEF LoopInv, TypeOK, Held
    <3> QED
      BY <3>1, <3>2 DEF LoopInv, BookInv, Elements, OnBook
  <2>2. CaughtUp \in PortfolioOf
    BY ApplyType, ReplayHead DEF CaughtUp, LoopInv, LoopTypes
  <2> DEFINE open == CaughtUp.open
  <2>3. open \in Seq(Ids) /\ Distinct(open) /\ Elements(open) = OpenIds
    BY <2>2 DEF Follows, PortfolioOf
  <2> HIDE DEF open
  <2>4. Range(open) = OnBook /\ Len(open) = Cardinality(OnBook)
    <3>1. Range(open) = Elements(open)
      BY DEF Range, Elements
    <3>2. Len(open) \in Nat /\ DOMAIN open = 1..Len(open)
      BY <2>3
    <3>3. open \in Bijection(1..Len(open), Elements(open))
      BY <2>3, <3>2 DEF Bijection, Injection, Surjection, IsInjective, Elements, Distinct
    <3>4. ExistsBijection(1..Len(open), Elements(open))
      BY <3>3 DEF ExistsBijection
    <3>5. Cardinality(Elements(open)) = Len(open)
      BY <3>2, <3>4, FS_CountingElements
    <3> QED
      BY <2>1, <2>3, <3>1, <3>5
  <2> QED
    BY <2>4 DEF MirrorsAgree, Follows, open
<1> QED
  BY <1>1, <1>2, <1>3, PTL DEF EngineSpec

-----------------------------------------------------------------------------
(* What is held has a mark                                                  *)
(*                                                                          *)
(* A trade is told of the bar under way, and delivered before that bar is   *)
(* pushed to the market; so until then its instrument may have no bar, and  *)
(* it alone.                                                                *)

InBar == phase \in {"observing", "reacting"}

BarInv ==
  /\ bar # None <=> phase = "observing"
  /\ phase = "observing" => event.instrument = bar.instrument
  /\ InBar => event.instrument \in Instruments

MarkInv ==
  /\ \A e \in Elements(sink) : IsTrade(e) => InBar /\ e.instrument = event.instrument
  /\ \A i \in portfolio.held : market[i] > 0 \/ (InBar /\ i = event.instrument)

\* The bar is kept until the call returns.
LEMMA ObservingKeepsBar ==
  ASSUME TypeOK, Observing
  PROVE  bar # None /\ (bar' = bar \/ bar' = None)
<1>1. ASSUME NEW id \in Ids, Match(id) PROVE bar # None /\ bar' = bar
  <2>1. Reached(id)
    BY <1>1 DEF Match, SkipOtherInstrument, AwaitLatency, VenueCancels, DoesNotFill, TouchMisses,
                OcoBlocked, FokExpires, NoRoom, StageFill, Clears, Working
  <2>2. \E rests : Leave(id, rests)
    BY <1>1 DEF Match, SkipOtherInstrument, AwaitLatency, VenueCancels, DoesNotFill, TouchMisses,
                OcoBlocked, FokExpires, NoRoom, StageFill, Stays, Expires, IsCanceled
  <2> QED
    BY <2>1, <2>2 DEF Reached, Leave
<1>2. CASE EmitFill \/ ResolveOco \/ FinishObserve
  BY <1>2 DEF EmitFill, ResolveOco, FinishObserve, Walked
<1> QED
  BY <1>1, <1>2 DEF Observing

\* The venue observes a bar while the loop is in the phase for it, and the
\* event is of the bar's instrument.
LEMMA BarStep ==
  ASSUME LoopInv, BarInv, [EngineNext]_allVars
  PROVE  BarInv'
<1>1. CASE BarArrives
  <2>1. PICK b \in Bars : BeginObserve(b) /\ Arrives(BarOf(b))
    BY <1>1 DEF BarArrives
  <2>2. /\ bar' = b /\ phase' = "observing" /\ event' = BarOf(b) /\ b \in Bar /\ b # None
    BY <1>1, <2>1, ConstantsAssumption DEF BarArrives, BeginObserve, Arrives
  <2>3. event'.instrument = b.instrument /\ b.instrument \in Instruments
    BY <2>2 DEF BarOf, Bar
  <2> QED
    BY <2>2, <2>3 DEF BarInv, InBar
<1>2. CASE VenueObserves
  <2>1. /\ phase = "observing" /\ Observing /\ UNCHANGED event
        /\ phase' = IF bar' = None THEN "reacting" ELSE phase
    BY <1>2 DEF VenueObserves
  <2>2. bar' = bar \/ bar' = None
    BY <2>1, ObservingKeepsBar DEF LoopInv
  <2> QED
    BY <2>1, <2>2 DEF BarInv, InBar
<1>3. CASE Calling
  <2>1. UNCHANGED <<bar, event>>
    BY <1>3 DEF Calling, OnStart, Deliver, FireTimer, OnBarOrStop, vars, observing
  <2>2. \/ UNCHANGED phase
        \/ phase \in {"start", "resync", "timers"} /\ phase' = "acting"
    BY <1>3 DEF Calling, OnStart, Deliver, FireTimer, OnBarOrStop, TimersFired
  <2> QED
    BY <2>1, <2>2 DEF BarInv, InBar
<1>4. CASE Sweeping
  <2>1. UNCHANGED bar /\ phase \in {"reacting", "feed"} /\ phase' = "timers"
    BY <1>4 DEF Sweeping, PushBar, NoticeArrives, FeedEnds, Arrives, vars, observing
  <2> QED
    BY <2>1 DEF BarInv, InBar
<1>5. CASE AfterNotice \/ NextTurn
  <2>1. UNCHANGED bar /\ phase \in {"timers", "acting"} /\ phase' \in {"resync", "acting", "done", "feed"}
    BY <1>5 DEF AfterNotice, NextTurn, TimersFired, vars, observing
  <2> QED
    BY <2>1 DEF BarInv, InBar
<1>6. CASE Route
  <2>1. UNCHANGED <<bar, event, phase>>
    BY <1>6 DEF Route, Submit, Cancel, observing
  <2> QED
    BY <2>1 DEF BarInv, InBar
<1>7. CASE UNCHANGED allVars
  BY <1>7 DEF allVars, vars, engineVars, observing, BarInv, InBar
<1> QED
  BY <1>1, <1>2, <1>3, <1>4, <1>5, <1>6, <1>7, LoopSteps DEF Quiet, LoopInv

\* Only a trade changes what is held, and of its own instrument.
LEMMA ApplyHeld ==
  ASSUME NEW p \in PortfolioOf, NEW e \in AccountEvent
  PROVE  /\ ~IsTrade(e) => Apply(p, e).held = p.held
         /\ IsTrade(e) => Apply(p, e).held \subseteq p.held \cup {e.instrument}
<1>1. ASSUME IsTrade(e)
      PROVE  /\ Settle(p, e) \in PortfolioOf
             /\ Settle(p, e).held \subseteq p.held \cup {e.instrument}
  <2>1. /\ e.instrument \in Instruments /\ e.side \in Int /\ e.price \in Int /\ e.qty \in Int
        /\ e.fee \in Int
    BY <1>1 DEF AccountEvent, IsTrade, FillEvent, LiquidationEvent, OrderEvent, CancelEvent,
                FundingEvent, Resync
  <2> DEFINE before == p.positions[e.instrument].net # 0
             after  == p.positions[e.instrument].net + e.side * e.qty # 0
  <2>2. /\ Settle(p, e) \in PortfolioOf
        /\ Settle(p, e).held = IF before = after THEN p.held
                               ELSE IF after THEN p.held \cup {e.instrument}
                               ELSE p.held \ {e.instrument}
    BY <2>1, SettleFacts
  <2> HIDE DEF before, after
  <2> QED
    BY <2>2
<1>2. CASE e \in FillEvent
  <2>1. PICK open \in Seq(Ids) : Apply(p, e) = [Settle(p, e) EXCEPT !.open = open]
    BY <1>2, FillFacts
  <2>2. IsTrade(e)
    BY <1>2 DEF FillEvent, IsTrade
  <2> QED
    BY <1>1, <2>1, <2>2 DEF PortfolioOf
<1>3. CASE e \in LiquidationEvent
  <2>1. PICK pnl \in Int : Apply(p, e) = [Settle(p, e) EXCEPT !.liquidationPnl = pnl]
    BY <1>3, LiquidationFacts
  <2>2. IsTrade(e)
    BY <1>3 DEF LiquidationEvent, IsTrade
  <2> QED
    BY <1>1, <2>1, <2>2 DEF PortfolioOf
<1>4. CASE e \in OrderEvent \cup CancelEvent \cup FundingEvent \cup {Resync}
  <2>1. ~IsTrade(e)
    BY <1>4 DEF OrderEvent, CancelEvent, FundingEvent, Resync, IsTrade
  <2>2. \/ Apply(p, e) = p
        \/ Apply(p, e) = OpenOrder(p, e.id)
        \/ Apply(p, e) = CloseOrder(p, e.id)
        \/ Apply(p, e) = ApplyFunding(p, e)
    <3>1. e.type \in {"OrderAccepted", "OrderCanceled", "OrderRejected", "OrderExpired",
                      "OrderTriggered", "OrderCancelRejected", "Resync", "FundingSettlement"}
      BY <1>4 DEF OrderEvent, CancelEvent, FundingEvent, Resync
    <3> QED
      BY <3>1, ApplyCases
  <2>3. OpenOrder(p, e.id).held = p.held /\ ApplyFunding(p, e).held = p.held
    BY DEF OpenOrder, ApplyFunding, PortfolioOf
  <2>4. CloseOrder(p, e.id).held = p.held
    <3>1. PICK open \in Seq(Ids) : CloseOrder(p, e.id) = [p EXCEPT !.open = open]
      BY CloseOrderFacts
    <3> QED
      BY <3>1 DEF PortfolioOf
  <2> QED
    BY <2>1, <2>2, <2>3, <2>4
<1> QED
  BY <1>2, <1>3, <1>4 DEF AccountEvent

\* The venue's steps tell of trades only in a bar, and of its instrument.
LEMMA VenueTrades ==
  ASSUME LoopInv, BarInv, VenueMoves
  PROVE  \A e \in Elements(sink') :
           e \in Elements(sink)
             \/ (IsTrade(e) => phase = "observing" /\ e.instrument = event.instrument)
<1>1. sink \in Seq(AccountEvent)
  BY DEF LoopInv, LoopTypes
<1>2. PICK events : Tells(events)
  BY <1>1, VenueTells DEF VenueMoves, LoopInv
<1>3. /\ events \in Seq(AccountEvent) /\ sink' = sink \o events
      /\ \A n \in DOMAIN events :
           IsTrade(events[n]) => bar # None /\ events[n].instrument = bar.instrument
  BY <1>2 DEF Tells
<1>4. Elements(sink') = Elements(sink) \cup Elements(events)
  BY <1>1, <1>3, ConcatElements
<1>5. \A e \in Elements(events) : IsTrade(e) => bar # None /\ e.instrument = bar.instrument
  BY <1>3 DEF Elements
<1> QED
  BY <1>4, <1>5 DEF BarInv

\* A position is marked when its bar is pushed, before anything reads equity.
LEMMA MarkStep ==
  ASSUME LoopInv, BarInv, MarkInv, [EngineNext]_allVars
  PROVE  MarkInv'
<1>1. sink \in Seq(AccountEvent) /\ portfolio \in PortfolioOf
  BY DEF LoopInv, LoopTypes
<1>2. CASE BarArrives
  <2>1. /\ phase = "feed" /\ phase' = "observing" /\ UNCHANGED <<portfolio, market, sink>>
    BY <1>2 DEF BarArrives, BeginObserve, Arrives
  <2> QED
    BY <2>1 DEF MarkInv, InBar
<1>3. CASE VenueObserves
  <2>1. /\ phase = "observing" /\ phase' \in {"observing", "reacting"} /\ VenueMoves
        /\ UNCHANGED <<event, portfolio, market>>
    BY <1>3 DEF VenueObserves, VenueMoves
  <2> QED
    BY <2>1, VenueTrades DEF MarkInv, InBar
<1>4. CASE Route
  <2>1. /\ phase # "observing" /\ VenueMoves /\ UNCHANGED <<phase, event, portfolio, market>>
    <3>1. phase # "observing" /\ UNCHANGED <<phase, event, portfolio, market>> /\ commands # << >>
      BY <1>4 DEF Route, Drains
    <3>2. Head(commands) \in Command
      BY <3>1 DEF LoopInv, LoopTypes
    <3> DEFINE action == Head(commands)
    <3>3. \/ action.type = "Submit" /\ Submit(action.id, action.request)
          \/ action.type = "Cancel" /\ Cancel(action.id)
      BY <1>4 DEF Route
    <3> HIDE DEF action
    <3>4. action.id \in Ids /\ (action.type = "Submit" => action.request \in Requests)
      BY <3>2 DEF Command, action
    <3> QED
      BY <3>1, <3>3, <3>4 DEF VenueMoves, CallStep
  <2> QED
    BY <2>1, VenueTrades DEF MarkInv, InBar
<1>5. CASE Deliver
  <2>1. /\ sink # << >> /\ sink' = Tail(sink) /\ portfolio' = Apply(portfolio, Head(sink))
        /\ UNCHANGED <<event, market>>
        /\ phase' = phase \/ (~InBar /\ ~InBar')
    BY <1>5 DEF Deliver, InBar
  <2>2. Head(sink) \in Elements(sink) /\ Elements(sink') \subseteq Elements(sink)
        /\ Head(sink) \in AccountEvent
    <3>1. /\ Head(sink) = sink[1] /\ 1 \in DOMAIN sink /\ sink[1] \in AccountEvent
          /\ \A n \in DOMAIN Tail(sink) : n + 1 \in DOMAIN sink /\ Tail(sink)[n] = sink[n + 1]
      BY <1>1, <2>1
    <3> QED
      BY <2>1, <3>1 DEF Elements
  <2>3. PICK p \in PortfolioOf, e \in AccountEvent : p = portfolio /\ e = Head(sink)
    BY <1>1, <2>2
  <2>4. /\ ~IsTrade(e) => portfolio'.held = p.held
        /\ IsTrade(e) => portfolio'.held \subseteq p.held \cup {e.instrument}
    BY <2>1, <2>3, ApplyHeld
  <2>5. IsTrade(e) => InBar /\ e.instrument = event.instrument
    BY <2>2, <2>3 DEF MarkInv
  <2> QED
    BY <2>1, <2>2, <2>3, <2>4, <2>5 DEF MarkInv, InBar
<1>6. CASE PushBar
  <2>1. /\ sink = << >> /\ UNCHANGED <<sink, portfolio, event>> /\ phase = "reacting"
        /\ market' = [market EXCEPT ![event.instrument] = @ + 1]
    BY <1>6 DEF PushBar, Drained, vars
  <2>2. Elements(sink') = {}
    BY <2>1 DEF Elements
  <2>3. event.instrument \in Instruments /\ market \in [Instruments -> Nat]
        /\ portfolio.held \subseteq Instruments
    BY <1>1, <2>1 DEF BarInv, InBar, LoopInv, LoopTypes, PortfolioOf
  <2>4. \A i \in Instruments : market'[i] = IF i = event.instrument THEN market[i] + 1 ELSE market[i]
    BY <2>1, <2>3
  <2>5. \A i \in portfolio.held : market'[i] > 0
    BY <2>3, <2>4 DEF MarkInv
  <2> QED
    BY <2>1, <2>2, <2>5 DEF MarkInv
<1>7. CASE NoticeArrives
  <2>1. /\ phase = "feed" /\ phase' = "timers" /\ UNCHANGED <<portfolio, market>>
        /\ sink' = sink \/ sink' = Append(sink, Resync)
    BY <1>7 DEF NoticeArrives, Arrives
  <2>2. Resync \in AccountEvent /\ ~IsTrade(Resync)
    BY DEF AccountEvent, Resync, IsTrade
  <2>3. Elements(sink') \subseteq Elements(sink) \cup {Resync}
    BY <1>1, <2>1, <2>2, AppendElements
  <2> QED
    BY <2>1, <2>2, <2>3 DEF MarkInv, InBar
<1>8. CASE \/ OnStart \/ FireTimer \/ OnBarOrStop \/ FeedEnds \/ AfterNotice \/ NextTurn
           \/ UNCHANGED allVars
  <2>1. UNCHANGED <<sink, portfolio, market>>
    BY <1>8 DEF OnStart, FireTimer, OnBarOrStop, FeedEnds, AfterNotice, NextTurn, vars, allVars,
                engineVars
  <2>2. (~InBar /\ ~InBar') \/ UNCHANGED <<phase, event>>
    BY <1>8 DEF OnStart, FireTimer, OnBarOrStop, FeedEnds, AfterNotice, NextTurn, allVars,
                engineVars, InBar, TimersFired
  <2> QED
    BY <2>1, <2>2 DEF MarkInv, InBar
<1> QED
  BY <1>2, <1>3, <1>4, <1>5, <1>6, <1>7, <1>8 DEF EngineNext, Steps

\* Whenever equity is marked, every position held has a bar to be marked at:
\* no trade of an instrument is delivered before one of its bars, or left to
\* be delivered after the bar is pushed.
THEOREM HeldIsMarked == EngineSpec => []HeldHasMark
<1>1. EngineInit => LoopInv /\ BarInv /\ MarkInv
  <2> SUFFICES ASSUME EngineInit PROVE BarInv /\ MarkInv
    BY InitLoop
  <2>1. phase = "start" /\ bar = None /\ sink = << >> /\ portfolio.held = {}
    BY InitLoop DEF EngineInit, Init
  <2>2. Elements(sink) = {}
    BY <2>1 DEF Elements
  <2> QED
    BY <2>1, <2>2 DEF BarInv, MarkInv, InBar
<1>2. LoopInv /\ BarInv /\ MarkInv /\ [EngineNext]_allVars => LoopInv' /\ BarInv' /\ MarkInv'
  BY LoopStep, BarStep, MarkStep
<1>3. MarkInv => HeldHasMark
  BY DEF MarkInv, HeldHasMark, InBar
<1> QED
  BY <1>1, <1>2, <1>3, PTL DEF EngineSpec

-----------------------------------------------------------------------------
(* Nothing the strategy asks for is lost                                    *)
(*                                                                          *)
(* A timer may be overdue while a bar is observed and its events drained;   *)
(* it is taken before anything else is called.  An id handed out is queued  *)
(* until the venue has been given its order, whatever is routed before it.  *)

TimersInv ==
  ~InBar => \A n \in DOMAIN timers : timers[n].at <= now => timers[n].setAt = delivered

OrdersInv == \A id \in Ids : id <= issued <=> ledger[id].stage # "unused" \/ Queued(id)

\* Observing a bar makes no order known that was not, and forgets none.
LEMMA ObservingKnows ==
  ASSUME TypeOK, BookInv, OrderInv, Observing
  PROVE  \A id \in Ids : ledger'[id].stage = "unused" <=> ledger[id].stage = "unused"
<1>1. ASSUME NEW id \in Ids, Match(id)
      PROVE  \A other \in Ids : ledger'[other].stage = "unused" <=> ledger[other].stage = "unused"
  <2>1. CASE SkipOtherInstrument(id) \/ AwaitLatency(id)
    BY <2>1 DEF SkipOtherInstrument, AwaitLatency
  <2>2. CASE LeavesUnfilled(id) \/ StageFill(id)
    <3>1. PICK r, stage, rests : Turn(id, r, stage, rests)
      BY <2>2, UnfilledTurn, StageFillTurn
    <3>2. /\ ledger[id].stage = "open" /\ ledger'[id].stage = stage /\ stage # "unused"
          /\ \A other \in Ids \ {id} : ledger'[other] = ledger[other]
      BY <3>1, TurnEffects DEF Turn
    <3> QED
      BY <3>2
  <2> QED
    BY <1>1, <2>1, <2>2 DEF Match, LeavesUnfilled
<1>2. CASE EmitFill
  <2> DEFINE f == toFill[1]
  <2>1. /\ ledger'[f.id].stage = IF f.complete THEN "closed" ELSE ledger[f.id].stage
        /\ \A other \in Ids \ {f.id} : ledger'[other] = ledger[other]
        /\ 1 \in DOMAIN toFill
    BY <1>2, EmitEffects
  <2>2. ledger[f.id].stage \in {"open", "closed"}
    BY <2>1 DEF OrderInv, StagedSoundly
  <2> QED
    BY <2>1, <2>2
<1>3. CASE ResolveOco \/ FinishObserve
  <2>1. pending = << >>
    BY <1>3 DEF ResolveOco, FinishObserve, Walked
  <2>2. UNCHANGED ledger \/ \E K : ledger' = CloseAll(Keep(resting, K))
    BY <1>3 DEF ResolveOco, FinishObserve, Liquidate
  <2>3. ASSUME NEW K, ledger' = CloseAll(Keep(resting, K))
        PROVE  \A id \in Ids : ledger'[id].stage = "unused" <=> ledger[id].stage = "unused"
    <3>1. Elements(Keep(resting, K)) \subseteq OpenIds
      BY <2>1, KeptHeld
    <3>2. \A id \in Ids : \/ ledger'[id] = ledger[id]
                          \/ /\ ledger[id].stage = "open"
                             /\ ledger'[id] = [ledger[id] EXCEPT !.stage = "closed"]
      BY <2>3, <3>1, CloseAllEffects
    <3> QED
      BY <3>2 DEF TypeOK, Ledger
  <2> QED
    BY <2>2, <2>3
<1> QED
  BY <1>1, <1>2, <1>3 DEF Observing

\* Due timers are taken whatever the event, and those set since wait for the
\* next.
LEMMA TimersStep ==
  ASSUME LoopInv, TimersInv, [EngineNext]_allVars
  PROVE  TimersInv'
<1>1. LoopTypes
  BY DEF LoopInv
<1>2. CASE Calling
  <2>1. UNCHANGED <<now, delivered>> /\ (InBar' \/ ~InBar)
    BY <1>2 DEF Calling, OnStart, Deliver, FireTimer, OnBarOrStop, TimersFired, InBar
  <2>2. CASE UNCHANGED timers
    BY <2>1, <2>2 DEF TimersInv
  <2>3. ASSUME NEW at \in Nat, timers' = Append(timers, [at |-> at, setAt |-> delivered])
        PROVE  TimersInv'
    <3> DEFINE timer == [at |-> at, setAt |-> delivered]
    <3>1. timer.setAt = delivered
      OBVIOUS
    <3>2. timers' = Append(timers, timer) /\ timers \in Seq([at : Nat, setAt : Nat])
      BY <1>1, <2>3 DEF LoopTypes
    <3> HIDE DEF timer
    <3>3. \A n \in DOMAIN timers' : timers'[n] = timer \/ (n \in DOMAIN timers /\ timers'[n] = timers[n])
      BY <3>2
    <3> QED
      BY <2>1, <3>1, <3>3 DEF TimersInv
  <2> QED
    BY <1>1, <1>2, <2>2, <2>3, CallbackFacts DEF Calling
<1>3. CASE Sweeping
  <2>1. PICK time \in Nat : TakeDueTimers(time) /\ now' = time
    BY <1>3 DEF Sweeping
  <2> QED
    BY <1>1, <2>1, TimersTaken DEF TimersInv
<1>4. CASE Quiet \/ Route
  <2>1. UNCHANGED <<timers, now, delivered>>
    BY <1>4 DEF Quiet, Route, gate
  <2>2. InBar' \/ ~InBar
    BY <1>4 DEF Quiet, Route, VenueObserves, AfterNotice, NextTurn, TimersFired, allVars,
                engineVars, InBar
  <2> QED
    BY <2>1, <2>2 DEF TimersInv
<1>5. CASE BarArrives
  BY <1>5 DEF BarArrives, TimersInv, InBar
<1> QED
  BY <1>1, <1>2, <1>3, <1>4, <1>5, LoopSteps

\* An id is queued until its order is routed, and known to the venue after.
LEMMA OrdersStep ==
  ASSUME LoopInv, OrdersInv, [EngineNext]_allVars
  PROVE  OrdersInv'
<1>1. LoopTypes /\ issued \in Nat /\ \A id \in Ids : id \in Nat
  BY ConstantsAssumption DEF LoopInv, LoopTypes
<1>2. CASE Calling
  <2>1. UNCHANGED ledger
    BY <1>2 DEF Calling, OnStart, Deliver, FireTimer, OnBarOrStop, vars
  <2>2. \/ issued' = issued /\ \A id \in Ids : Queued(id)' <=> Queued(id)
        \/ /\ issued' = issued + 1
           /\ \A id \in Ids : Queued(id)' <=> Queued(id) \/ id = issued + 1
    BY <1>1, <1>2, CallbackFacts DEF Calling
  <2>3. \A id \in Ids : id <= issued + 1 <=> id <= issued \/ id = issued + 1
    BY <1>1
  <2>4. CASE issued' = issued /\ \A id \in Ids : Queued(id)' <=> Queued(id)
    BY <2>1, <2>4 DEF OrdersInv
  <2>5. CASE /\ issued' = issued + 1
             /\ \A id \in Ids : Queued(id)' <=> Queued(id) \/ id = issued + 1
    BY <2>1, <2>3, <2>5 DEF OrdersInv
  <2> QED
    BY <2>2, <2>4, <2>5
<1>3. CASE UNCHANGED <<commands, issued>> /\ \A id \in Ids : ledger'[id].stage = "unused" <=> ledger[id].stage = "unused"
  <2>1. \A id \in Ids : Queued(id)' <=> Queued(id)
    BY <1>3 DEF Queued
  <2> QED
    BY <1>3, <2>1 DEF OrdersInv
<1>4. CASE Sweeping
  <2>1. UNCHANGED <<commands, issued, ledger>>
    BY <1>4 DEF Sweeping, TakeDueTimers, PushBar, NoticeArrives, FeedEnds, vars
  <2> QED
    BY <1>3, <2>1
<1>5. CASE Quiet
  <2>1. UNCHANGED <<commands, issued>>
    BY <1>5 DEF Quiet, gate
  <2>2. CASE VenueObserves
    BY <1>3, <2>1, <2>2, ObservingKnows DEF VenueObserves, LoopInv
  <2>3. CASE ~VenueObserves
    <3>1. UNCHANGED ledger
      BY <1>5, <2>3 DEF Quiet, AfterNotice, NextTurn, vars, allVars
    <3> QED
      BY <1>3, <2>1, <3>1
  <2> QED
    BY <2>2, <2>3
<1>6. CASE BarArrives
  <2>1. UNCHANGED <<commands, issued, ledger>>
    BY <1>6 DEF BarArrives, BeginObserve, gate
  <2> QED
    BY <1>3, <2>1
<1>7. CASE Route
  <2> DEFINE action == Head(commands)
  <2>1. /\ commands # << >> /\ commands' = Tail(commands) /\ UNCHANGED issued
        /\ \/ action.type = "Submit" /\ Submit(action.id, action.request)
           \/ action.type = "Cancel" /\ Cancel(action.id)
    BY <1>7 DEF Route
  <2>2. /\ action \in Command
        /\ Elements(commands) = Elements(commands') \cup {action}
    <3>1. commands \in Seq(Command)
      BY <1>1 DEF LoopTypes
    <3>2. /\ DOMAIN commands = 1..Len(commands) /\ Len(commands) \in Nat /\ Len(commands) > 0
          /\ action = commands[1] /\ action \in Command
          /\ DOMAIN commands' = 1..Len(commands) - 1
          /\ \A n \in 1..Len(commands) - 1 : commands'[n] = commands[n + 1]
      BY <2>1, <3>1
    <3>3. 1 \in DOMAIN commands /\ \A n \in DOMAIN commands' : n + 1 \in DOMAIN commands
      BY <3>2
    <3>4. \A n \in DOMAIN commands : n = 1 \/ (n - 1 \in DOMAIN commands' /\ n - 1 + 1 = n)
      BY <3>2
    <3>5. Elements(commands') \cup {action} \subseteq Elements(commands)
      BY <3>2, <3>3 DEF Elements
    <3>6. Elements(commands) \subseteq Elements(commands') \cup {action}
      BY <3>2, <3>4 DEF Elements
    <3> QED
      BY <3>2, <3>5, <3>6
  <2> HIDE DEF action
  <2>3. action.id \in Ids
    BY <2>2 DEF Command
  <2>4. CASE action.type = "Submit" /\ Submit(action.id, action.request)
    <3>1. /\ ledger'[action.id].stage # "unused" /\ ledger[action.id].stage = "unused"
          /\ \A other \in Ids \ {action.id} : ledger'[other] = ledger[other]
      <4>1. ledger \in [Ids -> Ledger]
        BY DEF LoopInv, TypeOK
      <4> QED
        BY <2>3, <2>4, <4>1 DEF Submit, NextId, Ledger
    <3>2. \A id \in Ids : Queued(id) <=> Queued(id)' \/ id = action.id
      BY <2>2, <2>4 DEF Queued, IsSubmission
    <3> QED
      BY <2>1, <3>1, <3>2 DEF OrdersInv
  <2>5. CASE action.type = "Cancel" /\ Cancel(action.id)
    <3>1. \A id \in Ids : ledger'[id].stage = "unused" <=> ledger[id].stage = "unused"
      <4>1. CASE action.id \in OnBook
        <5>1. ledger[action.id].stage = "open"
          <6>1. BookAgrees
            BY BookInvImplies DEF LoopInv
          <6>2. resting \in Seq(Ids) /\ pending \in Seq(Ids)
            BY DEF LoopInv, TypeOK
          <6>3. Elements(Held) = Elements(resting) \cup Elements(pending)
            BY <6>2, ConcatElements DEF Held
          <6> QED
            BY <4>1, <6>3 DEF LoopInv, BookInv, OpenIds, OnBook, Elements
        <5>2. ledger' = [ledger EXCEPT ![action.id].stage = "closed"] /\ ledger \in [Ids -> Ledger]
          BY <2>5, <4>1 DEF Cancel, LoopInv, TypeOK
        <5> QED
          BY <2>3, <5>1, <5>2 DEF Ledger
      <4>2. CASE action.id \notin OnBook
        BY <2>5, <4>2 DEF Cancel
      <4> QED
        BY <4>1, <4>2
    <3>2. \A id \in Ids : Queued(id)' <=> Queued(id)
      BY <2>2, <2>5 DEF Queued, IsSubmission
    <3> QED
      BY <2>1, <3>1, <3>2 DEF OrdersInv
  <2> QED
    BY <2>1, <2>4, <2>5
<1> QED
  BY <1>1, <1>2, <1>4, <1>5, <1>6, <1>7, LoopSteps

\* No timer and no order asked for in a callback is lost, wherever in the loop
\* the callback runs: a timer due by the end of an event was set while that
\* event was handled, and the ids handed out are those queued or routed.
THEOREM NothingIsLost == EngineSpec => []NothingLost
<1>1. EngineInit => LoopInv /\ TimersInv /\ OrdersInv
  <2> SUFFICES ASSUME EngineInit PROVE TimersInv /\ OrdersInv
    BY InitLoop
  <2>1. timers = << >> /\ commands = << >> /\ issued = 0 /\ \A id \in Ids : ledger[id].stage = "unused"
    BY DEF EngineInit, Init
  <2>2. \A id \in Ids : ~(id <= 0)
    <3>1. \A n \in Nat : n <= 0 => n = 0
      OBVIOUS
    <3>2. Ids \subseteq Nat /\ 0 \notin Ids
      BY ConstantsAssumption, EngineAssumption
    <3> QED
      BY <3>1, <3>2
  <2>3. \A id : ~Queued(id)
    BY <2>1 DEF Queued, Elements
  <2> QED
    BY <2>1, <2>2, <2>3 DEF TimersInv, OrdersInv
<1>2. LoopInv /\ TimersInv /\ OrdersInv /\ [EngineNext]_allVars => LoopInv' /\ TimersInv' /\ OrdersInv'
  BY LoopStep, TimersStep, OrdersStep
<1>3. TimersInv /\ OrdersInv => NothingLost
  <2>1. TimersInv => DueTimersFire
    BY DEF TimersInv, DueTimersFire, InBar
  <2>2. OrdersInv => NoOrderLost
    BY DEF OrdersInv, NoOrderLost, Queued, Elements
  <2> QED
    BY <2>1, <2>2 DEF NothingLost
<1> QED
  BY <1>1, <1>2, <1>3, PTL DEF EngineSpec

=============================================================================

------------------------- MODULE SimulatedExchange --------------------------
(***************************************************************************)
(* The deterministic simulated venue, akadro-backtest/src/exchange.rs:     *)
(* the orders it holds, what one bar does to them, and the account events  *)
(* it emits.                                                               *)
(*                                                                         *)
(* submit and cancel are one action each.  observe(bar) walks the resting  *)
(* orders in order, stages fills, emits them, resolves OCO groups, accrues *)
(* funding and checks liquidation; here each iteration of those loops is   *)
(* an action, and the locals of observe are the variables bar, pending,    *)
(* cap, netAfter, toFill and claimed.  The venue is single-threaded: while *)
(* a bar is being observed (bar # None) no other call is possible, and the *)
(* guards leave exactly one iteration to do next.                          *)
(***************************************************************************)
EXTENDS FillRules, Filtering, FiniteSets, FiniteSetsExt

CONSTANTS
  Ids,              \* the ClientOrderIds the engine may assign, 1..n
  Instruments,      \* the instruments the venue lists
  Perps,            \* those that are perpetual futures
  Requests,         \* the OrderRequests a strategy may submit
  Bars,             \* the bars the feed may deliver
  None,             \* the absent value of an Option
  FeeBps, SlippageBps, ImpactBps,
  LatencyBars,      \* bars of its instrument an order waits before it may fill
  ParticipationBps, \* share of a bar's volume that may be filled, or None
  TouchMayMiss,     \* the probabilistic maker-fill model is configured
  MinNotional,      \* the instruments' minimum notional
  StartingCash,     \* the cash guard's opening balance, or None
  LiquidationBps,   \* the adverse move that liquidates, or None
  FundingInterval,  \* bars between funding settlements, 0 for none
  FundingRates,     \* the rates the funding schedule may have in force
  FundingScale,     \* the unit of a funding rate (10^8 in the code)
  MaxBars           \* bound: bars observed per instrument

NoOrder == [instrument |-> None, side |-> Buy, qty |-> 0, kind |-> "Market",
            trigger |-> 0, limit |-> 0,
            trail |-> [percent |-> FALSE, by |-> 0],
            tif |-> "Gtc", reduceOnly |-> FALSE, postOnly |-> FALSE, oco |-> 0]

\* OrderRequest.  A quantity may be zero or negative: the venue rejects it.
OrderRequest ==
  [instrument : Instruments, side : {Buy, Sell}, qty : Int, kind : OrderKinds,
   trigger : Int, limit : Int, trail : [percent : BOOLEAN, by : Int],
   tif : {"Gtc", "Ioc", "Fok"}, reduceOnly : BOOLEAN, postOnly : BOOLEAN,
   oco : Nat]

Bar == [instrument : Instruments, open : Int, high : Int, low : Int,
        close : Int, volume : Int]

ASSUME ConstantsAssumption ==
  /\ Ids \subseteq Nat /\ IsFiniteSet(Ids)
  /\ Requests \subseteq OrderRequest
  /\ Bars \subseteq Bar
  /\ \A b \in Bars : b.low <= b.open /\ b.low <= b.close
                     /\ b.open <= b.high /\ b.close <= b.high
  /\ None \notin Int /\ None \notin Bars
  /\ FeeBps \in Int /\ SlippageBps \in Int /\ ImpactBps \in Int
  /\ LatencyBars \in Nat /\ FundingInterval \in Nat /\ MaxBars \in Nat
  /\ ParticipationBps \in Int \cup {None}
  /\ TouchMayMiss \in BOOLEAN
  /\ MinNotional \in Int
  /\ StartingCash \in Int \cup {None}
  /\ LiquidationBps \in Int \cup {None}
  /\ FundingRates \subseteq Int /\ FundingRates # {}
  /\ FundingScale \in Nat \ {0}

\* validate_perp_funding panics on the first bar otherwise.
ValidPerpFunding == Perps # {} => FundingInterval > 0

ASSUME PerpsAreFunded == ValidPerpFunding

VARIABLES
  resting,   \* the ids of the orders held, oldest first
  orders,    \* what the venue keeps of each order
  shadow,    \* its own position, funding clock and mark per instrument
  cash,      \* its own cash balance, or None when the guard is off
  sink,      \* the account events emitted and not yet taken by the caller
  bar,       \* the bar being observed, or None between calls
  pending,   \* ids of the orders this bar has not reached yet
  cap,       \* volume this bar may still fill, or None
  netAfter,  \* the position as it will be once toFill is applied
  toFill,    \* fills decided on this bar, not yet applied or emitted
  claimed,   \* OCO groups that took liquidity on this bar, with their keeper
  ledger,    \* what the emitted events say of each order (for properties only)
  seen       \* bars observed per instrument (bounds the run, and properties)

observing == <<bar, pending, cap, netAfter, toFill, claimed>>
vars == <<resting, orders, shadow, cash, sink, observing, ledger, seen>>

-----------------------------------------------------------------------------
(* State *)

\* Resting, with the order's place in the book kept by `resting`.  trailRef
\* is an Option, held as a set of at most one price.
OrderState ==
  [order : OrderRequest \cup {NoOrder}, activateIn : Nat, armed : BOOLEAN,
   trailRef : {ref \in SUBSET Int : \A p, q \in ref : p = q}, filled : Int]

NoOrderState == [order |-> NoOrder, activateIn |-> 0, armed |-> FALSE,
                 trailRef |-> {}, filled |-> 0]

\* An order's life as its account events tell it: what stage it is at, the
\* quantity reported filled, how often it was reported triggered, the number
\* of bars its instrument had seen when it was accepted, and whether its OCO
\* group had executed by then.
Ledger == [stage : {"unused", "open", "closed", "rejected"}, executed : Int,
           triggered : Nat, placedAt : Nat, late : BOOLEAN]

Init ==
  /\ resting = << >>
  /\ orders  = [id \in Ids |-> NoOrderState]
  /\ shadow  = [i \in Instruments |-> [net |-> 0, avg |-> 0, bars |-> 0, mark |-> 0]]
  /\ cash    = StartingCash
  /\ sink    = << >>
  /\ bar = None /\ pending = << >> /\ cap = None /\ netAfter = 0
  /\ toFill = << >> /\ claimed = << >>
  /\ ledger = [id \in Ids |-> [stage |-> "unused", executed |-> 0,
                               triggered |-> 0, placedAt |-> 0, late |-> FALSE]]
  /\ seen = [i \in Instruments |-> 0]

Idle == bar = None

OnBook == {resting[n] : n \in DOMAIN resting}

\* Account events.  Costs and timestamps are left out but for a fill's fee.
Accepted(id)  == [type |-> "OrderAccepted",  id |-> id]
Rejected(id)  == [type |-> "OrderRejected",  id |-> id]
Triggered(id) == [type |-> "OrderTriggered", id |-> id]
Canceled(id, reason) == [type |-> "OrderCanceled", id |-> id, reason |-> reason]
CancelRejected(id)   == [type |-> "OrderCancelRejected", id |-> id]
Expired(id)   == [type |-> "OrderExpired", id |-> id]

-----------------------------------------------------------------------------
(* Prices and costs *)

Slipped(price, side) == price + side * MulBps(price, SlippageBps)

\* Slippage plus impact in proportion to the share of the bar's volume taken.
TakerPrice(base, side, qty, volume) ==
  LET slipped == Slipped(base, side)
      share   == Lesser((qty * 10000) \div volume, 10000)
  IN  IF ImpactBps = 0 \/ volume <= 0 \/ qty <= 0 THEN slipped
      ELSE slipped + side * TruncDiv(MulBps(slipped, ImpactBps) * share, 10000)

ExecutionPrice(o, base, qty) ==
  IF o.kind \in PassiveKinds THEN base
  ELSE TakerPrice(base, o.side, qty, bar.volume)

Fee(price, qty) == MulBps(Notional(price, qty), FeeBps)

\* settle_cash: nothing to mirror when the guard is off.
Settled(balance, side, price, qty, costs) ==
  IF balance = None THEN None
  ELSE balance - side * Notional(price, qty) - costs

\* buy_cost_qty: what `qty` more of a buy is expected to cost.  A taker is
\* priced at the mark, and not at all before its instrument has one.
IsReserved(o) ==
  o.side = Buy /\ (o.kind \in PassiveKinds \/ shadow[o.instrument].mark > 0)

BuyCost(o, qty) ==
  LET slipped == Slipped(shadow[o.instrument].mark, Buy)
      price   == IF o.kind \in PassiveKinds THEN o.limit
                 ELSE slipped + MulBps(slipped, Greater(ImpactBps, 0))
  IN  Notional(price, qty) + Fee(price, qty)

ReservedFor(id) ==
  LET o == orders[id].order
  IN  IF IsReserved(o) THEN BuyCost(o, o.qty - orders[id].filled) ELSE 0

Reserved == SumFunctionOnSet([id \in Ids |-> ReservedFor(id)], OnBook)

-----------------------------------------------------------------------------
(* submit and cancel *)

\* The grounds of rejection().
InvalidOrder(o) ==
  \/ o.qty <= 0
  \/ o.postOnly /\ o.kind \notin PassiveKinds
  \/ o.kind \in PassiveKinds /\ Abs(Notional(o.limit, o.qty)) < Greater(MinNotional, 0)

WouldIncreasePosition(o) ==
  o.reduceOnly /\ Sign(shadow[o.instrument].net) \in {0, o.side}

\* Seeded fault: the check forgets what the resting buys have reserved.
FundsIgnoringReserve(o) ==
  cash # None /\ IsReserved(o) /\ cash < BuyCost(o, o.qty)

InsufficientFunds(o) ==
  cash # None /\ IsReserved(o) /\ cash - Reserved < BuyCost(o, o.qty)

Refuses(o) == InvalidOrder(o) \/ WouldIncreasePosition(o) \/ InsufficientFunds(o)

\* The engine's gate hands out ids in order and never twice.
NextId(id) == /\ ledger[id].stage = "unused"
              /\ \A other \in Ids : other < id => ledger[other].stage # "unused"

GroupHasExecuted(group) ==
  group # 0 /\ \E id \in Ids : orders[id].order.oco = group /\ ledger[id].executed > 0

Submit(id, o) ==
  /\ Idle /\ NextId(id)
  /\ \/ /\ Refuses(o)
        /\ sink' = Append(sink, Rejected(id))
        /\ ledger' = [ledger EXCEPT ![id].stage = "rejected"]
        /\ UNCHANGED <<resting, orders>>
     \/ /\ ~Refuses(o)
        /\ sink' = Append(sink, Accepted(id))
        /\ resting' = Append(resting, id)
        /\ orders' = [orders EXCEPT ![id] =
             [NoOrderState EXCEPT !.order = o, !.activateIn = LatencyBars]]
        /\ ledger' = [ledger EXCEPT ![id].stage = "open",
                                    ![id].placedAt = seen[o.instrument],
                                    ![id].late = GroupHasExecuted(o.oco)]
  /\ UNCHANGED <<shadow, cash, observing, seen>>

Cancel(id) ==
  /\ Idle
  /\ \/ /\ id \in OnBook
        /\ resting' = Keep(resting, Ids \ {id})
        /\ sink' = Append(sink, Canceled(id, "Requested"))
        /\ ledger' = [ledger EXCEPT ![id].stage = "closed"]
     \/ /\ id \notin OnBook
        /\ sink' = Append(sink, CancelRejected(id))
        /\ UNCHANGED <<resting, ledger>>
  /\ UNCHANGED <<orders, shadow, cash, observing, seen>>

-----------------------------------------------------------------------------
(* observe: the walk over the resting orders *)

BeginObserve(b) ==
  /\ Idle
  /\ seen[b.instrument] < MaxBars
  /\ bar' = b
  /\ shadow' = [shadow EXCEPT ![b.instrument].mark = b.close]
  /\ cap' = IF ParticipationBps = None THEN None ELSE MulBps(b.volume, ParticipationBps)
  /\ netAfter' = shadow[b.instrument].net
  /\ pending' = resting
  /\ resting' = << >>
  /\ seen' = [seen EXCEPT ![b.instrument] = @ + 1]
  /\ UNCHANGED <<orders, cash, sink, toFill, claimed, ledger>>

\* The walk has reached `id`.
Reached(id) == bar # None /\ pending # << >> /\ id = Head(pending)

\* The walk leaves `id` behind: still resting or not, and with what events.
Leave(id, rests) ==
  /\ pending' = Tail(pending)
  /\ resting' = IF rests THEN Append(resting, id) ELSE resting
  /\ UNCHANGED <<bar, shadow, cash, seen>>

NothingStaged == UNCHANGED <<cap, netAfter, toFill, claimed>>

SkipOtherInstrument(id) ==
  /\ Reached(id)
  /\ orders[id].order.instrument # bar.instrument
  /\ Leave(id, TRUE)
  /\ NothingStaged /\ UNCHANGED <<orders, sink, ledger>>

\* Seeded fault: the counter is not tested before it is decremented.
AwaitLatencyToZero(id) ==
  /\ Reached(id)
  /\ orders[id].order.instrument = bar.instrument
  /\ orders' = [orders EXCEPT ![id].activateIn = @ - 1]
  /\ Leave(id, TRUE)
  /\ NothingStaged /\ UNCHANGED <<sink, ledger>>

AwaitLatency(id) ==
  /\ Reached(id)
  /\ orders[id].order.instrument = bar.instrument
  /\ orders[id].activateIn > 0
  /\ orders' = [orders EXCEPT ![id].activateIn = @ - 1]
  /\ Leave(id, TRUE)
  /\ NothingStaged /\ UNCHANGED <<sink, ledger>>

\* Seeded fault: latency is not waited for.
WorkingAtOnce(id) == Reached(id) /\ orders[id].order.instrument = bar.instrument

Working(id) ==
  /\ Reached(id)
  /\ orders[id].order.instrument = bar.instrument
  /\ orders[id].activateIn = 0

Verdict(id) == Evaluate(orders[id], bar)

IsGtc(id) == orders[id].order.tif = "Gtc"

\* Seeded fault: a triggered conditional still counts as dormant.
IsConditional(r) == r.order.kind \in ConditionalKinds

\* A conditional order that has not triggered rests whatever its tif.
IsDormant(r) == ~r.armed /\ r.order.kind \in ConditionalKinds

\* The order is now in state r; it is reported triggered the moment it is
\* armed; `events` follow, and take it to `stage`.
Report(id, r, events, stage) ==
  LET armedNow == r.armed /\ ~orders[id].armed
  IN  /\ orders' = [orders EXCEPT ![id] = r]
      /\ sink' = sink \o (IF armedNow THEN <<Triggered(id)>> ELSE << >>) \o events
      /\ ledger' = [ledger EXCEPT ![id].stage = stage,
                                  ![id].triggered = @ + IF armedNow THEN 1 ELSE 0]

\* Seeded fault: an order reported expired is put back on the book.
ExpiresAndStays(id, r) == Report(id, r, <<Expired(id)>>, "closed") /\ Leave(id, TRUE)

Stays(id, r)           == Report(id, r, << >>, "open") /\ Leave(id, TRUE)
Expires(id, r)         == Report(id, r, <<Expired(id)>>, "closed") /\ Leave(id, FALSE)
IsCanceled(id, r, why) == Report(id, r, <<Canceled(id, why)>>, "closed") /\ Leave(id, FALSE)

VenueCancels(id) ==
  /\ Working(id)
  /\ Verdict(id).outcome = "cancel"
  /\ IsCanceled(id, Verdict(id).state, "VenueCanceled")
  /\ NothingStaged

DoesNotFill(id) ==
  LET r == Verdict(id).state
  IN  /\ Working(id)
      /\ Verdict(id).outcome = "rest"
      /\ IF IsGtc(id) \/ IsDormant(r) THEN Stays(id, r) ELSE Expires(id, r)
      /\ NothingStaged

-----------------------------------------------------------------------------
(* observe: an order the bar fills *)

MayMiss(id) == TouchMayMiss /\ OnlyTouches(orders[id].order, bar)

\* The draw for a bare touch at the limit came out against the order.
TouchMisses(id) ==
  LET r == Verdict(id).state
  IN  /\ Working(id)
      /\ Verdict(id).outcome = "fill"
      /\ MayMiss(id)
      /\ IF IsGtc(id) THEN Stays(id, r) ELSE Expires(id, r)
      /\ NothingStaged

\* Seeded fault: the claim that blocks is the order's own (== for !=).
IsClaimedByItself(id) ==
  /\ orders[id].order.oco # 0
  /\ \E n \in DOMAIN claimed : claimed[n].group = orders[id].order.oco
                               /\ claimed[n].keeper = id

\* Another leg of the order's OCO group took liquidity on this bar.
IsClaimedByOther(id) ==
  /\ orders[id].order.oco # 0
  /\ \E n \in DOMAIN claimed : claimed[n].group = orders[id].order.oco
                               /\ claimed[n].keeper # id

OcoBlocked(id) ==
  /\ Working(id)
  /\ Verdict(id).outcome = "fill"
  /\ IsClaimedByOther(id)
  /\ IsCanceled(id, Verdict(id).state, "OcoTriggered")
  /\ NothingStaged

Clears(id) ==
  /\ Working(id)
  /\ Verdict(id).outcome = "fill"
  /\ ~IsClaimedByOther(id)

\* Seeded fault: filling does not mark the order triggered.
UnarmedState(id) == Verdict(id).state

\* A market-on-trigger order triggers on its first fill.
ArmedState(id) ==
  LET r == Verdict(id).state
  IN  [r EXCEPT !.armed = @ \/ r.order.kind \in MarketOnTriggerKinds]

\* Seeded fault: earlier fills are forgotten.
WholeQty(id) == orders[id].order.qty

Remaining(id) == orders[id].order.qty - orders[id].filled

\* Seeded fault: every order may take the bar's whole allowance.
RoomOfBar(id) ==
  IF cap = None THEN Remaining(id)
  ELSE Lesser(Remaining(id), MulBps(bar.volume, ParticipationBps))

\* What the bar's volume leaves for the order.
Room(id) == IF cap = None THEN Remaining(id) ELSE Lesser(Remaining(id), Greater(cap, 0))

\* Seeded fault: fills staged earlier on the bar are not counted.
ReducibleBeforeBar(id) ==
  LET net == shadow[bar.instrument].net
  IN  IF Sign(net) = -orders[id].order.side THEN Abs(net) ELSE 0

\* How much the order may still take off the position.
Reducible(id) ==
  IF Sign(netAfter) = -orders[id].order.side THEN Abs(netAfter) ELSE 0

\* A reduce-only fill that takes all there is to reduce.
ExhaustsReduction(id) == orders[id].order.reduceOnly /\ Room(id) >= Reducible(id)

Want(id) == IF ExhaustsReduction(id) THEN Reducible(id) ELSE Room(id)

FokFallsShort(id) == orders[id].order.tif = "Fok" /\ Want(id) < Remaining(id)

FokExpires(id) ==
  /\ Clears(id)
  /\ FokFallsShort(id)
  /\ Expires(id, ArmedState(id))
  /\ NothingStaged

NoRoom(id) ==
  /\ Clears(id)
  /\ ~FokFallsShort(id)
  /\ Want(id) <= 0
  /\ IF ExhaustsReduction(id) THEN IsCanceled(id, ArmedState(id), "VenueCanceled")
     ELSE IF IsGtc(id) THEN Stays(id, ArmedState(id))
     ELSE Expires(id, ArmedState(id))
  /\ NothingStaged

\* Seeded fault: an order is complete when one fill takes all of it.
CompletesAtOnce(id) == Want(id) >= orders[id].order.qty \/ ExhaustsReduction(id)

Completes(id) == orders[id].filled + Want(id) >= orders[id].order.qty \/ ExhaustsReduction(id)

\* The first fill of an OCO group claims it.
ClaimAfter(id) ==
  LET group == orders[id].order.oco
  IN  IF group = 0 \/ \E n \in DOMAIN claimed : claimed[n].group = group THEN claimed
      ELSE Append(claimed, [group |-> group, keeper |-> id,
                            filled |-> orders[id].filled + Want(id),
                            complete |-> Completes(id)])

StageFill(id) ==
  LET o == orders[id].order
      r == [ArmedState(id) EXCEPT !.filled = @ + Want(id)]
  IN  /\ Clears(id)
      /\ ~FokFallsShort(id)
      /\ Want(id) > 0
      /\ toFill' = Append(toFill,
           [id |-> id, price |-> ExecutionPrice(o, Verdict(id).price, Want(id)),
            qty |-> Want(id), complete |-> Completes(id)])
      /\ netAfter' = netAfter + o.side * Want(id)
      /\ cap' = IF cap = None THEN None ELSE cap - Want(id)
      /\ claimed' = ClaimAfter(id)
      /\ IF Completes(id) THEN Report(id, r, << >>, "open") /\ Leave(id, FALSE)
         ELSE IF IsGtc(id) THEN Stays(id, r)
         ELSE Expires(id, r)

-----------------------------------------------------------------------------
(* observe: after the walk *)

Walked == bar # None /\ pending = << >>

\* Apply and emit the oldest staged fill.
EmitFill ==
  /\ Walked /\ toFill # << >>
  /\ LET f    == Head(toFill)
         o    == orders[f.id].order
         pos  == shadow[o.instrument]
         sgnd == o.side * f.qty
     IN  /\ shadow' = [shadow EXCEPT
              ![o.instrument].net = @ + sgnd,
              ![o.instrument].avg = AvgAfter(pos.net, pos.avg, sgnd, f.price)]
         /\ cash' = Settled(cash, o.side, f.price, f.qty, Fee(f.price, f.qty))
         /\ sink' = Append(sink, [type |-> "Fill", id |-> f.id, instrument |-> o.instrument,
                                  side |-> o.side, price |-> f.price, qty |-> f.qty,
                                  fee |-> Fee(f.price, f.qty), complete |-> f.complete])
         /\ ledger' = [ledger EXCEPT
              ![f.id].executed = @ + f.qty,
              ![f.id].stage = IF f.complete THEN "closed" ELSE @]
  /\ toFill' = Tail(toFill)
  /\ UNCHANGED <<resting, orders, bar, pending, cap, netAfter, claimed, seen>>

\* The events cancelling the orders of `gone`, which left the book together.
CancelAll(gone, reason) == [n \in DOMAIN gone |-> Canceled(gone[n], reason)]

CloseAll(gone) ==
  [id \in Ids |-> IF \E n \in DOMAIN gone : gone[n] = id
                  THEN [ledger[id] EXCEPT !.stage = "closed"] ELSE ledger[id]]

\* reduce_or_cancel_oco_siblings for the oldest claim.
ResolveOco ==
  /\ Walked /\ toFill = << >> /\ claimed # << >>
  /\ LET c == Head(claimed)
         siblings == {id \in Ids \ {c.keeper} : orders[id].order.oco = c.group}
         losers   == {id \in siblings : c.complete \/ orders[id].order.qty <= c.filled}
         gone     == Keep(resting, losers)
     IN  /\ resting' = Keep(resting, Ids \ losers)
         /\ orders' = [id \in Ids |->
              IF id \in OnBook \cap (siblings \ losers)
              THEN [orders[id] EXCEPT !.filled = Greater(@, c.filled)]
              ELSE orders[id]]
         /\ sink' = sink \o CancelAll(gone, "OcoTriggered")
         /\ ledger' = CloseAll(gone)
  /\ claimed' = Tail(claimed)
  /\ UNCHANGED <<shadow, cash, bar, pending, cap, netAfter, toFill, seen>>

-----------------------------------------------------------------------------
(* observe: funding and liquidation, then the call returns *)

Here == bar.instrument

\* The funding clock ticks on every bar of a perpetual and restarts when it
\* reaches the interval; only an open position then pays (or receives).
FundingClock ==
  IF Here \notin Perps \/ FundingInterval = 0 THEN shadow[Here].bars
  ELSE IF shadow[Here].bars + 1 < FundingInterval THEN shadow[Here].bars + 1 ELSE 0

FundingIsDue ==
  /\ Here \in Perps /\ FundingInterval > 0
  /\ shadow[Here].bars + 1 >= FundingInterval
  /\ shadow[Here].net # 0

FundingCost(rate) ==
  TruncDiv(Notional(bar.close, shadow[Here].net) * rate, FundingScale)

\* Seeded fault: a rising price is no loss, not even of a short.
LossBpsOfLong ==
  LET pos == shadow[Here]
  IN  TruncDiv(Greater(pos.avg - bar.close, 0) * 10000, Greater(Abs(pos.avg), 1))

LossBps ==
  LET pos == shadow[Here]
  IN  TruncDiv(Greater(Sign(pos.net) * (pos.avg - bar.close), 0) * 10000,
               Greater(Abs(pos.avg), 1))

IsLiquidated ==
  /\ LiquidationBps # None
  /\ shadow[Here].net # 0 /\ shadow[Here].avg # 0
  /\ LossBps >= LiquidationBps

\* Seeded fault: the position is closed and its orders stay on the book.
LiquidatePositionOnly(balance, clock, events) ==
  LET net == shadow[Here].net
  IN  /\ shadow' = [shadow EXCEPT ![Here].net = 0, ![Here].avg = 0, ![Here].bars = clock]
      /\ cash' = Settled(balance, -Sign(net), bar.close, Abs(net), 0)
      /\ sink' = events /\ UNCHANGED <<resting, ledger>>

\* The position closes at the slipped mark and every order on the instrument
\* is cancelled with it.
Liquidate(balance, clock, events) ==
  LET net   == shadow[Here].net
      side  == -Sign(net)
      qty   == Abs(net)
      price == Slipped(bar.close, side)
      here  == {id \in Ids : orders[id].order.instrument = Here}
      gone  == Keep(resting, here)
  IN  /\ shadow' = [shadow EXCEPT
           ![Here].net = @ + side * qty,
           ![Here].avg = AvgAfter(net, @, side * qty, price),
           ![Here].bars = clock]
      /\ cash' = Settled(balance, side, price, qty, Fee(price, qty))
      /\ sink' = events
           \o <<[type |-> "Liquidation", instrument |-> Here, side |-> side,
                 price |-> price, qty |-> qty, fee |-> Fee(price, qty)]>>
           \o CancelAll(gone, "VenueCanceled")
      /\ resting' = Keep(resting, Ids \ here)
      /\ ledger' = CloseAll(gone)

FinishObserve ==
  /\ Walked /\ toFill = << >> /\ claimed = << >>
  /\ \E rate \in FundingRates :
       LET cost    == IF FundingIsDue THEN FundingCost(rate) ELSE 0
           balance == IF cash = None THEN None ELSE cash - cost
           events  == IF FundingIsDue
                      THEN Append(sink, [type |-> "FundingSettlement",
                                         instrument |-> Here, cost |-> cost])
                      ELSE sink
       IN  IF IsLiquidated THEN Liquidate(balance, FundingClock, events)
           ELSE /\ shadow' = [shadow EXCEPT ![Here].bars = FundingClock]
                /\ cash' = balance
                /\ sink' = events
                /\ UNCHANGED <<resting, ledger>>
  /\ bar' = None /\ cap' = None /\ netAfter' = 0
  /\ UNCHANGED <<orders, pending, toFill, claimed, seen>>

Match(id) ==
  \/ SkipOtherInstrument(id)
  \/ AwaitLatency(id)
  \/ VenueCancels(id)
  \/ DoesNotFill(id)
  \/ TouchMisses(id)
  \/ OcoBlocked(id)
  \/ FokExpires(id)
  \/ NoRoom(id)
  \/ StageFill(id)

Observing ==
  \/ \E id \in Ids : Match(id)
  \/ EmitFill
  \/ ResolveOco
  \/ FinishObserve

\* The caller takes the events of a call before it makes another.
TakeEvents ==
  /\ Idle /\ sink # << >>
  /\ sink' = << >>
  /\ UNCHANGED <<resting, orders, shadow, cash, observing, ledger, seen>>

Calls ==
  \/ \E id \in Ids, o \in Requests : Submit(id, o)
  \/ \E id \in Ids : ledger[id].stage # "unused" /\ Cancel(id)
  \/ \E b \in Bars : BeginObserve(b)

Next ==
  \/ sink = << >> /\ Calls
  \/ Observing
  \/ TakeEvents

Spec == Init /\ [][Next]_vars

-----------------------------------------------------------------------------
(* Properties *)

StagedFill == [id : Ids, price : Int, qty : Int, complete : BOOLEAN]
Claim == [group : Nat, keeper : Ids, filled : Int, complete : BOOLEAN]
ShadowState == [net : Int, avg : Int, bars : Nat, mark : Int]

TypeOK ==
  /\ resting \in Seq(Ids) /\ pending \in Seq(Ids)
  /\ orders \in [Ids -> OrderState]
  /\ shadow \in [Instruments -> ShadowState]
  /\ cash \in Int \cup {None} /\ cap \in Int \cup {None}
  /\ bar \in Bars \cup {None}
  /\ netAfter \in Int
  /\ toFill \in Seq(StagedFill)
  /\ claimed \in Seq(Claim)
  /\ ledger \in [Ids -> Ledger]
  /\ seen \in [Instruments -> Nat]

\* The venue's book and its event stream agree: no order is held twice, an
\* order held is one reported accepted and not yet ended, and between calls
\* the reverse holds too, so no order is lost by a bar.
BookAgrees ==
  LET held == resting \o pending
  IN  /\ \A m, n \in DOMAIN held : held[m] = held[n] => m = n
      /\ \A n \in DOMAIN held : ledger[held[n]].stage = "open"
      /\ Idle => \A id \in Ids : ledger[id].stage = "open" => id \in OnBook

\* Over any number of partial fills, shared caps and OCO reductions, an order
\* is never reported filled beyond its quantity.
NoOverfill == \A id \in Ids : ledger[id].executed \in 0..Greater(orders[id].order.qty, 0)

Owed(id) ==
  SumFunction([n \in DOMAIN toFill |-> IF toFill[n].id = id THEN toFill[n].qty ELSE 0])

Promise == INSTANCE OrderLife WITH
  Orders   <- Ids,
  stage    <- [id \in Ids |-> ledger[id].stage],
  quantity <- [id \in Ids |-> orders[id].order.qty],
  executed <- [id \in Ids |-> ledger[id].executed],
  owed     <- [id \in Ids |-> Owed(id)],
  calling  <- (bar # None)

\* Through latency, partial fills, OCO reductions, time in force and
\* liquidation, the venue's events tell of each order the life that OrderLife
\* promises: one end and no return from it, nothing decided and left unreported
\* when the call returns, and no execution but what was decided while it was open.
LifeKept == Promise!LifeSpec

Members(group) == {id \in Ids : ledger[id].stage \notin {"unused", "rejected"}
                                /\ orders[id].order.oco = group}

\* One cancels other: the legs of a group that were all placed before any of
\* them executed never execute more between them than the largest leg,
\* whichever legs fill, in part or in full, on whichever bars.
OcoBudget ==
  \A group \in {orders[id].order.oco : id \in Ids} \ {0} :
    (\A id \in Members(group) : ~ledger[id].late) =>
      \E largest \in Members(group) :
        SumFunctionOnSet([id \in Ids |-> ledger[id].executed], Members(group))
          <= orders[largest].order.qty

\* The fills of one bar share its volume cap: however many orders it fills,
\* together they take no more than the participation limit.
SharedVolumeCap ==
  bar # None /\ ParticipationBps # None =>
    SumFunction([n \in DOMAIN toFill |-> toFill[n].qty])
      <= Greater(MulBps(bar.volume, ParticipationBps), 0)

\* A reduce-only fill takes the venue's position toward flat and not past it,
\* also when several fill on one bar (staged against netAfter, applied later).
ReduceOnlyShrinks ==
  [][LET f == Head(toFill)
         o == orders[f.id].order
     IN  EmitFill /\ o.reduceOnly =>
           LET before == shadow[o.instrument].net
               after  == shadow'[o.instrument].net
           IN  Abs(after) < Abs(before) /\ Sign(after) \in {0, Sign(before)}]_vars

\* A passive fill is never worse than its limit, and a fixed stop never
\* better than its trigger nor than the open of the bar that gapped past it.
FillPriceHonoursKind ==
  \A n \in DOMAIN toFill :
    LET f == toFill[n]
        o == orders[f.id].order
    IN  /\ o.kind \in PassiveKinds => o.side * f.price <= o.side * o.limit
        /\ o.kind = "Stop" => /\ o.side * f.price >= o.side * o.trigger
                              /\ o.side * f.price >= o.side * bar.open

\* No look-ahead: an order fills no sooner than the bar after the one it was
\* placed on, and LatencyBars of its instrument's bars later than that.
NoLookAhead ==
  \A n \in DOMAIN toFill :
    LET id == toFill[n].id
    IN  seen[orders[id].order.instrument] > ledger[id].placedAt + LatencyBars

\* An immediate (IOC or FOK) order that a bar could act on does not outlive
\* that bar: what still rests is a conditional that has not triggered.
ImmediateNeverRests ==
  Idle => \A id \in OnBook :
    LET o == orders[id].order
    IN  o.tif # "Gtc" /\ seen[o.instrument] > ledger[id].placedAt + LatencyBars
          => o.kind \in ConditionalKinds /\ ledger[id].triggered = 0

\* A conditional order is reported triggered exactly once, and before any of
\* it is reported filled; no other kind ever is.
TriggeredOnce ==
  \A id \in Ids :
    LET isConditional == orders[id].order.kind \in ConditionalKinds
    IN  /\ ledger[id].triggered <= IF isConditional THEN 1 ELSE 0
        /\ isConditional /\ ledger[id].executed > 0 => ledger[id].triggered = 1

\* Between calls no position sits beyond the liquidation threshold at its
\* instrument's last close.
NoUnderwaterPosition ==
  Idle /\ LiquidationBps # None =>
    \A i \in Instruments :
      LET pos == shadow[i]
          adverse == Sign(pos.net) * (pos.avg - pos.mark)
      IN  pos.net # 0 /\ pos.avg # 0 /\ adverse > 0 =>
            TruncDiv(adverse * 10000, Greater(Abs(pos.avg), 1)) < LiquidationBps

\* A liquidation leaves nothing on the book that could reopen the position.
LiquidationClearsBook ==
  [][\A i \in Instruments :
       shadow[i].net # 0 /\ shadow'[i].net = 0 /\ bar' = None =>
         \A n \in DOMAIN resting' : orders[resting'[n]].order.instrument # i]_vars

\* With the cash guard on and orders that fill at their limit or better, the
\* balance always covers every resting buy: no sequence of partial fills,
\* cancellations and new orders can spend cash the account does not have.
CashCoversReserve == Idle /\ cash # None => cash >= Reserved /\ Reserved >= 0

-----------------------------------------------------------------------------
(* What the repository says of the venue and the code does not keep *)

\* stop_fill's comment: a trailing stop derives its trigger from the high or
\* low of the bar that fills it, so unlike a fixed stop it needs no gap rule.
\* Its fill (without slippage) is then a price of that bar.
TrailingTriggerIsIntraBar ==
  \A n \in DOMAIN toFill :
    LET f == toFill[n]
    IN  orders[f.id].order.kind = "TrailingStop" => f.price \in bar.low..bar.high

\* OrderKind's documentation: a stop, a market-if-touched or a trailing stop
\* becomes a market order once its trigger is touched.  One that has been
\* reported triggered then fills on every bar that reaches it, as volume
\* allows, and never waits for its trigger again.
TriggeredIsMarket ==
  [][\A id \in Ids :
       orders[id].armed /\ orders[id].order.kind \in MarketOnTriggerKinds
         => ~DoesNotFill(id)]_vars

\* observe's comment: on a partial fill of an OCO leg its siblings are reduced
\* to what is left to protect, and not cancelled.
PartialFillSparesSiblings ==
  [][\A id \in Ids :
       OcoBlocked(id) =>
         \E n \in DOMAIN claimed :
           /\ claimed[n].group = orders[id].order.oco
           /\ claimed[n].complete \/ orders[id].order.qty <= claimed[n].filled]_vars
=============================================================================

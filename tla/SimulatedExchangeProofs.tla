----------------------- MODULE SimulatedExchangeProofs ----------------------
(***************************************************************************)
(* Theorems about the simulated venue for every set of ids, instruments,   *)
(* requests and bars and every configuration.                              *)
(***************************************************************************)
EXTENDS SimulatedExchange, OperatorProofs

-----------------------------------------------------------------------------
(* The verdict on an order *)

\* The requests the venue holds: a submitted one, or none.
HeldRequest == OrderRequest \cup {NoOrder}

\* A held request's fields have their types.
LEMMA HeldRequestType ==
  ASSUME NEW o \in HeldRequest
  PROVE  /\ o.side \in {Buy, Sell} /\ o.side \in Int /\ o.qty \in Int
         /\ o.kind \in OrderKinds
         /\ o.trigger \in Int /\ o.limit \in Int
         /\ o.trail.percent \in BOOLEAN /\ o.trail.by \in Int
         /\ o.tif \in {"Gtc", "Ioc", "Fok"}
         /\ o.reduceOnly \in BOOLEAN /\ o.postOnly \in BOOLEAN
         /\ o.oco \in Nat
<1>1. CASE o \in OrderRequest
  BY <1>1 DEF OrderRequest, Buy, Sell
<1>2. CASE o = NoOrder
  <2>1. /\ o.side = Buy /\ o.qty = 0 /\ o.kind = "Market" /\ o.trigger = 0
        /\ o.limit = 0 /\ o.trail = [percent |-> FALSE, by |-> 0] /\ o.tif = "Gtc"
        /\ o.reduceOnly = FALSE /\ o.postOnly = FALSE /\ o.oco = 0
    BY <1>2 DEF NoOrder
  <2>2. Buy \in Int /\ "Market" \in OrderKinds
    BY DEF Buy, OrderKinds
  <2>3. o.trail.percent = FALSE /\ o.trail.by = 0
    BY <2>1
  <2>4. o.trail.percent \in BOOLEAN
    BY <2>3, Zenon
  <2>5. o.reduceOnly \in BOOLEAN /\ o.postOnly \in BOOLEAN
    BY <2>1
  <2> QED
    BY <2>1, <2>2, <2>3, <2>4, <2>5
<1> QED
  BY <1>1, <1>2 DEF HeldRequest

\* What Evaluate returns.
Judgement == [state : OrderState, outcome : {"fill", "cancel", "rest"}, price : Int]

\* A state an order may be in remains one with any price for its reference.
LEMMA TrailedType ==
  ASSUME NEW r \in OrderState, NEW ref \in Int
  PROVE  [r EXCEPT !.trailRef = {ref}] \in OrderState
<1>1. {ref} \in {s \in SUBSET Int : \A p, q \in s : p = q}
  OBVIOUS
<1> QED
  BY <1>1 DEF OrderState

\* The best price seen is the reference's or the bar's.
LEMMA BestSeenType ==
  ASSUME NEW side \in {Buy, Sell}, NEW b \in Bar,
         NEW trailRef \in {s \in SUBSET Int : \A p, q \in s : p = q}
  PROVE  BestSeen(side, trailRef, b) \in Int
<1> DEFINE new    == IF side = Buy THEN b.low ELSE b.high
           prices == trailRef \cup {new}
<1>1. new \in Int /\ prices \subseteq Int /\ side \in Int
  <2>1. b.low \in Int /\ b.high \in Int
    BY DEF Bar
  <2>2. trailRef \subseteq Int
    OBVIOUS
  <2>3. Buy \in Int /\ Sell \in Int
    BY DEF Buy, Sell
  <2>4. new \in Int
    BY <2>1
  <2> QED
    BY <2>2, <2>3, <2>4
<1>2. \E best \in prices : \A p \in prices : BetterOf(side, best, p) = best
  <2>1. CASE trailRef = {}
    BY <2>1 DEF BetterOf
  <2>2. CASE trailRef # {}
    <3>1. PICK old \in trailRef : trailRef = {old}
      BY <2>2
    <3>2. prices = {old, new}
      BY <3>1
    <3>3. old \in Int
      BY <3>1
    <3>4. side * old \in Int /\ side * new \in Int
      BY <1>1, <3>3
    <3>5. CASE side * old <= side * new
      BY <3>2, <3>4, <3>5 DEF BetterOf
    <3>6. CASE ~(side * old <= side * new)
      BY <3>2, <3>4, <3>6 DEF BetterOf
    <3> QED
      BY <3>5, <3>6
  <2> QED
    BY <2>1, <2>2
<1>3. BestSeen(side, trailRef, b) \in prices
  BY <1>2 DEF BestSeen
<1> QED
  BY <1>1, <1>3

\* The trigger of a trailing stop is an integer.
LEMMA TrailTriggerType ==
  ASSUME NEW side \in Int, NEW percent \in BOOLEAN, NEW by \in Int, NEW ref \in Int,
         NEW trail, trail.percent = percent, trail.by = by
  PROVE  TrailTrigger(side, trail, ref) \in Int
<1>1. MulBps(ref, by) \in Int
  BY MulBpsType
<1>2. \A n \in Int : side * n \in Int
  OBVIOUS
<1> QED
  BY <1>1, <1>2 DEF TrailTrigger

\* Working a limit returns a judgement.
LEMMA WorkLimitType ==
  ASSUME NEW r \in OrderState, NEW b \in Bar, NEW ref \in Int
  PROVE  WorkLimit(r, b, ref) \in Judgement
<1>1. r.order \in HeldRequest
  BY DEF OrderState, HeldRequest
<1>2. r.order.limit \in Int
  BY <1>1, HeldRequestType
<1>3. BetterOf(r.order.side, ref, r.order.limit) \in Int
  BY <1>2 DEF BetterOf
<1> QED
  BY <1>3 DEF WorkLimit, Cancels, Fills, Rests, Judgement

\* Evaluating an order against a bar returns a judgement.
LEMMA EvaluateType ==
  ASSUME NEW r \in OrderState, NEW b \in Bar
  PROVE  Evaluate(r, b) \in Judgement
<1> DEFINE o == r.order
<1>1. /\ o \in HeldRequest /\ o.kind \in OrderKinds
      /\ o.side \in {Buy, Sell} /\ o.side \in Int
      /\ o.trigger \in Int /\ o.limit \in Int
      /\ o.trail.percent \in BOOLEAN /\ o.trail.by \in Int
  <2>1. o \in HeldRequest
    BY DEF OrderState, HeldRequest
  <2> QED
    BY <2>1, HeldRequestType
<1>2. b.open \in Int
  BY DEF Bar
<1>3. \A price \in Int : Fills(r, price) \in Judgement
  BY DEF Fills, Judgement
<1>4. Rests(r) \in Judgement
  BY DEF Rests, Judgement
<1>5. WorkLimit(r, b, b.open) \in Judgement
  BY <1>2, WorkLimitType
<1>6. WorkStopLimit(r, b) \in Judgement
  <2>1. [r EXCEPT !.armed = TRUE] \in OrderState
    BY DEF OrderState
  <2>2. WorkLimit([r EXCEPT !.armed = TRUE], b, o.trigger) \in Judgement
    BY <1>1, <2>1, WorkLimitType
  <2> QED
    BY <1>4, <1>5, <2>2 DEF WorkStopLimit
<1>7. WorkTrailing(r, b) \in Judgement
  <2> DEFINE ref     == BestSeen(o.side, r.trailRef, b)
             trigger == TrailTrigger(o.side, o.trail, ref)
             trailed == [r EXCEPT !.trailRef = {ref}]
  <2>1. ref \in Int
    <3>1. r.trailRef \in {s \in SUBSET Int : \A p, q \in s : p = q}
      BY DEF OrderState
    <3> QED
      BY <1>1, <3>1, BestSeenType
  <2>2. trigger \in Int
    BY <1>1, <2>1, TrailTriggerType
  <2>3. trailed \in OrderState
    BY <2>1, TrailedType
  <2>4. Fills(trailed, trigger) \in Judgement /\ Rests(trailed) \in Judgement
    BY <2>2, <2>3 DEF Fills, Rests, Judgement
  <2> QED
    BY <2>4 DEF WorkTrailing
<1>8. WorseOf(o.side, o.trigger, b.open) \in Int
  BY <1>1, <1>2 DEF WorseOf
<1> QED
  BY <1>1, <1>2, <1>3, <1>4, <1>5, <1>6, <1>7, <1>8
     DEF Evaluate, OrderKinds, PassiveKinds, ConditionalKinds

-----------------------------------------------------------------------------
(* What the walk computes about an order *)

\* The bar being observed is one of the feed's, and its fields are integers.
LEMMA ObservedBarType ==
  ASSUME TypeOK, bar # None
  PROVE  /\ bar \in Bar /\ bar.instrument \in Instruments
         /\ bar.close \in Int /\ bar.volume \in Int
<1>1. bar \in Bars
  BY DEF TypeOK
<1>2. bar \in Bar
  BY <1>1, ConstantsAssumption
<1> QED
  BY <1>2 DEF Bar

\* An order the walk has reached is judged, and triggered by its first fill.
LEMMA VerdictType ==
  ASSUME TypeOK, NEW id \in Ids, Working(id)
  PROVE  /\ Verdict(id) \in Judgement
         /\ Verdict(id).state \in OrderState /\ Verdict(id).price \in Int
         /\ ArmedState(id) \in OrderState
<1>1. bar \in Bar
  BY ObservedBarType DEF Working, Reached
<1>2. orders[id] \in OrderState
  BY DEF TypeOK
<1>3. Verdict(id) \in Judgement
  BY <1>1, <1>2, EvaluateType DEF Verdict
<1>4. Verdict(id).state \in OrderState /\ Verdict(id).price \in Int
  BY <1>3 DEF Judgement
<1>5. ArmedState(id) \in OrderState
  BY <1>4 DEF ArmedState, OrderState
<1> QED
  BY <1>3, <1>4, <1>5

\* How much an order may fill is an integer.
LEMMA WantType ==
  ASSUME TypeOK, NEW id \in Ids
  PROVE  /\ orders[id].order.side \in Int /\ orders[id].filled \in Int
         /\ Want(id) \in Int
<1>1. orders[id].order \in HeldRequest /\ orders[id].filled \in Int
  BY DEF TypeOK, OrderState, HeldRequest
<1>2. orders[id].order.qty \in Int /\ orders[id].order.side \in Int
  BY <1>1, HeldRequestType
<1>3. Remaining(id) \in Int
  BY <1>1, <1>2 DEF Remaining
<1>4. cap # None => Greater(cap, 0) \in Int
  BY LesserGreaterType DEF TypeOK
<1>5. Room(id) \in Int
  BY <1>3, <1>4, LesserGreaterType DEF Room
<1>6. Reducible(id) \in Int
  BY AbsType DEF Reducible, TypeOK
<1> QED
  BY <1>1, <1>2, <1>5, <1>6 DEF Want

\* A fill is priced in integers, with slippage and impact or without.
LEMMA SlippedType ==
  ASSUME NEW price \in Int, NEW side \in Int
  PROVE  Slipped(price, side) \in Int
<1>1. MulBps(price, SlippageBps) \in Int
  BY ConstantsAssumption, MulBpsType
<1>2. \A n \in Int : side * n \in Int
  OBVIOUS
<1> QED
  BY <1>1, <1>2 DEF Slipped

\* So is a taker's fill, whatever share of the volume it takes.
LEMMA TakerPriceType ==
  ASSUME NEW base \in Int, NEW side \in Int, NEW qty \in Int, NEW volume \in Int
  PROVE  TakerPrice(base, side, qty, volume) \in Int
<1> DEFINE slipped == Slipped(base, side)
           share   == Lesser((qty * 10000) \div volume, 10000)
           impact  == TruncDiv(MulBps(slipped, ImpactBps) * share, 10000)
<1>1. slipped \in Int
  BY SlippedType
<1>2. CASE volume <= 0 \/ ImpactBps = 0 \/ qty <= 0
  BY <1>1, <1>2 DEF TakerPrice
<1>3. CASE ~(volume <= 0 \/ ImpactBps = 0 \/ qty <= 0)
  <2>1. (qty * 10000) \div volume \in Int
    <3>1. qty * 10000 \in Int /\ volume > 0
      BY <1>3
    <3> QED
      BY <3>1
  <2>2. share \in Int
    BY <2>1 DEF Lesser
  <2>3. MulBps(slipped, ImpactBps) \in Int
    BY <1>1, ConstantsAssumption, MulBpsType
  <2>4. MulBps(slipped, ImpactBps) * share \in Int
    BY <2>2, <2>3
  <2>5. impact \in Int
    BY <2>4, TruncDivType
  <2>6. side * impact \in Int
    BY <2>5
  <2>7. TakerPrice(base, side, qty, volume) = slipped + side * impact
    BY <1>3 DEF TakerPrice
  <2> HIDE DEF slipped, impact
  <2> QED
    BY <1>1, <2>6, <2>7
<1> QED
  BY <1>2, <1>3

\* A fee is an integer.
LEMMA FeeType ==
  ASSUME NEW price \in Int, NEW qty \in Int
  PROVE  Fee(price, qty) \in Int
  BY NotionalType, MulBpsType, ConstantsAssumption DEF Fee

\* Settling a fill leaves the balance an integer, or absent if it was.
LEMMA SettledType ==
  ASSUME NEW balance \in Int \cup {None}, NEW side \in Int, NEW price \in Int,
         NEW qty \in Int, NEW costs \in Int
  PROVE  Settled(balance, side, price, qty, costs) \in Int \cup {None}
<1>1. side * Notional(price, qty) \in Int
  BY NotionalType
<1> QED
  BY <1>1 DEF Settled

-----------------------------------------------------------------------------
(* Type correctness, action by action *)

\* No order is a state of an order.
LEMMA NoOrderStateType == NoOrderState \in OrderState
<1>1. {} \in {ref \in SUBSET Int : \A p, q \in ref : p = q}
  OBVIOUS
<1> QED
  BY <1>1 DEF NoOrderState, OrderState

\* Every order starts unheld, and the account flat.
LEMMA InitType == Init => TypeOK
<1> SUFFICES ASSUME Init PROVE TypeOK
  OBVIOUS
<1>1. /\ resting \in Seq(Ids) /\ pending \in Seq(Ids)
      /\ toFill \in Seq(StagedFill) /\ claimed \in Seq(Claim)
      /\ netAfter \in Int /\ cap \in Int \cup {None} /\ bar \in Bars \cup {None}
  BY DEF Init
<1>3. orders \in [Ids -> OrderState]
  BY NoOrderStateType DEF Init
<1>4. shadow \in [Instruments -> ShadowState] /\ seen \in [Instruments -> Nat]
  BY DEF Init, ShadowState
<1>5. ledger \in [Ids -> Ledger]
  BY DEF Init, Ledger
<1>6. cash \in Int \cup {None}
  BY ConstantsAssumption DEF Init
<1> QED
  BY <1>1, <1>3, <1>4, <1>5, <1>6 DEF TypeOK

\* Reporting an order's new state keeps the orders and the ledger typed.
LEMMA ReportType ==
  ASSUME TypeOK, NEW id \in Ids, NEW r \in OrderState, NEW events,
         NEW stage \in {"open", "closed"}, Report(id, r, events, stage)
  PROVE  orders' \in [Ids -> OrderState] /\ ledger' \in [Ids -> Ledger]
<1>1. orders' \in [Ids -> OrderState]
  BY DEF Report, TypeOK
<1>2. ledger' \in [Ids -> Ledger]
  <2> DEFINE count == IF r.armed /\ ~orders[id].armed THEN 1 ELSE 0
  <2>1. count \in Nat
    OBVIOUS
  <2>2. ledger[id] \in Ledger /\ ledger[id].triggered + count \in Nat
    BY <2>1 DEF TypeOK, Ledger
  <2>3. [ledger[id] EXCEPT !.stage = stage, !.triggered = @ + count] \in Ledger
    BY <2>2 DEF Ledger
  <2>4. ledger' = [ledger EXCEPT ![id] = [ledger[id] EXCEPT !.stage = stage,
                                                            !.triggered = @ + count]]
    BY DEF Report, TypeOK
  <2> QED
    BY <2>3, <2>4 DEF TypeOK
<1> QED
  BY <1>1, <1>2

\* Leaving an order behind, on the book or off it, keeps the book typed.
LEMMA LeaveType ==
  ASSUME TypeOK, NEW id \in Ids, Reached(id), NEW rests \in BOOLEAN, Leave(id, rests)
  PROVE  /\ resting' \in Seq(Ids) /\ pending' \in Seq(Ids)
         /\ UNCHANGED <<bar, shadow, cash, seen>>
<1>1. resting \in Seq(Ids) /\ pending \in Seq(Ids) /\ pending # << >>
  BY DEF TypeOK, Reached
<1> QED
  BY <1>1 DEF Leave

\* An order that leaves the walk with a new state and its events, and stages
\* nothing, keeps the whole state typed.
LEMMA LeftOrderType ==
  ASSUME TypeOK, NEW id \in Ids, Reached(id), NEW r \in OrderState, NothingStaged,
         NEW events, NEW rests \in BOOLEAN, NEW stage \in {"open", "closed"},
         Report(id, r, events, stage), Leave(id, rests)
  PROVE  TypeOK'
<1>1. orders' \in [Ids -> OrderState] /\ ledger' \in [Ids -> Ledger]
  BY ReportType
<1>2. /\ resting' \in Seq(Ids) /\ pending' \in Seq(Ids)
      /\ UNCHANGED <<bar, shadow, cash, seen>>
  BY LeaveType
<1> QED
  BY <1>1, <1>2 DEF TypeOK, NothingStaged

\* So do the three ways of leaving it.
LEMMA SettledOrderType ==
  ASSUME TypeOK, NEW id \in Ids, Reached(id), NEW r \in OrderState, NothingStaged
  PROVE  /\ Stays(id, r) => TypeOK'
         /\ Expires(id, r) => TypeOK'
         /\ \A why : IsCanceled(id, r, why) => TypeOK'
<1>1. ASSUME Stays(id, r) PROVE TypeOK'
  <2>1. Report(id, r, << >>, "open") /\ Leave(id, TRUE)
    BY <1>1 DEF Stays
  <2>2. "open" \in {"open", "closed"} /\ TRUE \in BOOLEAN
    OBVIOUS
  <2> QED
    BY <2>1, <2>2, LeftOrderType
<1>2. ASSUME Expires(id, r) PROVE TypeOK'
  <2>1. Report(id, r, <<Expired(id)>>, "closed") /\ Leave(id, FALSE)
    BY <1>2 DEF Expires
  <2>2. "closed" \in {"open", "closed"} /\ FALSE \in BOOLEAN
    OBVIOUS
  <2> QED
    BY <2>1, <2>2, LeftOrderType
<1>3. ASSUME NEW why, IsCanceled(id, r, why) PROVE TypeOK'
  <2>1. Report(id, r, <<Canceled(id, why)>>, "closed") /\ Leave(id, FALSE)
    BY <1>3 DEF IsCanceled
  <2>2. "closed" \in {"open", "closed"} /\ FALSE \in BOOLEAN
    OBVIOUS
  <2> QED
    BY <2>1, <2>2, LeftOrderType
<1> QED
  BY <1>1, <1>2, <1>3

\* submit adds an accepted order to the book and nothing else.
LEMMA SubmitType ==
  ASSUME TypeOK, NEW id \in Ids, NEW o \in Requests, Submit(id, o)
  PROVE  TypeOK'
<1>1. o \in OrderRequest /\ o.instrument \in Instruments /\ LatencyBars \in Nat
  BY ConstantsAssumption DEF OrderRequest
<1>2. UNCHANGED <<shadow, cash, observing, seen>>
  BY DEF Submit
<1>3. CASE Refuses(o)
  <2>1. ledger' = [ledger EXCEPT ![id].stage = "rejected"] /\ UNCHANGED <<resting, orders>>
    BY <1>3 DEF Submit
  <2>2. ledger' \in [Ids -> Ledger]
    BY <2>1 DEF TypeOK, Ledger
  <2> QED
    BY <1>2, <2>1, <2>2 DEF TypeOK, observing
<1>4. CASE ~Refuses(o)
  <2>1. /\ resting' = Append(resting, id)
        /\ orders' = [orders EXCEPT ![id] =
             [NoOrderState EXCEPT !.order = o, !.activateIn = LatencyBars]]
        /\ ledger' = [ledger EXCEPT ![id].stage = "open",
                                    ![id].placedAt = seen[o.instrument],
                                    ![id].late = GroupHasExecuted(o.oco)]
    BY <1>4 DEF Submit
  <2>2. resting' \in Seq(Ids)
    BY <2>1 DEF TypeOK
  <2>3. orders' \in [Ids -> OrderState]
    <3>1. [NoOrderState EXCEPT !.order = o, !.activateIn = LatencyBars] \in OrderState
      BY <1>1, NoOrderStateType DEF OrderState
    <3> QED
      BY <2>1, <3>1 DEF TypeOK
  <2>4. ledger' \in [Ids -> Ledger]
    <3>1. seen[o.instrument] \in Nat /\ GroupHasExecuted(o.oco) \in BOOLEAN
      BY <1>1 DEF TypeOK, GroupHasExecuted
    <3>2. [ledger[id] EXCEPT !.stage = "open", !.placedAt = seen[o.instrument],
                             !.late = GroupHasExecuted(o.oco)] \in Ledger
      BY <3>1 DEF TypeOK, Ledger
    <3>3. ledger' = [ledger EXCEPT ![id] =
            [ledger[id] EXCEPT !.stage = "open", !.placedAt = seen[o.instrument],
                               !.late = GroupHasExecuted(o.oco)]]
      BY <2>1 DEF TypeOK
    <3> QED
      BY <3>2, <3>3 DEF TypeOK
  <2> QED
    BY <1>2, <2>2, <2>3, <2>4 DEF TypeOK, observing
<1> QED
  BY <1>3, <1>4

\* cancel takes the order off the book, if it is there.
LEMMA CancelType ==
  ASSUME TypeOK, NEW id \in Ids, Cancel(id)
  PROVE  TypeOK'
<1>1. UNCHANGED <<orders, shadow, cash, observing, seen>>
  BY DEF Cancel
<1>2. CASE id \in OnBook
  <2>1. /\ resting' = Keep(resting, Ids \ {id})
        /\ ledger' = [ledger EXCEPT ![id].stage = "closed"]
    BY <1>2 DEF Cancel
  <2>2. resting \in Seq(Ids)
    BY DEF TypeOK
  <2>3. resting' \in Seq(Ids)
    BY <2>1, <2>2, KeepFacts
  <2>4. ledger' \in [Ids -> Ledger]
    BY <2>1 DEF TypeOK, Ledger
  <2> QED
    BY <1>1, <2>3, <2>4 DEF TypeOK, observing
<1>3. CASE id \notin OnBook
  <2>1. UNCHANGED <<resting, ledger>>
    BY <1>3 DEF Cancel
  <2> QED
    BY <1>1, <2>1 DEF TypeOK, observing
<1> QED
  BY <1>2, <1>3

\* observe starts with the bar's own volume cap and all the orders to walk.
LEMMA BeginObserveType ==
  ASSUME TypeOK, NEW b \in Bars, BeginObserve(b)
  PROVE  TypeOK'
<1>1. /\ b \in Bar /\ b.instrument \in Instruments
      /\ b.close \in Int /\ b.volume \in Int
  BY ConstantsAssumption DEF Bar
<1>2. UNCHANGED <<orders, cash, toFill, claimed, ledger>> /\ bar' \in Bars
  BY DEF BeginObserve
<1>3. shadow' \in [Instruments -> ShadowState] /\ netAfter' \in Int
  BY <1>1 DEF BeginObserve, TypeOK, ShadowState
<1>4. cap' \in Int \cup {None}
  BY <1>1, MulBpsType, ConstantsAssumption DEF BeginObserve
<1>5. resting' \in Seq(Ids) /\ pending' \in Seq(Ids)
  BY DEF BeginObserve, TypeOK
<1>6. seen' \in [Instruments -> Nat]
  BY <1>1 DEF BeginObserve, TypeOK
<1> QED
  BY <1>2, <1>3, <1>4, <1>5, <1>6 DEF TypeOK

\* An order of another instrument keeps its place.
LEMMA SkipType ==
  ASSUME TypeOK, NEW id \in Ids, SkipOtherInstrument(id)
  PROVE  TypeOK'
<1>1. /\ Reached(id) /\ Leave(id, TRUE) /\ TRUE \in BOOLEAN
      /\ UNCHANGED <<cap, netAfter, toFill, claimed, orders, ledger>>
  BY DEF SkipOtherInstrument, NothingStaged
<1>2. /\ resting' \in Seq(Ids) /\ pending' \in Seq(Ids)
      /\ UNCHANGED <<bar, shadow, cash, seen>>
  BY <1>1, LeaveType
<1> QED
  BY <1>1, <1>2 DEF TypeOK

\* An order still in flight counts one bar down, never below zero.
LEMMA AwaitLatencyType ==
  ASSUME TypeOK, NEW id \in Ids, AwaitLatency(id)
  PROVE  TypeOK'
<1>1. /\ Reached(id) /\ Leave(id, TRUE) /\ TRUE \in BOOLEAN
      /\ orders[id].activateIn > 0
      /\ orders' = [orders EXCEPT ![id].activateIn = @ - 1]
      /\ UNCHANGED <<cap, netAfter, toFill, claimed, ledger>>
  BY DEF AwaitLatency, NothingStaged
<1>2. /\ resting' \in Seq(Ids) /\ pending' \in Seq(Ids)
      /\ UNCHANGED <<bar, shadow, cash, seen>>
  BY <1>1, LeaveType
<1>3. orders' \in [Ids -> OrderState]
  <2>1. orders[id] \in OrderState /\ orders[id].activateIn - 1 \in Nat
    <3>1. orders[id] \in OrderState
      BY DEF TypeOK
    <3>2. orders[id].activateIn \in Nat
      BY <3>1 DEF OrderState
    <3> QED
      BY <1>1, <3>1, <3>2
  <2>2. [orders[id] EXCEPT !.activateIn = @ - 1] \in OrderState
    BY <2>1 DEF OrderState
  <2> QED
    BY <1>1, <2>2 DEF TypeOK
<1> QED
  BY <1>1, <1>2, <1>3 DEF TypeOK

\* The walk's steps that stage no fill.
LEMMA UnfilledType ==
  ASSUME TypeOK, NEW id \in Ids,
         \/ VenueCancels(id) \/ DoesNotFill(id) \/ TouchMisses(id)
         \/ OcoBlocked(id) \/ FokExpires(id) \/ NoRoom(id)
  PROVE  TypeOK'
<1>1. Working(id) /\ NothingStaged
  BY DEF VenueCancels, DoesNotFill, TouchMisses, OcoBlocked, FokExpires, NoRoom, Clears
<1>2. Reached(id) /\ Verdict(id).state \in OrderState /\ ArmedState(id) \in OrderState
  BY <1>1, VerdictType DEF Working
<1> DEFINE r == Verdict(id).state
           a == ArmedState(id)
<1>3. /\ Stays(id, r) => TypeOK'
      /\ Expires(id, r) => TypeOK'
      /\ \A why : IsCanceled(id, r, why) => TypeOK'
  BY <1>1, <1>2, SettledOrderType
<1>4. /\ Stays(id, a) => TypeOK'
      /\ Expires(id, a) => TypeOK'
      /\ \A why : IsCanceled(id, a, why) => TypeOK'
  BY <1>1, <1>2, SettledOrderType
<1>5. CASE VenueCancels(id)
  BY <1>3, <1>5 DEF VenueCancels
<1>6. CASE DoesNotFill(id)
  BY <1>3, <1>6 DEF DoesNotFill
<1>7. CASE TouchMisses(id)
  BY <1>3, <1>7 DEF TouchMisses
<1>8. CASE OcoBlocked(id)
  BY <1>3, <1>8 DEF OcoBlocked
<1>9. CASE FokExpires(id)
  BY <1>4, <1>9 DEF FokExpires
<1>10. CASE NoRoom(id)
  BY <1>4, <1>10 DEF NoRoom
<1> QED
  BY <1>5, <1>6, <1>7, <1>8, <1>9, <1>10

\* A staged fill is typed, and so are the cap and the position it leaves.
LEMMA StageFillType ==
  ASSUME TypeOK, NEW id \in Ids, StageFill(id)
  PROVE  TypeOK'
<1> DEFINE o == orders[id].order
           r == [ArmedState(id) EXCEPT !.filled = @ + Want(id)]
           f == [id |-> id, price |-> ExecutionPrice(o, Verdict(id).price, Want(id)),
                 qty |-> Want(id), complete |-> Completes(id)]
           c == [group |-> o.oco, keeper |-> id, filled |-> orders[id].filled + Want(id),
                 complete |-> Completes(id)]
<1>1. /\ Working(id) /\ Reached(id) /\ bar # None
      /\ toFill' = Append(toFill, f)
      /\ netAfter' = netAfter + o.side * Want(id)
      /\ cap' = IF cap = None THEN None ELSE cap - Want(id)
      /\ claimed' \in {claimed, Append(claimed, c)}
  BY DEF StageFill, Clears, Working, Reached, ClaimAfter
<1>2. /\ Verdict(id).price \in Int /\ ArmedState(id) \in OrderState
      /\ Want(id) \in Int /\ o.side \in Int /\ orders[id].filled \in Int
      /\ o.oco \in Nat /\ Completes(id) \in BOOLEAN
  <2>1. o \in HeldRequest
    BY DEF TypeOK, OrderState, HeldRequest
  <2>2. Completes(id) \in BOOLEAN
    BY DEF Completes, ExhaustsReduction
  <2> QED
    BY <1>1, <2>1, <2>2, VerdictType, WantType, HeldRequestType
<1>3. r \in OrderState
  BY <1>2 DEF OrderState
<1>4. toFill' \in Seq(StagedFill)
  <2>1. bar.volume \in Int
    BY <1>1, ObservedBarType
  <2>2. ExecutionPrice(o, Verdict(id).price, Want(id)) \in Int
    BY <1>2, <2>1, TakerPriceType DEF ExecutionPrice
  <2>3. f \in StagedFill
    BY <1>2, <2>2 DEF StagedFill
  <2> HIDE DEF f
  <2> QED
    BY <1>1, <2>3 DEF TypeOK
<1>5. claimed' \in Seq(Claim)
  <2>1. c \in Claim
    BY <1>2 DEF Claim
  <2>2. claimed \in Seq(Claim)
    BY DEF TypeOK
  <2> HIDE DEF c
  <2>3. Append(claimed, c) \in Seq(Claim)
    BY <2>1, <2>2
  <2> QED
    BY <1>1, <2>2, <2>3
<1>6. netAfter' \in Int /\ cap' \in Int \cup {None}
  BY <1>1, <1>2 DEF TypeOK
<1>7. ASSUME NEW events, NEW rests \in BOOLEAN, NEW stage \in {"open", "closed"},
             Report(id, r, events, stage), Leave(id, rests)
      PROVE  TypeOK'
  <2>1. orders' \in [Ids -> OrderState] /\ ledger' \in [Ids -> Ledger]
    BY <1>3, <1>7, ReportType
  <2>2. /\ resting' \in Seq(Ids) /\ pending' \in Seq(Ids)
        /\ UNCHANGED <<bar, shadow, cash, seen>>
    BY <1>1, <1>7, LeaveType
  <2> QED
    BY <1>4, <1>5, <1>6, <2>1, <2>2 DEF TypeOK
<1>8. \/ Report(id, r, << >>, "open") /\ Leave(id, FALSE)
      \/ Report(id, r, << >>, "open") /\ Leave(id, TRUE)
      \/ Report(id, r, <<Expired(id)>>, "closed") /\ Leave(id, FALSE)
  BY DEF StageFill, Stays, Expires
<1>9. /\ TRUE \in BOOLEAN /\ FALSE \in BOOLEAN
      /\ "open" \in {"open", "closed"} /\ "closed" \in {"open", "closed"}
  OBVIOUS
<1> HIDE DEF r
<1> QED
  BY <1>7, <1>8, <1>9

\* An emitted fill moves the position and the cash, and leaves both typed.
LEMMA EmitFillType ==
  ASSUME TypeOK, EmitFill
  PROVE  TypeOK'
<1> DEFINE f    == Head(toFill)
           o    == orders[f.id].order
           pos  == shadow[o.instrument]
           sgnd == o.side * f.qty
<1>1. /\ toFill # << >> /\ toFill' = Tail(toFill)
      /\ shadow' = [shadow EXCEPT
              ![o.instrument].net = @ + sgnd,
              ![o.instrument].avg = AvgAfter(pos.net, pos.avg, sgnd, f.price)]
      /\ cash' = Settled(cash, o.side, f.price, f.qty, Fee(f.price, f.qty))
      /\ ledger' = [ledger EXCEPT
              ![f.id].executed = @ + f.qty,
              ![f.id].stage = IF f.complete THEN "closed" ELSE @]
      /\ UNCHANGED <<resting, orders, bar, pending, cap, netAfter, claimed, seen>>
  BY DEF EmitFill
<1>2. toFill' \in Seq(StagedFill) /\ f \in StagedFill
  <2>1. toFill \in Seq(StagedFill) /\ toFill # << >> /\ toFill' = Tail(toFill)
    BY <1>1 DEF TypeOK
  <2> QED
    BY <2>1
<1>3. /\ f.id \in Ids /\ f.qty \in Int /\ f.price \in Int
      /\ f.complete \in BOOLEAN
  BY <1>2 DEF StagedFill
<1> HIDE DEF f
<1>4. o.side \in Int
  <2>1. o \in HeldRequest
    BY <1>3 DEF TypeOK, OrderState, HeldRequest
  <2> QED
    BY <2>1, HeldRequestType
<1> HIDE DEF o
<1>5. sgnd \in Int
  BY <1>3, <1>4
<1> HIDE DEF sgnd
<1>6. shadow' \in [Instruments -> ShadowState]
  <2>1. CASE o.instrument \in Instruments
    <3>1. pos \in ShadowState /\ pos.net \in Int /\ pos.avg \in Int
      BY <2>1 DEF TypeOK, ShadowState
    <3>2. pos.net + sgnd \in Int /\ AvgAfter(pos.net, pos.avg, sgnd, f.price) \in Int
      <4>1. /\ pos.net \in Int /\ pos.avg \in Int /\ f.price \in Int /\ sgnd \in Int
        BY <3>1, <1>3, <1>5
      <4> HIDE DEF pos
      <4>2. AvgAfter(pos.net, pos.avg, sgnd, f.price) \in Int
        BY <4>1, AvgAfterType
      <4>3. pos.net + sgnd \in Int
        BY <4>1
      <4> QED
        BY <4>2, <4>3
    <3>3. shadow' = [shadow EXCEPT ![o.instrument] =
            [pos EXCEPT !.net = @ + sgnd,
                        !.avg = AvgAfter(pos.net, pos.avg, sgnd, f.price)]]
      BY <1>1, <2>1 DEF TypeOK
    <3>4. [pos EXCEPT !.net = @ + sgnd,
                      !.avg = AvgAfter(pos.net, pos.avg, sgnd, f.price)] \in ShadowState
      BY <3>1, <3>2 DEF ShadowState
    <3> QED
      BY <3>3, <3>4 DEF TypeOK
  <2>2. CASE o.instrument \notin Instruments
    <3>1. shadow' = shadow
      BY <1>1, <2>2 DEF TypeOK
    <3> QED
      BY <3>1 DEF TypeOK
  <2> QED
    BY <2>1, <2>2
<1>7. cash' \in Int \cup {None}
  BY <1>1, <1>3, <1>4, FeeType, SettledType DEF TypeOK
<1>8. ledger' \in [Ids -> Ledger]
  <2>1. ledger[f.id] \in Ledger /\ ledger[f.id].executed + f.qty \in Int
    BY <1>3 DEF TypeOK, Ledger
  <2>2. [ledger[f.id] EXCEPT !.executed = @ + f.qty,
                             !.stage = IF f.complete THEN "closed" ELSE @] \in Ledger
    BY <2>1 DEF Ledger
  <2>3. ledger' = [ledger EXCEPT ![f.id] =
          [ledger[f.id] EXCEPT !.executed = @ + f.qty,
                               !.stage = IF f.complete THEN "closed" ELSE @]]
    BY <1>1, <1>3 DEF TypeOK
  <2> QED
    BY <2>2, <2>3 DEF TypeOK
<1> QED
  BY <1>1, <1>2, <1>6, <1>7, <1>8 DEF TypeOK

\* Closing orders in the ledger keeps it typed.
LEMMA CloseAllType ==
  ASSUME TypeOK, NEW gone
  PROVE  CloseAll(gone) \in [Ids -> Ledger]
<1>1. \A id \in Ids : ledger[id] \in Ledger /\ [ledger[id] EXCEPT !.stage = "closed"] \in Ledger
  BY DEF TypeOK, Ledger
<1> QED
  BY <1>1 DEF CloseAll

\* A resolved group leaves only orders already held, reduced or not.
LEMMA ResolveOcoType ==
  ASSUME TypeOK, ResolveOco
  PROVE  TypeOK'
<1> DEFINE c        == Head(claimed)
           siblings == {id \in Ids \ {c.keeper} : orders[id].order.oco = c.group}
           losers   == {id \in siblings : c.complete \/ orders[id].order.qty <= c.filled}
<1>1. /\ claimed # << >> /\ claimed' = Tail(claimed)
      /\ resting' = Keep(resting, Ids \ losers)
      /\ orders' = [id \in Ids |->
              IF id \in OnBook \cap (siblings \ losers)
              THEN [orders[id] EXCEPT !.filled = Greater(@, c.filled)]
              ELSE orders[id]]
      /\ ledger' = CloseAll(Keep(resting, losers))
      /\ UNCHANGED <<shadow, cash, bar, pending, cap, netAfter, toFill, seen>>
  BY DEF ResolveOco
<1>2. claimed' \in Seq(Claim) /\ c \in Claim
  BY <1>1 DEF TypeOK
<1>3. c.filled \in Int
  BY <1>2 DEF Claim
<1> HIDE DEF c, siblings, losers
<1>4. resting' \in Seq(Ids)
  BY <1>1, KeepFacts DEF TypeOK
<1>5. orders' \in [Ids -> OrderState]
  <2>1. ASSUME NEW id \in Ids
        PROVE  [orders[id] EXCEPT !.filled = Greater(@, c.filled)] \in OrderState
    <3>1. orders[id] \in OrderState
      BY DEF TypeOK
    <3>2. orders[id].filled \in Int
      BY <3>1 DEF OrderState
    <3>3. Greater(orders[id].filled, c.filled) \in Int
      BY <1>3, <3>2, LesserGreaterType
    <3> QED
      BY <3>1, <3>3 DEF OrderState
  <2> QED
    BY <1>1, <2>1 DEF TypeOK
<1>6. ledger' \in [Ids -> Ledger]
  BY <1>1, CloseAllType
<1> QED
  BY <1>1, <1>2, <1>4, <1>5, <1>6 DEF TypeOK

\* Liquidation closes the position at the slipped mark.
LEMMA LiquidateType ==
  ASSUME TypeOK, bar # None, NEW balance \in Int \cup {None}, NEW clock \in Nat,
         NEW events, Liquidate(balance, clock, events)
  PROVE  /\ shadow' \in [Instruments -> ShadowState] /\ cash' \in Int \cup {None}
         /\ resting' \in Seq(Ids) /\ ledger' \in [Ids -> Ledger]
<1> DEFINE net   == shadow[Here].net
           side  == -Sign(net)
           qty   == Abs(net)
           price == Slipped(bar.close, side)
           here  == {id \in Ids : orders[id].order.instrument = Here}
<1>1. Here \in Instruments /\ bar.close \in Int
  BY ObservedBarType DEF Here
<1>2. net \in Int /\ shadow[Here] \in ShadowState /\ shadow[Here].avg \in Int
  BY <1>1 DEF TypeOK, ShadowState
<1>3. side \in Int /\ qty \in Int
  BY <1>2, SignType, AbsType
<1>4. /\ shadow' = [shadow EXCEPT ![Here].net = @ + side * qty,
                                 ![Here].avg = AvgAfter(net, @, side * qty, price),
                                 ![Here].bars = clock]
      /\ cash' = Settled(balance, side, price, qty, Fee(price, qty))
      /\ resting' = Keep(resting, Ids \ here)
      /\ ledger' = CloseAll(Keep(resting, here))
  BY DEF Liquidate
<1> HIDE DEF side, qty, here
<1>5. price \in Int
  BY <1>1, <1>3, SlippedType
<1> HIDE DEF price
<1>6. shadow' \in [Instruments -> ShadowState]
  <2>1. side * qty \in Int
    BY <1>3
  <2> DEFINE signed == side * qty
             avg    == shadow[Here].avg
  <2>2. net + signed \in Int /\ AvgAfter(net, avg, signed, price) \in Int
    <3>1. net \in Int /\ avg \in Int /\ signed \in Int /\ price \in Int
      BY <1>2, <1>5, <2>1
    <3> HIDE DEF net, avg, signed
    <3>2. AvgAfter(net, avg, signed, price) \in Int
      BY <3>1, AvgAfterType
    <3>3. net + signed \in Int
      BY <3>1
    <3> QED
      BY <3>2, <3>3
  <2>3. [shadow[Here] EXCEPT !.net = @ + side * qty,
                             !.avg = AvgAfter(net, @, side * qty, price),
                             !.bars = clock] \in ShadowState
    BY <1>2, <2>2 DEF ShadowState
  <2>4. shadow' = [shadow EXCEPT ![Here] =
          [shadow[Here] EXCEPT !.net = @ + side * qty,
                               !.avg = AvgAfter(net, @, side * qty, price),
                               !.bars = clock]]
    BY <1>1, <1>4 DEF TypeOK
  <2> QED
    BY <2>3, <2>4 DEF TypeOK
<1>7. cash' \in Int \cup {None}
  BY <1>3, <1>4, <1>5, FeeType, SettledType
<1>8. resting' \in Seq(Ids) /\ ledger' \in [Ids -> Ledger]
  BY <1>4, KeepFacts, CloseAllType DEF TypeOK
<1> QED
  BY <1>6, <1>7, <1>8

\* The call returns with the funding clock ticked and the account settled.
LEMMA FinishObserveType ==
  ASSUME TypeOK, FinishObserve
  PROVE  TypeOK'
<1>1. /\ bar # None /\ bar' = None /\ cap' = None /\ netAfter' = 0
      /\ UNCHANGED <<orders, pending, toFill, claimed, seen>>
  BY DEF FinishObserve, Walked
<1>2. Here \in Instruments /\ bar.close \in Int
  BY <1>1, ObservedBarType DEF Here
<1>3. FundingClock \in Nat
  <2>1. shadow[Here].bars \in Nat
    BY <1>2 DEF TypeOK, ShadowState
  <2> QED
    BY <2>1 DEF FundingClock
<1>4. \A rate \in FundingRates : FundingCost(rate) \in Int
  <2>1. shadow[Here].net \in Int
    BY <1>2 DEF TypeOK, ShadowState
  <2>2. Notional(bar.close, shadow[Here].net) \in Int
    BY <1>2, <2>1, NotionalType
  <2>3. \A rate \in FundingRates : Notional(bar.close, shadow[Here].net) * rate \in Int
    <3>1. \A n, m \in Int : n * m \in Int
      OBVIOUS
    <3> QED
      BY <2>2, <3>1, ConstantsAssumption
  <2> QED
    BY <2>3, TruncDivType, ConstantsAssumption DEF FundingCost
<1>5. PICK rate \in FundingRates :
        LET cost    == IF FundingIsDue THEN FundingCost(rate) ELSE 0
            balance == IF cash = None THEN None ELSE cash - cost
            events  == IF FundingIsDue
                       THEN Append(sink, [type |-> "FundingSettlement",
                                          instrument |-> Here, cost |-> cost])
                       ELSE sink
        IN  IF IsLiquidated THEN Liquidate(balance, FundingClock, events)
            ELSE /\ shadow' = [shadow EXCEPT ![Here].bars = FundingClock]
                 /\ cash' = balance
                 /\ sink' = events
                 /\ UNCHANGED <<resting, ledger>>
  BY DEF FinishObserve
<1> DEFINE cost    == IF FundingIsDue THEN FundingCost(rate) ELSE 0
           balance == IF cash = None THEN None ELSE cash - cost
<1>6. balance \in Int \cup {None}
  <2>1. cost \in Int
    BY <1>4
  <2> QED
    BY <2>1 DEF TypeOK
<1>7. /\ shadow' \in [Instruments -> ShadowState] /\ cash' \in Int \cup {None}
      /\ resting' \in Seq(Ids) /\ ledger' \in [Ids -> Ledger]
  <2>1. CASE IsLiquidated
    <3>1. \E events : Liquidate(balance, FundingClock, events)
      BY <1>5, <2>1
    <3> QED
      BY <1>1, <1>3, <1>6, <3>1, LiquidateType
  <2>2. CASE ~IsLiquidated
    <3>1. /\ shadow' = [shadow EXCEPT ![Here].bars = FundingClock]
          /\ cash' = balance /\ UNCHANGED <<resting, ledger>>
      BY <1>5, <2>2
    <3>2. [shadow[Here] EXCEPT !.bars = FundingClock] \in ShadowState
      BY <1>2, <1>3 DEF TypeOK, ShadowState
    <3>3. shadow' \in [Instruments -> ShadowState]
      BY <3>1, <3>2 DEF TypeOK
    <3> QED
      BY <1>6, <3>1, <3>3 DEF TypeOK
  <2> QED
    BY <2>1, <2>2
<1> QED
  BY <1>1, <1>7 DEF TypeOK

-----------------------------------------------------------------------------
(* Steps of the venue *)

\* The caller takes events, or adds some of its own: the venue stands still.
CallerStep == UNCHANGED <<resting, orders, shadow, cash, observing, ledger, seen>>

\* A call of the venue's, whatever is in its sink.
CallStep ==
  \/ \E id \in Ids, o \in Requests : Submit(id, o)
  \/ \E id \in Ids : Cancel(id)
  \/ \E b \in Bars : BeginObserve(b)

\* What the venue's state may go through, whether or not the caller takes its
\* events between calls: all the invariants below are kept by these.
VenueStep == CallStep \/ Observing \/ CallerStep

\* The venue's own next-state relation takes no other steps.
LEMMA NextIsStep == ASSUME [Next]_vars PROVE VenueStep
  BY DEF Next, Calls, TakeEvents, vars, VenueStep, CallStep, CallerStep

\* Every step of the venue keeps its state typed.
LEMMA StepType ==
  ASSUME TypeOK, VenueStep
  PROVE  TypeOK'
<1>1. CASE CallStep
  BY <1>1, SubmitType, CancelType, BeginObserveType DEF CallStep
<1>2. ASSUME NEW id \in Ids, Match(id) PROVE TypeOK'
  BY <1>2, SkipType, AwaitLatencyType, UnfilledType, StageFillType DEF Match
<1>3. CASE EmitFill \/ ResolveOco \/ FinishObserve
  BY <1>3, EmitFillType, ResolveOcoType, FinishObserveType
<1>4. CASE CallerStep
  BY <1>4 DEF CallerStep, TypeOK, observing
<1> QED
  BY <1>1, <1>2, <1>3, <1>4 DEF VenueStep, Observing

\* The venue's book, positions, cash and staged fills keep their types, for
\* any requests and bars: in particular no order's latency counter, which the
\* code keeps unsigned, is decremented below zero.
THEOREM TypeCorrect == Spec => []TypeOK
<1>1. Init => TypeOK
  BY InitType
<1>2. TypeOK /\ [Next]_vars => TypeOK'
  BY StepType, NextIsStep
<1> QED
  BY <1>1, <1>2, PTL DEF Spec

-----------------------------------------------------------------------------
(* The book and the event stream                                            *)
(*                                                                          *)
(* BookAgrees is not inductive: a fill that completes its order takes the   *)
(* order off the book when it is staged and closes it when it is emitted,   *)
(* and in between the order is open and not held.  BookInv accounts for     *)
(* the orders in that state, and for what the walk has yet to reach.        *)

\* What the venue holds, in order: the orders the walk has left on the book
\* and those it has yet to reach.
Held == resting \o pending

\* The orders reported accepted and not yet ended.
OpenIds == {id \in Ids : ledger[id].stage = "open"}

\* The orders whose last fill is staged and not yet emitted.
Finishing ==
  {id \in Ids : \E n \in DOMAIN toFill : toFill[n].complete /\ toFill[n].id = id}

BookInv ==
  /\ Distinct(Held)
  /\ Elements(Held) \subseteq OpenIds
  /\ OpenIds \subseteq Elements(Held) \cup Finishing
  /\ Finishing \cap Elements(Held) = {}
  /\ Idle => pending = << >> /\ toFill = << >>

-----------------------------------------------------------------------------
\* Nothing is held at first.
LEMMA InitBook == Init => BookInv
<1> SUFFICES ASSUME Init PROVE BookInv
  OBVIOUS
<1>1. Held = << >> /\ pending = << >> /\ toFill = << >>
  BY DEF Init, Held
<1>2. Distinct(Held) /\ Elements(Held) = {}
  BY <1>1 DEF Distinct, Elements
<1>3. OpenIds = {}
  BY DEF Init, OpenIds
<1> QED
  BY <1>1, <1>2, <1>3 DEF BookInv, Finishing

\* The invariant says what BookAgrees says of what the venue holds.
LEMMA BookInvImplies ==
  ASSUME TypeOK, BookInv
  PROVE  BookAgrees
<1>1. \A m, n \in DOMAIN Held : Held[m] = Held[n] => m = n
  BY DEF BookInv, Distinct
<1>2. \A n \in DOMAIN Held : ledger[Held[n]].stage = "open"
  BY DEF BookInv, Elements, OpenIds
<1>3. ASSUME Idle, NEW id \in Ids, ledger[id].stage = "open" PROVE id \in OnBook
  <2>1. pending = << >> /\ toFill = << >> /\ id \in OpenIds
    BY <1>3 DEF BookInv, OpenIds
  <2>2. Finishing = {}
    BY <2>1 DEF Finishing
  <2>3. Held = resting
    BY <2>1 DEF Held, TypeOK
  <2> QED
    BY <2>1, <2>2, <2>3 DEF BookInv, Elements, OnBook
<1> QED
  BY <1>1, <1>2, <1>3 DEF BookAgrees, Held

-----------------------------------------------------------------------------
(* What a step of the walk does to what is held *)

\* An order the walk has reached is held and open.  Left on the book it
\* changes nothing of what is held; left off it, it alone is gone.
LEMMA LeaveHeld ==
  ASSUME TypeOK, BookInv, NEW id \in Ids, Reached(id)
  PROVE  /\ id \in Elements(Held) /\ id \in OpenIds
         /\ Leave(id, TRUE) => Held' = Held
         /\ Leave(id, FALSE) => /\ Distinct(Held')
                                /\ Elements(Held') = Elements(Held) \ {id}
<1>1. /\ resting \in Seq(Ids) /\ pending \in Seq(Ids) /\ pending # << >>
      /\ id = Head(pending)
  BY DEF TypeOK, Reached
<1>2. Head(pending) \in Elements(pending)
  BY <1>1 DEF Elements
<1>3. id \in Elements(Held)
  BY <1>1, <1>2, ConcatElements DEF Held
<1>4. ASSUME Leave(id, TRUE) PROVE Held' = Held
  <2>1. resting' = Append(resting, Head(pending)) /\ pending' = Tail(pending)
    BY <1>1, <1>4 DEF Leave
  <2>2. Append(resting, Head(pending)) \o Tail(pending) = resting \o pending
    BY <1>1, MoveHead
  <2> QED
    BY <2>1, <2>2 DEF Held
<1>5. ASSUME Leave(id, FALSE)
      PROVE  Distinct(Held') /\ Elements(Held') = Elements(Held) \ {id}
  <2>1. resting' = resting /\ pending' = Tail(pending)
    BY <1>5 DEF Leave
  <2>2. Distinct(resting \o pending)
    BY DEF BookInv, Held
  <2>3. /\ Distinct(resting \o Tail(pending))
        /\ Elements(resting \o Tail(pending)) = Elements(resting \o pending) \ {Head(pending)}
    BY <1>1, <2>2, DropHead
  <2> QED
    BY <1>1, <2>1, <2>3 DEF Held
<1> QED
  BY <1>3, <1>4, <1>5 DEF BookInv

\* Reporting an order changes its stage, and no other's.
LEMMA ReportStage ==
  ASSUME TypeOK, NEW id \in Ids, NEW r, NEW events, NEW stage,
         Report(id, r, events, stage)
  PROVE  /\ stage = "open" => OpenIds' = OpenIds \cup {id}
         /\ stage = "closed" => OpenIds' = OpenIds \ {id}
<1>1. /\ ledger'[id].stage = stage
      /\ \A other \in Ids \ {id} : ledger'[other].stage = ledger[other].stage
  BY DEF Report, TypeOK, Ledger
<1> QED
  BY <1>1 DEF OpenIds

\* An order that ends its turn held as before, or held no more and closed,
\* keeps the invariant, if no fill that completes it is staged.
LEMMA WalkBook ==
  ASSUME TypeOK, BookInv, NEW id \in Ids, Reached(id), bar' = bar,
         Finishing' = Finishing, NEW r
  PROVE  /\ Stays(id, r) => BookInv'
         /\ Expires(id, r) => BookInv'
         /\ \A why : IsCanceled(id, r, why) => BookInv'
<1>1. bar' # None
  BY DEF Reached
<1>2. ASSUME Held' = Held, OpenIds' = OpenIds \cup {id} PROVE BookInv'
  BY <1>1, <1>2, LeaveHeld DEF BookInv, Idle
<1>3. ASSUME Leave(id, FALSE), OpenIds' = OpenIds \ {id} PROVE BookInv'
  BY <1>1, <1>3, LeaveHeld DEF BookInv, Idle
<1>4. Stays(id, r) => BookInv'
  BY <1>2, LeaveHeld, ReportStage DEF Stays
<1>5. Expires(id, r) => BookInv'
  BY <1>3, ReportStage DEF Expires
<1>6. ASSUME NEW why, IsCanceled(id, r, why) PROVE BookInv'
  BY <1>3, <1>6, ReportStage DEF IsCanceled
<1> QED
  BY <1>4, <1>5, <1>6

\* The walk's steps that stage no fill.
LEMMA UnfilledBook ==
  ASSUME TypeOK, BookInv, NEW id \in Ids,
         \/ SkipOtherInstrument(id) \/ AwaitLatency(id)
         \/ VenueCancels(id) \/ DoesNotFill(id) \/ TouchMisses(id)
         \/ OcoBlocked(id) \/ FokExpires(id) \/ NoRoom(id)
  PROVE  BookInv'
<1>1. Reached(id) /\ toFill' = toFill
  BY DEF SkipOtherInstrument, AwaitLatency, VenueCancels, DoesNotFill, TouchMisses,
         OcoBlocked, FokExpires, NoRoom, Clears, Working, NothingStaged
<1>2. Finishing' = Finishing
  BY <1>1 DEF Finishing
<1>3. ASSUME bar' = bar, NEW r
      PROVE  /\ Stays(id, r) => BookInv'
             /\ Expires(id, r) => BookInv'
             /\ \A why : IsCanceled(id, r, why) => BookInv'
  BY <1>1, <1>2, <1>3, WalkBook
<1>4. CASE SkipOtherInstrument(id) \/ AwaitLatency(id)
  <2>1. Leave(id, TRUE) /\ ledger' = ledger /\ bar' = bar
    BY <1>4 DEF SkipOtherInstrument, AwaitLatency, Leave
  <2>2. Held' = Held /\ OpenIds' = OpenIds
    BY <1>1, <2>1, LeaveHeld DEF OpenIds
  <2> QED
    BY <1>1, <1>2, <2>1, <2>2 DEF BookInv, Idle, Reached
<1>5. CASE VenueCancels(id) \/ DoesNotFill(id) \/ TouchMisses(id)
           \/ OcoBlocked(id) \/ FokExpires(id) \/ NoRoom(id)
  <2>1. bar' = bar
    BY <1>5 DEF VenueCancels, DoesNotFill, TouchMisses, OcoBlocked, FokExpires, NoRoom,
                Stays, Expires, IsCanceled, Leave
  <2> QED
    BY <1>3, <1>5, <2>1
       DEF VenueCancels, DoesNotFill, TouchMisses, OcoBlocked, FokExpires, NoRoom
<1> QED
  BY <1>4, <1>5

\* A staged fill that completes its order takes it off the book, still open;
\* one that does not leaves it there, or expires it.
LEMMA StageFillBook ==
  ASSUME TypeOK, BookInv, NEW id \in Ids, StageFill(id)
  PROVE  BookInv'
<1> DEFINE r == [ArmedState(id) EXCEPT !.filled = @ + Want(id)]
<1>1. PICK price :
        /\ Reached(id) /\ bar # None
        /\ toFill' = Append(toFill, [id |-> id, price |-> price, qty |-> Want(id),
                                     complete |-> Completes(id)])
  BY DEF StageFill, Clears, Working, Reached
<1>2. /\ DOMAIN toFill = 1..Len(toFill) /\ Len(toFill) \in Nat
      /\ DOMAIN toFill' = 1..Len(toFill) + 1
      /\ \A n \in 1..Len(toFill) : toFill'[n] = toFill[n]
      /\ toFill'[Len(toFill) + 1].id = id
      /\ toFill'[Len(toFill) + 1].complete = Completes(id)
  BY <1>1 DEF TypeOK
<1>3. \A n \in 1..Len(toFill) + 1 : n \in 1..Len(toFill) \/ n = Len(toFill) + 1
  BY <1>2
<1>4. Finishing' = IF Completes(id) THEN Finishing \cup {id} ELSE Finishing
  BY <1>2, <1>3 DEF Finishing
<1>5. CASE Completes(id)
  <2>1. Report(id, r, << >>, "open") /\ Leave(id, FALSE)
    BY <1>5 DEF StageFill
  <2>2. OpenIds' = OpenIds \cup {id} /\ bar' = bar
    BY <2>1, ReportStage DEF Leave
  <2> QED
    BY <1>1, <1>4, <1>5, <2>1, <2>2, LeaveHeld DEF BookInv, Idle
<1>6. CASE ~Completes(id)
  <2>1. Stays(id, r) \/ Expires(id, r)
    BY <1>6 DEF StageFill
  <2>2. bar' = bar
    BY <2>1 DEF Stays, Expires, Leave
  <2> QED
    BY <1>1, <1>4, <1>6, <2>1, <2>2, WalkBook
<1> QED
  BY <1>5, <1>6

\* An emitted fill that completes its order closes it.
LEMMA EmitFillBook ==
  ASSUME TypeOK, BookInv, EmitFill
  PROVE  BookInv'
<1> DEFINE f == Head(toFill)
<1>1. /\ bar # None /\ toFill # << >> /\ toFill' = Tail(toFill)
      /\ ledger' = [ledger EXCEPT
              ![f.id].executed = @ + f.qty,
              ![f.id].stage = IF f.complete THEN "closed" ELSE @]
      /\ UNCHANGED <<resting, bar, pending>>
  BY DEF EmitFill, Walked
<1>2. /\ DOMAIN toFill = 1..Len(toFill) /\ Len(toFill) \in Nat /\ Len(toFill) > 0
      /\ DOMAIN toFill' = 1..Len(toFill) - 1
      /\ \A n \in 1..Len(toFill) - 1 : toFill'[n] = toFill[n + 1]
      /\ f = toFill[1] /\ f.id \in Ids /\ f.complete \in BOOLEAN
  <2>1. toFill \in Seq(StagedFill) /\ toFill # << >> /\ toFill' = Tail(toFill)
    BY <1>1 DEF TypeOK
  <2>2. f \in StagedFill
    BY <2>1
  <2> QED
    BY <2>1, <2>2 DEF StagedFill
<1>3. Finishing' \subseteq Finishing
  <2>1. \A n \in 1..Len(toFill) - 1 : n + 1 \in 1..Len(toFill)
    BY <1>2
  <2> QED
    BY <1>2, <2>1 DEF Finishing
<1>4. \A n \in 1..Len(toFill) : n = 1 \/ (n - 1 \in 1..Len(toFill) - 1
                                            /\ toFill'[n - 1] = toFill[n])
  BY <1>2
<1>5. Finishing \subseteq Finishing' \cup (IF f.complete THEN {f.id} ELSE {})
  <2> SUFFICES ASSUME NEW id \in Ids, NEW n \in 1..Len(toFill),
                      toFill[n].complete, toFill[n].id = id
               PROVE  id \in Finishing' \cup (IF f.complete THEN {f.id} ELSE {})
    BY <1>2 DEF Finishing
  <2>1. CASE n = 1
    BY <1>2, <2>1
  <2>2. CASE n # 1
    <3>1. n - 1 \in DOMAIN toFill' /\ toFill'[n - 1] = toFill[n]
      BY <1>2, <1>4, <2>2
    <3> QED
      BY <3>1 DEF Finishing
  <2> QED
    BY <2>1, <2>2
<1>6. f.complete => f.id \in Finishing
  BY <1>2 DEF Finishing
<1>7. OpenIds' = IF f.complete THEN OpenIds \ {f.id} ELSE OpenIds
  <2>1. \A id \in Ids \ {f.id} : ledger'[id].stage = ledger[id].stage
    BY <1>1, <1>2 DEF TypeOK, Ledger
  <2>2. ledger'[f.id].stage = IF f.complete THEN "closed" ELSE ledger[f.id].stage
    BY <1>1, <1>2 DEF TypeOK, Ledger
  <2> QED
    BY <1>2, <2>1, <2>2 DEF OpenIds
<1>8. Held' = Held
  BY <1>1 DEF Held
<1> QED
  BY <1>1, <1>3, <1>5, <1>6, <1>7, <1>8 DEF BookInv, Idle

-----------------------------------------------------------------------------
(* The other steps *)

\* Orders taken off the book and closed together, with no fill staged.
LEMMA RemovalBook ==
  ASSUME TypeOK, BookInv, pending = << >>, toFill = << >>, NEW K,
         pending' = << >>, toFill' = << >>,
         resting' = Keep(resting, K),
         OpenIds' = OpenIds \ (Elements(resting) \ K)
  PROVE  BookInv'
<1>1. resting \in Seq(Ids) /\ Held = resting
  BY DEF TypeOK, Held
<1>2. /\ Elements(resting') = Elements(resting) \cap K
      /\ Distinct(resting) => Distinct(resting')
      /\ resting' \in Seq(Ids)
  BY <1>1, KeepFacts
<1>3. Held' = resting'
  BY <1>2 DEF Held
<1>4. Finishing = {} /\ Finishing' = {}
  BY DEF Finishing
<1> QED
  BY <1>1, <1>2, <1>3, <1>4 DEF BookInv

\* CloseAll closes the orders of its argument and no others.
LEMMA CloseAllStage ==
  ASSUME TypeOK, NEW gone, ledger' = CloseAll(gone)
  PROVE  OpenIds' = OpenIds \ Elements(gone)
<1>1. \A id \in Ids : ledger'[id].stage = IF id \in Elements(gone) THEN "closed"
                                           ELSE ledger[id].stage
  BY DEF CloseAll, TypeOK, Ledger, Elements
<1> QED
  BY <1>1 DEF OpenIds

\* submit puts an order on the book if and only if it reports it accepted.
LEMMA SubmitBook ==
  ASSUME TypeOK, BookInv, NEW id \in Ids, NEW o \in Requests, Submit(id, o)
  PROVE  BookInv'
<1>1. /\ Idle /\ ledger[id].stage = "unused" /\ id \notin OpenIds
      /\ UNCHANGED <<bar, pending, toFill>>
  BY DEF Submit, NextId, OpenIds, observing
<1>2. pending = << >> /\ toFill = << >> /\ resting \in Seq(Ids)
  BY <1>1 DEF BookInv, TypeOK
<1>3. Held = resting /\ Finishing' = Finishing
  BY <1>1, <1>2 DEF Held, Finishing
<1>4. CASE Refuses(o)
  <2>1. /\ ledger' = [ledger EXCEPT ![id].stage = "rejected"]
        /\ UNCHANGED resting
    BY <1>4 DEF Submit
  <2>2. OpenIds' = OpenIds
    BY <1>1, <2>1 DEF OpenIds, TypeOK, Ledger
  <2>3. Held' = Held
    BY <1>1, <2>1 DEF Held
  <2> QED
    BY <1>1, <1>3, <2>2, <2>3 DEF BookInv, Idle
<1>5. CASE ~Refuses(o)
  <2>1. /\ resting' = Append(resting, id)
        /\ ledger' = [ledger EXCEPT ![id].stage = "open",
                                    ![id].placedAt = seen[o.instrument],
                                    ![id].late = GroupHasExecuted(o.oco)]
    BY <1>5 DEF Submit
  <2>2. OpenIds' = OpenIds \cup {id}
    <3>1. /\ ledger'[id].stage = "open"
          /\ \A other \in Ids \ {id} : ledger'[other] = ledger[other]
      BY <2>1 DEF TypeOK, Ledger
    <3> QED
      BY <3>1 DEF OpenIds
  <2>3. Held' = resting'
    BY <1>1, <1>2, <2>1 DEF Held
  <2>4. Elements(Held') = Elements(Held) \cup {id} /\ Distinct(Held')
    <3>1. id \notin Elements(resting) /\ Distinct(resting)
      BY <1>1, <1>3 DEF BookInv
    <3>2. /\ Elements(Append(resting, id)) = Elements(resting) \cup {id}
          /\ Distinct(Append(resting, id))
      BY <1>2, <3>1, AppendElements, AppendDistinct
    <3> QED
      BY <1>3, <2>1, <2>3, <3>2
  <2>5. Finishing = {}
    BY <1>2 DEF Finishing
  <2> QED
    BY <1>1, <1>3, <2>2, <2>4, <2>5 DEF BookInv, Idle
<1> QED
  BY <1>4, <1>5

\* cancel takes the order off the book and closes it, or finds it gone.
LEMMA CancelBook ==
  ASSUME TypeOK, BookInv, NEW id \in Ids, Cancel(id)
  PROVE  BookInv'
<1>1. Idle /\ UNCHANGED <<bar, pending, toFill>>
  BY DEF Cancel, observing
<1>2. pending = << >> /\ toFill = << >>
  BY <1>1 DEF BookInv
<1>3. CASE id \in OnBook
  <2>1. /\ resting' = Keep(resting, Ids \ {id})
        /\ ledger' = [ledger EXCEPT ![id].stage = "closed"]
    BY <1>3 DEF Cancel
  <2>2. OpenIds' = OpenIds \ {id}
    BY <2>1 DEF OpenIds, TypeOK, Ledger
  <2>3. Elements(resting) \ (Ids \ {id}) = {id}
    <3>1. Elements(resting) \subseteq Ids /\ id \in Elements(resting)
      BY <1>3 DEF Elements, OnBook, TypeOK
    <3> QED
      BY <3>1
  <2> QED
    BY <1>1, <1>2, <2>1, <2>2, <2>3, RemovalBook
<1>4. CASE id \notin OnBook
  <2>1. UNCHANGED <<resting, ledger>>
    BY <1>4 DEF Cancel
  <2>2. Held' = Held /\ OpenIds' = OpenIds /\ Finishing' = Finishing
    BY <1>1, <2>1 DEF Held, OpenIds, Finishing
  <2> QED
    BY <1>1, <2>2 DEF BookInv, Idle
<1> QED
  BY <1>3, <1>4

\* observe starts its walk over the whole book.
LEMMA BeginObserveBook ==
  ASSUME TypeOK, BookInv, NEW b \in Bars, BeginObserve(b)
  PROVE  BookInv'
<1>1. /\ Idle /\ bar' = b /\ pending' = resting /\ resting' = << >>
      /\ UNCHANGED <<toFill, ledger>>
  BY DEF BeginObserve
<1>2. pending = << >> /\ resting \in Seq(Ids)
  BY <1>1 DEF BookInv, TypeOK
<1>3. Held' = Held
  BY <1>1, <1>2 DEF Held
<1>4. OpenIds' = OpenIds /\ Finishing' = Finishing /\ bar' # None
  BY <1>1, ConstantsAssumption DEF OpenIds, Finishing
<1> QED
  BY <1>3, <1>4 DEF BookInv, Idle

\* A resolved OCO group closes the orders it takes off the book.
LEMMA ResolveOcoBook ==
  ASSUME TypeOK, BookInv, ResolveOco
  PROVE  BookInv'
<1>1. PICK losers :
        /\ pending = << >> /\ toFill = << >>
        /\ resting' = Keep(resting, Ids \ losers)
        /\ ledger' = CloseAll(Keep(resting, losers))
        /\ UNCHANGED <<bar, pending, toFill>>
  BY DEF ResolveOco, Walked
<1>2. resting \in Seq(Ids) /\ Elements(resting) \subseteq Ids
  BY DEF TypeOK, Elements
<1>3. OpenIds' = OpenIds \ (Elements(resting) \cap losers)
  BY <1>1, <1>2, KeepFacts, CloseAllStage
<1>4. Elements(resting) \cap losers = Elements(resting) \ (Ids \ losers)
  BY <1>2
<1> QED
  BY <1>1, <1>3, <1>4, RemovalBook

\* So does a liquidation, and otherwise the call leaves the book as it is.
LEMMA FinishObserveBook ==
  ASSUME TypeOK, BookInv, FinishObserve
  PROVE  BookInv'
<1>1. /\ pending = << >> /\ toFill = << >> /\ UNCHANGED <<pending, toFill>>
  BY DEF FinishObserve, Walked
<1>2. \/ UNCHANGED <<resting, ledger>>
      \/ \E here : /\ resting' = Keep(resting, Ids \ here)
                    /\ ledger' = CloseAll(Keep(resting, here))
  BY DEF FinishObserve, Liquidate
<1>3. resting \in Seq(Ids) /\ Elements(resting) \subseteq Ids
  BY DEF TypeOK, Elements
<1>4. CASE UNCHANGED <<resting, ledger>>
  <2>1. Held' = Held /\ OpenIds' = OpenIds /\ Finishing' = Finishing
    BY <1>1, <1>4 DEF Held, OpenIds, Finishing
  <2> QED
    BY <1>1, <2>1 DEF BookInv
<1>5. ASSUME NEW here, resting' = Keep(resting, Ids \ here),
             ledger' = CloseAll(Keep(resting, here))
      PROVE  BookInv'
  <2>1. OpenIds' = OpenIds \ (Elements(resting) \cap here)
    BY <1>3, <1>5, KeepFacts, CloseAllStage
  <2>2. Elements(resting) \cap here = Elements(resting) \ (Ids \ here)
    BY <1>3
  <2> QED
    BY <1>1, <1>5, <2>1, <2>2, RemovalBook
<1> QED
  BY <1>2, <1>4, <1>5

\* Every step keeps the book and the events in agreement.
LEMMA StepBook ==
  ASSUME TypeOK, BookInv, VenueStep
  PROVE  BookInv'
<1>1. CASE CallStep
  BY <1>1, SubmitBook, CancelBook, BeginObserveBook DEF CallStep
<1>2. ASSUME NEW id \in Ids, Match(id) PROVE BookInv'
  BY <1>2, UnfilledBook, StageFillBook DEF Match
<1>3. CASE EmitFill \/ ResolveOco \/ FinishObserve
  BY <1>3, EmitFillBook, ResolveOcoBook, FinishObserveBook
<1>4. CASE CallerStep
  <2>1. UNCHANGED <<resting, pending, ledger, toFill, bar>>
    BY <1>4 DEF CallerStep, observing
  <2>2. Held' = Held /\ OpenIds' = OpenIds /\ Finishing' = Finishing
    BY <2>1 DEF Held, OpenIds, Finishing
  <2> QED
    BY <2>1, <2>2 DEF BookInv, Idle
<1> QED
  BY <1>1, <1>2, <1>3, <1>4 DEF VenueStep, Observing

\* No order is held twice, none is held that was reported ended, and none
\* reported accepted is dropped by a bar, a cancellation, an OCO group or a
\* liquidation without an event that says so.
THEOREM BookAgreement == Spec => []BookAgrees
<1>1. Init => TypeOK /\ BookInv
  BY InitType, InitBook
<1>2. TypeOK /\ BookInv /\ [Next]_vars => TypeOK' /\ BookInv'
  BY StepType, StepBook, NextIsStep
<1>3. TypeOK /\ BookInv => BookAgrees
  BY BookInvImplies
<1> QED
  BY <1>1, <1>2, <1>3, PTL DEF Spec
-----------------------------------------------------------------------------
(* What the events tell of an order                                         *)
(*                                                                          *)
(* That it is filled for no more than was ordered, triggered once and       *)
(* before it fills, that it waits its latency out and does not rest if it   *)
(* is immediate; last, that it lives the life OrderLife promises.           *)
(*                                                                          *)
(* None of these is inductive.  A fill is decided on the walk and executed  *)
(* after it, so what the ledger may say next is bounded by what the venue   *)
(* has written down in `filled`; a fill that is staged must already find    *)
(* its order triggered; and the latency left to an order is a count of the  *)
(* bars that have dealt with it, which during the walk is one behind for    *)
(* the orders still to be reached.  OrderInv says so.                       *)

\* An order is remembered from its acceptance on, and only then.
Placed(id) ==
  /\ ledger[id].stage \in {"unused", "rejected"} =>
       /\ orders[id] = NoOrderState
       /\ ledger[id].executed = 0 /\ ledger[id].triggered = 0
  /\ ledger[id].stage \in {"open", "closed"} =>
       orders[id].order \in Requests /\ orders[id].order.qty > 0

\* No more is executed than has been decided, and no more is decided than
\* was ordered.
Bounded(id) ==
  /\ 0 <= ledger[id].executed /\ ledger[id].executed <= orders[id].filled
  /\ orders[id].filled <= Greater(orders[id].order.qty, 0)

IsStaged(id) == \E n \in DOMAIN toFill : toFill[n].id = id

\* A fill staged on this bar is decided and not yet executed.  Its order has
\* had its turn, and one that is not complete has something left.
StagedSoundly(n) ==
  LET f == toFill[n]
      o == orders[f.id].order
  IN  /\ f.qty > 0
      /\ ledger[f.id].stage \in {"open", "closed"}
      /\ ledger[f.id].executed + f.qty <= orders[f.id].filled
      /\ f.complete \/ orders[f.id].filled < o.qty
      /\ f.id \notin Elements(pending)
      /\ o.instrument = bar.instrument
      /\ seen[o.instrument] > ledger[f.id].placedAt + LatencyBars

\* The ledger's count of triggers is whether the order is armed, which only a
\* conditional order may be, and must be before it fills.
TriggersOnce(id) ==
  LET r == orders[id]
  IN  /\ ledger[id].triggered = IF r.armed THEN 1 ELSE 0
      /\ r.armed => r.order.kind \in ConditionalKinds
      /\ r.order.kind \in ConditionalKinds /\ (ledger[id].executed > 0 \/ IsStaged(id))
           => r.armed

\* The bars of its instrument that have dealt with the order.
Awaits(id) == id \in Elements(pending) /\ orders[id].order.instrument = bar.instrument
Age(id) == seen[orders[id].order.instrument] - ledger[id].placedAt
             - (IF Awaits(id) THEN 1 ELSE 0)

\* The latency left is what those bars leave of it, and an immediate order
\* older than that rests only if it waits for its trigger.
WaitsItsLatency(id) ==
  /\ Age(id) >= 0
  /\ orders[id].activateIn = Greater(LatencyBars - Age(id), 0)
  /\ orders[id].order.tif # "Gtc" /\ Age(id) > LatencyBars =>
       orders[id].order.kind \in ConditionalKinds /\ ~orders[id].armed

StagedOnce == \A m, n \in DOMAIN toFill : toFill[m].id = toFill[n].id => m = n

OrderInv ==
  /\ \A id \in Ids : Placed(id)
  /\ \A id \in Ids : Bounded(id)
  /\ \A id \in Ids : TriggersOnce(id)
  /\ StagedOnce
  /\ \A n \in DOMAIN toFill : StagedSoundly(n)
  /\ \A id \in Elements(Held) : WaitsItsLatency(id)

-----------------------------------------------------------------------------
(* What Evaluate leaves alone *)

\* A verdict changes neither the request, nor what is filled, nor the latency
\* left.  It disarms nothing, arms a stop-limit only, and fills none unarmed.
Judged(r, v) ==
  /\ v.state.order = r.order /\ v.state.filled = r.filled
  /\ v.state.activateIn = r.activateIn
  /\ r.armed => v.state.armed
  /\ v.state.armed => r.armed \/ r.order.kind = "StopLimit"
  /\ v.outcome = "fill" /\ r.order.kind = "StopLimit" => v.state.armed

\* Whatever the kind of the order and the bar.
LEMMA EvaluateJudges ==
  ASSUME NEW r \in OrderState, NEW b \in Bar
  PROVE  Judged(r, Evaluate(r, b))
<1> DEFINE o == r.order
<1>1. o.kind \in OrderKinds
  <2>1. o \in HeldRequest
    BY DEF OrderState, HeldRequest
  <2> QED
    BY <2>1, HeldRequestType
<1>2. ASSUME NEW price, o.kind # "StopLimit"
      PROVE  Judged(r, Fills(r, price)) /\ Judged(r, Rests(r)) /\ Judged(r, Cancels(r))
  BY <1>2 DEF Judged, Fills, Rests, Cancels
<1>3. ASSUME o.kind # "StopLimit" PROVE Judged(r, WorkLimit(r, b, b.open))
  BY <1>2, <1>3 DEF WorkLimit
<1>4. ASSUME o.kind = "StopLimit" PROVE Judged(r, WorkStopLimit(r, b))
  <2> DEFINE a == [r EXCEPT !.armed = TRUE]
  <2>1. /\ a.order = r.order /\ a.filled = r.filled
        /\ a.activateIn = r.activateIn /\ a.armed
    BY DEF OrderState
  <2>2. Judged(r, Rests(r))
    BY <1>4 DEF Judged, Rests
  <2>3. ASSUME NEW price
        PROVE  Judged(r, Fills(a, price)) /\ Judged(r, Rests(a)) /\ Judged(r, Cancels(a))
    BY <1>4, <2>1 DEF Judged, Fills, Rests, Cancels
  <2>4. ASSUME NEW price, r.armed
        PROVE  Judged(r, Fills(r, price)) /\ Judged(r, Cancels(r))
    BY <2>4 DEF Judged, Fills, Cancels
  <2>5. Judged(r, WorkLimit(a, b, o.trigger))
    <3> HIDE DEF a
    <3> QED
      BY <2>3 DEF WorkLimit
  <2>6. r.armed => Judged(r, WorkLimit(r, b, b.open))
    BY <2>2, <2>4 DEF WorkLimit
  <2> QED
    BY <2>2, <2>5, <2>6 DEF WorkStopLimit
<1>5. ASSUME o.kind # "StopLimit" PROVE Judged(r, WorkTrailing(r, b))
  <2>1. \A ref, price : /\ Judged(r, Fills([r EXCEPT !.trailRef = {ref}], price))
                        /\ Judged(r, Rests([r EXCEPT !.trailRef = {ref}]))
    BY <1>5 DEF Judged, Fills, Rests, OrderState
  <2> QED
    BY <2>1 DEF WorkTrailing
<1> QED
  BY <1>1, <1>2, <1>3, <1>4, <1>5 DEF Evaluate, OrderKinds, PassiveKinds, ConditionalKinds

-----------------------------------------------------------------------------
(* An order's turn *)

\* What a turn reports of an order, but for its trigger.
TurnEvents(id, stage) ==
  IF stage = "open" THEN {<< >>}
  ELSE {<<Expired(id)>>} \cup {<<Canceled(id, why)>> : why \in {"VenueCanceled", "OcoTriggered"}}

\* The order the walk has reached is in state r after its turn, reported at
\* that stage, and left on the book or off it.
Turn(id, r, stage, rests) ==
  /\ Working(id)
  /\ r \in OrderState /\ r.order = orders[id].order
  /\ r.activateIn = orders[id].activateIn
  /\ orders[id].armed => r.armed
  /\ r.armed => orders[id].armed \/ r.order.kind \in ConditionalKinds
  /\ stage \in {"open", "closed"} /\ rests \in BOOLEAN
  /\ rests => stage = "open"
  /\ rests /\ r.order.tif # "Gtc" => r.order.kind \in ConditionalKinds /\ ~r.armed
  /\ \E events \in TurnEvents(id, stage) : Report(id, r, events, stage)
  /\ Leave(id, rests)

\* What Turn asks of r holds of the verdict's state, armed by a fill or not.
LEMMA VerdictTurns ==
  ASSUME TypeOK, NEW id \in Ids, Working(id)
  PROVE  \A r \in {Verdict(id).state, ArmedState(id)} :
           /\ r \in OrderState /\ r.order = orders[id].order
           /\ r.filled = orders[id].filled /\ r.activateIn = orders[id].activateIn
           /\ orders[id].armed => r.armed
           /\ r.armed => orders[id].armed \/ r.order.kind \in ConditionalKinds
<1>1. bar \in Bar /\ orders[id] \in OrderState
  BY ObservedBarType DEF Working, Reached, TypeOK
<1>2. Judged(orders[id], Verdict(id))
  BY <1>1, EvaluateJudges DEF Verdict
<1>3. Verdict(id).state \in OrderState /\ ArmedState(id) \in OrderState
  BY VerdictType
<1>4. /\ ArmedState(id).order = Verdict(id).state.order
      /\ ArmedState(id).filled = Verdict(id).state.filled
      /\ ArmedState(id).activateIn = Verdict(id).state.activateIn
      /\ ArmedState(id).armed =
           (Verdict(id).state.armed \/ Verdict(id).state.order.kind \in MarketOnTriggerKinds)
  BY <1>3 DEF ArmedState, OrderState
<1>5. "StopLimit" \in ConditionalKinds /\ MarketOnTriggerKinds \subseteq ConditionalKinds
  BY DEF ConditionalKinds, MarketOnTriggerKinds
<1> QED
  BY <1>2, <1>3, <1>4, <1>5 DEF Judged

\* A fill finds its order armed if it is conditional.
LEMMA FillsArmed ==
  ASSUME TypeOK, NEW id \in Ids, Clears(id), orders[id].order.kind \in ConditionalKinds
  PROVE  ArmedState(id).armed
<1>1. Working(id) /\ Verdict(id).outcome = "fill"
  BY DEF Clears
<1>2. bar \in Bar /\ orders[id] \in OrderState
  BY <1>1, ObservedBarType DEF Working, Reached, TypeOK
<1>3. Judged(orders[id], Verdict(id))
  BY <1>2, EvaluateJudges DEF Verdict
<1>4. Verdict(id).state \in OrderState
  BY <1>1, VerdictType
<1>5. ArmedState(id).armed =
        (Verdict(id).state.armed \/ Verdict(id).state.order.kind \in MarketOnTriggerKinds)
  BY <1>4 DEF ArmedState, OrderState
<1> QED
  BY <1>1, <1>3, <1>5 DEF Judged, ConditionalKinds, MarketOnTriggerKinds

\* The steps of the walk that judge the order and stage nothing.
LeavesUnfilled(id) ==
  \/ VenueCancels(id) \/ DoesNotFill(id) \/ TouchMisses(id)
  \/ OcoBlocked(id) \/ FokExpires(id) \/ NoRoom(id)

\* Each of them is a turn, and fills no more of the order.
LEMMA UnfilledTurn ==
  ASSUME TypeOK, NEW id \in Ids, LeavesUnfilled(id)
  PROVE  /\ NothingStaged
         /\ \E r, stage, rests : Turn(id, r, stage, rests) /\ r.filled = orders[id].filled
<1>1. Working(id) /\ NothingStaged
  BY DEF LeavesUnfilled, VenueCancels, DoesNotFill, TouchMisses, OcoBlocked, FokExpires,
         NoRoom, Clears
<1>2. PICK r \in {Verdict(id).state, ArmedState(id)} :
        \/ Stays(id, r) /\ (IsGtc(id) \/ IsDormant(r))
        \/ Expires(id, r)
        \/ \E why \in {"VenueCanceled", "OcoTriggered"} : IsCanceled(id, r, why)
  BY DEF LeavesUnfilled, VenueCancels, DoesNotFill, TouchMisses, OcoBlocked, FokExpires, NoRoom
<1>3. /\ r \in OrderState /\ r.order = orders[id].order
      /\ r.filled = orders[id].filled /\ r.activateIn = orders[id].activateIn
      /\ orders[id].armed => r.armed
      /\ r.armed => orders[id].armed \/ r.order.kind \in ConditionalKinds
  BY <1>1, VerdictTurns
<1>4. CASE Stays(id, r) /\ (IsGtc(id) \/ IsDormant(r))
  <2>1. Turn(id, r, "open", TRUE)
    BY <1>1, <1>3, <1>4 DEF Turn, TurnEvents, Stays, IsGtc, IsDormant
  <2> QED
    BY <1>1, <1>3, <2>1
<1>5. CASE \/ Expires(id, r)
          \/ \E why \in {"VenueCanceled", "OcoTriggered"} : IsCanceled(id, r, why)
  <2>1. Turn(id, r, "closed", FALSE)
    BY <1>1, <1>3, <1>5 DEF Turn, TurnEvents, Expires, IsCanceled
  <2> QED
    BY <1>1, <1>3, <2>1
<1> QED
  BY <1>2, <1>4, <1>5

\* A staged fill takes what the order wants and no more than is left of it.
StagedFillOf(id, f) ==
  /\ f.id = id /\ f.qty = Want(id) /\ f.complete = Completes(id)
  /\ toFill' = Append(toFill, f)

\* So is StageFill, and it fills what the order wants.
LEMMA StageFillTurn ==
  ASSUME TypeOK, NEW id \in Ids, StageFill(id)
  PROVE  /\ \E f \in StagedFill : StagedFillOf(id, f)
         /\ Clears(id) /\ Want(id) > 0
         /\ \E r, stage, rests :
              /\ Turn(id, r, stage, rests)
              /\ r.filled = orders[id].filled + Want(id)
              /\ r.armed = ArmedState(id).armed
              /\ Completes(id) => stage = "open" /\ ~rests
<1> DEFINE a == ArmedState(id)
           r == [a EXCEPT !.filled = @ + Want(id)]
<1>1. Clears(id) /\ Want(id) > 0 /\ Working(id)
  BY DEF StageFill, Clears
<1>2. \E f \in StagedFill : StagedFillOf(id, f)
  <2> DEFINE f == [id |-> id, price |-> ExecutionPrice(orders[id].order, Verdict(id).price, Want(id)),
                   qty |-> Want(id), complete |-> Completes(id)]
  <2>1. toFill' = Append(toFill, f)
    BY DEF StageFill
  <2>2. toFill' \in Seq(StagedFill) /\ toFill \in Seq(StagedFill)
    BY StageFillType DEF TypeOK
  <2>3. f \in StagedFill
    <3>1. toFill'[Len(toFill) + 1] = f /\ Len(toFill') = Len(toFill) + 1
      BY <2>1, <2>2
    <3> HIDE DEF f
    <3> QED
      BY <2>2, <3>1
  <2>4. f.id = id /\ f.qty = Want(id) /\ f.complete = Completes(id)
    OBVIOUS
  <2> HIDE DEF f
  <2> QED
    BY <2>1, <2>3, <2>4 DEF StagedFillOf
<1>3. /\ a \in OrderState /\ a.order = orders[id].order
      /\ a.filled = orders[id].filled /\ a.activateIn = orders[id].activateIn
      /\ orders[id].armed => a.armed
      /\ a.armed => orders[id].armed \/ a.order.kind \in ConditionalKinds
  BY <1>1, VerdictTurns
<1>4. /\ r \in OrderState /\ r.order = orders[id].order
      /\ r.filled = orders[id].filled + Want(id)
      /\ r.activateIn = orders[id].activateIn /\ r.armed = a.armed
  <2>1. Want(id) \in Int /\ orders[id].filled \in Int
    BY WantType
  <2> HIDE DEF a
  <2> QED
    BY <1>3, <2>1 DEF OrderState
<1>5. \/ Completes(id) /\ Report(id, r, << >>, "open") /\ Leave(id, FALSE)
      \/ ~Completes(id) /\ IsGtc(id) /\ Stays(id, r)
      \/ ~Completes(id) /\ Expires(id, r)
  BY DEF StageFill
<1> HIDE DEF r, a
<1>6. CASE Completes(id) /\ Report(id, r, << >>, "open") /\ Leave(id, FALSE)
  <2>1. Turn(id, r, "open", FALSE)
    BY <1>1, <1>3, <1>4, <1>6 DEF Turn, TurnEvents
  <2> QED
    BY <1>1, <1>2, <1>4, <2>1 DEF a
<1>7. CASE ~Completes(id) /\ IsGtc(id) /\ Stays(id, r)
  <2>1. Turn(id, r, "open", TRUE)
    BY <1>1, <1>3, <1>4, <1>7 DEF Turn, TurnEvents, Stays, IsGtc
  <2> QED
    BY <1>1, <1>2, <1>4, <1>7, <2>1 DEF a
<1>8. CASE ~Completes(id) /\ Expires(id, r)
  <2>1. Turn(id, r, "closed", FALSE)
    BY <1>1, <1>3, <1>4, <1>8 DEF Turn, TurnEvents, Expires
  <2> QED
    BY <1>1, <1>2, <1>4, <1>8, <2>1 DEF a
<1> QED
  BY <1>5, <1>6, <1>7, <1>8

\* What an order wants is no more than what is left of it.
LEMMA WantBound ==
  ASSUME TypeOK, NEW id \in Ids
  PROVE  Want(id) <= orders[id].order.qty - orders[id].filled
<1>1. orders[id].order.qty \in Int /\ orders[id].filled \in Int
  <2>1. orders[id].order \in HeldRequest /\ orders[id].filled \in Int
    BY DEF TypeOK, OrderState, HeldRequest
  <2> QED
    BY <2>1, HeldRequestType
<1>2. Remaining(id) \in Int
  BY <1>1 DEF Remaining
<1>3. cap # None => Greater(cap, 0) \in Int
  BY LesserGreaterType DEF TypeOK
<1>4. Room(id) \in Int /\ Room(id) <= Remaining(id)
  <2>1. CASE cap = None
    BY <1>2, <2>1 DEF Room
  <2>2. CASE cap # None
    <3>1. Room(id) = Lesser(Remaining(id), Greater(cap, 0))
      BY <2>2 DEF Room
    <3>2. Greater(cap, 0) \in Int
      BY <1>3, <2>2
    <3> HIDE DEF Remaining
    <3> QED
      BY <1>2, <3>1, <3>2, LesserGreaterType
  <2> QED
    BY <2>1, <2>2
<1>5. Reducible(id) \in Int
  BY AbsType DEF Reducible, TypeOK
<1> QED
  BY <1>2, <1>4, <1>5 DEF Want, ExhaustsReduction, Remaining

\* The order the walk has reached is the only one its step takes out of those
\* still to be reached, and it was reached on a bar of its instrument.
LEMMA ReachedPending ==
  ASSUME TypeOK, BookInv, NEW id \in Ids, Reached(id), pending' = Tail(pending)
  PROVE  /\ id \in Elements(pending) /\ id \in Elements(Held) /\ id \in OpenIds
         /\ Elements(pending') = Elements(pending) \ {id}
<1>1. /\ resting \in Seq(Ids) /\ pending \in Seq(Ids) /\ pending # << >>
      /\ id = Head(pending)
  BY DEF TypeOK, Reached
<1>2. Distinct(pending)
  BY <1>1, SuffixDistinct DEF BookInv, Held
<1>3. Elements(Tail(pending)) = Elements(pending) \ {Head(pending)}
      /\ Head(pending) \in Elements(pending)
  BY <1>1, <1>2, TailElements
<1> QED
  BY <1>1, <1>3, LeaveHeld

\* What a turn changes.
LEMMA TurnEffects ==
  ASSUME TypeOK, BookInv, NEW id \in Ids, NEW r, NEW stage, NEW rests,
         Turn(id, r, stage, rests)
  PROVE  /\ bar # None /\ orders[id].order.instrument = bar.instrument
         /\ orders[id].activateIn = 0
         /\ id \in Elements(pending) /\ id \in Elements(Held) /\ ledger[id].stage = "open"
         /\ Elements(pending') = Elements(pending) \ {id}
         /\ Elements(Held') = IF rests THEN Elements(Held) ELSE Elements(Held) \ {id}
         /\ orders'[id] = r
         /\ \A other \in Ids \ {id} : orders'[other] = orders[other]
         /\ ledger'[id].stage = stage
         /\ ledger'[id].triggered =
              ledger[id].triggered + (IF r.armed /\ ~orders[id].armed THEN 1 ELSE 0)
         /\ ledger'[id].executed = ledger[id].executed
         /\ ledger'[id].placedAt = ledger[id].placedAt
         /\ ledger'[id].late = ledger[id].late
         /\ \A other \in Ids \ {id} : ledger'[other] = ledger[other]
         /\ UNCHANGED <<bar, seen, shadow, cash>>
<1>1. Reached(id) /\ Leave(id, rests) /\ rests \in BOOLEAN
  BY DEF Turn, Working
<1>2. /\ bar # None /\ orders[id].order.instrument = bar.instrument
      /\ orders[id].activateIn = 0 /\ UNCHANGED <<bar, seen, shadow, cash>>
      /\ pending' = Tail(pending)
  BY <1>1 DEF Turn, Working, Reached, Leave
<1>3. /\ id \in Elements(pending) /\ id \in Elements(Held) /\ ledger[id].stage = "open"
      /\ Elements(pending') = Elements(pending) \ {id}
  BY <1>1, <1>2, ReachedPending DEF OpenIds
<1>4. Elements(Held') = IF rests THEN Elements(Held) ELSE Elements(Held) \ {id}
  BY <1>1, LeaveHeld
<1>5. PICK events : Report(id, r, events, stage)
  BY DEF Turn
<1>6. orders'[id] = r /\ \A other \in Ids \ {id} : orders'[other] = orders[other]
  BY <1>5 DEF Report, TypeOK
<1>7. /\ ledger'[id].stage = stage
      /\ ledger'[id].triggered =
           ledger[id].triggered + (IF r.armed /\ ~orders[id].armed THEN 1 ELSE 0)
      /\ ledger'[id].executed = ledger[id].executed
      /\ ledger'[id].placedAt = ledger[id].placedAt
      /\ ledger'[id].late = ledger[id].late
      /\ \A other \in Ids \ {id} : ledger'[other] = ledger[other]
  BY <1>5 DEF Report, TypeOK, Ledger
<1> QED
  BY <1>2, <1>3, <1>4, <1>6, <1>7

-----------------------------------------------------------------------------
(* The invariant, action by action *)

\* No order is known at first.
LEMMA InitOrders == Init => OrderInv
<1> SUFFICES ASSUME Init PROVE OrderInv
  OBVIOUS
<1>1. toFill = << >> /\ Held = << >>
  BY DEF Init, Held
<1>2. ASSUME NEW id \in Ids
      PROVE  /\ orders[id] = NoOrderState /\ ledger[id].stage = "unused"
             /\ ledger[id].executed = 0 /\ ledger[id].triggered = 0
  BY DEF Init
<1>3. NoOrderState.filled = 0 /\ NoOrderState.armed = FALSE /\ NoOrderState.order.qty = 0
  BY DEF NoOrderState, NoOrder
<1>4. \A id \in Ids : Placed(id)
  BY <1>2 DEF Placed
<1>5. \A id \in Ids : Bounded(id)
  BY <1>2, <1>3 DEF Bounded, Greater
<1>6. \A id \in Ids : TriggersOnce(id)
  BY <1>1, <1>2, <1>3 DEF TriggersOnce, IsStaged
<1>7. StagedOnce /\ \A n \in DOMAIN toFill : StagedSoundly(n)
  BY <1>1 DEF StagedOnce
<1>8. Elements(Held) = {}
  BY <1>1 DEF Elements
<1> QED
  BY <1>4, <1>5, <1>6, <1>7, <1>8 DEF OrderInv

\* An order the venue holds is a request it accepted.
LEMMA HeldOrder ==
  ASSUME TypeOK, BookInv, OrderInv, NEW id \in Elements(Held)
  PROVE  /\ id \in Ids /\ ledger[id].stage = "open"
         /\ orders[id] \in OrderState /\ orders[id].order \in OrderRequest
         /\ orders[id].order.instrument \in Instruments
         /\ orders[id].activateIn \in Nat
         /\ seen[orders[id].order.instrument] \in Nat
         /\ ledger[id].placedAt \in Nat /\ Age(id) \in Int
<1>1. id \in Ids /\ ledger[id].stage = "open"
  BY DEF BookInv, OpenIds
<1>2. orders[id].order \in Requests
  BY <1>1 DEF OrderInv, Placed
<1>3. orders[id].order \in OrderRequest
  BY <1>2, ConstantsAssumption
<1>4. orders[id].order.instrument \in Instruments
  BY <1>3 DEF OrderRequest
<1>5. seen[orders[id].order.instrument] \in Nat
  BY <1>4 DEF TypeOK
<1>6. orders[id] \in OrderState /\ orders[id].activateIn \in Nat /\ ledger[id].placedAt \in Nat
  BY <1>1 DEF TypeOK, OrderState, Ledger
<1>7. Age(id) \in Int
  BY <1>5, <1>6 DEF Age
<1> QED
  BY <1>1, <1>3, <1>4, <1>5, <1>6, <1>7

\* A staged fill's fields have their types.
LEMMA StagedTypes ==
  ASSUME TypeOK, NEW n \in DOMAIN toFill
  PROVE  /\ n \in 1..Len(toFill) /\ Len(toFill) \in Nat
         /\ toFill[n].id \in Ids /\ toFill[n].qty \in Int
         /\ toFill[n].price \in Int /\ toFill[n].complete \in BOOLEAN
<1>1. toFill \in Seq(StagedFill)
  BY DEF TypeOK
<1>2. toFill[n] \in StagedFill /\ n \in 1..Len(toFill) /\ Len(toFill) \in Nat
  BY <1>1
<1> QED
  BY <1>2 DEF StagedFill

\* A turn keeps the invariant of every order, if what it decides is no more
\* than was ordered and a fill it stages finds its order armed.
LEMMA TurnKeeps ==
  ASSUME TypeOK, BookInv, OrderInv, NEW id \in Ids, NEW r, NEW stage, NEW rests,
         Turn(id, r, stage, rests),
         orders[id].filled <= r.filled, r.filled <= Greater(r.order.qty, 0),
         \A other \in Ids \ {id} : IsStaged(other)' => IsStaged(other),
         r.order.kind \in ConditionalKinds /\ IsStaged(id)' => IsStaged(id) \/ r.armed
  PROVE  /\ \A other \in Ids : Placed(other)'
         /\ \A other \in Ids : Bounded(other)'
         /\ \A other \in Ids : TriggersOnce(other)'
         /\ \A other \in Elements(Held') : WaitsItsLatency(other)'
<1>1. /\ bar # None /\ orders[id].order.instrument = bar.instrument
      /\ orders[id].activateIn = 0
      /\ id \in Elements(pending) /\ id \in Elements(Held) /\ ledger[id].stage = "open"
      /\ Elements(pending') = Elements(pending) \ {id}
      /\ Elements(Held') = IF rests THEN Elements(Held) ELSE Elements(Held) \ {id}
      /\ UNCHANGED <<bar, seen>>
  BY TurnEffects
<1>2. /\ orders'[id] = r
      /\ ledger'[id].stage = stage
      /\ ledger'[id].triggered =
           ledger[id].triggered + (IF r.armed /\ ~orders[id].armed THEN 1 ELSE 0)
      /\ ledger'[id].executed = ledger[id].executed
      /\ ledger'[id].placedAt = ledger[id].placedAt
  BY TurnEffects
<1>3. \A other \in Ids \ {id} : orders'[other] = orders[other] /\ ledger'[other] = ledger[other]
  BY TurnEffects
<1>4. /\ r \in OrderState /\ r.order = orders[id].order
      /\ r.activateIn = orders[id].activateIn
      /\ orders[id].armed => r.armed
      /\ r.armed => orders[id].armed \/ r.order.kind \in ConditionalKinds
      /\ stage \in {"open", "closed"} /\ rests \in BOOLEAN
      /\ rests /\ r.order.tif # "Gtc" => r.order.kind \in ConditionalKinds /\ ~r.armed
  BY DEF Turn
<1>5. ASSUME NEW other \in Ids PROVE Placed(other)'
  <2>1. CASE other = id
    <3>1. orders[id].order \in Requests /\ orders[id].order.qty > 0
      BY <1>1 DEF OrderInv, Placed
    <3> QED
      BY <1>2, <1>4, <2>1, <3>1 DEF Placed
  <2>2. CASE other # id
    <3>1. Placed(other)
      BY DEF OrderInv
    <3> QED
      BY <1>3, <2>2, <3>1 DEF Placed
  <2> QED
    BY <2>1, <2>2
<1>6. ASSUME NEW other \in Ids PROVE Bounded(other)'
  <2>1. Bounded(other)
    BY DEF OrderInv
  <2>2. CASE other = id
    <3>1. ledger[id].executed \in Int /\ orders[id].filled \in Int /\ r.filled \in Int
      BY <1>4 DEF TypeOK, Ledger, OrderState
    <3> QED
      BY <1>2, <2>1, <2>2, <3>1 DEF Bounded
  <2>3. CASE other # id
    BY <1>3, <2>1, <2>3 DEF Bounded
  <2> QED
    BY <2>2, <2>3
<1>7. ASSUME NEW other \in Ids PROVE TriggersOnce(other)'
  <2>1. TriggersOnce(other)
    BY DEF OrderInv
  <2>2. CASE other = id
    <3>1. /\ ledger'[id].triggered = IF r.armed THEN 1 ELSE 0
      BY <1>2, <1>4, <2>1, <2>2 DEF TriggersOnce
    <3>2. r.armed => r.order.kind \in ConditionalKinds
      BY <1>4, <2>1, <2>2 DEF TriggersOnce
    <3>3. r.order.kind \in ConditionalKinds /\ (ledger'[id].executed > 0 \/ IsStaged(id)') => r.armed
      BY <1>2, <1>4, <2>1, <2>2 DEF TriggersOnce
    <3> QED
      BY <1>2, <2>2, <3>1, <3>2, <3>3 DEF TriggersOnce
  <2>3. CASE other # id
    BY <1>3, <2>1, <2>3 DEF TriggersOnce
  <2> QED
    BY <2>2, <2>3
<1>8. ASSUME NEW other \in Elements(Held') PROVE WaitsItsLatency(other)'
  <2>1. other \in Elements(Held)
    BY <1>1
  <2>2. WaitsItsLatency(other) /\ other \in Ids
    BY <2>1, HeldOrder DEF OrderInv
  <2>3. CASE other = id
    <3>1. rests
      BY <1>1, <2>3
    <3>2. Age(id) = seen[bar.instrument] - ledger[id].placedAt - 1 /\ Age(id) \in Int
          /\ seen[bar.instrument] \in Nat /\ ledger[id].placedAt \in Nat
      BY <1>1, HeldOrder DEF Age, Awaits
    <3>3. LatencyBars \in Nat /\ Age(id) >= LatencyBars
      <4>1. Greater(LatencyBars - Age(id), 0) = 0
        BY <1>1, <2>2, <2>3 DEF WaitsItsLatency
      <4> QED
        BY <3>2, <4>1, ConstantsAssumption DEF Greater
    <3>4. Age(id)' = Age(id) + 1
      BY <1>1, <1>2, <1>4, <3>2 DEF Age, Awaits
    <3>5. Greater(LatencyBars - (Age(id) + 1), 0) = 0
      BY <3>2, <3>3 DEF Greater
    <3>6. Age(id) + 1 >= 0
      BY <3>2, <3>3
    <3> QED
      BY <1>1, <1>2, <1>4, <2>3, <3>1, <3>4, <3>5, <3>6 DEF WaitsItsLatency
  <2>4. CASE other # id
    <3>1. Age(other)' = Age(other)
      BY <1>1, <1>3, <2>2, <2>4 DEF Age, Awaits
    <3> QED
      BY <1>3, <2>2, <2>4, <3>1 DEF WaitsItsLatency
  <2> QED
    BY <2>3, <2>4
<1> QED
  BY <1>5, <1>6, <1>7, <1>8

\* The steps that judge an order and stage nothing.
LEMMA UnfilledOrders ==
  ASSUME TypeOK, BookInv, OrderInv, NEW id \in Ids, LeavesUnfilled(id)
  PROVE  OrderInv'
<1>1. PICK r, stage, rests : Turn(id, r, stage, rests) /\ r.filled = orders[id].filled
  BY UnfilledTurn
<1>2. toFill' = toFill
  BY UnfilledTurn DEF NothingStaged
<1>3. Bounded(id) /\ r.order = orders[id].order /\ r \in OrderState /\ r.filled \in Int
  BY <1>1 DEF OrderInv, Turn, OrderState
<1>4. \A other : IsStaged(other)' <=> IsStaged(other)
  BY <1>2 DEF IsStaged
<1>5. /\ \A other \in Ids : Placed(other)'
      /\ \A other \in Ids : Bounded(other)'
      /\ \A other \in Ids : TriggersOnce(other)'
      /\ \A other \in Elements(Held') : WaitsItsLatency(other)'
  <2>1. orders[id].filled <= r.filled /\ r.filled <= Greater(r.order.qty, 0)
    BY <1>1, <1>3 DEF Bounded
  <2> QED
    BY <1>1, <1>4, <2>1, TurnKeeps
<1>6. StagedOnce'
  BY <1>2 DEF OrderInv, StagedOnce
<1>7. ASSUME NEW n \in DOMAIN toFill' PROVE StagedSoundly(n)'
  <2> DEFINE f == toFill[n]
  <2>1. StagedSoundly(n) /\ toFill'[n] = f /\ f.id \in Ids
    BY <1>2, <1>7, StagedTypes DEF OrderInv
  <2>2. f.id # id
    BY <1>1, <2>1, TurnEffects DEF StagedSoundly
  <2>3. /\ orders'[f.id] = orders[f.id] /\ ledger'[f.id] = ledger[f.id]
        /\ UNCHANGED <<bar, seen>> /\ Elements(pending') \subseteq Elements(pending)
    BY <1>1, <2>1, <2>2, TurnEffects
  <2> QED
    BY <2>1, <2>3 DEF StagedSoundly
<1> QED
  BY <1>5, <1>6, <1>7 DEF OrderInv

\* Appending to the staged fills, index by index.
LEMMA AppendStaged ==
  ASSUME TypeOK, NEW f \in StagedFill, toFill' = Append(toFill, f)
  PROVE  /\ DOMAIN toFill = 1..Len(toFill) /\ Len(toFill) \in Nat
         /\ DOMAIN toFill' = 1..Len(toFill) + 1
         /\ \A n \in DOMAIN toFill : toFill'[n] = toFill[n]
         /\ toFill'[Len(toFill) + 1] = f
         /\ \A n \in DOMAIN toFill' : n \in DOMAIN toFill \/ n = Len(toFill) + 1
<1>1. toFill \in Seq(StagedFill)
  BY DEF TypeOK
<1>2. /\ DOMAIN toFill = 1..Len(toFill) /\ Len(toFill) \in Nat
      /\ DOMAIN toFill' = 1..Len(toFill) + 1
      /\ \A n \in 1..Len(toFill) : toFill'[n] = toFill[n]
      /\ toFill'[Len(toFill) + 1] = f
  BY <1>1
<1>3. \A n \in 1..Len(toFill) + 1 : n \in 1..Len(toFill) \/ n = Len(toFill) + 1
  BY <1>2
<1> QED
  BY <1>2, <1>3

\* A staged fill keeps to what is left of its order, and finds it waited for
\* and triggered.
LEMMA StageFillOrders ==
  ASSUME TypeOK, BookInv, OrderInv, NEW id \in Ids, StageFill(id)
  PROVE  OrderInv'
<1>1. PICK r, stage, rests :
        /\ Turn(id, r, stage, rests)
        /\ r.filled = orders[id].filled + Want(id)
        /\ r.armed = ArmedState(id).armed
        /\ Completes(id) => stage = "open" /\ ~rests
  BY StageFillTurn
<1>2. PICK f \in StagedFill : StagedFillOf(id, f)
  BY StageFillTurn
<1>3. Clears(id) /\ Want(id) > 0
  BY StageFillTurn
<1>4. /\ f.id = id /\ f.qty = Want(id) /\ f.complete = Completes(id)
      /\ toFill' = Append(toFill, f)
  BY <1>2 DEF StagedFillOf
<1>5. /\ r \in OrderState /\ r.order = orders[id].order /\ stage \in {"open", "closed"}
      /\ orders[id].order.qty \in Int /\ orders[id].filled \in Int /\ Want(id) \in Int
      /\ ledger[id].executed \in Int
  <2>1. orders[id].order \in HeldRequest /\ ledger[id].executed \in Int
    BY DEF TypeOK, OrderState, HeldRequest, Ledger
  <2> QED
    BY <1>1, <2>1, WantType, HeldRequestType DEF Turn
<1>6. Bounded(id) /\ WaitsItsLatency(id) /\ id \in Elements(Held)
  BY <1>1, TurnEffects DEF OrderInv
<1>7. orders[id].filled <= r.filled /\ r.filled <= Greater(r.order.qty, 0)
  BY <1>1, <1>3, <1>5, WantBound DEF Greater
<1>8. /\ DOMAIN toFill = 1..Len(toFill) /\ Len(toFill) \in Nat
      /\ DOMAIN toFill' = 1..Len(toFill) + 1
      /\ \A n \in DOMAIN toFill : toFill'[n] = toFill[n]
      /\ toFill'[Len(toFill) + 1] = f
      /\ \A n \in DOMAIN toFill' : n \in DOMAIN toFill \/ n = Len(toFill) + 1
  BY <1>4, AppendStaged
<1>9. \A n \in DOMAIN toFill : toFill[n].id # id
  <2>1. id \in Elements(pending)
    BY <1>1, TurnEffects
  <2> QED
    BY <2>1 DEF OrderInv, StagedSoundly
<1>10. /\ \A other \in Ids : Placed(other)'
       /\ \A other \in Ids : Bounded(other)'
       /\ \A other \in Ids : TriggersOnce(other)'
       /\ \A other \in Elements(Held') : WaitsItsLatency(other)'
  <2>1. \A other \in Ids \ {id} : IsStaged(other)' => IsStaged(other)
    BY <1>4, <1>8 DEF IsStaged
  <2>2. r.order.kind \in ConditionalKinds => r.armed
    BY <1>1, <1>3, <1>5, FillsArmed
  <2> QED
    BY <1>1, <1>7, <2>1, <2>2, TurnKeeps
<1>11. StagedOnce'
  <2>1. StagedOnce
    BY DEF OrderInv
  <2> QED
    BY <1>4, <1>8, <1>9, <2>1 DEF StagedOnce
<1>12. /\ orders'[id] = r /\ ledger'[id].stage = stage
       /\ ledger'[id].executed = ledger[id].executed
       /\ ledger'[id].placedAt = ledger[id].placedAt
       /\ id \in Elements(pending) /\ Elements(pending') = Elements(pending) \ {id}
       /\ orders[id].order.instrument = bar.instrument /\ orders[id].activateIn = 0
       /\ UNCHANGED <<bar, seen>>
       /\ \A other \in Ids \ {id} : orders'[other] = orders[other] /\ ledger'[other] = ledger[other]
  BY <1>1, TurnEffects
<1>13. ASSUME NEW n \in DOMAIN toFill PROVE StagedSoundly(n)'
  <2>1. StagedSoundly(n) /\ toFill'[n] = toFill[n] /\ toFill[n].id \in Ids \ {id}
    BY <1>8, <1>9, StagedTypes DEF OrderInv
  <2> QED
    BY <1>12, <2>1 DEF StagedSoundly
<1>14. ASSUME NEW n \in DOMAIN toFill', n = Len(toFill) + 1 PROVE StagedSoundly(n)'
  <2>1. seen[bar.instrument] > ledger[id].placedAt + LatencyBars
    <3>1. /\ Age(id) = seen[bar.instrument] - ledger[id].placedAt - 1
          /\ seen[bar.instrument] \in Nat /\ ledger[id].placedAt \in Nat
      BY <1>6, <1>12, HeldOrder DEF Age, Awaits
    <3>2. Greater(LatencyBars - Age(id), 0) = 0
      BY <1>6, <1>12 DEF WaitsItsLatency
    <3> QED
      BY <3>1, <3>2, ConstantsAssumption DEF Greater
  <2>2. ledger[id].executed + Want(id) <= r.filled
    BY <1>1, <1>5, <1>6 DEF Bounded
  <2>3. Completes(id) \/ r.filled < r.order.qty
    BY <1>1, <1>5 DEF Completes
  <2> QED
    BY <1>3, <1>4, <1>5, <1>8, <1>12, <1>14, <2>1, <2>2, <2>3 DEF StagedSoundly
<1>15. \A n \in DOMAIN toFill' : StagedSoundly(n)'
  BY <1>8, <1>13, <1>14
<1> QED
  BY <1>10, <1>11, <1>15 DEF OrderInv

\* An order of another instrument keeps its place, and waits no longer.
LEMMA SkipOrders ==
  ASSUME TypeOK, BookInv, OrderInv, NEW id \in Ids, SkipOtherInstrument(id)
  PROVE  OrderInv'
<1>1. /\ Reached(id) /\ Leave(id, TRUE) /\ pending' = Tail(pending)
      /\ orders[id].order.instrument # bar.instrument
      /\ UNCHANGED <<orders, ledger, toFill, bar, seen>>
  BY DEF SkipOtherInstrument, NothingStaged, Leave
<1>2. Elements(pending') = Elements(pending) \ {id} /\ Held' = Held
  BY <1>1, ReachedPending, LeaveHeld
<1>3. ASSUME NEW other PROVE Age(other)' = Age(other)
  BY <1>1, <1>2 DEF Age, Awaits
<1>4. \A other \in Elements(Held') : WaitsItsLatency(other)'
  BY <1>1, <1>2, <1>3 DEF OrderInv, WaitsItsLatency
<1>5. /\ \A other \in Ids : Placed(other)'
      /\ \A other \in Ids : Bounded(other)'
  BY <1>1 DEF OrderInv, Placed, Bounded
<1>6. \A other \in Ids : TriggersOnce(other)'
  BY <1>1 DEF OrderInv, TriggersOnce, IsStaged
<1>7. StagedOnce' /\ \A n \in DOMAIN toFill' : StagedSoundly(n)'
  BY <1>1, <1>2 DEF OrderInv, StagedOnce, StagedSoundly
<1> QED
  BY <1>4, <1>5, <1>6, <1>7 DEF OrderInv

\* An order in flight has waited one more of the bars it has to.
LEMMA AwaitLatencyOrders ==
  ASSUME TypeOK, BookInv, OrderInv, NEW id \in Ids, AwaitLatency(id)
  PROVE  OrderInv'
<1>1. /\ Reached(id) /\ Leave(id, TRUE) /\ pending' = Tail(pending)
      /\ orders[id].order.instrument = bar.instrument /\ orders[id].activateIn > 0
      /\ orders' = [orders EXCEPT ![id].activateIn = @ - 1]
      /\ UNCHANGED <<ledger, toFill, bar, seen>>
  BY DEF AwaitLatency, NothingStaged, Leave
<1>2. /\ Elements(pending') = Elements(pending) \ {id} /\ Held' = Held
      /\ id \in Elements(pending) /\ id \in Elements(Held) /\ ledger[id].stage = "open"
  BY <1>1, ReachedPending, LeaveHeld DEF OpenIds
<1>3. /\ orders'[id].order = orders[id].order /\ orders'[id].filled = orders[id].filled
      /\ orders'[id].armed = orders[id].armed
      /\ orders'[id].activateIn = orders[id].activateIn - 1
      /\ \A other \in Ids \ {id} : orders'[other] = orders[other]
  BY <1>1 DEF TypeOK, OrderState
<1>4. \A other \in Ids : Placed(other)'
  <2> SUFFICES ASSUME NEW other \in Ids PROVE Placed(other)'
    OBVIOUS
  <2>1. Placed(other)
    BY DEF OrderInv
  <2> QED
    BY <1>1, <1>2, <1>3, <2>1 DEF Placed
<1>5. \A other \in Ids : Bounded(other)'
  BY <1>1, <1>3 DEF OrderInv, Bounded
<1>6. \A other \in Ids : TriggersOnce(other)'
  BY <1>1, <1>3 DEF OrderInv, TriggersOnce, IsStaged
<1>7. StagedOnce'
  BY <1>1 DEF OrderInv, StagedOnce
<1>8. ASSUME NEW n \in DOMAIN toFill' PROVE StagedSoundly(n)'
  <2>1. StagedSoundly(n) /\ toFill' = toFill /\ toFill[n].id \in Ids
    BY <1>1, <1>8, StagedTypes DEF OrderInv
  <2> QED
    BY <1>1, <1>2, <1>3, <2>1 DEF StagedSoundly
<1>9. ASSUME NEW other \in Elements(Held') PROVE WaitsItsLatency(other)'
  <2>1. other \in Ids /\ WaitsItsLatency(other)
    BY <1>2, <1>9, HeldOrder DEF OrderInv
  <2>2. CASE other = id
    <3>1. /\ Age(id) = seen[bar.instrument] - ledger[id].placedAt - 1 /\ Age(id) \in Int
          /\ seen[bar.instrument] \in Nat /\ ledger[id].placedAt \in Nat
          /\ orders[id].activateIn \in Nat
      BY <1>1, <1>2, HeldOrder DEF Age, Awaits
    <3>2. Age(id)' = Age(id) + 1
      BY <1>1, <1>2, <1>3, <3>1 DEF Age, Awaits
    <3>3. Age(id) >= 0 /\ orders[id].activateIn = Greater(LatencyBars - Age(id), 0)
      BY <2>1, <2>2 DEF WaitsItsLatency
    <3>4. LatencyBars \in Nat
      BY ConstantsAssumption
    <3>5. /\ Age(id) + 1 >= 0 /\ ~(Age(id) + 1 > LatencyBars)
          /\ orders[id].activateIn - 1 = Greater(LatencyBars - (Age(id) + 1), 0)
      BY <1>1, <3>1, <3>3, <3>4 DEF Greater
    <3> QED
      BY <1>3, <2>2, <3>2, <3>5 DEF WaitsItsLatency
  <2>3. CASE other # id
    <3>1. Age(other)' = Age(other)
      BY <1>1, <1>2, <1>3, <2>1, <2>3 DEF Age, Awaits
    <3> QED
      BY <1>3, <2>1, <2>3, <3>1 DEF WaitsItsLatency
  <2> QED
    BY <2>2, <2>3
<1> QED
  BY <1>4, <1>5, <1>6, <1>7, <1>8, <1>9 DEF OrderInv

\* What the emission of the oldest staged fill changes.
LEMMA EmitEffects ==
  ASSUME TypeOK, EmitFill
  PROVE  /\ bar # None /\ pending = << >> /\ Len(toFill) \in Nat /\ Len(toFill) > 0
         /\ DOMAIN toFill = 1..Len(toFill) /\ 1 \in DOMAIN toFill /\ Head(toFill) = toFill[1]
         /\ DOMAIN toFill' = 1..Len(toFill) - 1
         /\ \A n \in DOMAIN toFill' : n + 1 \in DOMAIN toFill /\ toFill'[n] = toFill[n + 1]
         /\ ledger'[toFill[1].id].executed = ledger[toFill[1].id].executed + toFill[1].qty
         /\ ledger'[toFill[1].id].stage =
              IF toFill[1].complete THEN "closed" ELSE ledger[toFill[1].id].stage
         /\ ledger'[toFill[1].id].triggered = ledger[toFill[1].id].triggered
         /\ ledger'[toFill[1].id].placedAt = ledger[toFill[1].id].placedAt
         /\ ledger'[toFill[1].id].late = ledger[toFill[1].id].late
         /\ \A other \in Ids \ {toFill[1].id} : ledger'[other] = ledger[other]
         /\ UNCHANGED <<resting, orders, bar, pending, cap, netAfter, claimed, seen>>
<1> DEFINE f == Head(toFill)
<1>1. /\ bar # None /\ pending = << >> /\ toFill # << >> /\ toFill' = Tail(toFill)
      /\ ledger' = [ledger EXCEPT
              ![f.id].executed = @ + f.qty,
              ![f.id].stage = IF f.complete THEN "closed" ELSE @]
      /\ UNCHANGED <<resting, orders, bar, pending, cap, netAfter, claimed, seen>>
  BY DEF EmitFill, Walked
<1>2. /\ DOMAIN toFill = 1..Len(toFill) /\ Len(toFill) \in Nat /\ Len(toFill) > 0
      /\ DOMAIN toFill' = 1..Len(toFill) - 1
      /\ \A n \in 1..Len(toFill) - 1 : toFill'[n] = toFill[n + 1]
      /\ f = toFill[1]
  <2>1. toFill \in Seq(StagedFill) /\ toFill # << >> /\ toFill' = Tail(toFill)
    BY <1>1 DEF TypeOK
  <2> QED
    BY <2>1
<1>3. 1 \in DOMAIN toFill /\ \A n \in 1..Len(toFill) - 1 : n + 1 \in 1..Len(toFill)
  BY <1>2
<1>4. toFill[1].id \in Ids
  BY <1>3, StagedTypes
<1>5. /\ ledger'[toFill[1].id].executed = ledger[toFill[1].id].executed + toFill[1].qty
      /\ ledger'[toFill[1].id].stage =
           IF toFill[1].complete THEN "closed" ELSE ledger[toFill[1].id].stage
      /\ ledger'[toFill[1].id].triggered = ledger[toFill[1].id].triggered
      /\ ledger'[toFill[1].id].placedAt = ledger[toFill[1].id].placedAt
      /\ ledger'[toFill[1].id].late = ledger[toFill[1].id].late
      /\ \A other \in Ids \ {toFill[1].id} : ledger'[other] = ledger[other]
  <2> DEFINE now == ledger[toFill[1].id]
  <2>1. now \in Ledger /\ ledger \in [Ids -> Ledger]
    BY <1>4 DEF TypeOK
  <2>2. /\ ledger'[toFill[1].id] =
             [now EXCEPT !.executed = @ + toFill[1].qty,
                         !.stage = IF toFill[1].complete THEN "closed" ELSE @]
        /\ \A other \in Ids \ {toFill[1].id} : ledger'[other] = ledger[other]
    BY <1>1, <1>2, <1>4, <2>1
  <2> HIDE DEF now
  <2>3. /\ ledger'[toFill[1].id].executed = now.executed + toFill[1].qty
        /\ ledger'[toFill[1].id].stage = IF toFill[1].complete THEN "closed" ELSE now.stage
        /\ ledger'[toFill[1].id].triggered = now.triggered
        /\ ledger'[toFill[1].id].placedAt = now.placedAt
        /\ ledger'[toFill[1].id].late = now.late
    BY <2>1, <2>2 DEF Ledger
  <2> QED
    BY <2>2, <2>3 DEF now
<1> QED
  BY <1>1, <1>2, <1>3, <1>5

\* Executing what was decided stays within it.
LEMMA EmitFillOrders ==
  ASSUME TypeOK, BookInv, OrderInv, EmitFill
  PROVE  OrderInv'
<1> DEFINE f == toFill[1]
<1>1. /\ pending = << >>
      /\ DOMAIN toFill = 1..Len(toFill) /\ 1 \in DOMAIN toFill
      /\ \A n \in DOMAIN toFill' : n + 1 \in DOMAIN toFill /\ toFill'[n] = toFill[n + 1]
      /\ DOMAIN toFill' = 1..Len(toFill) - 1 /\ Len(toFill) \in Nat
      /\ UNCHANGED <<resting, orders, bar, pending, seen>>
  BY EmitEffects
<1>2. /\ ledger'[f.id].executed = ledger[f.id].executed + f.qty
      /\ ledger'[f.id].stage = IF f.complete THEN "closed" ELSE ledger[f.id].stage
      /\ ledger'[f.id].triggered = ledger[f.id].triggered
      /\ ledger'[f.id].placedAt = ledger[f.id].placedAt
      /\ \A other \in Ids \ {f.id} : ledger'[other] = ledger[other]
  BY EmitEffects
<1>3. f.id \in Ids /\ f.qty \in Int /\ f.complete \in BOOLEAN
  BY <1>1, StagedTypes
<1>4. StagedSoundly(1)
  BY <1>1 DEF OrderInv
<1> HIDE DEF f
<1>5. \A n \in DOMAIN toFill' : toFill'[n].id \in Ids \ {f.id}
  <2> SUFFICES ASSUME NEW n \in DOMAIN toFill' PROVE toFill'[n].id \in Ids \ {f.id}
    OBVIOUS
  <2>1. n + 1 \in DOMAIN toFill /\ n + 1 # 1 /\ toFill'[n] = toFill[n + 1]
    BY <1>1
  <2>2. toFill[n + 1].id \in Ids
    BY <2>1, StagedTypes
  <2> QED
    BY <1>1, <2>1, <2>2 DEF OrderInv, StagedOnce, f
<1>6. ASSUME NEW id \in Ids PROVE Placed(id)' /\ Bounded(id)' /\ TriggersOnce(id)'
  <2>1. Placed(id) /\ Bounded(id) /\ TriggersOnce(id)
    BY DEF OrderInv
  <2>2. CASE id = f.id
    <3>1. /\ f.qty > 0 /\ ledger[id].stage \in {"open", "closed"}
          /\ ledger[id].executed + f.qty <= orders[id].filled
          /\ ledger[id].executed \in Int
      BY <1>4, <2>2 DEF StagedSoundly, f, TypeOK, Ledger
    <3>2. IsStaged(id)
      BY <1>1, <2>2 DEF IsStaged, f
    <3>3. Placed(id)'
      BY <1>1, <1>2, <2>1, <2>2, <3>1 DEF Placed
    <3>4. Bounded(id)'
      BY <1>1, <1>2, <1>3, <2>1, <2>2, <3>1 DEF Bounded
    <3>5. TriggersOnce(id)'
      BY <1>1, <1>2, <2>1, <2>2, <3>2 DEF TriggersOnce
    <3> QED
      BY <3>3, <3>4, <3>5
  <2>3. CASE id # f.id
    <3>1. IsStaged(id)' => IsStaged(id)
      BY <1>1 DEF IsStaged
    <3> QED
      BY <1>1, <1>2, <2>1, <2>3, <3>1 DEF Placed, Bounded, TriggersOnce
  <2> QED
    BY <2>2, <2>3
<1>7. StagedOnce'
  <2> SUFFICES ASSUME NEW m \in DOMAIN toFill', NEW n \in DOMAIN toFill',
                      toFill'[m].id = toFill'[n].id
               PROVE  m = n
    BY DEF StagedOnce
  <2>1. m + 1 = n + 1
    BY <1>1 DEF OrderInv, StagedOnce
  <2> QED
    BY <1>1, <2>1
<1>8. ASSUME NEW n \in DOMAIN toFill' PROVE StagedSoundly(n)'
  <2>1. StagedSoundly(n + 1) /\ toFill'[n] = toFill[n + 1]
    BY <1>1 DEF OrderInv
  <2>2. ledger'[toFill'[n].id] = ledger[toFill'[n].id]
    BY <1>2, <1>5
  <2> QED
    BY <1>1, <2>1, <2>2 DEF StagedSoundly
<1>9. ASSUME NEW id \in Elements(Held') PROVE WaitsItsLatency(id)'
  <2>1. Held' = Held
    BY <1>1 DEF Held
  <2>2. WaitsItsLatency(id) /\ id \in Ids
    BY <1>9, <2>1, HeldOrder DEF OrderInv
  <2>3. ledger'[id].placedAt = ledger[id].placedAt
    BY <1>2, <2>2
  <2>4. Age(id)' = Age(id)
    BY <1>1, <2>3 DEF Age, Awaits
  <2> QED
    BY <1>1, <2>2, <2>4 DEF WaitsItsLatency
<1> QED
  BY <1>6, <1>7, <1>8, <1>9 DEF OrderInv

-----------------------------------------------------------------------------
(* The other steps *)

\* With nothing staged or to be reached, orders may end, and may be reduced,
\* together.
LEMMA RemovalOrders ==
  ASSUME TypeOK, BookInv, OrderInv,
         pending = << >>, toFill = << >>, pending' = << >>, toFill' = << >>, seen' = seen,
         Elements(Held') \subseteq Elements(Held),
         \A id \in Ids : \/ ledger'[id] = ledger[id]
                         \/ /\ ledger[id].stage = "open"
                            /\ ledger'[id] = [ledger[id] EXCEPT !.stage = "closed"],
         \A id \in Ids : \/ orders'[id] = orders[id]
                         \/ \E most \in Int :
                              /\ orders'[id] = [orders[id] EXCEPT !.filled = most]
                              /\ ledger[id].stage = "open"
                              /\ orders[id].filled <= most
                              /\ most <= Greater(orders[id].order.qty, 0)
  PROVE  OrderInv'
<1>1. Elements(pending) = {} /\ Elements(pending') = {} /\ DOMAIN toFill' = {}
  BY DEF Elements
<1>2. ASSUME NEW id \in Ids
      PROVE  /\ orders'[id].order = orders[id].order /\ orders'[id].armed = orders[id].armed
             /\ orders'[id].activateIn = orders[id].activateIn
             /\ orders[id].filled \in Int /\ orders'[id].filled \in Int
             /\ orders[id].filled <= orders'[id].filled
             /\ orders'[id] = orders[id] \/ ledger[id].stage = "open"
             /\ orders'[id].filled <= Greater(orders[id].order.qty, 0)
  <2>1. orders[id] \in OrderState /\ orders[id].filled \in Int /\ Bounded(id)
    BY DEF TypeOK, OrderState, OrderInv
  <2>2. CASE orders'[id] = orders[id]
    BY <2>1, <2>2 DEF Bounded
  <2>3. CASE \E most \in Int :
               /\ orders'[id] = [orders[id] EXCEPT !.filled = most]
               /\ ledger[id].stage = "open"
               /\ orders[id].filled <= most
               /\ most <= Greater(orders[id].order.qty, 0)
    BY <2>1, <2>3 DEF OrderState
  <2> QED
    BY <2>2, <2>3
<1>3. ASSUME NEW id \in Ids
      PROVE  /\ ledger'[id].executed = ledger[id].executed
             /\ ledger'[id].triggered = ledger[id].triggered
             /\ ledger'[id].placedAt = ledger[id].placedAt
             /\ ledger[id].executed \in Int
             /\ \/ ledger'[id].stage = ledger[id].stage
                \/ ledger[id].stage = "open" /\ ledger'[id].stage = "closed"
  <2>1. ledger[id] \in Ledger
    BY DEF TypeOK
  <2>2. CASE ledger'[id] = ledger[id]
    BY <2>1, <2>2 DEF Ledger
  <2>3. CASE /\ ledger[id].stage = "open"
             /\ ledger'[id] = [ledger[id] EXCEPT !.stage = "closed"]
    BY <2>1, <2>3 DEF Ledger
  <2> QED
    BY <2>2, <2>3
<1>4. ASSUME NEW id \in Ids PROVE Placed(id)' /\ Bounded(id)' /\ TriggersOnce(id)'
  <2>1. Placed(id) /\ Bounded(id) /\ TriggersOnce(id)
    BY DEF OrderInv
  <2>2. Placed(id)'
    BY <1>2, <1>3, <2>1 DEF Placed
  <2>3. Bounded(id)'
    BY <1>2, <1>3, <2>1 DEF Bounded
  <2>4. ~IsStaged(id)'
    BY <1>1 DEF IsStaged
  <2>5. TriggersOnce(id)'
    BY <1>2, <1>3, <2>1, <2>4 DEF TriggersOnce
  <2> QED
    BY <2>2, <2>3, <2>5
<1>5. ASSUME NEW id \in Elements(Held') PROVE WaitsItsLatency(id)'
  <2>1. id \in Ids /\ WaitsItsLatency(id)
    BY <1>5, HeldOrder DEF OrderInv
  <2>2. Age(id)' = Age(id)
    BY <1>1, <1>2, <1>3, <2>1 DEF Age, Awaits
  <2> QED
    BY <1>2, <2>1, <2>2 DEF WaitsItsLatency
<1> QED
  BY <1>1, <1>4, <1>5 DEF OrderInv, StagedOnce

\* What CloseAll leaves of the ledger.
LEMMA CloseAllEffects ==
  ASSUME TypeOK, NEW gone, Elements(gone) \subseteq OpenIds, ledger' = CloseAll(gone)
  PROVE  \A id \in Ids : \/ ledger'[id] = ledger[id]
                         \/ /\ ledger[id].stage = "open"
                            /\ ledger'[id] = [ledger[id] EXCEPT !.stage = "closed"]
BY DEF CloseAll, Elements, OpenIds

\* What is kept of the book, and what is not, was held and open.
LEMMA KeptHeld ==
  ASSUME TypeOK, BookInv, pending = << >>, NEW K
  PROVE  /\ Keep(resting, K) \in Seq(Ids) /\ Held = resting
         /\ Elements(Keep(resting, K)) = Elements(resting) \cap K
         /\ Elements(Keep(resting, K)) \subseteq OpenIds
<1>1. resting \in Seq(Ids) /\ Held = resting
  BY DEF TypeOK, Held
<1>2. /\ Keep(resting, K) \in Seq(Ids)
      /\ Elements(Keep(resting, K)) = Elements(resting) \cap K
  BY <1>1, KeepFacts
<1> QED
  BY <1>1, <1>2 DEF BookInv

\* cancel ends the order and changes nothing else of it.
LEMMA CancelOrders ==
  ASSUME TypeOK, BookInv, OrderInv, NEW id \in Ids, Cancel(id)
  PROVE  OrderInv'
<1>1. Idle /\ UNCHANGED <<bar, pending, toFill, orders, seen>>
  BY DEF Cancel, observing
<1>2. pending = << >> /\ toFill = << >>
  BY <1>1 DEF BookInv
<1>3. CASE id \in OnBook
  <2>1. /\ resting' = Keep(resting, Ids \ {id})
        /\ ledger' = [ledger EXCEPT ![id].stage = "closed"]
    BY <1>3 DEF Cancel
  <2>2. Held = resting /\ Held' = resting' /\ Elements(resting') \subseteq Elements(resting)
    BY <1>1, <1>2, <2>1, KeptHeld DEF Held
  <2>3. ledger[id].stage = "open"
    BY <1>3, <2>2 DEF BookInv, OpenIds, OnBook, Elements
  <2>4. ledger'[id] = [ledger[id] EXCEPT !.stage = "closed"]
        /\ \A other \in Ids \ {id} : ledger'[other] = ledger[other]
    BY <2>1 DEF TypeOK
  <2> QED
    BY <1>1, <1>2, <2>2, <2>3, <2>4, RemovalOrders
<1>4. CASE id \notin OnBook
  <2>1. UNCHANGED <<resting, ledger>>
    BY <1>4 DEF Cancel
  <2>2. Held' = Held
    BY <1>1, <2>1 DEF Held
  <2> QED
    BY <1>1, <1>2, <2>1, <2>2, RemovalOrders
<1> QED
  BY <1>3, <1>4

\* A resolved OCO group reduces a leg to what is left to protect, which is
\* less than was ordered of it.
LEMMA ResolveOcoOrders ==
  ASSUME TypeOK, BookInv, OrderInv, ResolveOco
  PROVE  OrderInv'
<1> DEFINE c        == Head(claimed)
           siblings == {id \in Ids \ {c.keeper} : orders[id].order.oco = c.group}
           losers   == {id \in siblings : c.complete \/ orders[id].order.qty <= c.filled}
<1>1. /\ pending = << >> /\ toFill = << >> /\ claimed # << >>
      /\ resting' = Keep(resting, Ids \ losers)
      /\ orders' = [id \in Ids |->
              IF id \in OnBook \cap (siblings \ losers)
              THEN [orders[id] EXCEPT !.filled = Greater(orders[id].filled, c.filled)]
              ELSE orders[id]]
      /\ ledger' = CloseAll(Keep(resting, losers))
      /\ UNCHANGED <<bar, pending, toFill, seen>>
  BY DEF ResolveOco, Walked
<1>2. c \in Claim /\ c.filled \in Int
  <2>1. claimed \in Seq(Claim) /\ claimed # << >>
    BY <1>1 DEF TypeOK
  <2>2. c \in Claim
    BY <2>1
  <2> QED
    BY <2>2 DEF Claim
<1>3. ASSUME NEW id \in Ids, id \in OnBook \cap (siblings \ losers)
      PROVE  LET most == Greater(orders[id].filled, c.filled)
             IN  /\ most \in Int /\ orders'[id] = [orders[id] EXCEPT !.filled = most]
                 /\ ledger[id].stage = "open"
                 /\ orders[id].filled <= most /\ most <= Greater(orders[id].order.qty, 0)
  <2>1. orders'[id] = [orders[id] EXCEPT !.filled = Greater(orders[id].filled, c.filled)]
    BY <1>1, <1>3
  <2>2. orders[id].order.qty \in Int /\ orders[id].filled \in Int
    <3>1. orders[id].order \in HeldRequest /\ orders[id].filled \in Int
      BY DEF TypeOK, OrderState, HeldRequest
    <3> QED
      BY <3>1, HeldRequestType
  <2>3. Bounded(id) /\ ~(orders[id].order.qty <= c.filled)
    BY <1>3 DEF OrderInv
  <2>4. ledger[id].stage = "open"
    BY <1>1, <1>3, KeptHeld DEF BookInv, OpenIds, OnBook, Elements
  <2> QED
    BY <1>2, <2>1, <2>2, <2>3, <2>4 DEF Bounded, Greater
<1>4. \A id \in Ids : id \notin OnBook \cap (siblings \ losers) => orders'[id] = orders[id]
  BY <1>1
<1> HIDE DEF c, siblings, losers
<1>5. Held = resting /\ Held' = resting' /\ Elements(resting') \subseteq Elements(resting)
  BY <1>1, KeptHeld DEF Held
<1>6. \A id \in Ids : \/ ledger'[id] = ledger[id]
                      \/ /\ ledger[id].stage = "open"
                         /\ ledger'[id] = [ledger[id] EXCEPT !.stage = "closed"]
  BY <1>1, KeptHeld, CloseAllEffects
<1>7. \A id \in Ids : \/ orders'[id] = orders[id]
                      \/ \E most \in Int :
                           /\ orders'[id] = [orders[id] EXCEPT !.filled = most]
                           /\ ledger[id].stage = "open"
                           /\ orders[id].filled <= most
                           /\ most <= Greater(orders[id].order.qty, 0)
  BY <1>3, <1>4
<1> QED
  BY <1>1, <1>5, <1>6, <1>7, RemovalOrders

\* The end of the call liquidates an instrument's orders, or none.
LEMMA FinishObserveOrders ==
  ASSUME TypeOK, BookInv, OrderInv, FinishObserve
  PROVE  OrderInv'
<1>1. /\ pending = << >> /\ toFill = << >> /\ UNCHANGED <<pending, toFill, orders, seen>>
  BY DEF FinishObserve, Walked
<1>2. \/ UNCHANGED <<resting, ledger>>
      \/ \E here : /\ resting' = Keep(resting, Ids \ here)
                    /\ ledger' = CloseAll(Keep(resting, here))
  BY DEF FinishObserve, Liquidate
<1>3. CASE UNCHANGED <<resting, ledger>>
  <2>1. Held' = Held
    BY <1>1, <1>3 DEF Held
  <2> QED
    BY <1>1, <1>3, <2>1, RemovalOrders
<1>4. ASSUME NEW here, resting' = Keep(resting, Ids \ here),
             ledger' = CloseAll(Keep(resting, here))
      PROVE  OrderInv'
  <2>1. Held = resting /\ Held' = resting' /\ Elements(resting') \subseteq Elements(resting)
    BY <1>1, <1>4, KeptHeld DEF Held
  <2>2. \A id \in Ids : \/ ledger'[id] = ledger[id]
                        \/ /\ ledger[id].stage = "open"
                           /\ ledger'[id] = [ledger[id] EXCEPT !.stage = "closed"]
    BY <1>1, <1>4, KeptHeld, CloseAllEffects
  <2> QED
    BY <1>1, <2>1, <2>2, RemovalOrders
<1> QED
  BY <1>2, <1>3, <1>4

\* An accepted order starts its latency, unfilled and untriggered.
LEMMA SubmitOrders ==
  ASSUME TypeOK, BookInv, OrderInv, NEW id \in Ids, NEW o \in Requests, Submit(id, o)
  PROVE  OrderInv'
<1>1. /\ Idle /\ ledger[id].stage = "unused" /\ UNCHANGED <<bar, pending, toFill, seen>>
  BY DEF Submit, NextId, observing
<1>2. pending = << >> /\ toFill = << >> /\ DOMAIN toFill' = {} /\ Elements(pending') = {}
      /\ Elements(pending) = {} /\ resting \in Seq(Ids)
  BY <1>1 DEF BookInv, Elements, TypeOK
<1>3. /\ orders[id] = NoOrderState /\ ledger[id].executed = 0 /\ ledger[id].triggered = 0
  BY <1>1 DEF OrderInv, Placed
<1>4. StagedOnce' /\ \A n \in DOMAIN toFill' : StagedSoundly(n)'
  BY <1>2 DEF StagedOnce
<1>5. ASSUME NEW other \in Ids, orders'[other] = orders[other], ledger'[other] = ledger[other]
      PROVE  /\ Placed(other)' /\ Bounded(other)' /\ TriggersOnce(other)'
             /\ WaitsItsLatency(other) => WaitsItsLatency(other)'
  <2>1. Placed(other) /\ Bounded(other) /\ TriggersOnce(other)
    BY DEF OrderInv
  <2>2. Placed(other)' /\ Bounded(other)'
    BY <1>5, <2>1 DEF Placed, Bounded
  <2>3. TriggersOnce(other)'
    BY <1>2, <1>5, <2>1 DEF TriggersOnce, IsStaged
  <2>4. Age(other)' = Age(other)
    BY <1>1, <1>2, <1>5 DEF Age, Awaits
  <2>5. WaitsItsLatency(other) => WaitsItsLatency(other)'
    BY <1>5, <2>4 DEF WaitsItsLatency
  <2> QED
    BY <2>2, <2>3, <2>5
<1>6. NoOrderState.filled = 0 /\ NoOrderState.armed = FALSE
  BY DEF NoOrderState
<1>7. CASE Refuses(o)
  <2>1. /\ ledger' = [ledger EXCEPT ![id].stage = "rejected"] /\ UNCHANGED <<resting, orders>>
    BY <1>7 DEF Submit
  <2>2. /\ ledger'[id].stage = "rejected" /\ ledger'[id].executed = 0
        /\ ledger'[id].triggered = 0
        /\ \A other \in Ids \ {id} : ledger'[other] = ledger[other]
    BY <1>3, <2>1 DEF TypeOK, Ledger
  <2>3. Held' = Held /\ id \notin Elements(Held)
    BY <1>1, <2>1 DEF Held, BookInv, OpenIds
  <2>4. Placed(id)'
    BY <1>3, <2>1, <2>2 DEF Placed
  <2>5. Bounded(id)'
    <3>1. Bounded(id)
      BY DEF OrderInv
    <3> QED
      BY <1>3, <2>1, <2>2, <3>1 DEF Bounded
  <2>6. TriggersOnce(id)'
    BY <1>2, <1>3, <1>6, <2>1, <2>2 DEF TriggersOnce, IsStaged
  <2>7. ASSUME NEW other \in Elements(Held') PROVE WaitsItsLatency(other)'
    <3>1. other \in Ids \ {id} /\ WaitsItsLatency(other)
      BY <2>3, <2>7, HeldOrder DEF OrderInv
    <3> QED
      BY <1>5, <2>1, <2>2, <3>1
  <2>8. ASSUME NEW other \in Ids PROVE Placed(other)' /\ Bounded(other)' /\ TriggersOnce(other)'
    BY <1>5, <2>1, <2>2, <2>4, <2>5, <2>6
  <2> QED
    BY <1>4, <2>7, <2>8 DEF OrderInv
<1>8. CASE ~Refuses(o)
  <2> DEFINE new == [NoOrderState EXCEPT !.order = o, !.activateIn = LatencyBars]
  <2>1. /\ resting' = Append(resting, id)
        /\ orders' = [orders EXCEPT ![id] = new]
        /\ ledger' = [ledger EXCEPT ![id].stage = "open",
                                    ![id].placedAt = seen[o.instrument],
                                    ![id].late = GroupHasExecuted(o.oco)]
        /\ ~InvalidOrder(o)
    BY <1>8 DEF Submit, Refuses
  <2>2. /\ new.order = o /\ new.activateIn = LatencyBars
        /\ new.filled = 0 /\ new.armed = FALSE
    BY DEF NoOrderState
  <2> HIDE DEF new
  <2>3. /\ ledger'[id].stage = "open" /\ ledger'[id].executed = 0
        /\ ledger'[id].triggered = 0 /\ ledger'[id].placedAt = seen[o.instrument]
        /\ \A other \in Ids \ {id} : ledger'[other] = ledger[other]
    <3>1. ledger[id] \in Ledger /\ ledger \in [Ids -> Ledger]
      BY DEF TypeOK
    <3>2. /\ ledger'[id] = [ledger[id] EXCEPT !.stage = "open",
                                              !.placedAt = seen[o.instrument],
                                              !.late = GroupHasExecuted(o.oco)]
          /\ \A other \in Ids \ {id} : ledger'[other] = ledger[other]
      BY <2>1, <3>1
    <3> QED
      BY <1>3, <3>1, <3>2 DEF Ledger
  <2>4. orders'[id] = new /\ \A other \in Ids \ {id} : orders'[other] = orders[other]
    BY <2>1 DEF TypeOK
  <2>5. o.qty \in Int /\ o.qty > 0 /\ o.instrument \in Instruments
    <3>1. o \in OrderRequest
      BY ConstantsAssumption
    <3>2. o.qty \in Int /\ o.instrument \in Instruments
      BY <3>1 DEF OrderRequest
    <3> QED
      BY <2>1, <3>2 DEF InvalidOrder
  <2>6. Placed(id)'
    BY <2>2, <2>3, <2>4, <2>5 DEF Placed
  <2>7. Bounded(id)'
    BY <2>2, <2>3, <2>4, <2>5 DEF Bounded, Greater
  <2>8. TriggersOnce(id)'
    BY <1>2, <2>2, <2>3, <2>4 DEF TriggersOnce, IsStaged
  <2>9. WaitsItsLatency(id)'
    <3>1. seen[o.instrument] \in Nat /\ LatencyBars \in Nat
      BY <2>5, ConstantsAssumption DEF TypeOK
    <3>2. Age(id)' = seen[o.instrument] - seen[o.instrument] - 0
      BY <1>1, <1>2, <2>2, <2>3, <2>4 DEF Age, Awaits
    <3>3. Age(id)' = 0
      BY <3>1, <3>2
    <3> QED
      BY <2>2, <2>4, <3>1, <3>3 DEF WaitsItsLatency, Greater
  <2>10. Elements(Held') = Elements(Held) \cup {id}
    <3>1. Held = resting /\ Held' = Append(resting, id)
      BY <1>1, <1>2, <2>1 DEF Held
    <3> QED
      BY <1>2, <3>1, AppendElements
  <2>11. ASSUME NEW other \in Elements(Held') PROVE WaitsItsLatency(other)'
    <3>1. CASE other = id
      BY <2>9, <3>1
    <3>2. CASE other # id
      <4>1. other \in Ids /\ WaitsItsLatency(other)
        BY <2>10, <2>11, <3>2, HeldOrder DEF OrderInv
      <4> QED
        BY <1>5, <2>3, <2>4, <3>2, <4>1
    <3> QED
      BY <3>1, <3>2
  <2>12. ASSUME NEW other \in Ids PROVE Placed(other)' /\ Bounded(other)' /\ TriggersOnce(other)'
    BY <1>5, <2>3, <2>4, <2>6, <2>7, <2>8
  <2> QED
    BY <1>4, <2>11, <2>12 DEF OrderInv
<1> QED
  BY <1>7, <1>8

\* A bar counts for an order of its instrument once the walk has dealt with
\* the order, not before.
LEMMA BeginObserveOrders ==
  ASSUME TypeOK, BookInv, OrderInv, NEW b \in Bars, BeginObserve(b)
  PROVE  OrderInv'
<1>1. /\ Idle /\ bar' = b /\ pending' = resting /\ resting' = << >>
      /\ seen' = [seen EXCEPT ![b.instrument] = @ + 1]
      /\ UNCHANGED <<orders, toFill, ledger>>
  BY DEF BeginObserve
<1>2. /\ pending = << >> /\ toFill = << >> /\ resting \in Seq(Ids)
      /\ Elements(pending) = {} /\ DOMAIN toFill' = {} /\ toFill' = << >>
  BY <1>1 DEF BookInv, TypeOK, Elements
<1>3. Held' = resting /\ Held = resting /\ Elements(pending') = Elements(Held)
  BY <1>1, <1>2 DEF Held
<1>4. b.instrument \in Instruments
  BY ConstantsAssumption DEF Bar
<1>5. ASSUME NEW id \in Ids PROVE Placed(id)' /\ Bounded(id)' /\ TriggersOnce(id)'
  <2>1. Placed(id) /\ Bounded(id) /\ TriggersOnce(id)
    BY DEF OrderInv
  <2>2. IsStaged(id)' <=> IsStaged(id)
    BY <1>1 DEF IsStaged
  <2> QED
    BY <1>1, <2>1, <2>2 DEF Placed, Bounded, TriggersOnce
<1>6. ASSUME NEW id \in Elements(Held') PROVE WaitsItsLatency(id)'
  <2> DEFINE i == orders[id].order.instrument
  <2>1. id \in Elements(Held) /\ WaitsItsLatency(id)
    BY <1>3, <1>6 DEF OrderInv
  <2>2. i \in Instruments /\ seen[i] \in Nat /\ ledger[id].placedAt \in Nat
    BY <2>1, HeldOrder
  <2>3. Age(id) = seen[i] - ledger[id].placedAt - 0
    BY <1>2 DEF Age, Awaits
  <2>4. Age(id)' = seen'[i] - ledger[id].placedAt - (IF i = b.instrument THEN 1 ELSE 0)
    BY <1>1, <1>3, <2>1 DEF Age, Awaits
  <2>5. seen'[i] = seen[i] + IF i = b.instrument THEN 1 ELSE 0
    BY <1>1, <1>4, <2>2 DEF TypeOK
  <2>6. Age(id)' = Age(id)
    BY <2>2, <2>3, <2>4, <2>5
  <2> QED
    BY <1>1, <2>1, <2>6 DEF WaitsItsLatency
<1> QED
  BY <1>2, <1>5, <1>6 DEF OrderInv, StagedOnce

\* Every step keeps it.
LEMMA StepOrders ==
  ASSUME TypeOK, BookInv, OrderInv, VenueStep
  PROVE  OrderInv'
<1>1. CASE CallStep
  BY <1>1, SubmitOrders, CancelOrders, BeginObserveOrders DEF CallStep
<1>2. ASSUME NEW id \in Ids, Match(id) PROVE OrderInv'
  BY <1>2, UnfilledOrders, StageFillOrders, SkipOrders, AwaitLatencyOrders
     DEF Match, LeavesUnfilled
<1>3. CASE EmitFill \/ ResolveOco \/ FinishObserve
  BY <1>3, EmitFillOrders, ResolveOcoOrders, FinishObserveOrders
<1>4. CASE CallerStep
  <2>1. UNCHANGED <<resting, orders, ledger, seen, bar, pending, toFill>>
    BY <1>4 DEF CallerStep, observing
  <2>2. Held' = Held
    BY <2>1 DEF Held
  <2>3. ASSUME NEW id
        PROVE  /\ Placed(id) => Placed(id)'
               /\ Bounded(id) => Bounded(id)'
               /\ TriggersOnce(id) => TriggersOnce(id)'
               /\ WaitsItsLatency(id) => WaitsItsLatency(id)'
    BY <2>1 DEF Placed, Bounded, TriggersOnce, IsStaged, WaitsItsLatency, Age, Awaits
  <2>4. ASSUME NEW n, StagedSoundly(n) PROVE StagedSoundly(n)'
    BY <2>1, <2>4 DEF StagedSoundly
  <2>5. StagedOnce' /\ DOMAIN toFill' = DOMAIN toFill
    BY <2>1 DEF OrderInv, StagedOnce
  <2> QED
    BY <2>2, <2>3, <2>4, <2>5 DEF OrderInv
<1> QED
  BY <1>1, <1>2, <1>3, <1>4 DEF VenueStep, Observing

\* The whole of it is an invariant of the venue.
THEOREM OrdersSound == Spec => [](TypeOK /\ BookInv /\ OrderInv)
<1>1. Init => TypeOK /\ BookInv /\ OrderInv
  BY InitType, InitBook, InitOrders
<1>2. TypeOK /\ BookInv /\ OrderInv /\ [Next]_vars => TypeOK' /\ BookInv' /\ OrderInv'
  BY StepType, StepBook, StepOrders, NextIsStep
<1> QED
  BY <1>1, <1>2, PTL DEF Spec

-----------------------------------------------------------------------------
(* What it means for each order *)

\* Over any number of partial fills, shared caps and OCO reductions, no order
\* is reported filled beyond its quantity.
THEOREM NeverOverfilled == Spec => []NoOverfill
<1>1. ASSUME TypeOK, OrderInv, NEW id \in Ids
      PROVE  ledger[id].executed \in 0..Greater(orders[id].order.qty, 0)
  <2>1. Bounded(id)
    BY <1>1 DEF OrderInv
  <2>2. ledger[id].executed \in Int /\ orders[id].filled \in Int
        /\ orders[id].order.qty \in Int
    <3>1. orders[id].order \in HeldRequest /\ orders[id].filled \in Int
      BY <1>1 DEF TypeOK, OrderState, HeldRequest
    <3>2. ledger[id].executed \in Int
      BY <1>1 DEF TypeOK, Ledger
    <3> QED
      BY <3>1, <3>2, HeldRequestType
  <2>3. Greater(orders[id].order.qty, 0) \in Int
    BY <2>2 DEF Greater
  <2> QED
    BY <2>1, <2>2, <2>3 DEF Bounded
<1>2. TypeOK /\ BookInv /\ OrderInv => NoOverfill
  BY <1>1 DEF NoOverfill
<1> QED
  BY <1>2, OrdersSound, PTL

\* A conditional order is reported triggered once, before it is reported
\* filled, and no other order ever is.
THEOREM TriggeredAtMostOnce == Spec => []TriggeredOnce
<1>1. TypeOK /\ BookInv /\ OrderInv => TriggeredOnce
  BY DEF OrderInv, TriggersOnce, TriggeredOnce
<1> QED
  BY <1>1, OrdersSound, PTL

\* No order fills before the bar after its acceptance, nor before its latency
\* has been waited out.
THEOREM NeverLooksAhead == Spec => []NoLookAhead
<1>1. TypeOK /\ BookInv /\ OrderInv => NoLookAhead
  BY DEF OrderInv, StagedSoundly, NoLookAhead
<1> QED
  BY <1>1, OrdersSound, PTL

\* An immediate order does not outlive the first bar that could act on it,
\* unless it waits for its trigger.
THEOREM ImmediateEnds == Spec => []ImmediateNeverRests
<1>1. ASSUME TypeOK, BookInv, OrderInv, Idle, NEW id \in OnBook,
             orders[id].order.tif # "Gtc",
             seen[orders[id].order.instrument] > ledger[id].placedAt + LatencyBars
      PROVE  orders[id].order.kind \in ConditionalKinds /\ ledger[id].triggered = 0
  <2>1. pending = << >> /\ Elements(pending) = {} /\ resting \in Seq(Ids)
    BY <1>1 DEF BookInv, Elements, TypeOK
  <2>2. id \in Elements(Held)
    BY <1>1, <2>1 DEF Held, OnBook, Elements
  <2>3. /\ id \in Ids /\ seen[orders[id].order.instrument] \in Nat
        /\ ledger[id].placedAt \in Nat
    BY <1>1, <2>2, HeldOrder
  <2>4. Age(id) > LatencyBars
    BY <1>1, <2>1, <2>3, ConstantsAssumption DEF Age, Awaits
  <2>5. WaitsItsLatency(id) /\ TriggersOnce(id)
    BY <1>1, <2>2, <2>3 DEF OrderInv
  <2> QED
    BY <1>1, <2>4, <2>5 DEF WaitsItsLatency, TriggersOnce
<1>2. TypeOK /\ BookInv /\ OrderInv => ImmediateNeverRests
  BY <1>1 DEF ImmediateNeverRests
<1> QED
  BY <1>2, OrdersSound, PTL

-----------------------------------------------------------------------------
(* The venue's events tell of each order the life OrderLife promises *)

\* What a sequence of staged fills owes an order.
OwedIn(s, id) ==
  SumFunction([n \in DOMAIN s |-> IF s[n].id = id THEN s[n].qty ELSE 0])

\* It is the quantity of the order's fill, and nothing if it has none.
LEMMA OwedStaged ==
  ASSUME NEW s \in Seq(StagedFill), \A m, n \in DOMAIN s : s[m].id = s[n].id => m = n
  PROVE  /\ \A id : (\A n \in DOMAIN s : s[n].id # id) => OwedIn(s, id) = 0
         /\ \A n \in DOMAIN s : OwedIn(s, s[n].id) = s[n].qty
<1> DEFINE Of(id) == [n \in DOMAIN s |-> IF s[n].id = id THEN s[n].qty ELSE 0]
<1>1. IsFiniteSet(DOMAIN s)
  <2>1. DOMAIN s = 1..Len(s) /\ Len(s) \in Nat
    OBVIOUS
  <2> QED
    BY <2>1, FS_Interval
<1>2. \A id : OwedIn(s, id) = SumFunctionOnSet(Of(id), DOMAIN s)
  BY DEF OwedIn, SumFunction
<1>3. ASSUME NEW id, \A n \in DOMAIN s : s[n].id # id PROVE OwedIn(s, id) = 0
  <2>1. \A n \in DOMAIN s : Of(id)[n] = 0
    BY <1>3
  <2> HIDE DEF Of
  <2> QED
    BY <1>1, <1>2, <2>1, SumZero
<1>4. ASSUME NEW n \in DOMAIN s PROVE OwedIn(s, s[n].id) = s[n].qty
  <2>1. s[n].qty \in Int
    <3>1. s[n] \in StagedFill
      OBVIOUS
    <3> QED
      BY <3>1 DEF StagedFill
  <2>2. Of(s[n].id)[n] = s[n].qty /\ \A m \in DOMAIN s \ {n} : Of(s[n].id)[m] = 0
    OBVIOUS
  <2> HIDE DEF Of
  <2> QED
    BY <1>1, <1>2, <2>1, <2>2, SumOnly
<1> QED
  BY <1>3, <1>4

\* The same of what this bar has staged.
LEMMA OwedNow ==
  ASSUME TypeOK, OrderInv
  PROVE  /\ \A id : ~IsStaged(id) => Owed(id) = 0
         /\ \A n \in DOMAIN toFill : Owed(toFill[n].id) = toFill[n].qty
<1>1. toFill \in Seq(StagedFill) /\ StagedOnce
  BY DEF TypeOK, OrderInv
<1>2. \A id : Owed(id) = OwedIn(toFill, id)
  BY DEF Owed, OwedIn
<1> QED
  BY <1>1, <1>2, OwedStaged DEF StagedOnce, IsStaged

\* After a step, of an order named by a constant.
LEMMA OwedNext ==
  ASSUME TypeOK', OrderInv'
  PROVE  /\ \A id : ~IsStaged(id)' => Owed(id)' = 0
         /\ \A n \in DOMAIN toFill' : OwedIn(toFill', toFill'[n].id) = toFill'[n].qty
         /\ \A id : Owed(id)' = OwedIn(toFill', id)
<1>1. toFill' \in Seq(StagedFill) /\ StagedOnce'
  BY DEF TypeOK, OrderInv
<1>2. \A id : Owed(id)' = OwedIn(toFill', id)
  BY DEF Owed, OwedIn
<1> QED
  BY <1>1, <1>2, OwedStaged DEF StagedOnce, IsStaged

\* A step that leaves every order's stage, quantity and amounts alone says
\* nothing of any order.
LEMMA LifeStutters ==
  ASSUME \A id \in Ids : /\ ledger'[id].stage = ledger[id].stage
                         /\ ledger'[id].executed = ledger[id].executed
                         /\ orders'[id].order.qty = orders[id].order.qty
                         /\ Owed(id)' = Owed(id),
         (bar' # None) = (bar # None)
  PROVE  UNCHANGED Promise!life
BY DEF Promise!life

\* An order that ends takes what is left of it off, if nothing is staged of it.
LEMMA LifeCloses ==
  ASSUME NEW gone \in SUBSET Ids,
         \A id \in gone : ledger[id].stage = "open" /\ Owed(id) = 0,
         \A id \in Ids : /\ ledger'[id].stage = IF id \in gone THEN "closed" ELSE ledger[id].stage
                         /\ ledger'[id].executed = ledger[id].executed
                         /\ orders'[id].order.qty = orders[id].order.qty
                         /\ Owed(id)' = Owed(id)
  PROVE  /\ (bar' # None) = (bar # None) => Promise!Close
         /\ bar # None /\ bar' = None /\ (\A id \in Ids : Owed(id) = 0) => Promise!End
<1>1. gone \in SUBSET Promise!Closable
  BY DEF Promise!Closable
<1>2. Promise!Closes(gone)
  BY DEF Promise!Closes
<1>3. UNCHANGED <<[id \in Ids |-> orders[id].order.qty], [id \in Ids |-> ledger[id].executed],
                  [id \in Ids |-> Owed(id)]>>
  OBVIOUS
<1> QED
  BY <1>1, <1>2, <1>3 DEF Promise!Close, Promise!End

\* submit accepts or refuses.
LEMMA SubmitLife ==
  ASSUME TypeOK, BookInv, OrderInv, TypeOK', OrderInv',
         NEW id \in Ids, NEW o \in Requests, Submit(id, o)
  PROVE  Promise!LifeNext
<1>1. /\ bar = None /\ bar' = None /\ ledger[id].stage = "unused" /\ toFill' = toFill
      /\ orders[id].order.qty = 0
  <2>1. Placed(id) /\ Idle /\ ledger[id].stage = "unused" /\ UNCHANGED <<bar, toFill>>
    BY DEF OrderInv, Submit, NextId, observing
  <2> QED
    BY <2>1 DEF Placed, Idle, NoOrderState, NoOrder
<1>2. ASSUME NEW other \in Ids PROVE Owed(other)' = Owed(other)
  BY <1>1 DEF Owed
<1>3. CASE Refuses(o)
  <2>1. /\ ledger' = [ledger EXCEPT ![id].stage = "rejected"] /\ orders' = orders
    BY <1>3 DEF Submit
  <2>2. /\ ledger'[id].stage = "rejected"
        /\ \A other \in Ids : ledger'[other].executed = ledger[other].executed
        /\ \A other \in Ids \ {id} : ledger'[other].stage = ledger[other].stage
    BY <2>1 DEF TypeOK, Ledger
  <2>3. Promise!Refuse(id)
    BY <1>1, <1>2, <2>1, <2>2 DEF Promise!Refuse
  <2> QED
    BY <2>3 DEF Promise!LifeNext
<1>4. CASE ~Refuses(o)
  <2> DEFINE new == [NoOrderState EXCEPT !.order = o, !.activateIn = LatencyBars]
  <2>1. /\ orders' = [orders EXCEPT ![id] = new]
        /\ ledger' = [ledger EXCEPT ![id].stage = "open",
                                    ![id].placedAt = seen[o.instrument],
                                    ![id].late = GroupHasExecuted(o.oco)]
        /\ ~InvalidOrder(o)
    BY <1>4 DEF Submit, Refuses
  <2>2. new.order = o
    BY DEF NoOrderState
  <2> HIDE DEF new
  <2>3. /\ ledger'[id].stage = "open" /\ ledger'[id].executed = ledger[id].executed
        /\ \A other \in Ids \ {id} : ledger'[other] = ledger[other]
    BY <2>1 DEF TypeOK, Ledger
  <2>4. orders'[id].order = o /\ \A other \in Ids \ {id} : orders'[other] = orders[other]
    BY <2>1, <2>2 DEF TypeOK
  <2>5. o.qty \in Nat \ {0}
    <3>1. o \in OrderRequest
      BY ConstantsAssumption
    <3>2. o.qty \in Int
      BY <3>1 DEF OrderRequest
    <3> QED
      BY <2>1, <3>2 DEF InvalidOrder
  <2>6. Promise!Accept(id)
    BY <1>1, <1>2, <2>3, <2>4, <2>5 DEF Promise!Accept
  <2> QED
    BY <2>6 DEF Promise!LifeNext
<1> QED
  BY <1>3, <1>4

\* cancel closes an order, or nothing.
LEMMA CancelLife ==
  ASSUME TypeOK, BookInv, OrderInv, NEW id \in Ids, Cancel(id)
  PROVE  Promise!LifeNext
<1>1. /\ UNCHANGED <<bar, toFill, orders>> /\ toFill = << >> /\ pending = << >>
  BY DEF Cancel, observing, BookInv
<1>2. \A other \in Ids : Owed(other)' = Owed(other) /\ Owed(other) = 0
  <2>1. \A other : ~IsStaged(other)
    BY <1>1 DEF IsStaged
  <2> QED
    BY <1>1, <2>1, OwedNow DEF Owed
<1> DEFINE gone == IF id \in OnBook THEN {id} ELSE {}
<1>3. /\ \A other \in gone : ledger[other].stage = "open"
      /\ \A other \in Ids :
           /\ ledger'[other].stage = IF other \in gone THEN "closed" ELSE ledger[other].stage
           /\ ledger'[other].executed = ledger[other].executed
  <2>1. CASE id \in OnBook
    <3>1. ledger' = [ledger EXCEPT ![id].stage = "closed"]
      BY <2>1 DEF Cancel
    <3>2. ledger[id].stage = "open"
      BY <1>1, <2>1, KeptHeld DEF BookInv, OpenIds, OnBook, Elements
    <3> QED
      BY <2>1, <3>1, <3>2 DEF TypeOK, Ledger
  <2>2. CASE id \notin OnBook
    BY <2>2 DEF Cancel
  <2> QED
    BY <2>1, <2>2
<1>4. gone \in SUBSET Ids
  OBVIOUS
<1> HIDE DEF gone
<1>5. Promise!Close
  BY <1>1, <1>2, <1>3, <1>4, LifeCloses
<1> QED
  BY <1>5 DEF Promise!LifeNext

\* observe starts.
LEMMA BeginObserveLife ==
  ASSUME NEW b \in Bars, BeginObserve(b)
  PROVE  Promise!LifeNext
<1>1. bar = None /\ bar' # None /\ UNCHANGED <<orders, ledger, toFill>>
  BY ConstantsAssumption DEF BeginObserve, Idle
<1>2. Promise!Begin
  BY <1>1 DEF Promise!Begin, Owed
<1> QED
  BY <1>2 DEF Promise!LifeNext

\* An order's turn that stages nothing leaves it open or closes it.
LEMMA UnfilledLife ==
  ASSUME TypeOK, BookInv, OrderInv, NEW id \in Ids, LeavesUnfilled(id)
  PROVE  Promise!LifeNext \/ UNCHANGED Promise!life
<1>1. PICK r, stage, rests : Turn(id, r, stage, rests)
  BY UnfilledTurn
<1>2. toFill' = toFill
  BY UnfilledTurn DEF NothingStaged
<1>3. ~IsStaged(id)
  <2>1. id \in Elements(pending)
    BY <1>1, TurnEffects
  <2> QED
    BY <2>1 DEF IsStaged, OrderInv, StagedSoundly
<1>4. \A other \in Ids : Owed(other)' = Owed(other)
  BY <1>2 DEF Owed
<1>5. /\ stage \in {"open", "closed"} /\ ledger[id].stage = "open"
      /\ ledger'[id].stage = stage /\ ledger'[id].executed = ledger[id].executed
      /\ orders'[id].order = orders[id].order /\ bar' = bar
      /\ \A other \in Ids \ {id} : ledger'[other] = ledger[other]
                                   /\ orders'[other] = orders[other]
  BY <1>1, TurnEffects DEF Turn
<1>6. CASE stage = "open"
  <2>1. UNCHANGED Promise!life
    BY <1>4, <1>5, <1>6, LifeStutters
  <2> QED
    BY <2>1
<1>7. CASE stage = "closed"
  <2>1. Owed(id) = 0
    BY <1>3, OwedNow
  <2>2. /\ {id} \in SUBSET Ids
        /\ \A other \in {id} : ledger[other].stage = "open" /\ Owed(other) = 0
        /\ \A other \in Ids :
             /\ ledger'[other].stage = IF other \in {id} THEN "closed" ELSE ledger[other].stage
             /\ ledger'[other].executed = ledger[other].executed
             /\ orders'[other].order.qty = orders[other].order.qty
             /\ Owed(other)' = Owed(other)
    BY <1>4, <1>5, <1>7, <2>1
  <2>3. Promise!Close
    BY <1>5, <2>2, LifeCloses
  <2> QED
    BY <2>3 DEF Promise!LifeNext
<1> QED
  BY <1>5, <1>6, <1>7

\* A staged fill is owed to its order, and changes nothing owed to another.
LEMMA StageFillOwed ==
  ASSUME TypeOK, BookInv, OrderInv, TypeOK', OrderInv', NEW id \in Ids, StageFill(id)
  PROVE  /\ Owed(id) = 0 /\ Owed(id)' = Want(id)
         /\ \A other \in Ids \ {id} : Owed(other)' = Owed(other)
<1>1. PICK r, stage, rests : Turn(id, r, stage, rests)
  BY StageFillTurn
<1>2. PICK f \in StagedFill : StagedFillOf(id, f)
  BY StageFillTurn
<1>3. f.id = id /\ f.qty = Want(id) /\ toFill' = Append(toFill, f) /\ Want(id) > 0
  BY <1>2, StageFillTurn DEF StagedFillOf
<1>4. /\ stage \in {"open", "closed"} /\ ledger[id].stage = "open"
      /\ ledger'[id].stage = stage /\ ledger'[id].executed = ledger[id].executed
      /\ orders'[id].order = orders[id].order /\ bar # None /\ bar' = bar
      /\ id \in Elements(pending)
      /\ \A other \in Ids \ {id} : ledger'[other] = ledger[other]
                                   /\ orders'[other] = orders[other]
  BY <1>1, TurnEffects DEF Turn
<1>5. ~IsStaged(id)
  BY <1>4 DEF IsStaged, OrderInv, StagedSoundly
<1>6. /\ DOMAIN toFill = 1..Len(toFill) /\ Len(toFill) \in Nat
      /\ DOMAIN toFill' = 1..Len(toFill) + 1
      /\ \A n \in DOMAIN toFill : toFill'[n] = toFill[n]
      /\ toFill'[Len(toFill) + 1] = f
      /\ \A n \in DOMAIN toFill' : n \in DOMAIN toFill \/ n = Len(toFill) + 1
  BY <1>3, AppendStaged
<1>7. Owed(id) = 0
  BY <1>5, OwedNow
<1>8. Owed(id)' = Want(id)
  <2>1. Len(toFill) + 1 \in DOMAIN toFill'
    BY <1>6
  <2>2. OwedIn(toFill', toFill'[Len(toFill) + 1].id) = toFill'[Len(toFill) + 1].qty
    BY <2>1, OwedNext
  <2> QED
    BY <1>3, <1>6, <2>2, OwedNext
<1>9. ASSUME NEW other \in Ids \ {id} PROVE Owed(other)' = Owed(other)
  <2>1. CASE IsStaged(other)
    <3>1. PICK n \in DOMAIN toFill : toFill[n].id = other
      BY <2>1 DEF IsStaged
    <3>2. n \in DOMAIN toFill' /\ toFill'[n] = toFill[n]
      BY <1>6
    <3>3. Owed(other) = toFill[n].qty
      BY <3>1, OwedNow
    <3>4. Owed(other)' = toFill'[n].qty
      BY <3>1, <3>2, OwedNext
    <3> QED
      BY <3>2, <3>3, <3>4
  <2>2. CASE ~IsStaged(other)
    <3>1. ~IsStaged(other)'
      BY <1>3, <1>6, <2>2 DEF IsStaged
    <3> QED
      BY <2>2, <3>1, OwedNow, OwedNext
  <2> QED
    BY <2>1, <2>2
<1> QED
  BY <1>7, <1>8, <1>9

\* A staged fill is a decision to execute no more than is left.
LEMMA StageFillLife ==
  ASSUME TypeOK, BookInv, OrderInv, TypeOK', OrderInv', NEW id \in Ids, StageFill(id)
  PROVE  Promise!LifeNext
<1>1. PICK r, stage, rests : Turn(id, r, stage, rests)
  BY StageFillTurn
<1>2. Want(id) > 0
  BY StageFillTurn
<1>3. /\ stage \in {"open", "closed"} /\ ledger[id].stage = "open"
      /\ ledger'[id].stage = stage /\ ledger'[id].executed = ledger[id].executed
      /\ orders'[id].order = orders[id].order /\ bar # None /\ bar' = bar
      /\ \A other \in Ids \ {id} : ledger'[other] = ledger[other]
                                   /\ orders'[other] = orders[other]
  BY <1>1, TurnEffects DEF Turn
<1>4. /\ Owed(id) = 0 /\ Owed(id)' = Want(id)
      /\ \A other \in Ids \ {id} : Owed(other)' = Owed(other)
  BY StageFillOwed
<1>5. Want(id) \in 1..(orders[id].order.qty - ledger[id].executed)
  <2>1. /\ orders[id].order.qty \in Int /\ orders[id].filled \in Int
        /\ ledger[id].executed \in Int /\ Want(id) \in Int
    <3>1. orders[id].order \in HeldRequest /\ ledger[id].executed \in Int
      BY DEF TypeOK, OrderState, HeldRequest, Ledger
    <3> QED
      BY <3>1, WantType, HeldRequestType
  <2>2. Bounded(id)
    BY DEF OrderInv
  <2> QED
    BY <1>2, <2>1, <2>2, WantBound DEF Bounded
<1>6. Promise!Decide(id)
  <2>1. [x \in Ids |-> Owed(x)]' = [[x \in Ids |-> Owed(x)] EXCEPT ![id] = Want(id)]
    BY <1>4
  <2>2. [x \in Ids |-> ledger[x].stage]' = [[x \in Ids |-> ledger[x].stage] EXCEPT ![id] = stage]
    BY <1>3
  <2>3. UNCHANGED <<[x \in Ids |-> orders[x].order.qty], [x \in Ids |-> ledger[x].executed]>>
    BY <1>3
  <2> QED
    BY <1>3, <1>4, <1>5, <2>1, <2>2, <2>3 DEF Promise!Decide
<1> QED
  BY <1>6 DEF Promise!LifeNext

\* An emitted fill is owed no more, and changes nothing owed to another order.
LEMMA EmitFillOwed ==
  ASSUME TypeOK, BookInv, OrderInv, TypeOK', OrderInv', EmitFill
  PROVE  \E id \in Ids :
           /\ id = toFill[1].id /\ Owed(id) = toFill[1].qty /\ Owed(id)' = 0
           /\ \A other \in Ids \ {id} : Owed(other)' = Owed(other)
<1> DEFINE f == toFill[1]
<1>1. /\ bar # None /\ DOMAIN toFill = 1..Len(toFill) /\ 1 \in DOMAIN toFill
      /\ \A n \in DOMAIN toFill' : n + 1 \in DOMAIN toFill /\ toFill'[n] = toFill[n + 1]
      /\ DOMAIN toFill' = 1..Len(toFill) - 1 /\ Len(toFill) \in Nat
      /\ UNCHANGED <<orders, bar>>
  BY EmitEffects
<1>2. /\ ledger'[f.id].executed = ledger[f.id].executed + f.qty
      /\ ledger'[f.id].stage = IF f.complete THEN "closed" ELSE ledger[f.id].stage
      /\ \A other \in Ids \ {f.id} : ledger'[other] = ledger[other]
  BY EmitEffects
<1>3. f.id \in Ids /\ f.qty \in Int /\ f.complete \in BOOLEAN /\ StagedSoundly(1)
  BY <1>1, StagedTypes DEF OrderInv
<1>4. PICK id \in Ids : id = f.id
  BY <1>3
<1>5. Owed(id) = f.qty /\ f.qty > 0
  BY <1>1, <1>3, <1>4, OwedNow DEF StagedSoundly
<1> HIDE DEF f
<1>6. \A n \in DOMAIN toFill' : toFill'[n].id # id
  <2> SUFFICES ASSUME NEW n \in DOMAIN toFill' PROVE toFill'[n].id # id
    OBVIOUS
  <2>1. n + 1 \in DOMAIN toFill /\ n + 1 # 1 /\ toFill'[n] = toFill[n + 1]
    BY <1>1
  <2> QED
    BY <1>1, <1>4, <2>1 DEF OrderInv, StagedOnce, f
<1>7. Owed(id)' = 0
  <2>1. OwedIn(toFill', id) = 0
    <3>1. toFill' \in Seq(StagedFill) /\ StagedOnce'
      BY DEF TypeOK, OrderInv
    <3> QED
      BY <1>6, <3>1, OwedStaged DEF StagedOnce
  <2> QED
    BY <2>1, OwedNext
<1>8. ASSUME NEW other \in Ids \ {id} PROVE Owed(other)' = Owed(other)
  <2>1. CASE IsStaged(other)'
    <3>1. PICK n \in DOMAIN toFill' : toFill'[n].id = other
      BY <2>1 DEF IsStaged
    <3>2. n + 1 \in DOMAIN toFill /\ toFill'[n] = toFill[n + 1]
      BY <1>1
    <3>3. Owed(other) = toFill[n + 1].qty
      BY <3>1, <3>2, OwedNow
    <3>4. Owed(other)' = toFill'[n].qty
      BY <3>1, OwedNext
    <3> QED
      BY <3>2, <3>3, <3>4
  <2>2. CASE ~IsStaged(other)'
    <3>1. ~IsStaged(other)
      <4> SUFFICES ASSUME NEW n \in DOMAIN toFill, toFill[n].id = other PROVE FALSE
        BY DEF IsStaged
      <4>1. n # 1
        BY <1>4, <1>8 DEF f
      <4>2. n - 1 \in DOMAIN toFill' /\ n - 1 + 1 = n
        BY <1>1, <4>1
      <4>3. toFill'[n - 1] = toFill[n]
        BY <1>1, <4>2
      <4> QED
        BY <2>2, <4>2, <4>3 DEF IsStaged
    <3> QED
      BY <2>2, <3>1, OwedNow, OwedNext
  <2> QED
    BY <2>1, <2>2
<1> QED
  BY <1>4, <1>5, <1>7, <1>8 DEF f

\* An emitted fill executes what was decided, and ends the order if that was
\* the last of it.
LEMMA EmitFillLife ==
  ASSUME TypeOK, BookInv, OrderInv, TypeOK', OrderInv', EmitFill
  PROVE  Promise!LifeNext
<1> DEFINE f == toFill[1]
<1>1. /\ bar # None /\ DOMAIN toFill = 1..Len(toFill) /\ 1 \in DOMAIN toFill
      /\ UNCHANGED <<orders, bar>>
  BY EmitEffects
<1>2. /\ ledger'[f.id].executed = ledger[f.id].executed + f.qty
      /\ ledger'[f.id].stage = IF f.complete THEN "closed" ELSE ledger[f.id].stage
      /\ \A other \in Ids \ {f.id} : ledger'[other] = ledger[other]
  BY EmitEffects
<1>3. f.id \in Ids /\ f.qty \in Int /\ f.complete \in BOOLEAN /\ StagedSoundly(1)
  BY <1>1, StagedTypes DEF OrderInv
<1>4. PICK id \in Ids :
        /\ id = f.id /\ Owed(id) = f.qty /\ Owed(id)' = 0
        /\ \A other \in Ids \ {id} : Owed(other)' = Owed(other)
  BY EmitFillOwed
<1>5. Owed(id) = f.qty /\ f.qty > 0
  BY <1>3, <1>4 DEF StagedSoundly
<1> HIDE DEF f
<1>6. /\ orders[id].order.qty \in Int /\ orders[id].filled \in Int
      /\ ledger[id].executed \in Int
  <2>1. orders[id].order \in HeldRequest /\ ledger[id].executed \in Int
    BY DEF TypeOK, OrderState, HeldRequest, Ledger
  <2> QED
    BY <2>1, WantType, HeldRequestType
<1>7. ledger'[id].executed = orders'[id].order.qty => ledger'[id].stage = "closed"
  <2>1. ~f.complete => ledger[id].executed + f.qty < orders[id].order.qty
    BY <1>3, <1>4, <1>6 DEF StagedSoundly, f
  <2> QED
    BY <1>1, <1>2, <1>3, <1>4, <1>6, <2>1
<1>8. Promise!Execute(id)
  <2> DEFINE stage == IF f.complete THEN "closed" ELSE ledger[id].stage
  <2>1. [x \in Ids |-> Owed(x)]' = [[x \in Ids |-> Owed(x)] EXCEPT ![id] = 0]
    BY <1>4
  <2>2. PICK last \in {ledger[id].stage, "closed"} :
          [x \in Ids |-> ledger[x].stage]' = [[x \in Ids |-> ledger[x].stage] EXCEPT ![id] = last]
    <3>1. [x \in Ids |-> ledger[x].stage]' = [[x \in Ids |-> ledger[x].stage] EXCEPT ![id] = stage]
      BY <1>2, <1>4
    <3> QED
      BY <3>1
  <2>3. [x \in Ids |-> ledger[x].executed]' =
          [[x \in Ids |-> ledger[x].executed] EXCEPT ![id] = @ + Owed(id)]
    BY <1>2, <1>4, <1>5
  <2>4. UNCHANGED [x \in Ids |-> orders[x].order.qty]
    BY <1>1
  <2> HIDE DEF stage
  <2> QED
    BY <1>1, <1>3, <1>5, <1>7, <2>1, <2>2, <2>3, <2>4 DEF Promise!Execute
<1> QED
  BY <1>8 DEF Promise!LifeNext

\* A resolved OCO group closes the orders it takes off the book.
LEMMA ResolveOcoLife ==
  ASSUME TypeOK, BookInv, OrderInv, ResolveOco
  PROVE  Promise!LifeNext
<1> DEFINE c        == Head(claimed)
           siblings == {id \in Ids \ {c.keeper} : orders[id].order.oco = c.group}
           losers   == {id \in siblings : c.complete \/ orders[id].order.qty <= c.filled}
           reduced  == OnBook \cap (siblings \ losers)
<1>1. /\ pending = << >> /\ toFill = << >>
      /\ orders' = [id \in Ids |->
              IF id \in reduced
              THEN [orders[id] EXCEPT !.filled = Greater(orders[id].filled, c.filled)]
              ELSE orders[id]]
      /\ ledger' = CloseAll(Keep(resting, losers))
      /\ UNCHANGED <<bar, toFill>>
  BY DEF ResolveOco, Walked
<1> HIDE DEF c, siblings, losers, reduced
<1>2. \A id \in Ids : orders'[id].order.qty = orders[id].order.qty
  BY <1>1 DEF TypeOK, OrderState
<1>3. \A id \in Ids : Owed(id)' = Owed(id) /\ Owed(id) = 0
  <2>1. \A id : ~IsStaged(id)
    BY <1>1 DEF IsStaged
  <2> QED
    BY <1>1, <2>1, OwedNow DEF Owed
<1> DEFINE gone == Elements(Keep(resting, losers))
<1>4. gone \in SUBSET Ids /\ \A id \in gone : ledger[id].stage = "open"
  BY <1>1, KeptHeld DEF OpenIds
<1>5. \A id \in Ids :
        /\ ledger'[id].stage = IF id \in gone THEN "closed" ELSE ledger[id].stage
        /\ ledger'[id].executed = ledger[id].executed
  BY <1>1 DEF CloseAll, Elements, TypeOK, Ledger
<1> HIDE DEF gone
<1>6. Promise!Close
  BY <1>1, <1>2, <1>3, <1>4, <1>5, LifeCloses
<1> QED
  BY <1>6 DEF Promise!LifeNext

\* When the call returns nothing it decided is left unreported.
LEMMA FinishObserveLife ==
  ASSUME TypeOK, BookInv, OrderInv, FinishObserve
  PROVE  Promise!LifeNext
<1>1. /\ pending = << >> /\ toFill = << >> /\ UNCHANGED <<toFill, orders>>
      /\ bar # None /\ bar' = None
  BY DEF FinishObserve, Walked
<1>2. \A id \in Ids : Owed(id)' = Owed(id) /\ Owed(id) = 0
  <2>1. \A id : ~IsStaged(id)
    BY <1>1 DEF IsStaged
  <2> QED
    BY <1>1, <2>1, OwedNow DEF Owed
<1> DEFINE Ends(gone) ==
             /\ \A id \in gone : ledger[id].stage = "open"
             /\ \A id \in Ids :
                  /\ ledger'[id].stage = IF id \in gone THEN "closed" ELSE ledger[id].stage
                  /\ ledger'[id].executed = ledger[id].executed
<1>3. \E gone \in SUBSET Ids : Ends(gone)
  <2>1. CASE ledger' = ledger
    <3>1. {} \in SUBSET Ids /\ Ends({})
      BY <2>1
    <3> QED
      BY <3>1
  <2>2. ASSUME NEW here, ledger' = CloseAll(Keep(resting, here))
        PROVE  \E gone \in SUBSET Ids : Ends(gone)
    <3> DEFINE gone == Elements(Keep(resting, here))
    <3>1. gone \in SUBSET Ids /\ \A id \in gone : ledger[id].stage = "open"
      BY <1>1, KeptHeld DEF OpenIds
    <3>2. \A id \in Ids :
            /\ ledger'[id].stage = IF id \in gone THEN "closed" ELSE ledger[id].stage
            /\ ledger'[id].executed = ledger[id].executed
      BY <2>2 DEF CloseAll, Elements, TypeOK, Ledger
    <3> HIDE DEF gone
    <3> QED
      BY <3>1, <3>2
  <2>3. ledger' = ledger \/ \E here : ledger' = CloseAll(Keep(resting, here))
    BY DEF FinishObserve, Liquidate
  <2> QED
    BY <2>1, <2>2, <2>3
<1>4. Promise!End
  BY <1>1, <1>2, <1>3, LifeCloses
<1> QED
  BY <1>4 DEF Promise!LifeNext

\* Every step is one OrderLife allows, or changes nothing it speaks of.
LEMMA NextLife ==
  ASSUME TypeOK, BookInv, OrderInv, TypeOK', OrderInv', [Next]_vars
  PROVE  [Promise!LifeNext]_(Promise!life)
<1>1. CASE sink = << >> /\ Calls
  BY <1>1, SubmitLife, CancelLife, BeginObserveLife DEF Calls
<1>2. ASSUME NEW id \in Ids, Match(id)
      PROVE  Promise!LifeNext \/ UNCHANGED Promise!life
  <2>1. CASE SkipOtherInstrument(id)
    <3>1. UNCHANGED <<orders, ledger, toFill, bar>>
      BY <2>1 DEF SkipOtherInstrument, NothingStaged, Leave
    <3>2. \A other \in Ids : Owed(other)' = Owed(other)
      BY <3>1 DEF Owed
    <3> QED
      BY <3>1, <3>2, LifeStutters
  <2>2. CASE AwaitLatency(id)
    <3>1. /\ UNCHANGED <<ledger, toFill, bar>>
          /\ orders' = [orders EXCEPT ![id].activateIn = @ - 1]
      BY <2>2 DEF AwaitLatency, NothingStaged, Leave
    <3>2. \A other \in Ids : orders'[other].order.qty = orders[other].order.qty
      BY <3>1 DEF TypeOK, OrderState
    <3>3. \A other \in Ids : Owed(other)' = Owed(other)
      BY <3>1 DEF Owed
    <3> QED
      BY <3>1, <3>2, <3>3, LifeStutters
  <2>3. CASE LeavesUnfilled(id)
    BY <2>3, UnfilledLife
  <2>4. CASE StageFill(id)
    BY <2>4, StageFillLife
  <2> QED
    BY <1>2, <2>1, <2>2, <2>3, <2>4 DEF Match, LeavesUnfilled
<1>3. CASE EmitFill \/ ResolveOco \/ FinishObserve
  BY <1>3, EmitFillLife, ResolveOcoLife, FinishObserveLife
<1>4. CASE TakeEvents \/ UNCHANGED vars
  <2>1. UNCHANGED <<orders, ledger, toFill, bar>>
    BY <1>4 DEF TakeEvents, vars, observing
  <2>2. \A other \in Ids : Owed(other)' = Owed(other)
    BY <2>1 DEF Owed
  <2> QED
    BY <2>1, <2>2, LifeStutters
<1> QED
  BY <1>1, <1>2, <1>3, <1>4 DEF Next, Observing

\* At first no order has been seen.
LEMMA InitLife == Init => Promise!LifeInit
<1> SUFFICES ASSUME Init PROVE Promise!LifeInit
  OBVIOUS
<1>1. TypeOK /\ OrderInv /\ toFill = << >> /\ bar = None
  BY InitType, InitOrders DEF Init
<1>2. ASSUME NEW id \in Ids
      PROVE  /\ ledger[id].stage = "unused" /\ ledger[id].executed = 0
             /\ orders[id].order.qty = 0
  BY DEF Init, NoOrderState, NoOrder
<1>3. \A id \in Ids : Owed(id) = 0
  BY <1>1, OwedNow DEF IsStaged
<1> QED
  BY <1>1, <1>2, <1>3 DEF Promise!LifeInit

\* The venue keeps what OrderLife promises of every order.
THEOREM LifeRefinement == Spec => LifeKept
<1>1. Init => Promise!LifeInit
  BY InitLife
<1>2. /\ TypeOK /\ BookInv /\ OrderInv
      /\ TypeOK' /\ BookInv' /\ OrderInv' /\ [Next]_vars
      => [Promise!LifeNext]_(Promise!life)
  BY NextLife
<1> QED
  BY <1>1, <1>2, OrdersSound, PTL DEF Spec, LifeKept, Promise!LifeSpec
=============================================================================

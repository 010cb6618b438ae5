----------------------------- MODULE SwapSession ----------------------------
(***************************************************************************)
(* A backtest over the automated market maker: the engine's loop           *)
(* (engine.rs) with a strategy of the module Crossover, the portfolio, and *)
(* SwapVenue.  These strategies react to bars only, so between two events  *)
(* of the feed the loop is one deterministic step; EngineLoop takes it     *)
(* apart for strategies that react to anything.                            *)
(***************************************************************************)
EXTENDS SwapVenue, Crossover, Portfolio, FiniteSets

CONSTANTS
  Traders,      \* a subset of "cross", "sized" and "follow"
  Pairs,        \* the instruments, of which the crossovers trade Traded
  Traded,
  SwapBars,     \* the bars the feed may deliver,
  Targets,      \* and the signals: records of instrument and value
  Stake,        \* opening cash
  MaxTurns      \* bound on the events of the feed

ASSUME SessionAssumption ==
  /\ Traders \subseteq {"cross", "sized", "follow"}
  /\ Traded \in Pairs
  /\ \A b \in SwapBars : b.instrument \in Pairs /\ {b.open, b.close} \subseteq Nat \ {0}
  /\ \A t \in Targets : t.instrument \in Pairs /\ t.value \in Int
  /\ Stake \in Int /\ MaxTurns \in Nat

VARIABLES
  trader,    \* which strategy runs,
  state,     \*   and its state
  history,   \* the engine's Market
  pool,      \* DexExchange.resting
  folio,     \* the portfolio
  placed,    \* OrderGate.submitted: the orders by id, from 1
  equity,    \* equity_curve
  turns      \* events delivered

sessionVars == <<trader, state, history, pool, folio, placed, equity, turns>>

SessionInit ==
  /\ trader \in Traders
  /\ state = NewCross
  /\ history = EmptyMarket(Pairs)
  /\ pool = << >> /\ placed = << >> /\ equity = << >> /\ turns = 0
  /\ folio = OpenPortfolio(Pairs, Stake)

-----------------------------------------------------------------------------
(* The account as it is read *)

\* 0 where there is no mark yet.
MarkOf(market, i) ==
  LET mark == Latest(ClosesOf(market, i)) IN IF mark = << >> THEN 0 ELSE Head(mark)

Valued(p, market, i) == p.positions[i].net * MarkOf(market, i)

\* Ctx::equity, over every instrument.
EquityOf(p, market) == p.cash + MapThenSumSet(LAMBDA i : Valued(p, market, i), Pairs)

\* mark_to_market, over those held.
Marked(p, market) == p.cash + MapThenSumSet(LAMBDA i : Valued(p, market, i), p.held)

Unrealized(p, market, i) ==
  IF p.positions[i].net = 0 \/ Latest(ClosesOf(market, i)) = << >> THEN 0
  ELSE p.positions[i].net * (MarkOf(market, i) - p.positions[i].avg)

RealizedNet(p) == p.realized - (p.tradingFees + p.fundingNet)

\* open_order_ids and has_open_order: acknowledged orders, in the order of their
\* acknowledgement; nothing is queued when on_bar begins.
OpenIdsOn(p, i) == SelectSeq(p.open, LAMBDA id : placed[id].instrument = i)
HasOpenOrderOn(p, i) == OpenIdsOn(p, i) # << >>

View(p, market) ==
  [market |-> market, net |-> [i \in Pairs |-> p.positions[i].net],
   equity |-> EquityOf(p, market), busy |-> {i \in Pairs : HasOpenOrderOn(p, i)}]

Reaction(bar, view) ==
  CASE trader = "cross"  -> CrossOnBar(state, bar, Traded, view)
    [] trader = "sized"  -> SizedOnBar(state, bar, Traded, view)
    [] trader = "follow" -> FollowOnBar(state, bar, view)

-----------------------------------------------------------------------------
(* The loop *)

\* route_pending and drain: each order gets the next id, and the venue's answer
\* to it is applied.
Routed(ready, orders) ==
  LET Submitted(r, order) ==
        LET answer == SwapSubmit(r.pool, Len(r.placed) + 1, order, Pairs)
        IN  [pool |-> answer.pool, placed |-> Append(r.placed, order),
             folio |-> Apply(r.folio, answer.event)]
  IN  FoldLeft(Submitted, ready, orders)

Settled(bar) == FoldLeft(Apply, folio, SwapFills(pool, bar))

Act(filled, bar, react) ==
  LET routed == Routed([pool |-> SwapLeft(pool, bar), placed |-> placed, folio |-> filled],
                       react.orders)
  IN  /\ state' = react.next
      /\ pool' = routed.pool /\ placed' = routed.placed /\ folio' = routed.folio

\* A bar: the venue's fills are drained, the market takes the bar, the strategy
\* reacts, its orders are routed and their answers drained, and equity is taken.
BarTurn(bar) ==
  /\ history' = ObserveBar(history, bar)
  /\ Act(Settled(bar), bar, Reaction(bar, View(Settled(bar), history')))
  /\ equity' = Append(equity, Marked(folio', history'))

\* A signal: the venue does not look at it and no callback runs.
SignalTurn(target) ==
  /\ history' = ObserveSignal(history, target.instrument, "Target", target.value)
  /\ UNCHANGED <<state, pool, folio, placed, equity>>

\* A feed of signals is of use to "follow" alone, and the crossovers are meant
\* for the bars of one instrument: they take every bar for theirs.
SessionNext ==
  /\ turns < MaxTurns
  /\ turns' = turns + 1
  /\ \/ \E bar \in SwapBars :
          (trader = "follow" \/ bar.instrument = Traded) /\ BarTurn(bar)
     \/ \E target \in Targets : trader = "follow" /\ SignalTurn(target)
  /\ UNCHANGED trader

-----------------------------------------------------------------------------
(* Properties *)

\* What a crossover carries from bar to bar is what a scan of the series gives:
\* the running sums are those of the last closes.
SumsScan ==
  LET Scan(window) ==
        FoldLeft(LAMBDA a, b : a + b, 0, LastN(ClosesOf(history, Traded), window))
  IN  trader \in {"cross", "sized"} =>
        state.fastSum = Scan(Fast) /\ state.slowSum = Scan(Slow)

\* Equity is the opening stake, what was realized after costs, and what is
\* unrealized, but for rounding: the portfolio, Ctx and the curve, which value
\* an account in three ways, agree after every event.
EquitySplits ==
  /\ EquityOf(folio, history) = Marked(folio, history)
  /\ EquityOf(folio, history)
       = Stake + RealizedNet(folio) + folio.rounding
           + MapThenSumSet(LAMBDA i : Unrealized(folio, history, i), Pairs)

\* What was asked for is what is held or on its way: positions and the orders
\* at the venue add up to the target each instrument was last moved to, no
\* order waits that the account does not list as open, and none is listed that
\* does not wait.  A strategy that asks has_open_order first never overshoots:
\* what it asked for in all is a target its signal had.
TargetsMet ==
  LET OnTheWay(i) == MapThenSumSet(
        LAMBDA n : IF pool[n].order.instrument = i THEN pool[n].order.side * pool[n].order.qty
                   ELSE 0, DOMAIN pool)
      Asked(i) == MapThenSumSet(
        LAMBDA id : IF placed[id].instrument = i THEN placed[id].side * placed[id].qty ELSE 0,
        DOMAIN placed)
  IN  /\ \A i \in Pairs : folio.positions[i].net + OnTheWay(i) = Asked(i)
      /\ folio.open = [n \in DOMAIN pool |-> pool[n].id]
      /\ \A n \in DOMAIN pool :
           pool[n].order.reduceOnly =>
             Abs(folio.positions[pool[n].order.instrument].net) >= pool[n].order.qty
      /\ trader = "follow" =>
           \A i \in Pairs : Asked(i) \in {0} \cup ToSet(SignalOf(history, i, "Target"))

\* A session over the market maker keeps its three books the same (the running
\* sums of sma-crossover, Ctx's view of the account, and the orders under way).
SessionAgrees == SumsScan /\ EquitySplits /\ TargetsMet
=============================================================================

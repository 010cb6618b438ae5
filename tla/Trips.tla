------------------------------- MODULE Trips --------------------------------
(***************************************************************************)
(* What is made of a run's fill log after the run: TradeStats::from_fills  *)
(* (akadro-analytics/src/trades.rs), which rebuilds the flat-to-flat       *)
(* trades, and replay_trades with diff_reports (akadro-backtest's          *)
(* replay.rs), which drives the fills through the engine once more.  Both  *)
(* do the portfolio's arithmetic a second time, from the log alone.  A     *)
(* liquidation is not in the log; the runs here have none.                 *)
(*                                                                         *)
(* In the replay each bar is flat at a recorded price and has one recorded *)
(* trade's order waiting for it, so the venue fills it there in full and   *)
(* the engine adds nothing: it is the portfolio folded over the trades.    *)
(***************************************************************************)
EXTENDS Portfolio, Functions, FiniteSets

CONSTANTS
  Markets,    \* instruments, numbered from 0 as in the code
  Deals,      \* a fill's price and quantity,
  Steps,      \*   and its time since the last
  FeeBps,     \* the taker fee
  MaxFills    \* bound on the log

ASSUME TripAssumption ==
  /\ Markets \subseteq Nat /\ IsFiniteSet(Markets)
  /\ \A d \in Deals : {d.price, d.qty} \subseteq Nat \ {0}
  /\ Steps \subseteq Nat
  /\ {FeeBps, MaxFills} \subseteq Nat

VARIABLES
  fills,       \* the portfolio's fill log
  account,     \* the portfolio
  trades,      \* TradeStats: the position in each instrument,
  pnls,        \*   and the profit of each trade that was closed
  lastTime     \* event time

tripVars == <<fills, account, trades, pnls, lastTime>>

FlatTrade == [net |-> 0, avg |-> 0, realized |-> 0, fees |-> 0]

TripInit ==
  /\ fills = << >> /\ pnls = << >> /\ lastTime = 0
  /\ account = OpenPortfolio(Markets, 0)
  /\ trades = [m \in Markets |-> FlatTrade]

-----------------------------------------------------------------------------
(* TradeStats                                                               *)

\* Position::apply, before the episode is closed.
Grown(t, f) ==
  LET signed == f.side * f.qty
  IN  [net |-> t.net + signed,
       avg |-> AvgAfter(t.net, t.avg, signed, f.price),
       realized |-> t.realized + RealizedBy(t.net, t.avg, signed, f.price),
       fees |-> t.fees + f.fee]

\* Seeded fault: the next trade begins with the fees of this one.
RestartedWithFees(t) == [t EXCEPT !.realized = 0]

Restarted(t) == [t EXCEPT !.realized = 0, !.fees = 0]

\* A trade is closed by the fill that makes its instrument flat.
Tally(f) ==
  LET after == Grown(trades[f.instrument], f)
  IN  IF after.net = 0
      THEN /\ pnls' = Append(pnls, after.realized - after.fees)
           /\ trades' = [trades EXCEPT ![f.instrument] = Restarted(after)]
      ELSE trades' = [trades EXCEPT ![f.instrument] = after] /\ UNCHANGED pnls

-----------------------------------------------------------------------------
(* The run that writes the log                                              *)

Charged(price, qty) == MulBps(Notional(price, qty), FeeBps)

\* TradeStats reads the log after the run; here, as it grows.
Fill ==
  /\ Len(fills) < MaxFills
  /\ \E m \in Markets, side \in {1, -1}, d \in Deals, step \in Steps :
       LET f == [type |-> "Fill", id |-> Len(fills) + 1, complete |-> TRUE,
                 instrument |-> m, side |-> side, price |-> d.price, qty |-> d.qty,
                 fee |-> Charged(d.price, d.qty), ts |-> lastTime + step]
       IN  /\ fills' = Append(fills, f)
           /\ account' = Apply(account, f)
           /\ Tally(f)
           /\ lastTime' = f.ts

-----------------------------------------------------------------------------
(* The replay                                                               *)

\* sorted_trades: by time, then instrument, and otherwise as they were.
SortsBefore(m, n) ==
  \/ fills[m].ts < fills[n].ts
  \/ /\ fills[m].ts = fills[n].ts
     /\ \/ fills[m].instrument < fills[n].instrument
        \/ fills[m].instrument = fills[n].instrument /\ m < n

PlaceOf(n) == Cardinality({m \in DOMAIN fills : SortsBefore(m, n)}) + 1

SortedTrades ==
  [k \in DOMAIN fills |-> fills[CHOOSE n \in DOMAIN fills : PlaceOf(n) = k]]

\* A bar before the first trade, then one for each, and the order for trade n is
\* submitted on bar n, the lead-in being the first.
Replayed ==
  LET sorted == SortedTrades
  IN  Replay(OpenPortfolio(Markets, 0),
             [k \in DOMAIN sorted |->
                [sorted[k] EXCEPT !.fee = Charged(sorted[k].price, sorted[k].qty)]])

\* diff_reports on the totals; its comparison fill by fill is of the same trades
\* under one sort.  Profit is compared where no liquidation is in it.
ReplayMatches ==
  LET replayed == Replayed
  IN  /\ replayed.tradingFees = SumFunctionOnSet([n \in DOMAIN fills |-> fills[n].fee], DOMAIN fills)
      /\ replayed.realized = account.realized

TripSpec == TripInit /\ [][Fill]_tripVars

-----------------------------------------------------------------------------
(* Properties *)

\* The trades rebuilt from the log account for all the money the portfolio
\* made: closed ones and open ones together are its realized profit less its
\* fees, and its positions are theirs, rounded alike.
TripsAccount ==
  /\ \A m \in Markets :
       account.positions[m] = [net |-> trades[m].net, avg |-> trades[m].avg]
  /\ SumFunctionOnSet(pnls, DOMAIN pnls)
       + SumFunctionOnSet([m \in Markets |-> trades[m].realized - trades[m].fees], Markets)
       = account.realized - account.tradingFees
  /\ \A m \in Markets \ account.held : trades[m] = FlatTrade

\* The fill log tells the same story as the account it came from (TradeStats,
\* and the replay as a regression oracle).
TripsReconcile == TripsAccount /\ ReplayMatches
=============================================================================

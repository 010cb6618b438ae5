----------------------------- MODULE Portfolio ------------------------------
(***************************************************************************)
(* The account as the strategy sees it, akadro-engine/src/portfolio.rs:    *)
(* positions, cash and working orders derived from account events alone.   *)
(* A portfolio is a record and Apply folds one event into it.  The fill    *)
(* log, which is append-only and read by nothing here, is left out; the    *)
(* field `rounding` is not the code's: it totals what rounding the average *)
(* entry price has added to the cost of what is held.                      *)
(***************************************************************************)
EXTENDS FixedPoint, Filtering

OpenPortfolio(instruments, initialCash) ==
  [cash |-> initialCash, realized |-> 0, tradingFees |-> 0, fundingNet |-> 0,
   liquidationPnl |-> 0, rounding |-> 0,
   positions |-> [i \in instruments |-> [net |-> 0, avg |-> 0]],
   held |-> {}, open |-> << >>]

\* A trade's effect on position, cash and fees.
Settle(p, e) ==
  LET pos    == p.positions[e.instrument]
      signed == e.side * e.qty
      net    == pos.net + signed
      avg    == IF signed = 0 THEN pos.avg
                ELSE AvgAfter(pos.net, pos.avg, signed, e.price)
  IN  [p EXCEPT
        !.positions[e.instrument] = [net |-> net, avg |-> avg],
        !.rounding = @ + IF Opens(pos.net, signed)
                         THEN net * avg - pos.net * pos.avg - signed * e.price ELSE 0,
        !.realized = @ + RealizedBy(pos.net, pos.avg, signed, e.price),
        !.held = IF (pos.net # 0) = (net # 0) THEN @
                 ELSE IF net # 0 THEN @ \cup {e.instrument} ELSE @ \ {e.instrument},
        !.cash = @ - e.side * Notional(e.price, e.qty) - e.fee,
        !.tradingFees = @ + e.fee]

OpenOrder(p, id)  == [p EXCEPT !.open = Append(@, id)]
CloseOrder(p, id) ==
  [p EXCEPT !.open = Keep(@, {p.open[n] : n \in DOMAIN p.open} \ {id})]

\* Seeded fault: a completed order stays in the open set.
ApplyFillOnly(p, e) == Settle(p, e)

ApplyFill(p, e) ==
  LET settled == Settle(p, e)
  IN  IF e.complete THEN CloseOrder(settled, e.id) ELSE settled

\* A forced close moves the account like a fill and is tallied apart.
ApplyLiquidation(p, e) ==
  LET settled == Settle(p, e)
  IN  [settled EXCEPT !.liquidationPnl = @ + (settled.realized - p.realized)]

ApplyFunding(p, e) == [p EXCEPT !.cash = @ - e.cost, !.fundingNet = @ + e.cost]

Apply(p, e) ==
  CASE e.type = "Fill"              -> ApplyFill(p, e)
    [] e.type = "OrderAccepted"     -> OpenOrder(p, e.id)
    [] e.type \in {"OrderCanceled", "OrderRejected", "OrderExpired"}
                                    -> CloseOrder(p, e.id)
    [] e.type = "Liquidation"       -> ApplyLiquidation(p, e)
    [] e.type = "FundingSettlement" -> ApplyFunding(p, e)
    [] OTHER                        -> p

\* The account once the first n of `events` have been delivered, as a function
\* of n, and once all of them have.
ReplayedPrefix(p, events) ==
  LET after[n \in 0..Len(events)] ==
        IF n = 0 THEN p ELSE Apply(after[n - 1], events[n])
  IN  after

Replay(p, events) == ReplayedPrefix(p, events)[Len(events)]
=============================================================================

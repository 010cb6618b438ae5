----------------------------- MODULE LiveOrders -----------------------------
(***************************************************************************)
(* Orders at a live venue: a connector's signed REST submit and, for MEXC  *)
(* spot, its poll of the orders that work (client.rs); the thread that     *)
(* reads the user-data socket (binance.rs, mexc.rs of akadro-live); and    *)
(* ChannelExec (channel_exec.rs), which hands what both report to the      *)
(* engine.  The account is the module Portfolio.                           *)
(*                                                                         *)
(* Every order buys Lots of one instrument, one lot a trade.  The venue's  *)
(* book and what it sends on the socket are outside the repository.  Sends *)
(* within one observe or submit are drained into the portfolio as they are *)
(* emitted: the order of callbacks in a drain is EngineLoop's subject.     *)
(***************************************************************************)
EXTENDS OrderWire, Portfolio, SequencesExt

CONSTANTS
  Requests,    \* the orders the strategy may send, by client
  MaxOrders,   \* bound on how many
  Lots,        \* the quantity of each
  Prices       \* bound: the price of an order's first trade, its second, ...

ASSUME OrdersAssumption ==
  /\ Requests \in [Clients -> SUBSET OrderRequest]
  /\ MaxOrders \in Nat /\ Lots \in Nat \ {0}
  /\ Prices \in Seq(Nat) /\ Len(Prices) = Lots

VARIABLES
  client,      \* the inner ExecutionClient
  placed,      \* ids handed out: 1..placed
  asked,       \* what each asked for
  book,        \* the venue's orders
  userLink,    \* the user-data socket is open
  userWire,    \* reports on it, not read
  fills,       \* ChannelExec.fills
  pending,     \* MexcSpotExec.pending
  still,       \*   and the orders its poll has kept so far
  stage,       \* where the engine stands: "waiting" for the source, ...
  account,     \* the portfolio
  unanswered   \* history: orders the venue took whose acknowledgement was lost

venueSide  == <<book, userLink, userWire>>
clientSide == <<fills, pending, still>>
orderVars  == <<client, placed, asked, venueSide, clientSide, stage, account, unanswered>>

Coin == "coin"
Ids  == 1..MaxOrders

\* `took`, what an order executed on its arrival, is kept for a property.
Unplaced  == [status |-> "none", executed |-> 0, quote |-> 0, took |-> 0]
NoRequest == [kind |-> "none", tif |-> "Gtc", postOnly |-> FALSE, reduceOnly |-> FALSE]

\* Of the user-data sockets akadro-live has readers for two.
Streams == {"binance", "mexc"}

OrdersInit(clients) ==
  /\ client \in clients
  /\ placed = 0
  /\ asked = [id \in Ids |-> NoRequest]
  /\ book = [id \in Ids |-> Unplaced]
  /\ userLink = (client \in Streams) /\ userWire = << >>
  /\ fills = << >> /\ pending = << >> /\ still = << >>
  /\ stage = "deciding"
  /\ account = OpenPortfolio({Coin}, 0)
  /\ unanswered = {}

Accepted(id) == [type |-> "OrderAccepted", id |-> id]
Rejected(id) == [type |-> "OrderRejected", id |-> id]
Canceled(id) == [type |-> "OrderCanceled", id |-> id]
Expired(id)  == [type |-> "OrderExpired", id |-> id]
Fill(id, price, qty, complete) ==
  [type |-> "Fill", id |-> id, instrument |-> Coin, side |-> 1, price |-> price,
   qty |-> qty, fee |-> 0, complete |-> complete]

-----------------------------------------------------------------------------
(* The venue                                                                *)

\* How many trades an order may meet when it arrives.
Arrivals(meaning) ==
  CASE meaning = "market"         -> {Lots}
    [] meaning = "fok"            -> {0, Lots}
    [] meaning \in {"ioc", "gtc"} -> 0..Lots
    [] meaning = "maker"          -> {0}

StatusAfter(meaning, executed) ==
  IF executed = Lots THEN "filled"
  ELSE IF meaning \in {"gtc", "maker"} THEN "working" ELSE "expired"

\* The reports of the account's own orders; MEXC's channel has its deals only.
\* An order is reported under the tag that its submit gave it.
Report(exec, id, price, status) ==
  [exec |-> exec, id |-> id, price |-> price, status |-> status,
   tag |-> IF client = "mexc" THEN "akadro-" ELSE "ak"]

Sent(reports) ==
  IF ~userLink THEN << >>
  ELSE IF client = "mexc" THEN Keep(reports, {r \in Range(reports) : r.exec = "TRADE"})
  ELSE reports

TradeReport(id, executed) ==
  Report("TRADE", id, Prices[executed], IF executed = Lots THEN "FILLED" ELSE "PARTIALLY_FILLED")

\* A new order reports itself, its trades, and that its rest has expired.
ArrivalReports(id, trades, status) ==
  <<Report("NEW", id, 0, "NEW")>>
    \o [n \in 1..trades |-> TradeReport(id, n)]
    \o (IF status = "expired" THEN <<Report("EXPIRED", id, 0, "EXPIRED")>> ELSE << >>)

\* A working order meets another trade.
VenueTrades(id) ==
  /\ book[id].status = "working"
  /\ LET executed == book[id].executed + 1
     IN  /\ book' = [book EXCEPT
              ![id] = [book[id] EXCEPT !.status = StatusAfter("gtc", executed),
                                       !.executed = executed,
                                       !.quote = book[id].quote + Prices[executed]]]
         /\ userWire' = userWire \o Sent(<<TradeReport(id, executed)>>)
  /\ UNCHANGED <<client, placed, asked, userLink, clientSide, stage, account, unanswered>>

\* The venue, or the account's owner at its site, cancels what is left.
VenueCancels(id) ==
  /\ book[id].status = "working"
  /\ book' = [book EXCEPT ![id].status = "canceled"]
  /\ userWire' = userWire \o Sent(<<Report("CANCELED", id, 0, "CANCELED")>>)
  /\ UNCHANGED <<client, placed, asked, userLink, clientSide, stage, account, unanswered>>

\* The user-data socket is lost for good, with some of what is on it: nothing
\* opens it again, and a listen key that is not renewed ends it too.
UserLinkDrops ==
  /\ userLink
  /\ userLink' = FALSE
  /\ \E n \in 0..Len(userWire) : userWire' = SubSeq(userWire, 1, n)
  /\ UNCHANGED <<client, placed, asked, book, clientSide, stage, account, unanswered>>

-----------------------------------------------------------------------------
(* The thread that reads the user-data socket                               *)

\* Seeded fault: the REST client's own spelling of a tag is understood as well.
TaggedEither(r) == r.tag \in {"ak", "akadro-"}

\* parse_client_order_tag, in ws.rs of both venues: "ak" and a number.
Tagged(r) == r.tag = "ak"

\* Seeded fault: a trade is taken for the last one of its order.
AccountEventComplete(r) ==
  CASE r.exec = "NEW"   -> Accepted(r.id)
    [] r.exec = "TRADE" -> Fill(r.id, r.price, 1, TRUE)
    [] r.exec \in {"CANCELED", "EXPIRED"} -> Canceled(r.id)

\* to_account_event of Binance and to_fill of MEXC, which cannot tell from a
\* deal whether it is the last one.
AccountEvent(r) ==
  CASE r.exec = "NEW"   -> Accepted(r.id)
    [] r.exec = "TRADE" -> Fill(r.id, r.price, 1, client = "binance" /\ r.status = "FILLED")
    [] r.exec \in {"CANCELED", "EXPIRED"} -> Canceled(r.id)

ReadReport ==
  /\ userWire # << >>
  /\ userWire' = Tail(userWire)
  /\ fills' = IF Tagged(Head(userWire)) THEN Append(fills, AccountEvent(Head(userWire))) ELSE fills
  /\ UNCHANGED <<client, placed, asked, book, userLink, pending, still, stage, account, unanswered>>

-----------------------------------------------------------------------------
(* submit                                                                   *)

NextId == placed + 1

Places(o) ==
  /\ stage = "deciding" /\ placed < MaxOrders
  /\ placed' = NextId
  /\ asked' = [asked EXCEPT ![NextId] = o]

\* The connector itself, or the venue, refuses the order, or the request is
\* lost on its way.  An account that is flat or long has nothing to reduce by
\* buying.
SubmitRefused ==
  \E o \in Requests[client] :
    /\ Places(o)
    /\ account' = Apply(account, Rejected(NextId))
    /\ UNCHANGED <<client, venueSide, clientSide, stage, unanswered>>

NewPending(id) == [id |-> id, filled |-> 0, quote |-> 0]

\* The venue takes the order and trades what it can.  When the answer is lost
\* the connector reports a rejection: it cannot tell this from the above.
SubmitTaken ==
  \E o \in Requests[client] :
    /\ Places(o)
    /\ ~Contradiction(client, o)
    /\ LET fields  == Fields(client, o)
           meaning == Meaning(client, fields)
       IN  /\ ~OnlyReduces(client, fields)
           /\ \E trades \in Arrivals(meaning) :
                LET status == StatusAfter(meaning, trades)
                IN  /\ book' = [book EXCEPT
                         ![NextId] = [status |-> status, executed |-> trades, took |-> trades,
                                      quote |-> SumFunctionOnSet(Prices, 1..trades)]]
                    /\ userWire' = userWire \o Sent(ArrivalReports(NextId, trades, status))
    /\ \/ /\ account' = Apply(account, Accepted(NextId))
          /\ pending' = IF client = "mexc" THEN Append(pending, NewPending(NextId)) ELSE pending
          /\ UNCHANGED unanswered
       \/ /\ account' = Apply(account, Rejected(NextId))
          /\ unanswered' = unanswered \cup {NextId}
          /\ UNCHANGED pending
    /\ UNCHANGED <<client, userLink, fills, still, stage>>

-----------------------------------------------------------------------------
(* observe, at a bar                                                        *)

\* Seeded fault: what an expired order leaves is polled as if it still worked.
TerminalButExpired(status) == status \in {"filled", "canceled"}

\* OrderStatus::is_terminal
Terminal(status) == status \in {"filled", "canceled", "expired"}

\* Seeded fault: the whole quote is divided by the latest trades.
MarginalPriceOfAll(p) == book[p.id].quote \div (book[p.id].executed - p.filled)

\* What the latest trades cost, divided by what they bought and rounded down.
MarginalPrice(p) == (book[p.id].quote - p.quote) \div (book[p.id].executed - p.filled)

\* What a poll that is answered makes of order p.
PollEvents(p) ==
  LET o == book[p.id]
      traded == IF o.executed = p.filled THEN << >>
                ELSE <<Fill(p.id, MarginalPrice(p), o.executed - p.filled, o.executed >= Lots)>>
      ended  == IF ~Terminal(o.status) THEN << >>
                ELSE CASE o.status = "canceled" -> <<Canceled(p.id)>>
                       [] o.status = "expired"  -> <<Expired(p.id)>>
                       [] o.status = "filled"   -> << >>
  IN  traded \o ended

Polled(p) == [p EXCEPT !.filled = book[p.id].executed, !.quote = book[p.id].quote]

PollOk ==
  /\ stage = "polling" /\ pending # << >>
  /\ LET p == Head(pending)
     IN  /\ account' = Replay(account, PollEvents(p))
         /\ still' = IF Terminal(book[p.id].status) THEN still ELSE Append(still, Polled(p))
  /\ pending' = Tail(pending)
  /\ UNCHANGED <<client, placed, asked, venueSide, fills, stage, unanswered>>

\* Asked again at the next bar.
PollFails ==
  /\ stage = "polling" /\ pending # << >>
  /\ still' = Append(still, Head(pending))
  /\ pending' = Tail(pending)
  /\ UNCHANGED <<client, placed, asked, venueSide, fills, stage, account, unanswered>>

PollDone ==
  /\ stage = "polling" /\ pending = << >>
  /\ pending' = still /\ still' = << >>
  /\ stage' = "draining"
  /\ UNCHANGED <<client, placed, asked, venueSide, fills, account, unanswered>>

\* ChannelExec takes what has arrived until it finds the channel empty.
DrainFill ==
  /\ stage = "draining" /\ fills # << >>
  /\ account' = Apply(account, Head(fills))
  /\ fills' = Tail(fills)
  /\ UNCHANGED <<client, placed, asked, venueSide, pending, still, stage, unanswered>>

DrainDone ==
  /\ stage = "draining" /\ fills = << >>
  /\ stage' = "deciding"
  /\ UNCHANGED <<client, placed, asked, venueSide, clientSide, account, unanswered>>

\* The inner client is MEXC's, or one whose observe does nothing.
ObserveStage(bar) ==
  IF ~bar THEN "deciding" ELSE IF client = "mexc" THEN "polling" ELSE "draining"

Orders ==
  \/ SubmitRefused \/ SubmitTaken
  \/ PollOk \/ PollFails \/ PollDone \/ DrainFill \/ DrainDone
Venue ==
  \/ UserLinkDrops
  \/ \E id \in Ids : VenueTrades(id) \/ VenueCancels(id)

-----------------------------------------------------------------------------
(* Properties                                                               *)

PlacedIds == 1..placed

\* What is on its way to the portfolio: on the socket and in the channel (a
\* report under a tag that is not understood changes nothing), ...
EventOf(r) == IF Tagged(r) THEN AccountEvent(r) ELSE [type |-> "Ignored"]
EventsOf(reports) == [n \in DOMAIN reports |-> EventOf(reports[n])]

Arrived == Replay(account, fills \o EventsOf(userWire))

\* ... and at the venue, not yet polled.
PolledPrefix(p, orders) ==
  LET after[n \in 0..Len(orders)] ==
        IF n = 0 THEN p ELSE Replay(after[n - 1], PollEvents(orders[n]))
  IN  after

\* The account once all of it has come.
CaughtUp == PolledPrefix(Arrived, pending \o still)[Len(pending \o still)]

\* Binance's stream tells of every order, while it lasts; MEXC's poll tells of
\* those it has an answer to; of the rest nothing is known.
Known ==
  CASE client = "binance" -> IF userLink THEN PlacedIds ELSE {}
    [] client = "mexc"    -> PlacedIds \ unanswered
    [] OTHER              -> {}

Executed(ids) == SumFunctionOnSet([id \in Ids |-> book[id].executed], ids)
Spent(ids)    == SumFunctionOnSet([id \in Ids |-> book[id].quote], ids)

\* Every trade reaches the account exactly once: with what is on its way it
\* holds what the known orders have bought, and it never holds more than all of
\* them have.  It has paid what the trades cost, but that MEXC's poll rounds the
\* price of several trades down and then pays up to a unit a lot too little
\* (MexcSpotExec::observe, to_account_event, to_fill, ChannelExec::observe).
PositionTrue ==
  /\ account.positions[Coin].net <= Executed(PlacedIds)
  /\ client \in {"binance", "mexc"} /\ (client = "binance" => userLink) =>
       LET net   == CaughtUp.positions[Coin].net
           short == CaughtUp.cash + Spent(Known)
       IN  /\ net = Executed(Known)
           /\ short \in 0..(IF client = "mexc" THEN net ELSE 0)

\* The working orders the engine shows its strategy are, when what is on its
\* way has come, those that work at the venue: none is lost by a partial fill,
\* a failed poll, or a lost answer that the stream makes good, and none is left
\* over from an order that was filled, cancelled or expired.
OpenTrue ==
  client \in {"binance", "mexc"} /\ (client = "binance" => userLink) =>
    {id \in PlacedIds : Contains(CaughtUp.open, id)}
      = {id \in Known : book[id].status = "working"}

\* No connector changes what an order may do: what rests at a venue was asked
\* to rest - as a limit good till cancelled, or as a post-only limit, whose time
\* in force they all drop -, a post-only order never took on its arrival, and
\* one that may only reduce never bought (submit of all connectors).
IntentKept ==
  \A id \in PlacedIds :
    LET o == asked[id]
    IN  /\ book[id].status \in {"working", "canceled"}
             => o.kind = "Limit" /\ (o.tif = "Gtc" \/ o.postOnly)
        /\ o.tif = "Fok" /\ o.kind = "Limit" /\ ~o.postOnly
             => book[id].executed \in {0, Lots}
        /\ o.postOnly => book[id].took = 0 /\ book[id].status # "expired"
        /\ o.reduceOnly => book[id].executed = 0
=============================================================================

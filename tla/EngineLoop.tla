----------------------------- MODULE EngineLoop -----------------------------
(***************************************************************************)
(* Engine::run_observed (akadro-engine/src/engine.rs) driving the          *)
(* simulated venue: the source delivers an event, the venue observes it,   *)
(* its account events are drained into the portfolio and the strategy, due *)
(* timers fire, the strategy sees the bar, and what it asked for is routed *)
(* and drained in its turn.                                                *)
(*                                                                         *)
(* The strategy may do anything a callback can: every callback queues one  *)
(* of Reactions and may set a timer.  drain walks the sink with an index   *)
(* and clears it at the end; here it consumes the head, the same walk.     *)
(* The loop is sequential: `phase` says where in its body it is.           *)
(***************************************************************************)
EXTENDS SimulatedExchange, Portfolio, SequencesExt

CONSTANTS
  InitialCash,  \* the cash the portfolio opens with
  Notices,      \* the events other than bars the source may deliver
  MaxCancels,   \* bound: cancellations the strategy requests in a run
  MaxTimers,    \* bound: timers it sets
  MaxEvents     \* bound: events the source delivers

ASSUME EngineAssumption ==
  /\ InitialCash \in Int
  /\ 0 \notin Ids /\ IsFiniteSet(Instruments)
  /\ Notices \subseteq {"Signal", "Resync"}
  /\ MaxCancels \in Nat /\ MaxTimers \in Nat /\ MaxEvents \in Nat

VARIABLES
  phase,      \* where run_observed is
  event,      \* the kind of event it handles, and its instrument
  now,        \* event time
  portfolio,
  commands,   \* OrderGate.pending: submissions and cancellations, oldest first
  issued,     \* OrderGate.next_id: ids handed out
  timers,     \* OrderGate.timers, with the event count when each was set
  due,        \* timers taken and not yet fired
  market,     \* bars of each instrument the strategy has been shown
  delivered,  \* events the source has delivered
  requested   \* cancellations and timers requested (bounds the run)

gate == <<commands, issued, timers, requested>>
engineVars == <<phase, event, now, portfolio, gate, due, market, delivered>>
allVars == <<vars, engineVars>>

NoEvent   == [type |-> "None", instrument |-> None]
BarOf(b)  == [type |-> "Bar", instrument |-> b.instrument]
Notice(n) == [type |-> n, instrument |-> None]
EndOfFeed == [type |-> "End", instrument |-> None]
Resync    == [type |-> "Resync"]

EngineInit ==
  /\ Init
  /\ phase = "start" /\ event = NoEvent /\ now = 0
  /\ portfolio = OpenPortfolio(Instruments, InitialCash)
  /\ commands = << >> /\ issued = 0 /\ timers = << >> /\ due = << >>
  /\ requested = [cancels |-> 0, timers |-> 0]
  /\ market = [i \in Instruments |-> 0]
  /\ delivered = 0

-----------------------------------------------------------------------------
(* A strategy callback *)

Submission(id, o) == [type |-> "Submit", id |-> id, request |-> o]
Cancellation(id)  == [type |-> "Cancel", id |-> id]
IsSubmission(c)   == c.type = "Submit"

Enqueue(actions) ==
  /\ commands' = commands \o actions
  /\ issued' = issued + Cardinality({n \in DOMAIN actions : IsSubmission(actions[n])})

\* Nothing; an order; a cancellation of any order the strategy knows, live or
\* not; or replace_order, a cancellation and an order.
QueueActions ==
  LET cancels == IF requested.cancels < MaxCancels
                 THEN {Cancellation(id) : id \in {i \in Ids : i <= issued}} ELSE {}
      submits == {Submission(issued + 1, o) : o \in IF issued + 1 \in Ids THEN Requests ELSE {}}
  IN  \E actions \in {<< >>} \cup {<<a>> : a \in cancels \cup submits}
                     \cup {<<c, s>> : c \in cancels, s \in submits} :
        /\ Enqueue(actions)
        /\ requested' = [requested EXCEPT
             !.cancels = @ + Cardinality({n \in DOMAIN actions : ~IsSubmission(actions[n])})]
        /\ UNCHANGED timers

\* schedule: a timer for now or later.
SetTimer ==
  /\ requested.timers < MaxTimers
  /\ requested' = [requested EXCEPT !.timers = @ + 1]
  /\ \E at \in now..now + 1 :
       timers' = Append(timers, [at |-> at, setAt |-> delivered])
  /\ UNCHANGED <<commands, issued>>

Callback == QueueActions \/ SetTimer

-----------------------------------------------------------------------------
(* Routing and draining *)

Drains == {"reacting", "acting"}

\* Seeded fault: taking the queue loses what is behind its first action.
RouteFirstOnly ==
  /\ phase \in Drains /\ commands # << >>
  /\ LET action == Head(commands)
     IN  \/ action.type = "Submit" /\ Submit(action.id, action.request)
         \/ action.type = "Cancel" /\ Cancel(action.id)
  /\ commands' = << >>
  /\ UNCHANGED <<phase, event, now, portfolio, issued, timers, requested, due,
                 market, delivered>>

\* route_pending, one queued action.
Route ==
  /\ phase \in Drains /\ commands # << >>
  /\ LET action == Head(commands)
     IN  \/ action.type = "Submit" /\ Submit(action.id, action.request)
         \/ action.type = "Cancel" /\ Cancel(action.id)
  /\ commands' = Tail(commands)
  /\ UNCHANGED <<phase, event, now, portfolio, issued, timers, requested, due,
                 market, delivered>>

\* One turn of drain's loop: the event is applied to the portfolio, then the
\* strategy is told of it.  What it then queues is routed before the next.
Deliver ==
  /\ \/ phase \in Drains /\ commands = << >> /\ UNCHANGED phase
     \/ phase = "resync" /\ phase' = "acting"
  /\ sink # << >>
  /\ portfolio' = Apply(portfolio, Head(sink))
  /\ sink' = Tail(sink)
  /\ Callback
  /\ UNCHANGED <<resting, orders, shadow, cash, observing, ledger, seen>>
  /\ UNCHANGED <<event, now, due, market, delivered>>

Drained == phase \in Drains /\ commands = << >> /\ sink = << >>

-----------------------------------------------------------------------------
(* The loop *)

OnStart ==
  /\ phase = "start"
  /\ Callback
  /\ phase' = "acting"
  /\ UNCHANGED <<vars, event, now, portfolio, due, market, delivered>>

\* The source's next event, at the same time as the last one or later.
Arrives(e) ==
  /\ phase = "feed" /\ delivered < MaxEvents
  /\ event' = e
  /\ now' \in now..now + 1
  /\ delivered' = delivered + 1

\* drain_due_timers, in event-time order.
TakeDueTimers(time) ==
  LET waiting == {t \in Range(timers) : t.at > time}
      earlier(s, t) == s.at < t.at
  IN  /\ due' = SortSeq(Keep(timers, Range(timers) \ waiting), earlier)
      /\ timers' = Keep(timers, waiting)
      /\ UNCHANGED <<commands, issued, requested>>

BarArrives ==
  /\ \E b \in Bars : BeginObserve(b) /\ Arrives(BarOf(b))
  /\ phase' = "observing"
  /\ UNCHANGED <<portfolio, gate, due, market>>

\* The venue's observe, to its end.
VenueObserves ==
  /\ phase = "observing"
  /\ Observing
  /\ phase' = IF bar' = None THEN "reacting" ELSE phase
  /\ UNCHANGED <<event, now, portfolio, gate, due, market, delivered>>

\* Seeded fault: the market is not pushed before the strategy is called.
PushBarLater ==
  /\ Drained /\ phase = "reacting"
  /\ TakeDueTimers(now)
  /\ phase' = "timers"
  /\ UNCHANGED <<vars, event, now, portfolio, delivered, market>>

\* The fills are drained: the market takes the bar, and due timers fire.
PushBar ==
  /\ Drained /\ phase = "reacting"
  /\ market' = [market EXCEPT ![event.instrument] = @ + 1]
  /\ TakeDueTimers(now)
  /\ phase' = "timers"
  /\ UNCHANGED <<vars, event, now, portfolio, delivered>>

\* The venue does not react to a signal or a resync; a resync is pushed for
\* the strategy and delivered after the timers.
NoticeArrives ==
  /\ \E n \in Notices : Arrives(Notice(n))
  /\ sink' = IF event'.type = "Resync" THEN Append(sink, Resync) ELSE sink
  /\ TakeDueTimers(now')
  /\ phase' = "timers"
  /\ UNCHANGED <<resting, orders, shadow, cash, observing, ledger, seen>>
  /\ UNCHANGED <<portfolio, market>>

FeedEnds ==
  /\ phase = "feed"
  /\ event' = EndOfFeed
  /\ TakeDueTimers(now)
  /\ phase' = "timers"
  /\ UNCHANGED <<vars, now, portfolio, market, delivered>>

\* Seeded fault: the timer that fires stays among those to fire.
FireTimerAgain ==
  /\ phase = "timers" /\ due # << >>
  /\ due' = due
  /\ Callback
  /\ UNCHANGED <<vars, phase, event, now, portfolio, market, delivered>>

\* on_timer; a timer it sets for a time already due waits for the next sweep.
FireTimer ==
  /\ phase = "timers" /\ due # << >>
  /\ due' = Tail(due)
  /\ Callback
  /\ UNCHANGED <<vars, phase, event, now, portfolio, market, delivered>>

TimersFired == phase = "timers" /\ due = << >>

\* on_bar or on_stop; what timers and it queued is then routed and drained.
OnBarOrStop ==
  /\ TimersFired /\ event.type \in {"Bar", "End"}
  /\ Callback
  /\ phase' = "acting"
  /\ UNCHANGED <<vars, event, now, portfolio, due, market, delivered>>

AfterNotice ==
  /\ TimersFired /\ event.type \in Notices
  /\ phase' = IF event.type = "Resync" THEN "resync" ELSE "acting"
  /\ UNCHANGED <<vars, event, now, portfolio, gate, due, market, delivered>>

NextTurn ==
  /\ Drained /\ phase = "acting"
  /\ phase' = IF event.type = "End" THEN "done" ELSE "feed"
  /\ UNCHANGED <<vars, event, now, portfolio, gate, due, market, delivered>>

Steps ==
  \/ OnStart \/ BarArrives \/ VenueObserves \/ PushBar
  \/ NoticeArrives \/ FeedEnds \/ FireTimer \/ OnBarOrStop \/ AfterNotice
  \/ Route \/ Deliver \/ NextTurn

EngineNext == Steps \/ (phase = "done" /\ UNCHANGED allVars)

EngineSpec == EngineInit /\ [][EngineNext]_allVars

\* run_observed is one thread and none of its calls blocks on another: while
\* it has a step to take it takes it.
FairEngineSpec == EngineSpec /\ WF_allVars(Steps)

-----------------------------------------------------------------------------
(* Properties *)

\* The account once the events under way have been delivered.
CaughtUp == Replay(portfolio, sink)

\* The account the strategy reads is the venue's once the events under way
\* have been delivered: same positions and averages, same cash, and the open
\* orders are exactly those on the venue's book.  Neither side ever asks the
\* other, so each event has to say enough, in the right order.
MirrorsAgree ==
  Idle =>
    /\ \A i \in Instruments :
         CaughtUp.positions[i] = [net |-> shadow[i].net, avg |-> shadow[i].avg]
    /\ cash # None => CaughtUp.cash = cash
    /\ Range(CaughtUp.open) = OnBook
    /\ Len(CaughtUp.open) = Cardinality(OnBook)

\* Money is neither created nor lost: at every moment, cash and the cost of
\* what is held are the opening cash plus realized profit, less fees and
\* funding, but for the rounding of average prices; through partial fills,
\* flips, funding and liquidations, each told by an event of its own.
CashReconciles ==
  LET costs == [i \in Instruments |-> portfolio.positions[i].net * portfolio.positions[i].avg]
  IN  portfolio.cash + SumFunctionOnSet(costs, Instruments)
        = InitialCash + portfolio.realized - portfolio.tradingFees
            - portfolio.fundingNet + portfolio.rounding

\* When equity is marked (and on_bar reads it) every position held has a bar
\* to be marked at: what mark_to_market asserts.
HeldHasMark ==
  phase \in {"timers", "acting", "feed"} =>
    \A i \in portfolio.held : market[i] > 0

\* No timer is lost: once an event has been handled, every timer due by then
\* that was set before it has fired, whatever kind of event it was.
DueTimersFire ==
  phase \in {"feed", "done"} =>
    \A n \in DOMAIN timers : timers[n].at <= now => timers[n].setAt = delivered

\* The ids a run hands out are those the venue meets, in order: an order the
\* strategy was given an id for is queued or known to the venue, never lost.
NoOrderLost ==
  \A id \in Ids :
    id <= issued <=> \/ ledger[id].stage # "unused"
                     \/ \E n \in DOMAIN commands : IsSubmission(commands[n])
                                                   /\ commands[n].id = id

\* Nothing the strategy asks for from inside a callback is lost, wherever in the
\* loop the callback runs (take_pending and route_pending, drain_due_timers).
NothingLost == DueTimersFire /\ NoOrderLost

\* A feed that ends is a run that ends: no drain, route or observe loop runs
\* for ever, or waits for what does not come.
Terminates == <>(phase = "done")

-----------------------------------------------------------------------------
(* What the repository says of the engine and the code does not keep *)

\* Ctx::has_open_order, as a callback evaluates it.
HasOpenOrder(i) ==
  \/ \E n \in DOMAIN portfolio.open : orders[portfolio.open[n]].order.instrument = i
  \/ \E n \in DOMAIN commands : IsSubmission(commands[n])
                                 /\ commands[n].request.instrument = i

\* has_open_order's documentation: it also counts an order not yet
\* acknowledged, so a strategy that asks cannot submit twice before the
\* acknowledgement arrives.  Whenever drain calls the strategy back, an
\* instrument with an order on the venue's book then has an open order.
OpenOrderIsVisible ==
  [][Deliver /\ commands' = << >> => \A id \in OnBook : HasOpenOrder(orders[id].order.instrument)']_allVars
=============================================================================

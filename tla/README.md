# Akadro: specification, model checking and proofs

TLA+ models of the akadro trading framework: a single-threaded event loop that
drives a trading strategy, a deterministic simulated exchange it is backtested
against, a cache that downloads and stores market history, the data and research
tools around a backtest, and a live transport that replaces source and venue
without the strategy noticing.

## 1. The system

| Part (crate) | State | Operations | Modelled by |
|---|---|---|---|
| Simulated venue (`akadro-backtest/exchange.rs`) | resting orders, shadow positions, cash, PRNG | `submit`, `cancel`, `observe(bar)` | `SimulatedExchange`, `FillRules`, `OrderLife` |
| Arithmetic (`akadro-core/fixed.rs`) | none | notional, basis points, rounding | `FixedPoint` |
| Portfolio (`akadro-engine/portfolio.rs`) | positions, cash, realized profit, fees, open ids | `apply(event)` | `Portfolio` |
| Engine loop (`engine.rs`, `context.rs`) | command queue, id counter, timers, event sink, clock, market | `run`, `drain`, `route_pending`, `fire_due_timers`, the `Ctx` calls | `EngineLoop` |
| Bar cache (`akadro-data/load.rs`, `manifest.rs`, `gap.rs`, `incremental.rs`) | chunk files, manifest, journals | recover, plan, fetch, record, assemble | `BarManifest`, `KlineFeed`, `BarCache` |
| Partition cache (`akadro-data/bars.rs`, the connectors' feeds and transports) | one file per path | `load_or_cache`, `load_or_cache_many`, a feed's requests | `PartitionCache` |
| Catalogue resolution (`akadro/data/venues.rs`, each connector's catalogue) | the venue's listing; the tags of the cached files | `resolve`, `load` | `Catalog` |
| Batch loading, pacing, merging (`concurrent.rs`, `ratelimit.rs`, `merge.rs`) | next free instant; workers; heads and tree | `load_many`, `acquire`, `next_event` | `BatchLoad`, `Tournament`, `BatchFeed` |
| Perpetuals' funding (`perp.rs`, `funding.rs`, `venues.rs`, connectors) | the cached schedule, the paging cursor | fetch, cache, `load_perp` | `PerpData` |
| Resampling (`trades.rs`, `load.rs`) | the open bucket | `bars_from_trades`, `aggregate_bars`, `load_aggregated` | `Resample` |
| Indicators (`akadro-indicators`) | windows, sums, deques, averages | `update` | `Indicators` |
| Walk-forward, splits (`akadro-analytics`, `walk_forward_run.rs`) | fold number, fitted state, pooled results | windows, fit, evaluate, pool | `WalkForward` |
| Trades from the fill log, replay (`akadro-analytics/trades.rs`, `replay.rs`) | net, average, open trade | `from_fills`, `replay_trades` | `Trips` |
| Live transport (`akadro-live/bridge.rs`, `reconnect.rs`, `channel_exec.rs`) | bounded queue and overflow flag; connection; fill channel | send, next, observe | `LiveFeed`, `LiveOrders`, `LiveSession` |
| Order entry and fills of the connectors, user-data sockets | pending orders, reports | `submit`, poll, parse | `OrderWire`, `LiveOrders` |
| Market history (`market.rs`, `series.rs`) | bars and signals observed | `push`, `push_signal`, `latest`, `ago` | `MarketHistory` |
| Automated market maker (`akadro-venue-dex`) | orders waiting for a bar | `submit`, `observe` | `SwapVenue` |
| Sample strategies (`sma-crossover`, `playground`) | running sums, the last comparison | `on_bar` | `Crossover`, `SwapSession` |
| Terminal, compile-time tests | none | views | not modelled |

**How they interact.** The engine pulls an event from a source. A bar goes to
the venue first: `observe` may fill, cancel or expire resting orders and emits
account events into a sink. `drain` walks the sink: each event is applied to the
portfolio, then the strategy's callbacks for it run; whatever those queue is
routed to the venue at once, which may append more events to the same sink.
Then the bar is pushed to the market, due timers fire, `on_bar` runs, and what
both queued is routed and drained. The venue never asks the portfolio, nor the
portfolio the venue: they agree only through the events.

In a backtest the source is loaded bars: a symbol is resolved against the
venue's listing, its bars are taken from the cache directory or downloaded into
it, several series are loaded by worker threads that share one rate limiter, and
a tournament tree merges them. In a live session a producer thread reads a
socket into a bounded bridge, the source reopens sockets as they end, another
thread reads account reports into a channel, and the execution client surfaces
them to the engine at each bar.

**What is hard.**
- `observe` takes the whole book, puts orders back one at a time through about
  ten exits, and *stages* fills that are applied after the walk. Limits that
  several orders share are tracked in locals during the walk.
- Orders live over many bars: partial fills, latency, arming, trailing
  references and OCO reductions accumulate.
- Callbacks re-enter the loop, and position arithmetic is written three times
  (venue, portfolio, trade statistics).
- The cache directory outlives the process, which may die between any two file
  operations, the request that planned a gap, and the listing its files were
  tagged under.
- Six connectors page through history in six ways, while the venue goes on.
- A live session is three threads and a venue, over a queue that may overflow, a
  socket that may end, and answers that may be lost.
- Windows, folds, buckets, means: off-by-ones that no single example shows.

**What makes each part correct.** Venue: an order's events form one life; the
book is what the events say; shared limits hold; prices honour the order's kind;
latency is waited for; a liquidation leaves nothing behind. Engine: the account
the strategy reads is the venue's, money is conserved, no order or timer is
lost, and the loop ends. Cache: coverage never claims what is not on disk and
whole, nothing the venue has is called empty, a finished page survives any
crash, and a load returns every closed bar, in the id and units of the specs
that come with it. Live: a gap in the bars is marked, the account is what the
venue reported, an overflow ends the connection. Research: incremental results
equal their definitions, and no fit sees what it is judged on.

## 2. Modules

*The venue and the engine.*

- `FixedPoint`: truncating and rounding division, notional, basis points, the
  average entry price after a fill, realized profit.
- `FillRules`: `Evaluate`, the verdict of one bar on one order, for all six
  order kinds. A side is its sign, so each rule is written once for both sides.
- `Filtering`: `Keep`, which is `Vec::retain` (and, in `Catalog`, a loop that skips
  rows). Defined here because the provers
  have no definition of `SelectSeq`.
- `SimulatedExchange`: the venue. `Submit` and `Cancel` are one action each.
  `observe` is split at its loops: `BeginObserve`, then for the order at the head
  of `pending` exactly one of the exits of the loop body (`SkipOtherInstrument`,
  `AwaitLatency`, `VenueCancels`, `DoesNotFill`, `TouchMisses`, `OcoBlocked`,
  `FokExpires`, `NoRoom`, `StageFill`), then `EmitFill` per staged fill,
  `ResolveOco` per claimed group, and `FinishObserve` (funding, liquidation,
  return). The locals of `observe` are variables so that invariants can speak of
  the middle of a bar; no other call is possible meanwhile, as in the code.
  `ledger` and `seen` are history variables.
- `OrderLife`: the abstract specification of an order as its owner sees it
  through `AccountEvent`s. `SimulatedExchange.LifeKept` states, by
  `INSTANCE OrderLife WITH`, that every order of the venue lives such a life.
- `Portfolio`: `Apply`, one event folded into the account. The field `rounding`
  is added to the code's, so that conservation of money can be stated exactly.
- `EngineLoop`: the composition; it extends the venue's module, so a bar's
  inner steps are the venue's own actions. `phase` is the program counter of
  `run_observed`. `Callback` is the strategy: at every callback it queues
  nothing, an order, a cancellation of any id it was ever given, a replacement,
  or a timer.

*Data.*

- `BarManifest`: recorded ranges, `RecordRange` with its overlap check,
  `MissingGaps`. `KlineFeed`: one operator per connector for what it asks, how
  far it goes on, and what it keeps of an answer; `Answer` is the venue,
  external. `BarCache`: `load_bars`, one action per file operation, with `Crash`
  possible before each of them, `FetchFails` for a request that fails for good,
  `SwallowError` for an error that a connector reads as an empty page, and the
  clock running on.
- `PartitionCache`: `load_or_cache_many`, which keeps one file per path and
  trusts it once it is there. The connectors' feeds are `KlineFeed`'s, but here
  each request is a step that may be answered, answered with an error, refused
  or lost; `TriesAgain` says which of those the transport or the page loop of a
  connector repeats, `KeptBy` what a feed that gives up still yields, and `Die`
  may come at any step. It extends `BarCache`, whose venue and clock it shares;
  `used` is the cache that a program of the run calls.
- `Catalog`: the catalogue each connector makes of a listing, `resolve`, and
  `load` with the tags of the files it leaves and finds. Between calls the venue
  lists, delists, halts and reprices. The cache's own steps are `BarCache`'s.
- `BatchLoad`: `load_many`'s workers; `ReadClock`, `Reserve` and `Wake` are steps
  of their own because the clock is read before the lock and the sleep is after
  it. A load is one step with a free outcome. `Tournament` and `BatchFeed`: the
  tree and the `MergeSource` over what was loaded.
- `PerpData`: the connectors' paging through funding history while the venue
  settles, the file it is cached in, `load_perp`. `Resample`: both aggregations
  as folds over the accumulator the code carries.

*Research.* `Indicators`, `WalkForward`, `Trips` and `SwapSession`. `Umbrella` puts the
umbrella crate's four data calls and these tools side by side, as the crate does: a
program makes one of the calls, or one of the tools is at work.

- `MarketHistory`: what a strategy may see, and the accessors that only reach
  back. `SwapVenue`: the market maker. `Crossover`: `SmaCross`, the playground's
  `SmaCrossover`, and a strategy outside the repository that calls
  `Ctx::rebalance`. `SwapSession`: the engine's loop over all three. These
  strategies react to bars only, so an event is one step here; `EngineLoop` takes
  the loop apart for strategies that react to anything.

*Live.* `LiveFeed` (producer, bridge, reconnecting source), `OrderWire` (each
client's encoding of an order, and `Meaning`, the venue's reading of it,
external), `LiveOrders` (submission, MEXC's polling, user-data sockets,
`ChannelExec`), `LiveSession` (one engine thread over both).

*Instances and proofs.* `MC*` modules hold inputs for TLC. `OperatorProofs` has the
lemmas about arithmetic, `Keep`, sums, and accounts: what an event does to one, and
what a sequence of events (`Replay`). On it rest the modules about the venue,
`SimulatedExchangeProofs` (types, the book, each order and `OrderLife`) and
`AccountProofs` (groups, caps, prices, positions, reserved cash), and
`EngineProofs`, about the loop around that venue. `CacheProofs`
is about the plan of the missing gaps, the connectors' page loops, and the two caches
that rest on them. `DataProofs` is about the data calls: `load`, the limiter that
`load_many` shares, the merge, and funding. `ResearchProofs` is about validation, the
fill log and the indicators, `LiveProofs` about the feed and the orders of a live
session.

Operators introduced by the comment "Seeded fault" are plausible mistakes in the
definition that follows them; substituting one for the other must break the
property PROJECT.json pairs it with. They are not part of any specification.

**Abstractions.** Prices, quantities and money are unbounded integers: the code
multiplies in 128 bits and saturates 64-bit sums, which no real feed reaches. Time
inside the venue is a count of bars; in the cache, ticks of which a bar is `BAR`
wide. The PRNG that decides whether a touched limit fills is a free choice. A
candle is its open time and whether its interval was over; a settlement is its
time. Manifest lists are sets: nothing depends on more than the order their
bounds give. In `BarCache` a request that is retried is one step with its
answer; the retries themselves are steps of `PartitionCache`. A process may die, but the file system keeps what it was
given (no power loss). Venues, sockets and the clock are external.

## 3. Runs

| Run | Properties | Instance | States |
|---|---|---|---|
| `bracket` | `TypeOK`, `BookAgrees`, `NoOverfill`, `OcoBudget`, `SharedVolumeCap`, `FillPriceHonoursKind`, `ImmediateNeverRests`, `TriggeredOnce`, `ReduceOnlyShrinks`, `LifeKept` | 3 orders of 6 shapes, 3 bars of 3 shapes, 50 % participation, uncertain touches | 646,419 |
| `cash` | `CashCoversReserve`, `NoLookAhead` | 3 orders, 3 bars, fees, latency of one bar, minimum notional, cash 20 | 455,244 |
| `margin` | `NoUnderwaterPosition`, `LiquidationClearsBook` | 2 orders, perpetual and spot, 3 bars each, funding every 2 bars at either of two rates, slippage and impact | 249,697 |
| `account` | `MirrorsAgree`, `CashReconciles`, `HeldHasMark`, `NothingLost`, `Terminates` | 2 orders of 3 shapes, 2 events, bars or notices, one cancellation, 2 timers, fees, funding, liquidation | 489,345 |
| `cache` | `CoverageTrue`, `PlanExact`, `LoadComplete`, `ClosedBarsOnly`, `PartitionTrue`, `JournalOutlived`, `CallsEnd` | six connectors, 2 histories, pages of 2; 3 windows, 3 loads, a clock that moves once, one crash, one failed request; or 2 calls out of 4 for up to two specs, one retry | 191,419 |
| `umbrella` | `SeriesTrue`, `Paced`, `MergeAgrees`, `FundingWhole`, `AggregateAgrees`, `IndicatorsAgree`, `FoldsSound`, `TripsReconcile`, `SessionAgrees` | below | 444,697 |
| `live` | `PositionTrue`, `OpenTrue`, `IntentKept`, `GapsMarked`, `OverflowEnds` | 8 clients, 2 feeds, bridge of one, 2 connections; one order of two lots and 2 windows, or 4 windows and no order | 652,553 |
| `trailing_gap`, `dormant_stop`, `stripped_stop`, `double_submit`, `mistagged` | one each | violated: section 5 | |

**What they show.**

- `bracket`: through every exit of `observe`, in any combination over three
  bars, the book and the event stream stay one; volume, OCO quantity and
  reduce-only limits hold at each staged fill; every order lives an `OrderLife`.
- `cash`: reserve and balance do not drift apart; no fill before its latency.
  It has limit buys only: a market buy may fill at a gap above the mark it was
  reserved at, which the code accepts (exchange.rs:462).
- `margin`: no bar leaves a position past the threshold, and a liquidation
  leaves no order the strategy was not told of.
- `account`: two independent copies of an account, fed only by events that
  callbacks interleave, agree; money reconciles; nothing queued is lost;
  the run ends, whatever timers its timers set.
- `cache`: what the manifest says is true at every step and after a crash
  anywhere; no call fails for what an earlier one left; every closed bar is
  returned; every paging loop ends, and every call. `PartitionTrue` says of the other cache that
  a file a download leaves behind has no hole, has its whole window if every
  request was answered, and never answers for another series; it does not say
  that a failed download leaves no file, because it does (section 5).
  `LoadComplete` and the emptiness part of
  `CoverageTrue` set two things aside, which the code does get wrong: bars hidden
  by an error read as an empty page, and bars beside a verified-empty span that
  ends between two stamps (section 5).
- `umbrella`, one part at a time, since the parts share no state:
  `SeriesTrue` (nine listings of two symbols that change twice among three loads
  of up to two bars, some interrupted); `Paced` and `MergeAgrees` (three
  requests, two workers, then the tree against a linear scan); `FundingWhole`
  (pages of one to three, two calls, one failed request, a settlement possible
  between any two pages); `AggregateAgrees` (tapes of four prints, widths two to
  four, against a definition bucket by bucket); `IndicatorsAgree` (six bars,
  periods up to three, each of eight indicators against its definition over the
  whole history); `FoldsSound` (every plan of lengths up to two, with purge and
  embargo, over four timelines: no fit sees what its fold is judged on);
  `TripsReconcile` (three fills that open, add, reduce, close and flip);
  `SessionAgrees` (six events, two instruments, three strategies over the market
  maker: running sums against a scan of the series, the account valued in three
  ways, positions and orders under way against what was asked for).
- `live`: whatever the interleaving of producer, engine, user-data thread and
  venue, the account is what the venue executed once all that is under way has
  come, and no client weakens an order; a missing bar has a resync in its
  place, and no overflow leaves the engine waiting.

**Why these bounds.** Bars are chosen so that the quiet bar fills in part, the
sweeping bar reaches both legs of a bracket with a smaller cap, and the gapping
bar opens beyond stops. Three orders are an entry and the two legs of a bracket,
the largest group any rule relates. In `account`, which multiplies the venue by
what a strategy may do at each callback, two orders are any pair of those;
averages are not whole numbers and round. In the cache, pages of two over four
candles page more than once in both directions; a load, one that is cut off and
one after it are the longest story the files remember, since each load reduces
them to chunks and a manifest again. A queue of one is full at the second bar; four
windows are a bar, two lost ones, and a bar after the gap. A session that trades is
cut at two (`TradedBars`): the order is sent at one bar and asked after at the next,
and only what the feed does, which no order changes, needs more. A
window of three over six inputs fills, slides and forgets its first input. TLC's
coverage shows that every action fires.

The venue's runs do not check deadlock: a venue whose ids and bars are used up
waits for calls that the bounds no longer allow; the same holds of the cache,
the data calls and the live session, whose bounds stop the clock and the venue.
`account` does check it: its only state without another step is `done`,
which stutters explicitly.

**Fairness.** `account`: weak fairness of `Steps`, the whole loop, which is one
thread and waits for no other in a backtest. `cache`: weak fairness of `Loader`;
`load_bars` is one thread, and its requests are answered or fail (each transport
has a timeout). The same goes for `PartitionSteps`: a request is repeated a
bounded number of times, then the feed gives up. `live`: weak fairness of the producer's thread and of the
engine's, each of which the operating system schedules; none for the venue, the
sockets or the user-data thread, and a producer waiting on a silent socket is
not a step of its thread. Nothing forces the strategy, the feed or the venue to
choose well.

## 4. Theorems

| Theorem | States | Module |
|---|---|---|
| `TypeCorrect` | `Spec => []TypeOK` | `SimulatedExchangeProofs` |
| `BookAgreement` | `Spec => []BookAgrees` | `SimulatedExchangeProofs` |
| `OrdersSound` | `Spec => [](TypeOK /\ BookInv /\ OrderInv)` | `SimulatedExchangeProofs` |
| `NeverOverfilled` | `Spec => []NoOverfill` | `SimulatedExchangeProofs` |
| `TriggeredAtMostOnce` | `Spec => []TriggeredOnce` | `SimulatedExchangeProofs` |
| `NeverLooksAhead` | `Spec => []NoLookAhead` | `SimulatedExchangeProofs` |
| `ImmediateEnds` | `Spec => []ImmediateNeverRests` | `SimulatedExchangeProofs` |
| `LifeRefinement` | `Spec => LifeKept` (the venue implements `OrderLife`) | `SimulatedExchangeProofs` |
| `OcoWithinBudget` | `Spec => []OcoBudget` | `AccountProofs` |
| `CapShared` | `Spec => []SharedVolumeCap` | `AccountProofs` |
| `ReduceOnlyReduces` | `Spec => ReduceOnlyShrinks` | `AccountProofs` |
| `UnderwaterLiquidated` | `Spec => []NoUnderwaterPosition` | `AccountProofs` |
| `LiquidationClears` | `Spec => LiquidationClearsBook` | `AccountProofs` |
| `FillsHonourKind` | `CostsAreAdverse => (Spec => []FillPriceHonoursKind)` | `AccountProofs` |
| `ReserveIsCovered` | `PassiveBuys => (Spec => []CashCoversReserve)` | `AccountProofs` |
| `AccountMirrorsVenue` | `SameOpening => (EngineSpec => []MirrorsAgree)` | `EngineProofs` |
| `CashAlwaysReconciles` | `EngineSpec => []CashReconciles` | `EngineProofs` |
| `HeldIsMarked` | `EngineSpec => []HeldHasMark` | `EngineProofs` |
| `NothingIsLost` | `EngineSpec => []NothingLost` | `EngineProofs` |
| `CacheKept` | `CacheSpec => []CacheInv` | `CacheProofs` |
| `PlanIsExact` | `CacheSpec => []PlanExact` | `CacheProofs` |
| `ClosedBars` | `CacheSpec => []ClosedBarsOnly` | `CacheProofs` |
| `JournalsOutlived` | `CacheSpec => JournalOutlived` | `CacheProofs` |
| `CoverageIsTrue` | `MexcSteady => (CacheSpec => []CoverageTrue)` | `CacheProofs` |
| `LoadIsComplete` | `MexcSteady => (CacheSpec => []LoadComplete)` | `CacheProofs` |
| `PartitionIsTrue` | `CacheSpec => []PartitionTrue` | `CacheProofs` |
| `GapsAreMarked` | `Spec => []GapsMarked` (of `LiveSession`) | `LiveProofs` |
| `IntentIsKept` | `Spec => []IntentKept` (of `LiveSession`) | `LiveProofs` |
| `PositionStaysTrue` | `Spec => []PositionTrue` (of `LiveSession`) | `LiveProofs` |
| `OpenStaysTrue` | `Spec => []OpenTrue` (of `LiveSession`) | `LiveProofs` |
| `EncodingFaithful` | a venue reads an order as it was meant, for each client | `LiveProofs` |
| `SeriesIsTrue` | `TwoCoins => (CatalogSpec => []SeriesTrue)` | `DataProofs` |
| `PacingHolds` | `FeedSpec => []Paced` | `DataProofs` |
| `MergeIsOneScan` | `ChildrenSorted => (FeedSpec => []MergeAgrees)` | `DataProofs` |
| `FundingIsWhole` | `PerpSpec /\ []FewSettle => []FundingWhole` | `DataProofs` |
| `ValidationIsSound` | `ValidationSpec => []FoldsSound` | `ResearchProofs` |
| `LogTellsTheAccount` | `TripSpec => []TripsReconcile` | `ResearchProofs` |
| `IndicatorsAreDefinitions` | `IndicatorSpec => []IndicatorsAgree` | `ResearchProofs` |

The venue's hold for every value of the constants that satisfies
`ConstantsAssumption`, `PacingHolds` and `MergeIsOneScan` under `BatchAssumption` (TLC
evaluates both on every run): any finite set of ids, any instruments, requests, bars, fees, latency,
cap, funding and liquidation settings; any number of requests, workers and signal series and any
intervals. Those of the engine add `EngineAssumption`: any finite set of instruments
and any number of events, timers and callbacks' commands. Those of the live session hold under `LiveFeedAssumption`,
`OrdersAssumption` and `SessionsAssumption`: any capacity, bars, connections and
orders, any well-formed requests, any quantity, and any prices of its trades. Those of the caches hold under `BarAssumption`,
`LimitAssumption`, `CacheAssumption` and `PullsAssumption`: any bar wider than a
tick, pages of two candles or more, any finite histories of candles that do not
overlap, any windows, calls, crashes, faults and retries. `SeriesIsTrue` holds under
`CatalogAssumption`: any listings, symbols, bars, loads and changes of the listing.
`FundingIsWhole` holds under `PerpAssumption`: any page sizes, windows, calls and faults,
and any finite history. `ValidationIsSound` holds under `WalkForwardAssumption`: any plans,
any finite timelines of stamped bars (the runner refuses one that is out of order), any
numbers of groups and of tests; `LogTellsTheAccount` under `TripAssumption`: any finite set
of instruments, any prices, quantities, times and fee, and a log of any length;
`IndicatorsAreDefinitions` under `IndicatorAssumption`: any bars, as many as there are,
and any periods.

Eight theorems have a hypothesis of their own. `CostsAreAdverse` says that slippage
lies in 0..10000 bps, the impact coefficient is not negative, and opens and
triggers are not. The code checks none of these, and with a negative slippage a
passive order does fill beyond its limit; the run `bracket` satisfies it.
`MexcSteady` is about MEXC's page loop only and says that the windows asked for end
no more than a bar after the start, or that the clock moves no more than a bar.
Without it the two theorems are false (section 5, *Cache*); the run `cache`
satisfies it. `TwoCoins` says that no row of a listing trades a coin against itself,
which no venue does; MEXC's contracts number their two coins 0 and 1 without
looking (venues.rs:372), so for them the ids would not be sound otherwise.
`PassiveBuys` is where the cash guard can keep its promise: nothing but fills moves
the cash (no perpetuals, no liquidation), fees, slippage and impact lie in 0..10000
bps, prices and opening cash are not negative, and what buys rests at a limit. A
market buy may fill above the mark it was reserved at, and the code says so
(exchange.rs:462). The run `cash` satisfies it. `SameOpening` says that the account
opens with the cash the venue's guard is given, if it is given any, as
`run_paper_with` makes it for a caller that sets none (paper.rs:52); nothing makes a backtest's two settings agree.
`ChildrenSorted` says that each series handed to the merge is in the order of time,
which is what a feed promises and what `MergeSource` relies on; `load_many`'s own
results are (the load sorts them), and the run's signals are. `FewSettle` is about
MEXC's loop only, whose pages are numbered from the newest: what settles while it pages
moves the numbers, and a settlement may be passed over between two pages. It says
that while a call pages the venue settles no more than all the loop's pages hold,
which at a hundred a page and one in eight hours it cannot; with one more TLC finds
`FundingWhole` violated, when the last page allowed leaves such a hole. In the run
one settles at most, and the loop has five pages or more.

So all that the runs check of the venue, of the engine loop, of the caches and of a
live session is proved, but for what is liveness.

`TypeOK` is inductive. The work is in the arithmetic (a price produced through
slippage and impact is an integer, a trailing reference has one value) and in the
record updates; each action has a lemma.

`BookAgrees` is not inductive. A fill that completes its order takes it off the
book when it is staged but closes it only when it is emitted; in between, the
order is open and nowhere on the book. `BookInv` names those orders (`Finishing`)
and says: what is held (`resting \o pending`) holds nothing twice and only open
orders, every open order is held or finishing, none is both, and between calls
nothing is pending or staged. Each exit of the walk either moves the head of
`pending` to the end of `resting` (`MoveHead`) or drops it (`DropHead`), and
closes the order in the same step unless it staged the fill that finishes it.
Cancelling, OCO resolution and liquidation all remove a set of orders with `Keep`
and close exactly those (`RemovalBook`, `KeepFacts`).

`OrderInv` says, of each order, what the venue's several records of it have to do
with each other: what is reported executed and what is staged add up to at most
`filled` (an OCO reduction raises `filled` beyond them), which never passes
the quantity (`Bounded`); a trigger is reported at most once and `armed` agrees
with it (`TriggersOnce`); no order is staged twice in a bar; a staged fill belongs
to an order that is old enough (`StagedSoundly`); and the bars a held order has
still to wait are its latency less its age (`WaitsItsLatency`). `NoOverfill`,
`TriggeredOnce`, `NoLookAhead` and `ImmediateNeverRests` follow from it, and so does
the refinement: under the mapping of `LifeKept`, `EmitFill` is `OrderLife`'s
execution, a removal its end, and every other action a step of the order it
concerns or a stutter (`NextLife`).

`AccountProofs` adds an invariant for each thing that orders share. Volume
(`CapInv`): what the cap has left and what is staged are together within the bar's
participation; each staged fill takes from one what it adds to the other. The
position (`RunInv`): there is a sequence of running positions, from the shadow to
`netAfter`, in which each staged fill is applied to the one before and each
reduce-only fill shrinks it; staging extends it at the end and emitting drops it
at the front, which is why a decision taken against `netAfter` is still right when
its fill is applied. The mark (`MarkInv`): only the instrument being observed may
be beyond its threshold. A one-cancels-other group (`OcoInv`): as long as no leg
came late, what the group has executed and staged is at most what every leg still
held has down as `filled`, until one of them claims the group, and from then on
at most the claim, which `ResolveOco` writes into all that are left.

Cash (`CashInv`): what the held buys may still cost and what the staged fills will
cost, fees included, are together within the cash (`Spoken`). A fill moves a part of
the first sum to the second at a price no worse than the limit, and `CostFalls` says
that two parts of an order, their fees rounded down apart, cost no more than the
whole; emitting it takes its cost from the cash and from the second sum at once;
cancelling, OCO resolution and rejection only lower the first; a new order passed
the guard, which adds its cost to the first.

Around the venue, `EngineProofs` follows what the events do to the account. That
must be said of a sink that also holds events of earlier calls, put there by
callbacks while one is being delivered. So `Follows` says of an account that it has
the venue's positions, averages, open orders and cash, and each venue operation
`Tells`: it appends events that take every account that follows the venue before to
one that follows it after. `Replay` of the sink over the portfolio then follows it
at every step (`MirrorsAgree` is that where the sink is empty): a callback that calls
the venue extends the replay at its end, a delivery takes its first event into the
account, and neither changes the rest. `Balance` is what `CashReconciles` compares,
as a number that every event leaves as it is; the closing of a position contributes
its realized profit by the identity the portfolio's average is defined by, and what
rounding the average loses is counted in `rounding`. `MarkInv` adds that a trade in
the sink is of the instrument whose bar is being handled; `TimersInv`, that between
events no timer is overdue but one set since the last; `OrdersInv`, that every id
handed out is known to the venue or in a queue, and no other is.

The caches rest on two algorithms, each proved for any input. The
plan of `missing_gaps`: `Coalescing` says what the runs of ranges are, `Plan` that
the gaps between them are exactly the stamps of the window away from all that is
recorded (`PlanExact`). The page loops: `Paging` says, of each of the six, that behind
its cursor it has every candle there is, but for those not over when the window was
opened; `PageStep`, that a page keeps it so whatever the clock did since the last one,
and that a loop it ends has all of its window (`Drained`).

`CacheInv` then ties the stage of a call to the directory: a chunk has every bar of
the range it is named after, a journal has no hole, a range called downloaded has
its chunk, the ranges do not overlap, a journal on its way to deletion has a chunk
with its bars, and the feed stands where `Paging` says. A crash keeps all of it,
because it speaks of the process only where the process is in a call. `EmptyInv`
adds why a download that is over may lack a candle of its gap (it was not closed, it
was hidden by an error read as an empty page, or MEXC's loop skipped it), so that
what `record_fetched_gap` records around the bars is empty. `LoadInv` says that while
a call is busy every closed bar of its window is seen to: a recorded range has it,
or a gap that is left, and no gap that is left touches a recorded range, so the
manifest never refuses one. `PartitionInv` says the same of the other cache's feed,
for a window and for the newest candles, and that what has been merged was read
from files that fit the call.

`SeriesTrue` has two halves. Ids: the coins of a catalogue are numbered from one
table in which all of them are (`AllInterned`, by recursion on the rows), so two
coins share a number only if they are one (`TableSound`). Bars: `CatalogInv` says that
the cache holds each bar once, and in the units of its tag unless it was rescued
from a journal (`FilesTrue`), and a journal each bar once; that a window is whole
then follows from what a load downloads, and that it is the series asked for from
the comparison of every tag it reads, whatever the listing was when it was written.

`Paced` is not inductive either. `PaceInv` adds that the limiter's next free
instant is already an interval past every grant (so the next grant is), and that
a worker's reading of the clock, taken before it waited for the lock, can only be
behind the clock it sleeps by (so none wakes before its grant).

`MergeAgrees` rests on the tree. It is stated of the heap and not of how it was made:
a tree is `Settled` when each node above the leaves holds the better of the two
below it. Then the node at the root beats every slot (`WinnerBeats`: the first
node whose winner beats a slot is the root), and ties go to the lower slot because
`Better` is a total order of (key, slot). `set()` leaves a settled tree settled
(`SetKeySettled`), although it recomputes one path only: a node off the path from a
leaf has no node below it that holds the leaf's slot. That the recursive functions
the tree is made of have the values their equations give (`PowersEquation`,
`HalvesClosed`, `WinnersEquation`) is proved by their least counterexample. The loop
above it keeps three things: what has gone out of a child, its head and what it still
has are its series in order (`Delivered`), nothing that is left comes before anything
that went out (`InOrder`), and the tree's keys are the heads' stamps (`TreeKept`).
That every series is there to be merged follows from how the requests were dealt to
the workers (`Dealt`): each is loaded or in one worker's share.

`FundingWhole` is about a history that grows while it is read. `SoFar` says of each of
the loops where it stands: a backward one has all from its cursor on, Binance's all up
to its cursor, and MEXC's all of what it has been told of among those its next page
does not count. What joins to it is then all up to the next cursor, because a page
leaves out only what is older than all it holds (`NewestFacts`) or newer
(`OldestFacts`), and a page that ends a loop shows there is no more (`PageNonempty`,
`PageFilled`). MEXC's loop may have holes on its way, of settlements newer than the
call; `NumberedPage` shows that a later page always comes to them. A schedule without
a hole is, between its ends, the venue's; so is the period inferred from it.

`FoldsSound` is about windows laid out a step apart. `PlacesFit` says which places fit
before the plan's end, and `GenerateLays` that the generator returns those and stops at
the first that does not. `FoldInv` then says that all an analyst was ever fitted on is
stamped before the training end of the window at hand, which never moves back, and
that each fold before was judged on its window's test; the purge stands between the
two. Slices of an ordered timeline join where they meet (`SlicesJoin`), so tests a step
apart, laid end to end, are one slice (`TestsTiled`), and the summary's counts are sums
over the folds (`PoolAddsUp`). Of the combinatorial splits, `NextChoice` says that no
choice lies between one and its advance, `FirstChoice` and `LastChoice` where they begin
and end; so all of them have been recorded in the end, each once, and `ChoiceOf` says
that every set of as many groups is one of them.

`TripsReconcile` compares three books of one log. The trades go with the account fill by
fill (`TradesKept`): a fill moves the trade of its instrument as it moves the position,
and what a closing leaves of a trade goes to the list of profits. The replay has
the same fills in another order. `TripInv` says that the account is itself a replay of its
log, and that the log is in the order of time. Sorting by time and instrument is then a
permutation (`PlacesTaken`: each fill has a place of its own) that keeps the order
within an instrument. After any number of trades, `ReorderedReplay` says, the
position in an instrument is the one that the account had after as many of its fills
(`StillThere`: others do not touch it), so each trade realizes in the replay what its fill
did; and the sums over all of them agree whatever the order.

`IndicatorsAgree` compares what is carried from bar to bar with the history it came
from. A deque is `DequeKept`: its entries are inputs still in the window, from the
most extreme to the last, and each input in the window has an entry as extreme and
no older; so the front is the extreme of the window, and an entry that leaves with
the window, or beaten from behind, is missed by none. A window and its running sum
are the last inputs and theirs (`WindowKept`). Of an average, smoothed or not, only
bounds are kept (`Amid`, `EmaKept`, `RsiKept`, `AtrKept`): a truncated step towards
an input lands between the two. `Macd` feeds its signal line from the bar on which
the slower average first speaks (`MacdKept`), which is what its warm-up counts.

`GapsMarked` is about what the engine has; what makes it true is on its way.
`FlowInv` says that there is a bar q such that the bridge holds those that follow
it, the aggregator the next one or none, and the wire the ones after, up to the
last window closed (or, at MEXC, the one in progress); and that q + 1 may come next:
it follows the last bar the engine had, or the engine has just been told. It stops
saying so of the wire once the engine has hung up, when a producer still reads
and drops bars. Of an order `BookKept` adds that one that works may rest and does
not reduce, so its later trades break nothing; that it was so on its arrival is
`EncodingFaithful`.

`PositionTrue` and `OpenTrue` compare the account with the venue once all under way
has come, and what is under way differs by connector. Under Binance's stream it is a
sequence of events: those in the channel and those still on the socket. `StreamInv`
says that the account they lead to (`Arrived`) is `Whole`: it has bought what all orders
have, paid what that cost, and has open exactly the orders that work. A trade at the
venue appends its report, and so moves both sides at once; reading and draining move
an event along and change neither; an answer to a submit overtakes the reports on
the socket, which are of other orders and commute with it (`StaysBeside`). When the
socket is lost a prefix of the events is left, and a prefix never bought more
(`NetGrows`). Under MEXC's poll the account is behind order by order. `PollInv` says
that every order that works has one record (in `pending` or `still`), that the account
has bought what the records say of those that have one and everything of those that
do not, and has paid as much but for less than a unit a lot. A poll replaces a
record by what it reports (`PollDrops`, `RecordAdds`), where the rounding it adds is
less than the lots it reports; a trade at the venue changes an order that has a
record, so nothing the account was told. That the catching up of all records is
well defined follows by taking them one at a time (`PolledAll`).

**Only model-checked.** Of the other data calls and the research tools: `AggregateAgrees`
and `SessionAgrees`.
Liveness (`Terminates`, `CallsEnd`, `OverflowEnds`) and ENABLED are outside the
prover's reach. So is induction over data by the library's theorems; where a proof
above needs one (a sum over a set, a replay of a sequence, a heap) it is done by its
least counterexample; that has not been carried through for the definitions by
several interleaved folds in `Resample` and `SwapSession`.

## 5. Where the code and its documentation differ

Shown by a run:

1. *A trailing stop fills at a price its bar did not reach* (`trailing_gap`).
   The trigger is argued to be intra-bar, so no gap rule is applied
   (exchange.rs:698, 942-945). But the reference survives from earlier bars:
   with a reference of 6 and an offset of 2, a bar with open 2 and high 3 fills a
   sell at 4.
2. *A triggered stop waits for its trigger again* (`dormant_stop`). After a
   partial fill, `Stop` (and market-if-touched) test the trigger on every bar;
   order.rs:87 says that it becomes a market order.
3. *A partial take-profit strips the stop* (`stripped_stop`). When one bar
   reaches both legs, the second is cancelled even though the first filled only in
   part; exchange.rs:1048-1051 says it is reduced, which happens only to legs the
   bar does not reach.
4. *`has_open_order` misses an order on the book* (`double_submit`), when its
   acknowledgement waits in the sink behind the event being delivered;
   context.rs:491-494 says that cannot happen.
5. *Bars saved from an interrupted download change their scale* (`mistagged`).
   `recover_orphans` (load.rs:174) tags them with the scales of the current load;
   the scales the journal was written under are in its metadata and not read
   (incremental.rs:254). After a change of the venue's precision in between, they
   are off by a power of ten and pass every later check; bars.rs:284 names exactly
   that error as what the check is there to surface.

Met while modelling and not given a run; the models follow the code:

- *Catalogue.* `resolve` returns OKX's whole swap listing, though "a perp load MUST"
  collapse it (venues.rs:331-335, 353-355); the simulated venue then demands
  funding for every swap (exchange.rs:769). `PerpAlone` leaves OKX out. Ids are
  places in the listing, so a listing or delisting elsewhere makes every cached
  file of a symbol "stale", and the download of the load that fails on it is filed
  under the new id beside them. `load_many`'s results carry ids from different
  listings, 0 for every collapsed perpetual, and cannot be merged as they are. One
  row without a tick fails OKX's and KuCoin's whole listing. Bybit's dated futures
  are catalogued as perpetuals.
- *Cache.* An error in the body of an answer is read as an empty page at OKX,
  Bybit and KuCoin (okx lib.rs:386), which load.rs:330-335 does not foresee. A
  forming candle is cached by every connector but OKX's. A verified-empty span
  that ends between two stamps hides the stamp beside it. Two recorded ranges at
  most a bar apart count as one, so a window that lies between them is planned as
  having nothing to fetch (`Bridged`). MEXC's loop skips an empty page before its
  first candle (client.rs:218-221). When a symbol is listed within the window while
  it is being fetched, and more than a bar goes by between two requests, the skipped
  page may have had the first candles by the time the next one has later ones, and
  the hole before these is recorded as verified empty: with pages of two bars of two
  ticks, candles at 10, 12, 14, 16, a window of stamps 12..18 and a first request at
  9, TLC finds `CoverageTrue` violated. `MexcSteady` excludes it, and so does the
  clock of the run `cache`. `record_range` takes
  (5,5) and then (5,9), a manifest `validate` may reject. `load_or_cache` takes the
  `None` of a feed that gave up for the end of its data: what OKX and MEXC had
  paged so far, or for the others an empty file, is written and answers every
  later call (bars.rs:231-256). Only the range-aware loader installs a page sink
  that is told of the failure, as CHANGELOG.md:98 has it. A comment near
  trades.rs:140 says that the loader fetches incomplete stamps;
  `load_bars_aggregated` drops them.
- *Funding.* The file is keyed by venue and symbol only (venues.rs:655): a later
  window gets an earlier window's schedule, and an empty one fails every later
  call. OKX's `load_perp` asks for one page.
- *Live.* Binance's report of a new order gives a second `OrderAccepted` and so a
  duplicate id in the open list, against portfolio.rs:178 and traits.rs:65. The
  MEXC socket's parser expects another tag than the REST client sends
  (ws.rs:29, live/mexc.rs:131), which is what keeps its trades from counting
  twice. A user-data socket that ends is not reopened. No live client implements
  `cancel`; OKX, Bybit, KuCoin and Binance futures have no reader for their
  account reports, though okx lib.rs:1074 says akadro-live has. MEXC's poll rounds
  a marginal price down and lets cash drift by up to a unit a lot.
- *Research.* `TradeStats` ignores liquidations. The embargo keeps bars from the
  end of a training window only, not from the next fold's
  (walk_forward.rs:81-83). Overlapping test windows are counted twice.
- *Pacing.* `load_many` acquires the limiter once a series (concurrent.rs:101); each
  `load_bars` then sends a request for every page of every gap, spaced by nothing but
  its own feed's page delay (120 ms, lib.rs:515 of Binance), which no other worker
  shares. So the requests of a batch are not kept under the limiter's rate, which
  concurrent.rs:9-12 and 62-63 say of the workers together; several workers on series of
  several pages exceed it. `Paced` is about the grants, one a series, and the model, whose load is
  one step, does not count requests. Series may also begin together although their
  grants are apart, if both sleep too long.
- *Engine and market maker.* The portfolio charges every cost to its one cash
  balance, whatever asset it names (portfolio.rs:275), so a swap's gas, which the
  market maker's configuration prices in another asset, is paid in quote. The
  market maker reads neither `reduce_only` nor a cancellation. The crossovers
  do not look at a bar's instrument: on a feed of several they sum the closes of all.
  `open_order_ids` gives ids in the order of their acknowledgement, not "id order"
  (context.rs:506).

## 6. Not modelled, and the plan

Not modelled: 64-bit saturation; decimal parsing; the panic after too many events
in one drain (the modelled strategy is bounded); venue commands (no-ops of the
simulated venue); a `REJECTED` report on Binance's socket (the modelled venue refuses
an order in its answer to `submit`); the requests of a load under a shared limiter; annotations, observers and reports; power loss and a journal
whose writes fail; more than one series in one cache directory, and two loaders
of one series; request signing; how long a retry waits; socket framing, protobuf,
subscriptions; the paper venue, a wrapper of the simulated one; float analytics
(returns, distributions, cross-sections), which are formulas over finished
results; the terminal and the playground's menus. The source includes tests, examples and comments
in its line counts, and what is left is for the most part of these kinds.

Next, on the proof side: that `Resample`'s accumulators give what a scan of each bucket
would, and that the rounding the portfolio sets aside stays below one unit for each
trade.

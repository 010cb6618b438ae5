SPECIFICATION UmbrellaSpec
CONSTANTS
  Sources = {"mexc", "mexcFutures", "okx", "okxSwap", "binance", "binanceFutures", "bybit", "bybitPerp", "kucoin"}
  Symbol = "BTC-USDT"
  Listings <- SmallListings
  Rows <- SmallRows
  BarCount = 2
  MaxSeriesLoads = 3
  MaxRelistings = 2
  Count = 3
  Concurrency = 2
  Intervals = {0, 2}
  Series <- SmallSeries
  Signals <- SmallSignals
  LastTick = 4
  LastSettling = 6
  Fetchers = {"okx", "okxPaged", "mexc", "binance", "bybit", "kucoin"}
  PageSize <- SmallPages
  Hundred = 1
  Day = 6
  DefaultPeriod = 2
  CallerPages = 3
  FirstSettled = {1, 2, 3, 4, 5}
  Windows <- SmallWindows
  MaxCalls = 2
  MaxFaults = 1
  FineWidth = 2
  CoarseWidths = {2, 3, 4}
  PrintTimes = {1, 2, 3, 4, 6}
  Prints <- SmallPrints
  MaxPrints = 4
  Inputs <- SmallInputs
  Periods = {1, 2, 3}
  SignalPeriod = 2
  BandWidth = 2
  MaxInputs = 6
  Plans <- SmallPlans
  Timelines <- SmallTimelines
  Groupings <- SmallGroupings
  Markets = {0, 1}
  Deals <- SmallDeals
  Steps = {0, 1}
  FeeBps = 1000
  MaxFills = 3
  Traders = {"cross", "sized", "follow"}
  Pairs = {1, 2}
  Traded = 1
  SwapBars <- SmallSwapBars
  Targets <- SmallTargets
  Stake = 20
  Depth = 2
  ImpactCoef = 3000
  LpFeeBps = 1000
  Gas = 1
  Fast = 1
  Slow = 3
  OrderQty = 1
  DeployPct = 90
  MaxTurns = 6
INVARIANTS
  SeriesTrue
  Paced
  MergeAgrees
  FundingWhole
  AggregateAgrees
  IndicatorsAgree
  FoldsSound
  TripsReconcile
  SessionAgrees
CHECK_DEADLOCK FALSE

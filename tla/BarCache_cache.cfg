SPECIFICATION CacheSpec
CONSTANTS
  BAR = 2
  Limit = 2
  Connectors = {"okx", "bybit", "kucoin", "binance", "mexc", "mexcFutures"}
  Histories <- SmallHistories
  Windows <- SmallWindows
  FirstNow = 7
  LastNow = 8
  MaxLoads = 3
  MaxCrashes = 1
  MaxFaults = 1
  Pulls <- SmallPulls
  MaxPulls = 2
  MaxRetries = 1
INVARIANTS
  CoverageTrue
  PlanExact
  LoadComplete
  ClosedBarsOnly
  PartitionTrue
PROPERTIES
  JournalOutlived
  CallsEnd
CHECK_DEADLOCK FALSE

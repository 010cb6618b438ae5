SPECIFICATION EngineSpec
CONSTANTS
  None = None
  btc = btc
  eth = eth
  Ids = {1, 2}
  Instruments = {btc}
  Perps = {btc}
  Requests <- EngineRequests
  Bars <- EngineBars
  FeeBps = 1000
  SlippageBps = 0
  ImpactBps = 0
  LatencyBars = 0
  ParticipationBps = 5000
  TouchMayMiss = FALSE
  MinNotional = 0
  StartingCash = 20
  LiquidationBps = 3000
  FundingInterval = 2
  FundingRates = {20}
  FundingScale = 100
  MaxBars = 3
  InitialCash = 20
  Notices = {}
  MaxCancels = 1
  MaxTimers = 0
  MaxEvents = 3
PROPERTIES
  OpenOrderIsVisible

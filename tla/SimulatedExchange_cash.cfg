SPECIFICATION Spec
CONSTANTS
  None = None
  btc = btc
  eth = eth
  Ids = {1, 2, 3}
  Instruments = {btc}
  Perps = {}
  Requests <- CashRequests
  Bars <- CashBars
  FeeBps = 1000
  SlippageBps = 2000
  ImpactBps = 0
  LatencyBars = 1
  ParticipationBps = 5000
  TouchMayMiss = FALSE
  MinNotional = 8
  StartingCash = 20
  LiquidationBps = None
  FundingInterval = 0
  FundingRates = {0}
  FundingScale = 100
  MaxBars = 3
INVARIANTS
  CashCoversReserve
  NoLookAhead
CHECK_DEADLOCK FALSE

SPECIFICATION Spec
CONSTANTS
  None = None
  btc = btc
  eth = eth
  Ids = {1, 2}
  Instruments = {btc, eth}
  Perps = {btc}
  Requests <- MarginRequests
  Bars <- MarginBars
  FeeBps = 1000
  SlippageBps = 2000
  ImpactBps = 5000
  LatencyBars = 0
  ParticipationBps = 5000
  TouchMayMiss = FALSE
  MinNotional = 0
  StartingCash = 40
  LiquidationBps = 2500
  FundingInterval = 2
  FundingRates <- MarginFundingRates
  FundingScale = 100
  MaxBars = 3
INVARIANTS
  NoUnderwaterPosition
PROPERTIES
  LiquidationClearsBook
CHECK_DEADLOCK FALSE

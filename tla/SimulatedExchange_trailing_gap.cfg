SPECIFICATION Spec
CONSTANTS
  None = None
  btc = btc
  eth = eth
  Ids = {1, 2, 3}
  Instruments = {btc}
  Perps = {}
  Requests <- GapRequests
  Bars <- GapBars
  FeeBps = 0
  SlippageBps = 0
  ImpactBps = 0
  LatencyBars = 0
  ParticipationBps = 5000
  TouchMayMiss = TRUE
  MinNotional = 0
  StartingCash = None
  LiquidationBps = None
  FundingInterval = 0
  FundingRates = {0}
  FundingScale = 100
  MaxBars = 3
INVARIANTS
  TrailingTriggerIsIntraBar
CHECK_DEADLOCK FALSE

SPECIFICATION Spec
CONSTANTS
  None = None
  btc = btc
  eth = eth
  Ids = {1, 2, 3}
  Instruments = {btc}
  Perps = {}
  Requests <- BracketRequests
  Bars <- BracketBars
  FeeBps = 0
  SlippageBps = 0
  ImpactBps = 0
  LatencyBars = 0
  ParticipationBps = 5000
  TouchMayMiss = TRUE
  MinNotional = 0
  StartingCash = None
  LiquidationBps = None
  FundingInterval = 0
  FundingRates = {0}
  FundingScale = 100
  MaxBars = 3
INVARIANTS
  TypeOK
  BookAgrees
  NoOverfill
  OcoBudget
  SharedVolumeCap
  FillPriceHonoursKind
  ImmediateNeverRests
  TriggeredOnce
PROPERTIES
  ReduceOnlyShrinks
  LifeKept
CHECK_DEADLOCK FALSE

SPECIFICATION Spec
CONSTANTS
  Capacity = 1
  LastBar = 4
  MaxConnections = 2
  Requests <- SmallRequests
  MaxOrders = 1
  Lots = 2
  Prices <- SmallPrices
  TradedBars = 2
  Sessions <- SmallSessions
INVARIANTS
  PositionTrue
  OpenTrue
  IntentKept
  GapsMarked
PROPERTIES
  OverflowEnds
CHECK_DEADLOCK FALSE

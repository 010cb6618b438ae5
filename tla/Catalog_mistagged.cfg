SPECIFICATION CatalogSpec
CONSTANTS
  Sources = {"mexc", "mexcFutures", "okx", "okxSwap", "binance", "binanceFutures", "bybit", "bybitPerp", "kucoin"}
  Symbol = "BTC-USDT"
  Listings <- SmallListings
  Rows <- SmallRows
  BarCount = 3
  MaxSeriesLoads = 3
  MaxRelistings = 2
INVARIANTS
  UnitsAgree
CHECK_DEADLOCK FALSE

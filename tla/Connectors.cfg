SPECIFICATION Spec
CONSTANTS
  RestBrokers = {"ALPACA", "BINANCE", "BYBIT", "COINBASE", "OKX"}
  Lots = 2
  MaxEnds = 1
  MaxSilences = 1
  PagedBrokers = {"ALPACA", "BINANCE", "BYBIT", "COINBASE", "OKX"}
  PageLimit = 2
  MaxOrderId = 5
  FixLots = 2
  MaxOutages = 1
  MaxTimeouts = 1
INVARIANTS VerdictsTrue OpenListsComplete
PROPERTIES CloseIsTold
CHECK_DEADLOCK FALSE

SPECIFICATION Spec
CONSTANTS
  Trades = {1, 2}
  Pairs = {1, 2}
  PairOf <- Pair
  PageSize = 1
  MaxDrops = 1
  MaxFails = 1
  MaxKeys = 1
  Orders = {o1, o2}
  Budget = 1
  MaxRequests = 2
  MaxFailures = 2
INVARIANT EachTradeOnce
PROPERTIES GapHeals KillClears
CHECK_DEADLOCK FALSE

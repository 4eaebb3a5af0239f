SPECIFICATION MCSpec
CONSTANTS
  A = A
  B = B
  block = block
  sell = sell
  buy = buy
  Portfolios = {A, B}
  Orders = {block, sell, buy}
  Portfolio <- OwnPortfolio
  Side <- SellsAndABuy
  Opened = {A}
  Blocks = {block}
  Requests = {r1, r2}
  FillQuantities = {1, 2}
  FillPrices = {1, 3}
  OrderQty = 2
  MaxFills = 3
  Instruments = {1, 2, 3, 4}
  Listing <- ListingOf
  Feeds = {"BINANCE", "BYBIT"}
  AddsCap = 1
  MaxTrades = 3
  MaxFeedEnds = 1
  SourceSets = {{"BINANCE", "BYBIT"}, {"OKX"}, {"COINBASE"}, {"OPRA"}}
  Rank <- RankOf
  StaleAfter = 2
  MaxSeconds = 3
  QuoteCap = 1
  Quoted <- QuotedOf
  StatSources <- SourcesOf
  MaxReloads = 1
INVARIANTS BooksBalance RebuildAgrees PricesRight
PROPERTY HeldIsSubscribed
CHECK_DEADLOCK FALSE

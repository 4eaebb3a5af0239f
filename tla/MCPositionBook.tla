--------------------------- MODULE MCPositionBook ---------------------------
(***************************************************************************)
(* Positions, and the market data that follows them.  Each behaviour runs   *)
(* one part: the book, where a block is sold in A and allocated to A or B,  *)
(* by two requests at once and while B sells and buys on its own; the       *)
(* feeds' subscriptions; the router of the marks; or the poll of the        *)
(* previous closes.                                                         *)
(***************************************************************************)
EXTENDS PositionBook, FeedSubscriptions, MarkRouter, DailyStats

CONSTANTS A, B, block, sell, buy

\* Every order of B trades in B.
OwnPortfolio == [o \in Orders |-> IF o = block THEN A ELSE B]

SellsAndABuy == [o \in Orders |-> IF o = buy THEN 1 ELSE -1]

\* BTC on two venues, ETH, and an OKX pair.
ListingOf == <<[symbol |-> "BTC", class |-> "SPOT", venue |-> "BINANCE", dashed |-> FALSE],
               [symbol |-> "ETH", class |-> "SPOT", venue |-> "BINANCE", dashed |-> FALSE],
               [symbol |-> "BTC", class |-> "SPOT", venue |-> "BYBIT", dashed |-> FALSE],
               [symbol |-> "BTC-USDT", class |-> "SPOT", venue |-> "OKX", dashed |-> TRUE]>>

\* Binance's pairs are Bybit's too; the policy ranks Binance first.
RankOf == [BINANCE |-> 1, BYBIT |-> 2, OKX |-> 1, COINBASE |-> 1, OPRA |-> 1]

\* Two pairs of Binance's, one of them an equity's ticker too.
QuotedOf == <<[symbol |-> "BTCUSDT", venue |-> "BINANCE"], [symbol |-> "ABC", venue |-> "BINANCE"],
              [symbol |-> "ABC", venue |-> "XNAS"], [symbol |-> "ABC", venue |-> "XNYS"]>>

SourcesOf == {<<"BINANCE", "LIVE">>, <<"BINANCE", "PAPER">>, <<"ALPACA", "PAPER">>}

VARIABLE part

allVars == <<part, bookVars, subscriptionVars, routerVars, statsVars>>

MCInit == /\ part \in {"book", "subscriptions", "router", "stats"}
          /\ BookInit /\ SubscriptionsInit /\ RouterInit /\ StatsInit
          /\ part # "router" => pricing = {"OPRA"}
          /\ part # "stats" => registered = {}

BookPart(S) == part = "book" /\ S /\ UNCHANGED <<part, subscriptionVars, routerVars, statsVars>>
FeedsPart(S) == part = "subscriptions" /\ S /\ UNCHANGED <<part, bookVars, routerVars, statsVars>>
RouterPart(S) == part = "router" /\ S /\ UNCHANGED <<part, bookVars, subscriptionVars, statsVars>>
StatsPart(S) == part = "stats" /\ S /\ UNCHANGED <<part, bookVars, subscriptionVars, routerVars>>

MCNext == BookPart(BookNext) \/ FeedsPart(SubscriptionsNext) \/ RouterPart(RouterNext) \/ StatsPart(StatsNext)

\* The held set is re-read every minute, and a feed's task runs on.
MCFairness ==
  /\ WF_allVars(FeedsPart(RereadHeld))
  /\ \A f \in Feeds : /\ WF_allVars(FeedsPart(SessionStarts(f)))
                      /\ WF_allVars(FeedsPart(WatchHeld(f)))
                      /\ WF_allVars(FeedsPart(TakeAdds(f)))

MCSpec == MCInit /\ [][MCNext]_allVars /\ MCFairness

-----------------------------------------------------------------------------
\* The prices positions are valued at are right: the mark is the best there is,
\* and a previous close is the instrument's own.
PricesRight == MarkIsBest /\ ClosesAreOwn
=============================================================================

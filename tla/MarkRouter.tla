----------------------------- MODULE MarkRouter -----------------------------
(***************************************************************************)
(* From a venue's book to the mark of one instrument.                       *)
(*                                                                         *)
(*   the feeds     turn book messages into quotes; Bybit's carry one side   *)
(*                 and are put together with the side remembered            *)
(*   mark_router   the best ranked source that still quotes owns the mark;  *)
(*                 another takes over when the owner has been quiet         *)
(*                                                                         *)
(* Prices are 0 (no price: a side that is not there), 1 or 2.               *)
(***************************************************************************)
EXTENDS Naturals, Sequences

CONSTANTS
  SourceSets,  \* which feeds price the instrument: sets of sources
  Rank,        \* provider_feed_policy, UNRANKED for a source without a row
  StaleAfter,  \* STALE_AFTER_SECS
  MaxSeconds,  \* how long the clock runs
  QuoteCap     \* how many quotes may wait for the router

Sources == UNION SourceSets

ASSUME RouterAssumption ==
  /\ Rank \in [Sources -> Nat] /\ "none" \notin Sources
  /\ {StaleAfter, QuoteCap} \subseteq Nat \ {0} /\ MaxSeconds \in Nat

VARIABLES
  pricing,  \* the feeds that price the instrument
  second,   \* the clock, for ts_recv
  bybit,    \* external: Bybit's book, its message under way, and the feed's Top
  emitting, \* the quote a feed waits to send
  quotes,   \* the channel to the router
  active,   \* Active: who owns the mark, and its last quote's time
  routed    \* for the property: each source's last usable quote since the owner
            \* took over, 0 for none

routerVars == <<pricing, second, bybit, emitting, quotes, active, routed>>

\* Bybit's books: either side may be missing.
BybitBooks == [bid : 0..1, ask : 0..2]

\* A ticker's sides: a price, zero, or one that is not there.
Undefined == 9

Tickers == {<<0, 1>>, <<1, 2>>, <<2, 1>>, <<1, 0>>, <<1, Undefined>>}

NoQuote == [source |-> "none", usable |-> FALSE, at |-> 0]

RouterInit ==
  /\ pricing \in SourceSets /\ second = 1
  /\ bybit = [book |-> [bid |-> 1, ask |-> 2], msgs |-> <<>>, top |-> [bid |-> 0, ask |-> 0], wrong |-> FALSE]
  /\ emitting = [s \in Sources |-> NoQuote] /\ quotes = <<>>
  /\ active = [source |-> "none", at |-> 0]
  /\ routed = [s \in Sources |-> 0]

-----------------------------------------------------------------------------
(* The feeds                                                               *)

\* is_usable: a zero bid is a price; a book without an offer, or crossed, is not.
IsUsable(bid, ask) == ask > 0 /\ bid <= ask

\* A quote has the time it was received; the router looks only at whether it is
\* usable.
EmitQuote(s, bid, ask) ==
  /\ emitting[s] = NoQuote
  /\ emitting' = [emitting EXCEPT ![s] = [source |-> s, usable |-> IsUsable(bid, ask), at |-> second]]

\* The feed waits for room in the channel, reading nothing meanwhile.
SendQuote(s) ==
  /\ emitting[s] # NoQuote /\ Len(quotes) < QuoteCap
  /\ quotes' = Append(quotes, emitting[s])
  /\ emitting' = [emitting EXCEPT ![s] = NoQuote]
  /\ UNCHANGED <<pricing, second, bybit, active, routed>>

\* Binance's bookTicker: an unparseable price is skipped.
BinanceQuote ==
  /\ "BINANCE" \in pricing
  /\ \E t \in Tickers : Undefined \notin {t[1], t[2]} /\ EmitQuote("BINANCE", t[1], t[2])
  /\ UNCHANGED <<pricing, second, bybit, quotes, active, routed>>

\* tops of OKX and Coinbase: none with a side missing or zero.
Tops(t) == {t[1], t[2]} \cap {0, Undefined} = {}

OkxQuote ==
  /\ "OKX" \in pricing
  /\ \E t \in Tickers : Tops(t) /\ EmitQuote("OKX", t[1], t[2])
  /\ UNCHANGED <<pricing, second, bybit, quotes, active, routed>>

CoinbaseQuote ==
  /\ "COINBASE" \in pricing
  /\ \E t \in Tickers : Tops(t) /\ EmitQuote("COINBASE", t[1], t[2])
  /\ UNCHANGED <<pricing, second, bybit, quotes, active, routed>>

\* OPRA's record: an undefined price is no quote, a zero bid is one.
OpraQuote ==
  /\ "OPRA" \in pricing
  /\ \E t \in Tickers : Undefined \notin {t[1], t[2]} /\ EmitQuote("OPRA", t[1], t[2])
  /\ UNCHANGED <<pricing, second, bybit, quotes, active, routed>>

\* external: Bybit's book moves; a delta has only the sides that changed, and
\* names a side that went with size 0.
BookMoves ==
  /\ "BYBIT" \in pricing
  /\ bybit.msgs = <<>>
  /\ \E b \in BybitBooks :
       LET sides == {x \in {"bid", "ask"} : b[x] # bybit.book[x]}
       IN  /\ sides # {}
           /\ bybit' = [bybit EXCEPT !.book = b,
                          !.msgs = Append(@, [snapshot |-> FALSE, sides |-> sides, book |-> b])]
  /\ UNCHANGED <<pricing, second, emitting, quotes, active, routed>>

\* A new session: Bybit answers the subscription with a snapshot of the sides
\* there are.  The feed's books start empty with it.
BybitSession ==
  /\ "BYBIT" \in pricing
  /\ emitting["BYBIT"] = NoQuote
  /\ bybit' = [bybit EXCEPT !.msgs = <<[snapshot |-> TRUE, book |-> bybit.book,
                                        sides |-> {x \in {"bid", "ask"} : bybit.book[x] # 0}]>>,
                            !.top = [bid |-> 0, ask |-> 0]]
  /\ UNCHANGED <<pricing, second, emitting, quotes, active, routed>>

\* Faulty variant: a side that went keeps its last price.
TopAfterKeeps(top, m) ==
  [x \in {"bid", "ask"} |-> IF x \in m.sides /\ m.book[x] # 0 THEN m.book[x] ELSE top[x]]

\* run_session and level: a snapshot replaces the book, a delta the sides it
\* carries, and one of size 0 clears its side.
TopAfter(top, m) ==
  [x \in {"bid", "ask"} |-> IF x \in m.sides THEN m.book[x] ELSE IF m.snapshot THEN 0 ELSE top[x]]

\* A quote goes out only once both sides are known.
BybitReadsBook ==
  /\ bybit.msgs # <<>>
  /\ LET m == Head(bybit.msgs)
         top == TopAfter(bybit.top, m)
         whole == top.bid # 0 /\ top.ask # 0
     IN  /\ bybit' = [bybit EXCEPT !.msgs = Tail(@), !.top = top, !.wrong = @ \/ (whole /\ top # m.book)]
         /\ IF whole THEN EmitQuote("BYBIT", top.bid, top.ask) ELSE UNCHANGED emitting
  /\ emitting["BYBIT"] = NoQuote
  /\ UNCHANGED <<pricing, second, quotes, active, routed>>

-----------------------------------------------------------------------------
(* mark_router::run                                                        *)

\* accept: the owner, a better source, or any once the owner is stale.
Accept(q) ==
  \/ active.source \in {"none", q.source}
  \/ Rank[q.source] < Rank[active.source]
  \/ q.at >= active.at + StaleAfter

\* run: an unusable quote is skipped; an accepted one sets the mark.
RouteQuote ==
  /\ quotes # <<>>
  /\ quotes' = Tail(quotes)
  /\ LET q == Head(quotes)
         takes == Accept(q) /\ active.source # q.source
         seen == IF takes THEN [s \in Sources |-> 0] ELSE routed
     IN  IF q.usable
         THEN /\ active' = IF Accept(q) THEN [source |-> q.source, at |-> q.at] ELSE active
              /\ routed' = [seen EXCEPT ![q.source] = q.at]
         ELSE UNCHANGED <<active, routed>>
  /\ UNCHANGED <<pricing, second, bybit, emitting>>

Second ==
  /\ second < MaxSeconds
  /\ second' = second + 1
  /\ UNCHANGED <<pricing, bybit, emitting, quotes, active, routed>>

RouterNext ==
  \/ BinanceQuote \/ OkxQuote \/ CoinbaseQuote \/ OpraQuote
  \/ \E s \in pricing : SendQuote(s)
  \/ BookMoves \/ BybitSession \/ BybitReadsBook
  \/ RouteQuote \/ Second

-----------------------------------------------------------------------------
\* The mark is the best there is.  While a source owns it no better ranked one
\* gets a usable quote past the router, and none a quote StaleAfter or more later
\* than the mark's, so an owner that stops ticking never freezes it; and what
\* Bybit's feed put together was Bybit's book.
MarkIsBest ==
  /\ ~ bybit.wrong
  /\ \A s \in Sources : routed[s] > 0 =>
       Rank[active.source] <= Rank[s] /\ routed[s] < active.at + StaleAfter
=============================================================================

------------------------- MODULE FeedSubscriptions -------------------------
(***************************************************************************)
(* What is held, kept in step with what the quote feeds subscribe.          *)
(*                                                                         *)
(*   market_data::run   re-reads the held instruments on a position event   *)
(*                      and every minute, and tells the gateway the change  *)
(*   MdHandle           who wants each instrument priced: the held set, and *)
(*                      the strategies checking an order                    *)
(*   FeedSession        per feed, works out what it covers, subscribes it,  *)
(*                      and pushes what is newly wanted into the session    *)
(*                                                                         *)
(* A feed knows instruments by its own symbols, one instrument for each: a  *)
(* pair that two venues list has one symbol at Bybit's feed, which covers   *)
(* the pairs of any venue.                                                  *)
(***************************************************************************)
EXTENDS Naturals, Sequences

CONSTANTS
  Instruments,  \* instrument ids, numbers
  Listing,      \* the symbol, instrument class and venue of an instrument, and
                \* whether its symbol has a dash
  Feeds,        \* among BINANCE, BYBIT, COINBASE, OKX and OPRA
  AddsCap,      \* how many additions may wait for a feed
  MaxTrades,    \* how often a position may open or close
  MaxFeedEnds   \* how often a feed's session may end

ASSUME SubscriptionsAssumption ==
  /\ Instruments \subseteq Nat /\ DOMAIN Listing = Instruments
  /\ AddsCap \in Nat \ {0} /\ {MaxTrades, MaxFeedEnds} \subseteq Nat

\* candidates: Bybit's feed leaves the venue open.
Candidates(f) ==
  [class |-> IF f = "OPRA" THEN "OPTION" ELSE "SPOT",
   venue |-> IF f = "BYBIT" THEN {"BINANCE", "BYBIT", "COINBASE", "OKX"} ELSE {f}]

\* to_feed_symbol: a dashed symbol is no pair of Bybit's, else it is the symbol's own.
HasFeedSymbol(f, i) == f = "BYBIT" => ~ Listing[i].dashed

\* covers: everything the filter asks for, and a symbol.
Covers(f) == {i \in Instruments : /\ Listing[i].class = Candidates(f).class
                                  /\ Listing[i].venue \in Candidates(f).venue
                                  /\ HasFeedSymbol(f, i)}

Symbol(i) == Listing[i].symbol

VARIABLES
  positions,  \* the position table: instruments held
  laneNews,   \* whether a position event is waiting on the order lane
  sent,       \* market_data::run: what it last told the gateway
  owners,     \* MdHandle: who wants each instrument
  feeds,      \* FeedSession: [pc, seen, known, adds, subscribed] of each feed
  allowed     \* trades and session ends still allowed

subscriptionVars == <<positions, laneNews, sent, owners, feeds, allowed>>

\* A feed's symbols, as pairs of a symbol and the instrument it prices.
Symbols(pairs) == {p[1] : p \in pairs}

Sleeping == [pc |-> "idle", seen |-> TRUE, known |-> {}, adds |-> <<>>, subscribed |-> {}]

SubscriptionsInit ==
  /\ positions = {} /\ laneNews = FALSE /\ sent = {}
  /\ owners = [i \in Instruments |-> {}]
  /\ feeds = [f \in Feeds |-> Sleeping]
  /\ allowed = [trades |-> MaxTrades, ends |-> MaxFeedEnds]

-----------------------------------------------------------------------------
(* The held set                                                            *)

\* external: a position opens or closes; its event may be another process's.
HeldMoves(i) ==
  /\ allowed.trades > 0
  /\ positions' = IF i \in positions THEN positions \ {i} ELSE positions \cup {i}
  /\ laneNews' \in {TRUE, laneNews}
  /\ allowed' = [allowed EXCEPT !.trades = @ - 1]
  /\ UNCHANGED <<sent, owners, feeds>>

\* update: nobody's instruments go, and a changed union wakes every feed.
Wanted(who) == {i \in Instruments : who[i] # {}}

SetOwners(who) ==
  /\ owners' = who
  /\ feeds' = [f \in Feeds |-> [feeds[f] EXCEPT !.seen = @ /\ Wanted(who) = Wanted(owners)]]

\* subscribe and unsubscribe
Subscribed(who, o, ids) == [i \in Instruments |-> IF i \in ids THEN who[i] \cup {o} ELSE who[i]]

Unsubscribed(who, o, ids) == [i \in Instruments |-> IF i \in ids THEN who[i] \ {o} ELSE who[i]]

\* Faulty variant: only an event wakes it.
RereadOnNews ==
  /\ laneNews
  /\ laneNews' = FALSE
  /\ sent' = positions
  /\ SetOwners(Unsubscribed(Subscribed(owners, "held", positions \ sent), "held", sent \ positions))
  /\ UNCHANGED <<positions, allowed>>

\* run, woken by an event (next_recheck drains what is queued) or the minute;
\* diff is what held_instruments has and lacks against what was sent.
RereadHeld ==
  /\ laneNews \/ sent # positions
  /\ laneNews' = FALSE
  /\ sent' = positions
  /\ SetOwners(Unsubscribed(Subscribed(owners, "held", positions \ sent), "held", sent \ positions))
  /\ UNCHANGED <<positions, allowed>>

\* reference_mark subscribes for a strategy's order; the strategy lets all go
\* when it stops.
StrategyWants(i) ==
  /\ "strategy" \notin owners[i] /\ allowed.trades > 0
  /\ SetOwners(Subscribed(owners, "strategy", {i}))
  /\ allowed' = [allowed EXCEPT !.trades = @ - 1]
  /\ UNCHANGED <<positions, laneNews, sent>>

StrategyStops ==
  /\ \E i \in Instruments : "strategy" \in owners[i]
  /\ SetOwners(Unsubscribed(owners, "strategy", Instruments))
  /\ UNCHANGED <<positions, laneNews, sent, allowed>>

-----------------------------------------------------------------------------
(* A feed's session                                                        *)

\* covered: a symbol that several instruments share is the last one's.
Covered(f) ==
  LET want == Covers(f) \cap Wanted(owners)
  IN  {<<Symbol(i), i>> : i \in {j \in want : \A k \in want : Symbol(k) = Symbol(j) => k <= j}}

\* run_once: waits until the feed covers something wanted, then subscribes it.
SessionStarts(f) ==
  /\ feeds[f].pc = "idle" /\ Covered(f) # {}
  /\ feeds' = [feeds EXCEPT ![f] = [pc |-> "running", seen |-> TRUE, known |-> Covered(f),
                                    adds |-> <<>>, subscribed |-> Covered(f)]]
  /\ UNCHANGED <<positions, laneNews, sent, owners, allowed>>

\* watch_held: what is newly wanted goes to the feed, waiting for room; a symbol
\* it already has is not sent again.
WatchHeld(f) ==
  /\ feeds[f].pc = "running" /\ ~ feeds[f].seen
  /\ LET s == feeds[f]
         new == {p \in Covered(f) : p[1] \notin Symbols(s.known)}
     IN  /\ new # {} => Len(s.adds) < AddsCap
         /\ feeds' = [feeds EXCEPT ![f].seen = TRUE, ![f].known = @ \cup new,
                        ![f].adds = IF new = {} THEN @ ELSE Append(@, new)]
  /\ UNCHANGED <<positions, laneNews, sent, owners, allowed>>

\* run_session: the feed takes an addition and subscribes it.
TakeAdds(f) ==
  /\ feeds[f].pc = "running" /\ feeds[f].adds # <<>>
  /\ feeds' = [feeds EXCEPT ![f].subscribed = @ \cup Head(feeds[f].adds), ![f].adds = Tail(@)]
  /\ UNCHANGED <<positions, laneNews, sent, owners, allowed>>

\* The venue closes it or an error ends it; what waited goes with it.
SessionEnds(f) ==
  /\ feeds[f].pc = "running" /\ allowed.ends > 0
  /\ feeds' = [feeds EXCEPT ![f] = [Sleeping EXCEPT !.seen = feeds[f].seen]]
  /\ allowed' = [allowed EXCEPT !.ends = @ - 1]
  /\ UNCHANGED <<positions, laneNews, sent, owners>>

FeedStep(f) == SessionStarts(f) \/ WatchHeld(f) \/ TakeAdds(f)

SubscriptionsNext ==
  \/ \E i \in Instruments : HeldMoves(i) \/ StrategyWants(i)
  \/ RereadHeld \/ StrategyStops
  \/ \E f \in Feeds : FeedStep(f) \/ SessionEnds(f)

-----------------------------------------------------------------------------
\* Once positions and sessions rest, every instrument held is subscribed, under
\* its symbol, at every feed that covers it, whatever session ends, additions and
\* re-reads raced on the way.
HeldIsSubscribed ==
  <>[] (\A f \in Feeds : \A i \in Covers(f) \cap positions : Symbol(i) \in Symbols(feeds[f].subscribed))
=============================================================================

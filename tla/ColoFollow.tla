------------------------------ MODULE ColoFollow ------------------------------
(***************************************************************************)
(* Booking what a co-located strategy trades on its own venue account      *)
(* (colo/follow.rs, colo/booking.rs, colo/mod.rs).  A follow stream        *)
(* reports orders and fills while it is up; after every (re)connect the    *)
(* trade history of the last day fills the gap, pair by pair and page by   *)
(* page.  A fill is booked in two steps, an external order and then its    *)
(* fill through the order engine, with a crash possible in between; it may *)
(* arrive live and again from the history.  One strategy; each venue order *)
(* has one trade.                                                          *)
(***************************************************************************)
EXTENDS Naturals, FiniteSets, FiniteSetsExt, Sequences

CONSTANTS
  Trades,       \* venue trade ids, ascending
  Pairs,
  PairOf,       \* the pair of each trade: Binance numbers trades per pair
  PageSize,     \* trades a my_trades answer holds (1000 in the code)
  MaxDrops,     \* stream drops and process crashes
  MaxFails,     \* failed database or venue calls, events the engine lost
  MaxKeys       \* how often the follow key is stored or taken away

ASSUME FollowAssumption ==
  /\ Trades \subseteq Nat /\ IsFiniteSet(Trades)
  /\ Pairs \subseteq Nat /\ PairOf \in [Trades -> Pairs]
  /\ PageSize \in Nat \ {0} /\ {MaxDrops, MaxFails, MaxKeys} \subseteq Nat

VARIABLES
  venue,     \* per trade: "none", its order "open", or "done"
  since,     \* follow_since: whether following began, and the trades before it
  old,       \* trades more than a day old
  key,       \* strategy.follow_credentials: 0 none, else which key
  running,   \* ColoHub::followed: the key the stream was started with (0: none)
  adapter,   \* ColoHub::adapters: the key of the adapter (0: none)
  stream,    \* the follow stream: "off", "down", "up"
  seen,      \* Runtime::seen_symbols
  events,    \* the worker's queue
  worker,    \* what it is doing: [pc, gap, pairs, start, from, page], the page a set
  row,       \* order_state per trade: "missing", "routed", "filled"
  engine,    \* fills handed to the order engine, not yet applied
  position,  \* how often each trade moved the position
  unread,    \* history: gap fills that could not read follow_since
  drops, fails, keys

followVars == <<venue, since, old, key, running, adapter, stream, seen, events, worker,
                row, engine, position, unread, drops, fails, keys>>
account == <<venue, since, old>>
follows == <<key, running, adapter, stream>>
books == <<row, engine, position>>
spent == <<drops, fails, keys>>

Idle == [pc |-> "idle", gap |-> FALSE, pairs |-> {}, start |-> "since", from |-> 0, page |-> {}]

\* At boot, with a follow key stored earlier or without one.
FollowInit ==
  /\ venue = [t \in Trades |-> "none"] /\ old = {}
  /\ key \in {0, 1} /\ running = key /\ adapter = key
  /\ stream = IF key = 0 THEN "off" ELSE "down"
  /\ since = [set |-> key # 0, before |-> {}]
  /\ seen = {} /\ events = <<>> /\ worker = Idle
  /\ row = [t \in Trades |-> "missing"] /\ engine = <<>>
  /\ position = [t \in Trades |-> 0]
  /\ unread = 0
  /\ drops = 0 /\ fails = 0 /\ keys = 0

Fail == fails < MaxFails /\ fails' = fails + 1 /\ UNCHANGED <<drops, keys>>

-----------------------------------------------------------------------------
(* The account, and the stream's reports of it.  Runtime::apply notes the  *)
(* pair of an order or fill before the worker gets the event; an opened or *)
(* closed order books nothing.                                             *)

Report(e, t) ==
  IF stream = "up" THEN events' = events \o e /\ seen' = seen \cup {PairOf[t]}
                   ELSE UNCHANGED <<events, seen>>

Place(t) ==
  /\ venue[t] = "none" /\ \A u \in Trades : u < t => venue[u] # "none"
  /\ venue' = [venue EXCEPT ![t] = "open"]
  /\ Report(<<>>, t)
  /\ UNCHANGED <<since, old, follows, worker, books, unread, spent>>

\* follow_events: TRADE is a fill and, here, the end of the order.  Ids ascend
\* with the trades of a pair.
Trade(t) ==
  /\ venue[t] = "open"
  /\ \A u \in Trades : u < t /\ PairOf[u] = PairOf[t] => venue[u] = "done"
  /\ venue' = [venue EXCEPT ![t] = "done"]
  /\ since' = IF since.set THEN since ELSE [since EXCEPT !.before = @ \cup {t}]
  /\ Report(<<[kind |-> "fill", trade |-> t]>>, t)
  /\ UNCHANGED <<old, follows, worker, books, unread, spent>>

\* A day after the trade nothing asks for it any more.  The clock passes only
\* while the worker waits: a gap fill takes seconds.
DayPasses(t) ==
  /\ venue[t] = "done" /\ t \notin old /\ worker = Idle /\ stream # "up"
  /\ Fail
  /\ old' = old \cup {u \in Trades : u <= t /\ venue[u] = "done"}
  /\ UNCHANGED <<venue, since, follows, seen, events, worker, books, unread>>

-----------------------------------------------------------------------------
(* The follow stream                                                       *)

\* follow_plan and sync_follows, after a registry write left key k: a changed
\* key restarts the stream, a missing one stops it.  Without a master key, or
\* with a key that does not open, what ran keeps running.
SyncFollows(k, usable) ==
  IF k = 0
    THEN running' = 0 /\ adapter' = 0 /\ stream' = "off"
  ELSE IF running = k \/ ~ usable
    THEN UNCHANGED <<running, adapter, stream>>
    ELSE running' = k /\ adapter' = k /\ stream' = "down"

\* put_follow_credentials, or an update that takes the strategy off COLOCATED
PutKey(k, usable) ==
  /\ keys < MaxKeys /\ keys' = keys + 1
  /\ k = 0 => key # 0
  /\ key' = k
  /\ since' = IF k # 0 THEN [since EXCEPT !.set = TRUE] ELSE since
  /\ SyncFollows(k, usable)
  /\ UNCHANGED <<venue, old, seen, events, worker, books, unread, drops, fails>>

\* connect_and_run: subscribed, so the gap can be filled
Connect ==
  /\ stream = "down"
  /\ stream' = "up"
  /\ events' = Append(events, [kind |-> "connected"])
  /\ UNCHANGED <<account, key, running, adapter, seen, worker, books, unread, spent>>

Drop ==
  /\ stream = "up" /\ drops < MaxDrops /\ drops' = drops + 1
  /\ stream' = "down"
  /\ UNCHANGED <<account, key, running, adapter, seen, events, worker, books, unread, fails, keys>>

\* The process dies: what is not in the database is gone; boot follows again.
Crash ==
  /\ drops < MaxDrops /\ drops' = drops + 1
  /\ running' = key /\ adapter' = key
  /\ stream' = IF key = 0 THEN "off" ELSE "down"
  /\ seen' = {} /\ events' = <<>> /\ worker' = Idle /\ engine' = <<>>
  /\ UNCHANGED <<account, key, row, position, unread, fails, keys>>

-----------------------------------------------------------------------------
(* The worker: one event at a time                                         *)

\* An event that finds no adapter is skipped.
NextEvent ==
  /\ worker.pc = "idle" /\ events # <<>>
  /\ LET e == Head(events) IN
     worker' = IF adapter = 0 THEN Idle
               ELSE IF e.kind = "fill"
                 THEN [Idle EXCEPT !.pc = "book", !.page = {e.trade}]
                 ELSE [Idle EXCEPT !.pc = "gap", !.gap = TRUE]
  /\ events' = Tail(events)
  /\ UNCHANGED <<account, follows, seen, books, unread, spent>>

Open == {t \in Trades : venue[t] = "open"}
PairsOf(S) == {PairOf[t] : t \in S}

\* recon_symbols: booked, open now, or seen on the account
Askable == PairsOf({t \in Trades : row[t] # "missing"}) \cup PairsOf(Open) \cup seen

\* recon_start: a day back, but never before following began
Recent(t) == venue[t] = "done" /\ t \notin old /\ t \notin since.before

\* fill_gap: the pairs to ask about, and from when.  open_orders or the query of
\* the booked pairs fails: asked without them.  The query of follow_since fails:
\* asked for the whole day.
GapBegin ==
  /\ worker.pc = "gap"
  /\ \E pairs \in {Askable, seen}, start \in {"since", "day"} :
       /\ worker' = [worker EXCEPT !.pc = "page", !.pairs = pairs, !.start = start]
       /\ unread' = IF start = "day" THEN unread + 1 ELSE unread
       /\ IF pairs = Askable /\ start = "since" THEN UNCHANGED spent ELSE Fail
  /\ UNCHANGED <<account, follows, seen, events, books>>

\* What my_trades answers: the lowest ids after the cursor, at most PageSize.
PageOf(p) ==
  LET left == {t \in Trades :
                 /\ PairOf[t] = p /\ t > worker.from
                 /\ venue[t] = "done" /\ t \notin old
                 /\ worker.start = "since" => t \notin since.before}
  IN {t \in left : Cardinality({u \in left : u < t}) < PageSize}

\* The pairs in order; my_trades and next_page: a full page is followed by the
\* one after its last trade, a short one ends the pair.
GapPage ==
  /\ worker.pc = "page"
  /\ IF worker.pairs = {} THEN worker' = Idle /\ UNCHANGED spent
     ELSE LET p == Min(worker.pairs)
              page == PageOf(p)
              next == [worker EXCEPT !.pc = "page", !.pairs = @ \ {p}, !.from = 0]
          IN \/ /\ worker' = CASE page = {} -> next
                              [] Cardinality(page) = PageSize ->
                                   [worker EXCEPT !.pc = "book", !.page = page, !.from = Max(page)]
                              [] OTHER -> [next EXCEPT !.pc = "book", !.page = page]
                /\ UNCHANGED spent
             \/ \* the history is unavailable: this pair's gap is not filled
                worker' = next /\ Fail
  /\ UNCHANGED <<account, follows, seen, events, books, unread>>

\* The trade being booked: a page is booked in the order of its ids.
Booking == Min(worker.page)

\* A gap fill goes on with its next trade or page, a live fill is done.
After == IF worker.page # {Booking} THEN [worker EXCEPT !.pc = "book", !.page = @ \ {Booking}]
         ELSE IF worker.gap THEN [worker EXCEPT !.pc = "page", !.page = {}]
         ELSE Idle

\* Faulty variant: an order that exists is taken as booked.
BookReadExists ==
  /\ worker.pc = "book"
  /\ worker' = IF row[Booking] = "missing" THEN [worker EXCEPT !.pc = "insert"] ELSE After
  /\ UNCHANGED <<account, follows, seen, events, books, unread, spent>>

\* book_fill: existing_order decides from the row as it is now.
BookRead ==
  /\ worker.pc = "book"
  /\ worker' = CASE row[Booking] = "filled" -> After
                 [] row[Booking] = "routed" -> [worker EXCEPT !.pc = "send"]
                 [] row[Booking] = "missing" -> [worker EXCEPT !.pc = "insert"]
  /\ UNCHANGED <<account, follows, seen, events, books, unread, spent>>

\* The order, submitted and routed, in one transaction; a failure (also of
\* ensure_instrument) leaves the trade to the next reconnect.
BookInsert ==
  /\ worker.pc = "insert"
  /\ \/ /\ row' = [row EXCEPT ![Booking] = "routed"]
        /\ worker' = [worker EXCEPT !.pc = "send"]
        /\ UNCHANGED spent
     \/ worker' = After /\ Fail /\ UNCHANGED row
  /\ UNCHANGED <<account, follows, seen, events, engine, position, unread>>

SendFill ==
  /\ worker.pc = "send"
  /\ engine' = Append(engine, Booking)
  /\ worker' = After
  /\ UNCHANGED <<account, follows, seen, events, row, position, unread, spent>>

\* Faulty variant: a fill the order already has is booked again.
EngineBooksAgain ==
  /\ engine # <<>>
  /\ row' = [row EXCEPT ![Head(engine)] = "filled"]
  /\ position' = [position EXCEPT ![Head(engine)] = @ + 1]
  /\ engine' = Tail(engine)
  /\ UNCHANGED <<account, follows, seen, events, worker, unread, spent>>

\* apply_exec: a fill whose execution id the order already has books nothing;
\* after its retries a booking that keeps failing is dropped.
EngineBooks ==
  /\ engine # <<>>
  /\ LET t == Head(engine) IN
     \/ /\ row' = [row EXCEPT ![t] = "filled"]
        /\ position' = [position EXCEPT ![t] = IF row[t] = "filled" THEN @ ELSE @ + 1]
        /\ UNCHANGED spent
     \/ Fail /\ UNCHANGED <<row, position>>
  /\ engine' = Tail(engine)
  /\ UNCHANGED <<account, follows, seen, events, worker, unread>>

Worker == NextEvent \/ GapBegin \/ GapPage \/ BookRead \/ BookInsert
          \/ SendFill

FollowNext ==
  \/ \E t \in Trades : Place(t) \/ Trade(t) \/ DayPasses(t)
  \/ \E k \in {0, keys + 2}, usable \in BOOLEAN : PutKey(k, usable)
  \/ Connect \/ Drop \/ Crash \/ Worker \/ EngineBooks

\* The worker and the engine are loops of their own tasks; the stream is
\* supervised and reconnects.
FollowFairness ==
  /\ WF_followVars(Worker) /\ WF_followVars(EngineBooks) /\ WF_followVars(Connect)

FollowSpec == FollowInit /\ [][FollowNext]_followVars /\ FollowFairness

-----------------------------------------------------------------------------
\* A trade moves the position exactly when its order is filled, once, however
\* often it was reported and whatever died in between, and nothing from before
\* following began is booked while follow_since can be read.
EachTradeOnce ==
  \A t \in Trades : /\ position[t] = (IF row[t] = "filled" THEN 1 ELSE 0)
                    /\ t \in since.before /\ unread = 0 => row[t] = "missing"

Reconnecting == \E i \in DOMAIN events : events[i].kind = "connected"

\* Once nothing fails any more, a reconnect books every trade of the last day
\* on every pair that is booked, open or seen, also one whose order was
\* committed by a process that died before its fill was sent.
GapHeals ==
  \A t \in Trades :
    (/\ drops = MaxDrops /\ fails = MaxFails /\ keys = MaxKeys
     /\ stream = "up" /\ Reconnecting /\ Recent(t) /\ PairOf[t] \in Askable)
    ~> row[t] = "filled"
=============================================================================

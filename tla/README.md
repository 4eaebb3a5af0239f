# A TLA+ model of OpenOMS

OpenOMS is an order management system written in Rust on PostgreSQL. Clients
submit orders over REST or FIX; the OMS checks them, stores them, sends them to
a broker or exchange, books what comes back and keeps positions. This directory
holds TLA+ modules that model it, TLC configurations that check them on small
instances, and TLAPS proofs that carry the central results to every instance.
Paths below are relative to the repository; `src/src/x.rs` is the OMS's own
crate and `src/crates/` holds its libraries.

Contents:

1. [The system](#1-the-system)
2. [What is modelled](#2-what-is-modelled)
3. [The runs](#3-the-runs)
4. [What the code does not do](#4-what-the-code-does-not-do)
5. [Bounds and fairness](#5-bounds-and-fairness)
6. [The proofs](#6-the-proofs)
7. [Abstractions](#7-abstractions)
8. [What is not modelled](#8-what-is-not-modelled)
9. [Plan](#9-plan)

## 1. The system

### Components, their state and operations

| Component | State it keeps | Operations |
|---|---|---|
| Order aggregate (`domain/orders/`) | the state folded from one order's events | `decide` for ten commands, `apply`, `replay` |
| Order entry (`order_entry.rs`) | rows `order_state`, `order_event` | submit (risk transaction, broker call, routing transaction), cancel |
| Execution engine (`order_engine.rs`, `execution.rs`) | a bounded channel, the reports of the event in hand, a slot per connection | take an event, turn it into reports, book each with retries; start reconcile passes |
| Reconciliation (`recon_orders.rs`) | none of its own | load working orders, load stuck orders, snapshot the venue, resolve |
| Event store (`event_store.rs`) | `order_event`, the version of each stream | append if the expected version still holds |
| Strategy registry and gate (`strategies/mod.rs`, `guard.rs`) | row `strategy`, an in-memory snapshot of it | lock, check state, session and limits; reload |
| Strategy control (`strategies/control.rs`) | row `strategy` | Kill, Flatten, Enable, cancel of all open orders |
| FIX sessions (`strategies/session.rs`, `gateway/fix_acceptor`) | live sessions, requests in flight, `fix_report_queue` | logon, logout, requests, report delivery |
| Position projection (`positions.rs`) | rows `position` | apply a fill, transfer, rebuild |
| Allocations (`handlers.rs`) | rows `allocation` | split a block order among portfolios |
| Kafka outbox (`kafka_outbox.rs`) | rows `kafka_outbox`, `kafka_position_outbox` | fetch, deliver, acknowledge |
| Event bus and UI updates (`event_bus.rs`, `live_updates.rs`) | two broadcast channels, a socket per screen | publish after commit, subscribe, notify |
| Co-located strategies (`colo/`, `crates/colo-*`) | follow streams, link slots, cancel budgets | follow an account, book its trades, kill and sweep, push limits and positions |
| Jobs and expiry (`jobs/`, `expiry.rs`) | job rows, instruments | claim, run, record; retire expired contracts |
| Live reload and credentials (`reload.rs`, `credentials*.rs`) | sealed credential rows, adapters, streams | save, test, delete, reload, rotate the key |
| Access (`auth*.rs`, `sessions.rs`, `oidc.rs`) | sessions, keys, grants, principals, signing keys | sign in, resolve a request, revoke, keep alive |
| Market data (`market_data.rs`, `mark_router.rs`, `gateway/md`) | wanted instruments, subscriptions, marks | subscribe, route quotes, poll closes |
| Venue connectors (`gateway/connectors`, `gateway/fix`) | venue sessions, waiters | submit, stream, list open orders, look up one |
| Routing and administration (`admin.rs`, `handlers.rs`) | accounts, connections, portfolios, limits | resolve, check and send an order; edit rows |
| Setup (`setup/`, `config.rs`, `main.rs`) | config file, database, master key, binary | init, migrate, import, rotate, update, start |

### How they interact

Nothing in the OMS locks an order for longer than one transaction. The row
`order_state` carries a version; whoever writes it read it before, in another
transaction or at an earlier statement, and the write only succeeds if the
version is unchanged (and if the event stream still has the expected length).
Those who compete for one order are the submit task, which comes back from a
slow broker call; any client, Kill or restart that cancels; and the engine.
The engine is a single consumer: execution streams, reconciliation and submit
itself reach it through one channel, so two fills never race with each other,
but a fill races with routing and with a local cancel.

The venue is outside all of this. It can have an order the OMS believes
canceled, or have filled one whose submit call timed out. Its stream may lose
messages at a reconnect, and what a message says differs by venue: single
fills, cumulative states, or both on topics that are not ordered with each
other. Reconciliation asks the venue for its open orders and the status of
single orders, and turns the answers into events for the engine.

Submits of one strategy serialize on the strategy's row (`FOR UPDATE`), and so
does every statement that lists its orders for cancellation. Fills do not take
that row. The decision to accept a REST token or a FIX logon is taken from an
in-memory snapshot of the registry that a concurrent reload may have put back
to an older state.

A committed event goes out by three ways. Triggers queue it for Kafka and for
the strategy's FIX session in the same transaction; the in-process bus only
wakes the readers of those queues and the open screens, and may drop what a
slow one has not taken.

A co-located strategy trades on its own venue account. The OMS only follows it,
books what it sees, and can cancel with a key of its own; what the strategy is
told of limits, positions and Kill reaches it over a link that breaks.

### What is hard here, and what correctness means

The list "hazards" in `PROJECT.json` gives each place in the code. In short:

* *One order, several writers.* No update may get lost, the row must be the
  fold of its events, and the position must move exactly with booked fills.
* *Unknown outcomes.* After a timeout or a crash the OMS must not conclude that
  an order is gone while the venue may still work it, and must find out in the
  end.
* *Replay and loss.* The same executed quantity may be reported twice or not at
  all. Nothing may be booked twice; a closed order must be complete.
* *Stops.* Kill, Flatten and the end of a session race with orders that have
  passed their checks but are not committed. None may be left working.
* *Limits.* Two submits must not both fit into the same room.
* *Accounting.* Average cost is path dependent, a fill may flip a position, and
  a block may be allocated while fills arrive.
* *Feeds.* Positions are assigned before commits become visible; a consumer must
  still get the events of an order in order and all of them, over crashes
  between a send and its acknowledgement.
* *Configuration in motion.* Adapters, streams, accounts, limits, keys and
  sessions change while orders and requests are under way.
* *Several processes.* Setup commands and the server share a database, a config
  file and a key, and any of them may die between two steps.

## 2. What is modelled

Every definition that stands for code is listed in `PROJECT.json` under "map"
with its source lines. Names of operators follow the source where possible.
Definitions introduced by "Faulty variant" are not part of any specification:
each is the form a plausible bug would give the definition that follows it, and
serves to show that a property would notice.

Components that do not interact are checked side by side in one run. Its MC
module extends them all, and a variable `part` says which one a behaviour runs;
the others stay in one initial state. A property of one component is then
trivially true in the other parts, and complete in its own.

### `OrderDomain`, `OrderAggregate`

`OrderDomain` is the pure part: order states as records, the table of commands
each status admits (`AllowedKinds`, from `lifecycle.rs`), one `Decide...` per
command that yields the set of events it emits (empty if refused), one
`Apply...` per event, and `Rehydrate`, the fold of a stream. Average price is
kept as the traded notional. `OrderAggregate` runs any sequence of commands
with any arguments, zero and excessive ones included, on one stream: `state` is
the aggregate, `log` its events, and each action is one command through
`Commit` (decide, then apply). `Sums` has the two sums of the models, over a
finite set and along a sequence.

### `OrderPath`

One order, five parties. State: the row with the flag `ext` (a venue id is on
record), the `log`, the `position`; the engine's `queue` and the `reports` it
has derived from the event in hand; for submit, cancel and engine a `task` with
a program counter, the row it read and its attempts; the reconcile run; and,
external to the OMS, the `venue`, the call on the `wire` and the `stream`.

| Actions | Code |
|---|---|
| `Submit`, `SubmitRefused`, `NoAdapter`, `CallBroker`, `BrokerRejected`, `BrokerAccepted`, `RouteUnknown` | `submit` in `order_entry.rs`: TX1, `record_rejection`, the broker call and its three outcomes |
| `RouteRead`, `RecordId`, `RouteWrite`, `RouteConflict`, `RouteFails`, `UndoAtBroker`, `UndoFails` | `persist_routed` and what submit does with its result; also run by the engine for an acknowledgement found by recon |
| `CancelRequest`, `CancelLocally` | `cancel`: at the venue when an id is known, else locally |
| `EngineTake`, `BookedUnreadable`, `ApplyRead`, `ApplyWrite`, `ApplyConflict`, `ApplyFails` | `apply_exec`, `reports_for`, `process_execution_report`, `apply_once` |
| `ReconLoadWorking`, `ReconLoadStuck`, `ReconLoadFails`, `ReconSnapshot`, `ReconAct`, `ReconFails` | `run_order_reconcile` and its two sweeps |
| `Crash` | the process dies; database, venue and wire stay |
| `VenueAnswers`, `VenueFills`, `VenueCloses`, `Deliver`, `Lose` | external: the venue and its stream |

The constant `VenueStyles` selects how a connector reports: "report" (single
fills and bare closes, in order: Alpaca, Binance, FIX), "mixed" (fills, and a
close with the final state, on two topics without mutual order: Bybit), "state"
(cumulative states: OKX) and "blind" (the same, where an order cannot be looked
up by the client's id: Coinbase).

### `ReconcileSlot`

The coalescing of reconcile requests of one connection in `order_engine::run`:
`Take` starts a task or sets the rerun flag, `Begin` and `Finish` are a pass and
the decision after it, `Panic` ends a pass, and `Drop` is the guard that frees
the slot. Every step takes the one lock; anything may happen between two.

### `StrategyGate`

One strategy, several orders. The first transaction of `submit` is split where
others can interleave: `LockRow`, `ReadPosition` (session gate and the first
exposure query), `ReadWorking` (second query and all checks), `Admit` (insert
and commit), or `Refuse` at any point. `Fill` and `Close` are the engine's
commits, which do not wait for the strategy's row. A stop is `SetState` (the
UPDATE), `ReloadStopped`, `StopStrategy` (the listing and its cancels) and
`LogOutStopped`, a Flatten also `CloseOut` or `SkipCloseOut`; `Enable` is the
reload and the lifted bar of an Enable. `AbandonControl` is the reload that fails,
or the client that hangs up, with the row changed already. `ReloadQuery` and
`ReloadStore` are the two halves of another reload of the snapshot; `LoggedOn`,
`LoggedOut` and `OnSessionEnd` the life of a FIX session; `Crash`,
`BootRecovery` and `BootUnloaded` (the registry cannot be read) a restart. Each
use of `CancelOpen` may fail to list, or fail to cancel any part of what it
listed. `asked` collects the orders a cancel was sent for: a cancel is a request
to the venue, and how it ends is `OrderPath`'s subject. Three history variables:
`unsent`, the orders such a failure left out, `cleared`, that a Kill's report had
none, and `missed`, the quantity filled between the two reads of a check.

### `PositionBook`, `FeedSubscriptions`, `MarkRouter`, `DailyStats` (`MCPositionBook`)

`PositionBook`: one instrument, several portfolios. `apply_fill` and
`reduce_at_cost` are the arithmetic of `positions.rs` on exact fractions. The
engine's transaction is `LoadFill` (row lock) and `CommitFill` or `AbortFill`;
an allocation is `CheckAllocation` (outside any transaction, as in
`create_allocations`), `ReduceSource`, `LoadTarget` and `CommitAllocation` or
`AbortAllocation`, with the lock each statement takes. `Rebuild` is
`rebuild_positions`. Three variables are history: `cash`, the money that changed
hands; `raced`, the portfolios whose row a transaction that found none inserted
over another's; `crossed`, that an allocation was taken from a position on the
other side.

`FeedSubscriptions` follows a position to a subscription: `HeldMoves` opens or
closes one, `RereadHeld` is the loop of `market_data.rs`, `StrategyWants` and
`StrategyStops` the guard's wait for a quote; per feed, `SessionStarts`,
`WatchHeld`, `TakeAdds` and `SessionEnds` are the life of a `FeedSession` with
its bounded channel of additions. What a feed covers is computed as in the
connectors' `candidates` and `to_feed_symbol`.

`MarkRouter` follows a book to a mark: one action per feed that makes a quote
(Bybit's from one side at a time, on top of the side remembered), and
`RouteQuote`, the ownership rule of `mark_router.rs`, against a clock.
`DailyStats` is one poll of previous closes against reloads that publish other
sources.

### `OrderedFeed`, `EventFeeds` (`MCEventFeeds`)

`OrderedFeed` is an abstract specification: events are stored per order and
given to a subscriber, first in the order in which they were stored, again only
after a failure, and with `FairSpec` all of them in the end.

`EventFeeds` is how the code does it. `Insert` takes a position, `Commit` makes
the events visible and queues them (the triggers), `Publish` is the bus. Of the
three readers a behaviour runs one. *Kafka*: `FetchBatch`, `SendRecord`,
`SendFails`, `Ack`, `AckFails`, `Wake`. *FIX*: `Logon`, `Logout`, `Restart` and
`HandleInbound` are the acceptor, `ReportLoop` the live loop; both replay the
queue under the delivery lock with `ReplayBegin`, `SendReport`, `DeleteRow`,
`ReplayFails` and `ReplayEnd`. *UI*: `Subscribe`, `Opened`, `OnOrder`,
`TakeFast`, `Notice` and `CloseScreen`. `Crash` loses everything but the
database. The refinement mappings (`KafkaFeed`, `ReportFeed`) instantiate
`OrderedFeed` with what is committed and what was sent.

### `ColoFollow`, `ColoKill` (`MCColo`)

`ColoFollow`: the follow stream (`Connect`, `Drop`, `NextEvent`), the history
of the last day after every connect, by pair and page (`GapBegin`, `GapPage`),
and one booking at a time in the steps between which a process may die:
`BookRead`, `BookInsert`, `SendFill`, then `EngineBooks`. Follow keys are put
and taken away (`PutKey`, `SyncFollows`). A gap fill whose query of
`follow_since` fails asks for the whole day, so it may book trades from before
following began, which its comment does not say (follow.rs, `fill_gap`);
`unread` counts such fills, and `EachTradeOnce` excludes them.

`ColoKill`: `KillSetState`, `KillReload`, `KillList` and `KillCancel` are the
request, which `KillAbandoned` ends with the row set and nothing else done;
`ReloadRead` and `ReloadStored` are a reload by another admin write, which may
store an older state over it. `OnOpened` and `FightCancel` are the cancel on
sight, `SweepBegin`, `SweepList` and `SweepCancel` the sweep, within one budget
that `SecondPasses` renews. `AdapterRemoved` and `AdapterSet` are what
`sync_follows` does to the adapter all of them need. The strategy places what it
likes, each order once.

### `Access`, `SignIn`, `ColoLink` (`MCAccess`)

`Access`: a request through the middleware, statement by statement (`Lookup`,
`VerifyKey`, `CheckExpiry`, `Touch`, `AskGrant`, `Answer`), a screen's socket
(`OpenSocket`, `KeepAliveTick`, `KeepAliveHiccup`), logout, the sweep, and what
an administrator takes away or gives: principals, sessions, keys, trading
tokens, grants. `SignIn`: `BeginLogin`, `Callback`, `Exchange`, `RefreshKeys`,
`VerifyToken`, `Resolve`, `Insert` and `FinishLogin` of concurrent logins,
against an administrator who writes the same rows and a provider that rotates
its keys. `ColoLink`: the control link a strategy opens with its token. Both
ends of a connection (`LinkConnect`, `SendState`, `SendPush`, `OnControl`,
`LinkBreaks`), the changes that are pushed over it (Kill, Enable, limits, booked
positions), the dead man's switch and the quoting loop with its own limit check.
A Kill, an Enable or a change of limits is its UPDATE, the query of its reload,
the store of what that query read, and its push; each statement may fail
(`SetFails`, `ReloadFails`, `LimitsReadFails`), `validate_comp_ids` may refuse
after the UPDATE (`LimitsRefused`), and of two reloads the older may be stored
last. The history `behind` says what the snapshot lacks for these reasons, and
`link.untold` what the strategy was therefore not told.

### `ConnectionReload`, `Jobs` (`MCOperations`)

`ConnectionReload`: admin requests that save, test, delete or disable, and the
pass each of them runs: `ReloadSnapshot`, `ReloadSwap`, `StreamAbort`,
`StreamStart`, `StreamStop`, the feed's own steps and `ReloadAnswer`.
`RotateRead` and `RotateCommit` are another process; `EditKey` and `Restart`
follow it. An adapter carries the number of the pass that built it. A connection
is a session of its own, or bound to a FIX session (`OnFix`), or neither: the
session of the second runs from boot to the end of the process, and no pass
starts, stops or replaces it.

`Jobs`: `Ask`, `Insert`, `Lookup`, `Start`, the steps of a load (`LoadMaster`,
`LoadDates`, `LoadMappings`), `JobSweep`, `Backfill`, `WorkFails` and `Record`
for each job, the hourly pass of `expiry.rs`, and `CrashAndBoot`.
`InsertUnanswered` is a job whose row is committed but whose worker never
starts; `SyncBroker` is the command that loads a universe without a job.
`BootLoad` is the load boot asks for itself, of a connection with nothing mapped
whose latest load did not fail and was not interrupted; it is started before
requests are served.

### `RestConnectors`, `OpenOrderPages`, `FixSession` (`MCConnectors`)

What stands between `OrderPath`'s venue and the real ones. `RestConnectors`
gives, for Alpaca, Binance, Bybit, Coinbase and OKX, the verdict on every kind
of answer to a submit, the reading of every kind of push, the life of the
stream (`Dial`, `Authenticated`, `Asked`, `GoLive`, `StreamEnds`) and the sweep
(`OpenOrders`, `OrderStatus`, `SweepFails`). `OpenOrderPages` is the paging of
`open_orders` while orders open and close. `FixSession` is the FIX adapter: the
waiters for an acknowledgement, a mass status batch and a single status, their
timeouts, the callbacks that resolve them, and a session that drops.

### `FixRequests`, `Routing`, `Setup` (`MCDesk`, with `OrderAggregate`)

`FixRequests`: `StrategySends`, `RunLoop` and `Dispatch`, one task per request
(`Wait`, `HandleNewOrder`, `Store`, `Route`, `CheckStored`, `HandleCancel`,
`HandleStatus`, `HandleSecurityList`), the `InFlight` map and `Restart` of the
acceptor. `Routing`: `SubmitDesk` or `SubmitStrategy`, `Preflight`,
`CheckLimit`, `Send` and `CancelRouted` of one order while `UpdatePortfolio`,
`UpdateAccount`, `JudgeUpdate`/`WriteUpdate`, `PutConnections`, `ChangeLimit`
and `ChangeCatalog` rewrite the rows it depends on. `Setup`: each command of
`oms` as its steps, on two terminals, any of which may die; `WouldStart` is
what `serve` and `preflight.rs` ask for.

## 3. The runs

State counts are distinct states of a complete search.

| Run | States | What it shows |
|---|---|---|
| `path` | 3.0 M | Submit, a cancel, the engine and recon on one two-lot order, with one fault of any kind and one lost message where events are cumulative: the row is the fold of its events and the position the booked quantity (`RowIsFold`), nothing is booked twice and a closed order has booked all the venue executed (`AllExecutionsBooked`), no order is closed while the venue has it or may still get it (`ClosedOnlyAfterVenue`). |
| `path_live` | 410 k | Under fairness, with one fault and one loss, an order leaves *submitted* and its close at the venue is learned (`OrdersSettle`). |
| `gate` | 5.5 M | Orders from REST, FIX and Flatten against two control actions, two FIX sessions, and two of stale reload, restart and failure: a Kill that reports no failure reaches every order and any other leaves only what its failure left out (`KillReachesAll`), nothing is placed while halted (`NothingAdmittedWhileHalted`), no FIX order is left working once the sessions are gone, but for the same (`NoneWorksUnattended`), and the position limit holds up to what filled inside a check (`LimitHeld`). |
| `book` | 616 k | Three orders in two portfolios, of which one has no row yet, and two allocation requests at once: no quantity or profit appears or gets lost, but for a row inserted twice and for the sum once an allocation came from the other side (`BooksBalance`), replaying the log gives the same positions (`RebuildAgrees`). What is held comes to be subscribed (`HeldIsSubscribed`); mark and previous close are the best and the instrument's own (`PricesRight`). |
| `feeds` | 247 k | Commits out of position order, failed sends and statements, restarts and crashes: Kafka and FIX reports each implement `OrderedFeed` (`KafkaInOrder`, `ReportsInOrder`), what is queued goes out (`EventuallyOut`), and a screen that shows old data has a notice coming (`ScreenKnows`). |
| `colo` | 361 k | A followed trade is booked once (`EachTradeOnce`), a reconnect books what was missed (`GapHeals`), and a kill empties the account without the strategy's help while the snapshot has it halted and there is an adapter (`KillClears`). |
| `operations` | 1.2 M | Each connection's stream that a pass can stop runs on the adapter orders are routed to, and a FIX connection is routed to its one session or nowhere (`StreamFollowsAdapter`); what an administrator was told is in effect and a working connection stays armed (`AnsweredInEffect`); the job table is true and jobs that load a universe exclude each other (`JobTableTrue`); a contract past its instant is retired (`ExpiredRetired`). |
| `access` | 2.9 M | A revocation holds on the next request (`CutOffHolds`), sessions and sockets live as long as they should (`SessionLifetime`), racing first logins end as the right principal (`RightPrincipal`), a co-located strategy ends up with the registry's state, limits and positions, but for what a failed or overtaken request left it untold of (`ControlsArrive`). |
| `connectors` | 676 k | What any connector says of an order is so at the venue, but for the answers three of them misread as refusals (`VerdictsTrue`), lists of open orders are complete (`OpenListsComplete`), a close is told in the end (`CloseIsTold`). |
| `desk` | 1.7 M | Every command in every order on the aggregate (`QuantityConserved`, `StatusMatchesFills`, `FillsAddUp`, `TerminalIsFinal`); FIX requests are answered once and sessions served (`RequestsAnswered`, `LoggedOnIsServed`); orders, cancels and halts go where they should while rows change (`RoutedAsNamed`, `HaltWaitsForChecked`); setup commands leave nothing half done and `--resume` finishes (`NothingHalfDone`, `ResumeFinishes`). |

Two further runs, `lost_fill` and `lost_reconcile`, end in a counterexample,
each against a sentence of the repository; they are the next section.

Every property is also tried against a faulty variant of the code it speaks
about ("mutants" in `PROJECT.json`), and each is violated there: the row written
without its version check, the snapshot's state used instead of the row's, the
open orders listed without waiting for the row, a lagged lane skipped without a
resync, a batch sent on past a failed record, a fill booked without looking
whether it is, a cumulative state booked whole, and so on.

## 4. What the code does not do

Two runs have the expectation "violation"; TLC prints the trace.

* `lost_fill` (`AllExecutionsBooked`): on a venue that reports single fills, a fill lost at a reconnect
  is seen by recon as drift and deliberately not booked, to be made good when
  the order closes through recon. If the live close arrives first, the order is
  closed without it, and a closed order is never looked at again
  (`recon_orders.rs` 22-24 and 306).
* `lost_reconcile` (`EveryRequestServed`): a task that ends frees its slot under the lock when it leaves
  its loop, and frees it again when its guard is dropped. A request in between
  starts a second task, whose slot the first one's guard removes; a rerun
  requested after that is forgotten (`order_engine.rs` 119 and 159, against the comment
  at 102, "may be a reconnect's snapshot: run once more when this one ends").

Smaller disagreements met while modelling, without a run of their own. Where a
property would be violated by one, its statement makes room for it and says so.

Orders and positions:

* After a fast partial fill, routing records only the venue id, without a new
  version. A local cancel that read the row just before still commits. Routing
  has already returned, so nobody cancels at the venue (`order_entry.rs` 282,
  against the comment at 892).
* An order whose submit timed out and which then filled in part is
  *partially_filled* without a venue id. The stuck sweep looks for *submitted*
  and the working sweep skips orders without id: if its close is lost it stays
  open (`recon_orders.rs` 145, `order_entry.rs` 409). `OrdersSettle` excepts it.
  On Coinbase an order cannot be looked up by client id at all and a lost submit
  stays *submitted*; so it does at a FIX venue without mass status.
* `order_engine.rs` 185 goes on with the next report when one fails, so a failed
  fill can be followed by the close of the same event, although lines 33-34 say
  the fill comes first; on Bybit a failed close leaves room for booking the late
  execution twice. `AllExecutionsBooked` is about behaviours without database
  errors.
* The exposure is read by two statements at READ COMMITTED. A fill that commits
  between them is in neither (`risk_engine.rs` 121 and 157); `LimitHeld` allows
  for it.
* A stop whose registry reload fails answers an error after its UPDATE: the row is
  HALTED, nothing was listed or canceled and the session is not told
  (`strategies/control.rs` 90-93). A listing that fails asks nothing (62-68), and
  a cancel that fails is not tried again (69-73). A Kill says so in its report;
  the report of a session's end is dropped (`session.rs` 252), and that of the
  boot only logged, as is a registry that cannot be loaded then (`main.rs` 1157),
  after which the boot cancels nothing. `KillReachesAll` and
  `NoneWorksUnattended` except what such a failure left out (`unsent`): those
  orders work on until somebody stops the strategy again.
* The session gate asks whether the strategy has *a* live session: an order of
  an ended session that is still waiting is placed once the strategy has logged
  on again (`guard.rs` 51).
* A REDUCING strategy may place any order on the side opposite to its position
  (`risk.rs` 41), the size being left to the limit check, in which opposite
  working orders cancel out.
* The transition matrix in `src/src/domain/orders/README.md` (line 62) omits
  routing for *submitted*; `lifecycle.rs` admits it.
* An allocation reduces the source toward zero whatever its sign: allocating a
  bought block from a portfolio that has since sold short creates quantity
  (`positions.rs` 195, `handlers.rs` 853). `positions.rs` 138 locks nothing if
  the row does not exist, so a first fill and a first allocation can overwrite
  each other. Two allocation requests can together allocate more than was filled
  (`handlers.rs` 811), and the second then finds its source flat or on the other
  side. `rebuild_positions` ignores allocations. All of these happen in `book`,
  and `BooksBalance` excepts what they break and no more: the profit of a
  portfolio in `raced`, and the sum when `raced` is not empty or `crossed` holds.

FIX, routing, market data:

* A ClOrdID reused before its order is answered confuses `InFlight`
  (`session.rs` 81-83): a cancel may overtake, and of two orders at once the
  second is never answered. The run has `Resends = FALSE`.
* A report sent into a dying connection is not sent again: its row is deleted,
  and the message store is in memory (`fix_acceptor/mod.rs` 186).
* The environment of a connection can change between the check of an account
  and its update (`admin.rs` 792-850); the status of an account or portfolio is
  not checked at submit; COALESCE updates cannot clear a cap or a default.
* An empty side of a book is "unpriced" in `quote.rs` 73 and kept by
  `bybit/feed.rs` 57; the mark's time is that of routing, not of receipt.

Access, co-location, operations, setup:

* Disabling a principal revokes nothing: re-enabling revives its old sessions. A
  socket opened with an API key is not looked at again after a revocation
  (`live_updates.rs` 181-205). A login under way while sessions are revoked
  still creates one. `create_trading_token` does not raise an existing grant.
* A State read between a Kill's announcement and its reload lifts the kill at
  the strategy (the account is still cleared, by `ColoKill`). A failed read of
  the positions is sent as an empty list (`colo/control.rs` 91). The sweep works
  on a snapshot and may cancel orders placed after an Enable (211).
* A strategy may be left with old limits or the wrong state until it is told
  again, and these are the exceptions of `ControlsArrive`. A registry read earlier
  can be stored over a later one (`strategies/mod.rs` 188-191), and then a State
  or a push of limits says the old. A failed reload in `update_strategy` is only
  logged, and the limits the snapshot has are pushed (`strategies/admin.rs`
  137-142, 368-372). `validate_comp_ids` refuses when the row is written already:
  no reload and no push follow (367). An UPDATE that fails after the Kill was
  announced leaves the strategy killed and the row ACTIVE
  (`strategies/control.rs` 79-88, 111); an Enable whose reload fails sends no
  Resume (90-93).
* "Kill [...] keeps acting while the strategy keeps trading" (`colo/control.rs`
  1-3) has limits, all outside `KillClears`. After a reload that failed
  (`strategies/control.rs` 90-93) or that was overtaken by an older one
  (`strategies/mod.rs` 188-191) the snapshot does not say HALTED: nothing is
  canceled on sight or swept, until the next reload. Without an adapter a Kill
  reports a failure (`colo/control.rs` 173) and the sweep passes the strategy over
  (212). Fight and sweep share one budget (225, 247): a killed strategy that
  places ten orders a second for ever can leave the sweep nothing, so that an
  order the fight missed stays open.
* A pair that was never booked, open or seen is not asked for after a gap
  (`colo/follow.rs` 166, against the comment at 137); a booking that failed is
  retried only at the next reconnect.
* Jobs without a subject never exclude each other, and a `record` that fails
  twice leaves a row active until the next boot. So does an INSERT whose request
  is dropped before its worker starts (`jobs/universe.rs` 59-63). `oms setup
  sync-broker` loads a universe from its own process without a job row
  (`setup/brokers.rs` 153-179): it and a load may write the same rows at once.
* The session of a FIX connection has no stop path (`gateway/src/fix/mod.rs`
  299-301, `reload.rs` 5-8), and `stop_execution_stream` reaches the other
  connectors only (`admin.rs` 1398-1405). Disabled, such a connection goes on
  delivering fills until the next restart; no order is routed to it.
* A pass in which a connector's `connect` fails leaves the connection without an
  adapter (`reload.rs` 237-240; one is carried forward only when the stored row
  cannot be opened, 172-177, or a restart is needed). `ConnectionReload` has no such failure.
* Overlapping `rotate-key` and `import-env` split the store between two keys
  (`rotate.rs` 74); `--resume` on a role an earlier config created says ready
  though the password differs (`database/mod.rs` 112-126); a crash inside
  `write_new` leaves an empty config (`config.rs` 406).
* Bybit's and OKX's connectors read a JSON error without a code they know as a
  definite rejection under any HTTP status, a 5xx included
  (`bybit/adapter.rs` 161-165, `okx/adapter.rs` 170-174), where the other three
  ask `http_failure`; Coinbase's does under a 2xx. An acceptance without an order
  id is unknown at Bybit ("the venue may hold the order: that is unknown, not a
  rejection", `bybit/adapter.rs` 143-144) and a rejection at OKX
  (`okx/adapter.rs` 354-357) and Coinbase (`coinbase/adapter.rs` 243-253). The OMS
  then calls an order rejected that the venue may be working. `Misread` names
  these answers, and `VerdictsTrue` excepts them; `OrderPath` has no such
  rejection.
* Alpaca's open orders are one page of 500, against its comment; Alpaca and
  Binance may accept an order without an id.

## 5. Bounds and fairness

Each bound is a constant of its module and appears in a guard.

* `Qty = 2` is the smallest quantity with a partial fill before the last one.
  One fault and one lost message of any kind: the comments in the code argue
  about single failures, and the traces above need no more than one of each.
  `path` loses messages of "mixed" and "blind" venues only, since `lost_fill`
  shows what happens for "report"; "state" differs from "blind" in the lookup
  alone and is in `path_live`, which has no cancels.
* `MaxAttempts = 5` is the code's own value. `ChannelCap` and `StreamCap` (1 to
  3) stand for 4096 and for an unbounded stream: a full channel only makes the
  sender wait, and a small one makes that happen. The same holds for `LaneCap`
  1, `BatchSize` 2, `AddsCap` 1, `QuoteCap` 1, `PageSize` 1, `PageLimit` 2 and
  the cancel `Budget` 1: each is small enough to be reached.
* `ColoFollow` has one trade per pair and a page of one, so that a pair's history
  is one full page and an empty one.
* Two orders, two sessions, two control actions and `MaxMishaps = 2` in `gate`,
  which any of a reload, a restart and a failure may use up: every pair of a
  submit with another submit, a stop, a session end and a restart occurs, and a
  failure inside each of these. `MaxPosition` equals one order's quantity so that the second
  is refused unless a race lets it in. The orders are interchangeable, and
  symmetry is used there, as for the two terminals of `desk`.
* In `book` prices 1 and 3 with quantities 1 and 2 give averages that are not
  whole, and three fills suffice to open, add, and close or flip. Portfolio B
  has no row, so that a fill and an allocation, or two allocations, may insert it;
  the block is a sell, so that two requests for all of it cross. Four instruments
  give a symbol two venues share and one that a feed cannot name.
* `feeds` has two orders, so that a commit can appear behind a position already
  passed, and one fault, which may be a crash between a send and its deletion.
* `operations` has a FIX connection, one with a session of its own and a plain
  one, two administrators, three passes and one rotation: two saves and the
  rotation overlap in any order. Two jobs on one subject, one crash, and one
  failing statement or dropped request, of which the first of two tries of
  `record` is not counted: its retry is exhausted all the same.
* `access` has a session and a key of one principal, one request at a time, and
  seven ticks against an idle limit of three and a cap of four; two logins of one
  or two subjects whose codes collide. Two link connections and three changes,
  failing statements counted among them: enough for a reload to be overtaken and
  for a request to fail while another is under way. A Kill or Enable overlaps a
  change of limits, not another of its own kind. The session's clock starts with
  the login, as nothing before it can expire.
* `connectors` has two lots, one end of a stream and one failed lookup, five
  orders on pages of two, one outage and one timeout.
* `desk`: streams of five events cover submit, route, two fills and a suspension
  between them (the proofs remove this bound); four messages, one restart and
  one failing read; two edits around one order; four commands with one crash on
  two terminals and a release of two migrations.

Deadlock is checked for the order path. It is not for the others: their input
is bounded, and when it is used up they rest.

Fairness is weak and asked only of the OMS's own tasks, which are Tokio tasks
or threads that run until their await completes, of its timers, and of answers
that the code waits for with a timeout:

* `OrderPath`: submit, routing, a cancel in progress, engine, recon (timer and
  reconnects), the answer to a broker call, and the delivery of a message that
  is not lost. No fairness of the venue's fills and closes or of clients.
* `EventFeeds`: an open transaction ends, the bus publishes, each reader's loop
  runs on (each has a timer besides its wake-up). None of logons or inserts.
* `ColoFollow`, `ColoKill`: the worker, the engine, reconnecting, a request in
  progress, the sweep's timer and the clock of the budget.
* `Jobs`: the hourly loop comes round.
* `RestConnectors`, `FixSession`: the supervisor dials, the heartbeat beats, the
  sweep runs, QuickFIX logs on again, and the FIX peer answers.
* `FeedSubscriptions`: the minute's re-read and each feed's task.
* `ReconcileSlot`: each task runs on; the counterexample is not a stop.

A fault consumes a bounded budget, which states that failures stop for long
enough in the end.

## 6. The proofs

TLAPS checks every leaf. The theorems hold for every value of the constants
that the named ASSUMEs of the modules admit (quantities and bounds are numbers,
a set of orders, portfolios or subjects is finite, sessions are not keys, a
market-data feed is not a broker, a source of previous closes is a broker and
an environment); TLC evaluates those on every run.
A theorem that needs more says so in its statement, and the instances of
section 3 satisfy each of these:

* `NeverOverbooked` and `BookedSafe` ask for `MaxAttempts >= 2` (the code has 5;
  with 1 a single race drops a report), `BookedSafe` also that "report" is not
  in `LossyStyles`, without which `lost_fill` shows it false.
* `RequestsSafe` asks for `~Resends`: a ClOrdID is not used again while it is
  under way (section 4).
* `PricesSafe` asks that a source registered for previous closes is a broker's
  that quotes something (`SourcesQuote`): the connectors without quotes return no
  `daily_stats` from their connect.

| Module | Theorem | States, for every instance |
|---|---|---|
| `BookingProofs` | `TypeCorrect`, `QuantitySafe`, `StatusSafe`, `PriceSafe`, `ClosedForGood`, `FillsSafe`; `TradesBookedOnce`; `RebuildSafe`, `BalanceSafe`; `PricesSafe` | type, `QuantityConserved`, `StatusMatchesFills`, the price, `TerminalIsFinal`, `FillsAddUp`; `EachTradeOnce`; `RebuildAgrees`, `BooksBalance`; `PricesRight` |
| `OrderPathProofs` | `RowSafe`, `ClosedSafe`, `NeverOverbooked`, `BookedSafe`, `PathImplementsAggregate`, `ClosedStays` | `RowIsFold`, `ClosedOnlyAfterVenue`, no more booked than executed, `AllExecutionsBooked`, the steps of `OrderAggregate`, a closed order stays |
| `StrategyGateProofs` | `TypeCorrect`, `KillComplete`, `SessionEndComplete`, `HaltHolds`, `LimitSafe` | type, `KillReachesAll`, `NoneWorksUnattended`, `NothingAdmittedWhileHalted`, `LimitHeld` |
| `EventFeedsProofs` | `KafkaOrdered`, `ReportsOrdered`, `ScreenTold` | the two refinements of `OrderedFeed` (`KafkaInOrder`, `ReportsInOrder`), `ScreenKnows` |
| `AccessProofs` | `CutOffSafe`, `SessionSafe`, `SignInSafe`, `ControlsSafe` | `CutOffHolds`, `SessionLifetime`, `RightPrincipal`, `ControlsArrive` |
| `OperationsProofs` | `JobTableSafe`, `StreamsSafe`, `AnswersSafe`; `VerdictsSafe`, `ListsSafe` | `JobTableTrue`, `StreamFollowsAdapter`, `AnsweredInEffect`; `VerdictsTrue`, `OpenListsComplete` |
| `DeskProofs` | `HaltSafe`, `RoutingSafe`, `SetupSafe`, `ResumeSafe`, `LogonServed`, `RequestsSafe` | `HaltWaitsForChecked`, `RoutedAsNamed`, `NothingHalfDone`, `ResumeFinishes`, `LoggedOnIsServed`, `RequestsAnswered` |

Each invariant below was first checked by TLC on the instance of its run.

### `FoldProofs`

What the folds of the models make of a stream that is empty, grows at its end or
loses its head (`Rehydrate`, `SumOf`), and of a finite set from which one member
is taken (`Total`), whatever their length. The library's induction theorems take
an operator as a parameter, which no installed prover instantiates, so
`Induction` is stated for a *set* of numbers and follows from the
well-foundedness of `<` (`WFMin`, `NatLessThanWellFounded`). The folds are
recursive functions; that such a function exists and is the only one is shown
with it. What a command decides on an order in good state is here, too
(`SubmitGood`, `FillGood`, ...), for the two modules that build on it.

### `BookingProofs`

*OrderAggregate*, for any quantities, prices and stream length. The invariants are not inductive
one by one. A fill respects the order's quantity only because the fields are
numbers and `leaves_qty` is what remains; a release restores a truthful status
only because the suspension remembered one. `GoodState` is their conjunction as
a predicate of a state, and each command has a lemma (`SubmitGood`, `FillGood`,
...) that an emitted event is well typed, carries the next version and leads
from a good state to a good state. `CommitPreserves` lifts this to the
specification, `StepCommits` shows that every step is such a commit and that
none starts from a closed order.

*ColoFollow*, for any trades, pairs and page size. `Bookable`: what is in the
stream's queue, on the page or in the books was traded, and after following
began unless a gap fill could not read `follow_since`. The stream reports such a
trade only because it runs only once following has begun (`StreamSince`). An
inserted order undoes no filled one because the worker is alone with a trade
that has no row: the engine holds only fills of orders that exist
(`WorkerAgrees`, `EngineAgrees`).

*PositionBook*, for any orders, portfolios, quantities and prices, on exact
fractions, which are kept in lowest terms so that equal values are equal.
`RebuildInv`: until the first allocation the rows are what the log makes of
them, for the engine's transaction works on the row as it is. For the balance,
who changes a row holds it and has read it as it is, or has found none and works
on a flat one, which it still is unless another inserted it: that is `raced`
(`LocksHeld`). What was traded has a row, so the source of an allocation is
always locked (`RowsThere`). A fill or a split moves the profit of a row, its
cost and the money of its portfolio together (`Profits`). Where the source is on
the block's side the two halves of an allocation cancel in the sum over the
portfolios, and a fill adds to it what the log says (`QuantitiesAdd`). There is
no hypothesis on rows, requests or blocks.

*MarkRouter* and *DailyStats*, for any sources, ranking, instruments and clock.
That the owner of the mark is the best there is needs the order of the quotes on
their way (`InOrder`), and that none of the owner's is older than the mark
(`OwnerLast`): were the mark to go back in time, a quote turned away would be
one it should have taken. Bybit's feed knows of a side what the book has, or
nothing, or the message on its way tells it (`BybitFollows`). A close was told
by a source already asked, which serves the row's venue (`ClosesServed`), and a
source asked without failing has answered for its rows (`SourcesAnswered`).

### `OrderPathProofs`

For any quantity, any number of faults, losses and cancels and any capacity.
`PathInv` is inductive by itself:

* the row is what its stream folds to, and a snapshot as new as the stream *is*
  the row (`RowOK`, `FoldOK`, `SnapOK`). This is what the version check buys: a
  task that read an older row cannot write;
* whatever is on its way is still true of the venue: the call (`WireOK`), the
  messages of stream and channel (`FlightOK`), the reports in hand
  (`ReportsOK`), what recon believes (`ReconOK`). A message that says "over" can
  only be there once nothing more can happen at the venue (`Over`);
* until the venue closes, fills booked and in flight are at most what it
  executed (`OnceWhileOpen`).

`AllExecutionsBooked` needs two more layers. After recon has sent a final state,
fills in flight are counted twice, and what saves the order is that the reports
in hand end it before one of them is booked (`Ends`, `CountInv`); and that the
engine, when it is beaten to a write, was beaten by routing once or by the close
(`RetryOK`, where `MaxAttempts >= 2` comes from). For equality, no fill may
follow a close that does not say what was executed (`BareLast`, `ExactInv`).

`PathImplementsAggregate` instantiates `OrderAggregate` with the fold of the
stream as its state: whoever writes has decided on the row it read, the version
check says that this is still the row, and the row is the fold. So each write is
one decision of the aggregate on the stream as it is. A stream is never longer
than its submission, its routing, a fill per lot and a close (`EventsFew`), which
is the bound the aggregate is given. The one exception is an order refused on
entry, whose two events are written by one transaction (`SubmitRefused`).
`ClosedStays` says of the parties together what `ClosedForGood` says of the
aggregate: whatever a task read before the close, it changes nothing after it.

### `StrategyGateProofs`

For any finite set of orders and any number of control actions, sessions,
reloads, restarts and failures. `RowHeld`: a submit past its lock read the state the row
still has, and one past its checks did not read HALTED. `Attended`: without a
session, no FIX order is past the session gate, and a logout while one is past
leaves an `on_session_end` that cannot list before that order has committed or
gone; what it could not list is in `unsent`. `KillPast` is `KillReachesAll` from
the listing on, and `ControlRow` says that the row has the state of the action in
progress, so that a clean Kill is still in force as long as `cleared` is.
`CancelAccounts` is what a listing leaves behind, failed or not.
`BootAfterCrash`: only a restart boots. The guarantees do not rest on the
registry snapshot, which appears nowhere in the invariant, but on the row lock.

`LimitInv` is what the limit needs, for any limit and quantities: the position a
check holds is behind the position by at most `missed`, and one that is past its
checks still fits beside what works now. The lock makes it the only one, so what
works can meanwhile only become less. `Total`, the sum over the working orders,
is a recursive function whose domain changes: any member may be taken out first
(`FoldProofs`), and so a step on one order moves the sum by what that order adds
(`WorkingMoves`).

### `EventFeedsProofs`

For any number of orders, events, batches, failures and crashes. Positions of
different orders become visible in any order, those of one order do not, as its
open transaction is the only one (`StoreOK`). A batch, and the rows of a replay,
therefore stay closed: what commits after they were read lies behind all they
hold of its order (`KafkaOK`, `FixOK`). Every step then maps to a step of
`OrderedFeed` or to a stutter. `ScreenKnows` follows the lanes and the ticker: a
pending notice, a lagged lane or a subscription in progress accounts for every
difference.

### `AccessProofs`

*Access.* `cut` is a history variable: why a request was cut off when it
arrived, reduced by what was lifted since. It is kept per reason, because a
session that expired can be touched by another request that was under way and
then holds again, while a revocation stays. `CutOK`: a request past a check has
not been cut off for what that check looks at. *SignIn.* `LoginOK`: the row a
login was given is still there under the same code, as codes are written once,
and two first logins meet in `INSERT ... ON CONFLICT`. *ColoLink.* `LinkInv`
says of each kind of message that the last one queued carries the current value
or, if there is none, that what was read already does, except while the step
that will push it is still to come (`Ends`) or the strategy was left untold of
it. What the snapshot lacks of the row is in `behind`, or the query or store
that is to bring it is still to come.

### `OperationsProofs`

*Jobs.* `OneWriter` is the unique index, orphans included; boot marks
them before it starts anything. *ConnectionReload.* Only one pass runs at a
time. Between its snapshot and its answer the registry is the one built from
the snapshot (`BuiltOK`), the snapshot agrees with every row that was answered
already (`SnapshotOK`), and what streams do not follow yet is exactly what the
pass still has to restart, start or stop (`FollowOK`).

*RestConnectors*, for any quantity, outages and losses. `SubmitOK`: an answer
that is read as a refusal came from a venue that did not take the order, or is
one of `Misread`. `PushesOK`: a push says
what was so, and one that says "over" is the last with a trade. `ToldOK`: until
a close is told, the fills told or lost and those on their way are what was
executed, so a close that carries no quantity finds nothing missing.
*OpenOrderPages*: an order open from the request on is listed or lies below
where the next page starts (`PagesInv`). *FixSession*: what a message says is so and stays so while it is on
its way (`RepliesOK`), executions told, lost and under way are what was executed
(`ExecutionsAddUp`), and our order is in a batch by the report that ends it
(`WholeBatches`). Whoever waits at the session is the driver, in the state it
waits in (`WaitsOK`).


### `DeskProofs`

*Routing.* `HeldOK`: a limit an order was checked against stays until the
commit. `PutOK`: an account put for a broker is on a connection to it until that
is edited. An order whose account had moved when its row was read is marked
`strayed`, and `RoutedAsNamed` is about the others. *Setup.* `CommandOK`: a
command that applies migrations goes on from a file that is recorded or comes
next; one that stores credentials has the key of the file, and that opens
whatever is stored. `ResumeOK` is how far an undisturbed resume has come, from
which the action property follows. *FixRequests.* `SessionInv` is about the
order of logons and logouts in the acceptors' channels: what the core does not
know of a session that is up, the last event of the running acceptor's channel
announces, and a stopped one left at most a logout of what is still known.
`RequestsInv` follows a request from the channel to its answer: requests of one
logon wait in one channel, in order (`InboundOK`); of one ClOrdID one order is
under way, and it holds the lock the ClOrdID maps to (`PlacingOK`); so a cancel
behind it waits for that lock or finds it gone (`BehindOK`); a row is stored by
one task, which no other overtakes (`StoredOK`); and who is done has the one
report, or the queue has (`ToldOK`).

### What stays with TLC

Liveness under fairness: `OrdersSettle`, `EventuallyOut`, `GapHeals`,
`KillClears`, `ExpiredRetired`, `CloseIsTold`, `HeldIsSubscribed`; TLAPS proves
nothing about ENABLED. Every other property that a run finds to hold is a
theorem.

## 7. Abstractions

* Identifiers, reasons, timestamps, symbols and all formatting are left out.
* Transactions run at PostgreSQL's default, READ COMMITTED: each statement sees
  what is committed when it starts. Row locks and the version checks are
  modelled where the code takes them; a failed transaction leaves no trace.
* Prices do not appear in `OrderPath` and `StrategyGate`. Checks that depend on
  them may refuse any order (`Refuse`).
* In `StrategyGate` the operator performs one control action at a time. The
  listing of `cancel_open` and its cancels are one step: an order that fills or
  closes between the two is one that is asked to cancel in vain.
* `Aged` stands for the stuck sweep's age of 60 seconds against broker calls
  that give up after ten: the call has been answered or abandoned, and nothing
  is still on its way. A venue slower than that is outside the model.
* An allocation request has one split; several are several rows of one
  transaction, taken one after the other.
* Double precision and numeric columns are exact integers and fractions; rounding
  is not modelled.
* Secrets, codes, nonces and keys are names: they are equal or not. A sealed row
  opens under the key it was sealed with and no other.
* Time is a counter in `Access`, `SignIn` and `MarkRouter`; elsewhere a timer is
  an action that may happen, and under fairness does.
* The venues, the identity provider, QuickFIX, Kafka and Docker are external:
  what the code relies on is modelled from how it uses them, and marked so in
  "map".
* `Routing.PutConnections` is one step; the code checks each account and inserts
  the rows later (`strategies/admin.rs` 440-473). An edit between the two is an
  edit after the check, which the property excepts either way.
* `Setup` takes the master key from the file only, not from `OMS_MASTER_KEY`
  (`config.rs` 444), and the file changes while no command runs.
* In `FixRequests` a status request can fail where its order is looked up, which
  answers; a report that cannot be read afterwards (`strategies/session.rs`
  386-393) is only logged, and that request gets no answer: this is left out.
* `ColoFollow` gives each venue order one trade, `ColoLink` has one message on
  the wire at a time, `MarkRouter` one Bybit message.

## 8. What is not modelled

"components" in `PROJECT.json` lists every part with its status and reason. Of
the parts that are modelled in part, what is left out is: order
prices in the order path; the amend, suspend and release commands beyond the
aggregate (no endpoint calls them); notional, price-band and rate limits; the price lane of the
bus; field-level decoding of FIX and JSON, request signing and cookie layout;
`--ignore-kill` of the example strategy; health badges and the backoff of a
dying stream; single-statement CRUD and read endpoints. Not modelled at all are
the parsers of vendor catalogs and symbology, the row types and read endpoints,
the cockpit and the Python client, and the migrations as such.

## 9. Plan

The modules, the two abstract specifications (`OrderedFeed`, implemented by the
outbox and by the report delivery, and `OrderAggregate`, by the order path) and
the proofs of section 6 are done. What would add most next follows the code:

1. When one of the disagreements of section 4 is repaired, drop the hypothesis
   or the exception that stands for it: `crossed` and `raced` when an
   allocation is checked inside its transaction and a missing row is locked,
   "report" in `LossyStyles` when recon books a lost fill.
2. The amend, suspend and release commands in `OrderPath`, once an endpoint
   calls them.
3. Order prices in the gate: notional and price-band limits.

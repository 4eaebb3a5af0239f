------------------------------ MODULE EventFeeds ------------------------------
(***************************************************************************)
(* How a committed order event leaves the OMS.  The transaction that       *)
(* appends it also queues it, by trigger, for the two feeds that must lose *)
(* nothing; the in-process bus only wakes their readers and may drop what  *)
(* a slow one has not taken:                                               *)
(*                                                                         *)
(*   kafka  kafka_outbox.rs: drain kafka_outbox and kafka_position_outbox  *)
(*   fix    strategies/session.rs: replay fix_report_queue on a session    *)
(*   ui     live_updates.rs: tell an open screen that it is out of date    *)
(*                                                                         *)
(* global_position is taken when an event is inserted and becomes visible  *)
(* when its transaction commits, so events of different orders may appear  *)
(* out of position order.  One strategy owns every order and all fills are *)
(* on one position; a crash loses everything but the database.  The feeds  *)
(* share no state but the event store, each having its own queue table and *)
(* its own receiver, so a behaviour runs the reader of one of them.        *)
(***************************************************************************)
EXTENDS Naturals, FiniteSets, SequencesExt

CONSTANTS
  Orders,       \* orders of one FIX strategy
  Story,        \* per feed read and order, the event types it goes through
  BatchSize,    \* BATCH_SIZE (500 in the code)
  LaneCap,      \* ORDER_LANE_CAPACITY (1024 in the code)
  MaxFaults,    \* failed sends, failed statements, crashes, acceptor restarts
  MaxInserts,   \* events inserted, the rolled back ones included
  MaxLogons,    \* how often the strategy logs on
  MaxScreens    \* how often a screen opens its socket

ASSUME FeedsAssumption ==
  /\ Story \in [{"kafka", "fix", "ui"} -> [Orders -> Seq(STRING)]]
  /\ {BatchSize, LaneCap} \subseteq Nat \ {0}
  /\ {MaxFaults, MaxInserts, MaxLogons, MaxScreens} \subseteq Nat

Fills == {"order_partially_filled", "order_filled"}

\* exec_for and is_reported
Reported == Fills \cup {"order_routed", "order_canceled", "order_rejected",
                        "order_expired", "cancel_rejected"}

VARIABLES
  reader,     \* the feed whose reader runs: "kafka", "fix" or "ui"
  inserted,   \* global_position -> [order, type], committed or not
  open,       \* per order, the position its open transaction inserted (0: none)
  log,        \* per order, its committed positions in version order
  outbox,     \* kafka_outbox
  net,        \* the position row: how many fills it holds
  posbox,     \* kafka_position_outbox: ids, one per write
  owed,       \* fix_report_queue
  unpublished,\* committed events whose task has not published them yet
  kafka,      \* the bridge: the batch it delivers, what of it is acked
  topics,     \* what Kafka acked: orders and fills, and the last position record
  acceptor,   \* the FIX acceptor: [gen, up, logons] and what it told the core
  inbound,    \* per acceptor started, the session events not yet handled
  live,       \* FixSessions::live holds the strategy
  loop,       \* report_loop: its lane receiver and whether it waits on a replay
  turn,       \* who holds or awaits the strategy's delivery lock, in order
  replay,     \* the replay in progress and the rows it has still to send
  sent,       \* reports that went out on a session, in order
  doubled,    \* whether a report was sent and its row could not be deleted
  screen,     \* the screen's socket: lane receiver, Conflator, notices, screens
  stale,      \* what changed since the screen last fetched
  faults

db == <<reader, inserted, open, log, outbox, net, posbox, owed>>
bridge == <<kafka, topics>>
session == <<acceptor, inbound, live, loop, turn, replay, sent, doubled>>
ui == <<screen, stale>>
vars == <<db, unpublished, bridge, session, ui, faults>>

Fault == faults < MaxFaults /\ faults' = faults + 1

TypeOf(p) == inserted[p].type

Committed == UNION {Range(log[o]) : o \in Orders}

-----------------------------------------------------------------------------
(* A broadcast receiver: at most LaneCap messages wait, the oldest goes     *)
(* first, and the next recv says Lagged.                                   *)

Receiver == [msgs |-> <<>>, lagged |-> FALSE]

Broadcast(r, m) ==
  IF Len(r.msgs) < LaneCap
    THEN [r EXCEPT !.msgs = Append(@, m)]
    ELSE [r EXCEPT !.msgs = Append(Tail(@), m), !.lagged = TRUE]

HasMessage(r) == r.lagged \/ r.msgs # <<>>

-----------------------------------------------------------------------------
(* The order path, as the feeds see it                                     *)

Idle == [pc |-> "drain", of |-> "orders", batch |-> {}, net |-> 0, acked |-> {},
         half |-> FALSE, failed |-> FALSE]

\* Conflator::default, and no socket
Closed == [pc |-> "closed", lane |-> Receiver, pending |-> {}, out |-> {}, opened |-> 0]

NoReplay == [pc |-> "idle", rows |-> {}]

Init ==
  /\ reader \in {"kafka", "fix", "ui"}
  /\ inserted = <<>> /\ open = [o \in Orders |-> 0] /\ log = [o \in Orders |-> <<>>]
  /\ outbox = {} /\ net = 0 /\ posbox = {} /\ owed = {}
  /\ unpublished = {}
  /\ kafka = Idle
  /\ topics = [orders |-> <<>>, fills |-> <<>>, position |-> 0]
  /\ acceptor = [gen |-> 1, up |-> FALSE, logons |-> 0]
  /\ inbound = <<<<>>>>
  /\ live = FALSE /\ loop = [lane |-> Receiver, waits |-> FALSE]
  /\ turn = <<>> /\ replay = NoReplay /\ sent = <<>>
  /\ doubled = FALSE
  /\ screen = Closed /\ stale = {}
  /\ faults = 0

\* append_events_in_tx inserts under the order's advisory lock: one open
\* transaction an order, each insert at the next global_position.
Insert(o) ==
  LET n == Len(log[o]) + 1 IN
  /\ open[o] = 0 /\ Len(inserted) < MaxInserts /\ n <= Len(Story[reader][o])
  /\ inserted' = Append(inserted, [order |-> o, type |-> Story[reader][o][n]])
  /\ open' = [open EXCEPT ![o] = Len(inserted) + 1]
  /\ UNCHANGED <<reader, log, outbox, net, posbox, owed, unpublished, bridge, session, ui, faults>>

Rollback(o) ==
  /\ open[o] # 0 /\ Fault
  /\ open' = [open EXCEPT ![o] = 0]
  /\ UNCHANGED <<reader, inserted, log, outbox, net, posbox, owed, unpublished, bridge, session, ui>>

\* The triggers ran in the same transaction: the event, its outbox row, the
\* position write with its own, and the owed report appear together.  The
\* bridge's idle timer finds the rows without being told.
Commit(o) ==
  LET p == open[o] IN
  /\ p # 0
  /\ open' = [open EXCEPT ![o] = 0]
  /\ log' = [log EXCEPT ![o] = Append(@, p)]
  /\ outbox' = outbox \cup {p}
  /\ owed' = IF TypeOf(p) \in Reported THEN owed \cup {p} ELSE owed
  /\ IF TypeOf(p) \in Fills
       THEN net' = net + 1 /\ posbox' = posbox \cup {net + 1}
       ELSE UNCHANGED <<net, posbox>>
  /\ unpublished' = IF reader = "kafka" THEN {} ELSE unpublished \cup {p}
  /\ stale' = IF screen.pc = "closed" THEN stale
              ELSE stale \cup {"orders"} \cup (IF TypeOf(p) \in Fills THEN {"positions"} ELSE {})
  /\ UNCHANGED <<reader, inserted, bridge, session, screen, faults>>

\* publish_appended, and PositionChanged for a fill: once committed, in any
\* order between tasks.
Publish(p) ==
  LET told(r, event) ==
        IF TypeOf(p) \in Fills THEN Broadcast(Broadcast(r, event), "position") ELSE Broadcast(r, event)
  IN
  /\ p \in unpublished
  /\ unpublished' = unpublished \ {p}
  /\ loop' = IF reader = "fix" THEN [loop EXCEPT !.lane = told(@, TypeOf(p))] ELSE loop
  /\ screen' = IF screen.pc = "closed" THEN screen
               ELSE [screen EXCEPT !.lane = told(@, "order")]
  /\ UNCHANGED <<db, bridge, acceptor, inbound, live, turn, replay, sent, doubled, stale, faults>>

\* The process dies.  Sessions and sockets end with it; transactions roll back.
Crash ==
  /\ Fault
  /\ open' = [o \in Orders |-> 0]
  /\ unpublished' = {}
  /\ kafka' = Idle
  /\ acceptor' = [acceptor EXCEPT !.up = FALSE]
  /\ inbound' = [g \in DOMAIN inbound |-> <<>>]
  /\ live' = FALSE /\ loop' = [lane |-> Receiver, waits |-> FALSE]
  /\ turn' = <<>> /\ replay' = NoReplay
  /\ doubled' = (doubled \/ replay.pc = "delete")
  /\ screen' = [Closed EXCEPT !.opened = screen.opened]
  /\ stale' = {}
  /\ UNCHANGED <<reader, inserted, log, outbox, net, posbox, owed, topics, sent>>

-----------------------------------------------------------------------------
(* kafka_outbox.rs: the bridge                                             *)

\* records_for: a fill becomes two records, the one on the orders topic first.
Records(p) == IF TypeOf(p) \in Fills THEN 2 ELSE 1

\* The batch's LIMIT: the oldest rows, at most BatchSize of them.
Oldest(rows) == {p \in rows : Cardinality({q \in rows : q < p}) < BatchSize}

\* fetch_batch: order events first, then position changes, which carry the
\* position as it is when they are read.
FetchBatch ==
  LET rows == IF outbox # {} THEN outbox ELSE posbox IN
  /\ reader = "kafka"
  /\ kafka.pc = "drain"
  /\ kafka' = IF rows = {} THEN [Idle EXCEPT !.pc = "wait"]
              ELSE [Idle EXCEPT !.pc = "deliver", !.batch = Oldest(rows), !.net = net,
                                !.of = IF outbox # {} THEN "orders" ELSE "positions"]
  /\ UNCHANGED <<db, unpublished, topics, session, ui, faults>>

\* The events of the batch with a record still to send; the oldest is next.
Unsent == kafka.batch \ kafka.acked

\* The topics once the next record of the batch is on one of them.
WithRecord ==
  IF kafka.of = "positions" THEN [topics EXCEPT !.position = kafka.net]
  ELSE IF kafka.half THEN [topics EXCEPT !.fills = Append(@, Min(Unsent))]
  ELSE [topics EXCEPT !.orders = Append(@, Min(Unsent))]

\* deliver, one record: the sink answers once the broker has acked it.
SendRecord ==
  /\ kafka.pc = "deliver" /\ Unsent # {}
  /\ topics' = WithRecord
  /\ kafka' = IF kafka.of = "orders" /\ ~kafka.half /\ Records(Min(Unsent)) = 2
                THEN [kafka EXCEPT !.half = TRUE]
                ELSE [kafka EXCEPT !.half = FALSE, !.acked = @ \cup {Min(Unsent)}]
  /\ UNCHANGED <<db, unpublished, session, ui, faults>>

\* Faulty variant: a failed send is skipped and the batch goes on.
SendFailsGoOn ==
  /\ kafka.pc = "deliver" /\ Unsent # {}
  /\ Fault
  /\ kafka' = [kafka EXCEPT !.acked = @ \cup {Min(Unsent)}, !.half = FALSE]
  /\ UNCHANGED <<db, unpublished, topics, session, ui>>

\* The first failure ends the batch; an event sent in part is not acked.  A
\* record that timed out may be on the topic all the same.
SendFails ==
  /\ kafka.pc = "deliver" /\ Unsent # {}
  /\ Fault
  /\ topics' \in {topics, WithRecord}
  /\ kafka' = [kafka EXCEPT !.pc = "ack", !.half = FALSE, !.failed = TRUE]
  /\ UNCHANGED <<db, unpublished, session, ui>>

Delivered ==
  /\ kafka.pc = "deliver" /\ Unsent = {}
  /\ kafka' = [kafka EXCEPT !.pc = "ack"]
  /\ UNCHANGED <<db, unpublished, topics, session, ui, faults>>

\* ack and ack_positions; then the next batch, or RETRY_SECS after a failure.
Ack ==
  /\ kafka.pc = "ack"
  /\ IF kafka.of = "orders"
       THEN outbox' = outbox \ kafka.acked /\ UNCHANGED posbox
       ELSE posbox' = posbox \ kafka.acked /\ UNCHANGED outbox
  /\ kafka' = [Idle EXCEPT !.pc = IF kafka.failed THEN "retry" ELSE "drain"]
  /\ UNCHANGED <<reader, inserted, open, log, net, owed, unpublished, topics, session, ui, faults>>

AckFails ==
  /\ kafka.pc = "ack" /\ Fault
  /\ kafka' = [Idle EXCEPT !.pc = "retry"]
  /\ UNCHANGED <<db, unpublished, topics, session, ui>>

\* run: the retry timer, the order lane or the idle timer starts a drain.
Wake ==
  /\ kafka.pc \in {"retry", "wait"}
  /\ kafka.pc = "wait" => outbox \cup posbox # {}   \* an empty drain changes nothing
  /\ kafka' = Idle
  /\ UNCHANGED <<db, unpublished, topics, session, ui, faults>>

-----------------------------------------------------------------------------
(* The FIX session and its reports                                         *)

Tell(e) == inbound' = [inbound EXCEPT ![acceptor.gen] = Append(@, e)]

\* logon_decision reads live, which lags behind what the acceptor has seen.
Logon ==
  /\ reader = "fix"
  /\ ~acceptor.up /\ acceptor.logons < MaxLogons
  /\ ~live
  /\ acceptor' = [acceptor EXCEPT !.up = TRUE, !.logons = @ + 1]
  /\ Tell("on")
  /\ UNCHANGED <<db, unpublished, bridge, live, loop, turn, replay, sent, doubled, ui, faults>>

Logout ==
  /\ acceptor.up
  /\ acceptor' = [acceptor EXCEPT !.up = FALSE]
  /\ Tell("off")
  /\ UNCHANGED <<db, unpublished, bridge, live, loop, turn, replay, sent, doubled,
                 ui, faults>>

\* FixSessions::restart: the old acceptor logs everyone out before the new one
\* starts with an inbound channel and a run task of its own.
Restart ==
  /\ reader = "fix" /\ Fault
  /\ acceptor' = [acceptor EXCEPT !.up = FALSE, !.gen = @ + 1]
  /\ inbound' = Append(IF acceptor.up
                         THEN [inbound EXCEPT ![acceptor.gen] = Append(@, "off")]
                         ELSE inbound, <<>>)
  /\ UNCHANGED <<db, unpublished, bridge, live, loop, turn, replay, sent, doubled,
                 ui>>

\* run(state, inbound) of acceptor g: LoggedOn makes the strategy live and
\* spawns a replay; LoggedOut ends the session it had.
HandleInbound(g) ==
  /\ inbound[g] # <<>>
  /\ live' = (Head(inbound[g]) = "on")
  /\ turn' = IF Head(inbound[g]) = "on" THEN Append(turn, "logon") ELSE turn
  /\ inbound' = [inbound EXCEPT ![g] = Tail(@)]
  /\ UNCHANGED <<db, unpublished, bridge, acceptor, loop, replay, sent, doubled,
                 ui, faults>>

\* Faulty variant: a lagged lane is not replayed.
ReportLoopSkipsLag ==
  LET wants == live /\ ~loop.lane.lagged /\ Head(loop.lane.msgs) \in Reported IN
  /\ HasMessage(loop.lane) /\ ~loop.waits
  /\ loop' = [lane |-> IF loop.lane.lagged THEN [loop.lane EXCEPT !.lagged = FALSE]
                       ELSE [loop.lane EXCEPT !.msgs = Tail(@)],
              waits |-> wants]
  /\ turn' = IF wants THEN Append(turn, "loop") ELSE turn
  /\ UNCHANGED <<db, unpublished, bridge, acceptor, inbound, live, replay, sent, doubled, ui, faults>>

\* report_loop: an event that is not reported, or of a strategy that is not
\* live, is skipped; anything else, a lagged lane too, is a replay.
ReportLoop ==
  LET wants == live /\ (loop.lane.lagged \/ Head(loop.lane.msgs) \in Reported) IN
  /\ HasMessage(loop.lane) /\ ~loop.waits
  /\ loop' = [lane |-> IF loop.lane.lagged THEN [loop.lane EXCEPT !.lagged = FALSE]
                       ELSE [loop.lane EXCEPT !.msgs = Tail(@)],
              waits |-> wants]
  /\ turn' = IF wants THEN Append(turn, "loop") ELSE turn
  /\ UNCHANGED <<db, unpublished, bridge, acceptor, inbound, live, replay, sent, doubled, ui, faults>>

\* replay: take the delivery lock and read what is owed, to be sent oldest first.
ReplayBegin ==
  /\ turn # <<>> /\ replay.pc = "idle"
  /\ replay' = [pc |-> "row", rows |-> owed]
  /\ UNCHANGED <<db, unpublished, bridge, acceptor, inbound, live, loop, turn, sent, doubled, ui, faults>>

Release ==
  /\ replay' = NoReplay
  /\ turn' = Tail(turn)
  /\ loop' = IF Head(turn) = "loop" THEN [loop EXCEPT !.waits = FALSE] ELSE loop

\* The rows are done, the strategy is not live any more, or the acceptor has
\* no such session: what is left stays owed.
ReplayEnd ==
  /\ replay.pc = "row"
  /\ replay.rows = {} \/ ~live \/ ~acceptor.up
  /\ Release
  /\ UNCHANGED <<db, unpublished, bridge, acceptor, inbound, live, sent, doubled,
                 ui, faults>>

SendReport ==
  /\ replay.pc = "row" /\ replay.rows # {} /\ live /\ acceptor.up
  /\ sent' = Append(sent, Min(replay.rows))
  /\ replay' = [replay EXCEPT !.pc = "delete"]
  /\ UNCHANGED <<db, unpublished, bridge, acceptor, inbound, live, loop, turn, doubled, ui, faults>>

\* Faulty variant: the row stays in the queue once its report is sent.
DeleteNothing ==
  /\ replay.pc = "delete"
  /\ replay' = [pc |-> "row", rows |-> replay.rows \ {Min(replay.rows)}]
  /\ UNCHANGED <<db, unpublished, bridge, acceptor, inbound, live, loop, turn, sent, doubled, ui, faults>>

DeleteRow ==
  /\ replay.pc = "delete"
  /\ owed' = owed \ {Min(replay.rows)}
  /\ replay' = [pc |-> "row", rows |-> replay.rows \ {Min(replay.rows)}]
  /\ UNCHANGED <<reader, inserted, open, log, outbox, net, posbox, unpublished, bridge, acceptor,
                 inbound, live, loop, turn, sent, doubled, ui, faults>>

\* A failed statement: before the report is built, or at the DELETE.
ReplayFails ==
  /\ replay.pc # "idle" /\ Fault
  /\ doubled' = (doubled \/ replay.pc = "delete")
  /\ Release
  /\ UNCHANGED <<db, unpublished, bridge, acceptor, inbound, live, sent, ui>>

-----------------------------------------------------------------------------
(* live_updates.rs: a screen's socket                                      *)

\* ws_updates subscribes before the handshake completes.
Subscribe ==
  /\ reader = "ui"
  /\ screen.pc = "closed" /\ screen.opened < MaxScreens
  /\ screen' = [Closed EXCEPT !.pc = "subscribed", !.opened = screen.opened + 1]
  /\ stale' = {"orders", "positions"}
  /\ UNCHANGED <<db, unpublished, bridge, session, faults>>

\* The socket opens in the browser, which fetches everything.
Opened ==
  /\ screen.pc = "subscribed"
  /\ screen' = [screen EXCEPT !.pc = "open"]
  /\ stale' = {}
  /\ UNCHANGED <<db, unpublished, bridge, session, faults>>

\* Faulty variant: a lagged receiver is read on without a word.
OnOrderSkipsLag ==
  LET r == screen.lane IN
  /\ screen.pc # "closed" /\ HasMessage(r)
  /\ screen' =
       IF r.lagged THEN [screen EXCEPT !.lane.lagged = FALSE]
       ELSE [screen EXCEPT !.lane.msgs = Tail(@),
                           !.pending = @ \cup {IF Head(r.msgs) = "order" THEN "orders" ELSE "positions"}]
  /\ UNCHANGED <<db, unpublished, bridge, session, stale, faults>>

\* Conflator::on_order, one recv of pump
OnOrder ==
  LET r == screen.lane IN
  /\ screen.pc # "closed" /\ HasMessage(r)
  /\ screen' =
       IF r.lagged
         THEN [screen EXCEPT !.pending = @ \cup {"resync"}, !.lane.lagged = FALSE]
         ELSE [screen EXCEPT !.lane.msgs = Tail(@),
                             !.pending = @ \cup {IF Head(r.msgs) = "order" THEN "orders" ELSE "positions"}]
  /\ UNCHANGED <<db, unpublished, bridge, session, stale, faults>>

\* Conflator::take_fast on the flush tick: a resync covers the other two.
TakeFast ==
  /\ screen.pending # {}
  /\ screen' = [screen EXCEPT !.pending = {},
                  !.out = @ \cup IF "resync" \in screen.pending THEN {"resync"} ELSE screen.pending]
  /\ UNCHANGED <<db, unpublished, bridge, session, stale, faults>>

\* The browser answers a notice by fetching again what it names.
Notice(n) ==
  /\ screen.pc = "open" /\ n \in screen.out
  /\ screen' = [screen EXCEPT !.out = @ \ {n}]
  /\ stale' = IF n = "resync" THEN {} ELSE stale \ {n}
  /\ UNCHANGED <<db, unpublished, bridge, session, faults>>

CloseScreen ==
  /\ screen.pc # "closed"
  /\ screen' = [Closed EXCEPT !.opened = screen.opened]
  /\ stale' = {}
  /\ UNCHANGED <<db, unpublished, bridge, session, faults>>

-----------------------------------------------------------------------------
KafkaStep == FetchBatch \/ SendRecord \/ Delivered \/ Ack \/ Wake

FixStep ==
  \/ \E g \in DOMAIN inbound : HandleInbound(g)
  \/ ReportLoop \/ ReplayBegin \/ ReplayEnd \/ SendReport \/ DeleteRow

UiStep == Opened \/ OnOrder \/ TakeFast \/ \E n \in {"orders", "positions", "resync"} : Notice(n)

Next ==
  \/ \E o \in Orders : Insert(o) \/ Rollback(o) \/ Commit(o)
  \/ \E p \in unpublished : Publish(p)
  \/ Crash
  \/ KafkaStep \/ SendFails \/ AckFails
  \/ FixStep \/ Logon \/ Logout \/ Restart \/ ReplayFails
  \/ UiStep \/ Subscribe \/ CloseScreen

Fairness ==
  /\ \A o \in Orders : WF_vars(Commit(o))
  /\ WF_vars(\E p \in unpublished : Publish(p))
  /\ WF_vars(KafkaStep)
  /\ WF_vars(FixStep)
  /\ WF_vars(UiStep)

Spec == Init /\ [][Next]_vars /\ Fairness

-----------------------------------------------------------------------------
(* Properties                                                              *)

\* What each subscriber is owed of an order.
OnTopic == [o \in Orders |-> IF reader = "kafka" THEN Range(log[o]) ELSE {}]
Reports == [o \in Orders |-> {p \in Range(log[o]) : TypeOf(p) \in Reported}]

KafkaFeed == INSTANCE OrderedFeed WITH
  Events <- 1..MaxInserts,
  stored <- OnTopic,
  given <- topics.orders,
  failed <- faults > 0

\* The orders topic is an ordered feed of everything committed: across batches,
\* failed sends, retries and crashes the bridge publishes no event that was not
\* committed and none before an earlier one of its order, and repeats one only
\* after a failure.
KafkaInOrder == KafkaFeed!Spec

ReportFeed == INSTANCE OrderedFeed WITH
  Events <- 1..MaxInserts,
  stored <- Reports,
  given <- sent,
  failed <- doubled

ReportsKept == \A p \in Committed : TypeOf(p) \in Reported => p \in owed \/ p \in Range(sent)

\* What a strategy is sent, over all its sessions, is an ordered feed of the
\* events it is told about, and none of them is ever dropped: replay at logon and
\* the live loop never cross, and only a report whose row could not be deleted is
\* sent again.
ReportsInOrder == ReportFeed!Spec /\ []ReportsKept

\* An open screen that shows something outdated has a notice on its way,
\* though it subscribes late, its lane lags and its notices are conflated.
ScreenKnows ==
  screen.pc = "open" =>
    \A what \in stale :
      \/ unpublished # {}
      \/ screen.lane.lagged \/ "resync" \in screen.pending \cup screen.out
      \/ what \in screen.pending \cup screen.out
      \/ (IF what = "orders" THEN "order" ELSE "position") \in Range(screen.lane.msgs)

\* All three topics catch up with what is committed, and while the
\* strategy stays logged on and nothing fails so do its reports: a position change
\* during a publish, a lagged lane, or a wake-up that came before the commit,
\* leaves nothing behind.
EventuallyOut ==
  /\ reader = "kafka" =>
       []<>(topics.position = net /\ KafkaFeed!AllGiven /\ \A p \in Committed : TypeOf(p) \in Fills => p \in Range(topics.fills))
  /\ [](live /\ owed # {} /\ faults = 0 => <>(owed = {} \/ ~live \/ faults > 0))
=============================================================================

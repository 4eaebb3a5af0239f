------------------------------ MODULE OrderPath ------------------------------
(***************************************************************************)
(* One order between the OMS and its venue.  The database keeps the        *)
(* order_state row, the order_event stream and the position; five parties  *)
(* race on them:                                                           *)
(*                                                                         *)
(*   submit  order_entry.rs submit: TX1, the broker call, persist_routed   *)
(*   cancel  order_entry.rs cancel, called by a client, Kill or boot       *)
(*   engine  order_engine.rs run: the only consumer of execution events    *)
(*   recon   recon_orders.rs: snapshot the venue and heal what was missed  *)
(*   venue   external: takes, fills and closes the order, and reports it   *)
(*           on a live stream that may lose what it carries                *)
(*                                                                         *)
(* Every transaction is READ COMMITTED: a party reads the row in one step  *)
(* and writes in a later one, guarded by the version it read.  Prices are  *)
(* left out (every fill is at price 1); the order is for Qty lots.         *)
(***************************************************************************)
EXTENDS OrderDomain, FiniteSets

CONSTANTS
  Qty,          \* the order's quantity
  VenueStyles,  \* how a connector may report, see Style
  LossyStyles,  \* the styles of which execution events may be lost
  Faults,       \* the kinds of failure that may happen
  MaxFaults,    \* how many of them
  MaxLosses,    \* how many stream messages may be lost
  MaxCancels,   \* how many times a cancel is requested
  MaxAttempts,  \* MAX_ATTEMPTS and MAX_ROUTE_ATTEMPTS (5 in the code)
  ChannelCap,   \* ENGINE_CHANNEL_CAPACITY (4096 in the code)
  StreamCap     \* bound on undelivered stream messages

FaultKind == {"timeout", "db", "crash", "api"}

\* "report": each fill and a bare close (Alpaca, Binance, FIX).  "mixed": each
\* fill, and a close with the final state (Bybit).  "state": the cumulative state
\* (OKX); "blind": the same, but the venue cannot be asked about an order by the
\* client's id (Coinbase).
Style == {"report", "mixed", "state", "blind"}

ASSUME PathAssumption ==
  /\ Qty \in Nat \ {0}
  /\ VenueStyles \subseteq Style
  /\ LossyStyles \subseteq VenueStyles
  /\ Faults \subseteq FaultKind
  /\ {MaxFaults, MaxLosses, MaxCancels} \subseteq Nat
  /\ {MaxAttempts, ChannelCap, StreamCap} \subseteq Nat \ {0}

VARIABLES
  row,       \* order_state: an OrderState (status "none": no row)
  ext,       \* order_state.external_order_id IS NOT NULL
  log,       \* order_event of this order, by version
  position,  \* position.net_qty, from this order's fills
  venue,     \* external: [style, status, exec, cancelAsked]
  wire,      \* external: the submit call in flight
  stream,    \* external: messages the venue sent, not yet delivered
  queue,     \* the engine's channel
  reports,   \* the execution reports of the event the engine is booking
  task,      \* submit, cancel and engine: where each is and the row it read
  recon,     \* the reconcile run: what it loaded and saw
  spent      \* faults, losses and cancels so far

db == <<row, ext, log, position>>
outside == <<venue, wire, stream>>
vars == <<db, outside, queue, reports, task, recon, spent>>

ClosedAtVenue == {"filled", "canceled", "rejected"}

Message == [kind : {"fill", "cumulative", "terminal", "canceled", "rejected", "ack"},
            qty : 0..Qty, outcome : ClosedAtVenue \cup {"working", "none"}]

Report == [type : {"fill", "canceled", "reject"}, qty : 0..Qty]

Msg(kind, qty, outcome) == [kind |-> kind, qty |-> qty, outcome |-> outcome]

Idle == [pc |-> "idle", snap |-> NoOrder, tries |-> 0]

NoRecon == [pc |-> "idle", working |-> FALSE, stuck |-> FALSE, open |-> FALSE]

Init ==
  /\ row = NoOrder /\ ext = FALSE /\ log = <<>> /\ position = 0
  /\ \E style \in VenueStyles :
       venue = [style |-> style, status |-> "absent", exec |-> 0, cancelAsked |-> FALSE]
  /\ wire = "none" /\ stream = <<>>
  /\ queue = <<>> /\ reports = <<>>
  /\ task = [t \in {"submit", "cancel", "engine"} |-> Idle]
  /\ recon = NoRecon
  /\ spent = [faults |-> <<>>, losses |-> 0, cancels |-> 0]

-----------------------------------------------------------------------------
(* Helpers                                                                 *)

At(t, pc) == task[t].pc = pc

Goto(t, pc) == task' = [task EXCEPT ![t].pc = pc]

\* t reads the row and goes on to pc with what it read.
Read(t, pc) == task' = [task EXCEPT ![t].pc = pc, ![t].snap = row]

Done(t, pc) == task' = [task EXCEPT ![t] = [Idle EXCEPT !.pc = pc]]

Fault(kind) ==
  /\ kind \in Faults /\ Len(spent.faults) < MaxFaults
  /\ spent' = [spent EXCEPT !.faults = Append(@, kind)]

\* EngineHandle::exec; a full channel makes the sender wait.
Exec(m) ==
  /\ Len(queue) < ChannelCap
  /\ queue' = Append(queue, m)

\* append_events_in_tx: under the order's advisory lock the stream must still
\* have the expected length, or the whole transaction is rolled back.
VersionHolds(expected) == Len(log) = expected

-----------------------------------------------------------------------------
(* order_entry.rs, submit                                                  *)

\* TX1: the order passes its checks and is stored as submitted.
Submit ==
  /\ At("submit", "idle") /\ row.status = "none"
  /\ \E e \in DecideSubmit(NoOrder, Qty, "market", 0) :
       row' = Apply(NoOrder, e) /\ log' = <<e>>
  /\ Goto("submit", "call")
  /\ UNCHANGED <<ext, position, outside, queue, reports, recon, spent>>

\* record_rejection: a refused order is stored with both its events.
SubmitRefused ==
  /\ At("submit", "idle") /\ row.status = "none"
  /\ \E e \in DecideSubmit(NoOrder, Qty, "market", 0) :
       \E f \in DecideReject(Apply(NoOrder, e)) :
         /\ row' = Apply(Apply(NoOrder, e), f)
         /\ log' = <<e, f>>
  /\ Goto("submit", "done")
  /\ UNCHANGED <<ext, position, outside, queue, reports, recon, spent>>

\* No adapter registered: a definite reject, booked through the engine.
NoAdapter ==
  /\ At("submit", "call")
  /\ Exec(Msg("rejected", 0, "none"))
  /\ Goto("submit", "done")
  /\ UNCHANGED <<db, outside, reports, recon, spent>>

CallBroker ==
  /\ At("submit", "call")
  /\ wire' = "request"
  /\ Goto("submit", "sent")
  /\ UNCHANGED <<db, venue, stream, queue, reports, recon, spent>>

\* route_failure: BrokerRejected is booked, anything else is left submitted.
BrokerRejected ==
  /\ At("submit", "sent") /\ wire = "rejected"
  /\ Exec(Msg("rejected", 0, "none"))
  /\ wire' = "none"
  /\ Goto("submit", "done")
  /\ UNCHANGED <<db, venue, stream, reports, recon, spent>>

\* The answer is lost; the request may be lost too, or still arrive.
RouteUnknown ==
  /\ At("submit", "sent") /\ Fault("timeout")
  /\ wire' \in IF wire = "request" THEN {"request", "none"} ELSE {"none"}
  /\ Goto("submit", "done")
  /\ UNCHANGED <<db, venue, stream, queue, reports, recon>>

BrokerAccepted ==
  /\ At("submit", "sent") /\ wire = "accepted"
  /\ wire' = "none"
  /\ Goto("submit", "route")
  /\ UNCHANGED <<db, venue, stream, queue, reports, recon, spent>>

-----------------------------------------------------------------------------
(* order_entry.rs, persist_routed: run by submit with the broker's answer  *)
(* and by the engine for an Ack that recon found.                          *)

Routers == {"submit", "engine"}

Finish(t) == Done(t, IF t = "submit" THEN "done" ELSE "idle")

RouteRead(t) ==
  /\ At(t, "route")
  /\ \/ /\ row.status \in TerminalStatus
        /\ IF t = "submit" /\ row.status = "canceled" THEN Goto(t, "undo") ELSE Finish(t)
     \/ row.status \notin TerminalStatus \cup {"submitted"} /\ Goto(t, "record_id")
     \/ row.status = "submitted" /\ Read(t, "route_write")
  /\ UNCHANGED <<db, outside, queue, reports, recon, spent>>

\* A fill landed first: only the venue's id is recorded.
RecordId(t) ==
  /\ At(t, "record_id")
  /\ ext' = TRUE
  /\ Finish(t)
  /\ UNCHANGED <<row, log, position, outside, queue, reports, recon, spent>>

\* TX2.  The row update is guarded by the version and its count is not
\* checked; the append decides whether the transaction commits.
RouteWrite(t) ==
  LET s == task[t].snap IN
  /\ At(t, "route_write")
  /\ VersionHolds(s.version)
  /\ \E e \in DecideRoute(s) :
       /\ log' = Append(log, e)
       /\ IF row.version = s.version
            THEN /\ row' = [row EXCEPT !.status = Apply(s, e).status,
                                       !.version = Apply(s, e).version]
                 /\ ext' = TRUE
            ELSE UNCHANGED <<row, ext>>
  /\ Finish(t)
  /\ UNCHANGED <<position, outside, queue, reports, recon, spent>>

\* Concurrency: read again, up to MAX_ROUTE_ATTEMPTS.
RouteConflict(t) ==
  /\ At(t, "route_write") /\ ~ VersionHolds(task[t].snap.version)
  /\ IF task[t].tries + 1 = MaxAttempts
       THEN Finish(t)
       ELSE task' = [task EXCEPT ![t].pc = "route", ![t].tries = @ + 1]
  /\ UNCHANGED <<db, outside, queue, reports, recon, spent>>

\* Any other database error ends the attempt; recon is to settle the order.
RouteFails(t) ==
  /\ task[t].pc \in {"route", "record_id", "route_write"} /\ Fault("db")
  /\ Finish(t)
  /\ UNCHANGED <<db, outside, queue, reports, recon>>

\* adapter.cancel_order: the venue takes the request for an order it works.
AskVenueToCancel ==
  venue' = [venue EXCEPT !.cancelAsked = @ \/ venue.status = "open"]

\* The order was cancelled locally while routing: cancel it at the broker too.
UndoAtBroker ==
  /\ At("submit", "undo")
  /\ AskVenueToCancel
  /\ Finish("submit")
  /\ UNCHANGED <<db, wire, stream, queue, reports, recon, spent>>

UndoFails ==
  /\ At("submit", "undo") /\ Fault("api")
  /\ Finish("submit")
  /\ UNCHANGED <<db, outside, queue, reports, recon>>

-----------------------------------------------------------------------------
(* order_entry.rs, cancel                                                  *)

\* With the venue's id on record the venue is asked and the stream confirms;
\* without it the order is taken for one that never reached a broker.  A venue
\* that refuses is an error to the caller and changes nothing.
CancelRequest ==
  /\ At("cancel", "idle") /\ spent.cancels < MaxCancels
  /\ row.status \in LiveStatus
  /\ spent' = [spent EXCEPT !.cancels = @ + 1]
  /\ IF ext THEN AskVenueToCancel /\ UNCHANGED task
            ELSE Read("cancel", "write") /\ UNCHANGED venue
  /\ UNCHANGED <<db, wire, stream, queue, reports, recon>>

\* Faulty variant: the cancel does not look at the version it read.
CancelLocallyUnguarded ==
  LET s == task["cancel"].snap IN
  /\ At("cancel", "write")
  /\ \E e \in DecideCancel(s) :
       /\ row' = Apply(s, e)
       /\ log' = Append(log, e)
  /\ Done("cancel", "idle")
  /\ UNCHANGED <<ext, position, outside, queue, reports, recon, spent>>

\* A stale version is a 409: nothing is written.
CancelLocally ==
  LET s == task["cancel"].snap IN
  /\ At("cancel", "write")
  /\ \E e \in DecideCancel(s) :
       IF row.version = s.version /\ VersionHolds(s.version)
         THEN /\ row' = [row EXCEPT !.status = Apply(s, e).status,
                                    !.resume_to_status = Apply(s, e).resume_to_status,
                                    !.version = Apply(s, e).version]
              /\ log' = Append(log, e)
         ELSE UNCHANGED <<row, log>>
  /\ Done("cancel", "idle")
  /\ UNCHANGED <<ext, position, outside, queue, reports, recon, spent>>

-----------------------------------------------------------------------------
(* order_engine.rs and execution.rs                                        *)

\* missing_qty: nothing to book when the update is old or repeated.
MissingFill(booked, executed) ==
  IF executed > booked THEN <<[type |-> "fill", qty |-> executed - booked]>> ELSE <<>>

Close(outcome) ==
  CASE outcome = "canceled" -> <<[type |-> "canceled", qty |-> 0]>>
    [] outcome = "rejected" -> <<[type |-> "reject", qty |-> 0]>>
    [] OTHER -> <<>>

\* Faulty variant: a terminal state closes the order before it books.
ReportsForCloseFirst(m, booked) ==
  CASE m.kind = "fill"       -> <<[type |-> "fill", qty |-> m.qty]>>
    [] m.kind = "cumulative" -> MissingFill(booked, m.qty)
    [] m.kind = "terminal"   -> Close(m.outcome) \o MissingFill(booked, m.qty)
    [] m.kind \in {"canceled", "rejected"} -> Close(m.kind)
    [] OTHER -> <<>>

ReportsFor(m, booked) ==
  CASE m.kind = "fill"       -> <<[type |-> "fill", qty |-> m.qty]>>
    [] m.kind = "cumulative" -> MissingFill(booked, m.qty)
    [] m.kind = "terminal"   -> MissingFill(booked, m.qty) \o Close(m.outcome)
    [] m.kind \in {"canceled", "rejected"} -> Close(m.kind)
    [] OTHER -> <<>>

Decide(s, r) ==
  CASE r.type = "fill"     -> DecideFill(s, r.qty, 1)
    [] r.type = "canceled" -> DecideCanceled(s)
    [] OTHER               -> DecideReject(s)

\* apply_exec: an Ack routes; anything else becomes reports against the
\* quantity booked now.
EngineTake ==
  /\ At("engine", "idle") /\ queue # <<>>
  /\ queue' = Tail(queue)
  /\ LET m == Head(queue) IN
       IF m.kind = "ack"
         THEN Goto("engine", "route") /\ UNCHANGED reports
         ELSE /\ reports' = ReportsFor(m, row.cum_qty)
              /\ Goto("engine", IF reports' = <<>> THEN "idle" ELSE "apply")
  /\ UNCHANGED <<db, outside, recon, spent>>

\* oms_fill_state fails: an event that has to be measured against what is booked
\* is dropped.
BookedUnreadable ==
  /\ At("engine", "idle") /\ queue # <<>>
  /\ Head(queue).kind \in {"cumulative", "terminal"} /\ Fault("db")
  /\ queue' = Tail(queue)
  /\ UNCHANGED <<db, outside, reports, task, recon>>

NextReport ==
  /\ reports' = Tail(reports)
  /\ Done("engine", IF Len(reports) = 1 THEN "idle" ELSE "apply")

\* apply_once, its read.  A closed order, or a report the aggregate refuses,
\* is skipped.
ApplyRead ==
  /\ At("engine", "apply")
  /\ IF row.status \in TerminalStatus \cup {"none"} \/ Decide(row, Head(reports)) = {}
       THEN NextReport
       ELSE Read("engine", "apply_write") /\ UNCHANGED reports
  /\ UNCHANGED <<db, outside, queue, recon, spent>>

\* apply_once, its writes: row, position and event in one transaction.  The row
\* keeps its resume_to_status.
ApplyWrite ==
  LET s == task["engine"].snap IN
  /\ At("engine", "apply_write")
  /\ VersionHolds(s.version)
  /\ \E e \in Decide(s, Head(reports)) :
       /\ log' = Append(log, e)
       /\ row' = IF row.version = s.version
                   THEN [Apply(s, e) EXCEPT !.resume_to_status = row.resume_to_status]
                   ELSE row
       /\ position' = position + IF e.type \in FillTypes THEN e.fill_qty ELSE 0
  /\ NextReport
  /\ UNCHANGED <<ext, outside, queue, recon, spent>>

\* ConcurrencyRetry: apply_once again, up to MAX_ATTEMPTS; then the report is
\* logged and dropped.
ApplyConflict ==
  /\ At("engine", "apply_write") /\ ~ VersionHolds(task["engine"].snap.version)
  /\ IF task["engine"].tries + 1 = MaxAttempts
       THEN NextReport
       ELSE /\ task' = [task EXCEPT !["engine"].pc = "apply", !["engine"].tries = @ + 1]
            /\ UNCHANGED reports
  /\ UNCHANGED <<db, outside, queue, recon, spent>>

\* A database error while booking is logged; the loop goes on with the next
\* report of the same event.
ApplyFails ==
  /\ task["engine"].pc \in {"apply", "apply_write"} /\ Fault("db")
  /\ NextReport
  /\ UNCHANGED <<db, outside, queue, recon>>

-----------------------------------------------------------------------------
(* recon_orders.rs, run_order_reconcile                                    *)

\* load_oms_working_orders: routed or partially filled, with a venue id from
\* the order_routed event or the row; without one the order is skipped.
ReconLoadWorking ==
  /\ recon.pc = "idle"
  /\ LET routed == \E i \in DOMAIN log : log[i].type = "order_routed" IN
       recon' = [recon EXCEPT !.pc = "load_stuck",
                  !.working = row.status \in {"routed", "partially_filled"} /\ (routed \/ ext)]
  /\ UNCHANGED <<db, outside, queue, reports, task, spent>>

\* Faulty variant: no grace period.
AgedAtOnce == TRUE

\* STUCK_AFTER_SECS (60) is past the broker calls' own timeout (10 seconds): the
\* call has been answered or given up, and no request is still on its way.
Aged == wire = "none" /\ task["submit"].pc \notin {"call", "sent"}

\* Faulty variant: no order is ever taken for stuck.
ReconLoadNoStuck ==
  /\ recon.pc = "load_stuck"
  /\ recon' = [recon EXCEPT !.pc = "snapshot"]
  /\ UNCHANGED <<db, outside, queue, reports, task, spent>>

ReconLoadStuck ==
  /\ recon.pc = "load_stuck"
  /\ recon' = [recon EXCEPT !.pc = "snapshot", !.stuck = row.status = "submitted" /\ Aged]
  /\ UNCHANGED <<db, outside, queue, reports, task, spent>>

\* A load that fails is a load that found nothing.
ReconLoadFails ==
  /\ recon.pc \in {"idle", "load_stuck"} /\ Fault("db")
  /\ recon' = [recon EXCEPT !.pc = IF @ = "idle" THEN "load_stuck" ELSE "snapshot"]
  /\ UNCHANGED <<db, outside, queue, reports, task>>

\* adapter.open_orders
ReconSnapshot ==
  /\ recon.pc = "snapshot"
  /\ recon' = [recon EXCEPT !.pc = "act", !.open = venue.status = "open"]
  /\ UNCHANGED <<db, outside, queue, reports, task, spent>>

\* stuck_outcome and the ResolveTerminal arm: what adapter.order_status makes
\* recon send, as a set with at most one message.
StatusAnswer ==
  IF recon.stuck /\ venue.style = "blind" THEN {}
  ELSE CASE venue.status \in ClosedAtVenue -> {Msg("terminal", venue.exec, venue.status)}
         [] venue.status = "open" /\ recon.working -> {Msg("terminal", venue.exec, "working")}
         [] venue.status = "absent" /\ recon.stuck -> {Msg("rejected", 0, "none")}
         [] OTHER -> {}

\* plan_stuck, then plan_order_recon.  Drift on an open order is only logged.
ReconPlan ==
  CASE recon.stuck /\ recon.open   -> {Msg("ack", 0, "none")}
    [] recon.stuck /\ ~ recon.open -> StatusAnswer
    [] recon.working /\ ~ recon.open -> StatusAnswer
    [] OTHER -> {}

ReconAct ==
  /\ recon.pc = "act"
  /\ \/ ReconPlan = {} /\ UNCHANGED queue
     \/ \E m \in ReconPlan : Exec(m)
  /\ recon' = NoRecon
  /\ UNCHANGED <<db, outside, reports, task, spent>>

\* The snapshot or the status call fails: this run is over.
ReconFails ==
  /\ recon.pc \in {"snapshot", "act"} /\ Fault("api")
  /\ recon' = NoRecon
  /\ UNCHANGED <<db, outside, queue, reports, task>>

-----------------------------------------------------------------------------
(* The process dies and restarts: only the database and the venue survive. *)
(* Outside LossyStyles it dies while no execution event is under way.      *)
Crash ==
  /\ Fault("crash")
  /\ venue.style \in LossyStyles \/ stream \o queue \o reports = <<>>
  /\ task' = [t \in DOMAIN task |-> IF t = "submit" /\ row.status # "none"
                                      THEN [Idle EXCEPT !.pc = "done"] ELSE Idle]
  /\ queue' = <<>> /\ reports' = <<>> /\ stream' = <<>>
  /\ recon' = NoRecon
  /\ wire' = IF wire = "request" THEN wire ELSE "none"
  /\ UNCHANGED <<db, venue>>

-----------------------------------------------------------------------------
(* The venue and its connector                                             *)

\* external: the venue takes or refuses the request; the caller may be gone.
VenueAnswers ==
  /\ wire = "request"
  /\ \E answer \in {"accepted", "rejected"} :
       /\ wire' = IF At("submit", "sent") THEN answer ELSE "none"
       /\ venue' = IF answer = "accepted" THEN [venue EXCEPT !.status = "open"] ELSE venue
  /\ UNCHANGED <<db, stream, queue, reports, task, recon, spent>>

\* A trade, as the connector reports it: one fill (Alpaca, Binance, Bybit, FIX)
\* or the order's cumulative state (Coinbase, OKX).
TradeMessage(qty, executed) ==
  IF venue.style \in {"report", "mixed"} THEN Msg("fill", qty, "none")
  ELSE IF executed = Qty THEN Msg("terminal", executed, "filled")
                         ELSE Msg("cumulative", executed, "none")

\* A close, as the connector reports it: bare (Alpaca, Binance, FIX), bare only
\* when nothing was executed (Bybit), or with the final state (Coinbase, OKX).
CloseMessage(outcome, executed) ==
  IF venue.style = "report" \/ (venue.style = "mixed" /\ executed = 0)
    THEN Msg(outcome, 0, "none")
    ELSE Msg("terminal", executed, outcome)

\* external
VenueFills ==
  /\ venue.status = "open" /\ Len(stream) < StreamCap
  /\ \E q \in 1..(Qty - venue.exec) :
       LET executed == venue.exec + q IN
       /\ venue' = [venue EXCEPT !.exec = executed,
                                 !.status = IF executed = Qty THEN "filled" ELSE @]
       /\ stream' = Append(stream, TradeMessage(q, executed))
  /\ UNCHANGED <<db, wire, queue, reports, task, recon, spent>>

\* external: on request or on the venue's own account.
VenueCloses ==
  /\ venue.status = "open" /\ Len(stream) < StreamCap
  /\ \E outcome \in {"canceled", "rejected"} :
       /\ venue' = [venue EXCEPT !.status = outcome]
       /\ stream' = Append(stream, CloseMessage(outcome, venue.exec))
  /\ UNCHANGED <<db, wire, queue, reports, task, recon, spent>>

\* Bybit sends executions and order updates on separate, unordered topics;
\* everywhere else the next message is the oldest.
Topic(m) == IF venue.style = "mixed" /\ m.kind = "fill" THEN "execution" ELSE "order"

Deliverable ==
  {i \in DOMAIN stream : \A j \in 1..(i - 1) : Topic(stream[j]) # Topic(stream[i])}

Without(s, i) == SubSeq(s, 1, i - 1) \o SubSeq(s, i + 1, Len(s))

Deliver ==
  /\ \E i \in Deliverable : Exec(stream[i]) /\ stream' = Without(stream, i)
  /\ UNCHANGED <<db, venue, wire, reports, task, recon, spent>>

\* external: "can silently drop events" (recon_orders.rs).
Lose ==
  /\ venue.style \in LossyStyles /\ spent.losses < MaxLosses
  /\ \E i \in Deliverable : stream' = Without(stream, i)
  /\ spent' = [spent EXCEPT !.losses = @ + 1]
  /\ UNCHANGED <<db, venue, wire, queue, reports, task, recon>>

-----------------------------------------------------------------------------
SubmitStep ==
  \/ NoAdapter \/ CallBroker \/ BrokerRejected \/ BrokerAccepted \/ UndoAtBroker

RouteStep(t) == RouteRead(t) \/ RecordId(t) \/ RouteWrite(t) \/ RouteConflict(t)

EngineStep == EngineTake \/ ApplyRead \/ ApplyWrite \/ ApplyConflict

ReconStep == ReconLoadWorking \/ ReconLoadStuck \/ ReconSnapshot \/ ReconAct

Failure ==
  \/ RouteUnknown \/ UndoFails \/ BookedUnreadable \/ ApplyFails
  \/ ReconLoadFails \/ ReconFails \/ Crash
  \/ \E t \in Routers : RouteFails(t)

Next ==
  \/ Submit \/ SubmitRefused \/ SubmitStep
  \/ \E t \in Routers : RouteStep(t)
  \/ CancelRequest \/ CancelLocally
  \/ EngineStep \/ ReconStep \/ Failure
  \/ VenueAnswers \/ VenueFills \/ VenueCloses \/ Deliver \/ Lose

\* Tasks are polled while they can run, the venue answers calls, the heartbeat
\* keeps reconciling.  Nobody has to submit, cancel, trade or fail.
Fairness ==
  /\ WF_vars(SubmitStep) /\ WF_vars(CancelLocally) /\ WF_vars(VenueAnswers)
  /\ \A t \in Routers : WF_vars(RouteStep(t))
  /\ WF_vars(EngineStep) /\ WF_vars(ReconStep)
  /\ WF_vars(Deliver)

Spec == Init /\ [][Next]_vars

FairSpec == Spec /\ Fairness

-----------------------------------------------------------------------------
(* Properties                                                              *)

\* However submit, cancel, engine and recon race on the row, it shows what its
\* events fold to, and the position moves exactly with the booked fills: no lost
\* update, no event without its row, no row without its event.  (A local cancel
\* leaves leaves_qty as it was: that field agrees only while the order lives.)
RowIsFold ==
  LET s == Rehydrate(log) IN
  /\ row.status = s.status /\ row.version = s.version
  /\ row.cum_qty = s.cum_qty /\ row.notional = s.notional
  /\ row.status \in LiveStatus => row.leaves_qty = s.leaves_qty
  /\ position = row.cum_qty

\* Unless a database error drops a report half way, the OMS never books more than
\* the venue executed, though fills carry no idempotency key and recon replays
\* cumulative states next to live fills.  And an order that was not cancelled
\* locally has booked all of it when it closes: no later event could complete it.
AllExecutionsBooked ==
  (\A i \in DOMAIN spent.faults : spent.faults[i] # "db") =>
    /\ row.cum_qty <= venue.exec
    /\ row.status \in TerminalStatus /\ venue.status \in ClosedAtVenue /\ spent.cancels = 0 =>
         row.cum_qty = venue.exec

\* Unless it is cancelled locally, the OMS closes an order only when the venue
\* holds nothing of it, now or later: not while it is open there or its request
\* is still on its way.
ClosedOnlyAfterVenue ==
  row.status \in TerminalStatus /\ spent.cancels = 0 =>
    venue.status # "open" /\ wire # "request" /\ ~ At("submit", "call")

\* Where the venue can be asked about it, no order stays submitted: routing, the
\* engine or the stuck sweep moves it.  And the OMS learns that the venue closed
\* it, even when the stream lost every message about it, unless a partial fill
\* overtook the routing and left an order that recon skips for want of an id.
OrdersSettle ==
  venue.style # "blind" =>
    /\ row.status = "submitted" ~> row.status # "submitted"
    /\ venue.status \in ClosedAtVenue ~>
         row.status \in TerminalStatus \/ (row.status = "partially_filled" /\ ~ ext)
=============================================================================

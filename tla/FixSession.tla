----------------------------- MODULE FixSession -----------------------------
(***************************************************************************)
(* One FIX order-entry session (crates/gateway/src/fix) and one order on it. *)
(*                                                                         *)
(*   FixBrokerAdapter  registers a waiter, sends, and waits with a timeout: *)
(*                     the ack (by ClOrdID), the mass status snapshot (by a *)
(*                     fresh MassStatusReqID), one order's status (by       *)
(*                     ClOrdID again)                                       *)
(*   FixApplication    resolves the waiters on QuickFIX's thread and hands  *)
(*                     reports to the engine; a logon asks for a reconcile  *)
(*   the driver        reconciles at a logon and every 30 s                 *)
(*                                                                         *)
(* Each direction of the session is in order; an outage loses what is under *)
(* way, since ResetOnLogon keeps QuickFIX from sending it again.  The venue *)
(* is external; besides our order it works another one, so that a mass      *)
(* status reply takes two messages.                                         *)
(***************************************************************************)
EXTENDS Naturals, Sequences

CONSTANTS
  FixLots,       \* the order's quantity
  MaxOutages,    \* how often the session may drop
  MaxTimeouts    \* how many waits may run out with the answer under way

ASSUME FixAssumption == FixLots \in Nat \ {0} /\ {MaxOutages, MaxTimeouts} \subseteq Nat

VARIABLES
  atVenue,  \* external: our order [status, exec]
  link,     \* [up, nudged, toVenue, toOms]: the session, and what is under way
  waiters,  \* the three maps: [ack, snap, status]
  ack,      \* submit_order's [pc, verdict]
  driver,   \* the reconcile driver [pc, list], and whether our order was open when it asked
  heard,    \* what the engine was told [fills, cum, close, lost]
  budget    \* outages and early timeouts still allowed

fixVars == <<atVenue, link, waiters, ack, driver, heard, budget>>

FixClosed == {"filled", "canceled", "expired", "refused"}

NoSnap == [id |-> 0, acc |-> {}]

FixInit ==
  /\ atVenue = [status |-> "absent", exec |-> 0]
  /\ link = [up |-> FALSE, nudged |-> FALSE, toVenue |-> <<>>, toOms |-> <<>>]
  /\ waiters = [ack |-> FALSE, snap |-> NoSnap, status |-> FALSE]
  /\ ack = [pc |-> "idle", verdict |-> "none"]
  /\ driver = [pc |-> "idle", list |-> {}, wasOpen |-> FALSE]
  /\ heard = [fills |-> 0, cum |-> 0, close |-> "none", lost |-> 0]
  /\ budget = [outages |-> MaxOutages, timeouts |-> MaxTimeouts]

\* send: QuickFIX takes any message; one without a session goes nowhere.
Send(l, msg) == [l EXCEPT !.toVenue = IF l.up THEN Append(@, msg) ELSE @]

\* Messages under way, in either direction.
UnderWay == {link.toVenue[i] : i \in DOMAIN link.toVenue} \cup {link.toOms[i] : i \in DOMAIN link.toOms}

\* A wait may run out early at a cost, and does once nothing can answer it.
RunsOut(answerable) ==
  IF answerable THEN budget.timeouts > 0 /\ budget' = [budget EXCEPT !.timeouts = @ - 1]
                ELSE UNCHANGED budget

AckUnderWay == \E m \in UnderWay : m.kind = "D" \/ (m.kind = "exec" /\ m.type \in {"0", "8"})

\* external
Report(l, msgs) == [l EXCEPT !.toOms = IF l.up THEN @ \o msgs ELSE @]

-----------------------------------------------------------------------------
(* FixBrokerAdapter: orders                                                *)

\* submit_order: the waiter is there before the message.
FixSubmit ==
  /\ ack.pc = "idle"
  /\ ack' = [ack EXCEPT !.pc = "waiting"]
  /\ waiters' = [waiters EXCEPT !.ack = TRUE]
  /\ link' = Send(link, [kind |-> "D"])
  /\ UNCHANGED <<atVenue, driver, heard, budget>>

\* ACK_TIMEOUT: the waiter is taken away and the order's fate is unknown.
AckTimeout ==
  /\ ack.pc = "waiting" /\ RunsOut(AckUnderWay)
  /\ ack' = [pc |-> "done", verdict |-> "unknown"]
  /\ waiters' = [waiters EXCEPT !.ack = FALSE]
  /\ UNCHANGED <<atVenue, link, driver, heard>>

\* cancel_order: sent and forgotten; build_cancel names the order by its id.
FixCancel ==
  /\ ack.verdict = "accepted" /\ heard.close = "none"
  /\ ~ \E i \in DOMAIN link.toVenue : link.toVenue[i].kind = "F"
  /\ link.up
  /\ link' = Send(link, [kind |-> "F"])
  /\ UNCHANGED <<atVenue, waiters, ack, driver, heard, budget>>

-----------------------------------------------------------------------------
(* The venue (external)                                                    *)

ExecReport(type, qty) == [kind |-> "exec", type |-> type, qty |-> qty]

StatusReply(id, order, status, last) ==
  [kind |-> "status", id |-> id, order |-> order, status |-> status, exec |-> atVenue.exec, last |-> last]

\* One report for each open order, the last of them marked; the other order is
\* always open and may come first or last.
MassStatusReplies(id) ==
  IF atVenue.status \in {"new", "partial"}
    THEN {<<StatusReply(id, "ours", atVenue.status, FALSE), StatusReply(id, "other", "new", TRUE)>>,
          <<StatusReply(id, "other", "new", FALSE), StatusReply(id, "ours", atVenue.status, TRUE)>>}
    ELSE {<<StatusReply(id, "other", "new", TRUE)>>}

VenueAnswers ==
  /\ link.up /\ link.toVenue # <<>>
  /\ LET msg  == Head(link.toVenue)
         rest == [link EXCEPT !.toVenue = Tail(@)]
     IN  CASE msg.kind = "D" ->
                \/ /\ atVenue' = [atVenue EXCEPT !.status = "new"]
                   /\ link' = Report(rest, <<ExecReport("0", 0)>>)
                \/ /\ atVenue' = [atVenue EXCEPT !.status = "refused"]
                   /\ link' = Report(rest, <<ExecReport("8", 0)>>)
           [] msg.kind = "F" ->
                IF atVenue.status \in {"new", "partial"}
                  THEN /\ atVenue' = [atVenue EXCEPT !.status = "canceled"]
                       /\ link' = Report(rest, <<ExecReport("4", 0)>>)
                  ELSE link' = rest /\ UNCHANGED atVenue
           [] msg.kind = "AF" ->
                /\ \E batch \in MassStatusReplies(msg.id) : link' = Report(rest, batch)
                /\ UNCHANGED atVenue
           [] OTHER ->
                /\ link' = Report(rest, <<StatusReply(0, "ours",
                                   IF atVenue.status = "absent" THEN "refused" ELSE atVenue.status, TRUE)>>)
                /\ UNCHANGED atVenue
  /\ UNCHANGED <<waiters, ack, driver, heard, budget>>

\* A fill or an expiry; its report is lost when there is no session.
VenueMoves ==
  /\ atVenue.status \in {"new", "partial"}
  /\ \/ \E q \in 1..(FixLots - atVenue.exec) :
          /\ atVenue' = [exec |-> atVenue.exec + q,
                         status |-> IF atVenue.exec + q = FixLots THEN "filled" ELSE "partial"]
          /\ link' = Report(link, <<ExecReport("F", q)>>)
          /\ heard' = [heard EXCEPT !.lost = IF link.up THEN @ ELSE @ + q]
     \/ /\ atVenue' = [atVenue EXCEPT !.status = "expired"]
        /\ link' = Report(link, <<ExecReport("C", 0)>>)
        /\ UNCHANGED heard
  /\ UNCHANGED <<waiters, ack, driver, budget>>

LostQty(msgs) ==
  LET lost[i \in 0..Len(msgs)] ==
        IF i = 0 THEN 0 ELSE lost[i - 1] + IF msgs[i].kind = "exec" THEN msgs[i].qty ELSE 0
  IN  lost[Len(msgs)]

\* on_logout; what was under way is gone.
Logout ==
  /\ link.up /\ budget.outages > 0
  /\ heard' = [heard EXCEPT !.lost = @ + LostQty(link.toOms)]
  /\ link' = [link EXCEPT !.up = FALSE, !.toVenue = <<>>, !.toOms = <<>>]
  /\ budget' = [budget EXCEPT !.outages = @ - 1]
  /\ UNCHANGED <<atVenue, waiters, ack, driver>>

-----------------------------------------------------------------------------
(* FixApplication                                                          *)

\* on_logon: live again, and the driver is nudged.
Logon ==
  /\ ~ link.up
  /\ link' = [link EXCEPT !.up = TRUE, !.nudged = TRUE]
  /\ UNCHANGED <<atVenue, waiters, ack, driver, heard, budget>>

\* The engine books what it is told until the order is closed for it.
Hear(h, kind, qty) ==
  IF h.close # "none" THEN h
  ELSE CASE kind = "fill"       -> [h EXCEPT !.fills = @ + qty,
                                             !.close = IF h.fills + qty = FixLots THEN "filled" ELSE @]
         [] kind = "cumulative" -> [h EXCEPT !.cum = IF @ < qty THEN qty ELSE @]
         [] kind = "terminal"   -> [h EXCEPT !.cum = qty, !.close = "terminal"]
         [] OTHER               -> [h EXCEPT !.close = kind]

\* parse_standard_exec_report: an expiry (150=C) changes nothing here.
ParsedReport(m) ==
  CASE m.type = "F" -> Hear(heard, "fill", m.qty)
    [] m.type = "4" -> Hear(heard, "bare", 0)
    [] m.type = "8" -> Hear(heard, "refused", 0)
    [] OTHER        -> heard

\* resolve_ack: New accepts, a reject refuses, and only while one waits.
ResolveAck(m) ==
  IF waiters.ack /\ m.type \in {"0", "8"}
    THEN /\ waiters' = [waiters EXCEPT !.ack = FALSE]
         /\ ack' = [pc |-> "done", verdict |-> IF m.type = "0" THEN "accepted" ELSE "rejected"]
    ELSE UNCHANGED <<waiters, ack>>

\* Faulty variant: whatever batch a report is of, the waiting call gets it.
CollectAnyBatch(m) ==
  /\ LET w == waiters.snap
         acc == w.acc \cup {m.order}
     IN  IF w.id = 0 THEN UNCHANGED <<waiters, driver>>
         ELSE /\ waiters' = [waiters EXCEPT !.snap = IF m.last THEN NoSnap ELSE [w EXCEPT !.acc = acc]]
              /\ driver' = IF m.last THEN [driver EXCEPT !.pc = "listed", !.list = acc] ELSE driver

\* collect_snapshot: one report of the batch with the waiter's own id; the last
\* delivers the list.
CollectSnapshot(m) ==
  /\ LET w == waiters.snap
         acc == w.acc \cup {m.order}
     IN  IF w.id # m.id THEN UNCHANGED <<waiters, driver>>
         ELSE /\ waiters' = [waiters EXCEPT !.snap = IF m.last THEN NoSnap ELSE [w EXCEPT !.acc = acc]]
              /\ driver' = IF m.last THEN [driver EXCEPT !.pc = "listed", !.list = acc] ELSE driver

FixWorking == ack.verdict = "accepted" /\ heard.close = "none"

\* Submitted past the grace period, which outlasts the ack's timeout.
FixStuck == ack.verdict = "unknown" /\ heard.close = "none" /\ heard.fills = 0 /\ heard.cum = 0

\* resolve_status and to_order_state: whoever waits for this ClOrdID gets it,
\* even the answer to an earlier call.  A stuck order that works is left alone.
ResolveStatus(m) ==
  IF waiters.status
    THEN /\ waiters' = [waiters EXCEPT !.status = FALSE]
         /\ driver' = [driver EXCEPT !.pc = "idle", !.list = {}]
         /\ heard' = IF m.status \in FixClosed THEN Hear(heard, "terminal", m.exec)
                     ELSE IF FixStuck THEN heard ELSE Hear(heard, "cumulative", m.exec)
    ELSE UNCHANGED <<waiters, driver, heard>>

\* on_msg_from_app
FixReceive ==
  /\ link.up /\ link.toOms # <<>>
  /\ link' = [link EXCEPT !.toOms = Tail(@)]
  /\ LET m == Head(link.toOms)
     IN  IF m.kind = "exec" THEN ResolveAck(m) /\ heard' = ParsedReport(m) /\ UNCHANGED driver
         ELSE IF m.id # 0 THEN CollectSnapshot(m) /\ UNCHANGED <<ack, heard>>
         ELSE ResolveStatus(m) /\ UNCHANGED ack
  /\ UNCHANGED <<atVenue, budget>>

-----------------------------------------------------------------------------
(* The reconcile driver of start_session, open_orders and order_status     *)

OursOpen == atVenue.status \in {"new", "partial"}

\* Uuid::new_v4: an id no message and no waiter has; of so many numbers one is.
FreshReqId == CHOOSE n \in 1..(Len(link.toVenue) + Len(link.toOms) + 2) :
                /\ n # waiters.snap.id
                /\ ~ \E m \in UnderWay : m.kind \in {"AF", "status"} /\ m.id = n

\* A logon nudged it, or 30 s passed: open_orders.
AskSnapshot ==
  /\ driver.pc = "idle"
  /\ waiters' = [waiters EXCEPT !.snap = [id |-> FreshReqId, acc |-> {}]]
  /\ link' = [Send(link, [kind |-> "AF", id |-> FreshReqId]) EXCEPT !.nudged = FALSE]
  /\ driver' = [driver EXCEPT !.pc = "listing", !.wasOpen = OursOpen]
  /\ UNCHANGED <<atVenue, ack, heard, budget>>

\* reconcile_order, for ours: routed if it is listed and was stuck; asked about
\* (order_status) if it is not listed and should work.
UseSnapshot ==
  /\ driver.pc = "listed"
  /\ LET ask == "ours" \notin driver.list /\ (FixWorking \/ FixStuck)
     IN  /\ waiters' = [waiters EXCEPT !.status = ask]
         /\ link' = IF ask THEN Send(link, [kind |-> "H"]) ELSE link
         /\ driver' = [driver EXCEPT !.pc = IF ask THEN "asking" ELSE "idle", !.list = {}]
         /\ ack' = IF "ours" \in driver.list /\ FixStuck THEN [ack EXCEPT !.verdict = "accepted"] ELSE ack
  /\ UNCHANGED <<atVenue, heard, budget>>

ReplyUnderWay ==
  \E m \in UnderWay : IF driver.pc = "listing"
                        THEN m.kind \in {"AF", "status"} /\ m.id = waiters.snap.id
                        ELSE m.kind = "H" \/ (m.kind = "status" /\ m.id = 0)

\* await_correlated_reply: the waiter goes and the run is given up.
ReplyTimeout ==
  /\ driver.pc \in {"listing", "asking"} /\ RunsOut(ReplyUnderWay)
  /\ waiters' = [waiters EXCEPT !.snap = NoSnap, !.status = FALSE]
  /\ driver' = [driver EXCEPT !.pc = "idle", !.list = {}]
  /\ UNCHANGED <<atVenue, link, ack, heard>>

-----------------------------------------------------------------------------
FixNext ==
  \/ FixSubmit \/ AckTimeout \/ FixCancel
  \/ VenueAnswers \/ VenueMoves \/ Logout
  \/ Logon \/ FixReceive
  \/ AskSnapshot \/ UseSnapshot \/ ReplyTimeout

\* The driver and its timers.
DriverStep == AskSnapshot \/ UseSnapshot \/ (~ ReplyUnderWay /\ ReplyTimeout)

-----------------------------------------------------------------------------
\* A wait that ran out settles nothing: the order is called refused only when
\* the venue refused it, and closed only with what it executed, or bare once
\* every execution was reported or lost with the session.  A late answer to an
\* earlier question never makes it otherwise.
FixVerdictsTrue ==
  /\ ack.verdict = "rejected" => atVenue.status = "refused"
  /\ ack.verdict = "accepted" => atVenue.status \notin {"absent", "refused"}
  /\ heard.fills <= atVenue.exec /\ heard.cum <= atVenue.exec
  /\ heard.close \in {"refused", "filled"} => atVenue.status = heard.close
  /\ heard.close = "bare" => atVenue.status = "canceled" /\ heard.fills + heard.lost = atVenue.exec
  /\ heard.close = "terminal" => /\ heard.cum = atVenue.exec
                                 /\ \/ atVenue.status \in FixClosed
                                    \/ atVenue.status = "absent" /\ ~ \E m \in UnderWay : m.kind = "D"

\* A snapshot delivered is whole: an order open from the request to the last
\* report is in it, though an earlier batch may still be arriving.
FixListComplete == driver.pc = "listed" /\ driver.wasOpen /\ OursOpen => "ours" \in driver.list

\* An accepted order's close is told in the end, over outages and timeouts.
FixCloseIsTold == (ack.verdict = "accepted" /\ atVenue.status \in FixClosed) ~> heard.close # "none"
=============================================================================

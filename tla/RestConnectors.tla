---------------------------- MODULE RestConnectors ----------------------------
(***************************************************************************)
(* The REST connectors (crates/gateway/src/connectors): for one order, what *)
(* Alpaca, Binance, Bybit, Coinbase and OKX make of the venue's answers and *)
(* of its push stream, and what they tell the order engine.                *)
(*                                                                         *)
(*   submit_order  turns the answer into accepted, rejected or unknown     *)
(*   the stream    dials, authenticates, subscribes; translates each push; *)
(*                 ends and is dialled again by stream_supervisor.rs       *)
(*   the sweep     reconcile: lists the open orders, asks about this one   *)
(*                                                                         *)
(* The venue is external: it takes or refuses the request whatever answer  *)
(* gets back, trades, closes the order, and pushes what happened; a push   *)
(* is lost unless it is delivered while the stream is live.                *)
(***************************************************************************)
EXTENDS Naturals, Sequences, SequencesExt

CONSTANTS
  RestBrokers,  \* the connectors to check
  Lots,         \* the order's quantity
  MaxEnds,      \* how often the stream may end
  MaxSilences   \* how many lookups may fail on the wire

ASSUME RestAssumption ==
  /\ RestBrokers \subseteq {"ALPACA", "BINANCE", "BYBIT", "COINBASE", "OKX"}
  /\ Lots \in Nat \ {0} /\ {MaxEnds, MaxSilences} \subseteq Nat

VARIABLES
  broker,   \* whose connector this is
  held,     \* external: the order at the venue [status, exec, tif]
  pushes,   \* external: pushed, not yet read
  submit,   \* submit_order: [pc, answer, verdict]; with an id when accepted "named"
  session,  \* connect_and_run: "waiting", "connected", "authed" or "live"
  sweep,    \* reconcile: "idle", "asked" or "listed", and whether it listed the order
  told,     \* what the engine was told
  left      \* stream ends and failed lookups still allowed

restVars == <<broker, held, pushes, submit, session, sweep, told, left>>

Closed == {"filled", "canceled", "rejected", "expired", "forgotten"}

Open == {"new", "partial"}

\* What the engine is told: the sum of fills, the highest cumulative quantity,
\* how the order closed, and what was executed and never pushed through.
NothingTold == [fills |-> 0, cum |-> 0, close |-> "none", lost |-> 0]

\* What connect_and_run does before its stream is live: whether it waits for its
\* credentials to be accepted, and whether it asks for a sweep at the start of
\* run or each time it goes live, for what resolved during the outage.
AlpacaStream   == [login |-> TRUE,  sweepsFirst |-> TRUE,  sweepsLive |-> FALSE]
BinanceStream  == [login |-> TRUE,  sweepsFirst |-> FALSE, sweepsLive |-> TRUE]
BybitStream    == [login |-> TRUE,  sweepsFirst |-> FALSE, sweepsLive |-> TRUE]
CoinbaseStream == [login |-> FALSE, sweepsFirst |-> FALSE, sweepsLive |-> TRUE]
OkxStream      == [login |-> TRUE,  sweepsFirst |-> FALSE, sweepsLive |-> TRUE]

Stream ==
  CASE broker = "ALPACA"   -> AlpacaStream
    [] broker = "BINANCE"  -> BinanceStream
    [] broker = "BYBIT"    -> BybitStream
    [] broker = "COINBASE" -> CoinbaseStream
    [] OTHER               -> OkxStream

RestInit ==
  /\ broker \in RestBrokers
  /\ held = [status |-> "absent", exec |-> 0, tif |-> "none"]
  /\ pushes = <<>>
  /\ submit = [pc |-> "idle", answer |-> <<"none", "none">>, verdict |-> "none"]
  /\ session = "waiting"
  /\ sweep = [pc |-> IF Stream.sweepsFirst THEN "asked" ELSE "idle", open |-> FALSE]
  /\ told = NothingTold
  /\ left = [ends |-> MaxEnds, silences |-> MaxSilences]

-----------------------------------------------------------------------------
(* submit_order                                                            *)

\* order_body: a market order (Coinbase's market_market_ioc) does not rest, and
\* Day means nothing on a 24/7 venue and goes out as GTC.
CryptoLife(r) == IF r.type = "market" \/ r.tif = "ioc" THEN "ioc" ELSE "gtc"

\* Alpaca gets the order's own time in force.
AlpacaLife(r) == r.tif

Life(r) == IF broker = "ALPACA" THEN AlpacaLife(r) ELSE CryptoLife(r)

\* A limit order without a price is refused before it is sent; Alpaca's goes out.
Refused(r) == r.type = "unpriced" /\ broker # "ALPACA"

\* external: the answers that leave open whether the order was taken.  An
\* answer is its HTTP status ("ok", "refused" 4xx, "limited" 429, "failed" 5xx,
\* "none" for no answer) and its body: "text" is not JSON, "error" is JSON with
\* no code or one the connector does not know, "unsure" has a code that says so.
Undecided ==
  {<<"none", "none">>} \cup {"ok", "failed", "limited"} \X {"text", "error"}
    \cup CASE broker = "BINANCE"         -> {"refused", "failed"} \X {"unsure"}
           [] broker \in {"BYBIT", "OKX"} -> {"ok", "failed"} \X {"unsure"}
           [] OTHER                       -> {}

\* external: the answers of a venue that took the order, and of one that did not.
\* "bare" accepts without an order id.
TakenAnswers == Undecided \cup {<<"ok", "accepted">>, <<"ok", "bare">>}

RefusedAnswers ==
  Undecided \cup {<<"refused", "refusal">>, <<"limited", "refusal">>}
    \cup IF broker \in {"ALPACA", "BINANCE"} THEN {} ELSE {<<"ok", "refusal">>}

\* http_failure: a 5xx or a 429 says nothing about the order.
HttpFailure(a) == IF a[1] \in {"failed", "limited"} THEN "unknown" ELSE "rejected"

AlpacaVerdict(a) ==
  CASE a[1] = "none" -> "unknown"
    [] a[1] = "ok"   -> IF a[2] = "text" THEN "unknown" ELSE "accepted"
    [] OTHER         -> HttpFailure(a)

\* submit_error: -1006 and -1007 mean the venue cannot tell.
BinanceVerdict(a) ==
  CASE a[1] = "none"     -> "unknown"
    [] a[1] = "ok"       -> IF a[2] = "text" THEN "unknown" ELSE "accepted"
    [] a[2] = "unsure"   -> "unknown"
    [] OTHER             -> HttpFailure(a)

\* parse_body, envelope and created: any JSON error but the two known to leave
\* the outcome open is a rejection, whatever the HTTP status.
BybitVerdict(a) ==
  CASE a[2] = "accepted"             -> "accepted"
    [] a[2] \in {"refusal", "error"} -> "rejected"
    [] OTHER                         -> "unknown"

\* parse_body and parse_create: accepted without an id is read as refused.
CoinbaseVerdict(a) ==
  CASE a[1] = "none" -> "unknown"
    [] a[1] = "ok"   -> CASE a[2] = "text"     -> "unknown"
                          [] a[2] = "accepted" -> "accepted"
                          [] OTHER             -> "rejected"
    [] OTHER         -> HttpFailure(a)

\* parse_body and envelope; accepted without an id is a rejection here too.
OkxVerdict(a) ==
  CASE a[2] = "accepted"                     -> "accepted"
    [] a[2] \in {"refusal", "error", "bare"} -> "rejected"
    [] OTHER                                 -> "unknown"

Verdict(a) ==
  CASE broker = "ALPACA"   -> AlpacaVerdict(a)
    [] broker = "BINANCE"  -> BinanceVerdict(a)
    [] broker = "BYBIT"    -> BybitVerdict(a)
    [] broker = "COINBASE" -> CoinbaseVerdict(a)
    [] OTHER               -> OkxVerdict(a)

SubmitOrder(r) ==
  /\ submit.pc = "idle"
  /\ submit' = IF Refused(r) THEN [submit EXCEPT !.pc = "done", !.verdict = "rejected"]
                            ELSE [submit EXCEPT !.pc = "sent"]
  /\ held' = [held EXCEPT !.tif = Life(r)]
  /\ UNCHANGED <<broker, pushes, session, sweep, told, left>>

\* external: the venue takes the order or not, and some answer comes back.
VenueTakes ==
  /\ submit.pc = "sent" /\ held.status = "absent"
  /\ \/ \E a \in TakenAnswers : /\ submit' = [submit EXCEPT !.pc = "answered", !.answer = a]
                                /\ held' = [held EXCEPT !.status = "new"]
     \/ \E a \in RefusedAnswers : /\ submit' = [submit EXCEPT !.pc = "answered", !.answer = a]
                                  /\ UNCHANGED held
  /\ UNCHANGED <<broker, pushes, session, sweep, told, left>>

\* The order is Ok with or without an id, refused, or left for reconcile.
SubmitAnswered ==
  /\ submit.pc = "answered"
  /\ submit' = [submit EXCEPT !.pc = "done",
                  !.verdict = IF Verdict(submit.answer) = "accepted" /\ submit.answer[2] = "accepted"
                                THEN "named" ELSE Verdict(submit.answer)]
  /\ UNCHANGED <<broker, held, pushes, session, sweep, told, left>>

-----------------------------------------------------------------------------
(* The venue (external)                                                    *)

Push(topic, qty) == [topic |-> topic, status |-> held'.status, qty |-> qty, cum |-> held'.exec]

\* Bybit pushes a trade on two topics; the others in one message.
PushTrade(qty) ==
  IF broker = "BYBIT" THEN <<Push("execution", qty), Push("order", 0)>> ELSE <<Push("order", qty)>>

VenueTradesLots ==
  /\ held.status \in Open
  /\ \E q \in 1..(Lots - held.exec) :
       /\ held' = [held EXCEPT !.exec = @ + q,
                               !.status = IF held.exec + q = Lots THEN "filled" ELSE "partial"]
       /\ pushes' = pushes \o PushTrade(q)
  /\ UNCHANGED <<broker, submit, session, sweep, told, left>>

\* How an order may end unfilled: an unexecuted rest expires where the venue
\* calls it that, and is canceled elsewhere.
Endings ==
  {"canceled"} \cup (IF broker = "OKX" THEN {} ELSE {"rejected"})
    \cup IF (broker = "ALPACA" /\ held.tif = "day") \/ (broker \in {"BINANCE", "COINBASE"} /\ held.tif = "ioc")
           THEN {"expired"} ELSE {}

VenueEnds ==
  /\ held.status \in Open
  /\ \E s \in Endings : held' = [held EXCEPT !.status = s]
  /\ pushes' = Append(pushes, Push("order", 0))
  /\ UNCHANGED <<broker, submit, session, sweep, told, left>>

\* OKX forgets a canceled order with nothing filled.
VenueForgets ==
  /\ broker = "OKX" /\ held.status = "canceled" /\ held.exec = 0
  /\ held' = [held EXCEPT !.status = "forgotten"]
  /\ UNCHANGED <<broker, pushes, submit, session, sweep, told, left>>

-----------------------------------------------------------------------------
(* Each connector's reading of one push, as what it makes the engine see   *)

Fill(p) == [kind |-> "fill", qty |-> p.qty]
Cumulative(p) == [kind |-> "cumulative", qty |-> p.cum]
Terminal(p) == [kind |-> "terminal", qty |-> p.cum]
BareClose == [kind |-> "bare", qty |-> 0]

\* handle_trade_update: an expired order is passed over, and left to the sweep.
AlpacaReads(p) ==
  IF p.qty > 0 THEN {Fill(p)} ELSE IF p.status \in {"rejected", "canceled"} THEN {BareClose} ELSE {}

\* handle_execution_report
BinanceReads(p) ==
  IF p.qty > 0 THEN {Fill(p)} ELSE IF p.status \in {"canceled", "rejected", "expired"} THEN {BareClose} ELSE {}

\* Faulty variant: an order update closes the order whatever was executed.
BybitReadsBare(p) ==
  IF p.topic = "execution" THEN {Fill(p)} ELSE IF p.status \in {"canceled", "rejected"} THEN {BareClose} ELSE {}

\* reports: fills come from the execution topic only; an order update closes,
\* with the executed quantity when there is one, since it may overtake them.
BybitReads(p) ==
  IF p.topic = "execution" THEN {Fill(p)}
  ELSE IF p.status \in {"canceled", "rejected"} THEN {IF p.cum > 0 THEN Terminal(p) ELSE BareClose}
  ELSE {}

\* updates, Coinbase's and OKX's: never one trade, always the order's state.
StateReads(p) ==
  IF p.status \in Closed THEN {Terminal(p)} ELSE IF p.cum > 0 THEN {Cumulative(p)} ELSE {}

Reads(p) ==
  CASE broker = "ALPACA"  -> AlpacaReads(p)
    [] broker = "BINANCE" -> BinanceReads(p)
    [] broker = "BYBIT"   -> BybitReads(p)
    [] OTHER              -> StateReads(p)

\* The engine books what it is told until the order is closed for it.
Tell(t, e) ==
  IF t.close # "none" THEN t
  ELSE CASE e.kind = "fill"       -> [t EXCEPT !.fills = @ + e.qty,
                                               !.close = IF t.fills + e.qty = Lots THEN "filled" ELSE @]
         [] e.kind = "cumulative" -> [t EXCEPT !.cum = IF @ < e.qty THEN e.qty ELSE @]
         [] e.kind = "terminal"   -> [t EXCEPT !.cum = e.qty, !.close = "terminal"]
         [] OTHER                 -> [t EXCEPT !.close = e.kind]

TellAll(events) == \/ events = {} /\ UNCHANGED told
                   \/ \E e \in events : told' = Tell(told, e)

-----------------------------------------------------------------------------
(* The stream: supervise and connect_and_run                               *)

\* The session dials and sends its credentials.
Dial ==
  /\ session = "waiting"
  /\ session' = "connected"
  /\ UNCHANGED <<broker, held, pushes, submit, sweep, told, left>>

\* The venue accepts them, and the subscription goes out (Alpaca's went before).
Authenticated ==
  /\ session = "connected" /\ Stream.login
  /\ session' = "authed"
  /\ UNCHANGED <<broker, held, pushes, submit, sweep, told, left>>

Asked == [sweep EXCEPT !.pc = IF @ = "idle" THEN "asked" ELSE @]

\* Subscribed, or at Coinbase the first user message.
GoLive ==
  /\ session = IF Stream.login THEN "authed" ELSE "connected"
  /\ session' = "live"
  /\ sweep' = IF Stream.sweepsLive THEN Asked ELSE sweep
  /\ UNCHANGED <<broker, held, pushes, submit, told, left>>

\* Faulty variant: a beat only pings.
BeatPings ==
  /\ session # "waiting"
  /\ UNCHANGED restVars

\* The heartbeat of a connected stream pings and asks for a sweep.
Beat ==
  /\ session # "waiting"
  /\ sweep' = Asked
  /\ UNCHANGED <<broker, held, pushes, submit, session, told, left>>

\* Bybit's two topics are not ordered against each other.
Readable == {i \in DOMAIN pushes :
               \A j \in 1..(i - 1) : broker = "BYBIT" /\ pushes[j].topic # pushes[i].topic}

ReadPush ==
  /\ session = "live"
  /\ \E i \in Readable : TellAll(Reads(pushes[i])) /\ pushes' = RemoveAt(pushes, i)
  /\ UNCHANGED <<broker, held, submit, session, sweep, left>>

\* A push to a stream that is not live goes nowhere.
PushLost ==
  /\ session # "live" /\ pushes # <<>>
  /\ pushes' = Tail(pushes)
  /\ told' = [told EXCEPT !.lost = @ + Head(pushes).qty]
  /\ UNCHANGED <<broker, held, submit, session, sweep, left>>

\* Closed, an error, or the credentials refused: the supervisor waits and dials.
StreamEnds ==
  /\ session # "waiting" /\ left.ends > 0
  /\ session' = "waiting"
  /\ left' = [left EXCEPT !.ends = @ - 1]
  /\ UNCHANGED <<broker, held, pushes, submit, sweep, told>>

-----------------------------------------------------------------------------
(* The sweep, for this order                                               *)

RestWorking == submit.verdict \in {"named", "accepted"} /\ told.close = "none"

\* load_stuck_orders: still submitted past the grace period, which outlasts
\* the submit call.
Stuck == submit.verdict = "unknown" /\ told = [NothingTold EXCEPT !.lost = told.lost]

\* open_orders of the five adapters.
OpenOrders ==
  /\ sweep.pc = "asked"
  /\ sweep' = [pc |-> "listed", open |-> held.status \in Open]
  /\ UNCHANGED <<broker, held, pushes, submit, session, told, left>>

\* order_status: by the venue's id when there is one, else by our own, which
\* Coinbase cannot do.
LookedUpById == submit.verdict = "named"

NoSuchOrder == held.status = "absent" \/ (held.status = "forgotten" /\ ~ LookedUpById)

OrderState == [kind |-> IF held.status \in Closed THEN "terminal" ELSE "cumulative", qty |-> held.exec]

\* What the lookup makes the engine see: missing_order_state reads OKX's "no
\* such order" for an id it gave out as canceled with nothing filled.
StatusTells ==
  IF broker = "COINBASE" /\ ~ LookedUpById THEN {}
  ELSE IF NoSuchOrder THEN IF Stuck THEN {[kind |-> "never", qty |-> 0]} ELSE {}
  ELSE IF Stuck /\ held.status \notin Closed THEN {} ELSE {OrderState}

\* An order listed as open is routed or left alone; any other is asked about.
OrderStatus ==
  /\ sweep.pc = "listed"
  /\ IF ~ sweep.open /\ (RestWorking \/ Stuck) THEN TellAll(StatusTells) ELSE UNCHANGED told
  /\ submit' = IF sweep.open /\ Stuck THEN [submit EXCEPT !.verdict = "named"] ELSE submit
  /\ sweep' = [pc |-> "idle", open |-> FALSE]
  /\ UNCHANGED <<broker, held, pushes, session, left>>

\* Either call fails on the wire or is refused: nothing is done this time.
SweepFails ==
  /\ sweep.pc # "idle" /\ left.silences > 0
  /\ sweep' = [pc |-> "idle", open |-> FALSE]
  /\ left' = [left EXCEPT !.silences = @ - 1]
  /\ UNCHANGED <<broker, held, pushes, submit, session, told>>

-----------------------------------------------------------------------------
RestNext ==
  \/ \E r \in [type : {"market", "limit", "unpriced"}, tif : {"day", "ioc"}] : SubmitOrder(r)
  \/ VenueTakes \/ SubmitAnswered
  \/ VenueTradesLots \/ VenueEnds \/ VenueForgets
  \/ Dial \/ Authenticated \/ GoLive \/ Beat \/ ReadPush \/ PushLost \/ StreamEnds
  \/ OpenOrders \/ OrderStatus \/ SweepFails

StreamStep == Dial \/ Authenticated \/ GoLive

SweepStep == OpenOrders \/ OrderStatus

-----------------------------------------------------------------------------
\* The answers read as a refusal that do not say so: a JSON error without a code
\* the connector knows, at Bybit and OKX under any HTTP status and at Coinbase
\* under a success, and at Coinbase and OKX an acceptance without an order id.
Misread(a) ==
  \/ a[2] = "error" /\ broker \in {"BYBIT", "OKX"}
  \/ a = <<"ok", "error">> /\ broker = "COINBASE"
  \/ a[2] = "bare" /\ broker \in {"COINBASE", "OKX"}

\* What the connectors tell is true of the venue.  An order is only called
\* rejected when the venue did not take it, unless the answer is one of those
\* misread, and never arrived only when it did not take it or has forgotten it
\* unfilled.  No more is reported than was executed, of an order misread as
\* refused too.  A close carries what was executed; a bare one comes only after
\* every execution was reported, or lost with the stream.
RestVerdictsTrue ==
  /\ submit.verdict = "rejected" => held.status = "absent" \/ Misread(submit.answer)
  /\ told.fills <= held.exec /\ told.cum <= held.exec
  /\ told.close = "filled" => held.status = "filled"
  /\ told.close = "never" => held.status \in {"absent", "forgotten"}
  /\ told.close = "bare" => held.status \in Closed /\ told.fills + told.lost = held.exec
  /\ told.close = "terminal" => held.status \in Closed /\ told.cum = held.exec

\* Every close of an order the OMS routed is told in the end, over whatever the
\* stream lost or passed over: the heartbeat's sweep asks.
RestCloseIsTold == (submit.verdict = "named" /\ held.status \in Closed) ~> told.close # "none"
=============================================================================

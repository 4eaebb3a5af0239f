---------------------------- MODULE StrategyGate ----------------------------
(***************************************************************************)
(* What admits a strategy's orders, and what takes them back.  The first   *)
(* transaction of order_entry.rs submit locks the strategy's row           *)
(* (strategies::by_portfolio), gates the order on the FIX session, reads   *)
(* the exposure in two statements and checks state and limits              *)
(* (strategies/guard.rs, risk_engine.rs, domain/orders/risk.rs).  Against  *)
(* it run Kill, Flatten and Enable (strategies/control.rs), the end of a   *)
(* FIX session, a restart with its boot recovery, reloads of the in-memory *)
(* registry, and the fills and closes the order engine books.              *)
(*                                                                         *)
(* One strategy, one instrument.  Prices are left out: the checks on them  *)
(* may refuse any order (Refuse).  An order the venue works is filled or   *)
(* closed at any time; a cancel only asks (asked), as order_entry.rs       *)
(* cancel does.                                                            *)
(***************************************************************************)
EXTENDS Integers, FiniteSets, Sums

CONSTANTS
  Orders,       \* order ids
  Quantities,   \* order quantities
  MaxPosition,  \* max_position_quantity
  Controls,     \* the control actions an operator uses
  MaxControls,  \* how many of them
  MaxSessions,  \* how many FIX sessions log on
  MaxMishaps    \* how many restarts, failures, and reloads by other admin writes

ASSUME GateAssumption ==
  /\ IsFiniteSet(Orders) /\ Quantities \subseteq Nat \ {0}
  /\ Controls \subseteq {"kill", "flatten", "enable"}
  /\ "free" \notin Orders
  /\ {MaxPosition, MaxControls, MaxSessions, MaxMishaps} \subseteq Nat

VARIABLES
  strategy,  \* the strategy row: [state, rest_enabled]
  snapshot,  \* RegistrySnapshot: the row as last loaded, or NoRow
  loaded,    \* a reload between its query and its store, or NoRow
  lock,      \* who holds the strategy row FOR UPDATE: an order, or "free"
  order,     \* each order: its request, its submit task and its order_state row
  position,  \* position.net_qty
  session,   \* FixSessions: [live, epoch, barred]
  ending,    \* on_session_end tasks that have not listed yet
  control,   \* the control action in progress, and the step it is at
  booting,   \* the process is starting: boot_recovery has not run
  asked,     \* orders not yet closed a cancel was sent for
  unsent,    \* history: orders not yet closed a failure left out of such a cancel
  cleared,   \* history: a Kill's report had no failure, and no control came since
  missed,    \* history: quantity filled between a check's two reads
  spent      \* controls, reloads, crashes and faults so far

history == <<asked, unsent, cleared>>

vars == <<strategy, snapshot, loaded, lock, order, position, session, ending, control,
          booting, history, missed, spent>>

TradingState == {"ACTIVE", "REDUCING", "HALTED"}

Origin == {"API", "FIX", "FLATTEN"}

Row == [state : TradingState, rest_enabled : BOOLEAN]

\* No reload under way; in the snapshot, a registry that was never loaded
\* (mod.rs stopped_strategy finds nobody to refuse in it).
NoRow == [state |-> "none", rest_enabled |-> TRUE]

Idle == [act |-> "none", at |-> "none"]

NewOrder == [pc |-> "idle", origin |-> "API", side |-> 1, qty |-> 0,
             row |-> "ACTIVE", seen |-> 0, leaves |-> 0]

Mishap == spent.reloads + spent.crashes + spent.faults < MaxMishaps

Init ==
  /\ strategy = [state |-> "ACTIVE", rest_enabled |-> TRUE]
  /\ snapshot = strategy /\ loaded = NoRow
  /\ lock = "free"
  /\ order = [o \in Orders |-> NewOrder]
  /\ position = 0
  /\ session = [live |-> FALSE, epoch |-> 0, barred |-> FALSE]
  /\ ending = 0 /\ control = Idle /\ booting = FALSE
  /\ asked = {} /\ unsent = {} /\ cleared = FALSE /\ missed = 0
  /\ spent = [controls |-> 0, reloads |-> 0, crashes |-> 0, faults |-> 0]

-----------------------------------------------------------------------------
(* Helpers                                                                 *)

\* order_state rows in 'submitted', 'routed' or 'partially_filled'
Live == {o \in Orders : order[o].pc = "live"}

Signed(o, qty) == order[o].side * qty

\* exposure, its second statement: the signed open quantity of the live orders
Working == Total([o \in Live |-> Signed(o, order[o].leaves)])

Abs(n) == IF n < 0 THEN -n ELSE n

\* The order is over; of its request only the side is kept.
Gone(o) == [NewOrder EXCEPT !.pc = "closed", !.side = order[o].side]

Forget(o) == asked' = asked \ {o} /\ unsent' = unsent \ {o}

\* A transaction that holds the strategy's row.
Checking == {"locked", "reading", "checked"}

OrderRecord ==
  [pc : {"idle", "begin", "live", "closed"} \cup Checking, origin : Origin,
   side : {1, -1}, qty : Nat, row : TradingState, seen : Int, leaves : Nat]

-----------------------------------------------------------------------------
(* submit                                                                  *)

Receive(o, origin, side, qty) ==
  /\ order[o].pc = "idle"
  /\ order' = [order EXCEPT ![o] = [NewOrder EXCEPT !.pc = "begin", !.origin = origin,
                 !.side = side, !.qty = qty]]

\* auth.rs: the token of a stopped strategy is refused, by the snapshot.
ReceiveApi ==
  /\ ~ booting /\ snapshot.rest_enabled
  /\ \E o \in Orders, side \in {1, -1}, qty \in Quantities : Receive(o, "API", side, qty)
  /\ UNCHANGED <<strategy, snapshot, loaded, lock, position, session, ending, control,
                 booting, history, missed, spent>>

\* session.rs run: a request on a live session, handled on a task of its own.
ReceiveFix ==
  /\ ~ booting /\ session.live
  /\ \E o \in Orders, side \in {1, -1}, qty \in Quantities : Receive(o, "FIX", side, qty)
  /\ UNCHANGED <<strategy, snapshot, loaded, lock, position, session, ending, control,
                 booting, history, missed, spent>>

\* Faulty variant: the row is read without its lock.
LockRowUnserialized(o) ==
  /\ order[o].pc = "begin"
  /\ order' = [order EXCEPT ![o].pc = "locked", ![o].row = strategy.state]
  /\ UNCHANGED <<strategy, snapshot, loaded, lock, position, session, ending, control,
                 booting, history, missed, spent>>

\* strategies::by_portfolio: SELECT ... FOR UPDATE; the row is held, and used as
\* it was read, until the commit.
LockRow(o) ==
  /\ order[o].pc = "begin" /\ lock = "free"
  /\ lock' = o
  /\ order' = [order EXCEPT ![o].pc = "locked", ![o].row = strategy.state]
  /\ UNCHANGED <<strategy, snapshot, loaded, position, session, ending, control,
                 booting, history, missed, spent>>

\* guard::session_gate, by the strategy's code
SessionGate(o) == order[o].origin = "FIX" => session.live

\* The gates, then exposure's first statement: the position.
ReadPosition(o) ==
  /\ order[o].pc = "locked" /\ SessionGate(o)
  /\ order' = [order EXCEPT ![o].pc = "reading", ![o].seen = position]
  /\ UNCHANGED <<strategy, snapshot, loaded, lock, position, session, ending, control,
                 booting, history, missed, spent>>

\* check_trading_state
StateAllows(state, side, seen) ==
  \/ state = "ACTIVE"
  \/ state = "REDUCING" /\ side * seen < 0

\* Faulty variant: the state is the snapshot's, whatever the row says.
AllowsBySnapshot(o) ==
  /\ StateAllows(snapshot.state, order[o].side, order[o].seen)
  /\ Abs(order[o].seen + Working + Signed(o, order[o].qty)) <= MaxPosition

\* guard::check: the locked row's state, then check_limit on the projection.
Allows(o) ==
  /\ StateAllows(order[o].row, order[o].side, order[o].seen)
  /\ Abs(order[o].seen + Working + Signed(o, order[o].qty)) <= MaxPosition

\* Exposure's second statement, and the checks.
ReadWorking(o) ==
  /\ order[o].pc = "reading" /\ Allows(o)
  /\ order' = [order EXCEPT ![o].pc = "checked", ![o].seen = 0]
  /\ UNCHANGED <<strategy, snapshot, loaded, lock, position, session, ending, control,
                 booting, history, missed, spent>>

\* The order_state row and its event, and the commit.
Admit(o) ==
  /\ order[o].pc = "checked"
  /\ order' = [order EXCEPT ![o].pc = "live", ![o].leaves = order[o].qty,
                             ![o].row = "ACTIVE"]
  /\ lock' = "free"
  /\ UNCHANGED <<strategy, snapshot, loaded, position, session, ending, control, booting,
                 history, missed, spent>>

\* No reference price, a gate, a limit, the price band or an error: the
\* transaction is dropped, and record_rejection keeps the refusal on record.
Refuse(o) ==
  /\ order[o].pc \in {"begin"} \cup Checking
  /\ order' = [order EXCEPT ![o] = Gone(o)]
  /\ lock' = IF lock = o THEN "free" ELSE lock
  /\ Forget(o)
  /\ UNCHANGED <<strategy, snapshot, loaded, position, session, ending, control, booting,
                 cleared, missed, spent>>

-----------------------------------------------------------------------------
(* The order engine: a fill moves row and position in one transaction and  *)
(* does not take the strategy's row.                                       *)

\* apply_once: leaves go down; a full fill closes the order.
AfterFill(o, q) ==
  IF q = order[o].leaves THEN Gone(o)
  ELSE [order[o] EXCEPT !.leaves = order[o].leaves - q]

Fill(o) ==
  /\ o \in Live /\ ~ booting
  /\ \E q \in 1..order[o].leaves :
       /\ order' = [order EXCEPT ![o] = AfterFill(o, q)]
       /\ IF q = order[o].leaves THEN Forget(o) ELSE UNCHANGED <<asked, unsent>>
       /\ position' = position + Signed(o, q)
       /\ missed' = missed + IF \E p \in Orders : order[p].pc = "reading" THEN q ELSE 0
  /\ UNCHANGED <<strategy, snapshot, loaded, lock, session, ending, control, booting,
                 cleared, spent>>

\* The venue canceled or rejected it.
Close(o) ==
  /\ o \in Live /\ ~ booting
  /\ order' = [order EXCEPT ![o] = Gone(o)]
  /\ Forget(o)
  /\ UNCHANGED <<strategy, snapshot, loaded, lock, position, session, ending, control,
                 booting, cleared, missed, spent>>

-----------------------------------------------------------------------------
(* control.rs                                                              *)

\* A statement that fails, or a client that hangs up.
Fault ==
  /\ Mishap
  /\ spent' = [spent EXCEPT !.faults = @ + 1]

\* set_state: an UPDATE, which waits for the row's lock.
SetState ==
  /\ ~ booting /\ control = Idle /\ spent.controls < MaxControls /\ lock = "free"
  /\ \E c \in Controls :
       /\ control' = [act |-> c, at |-> "reload"]
       /\ strategy' = CASE c = "kill"    -> [state |-> "HALTED",   rest_enabled |-> FALSE]
                        [] c = "flatten" -> [state |-> "REDUCING", rest_enabled |-> FALSE]
                        [] c = "enable"  -> [state |-> "ACTIVE",   rest_enabled |-> TRUE]
  /\ cleared' = FALSE
  /\ spent' = [spent EXCEPT !.controls = @ + 1]
  /\ UNCHANGED <<snapshot, loaded, lock, order, position, session, ending, booting, asked,
                 unsent, missed>>

\* The orders of one listing, and those on their way into it.
Listed(keep_flatten) == {o \in Live : ~ (keep_flatten /\ order[o].origin = "FLATTEN")}

Passed(keep_flatten) ==
  {o \in Orders : /\ order[o].pc \in {"reading", "checked"}
                  /\ ~ (keep_flatten /\ order[o].origin = "FLATTEN")}

\* cancel_open's loop: a cancel that fails is reported and not tried again.
Ask(open) ==
  \E failed \in SUBSET open :
    /\ asked' = asked \cup (open \ failed)
    /\ unsent' = unsent \cup failed
    /\ IF failed = {} THEN UNCHANGED spent ELSE Fault

\* The listing failed: nothing is asked, and what is past its checks escapes too.
ListingFails(keep_flatten) ==
  /\ Fault
  /\ unsent' = unsent \cup Listed(keep_flatten) \cup Passed(keep_flatten)
  /\ UNCHANGED asked

\* Faulty variant: the open orders are listed without waiting for the row.
CancelOpenUnlocked(keep_flatten) == Ask(Listed(keep_flatten)) \/ ListingFails(keep_flatten)

\* cancel_open lists under the row's lock and asks to cancel what it listed.
CancelOpen(keep_flatten) ==
  \/ lock = "free" /\ Ask(Listed(keep_flatten))
  \/ ListingFails(keep_flatten)

\* kill and flatten once the row is changed: set_state reloads the snapshot.
ReloadStopped ==
  /\ control.act \in {"kill", "flatten"} /\ control.at = "reload"
  /\ snapshot' = strategy
  /\ control' = [control EXCEPT !.at = "cancel"]
  /\ UNCHANGED <<strategy, loaded, lock, order, position, session, ending, booting, history,
                 missed, spent>>

\* Faulty variant: the cancels of a stop spare Flatten's orders, as the others do.
StopStrategyKeepingFlatten ==
  /\ control.at = "cancel"
  /\ CancelOpen(TRUE)
  /\ cleared' = (control.act = "kill" /\ spent' = spent)
  /\ control' = [control EXCEPT !.at = "logout"]
  /\ UNCHANGED <<strategy, snapshot, loaded, lock, order, position, session, ending, booting,
                 missed>>

\* Then everything is canceled; a Kill reports whether that failed anywhere.
StopStrategy ==
  /\ control.at = "cancel"
  /\ CancelOpen(FALSE)
  /\ cleared' = (control.act = "kill" /\ spent' = spent)
  /\ control' = [control EXCEPT !.at = "logout"]
  /\ UNCHANGED <<strategy, snapshot, loaded, lock, order, position, session, ending, booting,
                 missed>>

\* Whatever the report says, the session is barred and told to log out.
LogOutStopped ==
  /\ control.at = "logout"
  /\ session' = [session EXCEPT !.barred = TRUE]
  /\ control' = IF control.act = "flatten" THEN [control EXCEPT !.at = "close_out"] ELSE Idle
  /\ UNCHANGED <<strategy, snapshot, loaded, lock, order, position, ending, booting, history,
                 missed, spent>>

\* flatten's closing order: the whole position read now, on the opposite side.
CloseOut ==
  /\ control.at = "close_out" /\ position # 0
  /\ \E o \in Orders :
       Receive(o, "FLATTEN", IF position > 0 THEN -1 ELSE 1, Abs(position))
  /\ control' = Idle
  /\ UNCHANGED <<strategy, snapshot, loaded, lock, position, session, ending, booting,
                 history, missed, spent>>

\* Flat, or no band, price or account to close with.
SkipCloseOut ==
  /\ control.at = "close_out"
  /\ control' = Idle
  /\ UNCHANGED <<strategy, snapshot, loaded, lock, order, position, session, ending,
                 booting, history, missed, spent>>

Enable ==
  /\ control.act = "enable"
  /\ snapshot' = strategy
  /\ session' = [session EXCEPT !.barred = FALSE]
  /\ control' = Idle
  /\ UNCHANGED <<strategy, loaded, lock, order, position, ending, booting, history, missed,
                 spent>>

\* set_state's reload fails and the action answers an error, or its client hangs
\* up: the row stays changed, and what is left of the action is not done.
AbandonControl ==
  /\ control.at \in {"reload", "cancel", "logout"}
  /\ Fault
  /\ unsent' = IF control.at = "logout" \/ control.act = "enable" THEN unsent
               ELSE unsent \cup Live
  /\ control' = Idle
  /\ UNCHANGED <<strategy, snapshot, loaded, lock, order, position, session, ending, booting,
                 asked, cleared, missed>>

\* RegistrySnapshot::reload by another admin write: a query, then a store.
ReloadQuery ==
  /\ loaded = NoRow /\ Mishap /\ ~ booting
  /\ loaded' = strategy
  /\ spent' = [spent EXCEPT !.reloads = @ + 1]
  /\ UNCHANGED <<strategy, snapshot, lock, order, position, session, ending, control,
                 booting, history, missed>>

ReloadStore ==
  /\ loaded # NoRow
  /\ snapshot' = loaded /\ loaded' = NoRow
  /\ UNCHANGED <<strategy, lock, order, position, session, ending, control, booting, history,
                 missed, spent>>

-----------------------------------------------------------------------------
(* session.rs                                                              *)

\* logon_decision, from the snapshot; then logged_on.
LoggedOn ==
  /\ ~ booting /\ ~ session.live /\ ~ session.barred /\ session.epoch < MaxSessions
  /\ snapshot.state # "HALTED" /\ snapshot.rest_enabled
  /\ session' = [session EXCEPT !.live = TRUE, !.epoch = @ + 1]
  /\ UNCHANGED <<strategy, snapshot, loaded, lock, order, position, ending, control,
                 booting, history, missed, spent>>

\* logged_out, then on_session_end on a task of its own.
LoggedOut ==
  /\ session.live
  /\ session' = [session EXCEPT !.live = FALSE]
  /\ ending' = ending + 1
  /\ UNCHANGED <<strategy, snapshot, loaded, lock, order, position, control, booting,
                 history, missed, spent>>

\* Nobody reads its report.
OnSessionEnd ==
  /\ ending > 0
  /\ CancelOpen(TRUE)
  /\ ending' = ending - 1
  /\ UNCHANGED <<strategy, snapshot, loaded, lock, order, position, session, control,
                 booting, cleared, missed>>

-----------------------------------------------------------------------------
\* The process dies: open transactions roll back, tasks and sessions are gone.
Crash ==
  /\ ~ booting /\ Mishap
  /\ spent' = [spent EXCEPT !.crashes = @ + 1]
  /\ order' = [o \in Orders |-> IF order[o].pc \in {"begin"} \cup Checking
                                  THEN Gone(o) ELSE order[o]]
  /\ lock' = "free" /\ loaded' = NoRow /\ control' = Idle /\ ending' = 0
  /\ session' = [session EXCEPT !.live = FALSE, !.barred = FALSE]
  /\ booting' = TRUE
  /\ UNCHANGED <<strategy, snapshot, position, history, missed>>

\* main.rs: load the registry and run boot_recovery, before anything is served.
BootRecovery ==
  /\ booting
  /\ snapshot' = strategy
  /\ CancelOpen(TRUE)
  /\ booting' = FALSE
  /\ UNCHANGED <<strategy, loaded, lock, order, position, session, ending, control, cleared,
                 missed>>

\* The registry cannot be loaded, which is logged: boot_recovery sees no strategy.
BootUnloaded ==
  /\ booting
  /\ ListingFails(TRUE)
  /\ snapshot' = NoRow
  /\ booting' = FALSE
  /\ UNCHANGED <<strategy, loaded, lock, order, position, session, ending, control, cleared,
                 missed>>

-----------------------------------------------------------------------------
Next ==
  \/ ReceiveApi \/ ReceiveFix
  \/ \E o \in Orders : \/ LockRow(o) \/ ReadPosition(o) \/ ReadWorking(o) \/ Admit(o)
                       \/ Refuse(o) \/ Fill(o) \/ Close(o)
  \/ SetState \/ ReloadStopped \/ StopStrategy \/ LogOutStopped \/ CloseOut
  \/ SkipCloseOut \/ Enable \/ AbandonControl
  \/ ReloadQuery \/ ReloadStore
  \/ LoggedOn \/ LoggedOut \/ OnSessionEnd
  \/ Crash \/ BootRecovery \/ BootUnloaded

Spec == Init /\ [][Next]_vars

-----------------------------------------------------------------------------
(* Properties                                                              *)

\* Every variable has its type, and the row's lock is held exactly by the order
\* whose transaction is between its lock and its commit.
TypeOK ==
  /\ strategy \in Row /\ {snapshot, loaded} \subseteq Row \cup {NoRow}
  /\ order \in [Orders -> OrderRecord]
  /\ position \in Int /\ missed \in Nat /\ ending \in Nat /\ booting \in BOOLEAN
  /\ session \in [live : BOOLEAN, epoch : Nat, barred : BOOLEAN]
  /\ control \in [act : Controls \cup {"none"},
                  at : {"none", "reload", "cancel", "logout", "close_out"}]
  /\ asked \subseteq Orders /\ unsent \subseteq Orders /\ cleared \in BOOLEAN
  /\ spent \in [controls : Nat, reloads : Nat, crashes : Nat, faults : Nat]
  /\ lock \in Orders \cup {"free"}
  /\ \A o \in Orders : order[o].pc \in Checking <=> lock = o

\* The orders that were asked to cancel, or that a failure left out: a reload, a
\* listing or a cancel that failed, or a client that hung up.  Nobody tries again
\* for those (control.rs 62-73, 90-93).
Accounted(o) == o \in asked \cup unsent

\* A Kill whose report has no failure missed no order: everything working under
\* the strategy was asked to cancel, the orders included whose submit was past
\* its checks when the row changed, and so it stays until the next control
\* action, over restarts too.  A Kill that failed, or that a restart cut short,
\* misses only what the failure left out (the boot's cancels then spare
\* Flatten's orders).
KillReachesAll ==
  /\ cleared => Live \subseteq asked
  /\ strategy.state = "HALTED" /\ control = Idle /\ ~ booting =>
       \A o \in Live : Accounted(o) \/ (order[o].origin = "FLATTEN" /\ spent.crashes > 0)

\* A killed strategy places nothing until Enable, however stale the snapshot is
\* that let the request in.
NothingAdmittedWhileHalted ==
  [][strategy.state = "HALTED" => Live' \subseteq Live]_vars

\* Nothing is left working behind a strategy that is gone, unless a failure left
\* it out: when the cancels of ended sessions and of the boot are through and no
\* session is live, every FIX order still working was asked to cancel, the ones
\* included that were in flight when their session ended.
NoneWorksUnattended ==
  ending = 0 /\ ~ booting /\ ~ session.live =>
    \A o \in Live : order[o].origin = "FIX" => Accounted(o)

OnlyBuys == \A o \in Orders : order[o].side = 1

\* While the strategy only buys, position and working orders together stay
\* within the limit, but for what filled between the two reads of a check
\* (exposure reads them in two statements, and fills take no lock).
LimitHeld == OnlyBuys => position + Working <= MaxPosition + missed
=============================================================================

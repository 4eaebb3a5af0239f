---------------------------- MODULE OrderDomain ----------------------------
(***************************************************************************)
(* The pure write model of an order, src/src/domain/orders: which command  *)
(* a status admits (lifecycle.rs), what a command decides and how an event *)
(* folds into the state (aggregate.rs).  No variables: OrderAggregate runs *)
(* it as a state machine, OrderPath runs it behind the database.           *)
(*                                                                         *)
(* Quantities and prices are whole lots and ticks (the code's f64), and    *)
(* the average price is carried as the booked notional cum_qty * avg_px,   *)
(* so avg_px is notional / cum_qty and None exactly when nothing is        *)
(* booked.  A price of 0 stands for an absent (None) limit price.          *)
(***************************************************************************)
EXTENDS Integers, Sequences, Sums

LiveStatus == {"submitted", "routed", "partially_filled", "suspended"}

\* OrderStatus::is_terminal
TerminalStatus == {"filled", "rejected", "canceled", "expired"}

OrderStatus == LiveStatus \cup TerminalStatus

OrderType == {"market", "limit"}

CommandKind ==
  {"submit_order", "route_order", "replace_order", "cancel_order", "suspend_order",
   "release_order", "receive_execution_report", "expire_order"}

(***************************************************************************)
(* OrderAggregateState without the identifiers no rule reads.  An absent   *)
(* Option<OrderStatus> is "none"; an aggregate without a stream (state =   *)
(* None) is NoOrder, whose status is "none".                               *)
(***************************************************************************)
OrderState ==
  [status : OrderStatus \cup {"none"}, order_type : OrderType, limit_price : Nat,
   original_qty : Nat, leaves_qty : Int, cum_qty : Nat, notional : Nat,
   resume_to_status : LiveStatus \cup {"none"}, version : Nat]

NoOrder ==
  [status |-> "none", order_type |-> "market", limit_price |-> 0, original_qty |-> 0,
   leaves_qty |-> 0, cum_qty |-> 0, notional |-> 0, resume_to_status |-> "none",
   version |-> 0]

(***************************************************************************)
(* OrderDomainEvent: the envelope (version, status_after) and the fields   *)
(* of the payload that apply or the position reads.                        *)
(***************************************************************************)
FillTypes == {"order_partially_filled", "order_filled"}

LifecycleTypes == {"order_routed", "order_rejected", "order_canceled", "order_expired"}

OrderDomainEvent ==
  [type : {"order_submitted"}, version : Nat, status_after : {"submitted"},
   quantity : Nat, order_type : OrderType, limit_price : Nat]
  \cup [type : {"order_amended"}, version : Nat, status_after : LiveStatus,
        quantity : Nat, limit_price : Nat]
  \cup [type : {"order_suspended"}, version : Nat, status_after : {"suspended"},
        resume_to_status : LiveStatus]
  \cup [type : {"order_released"}, version : Nat, status_after : LiveStatus,
        resumed_to_status : LiveStatus]
  \cup [type : LifecycleTypes, version : Nat, status_after : OrderStatus]
  \cup [type : FillTypes, version : Nat, status_after : OrderStatus, fill_qty : Nat,
        fill_price : Nat, cum_qty : Nat, leaves_qty : Nat, notional : Nat]

-----------------------------------------------------------------------------
(* lifecycle.rs                                                            *)

\* Faulty variant: a late execution report reopens a closed order.
AllowedKindsWhenClosed(status) ==
  IF status \in {"submitted", "routed", "partially_filled", "suspended"}
    THEN CommandKind \ {"submit_order"}
    ELSE {"receive_execution_report"}

\* allowed_kinds_for_status; the explicit refusals of release, suspend and
\* replace that ensure_command_allowed lists first agree with this table.
AllowedKinds(status) ==
  CASE status = "submitted" ->
         {"route_order", "replace_order", "cancel_order", "suspend_order",
          "receive_execution_report", "expire_order"}
    [] status \in {"routed", "partially_filled"} ->
         {"replace_order", "cancel_order", "suspend_order",
          "receive_execution_report", "expire_order"}
    [] status = "suspended" ->
         {"cancel_order", "release_order", "receive_execution_report", "expire_order"}
    [] OTHER -> {}

\* ensure_command_allowed
Allowed(status, kind) ==
  IF status = "none" THEN kind = "submit_order"
                     ELSE kind # "submit_order" /\ kind \in AllowedKinds(status)

-----------------------------------------------------------------------------
(* OrderAggregate::decide, one operator per command.  Each yields the set  *)
(* of events the command may emit: empty when it is rejected.              *)

\* Err(CommandRejection) emits nothing, Ok(vec![event]) one event.
Emit(accepted, event) == IF accepted THEN {event} ELSE {}

\* The envelope of every event on an existing order.
Event(s, type, status_after) ==
  [type |-> type, version |-> s.version + 1, status_after |-> status_after]

\* invariants::validate_submit
ValidSubmit(quantity, order_type, limit_price) ==
  /\ quantity > 0
  /\ order_type = "limit" => limit_price > 0

DecideSubmit(s, quantity, order_type, limit_price) ==
  Emit(/\ Allowed(s.status, "submit_order")
       /\ ValidSubmit(quantity, order_type, limit_price),
       [type |-> "order_submitted", version |-> 1, status_after |-> "submitted",
        quantity |-> quantity, order_type |-> order_type, limit_price |-> limit_price])

DecideRoute(s) ==
  Emit(Allowed(s.status, "route_order"), Event(s, "order_routed", "routed"))

\* Faulty variant: an amendment may go below what is filled.
DecideReplaceBelowFilled(s, keepQty, new_quantity, keepPx, new_limit_price) ==
  LET qty == IF keepQty THEN s.original_qty ELSE new_quantity
      px  == IF keepPx THEN s.limit_price ELSE new_limit_price
  IN  Emit(/\ Allowed(s.status, "replace_order")
           /\ qty > 0
           /\ keepPx \/ new_limit_price > 0,
           [type |-> "order_amended", version |-> s.version + 1, status_after |-> s.status,
            quantity |-> qty, limit_price |-> px])

\* new_quantity and new_limit_price are Options: absent, they keep what the
\* order has.  keepQty and keepPx say that the field is absent.
DecideReplace(s, keepQty, new_quantity, keepPx, new_limit_price) ==
  LET qty == IF keepQty THEN s.original_qty ELSE new_quantity
      px  == IF keepPx THEN s.limit_price ELSE new_limit_price
  IN  Emit(/\ Allowed(s.status, "replace_order")
           /\ qty > 0 /\ qty >= s.cum_qty
           /\ keepPx \/ new_limit_price > 0,
           [type |-> "order_amended", version |-> s.version + 1, status_after |-> s.status,
            quantity |-> qty, limit_price |-> px])

DecideCancel(s) ==
  Emit(Allowed(s.status, "cancel_order"), Event(s, "order_canceled", "canceled"))

DecideSuspend(s) ==
  Emit(Allowed(s.status, "suspend_order"),
       [type |-> "order_suspended", version |-> s.version + 1,
        status_after |-> "suspended", resume_to_status |-> s.status])

DecideRelease(s) ==
  Emit(Allowed(s.status, "release_order") /\ s.resume_to_status # "none",
       [type |-> "order_released", version |-> s.version + 1,
        status_after |-> s.resume_to_status, resumed_to_status |-> s.resume_to_status])

DecideExpire(s) ==
  Emit(Allowed(s.status, "expire_order"), Event(s, "order_expired", "expired"))

\* ExecutionReport::Reject
DecideReject(s) ==
  Emit(Allowed(s.status, "receive_execution_report"), Event(s, "order_rejected", "rejected"))

\* ExecutionReport::Canceled: the venue confirms that the order is closed.
DecideCanceled(s) ==
  Emit(Allowed(s.status, "receive_execution_report"), Event(s, "order_canceled", "canceled"))

\* Faulty variant: the average price is the last fill's.
DecideFillLastPrice(s, fill_qty, fill_price) ==
  LET next_cum    == s.cum_qty + fill_qty
      next_leaves == s.original_qty - next_cum
      partly      == next_leaves > 0
  IN  Emit(/\ Allowed(s.status, "receive_execution_report")
           /\ fill_qty > 0 /\ fill_price > 0
           /\ next_cum <= s.original_qty,
           [type         |-> IF partly THEN "order_partially_filled" ELSE "order_filled",
            version      |-> s.version + 1,
            status_after |-> IF partly THEN "partially_filled" ELSE "filled",
            fill_qty     |-> fill_qty,
            fill_price   |-> fill_price,
            cum_qty      |-> next_cum,
            leaves_qty   |-> IF partly THEN next_leaves ELSE 0,
            notional     |-> next_cum * fill_price])

\* ExecutionReport::Fill
DecideFill(s, fill_qty, fill_price) ==
  LET next_cum    == s.cum_qty + fill_qty
      next_leaves == s.original_qty - next_cum
      partly      == next_leaves > 0
  IN  Emit(/\ Allowed(s.status, "receive_execution_report")
           /\ fill_qty > 0 /\ fill_price > 0
           /\ next_cum <= s.original_qty,
           [type         |-> IF partly THEN "order_partially_filled" ELSE "order_filled",
            version      |-> s.version + 1,
            status_after |-> IF partly THEN "partially_filled" ELSE "filled",
            fill_qty     |-> fill_qty,
            fill_price   |-> fill_price,
            cum_qty      |-> next_cum,
            leaves_qty   |-> IF partly THEN next_leaves ELSE 0,
            notional     |-> s.notional + fill_qty * fill_price])

-----------------------------------------------------------------------------
(* OrderAggregate::apply, one operator per arm of its match.               *)

ApplySubmitted(e) ==
  [NoOrder EXCEPT !.status = e.status_after, !.order_type = e.order_type,
                  !.limit_price = e.limit_price, !.original_qty = e.quantity,
                  !.leaves_qty = e.quantity, !.version = e.version]

ApplyAmended(s, e) ==
  [s EXCEPT !.limit_price = e.limit_price, !.original_qty = e.quantity,
            !.leaves_qty = e.quantity - s.cum_qty, !.status = e.status_after,
            !.version = e.version]

\* Faulty variant: a fill does not end a suspension.
ApplyFillWhileSuspended(s, e) ==
  [s EXCEPT !.cum_qty = e.cum_qty, !.leaves_qty = e.leaves_qty, !.notional = e.notional,
            !.status = IF @ = "suspended" /\ e.leaves_qty > 0 THEN @ ELSE e.status_after,
            !.version = e.version]

\* A fill leaves resume_to_status as it is, also when it ends a suspension.
ApplyFill(s, e) ==
  [s EXCEPT !.cum_qty = e.cum_qty, !.leaves_qty = e.leaves_qty, !.notional = e.notional,
            !.status = e.status_after, !.version = e.version]

ApplySuspended(s, e) ==
  [s EXCEPT !.status = e.status_after, !.resume_to_status = e.resume_to_status,
            !.version = e.version]

ApplyReleased(s, e) ==
  [s EXCEPT !.status = e.resumed_to_status, !.resume_to_status = "none",
            !.version = e.version]

\* Rejected, canceled, expired and routed: only a cancel empties leaves_qty.
ApplyLifecycle(s, e) ==
  [s EXCEPT !.leaves_qty = IF e.type = "order_canceled" THEN 0 ELSE @,
            !.status = e.status_after, !.resume_to_status = "none", !.version = e.version]

Apply(s, e) ==
  CASE e.type = "order_submitted" -> ApplySubmitted(e)
    [] e.type = "order_amended"   -> ApplyAmended(s, e)
    [] e.type \in FillTypes       -> ApplyFill(s, e)
    [] e.type = "order_suspended" -> ApplySuspended(s, e)
    [] e.type = "order_released"  -> ApplyReleased(s, e)
    [] OTHER                      -> ApplyLifecycle(s, e)

\* OrderAggregate::rehydrate: fold a whole stream, oldest event first.
Rehydrate(events) ==
  LET fold[i \in 0..Len(events)] ==
        IF i = 0 THEN NoOrder ELSE Apply(fold[i - 1], events[i])
  IN  fold[Len(events)]

-----------------------------------------------------------------------------
(* For the properties                                                      *)

\* What an event books: its quantity, and that quantity at its price.
BookedQty(e)  == IF e.type \in FillTypes THEN e.fill_qty ELSE 0
BookedCost(e) == IF e.type \in FillTypes THEN e.fill_qty * e.fill_price ELSE 0
=============================================================================

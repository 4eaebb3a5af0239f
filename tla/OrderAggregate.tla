--------------------------- MODULE OrderAggregate ---------------------------
(***************************************************************************)
(* One order stream driven by arbitrary commands: the state machine of     *)
(* src/src/domain/orders/aggregate.rs, one action per command.  A rejected *)
(* command emits nothing and is a stuttering step.                         *)
(***************************************************************************)
EXTENDS OrderDomain

CONSTANTS
  Quantities,  \* quantities a command or a fill may carry, invalid ones included
  Prices,      \* prices a command or a fill may carry, 0 for an invalid one
  MaxEvents    \* bound on the length of the event stream

ASSUME InputAssumption ==
  /\ Quantities \subseteq Int
  /\ Prices \subseteq Nat
  /\ MaxEvents \in Nat

VARIABLES
  state,  \* OrderAggregate.state
  log     \* the events applied, oldest first

vars == <<state, log>>

Init ==
  /\ state = NoOrder
  /\ log = <<>>

\* What the integration does with a decision: append the event and fold it in.
Commit(events) ==
  /\ Len(log) < MaxEvents
  /\ \E e \in events :
       /\ state' = Apply(state, e)
       /\ log' = Append(log, e)

SubmitOrder  == \E q \in Quantities, t \in OrderType, p \in Prices :
                  Commit(DecideSubmit(state, q, t, p))
RouteOrder   == Commit(DecideRoute(state))
ReplaceOrder == \E q \in Quantities, p \in Prices, kq, kp \in BOOLEAN :
                  Commit(DecideReplace(state, kq, q, kp, p))
CancelOrder  == Commit(DecideCancel(state))
SuspendOrder == Commit(DecideSuspend(state))
ReleaseOrder == Commit(DecideRelease(state))
ExpireOrder  == Commit(DecideExpire(state))
ReportReject   == Commit(DecideReject(state))
ReportCanceled == Commit(DecideCanceled(state))
ReportFill   == \E q \in Quantities, p \in Prices : Commit(DecideFill(state, q, p))

Next ==
  \/ SubmitOrder \/ RouteOrder \/ ReplaceOrder \/ CancelOrder \/ SuspendOrder
  \/ ReleaseOrder \/ ExpireOrder \/ ReportReject \/ ReportCanceled \/ ReportFill

Spec == Init /\ [][Next]_vars

-----------------------------------------------------------------------------
(* Properties                                                              *)

\* State and stream have their types; the version is the length of the stream.
TypeOK ==
  /\ state \in OrderState
  /\ log \in Seq(OrderDomainEvent)
  /\ state.version = Len(log)

\* An order is never filled beyond its quantity, whatever amendments and fills
\* interleave; what is booked and what is working add up to the order while it
\* lives (decide's remaining-quantity checks against apply's bookkeeping).
QuantityConserved ==
  /\ state.cum_qty <= state.original_qty
  /\ state.status \in LiveStatus \cup {"filled"} =>
       state.leaves_qty = state.original_qty - state.cum_qty

\* The status an order shows - or would show once released - tells whether it
\* has traded: submitted and routed mean nothing booked, partially_filled means
\* something booked, filled means everything.  A release that restored a status
\* the fills received while suspended had overtaken would break it.
StatusMatchesFills ==
  LET shown == IF state.status = "suspended" THEN state.resume_to_status ELSE state.status
  IN  /\ state.status = "suspended" => shown \in LiveStatus \ {"suspended"}
      /\ shown \in {"submitted", "routed", "none"} => state.cum_qty = 0
      /\ shown = "partially_filled" => state.cum_qty > 0
      /\ shown = "filled" => state.cum_qty = state.original_qty

\* README.md of the module, "Limit orders require a positive limit price": no
\* amendment takes the price away that the submit check demanded.
LimitOrdersArePriced ==
  state.status # "none" /\ state.order_type = "limit" => state.limit_price > 0

\* The booked quantity and notional are those of the fills in the stream: no
\* other event touches them, and an amendment does not rewrite history.
FillsAddUp ==
  /\ state.cum_qty = SumOf([i \in DOMAIN log |-> BookedQty(log[i])])
  /\ state.notional = SumOf([i \in DOMAIN log |-> BookedCost(log[i])])

\* README.md, "Terminal orders reject mutating commands": no step leaves a
\* terminal status, and none moves the quantities of a closed order.
TerminalIsFinal ==
  [][state.status \in TerminalStatus => UNCHANGED state]_vars
=============================================================================

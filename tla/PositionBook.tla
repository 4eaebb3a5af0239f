---------------------------- MODULE PositionBook ----------------------------
(***************************************************************************)
(* The position projection of one instrument (positions.rs): the order     *)
(* engine books fills one at a time, each in a transaction that loads the  *)
(* row FOR UPDATE and upserts it; allocation requests (handlers.rs         *)
(* create_allocations) run beside it, check against what they read outside *)
(* any transaction, then move quantity between two rows in one.  A row     *)
(* that does not exist yet cannot be locked.                               *)
(*                                                                         *)
(* Quantities are integers.  Costs and profits are exact fractions         *)
(* <<numerator, denominator>> in lowest terms: the code's double precision *)
(* and numeric columns without their rounding.  A request has one split.   *)
(***************************************************************************)
EXTENDS Integers, Sequences, FiniteSets, FiniteSetsExt, Sums

CONSTANTS
  Portfolios,     \* portfolios
  Orders,         \* orders
  Portfolio,      \* the portfolio of each order
  Side,           \* 1 for a buy, -1 for a sell
  Opened,         \* portfolios that have a (flat) row from earlier trading
  Blocks,         \* the orders allocations are asked for
  Requests,       \* allocation requests that may be under way together
  FillQuantities, \* fill and split quantities
  FillPrices,     \* fill prices
  OrderQty,       \* the quantity of every order
  MaxFills        \* how many fills are booked

ASSUME BookAssumption ==
  /\ Portfolio \in [Orders -> Portfolios] /\ Side \in [Orders -> {1, -1}]
  /\ Opened \subseteq Portfolios /\ Blocks \subseteq Orders
  /\ FillQuantities \subseteq Nat \ {0} /\ FillPrices \subseteq Nat \ {0}
  /\ OrderQty \in Nat /\ MaxFills \in Nat
  /\ IsFiniteSet(Portfolios) /\ {"free", "engine"} \cap Requests = {}

VARIABLES
  positionRow, \* position: [Portfolios -> PositionMath], FLAT where there is no row
  rows,        \* the portfolios that have a row
  held,        \* who holds each row FOR UPDATE
  order,       \* order_state: [cum_qty, avg_px] of each order
  fillLog,     \* the fill events of order_event, in order of global_position
  allocated,   \* the sum of each order's rows in allocation
  posting,     \* the engine's fill transaction
  request,     \* each allocation request
  cash,        \* history: money received less money paid, per portfolio
  raced,       \* history: portfolios whose row was inserted by one transaction over
               \* another's, as neither found a row to lock
  crossed      \* history: an allocation was taken from a position on the other side

slips == <<raced, crossed>>
bookVars == <<positionRow, rows, held, order, fillLog, allocated, posting, request, cash, slips>>

-----------------------------------------------------------------------------
(* Fractions                                                               *)

Lowest(n, d) ==
  LET g == Max({k \in 1..d : n % k = 0 /\ d % k = 0}) IN <<n \div g, d \div g>>

Zero == <<0, 1>>

Plus(a, b) == Lowest(a[1] * b[2] + b[1] * a[2], a[2] * b[2])

Scale(n, a) == Lowest(n * a[1], a[2])

Minus(a, b) == Plus(a, Scale(-1, b))

Over(a, n) == Lowest(a[1], a[2] * n)

Abs(n) == IF n < 0 THEN -n ELSE n

Sign(n) == IF n > 0 THEN 1 ELSE -1

-----------------------------------------------------------------------------
(* PositionMath                                                            *)

FLAT == [net_qty |-> 0, avg_cost |-> Zero, realized_pnl |-> Zero]

\* The average of held at cost and qty more at price.
Blend(held_qty, cost, qty, price) ==
  Over(Plus(Scale(held_qty, cost), Scale(qty, price)), held_qty + qty)

\* Opens or increases at the blended cost; what closes realizes its profit, the
\* cost stays until flat, and a flip opens the remainder at the fill's price.
apply_fill(p, signed, price) ==
  LET n == p.net_qty
      close == Min({Abs(signed), Abs(n)})
      opens == n = 0 \/ Sign(n) = Sign(signed)
  IN [net_qty |-> n + signed,
      avg_cost |-> CASE opens                           -> Blend(Abs(n), p.avg_cost, Abs(signed), price)
                     [] n + signed = 0                  -> Zero
                     [] ~ opens /\ Abs(signed) < Abs(n) -> p.avg_cost
                     [] OTHER                           -> price,
      realized_pnl |-> IF opens THEN p.realized_pnl
                       ELSE Plus(p.realized_pnl, Scale(close * Sign(n), Minus(price, p.avg_cost)))]

\* Toward zero, whichever side the position is on; no profit.
reduce_at_cost(p, qty) ==
  LET net == p.net_qty - (IF p.net_qty >= 0 THEN 1 ELSE -1) * qty
  IN [p EXCEPT !.net_qty = net, !.avg_cost = IF net = 0 THEN Zero ELSE @]

-----------------------------------------------------------------------------
(* The projection                                                          *)

NoWork == [stage |-> "idle"]

BookInit ==
  /\ positionRow = [p \in Portfolios |-> FLAT] /\ rows = Opened
  /\ held = [p \in Portfolios |-> "free"]
  /\ order = [o \in Orders |-> [cum_qty |-> 0, avg_px |-> Zero]]
  /\ fillLog = <<>> /\ allocated = [o \in Orders |-> 0]
  /\ posting = NoWork /\ request = [r \in Requests |-> NoWork]
  /\ cash = [p \in Portfolios |-> Zero]
  /\ raced = {} /\ crossed = FALSE

\* Faulty variant: load without FOR UPDATE.
LockUnheld(p, who) == held' = held

\* load: SELECT ... FOR UPDATE waits for the row, and locks nothing if there is none.
Lock(p, who) ==
  IF p \in rows THEN held[p] \in {"free", who} /\ held' = [held EXCEPT ![p] = who]
  ELSE held' = held

Release(who) == held' = [p \in Portfolios |-> IF held[p] = who THEN "free" ELSE held[p]]

\* apply_once on a fill, up to persist_fill's load.
LoadFill ==
  /\ posting = NoWork /\ Len(fillLog) < MaxFills
  /\ \E o \in Orders, q \in FillQuantities, px \in FillPrices :
       /\ order[o].cum_qty + q <= OrderQty
       /\ Lock(Portfolio[o], "engine")
       /\ posting' = [stage |-> "loaded", order |-> o, qty |-> q, price |-> <<px, 1>>,
                     read |-> positionRow[Portfolio[o]], missing |-> Portfolio[o] \notin rows]
  /\ UNCHANGED <<positionRow, rows, order, fillLog, allocated, request, cash, slips>>

\* A transaction that found no row inserts one: by now there is another's.
Inserted(p, missing) == IF missing /\ p \in rows THEN {p} ELSE {}

\* persist_fill's upsert, the order's row and event, the commit.  An insert
\* waits for the one who holds the row by then, and overwrites what it finds.
CommitFill ==
  LET o == posting.order
      p == Portfolio[o]
      signed == Side[o] * posting.qty
  IN /\ posting.stage = "loaded" /\ held[p] \in {"free", "engine"}
     /\ positionRow' = [positionRow EXCEPT ![p] = apply_fill(posting.read, signed, posting.price)]
     /\ rows' = rows \cup {p}
     /\ order' = [order EXCEPT ![o] =
          [cum_qty |-> @.cum_qty + posting.qty,
           avg_px |-> Blend(@.cum_qty, @.avg_px, posting.qty, posting.price)]]
     /\ fillLog' = Append(fillLog, [order |-> o, qty |-> posting.qty, price |-> posting.price])
     /\ cash' = [cash EXCEPT ![p] = Minus(@, Scale(signed, posting.price))]
     /\ posting' = NoWork /\ Release("engine")
     /\ raced' = raced \cup Inserted(p, posting.missing)
     /\ UNCHANGED <<allocated, request, crossed>>

\* A database error, or the order's version moved: rolled back.
AbortFill ==
  /\ posting.stage = "loaded"
  /\ posting' = NoWork /\ Release("engine")
  /\ UNCHANGED <<positionRow, rows, order, fillLog, allocated, request, cash, slips>>

\* create_allocations: the order, then the sum of its allocations, are read and
\* the split is capped, with no lock.
CheckAllocation(r) ==
  /\ request[r] = NoWork
  /\ \E o \in Blocks, to \in Portfolios, q \in FillQuantities :
       /\ order[o].cum_qty > 0 /\ allocated[o] + q <= order[o].cum_qty
       /\ request' = [request EXCEPT ![r] =
            [stage |-> "checked", order |-> o, to |-> to, qty |-> q,
             price |-> order[o].avg_px, from |-> FLAT, dest |-> FLAT, missing |-> FALSE]]
  /\ UNCHANGED <<positionRow, rows, held, order, fillLog, allocated, posting, cash, slips>>

\* persist_transfer: the source, loaded, reduced and written.
ReduceSource(r) ==
  LET p == Portfolio[request[r].order]
  IN /\ request[r].stage = "checked"
     /\ Lock(p, r)
     /\ request' = [request EXCEPT ![r].stage = "reduced",
                                   ![r].from = reduce_at_cost(positionRow[p], request[r].qty)]
     /\ UNCHANGED <<positionRow, rows, order, fillLog, allocated, posting, cash, slips>>

\* persist_transfer: the target loaded, in the transaction that wrote the source.
LoadTarget(r) ==
  LET t == request[r]
      read == IF t.to = Portfolio[t.order] THEN t.from ELSE positionRow[t.to]
  IN /\ t.stage = "reduced"
     /\ Lock(t.to, r)
     /\ request' = [request EXCEPT ![r].stage = "loaded", ![r].missing = t.to \notin rows,
                                   ![r].dest = apply_fill(read, Side[t.order] * t.qty, t.price)]
     /\ UNCHANGED <<positionRow, rows, order, fillLog, allocated, posting, cash, slips>>

\* The target's upsert and the commit, with the allocation's row.
CommitAllocation(r) ==
  LET t == request[r]
      p == Portfolio[t.order]
      signed == Side[t.order] * t.qty
      side == IF positionRow[p].net_qty >= 0 THEN 1 ELSE -1
      out == Scale(side * t.qty, positionRow[p].avg_cost)
      paid == [cash EXCEPT ![p] = Plus(@, out)]
  IN /\ t.stage = "loaded" /\ held[t.to] \in {"free", r}
     /\ positionRow' = [positionRow EXCEPT ![p] = t.from, ![t.to] = t.dest]
     /\ rows' = rows \cup {t.to}
     /\ allocated' = [allocated EXCEPT ![t.order] = @ + t.qty]
     /\ cash' = [paid EXCEPT ![t.to] = Minus(@, Scale(signed, t.price))]
     /\ request' = [request EXCEPT ![r] = NoWork] /\ Release(r)
     /\ raced' = raced \cup Inserted(t.to, t.missing)
     /\ crossed' = (crossed \/ side # Side[t.order])
     /\ UNCHANGED <<order, fillLog, posting>>

\* A database error, a deadlock the database broke, or the caller went away.
AbortAllocation(r) ==
  /\ request[r] # NoWork
  /\ request' = [request EXCEPT ![r] = NoWork] /\ Release(r)
  /\ UNCHANGED <<positionRow, rows, order, fillLog, allocated, posting, cash, slips>>

BookNext ==
  \/ LoadFill \/ CommitFill \/ AbortFill
  \/ \E r \in Requests : \/ CheckAllocation(r) \/ ReduceSource(r) \/ LoadTarget(r)
                         \/ CommitAllocation(r) \/ AbortAllocation(r)

BookSpec == BookInit /\ [][BookNext]_bookVars

-----------------------------------------------------------------------------
(* rebuild_positions: the fill events, applied in the log's order to the   *)
(* portfolios of their orders.                                             *)

\* What one event makes of the position of p.
Replay(p, e, was) ==
  IF Portfolio[e.order] = p THEN apply_fill(was, Side[e.order] * e.qty, e.price) ELSE was

\* Faulty variant: without ORDER BY, the events may come in any order.
RebuildReversed(p) ==
  LET acc[i \in 0..Len(fillLog)] ==
        IF i = 0 THEN FLAT ELSE Replay(p, fillLog[Len(fillLog) + 1 - i], acc[i - 1])
  IN  acc[Len(fillLog)]

Rebuild(p) ==
  LET acc[i \in 0..Len(fillLog)] == IF i = 0 THEN FLAT ELSE Replay(p, fillLog[i], acc[i - 1])
  IN  acc[Len(fillLog)]

-----------------------------------------------------------------------------
(* Properties                                                              *)

\* No quantity appears or gets lost, and the profit booked is the profit made:
\* the portfolios together hold what the fill events bought less what they sold,
\* whatever was allocated meanwhile, and in every portfolio realized_pnl is the
\* money that came in less what was paid, plus the open quantity at its cost.
\* Two things the code does not rule out are excepted.  Two transactions that both
\* found no row to lock, of which the later overwrites the earlier one's: then the
\* profit of that portfolio, and the sum, may be wrong.  And an allocation from a
\* position that is not on the block's side (flat counts as long): reduce_at_cost
\* moves it toward zero, away from what the target gets, and the sum is wrong.
BooksBalance ==
  /\ raced = {} /\ ~ crossed =>
       Total([p \in Portfolios |-> positionRow[p].net_qty]) =
         SumOf([i \in DOMAIN fillLog |-> Side[fillLog[i].order] * fillLog[i].qty])
  /\ \A p \in Portfolios \ raced :
       positionRow[p].realized_pnl = Plus(cash[p], Scale(positionRow[p].net_qty, positionRow[p].avg_cost))

\* Replaying the log gives the positions the engine kept, until the first
\* allocation (which is in no event).
RebuildAgrees ==
  (\A o \in Orders : allocated[o] = 0) => \A p \in Portfolios : positionRow[p] = Rebuild(p)
=============================================================================

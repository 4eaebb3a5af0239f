---------------------------- MODULE BookingProofs ----------------------------
(***************************************************************************)
(* What is booked is booked once and adds up: on the stream of one order,  *)
(* of the trades of a co-located account, and in the positions of the      *)
(* book; and the prices these are valued at are right.                     *)
(***************************************************************************)
EXTENDS OrderAggregate, ColoFollow, MCPositionBook, FoldProofs, FiniteSetTheorems, SequenceTheorems

-----------------------------------------------------------------------------
(***************************************************************************)
(* One order stream, for every set of quantities and prices, and for every *)
(* length of the event stream: the quantity, status and price invariants   *)
(* of the order aggregate hold, and a closed order never changes.          *)
(*                                                                         *)
(* QuantityConserved and StatusMatchesFills are not inductive alone: a     *)
(* fill keeps cum_qty <= original_qty only because the fields are numbers, *)
(* and a release restores a status that matches the fills only because     *)
(* the suspended state already remembered one that did.  Their conjunction *)
(* with the type invariant is inductive.                                   *)
(***************************************************************************)

\* Every event of the stream books natural numbers.
LogBooks == \A i \in DOMAIN log : BookedQty(log[i]) \in Nat /\ BookedCost(log[i]) \in Nat

Inv ==
  /\ GoodState(state)
  /\ log \in Seq(OrderDomainEvent)
  /\ state.version = Len(log)
  /\ LogBooks /\ FillsAddUp

(***************************************************************************)
(* Committing an event that is good for the state preserves the invariant. *)
(***************************************************************************)
LEMMA CommitPreserves ==
  ASSUME Inv, NEW decision, Commit(decision),
         \A e \in decision : GoodStep(state, e)
  PROVE  Inv'
<1>1. PICK e \in decision : state' = Apply(state, e) /\ log' = Append(log, e)
  BY DEF Commit
<1>2. GoodStep(state, e)
  BY <1>1
<1>3. GoodState(state')
  BY <1>1, <1>2 DEF GoodStep
<1>4. log' \in Seq(OrderDomainEvent) /\ Len(log') = Len(log) + 1
  BY <1>1, <1>2 DEF GoodStep, Inv
<1>5. state'.version = Len(log')
  BY <1>1, <1>2, <1>4 DEF GoodStep, Inv
<1> DEFINE n == Len(log)
<1>6. /\ n \in Nat /\ DOMAIN log = 1..n /\ DOMAIN log' = 1..(n + 1)
      /\ log'[n + 1] = e /\ \A i \in 1..n : log'[i] = log[i]
  BY <1>1, <1>2 DEF GoodStep, Inv
<1> HIDE DEF n
<1>7. LogBooks'
  <2> SUFFICES ASSUME NEW i \in 1..(n + 1)
               PROVE  BookedQty(log'[i]) \in Nat /\ BookedCost(log'[i]) \in Nat
    BY <1>6 DEF LogBooks
  <2>1. CASE i = n + 1
    BY <1>2, <1>6, <2>1 DEF GoodStep
  <2>2. CASE i # n + 1
    <3>1. i \in 1..n /\ log'[i] = log[i]
      BY <1>6, <2>2
    <3> QED BY <1>6, <3>1 DEF Inv, LogBooks
  <2> QED BY <2>1, <2>2
<1>8. state'.cum_qty = SumOf([i \in DOMAIN log' |-> BookedQty(log'[i])])
  <2> DEFINE v == [i \in DOMAIN log |-> BookedQty(log[i])]
             w == [i \in DOMAIN log' |-> BookedQty(log'[i])]
  <2>1. v \in Seq(Int) /\ Len(v) = n
    BY <1>6 DEF Inv, LogBooks
  <2>2. w \in Seq(Int) /\ Len(w) = n + 1
    BY <1>6, <1>7 DEF LogBooks
  <2>3. w[n + 1] = BookedQty(e) /\ \A i \in 1..n : w[i] = v[i]
    BY <1>6
  <2>4. state.cum_qty = SumOf(v)
    BY DEF Inv, FillsAddUp
  <2> HIDE DEF v, w
  <2>5. SumOf(w) = SumOf(v) + w[n + 1]
    BY <2>1, <2>2, <2>3, SumOfLonger
  <2>6. state'.cum_qty = SumOf(w)
    BY <1>1, <1>2, <2>3, <2>4, <2>5 DEF GoodStep
  <2> QED BY <2>6 DEF w
<1>9. state'.notional = SumOf([i \in DOMAIN log' |-> BookedCost(log'[i])])
  <2> DEFINE v == [i \in DOMAIN log |-> BookedCost(log[i])]
             w == [i \in DOMAIN log' |-> BookedCost(log'[i])]
  <2>1. v \in Seq(Int) /\ Len(v) = n
    BY <1>6 DEF Inv, LogBooks
  <2>2. w \in Seq(Int) /\ Len(w) = n + 1
    BY <1>6, <1>7 DEF LogBooks
  <2>3. w[n + 1] = BookedCost(e) /\ \A i \in 1..n : w[i] = v[i]
    BY <1>6
  <2>4. state.notional = SumOf(v)
    BY DEF Inv, FillsAddUp
  <2> HIDE DEF v, w
  <2>5. SumOf(w) = SumOf(v) + w[n + 1]
    BY <2>1, <2>2, <2>3, SumOfLonger
  <2>6. state'.notional = SumOf(w)
    BY <1>1, <1>2, <2>3, <2>4, <2>5 DEF GoodStep
  <2> QED BY <2>6 DEF w
<1> QED
  BY <1>3, <1>4, <1>5, <1>7, <1>8, <1>9 DEF Inv, FillsAddUp

\* Every step commits a good event, and none starts from a closed order.
LEMMA StepCommits ==
  ASSUME Inv, Next
  PROVE  Inv' /\ state.status \notin TerminalStatus
<1>0. GoodState(state) /\ Quantities \subseteq Int /\ Prices \subseteq Nat
  BY InputAssumption DEF Inv
<1>1. CASE SubmitOrder
  <2>1. PICK q \in Quantities, t \in OrderType, p \in Prices : Commit(DecideSubmit(state, q, t, p))
    BY <1>1 DEF SubmitOrder
  <2>2. \A e \in DecideSubmit(state, q, t, p) : GoodStep(state, e) /\ state.status = "none"
    BY <1>0, SubmitGood
  <2> QED
    BY <2>1, <2>2, CommitPreserves DEF Commit, TerminalStatus
<1>2. CASE RouteOrder \/ CancelOrder \/ ExpireOrder \/ ReportReject \/ ReportCanceled
  <2>1. PICK decision \in {DecideRoute(state), DecideCancel(state), DecideExpire(state),
                         DecideReject(state), DecideCanceled(state)} : Commit(decision)
    BY <1>2 DEF RouteOrder, CancelOrder, ExpireOrder, ReportReject, ReportCanceled
  <2>2. \A e \in decision : GoodStep(state, e) /\ state.status \in LiveStatus
    BY <1>0, SimpleCommandsGood
  <2> QED
    BY <2>1, <2>2, CommitPreserves DEF Commit, TerminalStatus, LiveStatus
<1>3. CASE ReplaceOrder
  <2>1. PICK q \in Quantities, p \in Prices, kq \in BOOLEAN, kp \in BOOLEAN :
               Commit(DecideReplace(state, kq, q, kp, p))
    BY <1>3 DEF ReplaceOrder
  <2>2. \A e \in DecideReplace(state, kq, q, kp, p) :
          GoodStep(state, e) /\ state.status \in LiveStatus
    BY <1>0, ReplaceGood
  <2> QED
    BY <2>1, <2>2, CommitPreserves DEF Commit, TerminalStatus, LiveStatus
<1>4. CASE SuspendOrder
  BY <1>0, <1>4, SuspendGood, CommitPreserves DEF SuspendOrder, Commit, TerminalStatus, LiveStatus
<1>5. CASE ReleaseOrder
  BY <1>0, <1>5, ReleaseGood, CommitPreserves DEF ReleaseOrder, Commit, TerminalStatus, LiveStatus
<1>6. CASE ReportFill
  <2>1. PICK q \in Quantities, p \in Prices : Commit(DecideFill(state, q, p))
    BY <1>6 DEF ReportFill
  <2>2. \A e \in DecideFill(state, q, p) : GoodStep(state, e) /\ state.status \in LiveStatus
    BY <1>0, FillGood
  <2> QED
    BY <2>1, <2>2, CommitPreserves DEF Commit, TerminalStatus, LiveStatus
<1> QED
  BY <1>1, <1>2, <1>3, <1>4, <1>5, <1>6 DEF Next

\* The inductive invariant holds in every reachable state.
THEOREM InvHolds == Spec => []Inv
<1>1. Init => Inv
  <2> SUFFICES ASSUME Init PROVE Inv
    OBVIOUS
  <2>1. GoodState(state) /\ log \in Seq(OrderDomainEvent) /\ state.version = Len(log)
    BY DEF Init, GoodState, NoOrder, OrderState, OrderType, LiveStatus
  <2>2. DOMAIN log = {} /\ log = <<>>
    BY DEF Init
  <2>3. [i \in DOMAIN log |-> BookedQty(log[i])] = <<>>
        /\ [i \in DOMAIN log |-> BookedCost(log[i])] = <<>>
    BY <2>2
  <2>4. SumOf(<<>>) = 0
    <3>1. <<>> \in Seq(Int) /\ \A i \in 1..Len(<<>>) : <<>>[i] = 0
      OBVIOUS
    <3> QED BY <3>1, SumOfZeros
  <2>5. LogBooks /\ FillsAddUp
    BY <2>2, <2>3, <2>4 DEF LogBooks, FillsAddUp, Init, NoOrder
  <2> QED BY <2>1, <2>5 DEF Inv
<1>2. Inv /\ [Next]_vars => Inv'
  <2> SUFFICES ASSUME Inv, [Next]_vars PROVE Inv'
    OBVIOUS
  <2>1. CASE Next
    BY <2>1, StepCommits
  <2>2. CASE UNCHANGED vars
    BY <2>2 DEF vars, Inv, LogBooks, FillsAddUp
  <2> QED
    BY <2>1, <2>2
<1> QED
  BY <1>1, <1>2, PTL DEF Spec

\* State and stream keep their types, and the version counts the events.
THEOREM TypeCorrect == Spec => []TypeOK
<1>1. Inv => TypeOK
  BY DEF Inv, GoodState, TypeOK
<1> QED
  BY <1>1, InvHolds, PTL

\* No sequence of submits, amendments, suspensions and fills overfills an
\* order or loses track of what it still works (decide and apply agree).
THEOREM QuantitySafe == Spec => []QuantityConserved
<1>1. Inv => QuantityConserved
  BY DEF Inv, GoodState, QuantityConserved
<1> QED
  BY <1>1, InvHolds, PTL

\* The status shown, or restored by a release, tells what has been filled.
THEOREM StatusSafe == Spec => []StatusMatchesFills
<1>1. Inv => StatusMatchesFills
  BY DEF Inv, GoodState, StatusMatchesFills
<1> QED
  BY <1>1, InvHolds, PTL

\* What is booked is what the fills of the stream add up to, in quantity and in
\* cost, however many events came in between.
THEOREM FillsSafe == Spec => []FillsAddUp
<1>1. Inv => FillsAddUp
  BY DEF Inv
<1> QED
  BY <1>1, InvHolds, PTL

\* No amendment takes the price away that validate_submit demanded.
THEOREM PriceSafe == Spec => []LimitOrdersArePriced
<1>1. Inv => LimitOrdersArePriced
  BY DEF Inv, GoodState, LimitOrdersArePriced
<1> QED
  BY <1>1, InvHolds, PTL

\* A filled, rejected, canceled or expired order never changes again.
THEOREM ClosedForGood == Spec => TerminalIsFinal
<1>1. Inv /\ [Next]_vars => [state.status \in TerminalStatus => UNCHANGED state]_vars
  BY StepCommits DEF vars
<1> QED
  BY <1>1, InvHolds, PTL DEF Spec, TerminalIsFinal

-----------------------------------------------------------------------------
(***************************************************************************)
(* The trades of a co-located account, for every history of trades, pairs, *)
(* page size, number of drops, crashes, failures and key changes.          *)
(*                                                                         *)
(* EachTradeOnce alone is not inductive: that a trade from before          *)
(* following began has no order holds only because no such trade is ever   *)
(* in the queue, in the page or in the order engine; and that an inserted  *)
(* order does not undo a filled one only because nothing but the worker    *)
(* writes the row of a trade that has none.                                *)
(***************************************************************************)

\* The trades the stream may report and the history may answer, those from before
\* following began only to a gap fill that could not read follow_since.
Bookable(t) == t \in Trades /\ venue[t] = "done" /\ (t \in since.before => unread > 0)

FollowTypes ==
  /\ venue \in [Trades -> {"none", "open", "done"}]
  /\ since \in [set : BOOLEAN, before : SUBSET Trades]
  /\ row \in [Trades -> {"missing", "routed", "filled"}]
  /\ position \in [Trades -> {0, 1}] /\ unread \in Nat
  /\ engine \in Seq(Trades)
  /\ events \in Seq([kind : {"fill"}, trade : Trades] \cup [kind : {"connected"}])

\* The worker's record; the cursor and the pairs left play no part.
WorkerTypes ==
  /\ worker = [pc |-> worker.pc, gap |-> worker.gap, pairs |-> worker.pairs,
               start |-> worker.start, from |-> worker.from, page |-> worker.page]
  /\ worker.pc \in {"idle", "gap", "page", "book", "insert", "send"}

\* A stream runs only under a key, and a key starts the following.
StreamSince == key # 0 \/ stream # "off" => since.set
BeforeTraded == \A t \in since.before : venue[t] = "done"

\* What is under way is bookable: reported, asked for, or already an order.
QueueBookable == \A i \in DOMAIN events : events[i].kind = "fill" => Bookable(events[i].trade)
PageBookable == \A t \in worker.page : Bookable(t)
RowsBookable == \A t \in Trades : row[t] # "missing" => Bookable(t)

\* Between reading the row and writing it nothing else writes it.
WorkerAgrees ==
  /\ worker.start = "since" \/ unread > 0
  /\ worker.pc \in {"book", "insert", "send"} => worker.page # {}
  /\ worker.pc = "insert" => row[Booking] = "missing"
  /\ worker.pc = "send" => row[Booking] # "missing"
EngineAgrees == \A i \in DOMAIN engine : row[engine[i]] # "missing"

Counted == \A t \in Trades : position[t] = (IF row[t] = "filled" THEN 1 ELSE 0)

FollowInv ==
  /\ FollowTypes /\ WorkerTypes /\ StreamSince /\ BeforeTraded
  /\ QueueBookable /\ PageBookable /\ RowsBookable
  /\ WorkerAgrees /\ EngineAgrees /\ Counted

\* The trade being booked is on the page.
LEMMA BookingIsOnPage ==
  ASSUME PageBookable, worker.page # {}
  PROVE  Booking \in worker.page /\ Booking \in Trades
<1> DEFINE R == OpToRel(<, Nat)
<1>1. IsWellFoundedOn(R, Nat)
  BY NatLessThanWellFounded
<1>2. \A x, y \in Nat : x < y => <<x, y>> \in R
  BY DEF OpToRel
<1> HIDE DEF R
<1>3. worker.page \subseteq Trades /\ worker.page \subseteq Nat
  BY FollowAssumption DEF PageBookable, Bookable
<1>4. PICK m \in worker.page : \A y \in worker.page : ~ (<<y, m>> \in R)
  BY <1>1, <1>3, WFMin
<1>5. ASSUME NEW k \in worker.page PROVE m <= k
  <2>1. m \in Nat /\ k \in Nat
    BY <1>3
  <2>2. ~ (k < m)
    BY <1>2, <1>4, <2>1
  <2> QED
    BY <2>1, <2>2
<1> QED
  BY <1>3, <1>5 DEF Booking, Min

LEMMA FollowStarts == FollowInit => FollowInv
<1> SUFFICES ASSUME FollowInit PROVE FollowInv
  OBVIOUS
<1>1. FollowTypes
  BY DEF FollowInit, FollowTypes
<1>2. WorkerTypes /\ PageBookable /\ WorkerAgrees
  BY DEF FollowInit, Idle, WorkerTypes, PageBookable, WorkerAgrees
<1>3. StreamSince /\ BeforeTraded
  BY DEF FollowInit, StreamSince, BeforeTraded
<1>4. QueueBookable /\ EngineAgrees
  BY DEF FollowInit, QueueBookable, EngineAgrees
<1>5. RowsBookable /\ Counted
  BY DEF FollowInit, RowsBookable, Counted
<1> QED
  BY <1>1, <1>2, <1>3, <1>4, <1>5 DEF FollowInv

\* While the books rest, what was bookable or written may only stay so.
LEMMA BooksRest ==
  ASSUME FollowInv, UNCHANGED <<worker, row, position, unread>>,
         engine' = engine \/ engine' = <<>>,
         \A u : Bookable(u) => Bookable(u)'
  PROVE  /\ PageBookable' /\ RowsBookable' /\ WorkerTypes'
         /\ WorkerAgrees' /\ EngineAgrees' /\ Counted'
<1>1. Booking' = Booking
  BY DEF Booking
<1> QED
  BY <1>1 DEF FollowInv, PageBookable, RowsBookable, WorkerTypes, WorkerAgrees, EngineAgrees, Counted

\* The venue places and trades: an order, or a fill that the stream reports only
\* when following has begun.
LEMMA AccountKeeps ==
  ASSUME FollowInv, NEW t \in Trades, Place(t) \/ Trade(t) \/ DayPasses(t)
  PROVE  FollowInv'
<1> DEFINE fill == [kind |-> "fill", trade |-> t]
           Events == [kind : {"fill"}, trade : Trades] \cup [kind : {"connected"}]
<1>1. UNCHANGED <<key, running, adapter, stream, worker, row, engine, position, unread>>
  BY DEF Place, Trade, DayPasses, follows, books
<1>2. /\ \/ venue' = venue
         \/ venue[t] = "none" /\ venue' = [venue EXCEPT ![t] = "open"]
         \/ venue[t] = "open" /\ venue' = [venue EXCEPT ![t] = "done"]
      /\ \/ since' = since
         \/ /\ ~ since.set /\ venue[t] = "open" /\ venue' = [venue EXCEPT ![t] = "done"]
            /\ since' = [since EXCEPT !.before = @ \cup {t}]
      /\ \/ events' = events
         \/ events' = events \o <<>>
         \/ /\ events' = events \o <<fill>> /\ stream = "up"
            /\ venue[t] = "open" /\ venue' = [venue EXCEPT ![t] = "done"]
  BY DEF Place, Trade, DayPasses, Report
<1>3. events \in Seq(Events) /\ fill \in Events
  BY DEF FollowInv, FollowTypes
<1>4. events \o <<>> = events
  BY <1>3
<1>5. /\ venue' \in [Trades -> {"none", "open", "done"}]
      /\ since' \in [set : BOOLEAN, before : SUBSET Trades]
      /\ since'.set = since.set
  <2>1. venue' \in [Trades -> {"none", "open", "done"}]
    BY <1>2 DEF FollowInv, FollowTypes
  <2>2. /\ since' \in [set : BOOLEAN, before : SUBSET Trades]
        /\ since'.set = since.set
    BY <1>2 DEF FollowInv, FollowTypes
  <2> QED
    BY <2>1, <2>2
<1>6. ASSUME NEW u, Bookable(u) PROVE Bookable(u)'
  BY <1>1, <1>2, <1>6 DEF FollowInv, FollowTypes, Bookable
<1>7. BeforeTraded' /\ StreamSince'
  BY <1>1, <1>2, <1>5 DEF FollowInv, FollowTypes, BeforeTraded, StreamSince
<1>8. QueueBookable' /\ events' \in Seq(Events)
  <2>1. CASE events' = events
    BY <2>1, <1>3, <1>6 DEF FollowInv, QueueBookable
  <2>2. CASE /\ events' = events \o <<fill>> /\ stream = "up"
             /\ venue[t] = "open" /\ venue' = [venue EXCEPT ![t] = "done"]
    <3>1. since.set /\ since' = since
      BY <1>2, <2>2 DEF FollowInv, StreamSince
    <3>2. t \notin since.before
      BY <2>2 DEF FollowInv, BeforeTraded
    <3>3. Bookable(t)'
      BY <2>2, <3>1, <3>2 DEF FollowInv, FollowTypes, Bookable
    <3>4. /\ events' \in Seq(Events) /\ Len(events') = Len(events) + 1
          /\ \A i \in 1..Len(events) : events'[i] = events[i]
          /\ events'[Len(events) + 1] = fill
      BY <1>3, <2>2
    <3>5. ASSUME NEW i \in DOMAIN events', events'[i].kind = "fill" PROVE Bookable(events[i].trade)'
      <4>1. i \in 1..Len(events) \/ i = Len(events) + 1
        BY <1>3, <3>4, <3>5
      <4>2. CASE i \in 1..Len(events)
        <5>1. Bookable(events[i].trade)
          BY <1>3, <3>4, <3>5, <4>2 DEF FollowInv, QueueBookable
        <5> QED
          BY <5>1, <1>6, <3>4, <4>2 DEF Bookable
      <4>3. CASE i = Len(events) + 1
        BY <3>3, <3>4, <4>3 DEF Bookable
      <4> QED
        BY <4>1, <4>2, <4>3
    <3> QED
      BY <3>4, <3>5 DEF QueueBookable
  <2> QED
    BY <1>2, <1>4, <2>1, <2>2
<1>9. FollowTypes'
  BY <1>1, <1>5, <1>8 DEF FollowInv, FollowTypes
<1> QED
  BY <1>1, <1>6, <1>7, <1>8, <1>9, BooksRest DEF FollowInv

\* Connecting, dropping, a crash and a change of the key: following never begins
\* a second time, and what a crash forgets is only what was under way.
LEMMA StreamKeeps ==
  ASSUME FollowInv,
         \/ \E k \in {0, keys + 2}, usable \in BOOLEAN : PutKey(k, usable)
         \/ Connect \/ Drop \/ Crash
  PROVE  FollowInv'
<1> DEFINE Events == [kind : {"fill"}, trade : Trades] \cup [kind : {"connected"}]
           up == [kind |-> "connected"]
<1>1. /\ UNCHANGED <<venue, row, position, unread>>
      /\ worker' = worker \/ worker' = Idle
      /\ engine' = engine \/ engine' = <<>>
      /\ events' = events \/ events' = <<>> \/ events' = Append(events, up)
      /\ since' = since \/ since' = [since EXCEPT !.set = TRUE]
  BY DEF PutKey, Connect, Drop, Crash, account, books
<1>2. StreamSince'
  <2>1. CASE \E k \in {0, keys + 2}, usable \in BOOLEAN : PutKey(k, usable)
    BY <2>1 DEF FollowInv, FollowTypes, StreamSince, PutKey, SyncFollows
  <2>2. CASE Connect \/ Drop \/ Crash
    BY <2>2 DEF FollowInv, FollowTypes, StreamSince, Connect, Drop, Crash, account
  <2> QED
    BY <2>1, <2>2
<1>3. since'.before = since.before /\ since' \in [set : BOOLEAN, before : SUBSET Trades]
  BY <1>1 DEF FollowInv, FollowTypes
<1>4. ASSUME NEW u, Bookable(u) PROVE Bookable(u)'
  BY <1>1, <1>3, <1>4 DEF Bookable
<1>5. QueueBookable' /\ events' \in Seq(Events)
  <2>1. events \in Seq(Events) /\ up \in Events
    BY DEF FollowInv, FollowTypes
  <2>2. CASE events' = events
    BY <2>1, <2>2, <1>4 DEF FollowInv, QueueBookable
  <2>3. CASE events' = <<>>
    BY <2>3 DEF QueueBookable
  <2>4. CASE events' = Append(events, up)
    <3>1. /\ events' \in Seq(Events) /\ Len(events') = Len(events) + 1
          /\ \A i \in 1..Len(events) : events'[i] = events[i]
          /\ events'[Len(events) + 1] = up
      BY <2>1, <2>4
    <3>2. ASSUME NEW i \in DOMAIN events', events'[i].kind = "fill" PROVE Bookable(events[i].trade)'
      <4>1. i \in 1..Len(events)
        BY <2>1, <3>1, <3>2
      <4>2. Bookable(events[i].trade)
        BY <2>1, <3>1, <3>2, <4>1 DEF FollowInv, QueueBookable
      <4> QED
        BY <4>1, <4>2, <1>4, <3>1 DEF Bookable
    <3> QED
      BY <3>1, <3>2 DEF QueueBookable
  <2> QED
    BY <1>1, <2>2, <2>3, <2>4
<1>6. FollowTypes'
  <2>1. engine' \in Seq(Trades)
    <3>1. engine \in Seq(Trades) /\ <<>> \in Seq(Trades)
      BY DEF FollowInv, FollowTypes
    <3> QED
      BY <1>1, <3>1
  <2> QED
    BY <1>1, <1>3, <1>5, <2>1 DEF FollowInv, FollowTypes
<1>7. BeforeTraded'
  BY <1>1, <1>3 DEF FollowInv, BeforeTraded
<1>8. CASE worker' = worker
  BY <1>1, <1>2, <1>4, <1>5, <1>6, <1>7, <1>8, BooksRest DEF FollowInv
<1>9. CASE worker' = Idle
  <2>1. WorkerTypes' /\ PageBookable' /\ WorkerAgrees'
    BY <1>9 DEF Idle, WorkerTypes, PageBookable, WorkerAgrees
  <2>2. RowsBookable' /\ EngineAgrees' /\ Counted'
    BY <1>1, <1>4 DEF FollowInv, RowsBookable, EngineAgrees, Counted
  <2> QED
    BY <1>2, <1>5, <1>6, <1>7, <2>1, <2>2 DEF FollowInv
<1> QED
  BY <1>1, <1>8, <1>9

\* What the worker does next is decided by the page that is left.
LEMMA AfterIs ==
  ASSUME FollowInv, worker.page # {}, worker' = After
  PROVE  /\ WorkerTypes' /\ worker'.page \subseteq worker.page
         /\ worker'.start = "since" \/ unread > 0
         /\ worker'.pc \in {"idle", "page", "book"}
         /\ worker'.pc = "book" => worker'.page # {}
<1>1. Booking \in worker.page /\ (worker.start = "since" \/ unread > 0)
  BY BookingIsOnPage DEF FollowInv, WorkerAgrees
<1>2. CASE worker.page # {Booking}
  <2>1. worker' = [worker EXCEPT !.pc = "book", !.page = @ \ {Booking}]
    BY <1>2 DEF After
  <2> QED
    BY <1>1, <1>2, <2>1 DEF FollowInv, WorkerTypes
<1>3. CASE worker.page = {Booking} /\ worker.gap
  <2>1. worker' = [worker EXCEPT !.pc = "page", !.page = {}]
    BY <1>3 DEF After
  <2> QED
    BY <1>1, <2>1 DEF FollowInv, WorkerTypes
<1>4. CASE worker.page = {Booking} /\ ~ worker.gap
  BY <1>4 DEF After, Idle, WorkerTypes
<1> QED
  BY <1>2, <1>3, <1>4

\* A worker that writes nothing: its page is bookable, and what it read holds.
LEMMA WorkerKeeps ==
  ASSUME FollowInv, UNCHANGED <<venue, since, key, stream, row, engine, position>>,
         unread' \in Nat, unread > 0 => unread' > 0,
         events' = events \/ (events # <<>> /\ events' = Tail(events)),
         WorkerTypes', \A t \in worker'.page : Bookable(t), WorkerAgrees'
  PROVE  FollowInv'
<1> DEFINE Events == [kind : {"fill"}, trade : Trades] \cup [kind : {"connected"}]
<1>1. events \in Seq(Events)
  BY DEF FollowInv, FollowTypes
<1>2. \A u : Bookable(u) => Bookable(u)'
  BY DEF Bookable
<1>3. QueueBookable' /\ events' \in Seq(Events)
  <2>1. CASE events' = events
    BY <1>1, <1>2, <2>1 DEF FollowInv, QueueBookable
  <2>2. CASE events # <<>> /\ events' = Tail(events)
    <3>1. /\ events' \in Seq(Events) /\ Len(events') = Len(events) - 1
          /\ \A i \in 1..Len(events') : events'[i] = events[i + 1] /\ i + 1 \in 1..Len(events)
      BY <1>1, <2>2
    <3>2. ASSUME NEW i \in DOMAIN events', events'[i].kind = "fill" PROVE Bookable(events[i].trade)'
      <4>1. events'[i] = events[i + 1] /\ i + 1 \in DOMAIN events
        BY <1>1, <3>1
      <4> QED
        BY <1>2, <3>2, <4>1 DEF FollowInv, QueueBookable
    <3> QED
      BY <3>1, <3>2 DEF QueueBookable
  <2> QED
    BY <2>1, <2>2
<1>4. FollowTypes'
  BY <1>3 DEF FollowInv, FollowTypes
<1>5. PageBookable' /\ RowsBookable'
  BY <1>2 DEF FollowInv, PageBookable, RowsBookable
<1>6. StreamSince' /\ BeforeTraded' /\ EngineAgrees' /\ Counted'
  BY DEF FollowInv, StreamSince, BeforeTraded, EngineAgrees, Counted
<1> QED
  BY <1>3, <1>4, <1>5, <1>6 DEF FollowInv

\* A fill the stream reported is bookable, and so is what the history answers.
LEMMA AskingKeeps ==
  ASSUME FollowInv, NextEvent \/ GapBegin \/ GapPage
  PROVE  FollowInv'
<1> DEFINE Events == [kind : {"fill"}, trade : Trades] \cup [kind : {"connected"}]
<1>1. /\ UNCHANGED <<venue, since, key, stream, row, engine, position>>
      /\ unread' = unread \/ (GapBegin /\ unread' = unread + 1)
      /\ unread \in Nat /\ (worker.start = "since" \/ unread > 0)
  BY DEF NextEvent, GapBegin, GapPage, account, follows, books, FollowInv, FollowTypes, WorkerAgrees
<1>5. unread' \in Nat /\ (unread > 0 => unread' > 0)
  BY <1>1
<1>2. CASE NextEvent
  <2> DEFINE e == Head(events)
  <2>1. events # <<>> /\ events' = Tail(events)
    BY <1>2 DEF NextEvent
  <2>2. events \in Seq(Events)
    BY DEF FollowInv, FollowTypes
  <2>3. e = events[1] /\ 1 \in DOMAIN events
    BY <2>1, <2>2
  <2>4. e.kind = "fill" => Bookable(e.trade)
    BY <2>3 DEF FollowInv, QueueBookable
  <2>5. \/ worker' = Idle
        \/ e.kind = "fill" /\ worker' = [Idle EXCEPT !.pc = "book", !.page = {e.trade}]
        \/ worker' = [Idle EXCEPT !.pc = "gap", !.gap = TRUE]
    BY <1>2 DEF NextEvent
  <2> HIDE DEF e
  <2>6. /\ worker' = [pc |-> worker'.pc, gap |-> worker'.gap, pairs |-> worker'.pairs,
                      start |-> worker'.start, from |-> worker'.from, page |-> worker'.page]
        /\ worker'.start = "since"
        /\ \/ worker'.pc \in {"idle", "gap"} /\ worker'.page = {}
           \/ worker'.pc = "book" /\ e.kind = "fill" /\ worker'.page = {e.trade}
    <3>1. CASE worker' = Idle
      BY <3>1 DEF Idle
    <3>2. CASE e.kind = "fill" /\ worker' = [Idle EXCEPT !.pc = "book", !.page = {e.trade}]
      BY <3>2 DEF Idle
    <3>3. CASE worker' = [Idle EXCEPT !.pc = "gap", !.gap = TRUE]
      BY <3>3 DEF Idle
    <3> QED
      BY <2>5, <3>1, <3>2, <3>3
  <2>7. WorkerTypes' /\ WorkerAgrees'
    BY <2>6 DEF WorkerTypes, WorkerAgrees
  <2>8. \A t \in worker'.page : Bookable(t)
    BY <2>4, <2>6
  <2> QED
    BY <1>1, <1>5, <2>1, <2>7, <2>8, WorkerKeeps
<1>3. CASE GapBegin
  <2>1. PICK ps, start :
          /\ worker' = [worker EXCEPT !.pc = "page", !.pairs = ps, !.start = start]
          /\ unread' = IF start = "day" THEN unread + 1 ELSE unread
          /\ start \in {"since", "day"}
    BY <1>3 DEF GapBegin
  <2>2. worker'.start = "since" \/ unread' > 0
    <3>1. CASE start = "day"
      BY <1>1, <2>1, <3>1
    <3>2. CASE start = "since"
      BY <2>1, <3>2 DEF FollowInv, WorkerTypes
    <3> QED
      BY <2>1, <3>1, <3>2
  <2>3. WorkerTypes' /\ worker'.page = worker.page /\ worker'.pc = "page"
    BY <2>1 DEF FollowInv, WorkerTypes
  <2>4. WorkerAgrees'
    BY <2>2, <2>3 DEF WorkerAgrees
  <2>5. \A t \in worker'.page : Bookable(t)
    BY <2>3 DEF FollowInv, PageBookable
  <2>6. events' = events
    BY <1>3 DEF GapBegin
  <2> QED
    BY <1>1, <1>5, <2>3, <2>4, <2>5, <2>6, WorkerKeeps
<1>4. CASE GapPage
  <2>3. events' = events /\ unread' = unread
    BY <1>4 DEF GapPage
  <2>1. CASE worker' = Idle
    <3>1. WorkerTypes' /\ WorkerAgrees' /\ worker'.page = {}
      BY <2>1 DEF Idle, WorkerTypes, WorkerAgrees
    <3> QED
      BY <1>1, <1>5, <2>3, <3>1, WorkerKeeps
  <2>2. CASE worker' # Idle
    <3> DEFINE p == Min(worker.pairs)
               page == PageOf(p)
               next == [worker EXCEPT !.pc = "page", !.pairs = @ \ {p}, !.from = 0]
    <3>1. \/ worker' = next
          \/ page # {} /\ worker' = [worker EXCEPT !.pc = "book", !.page = page, !.from = Max(page)]
          \/ page # {} /\ worker' = [next EXCEPT !.pc = "book", !.page = page]
      <4>1. worker.pairs # {}
        BY <1>4, <2>2 DEF GapPage
      <4>2. \/ worker' = CASE page = {} -> next
                          [] Cardinality(page) = PageSize ->
                               [worker EXCEPT !.pc = "book", !.page = page, !.from = Max(page)]
                          [] OTHER -> [next EXCEPT !.pc = "book", !.page = page]
            \/ worker' = next
        BY <1>4, <4>1 DEF GapPage
      <4> HIDE DEF page, p
      <4>3. CASE page = {}
        <5>1. Cardinality({}) = 0 /\ PageSize # 0
          BY FS_EmptySet, FollowAssumption
        <5> QED
          BY <4>2, <4>3, <5>1
      <4>4. CASE page # {} /\ Cardinality(page) = PageSize
        BY <4>2, <4>4
      <4>5. CASE page # {} /\ Cardinality(page) # PageSize
        BY <4>2, <4>5
      <4> QED
        BY <4>3, <4>4, <4>5
    <3>2. \A t \in page : Bookable(t)
      BY <1>1 DEF PageOf, Bookable
    <3> HIDE DEF page, p
    <3>3. /\ WorkerTypes' /\ WorkerAgrees'
          /\ worker'.page = worker.page \/ worker'.page = page
      <4>1. /\ worker' = [pc |-> worker'.pc, gap |-> worker'.gap, pairs |-> worker'.pairs,
                         start |-> worker'.start, from |-> worker'.from, page |-> worker'.page]
            /\ worker'.start = worker.start
            /\ \/ worker'.pc = "page" /\ worker'.page = worker.page
               \/ worker'.pc = "book" /\ worker'.page = page /\ page # {}
        BY <3>1 DEF FollowInv, WorkerTypes
      <4> QED
        BY <1>1, <2>3, <4>1 DEF WorkerTypes, WorkerAgrees
    <3>4. \A t \in worker'.page : Bookable(t)
      BY <3>2, <3>3 DEF FollowInv, PageBookable
    <3> QED
      BY <1>1, <1>5, <2>3, <3>3, <3>4, WorkerKeeps
  <2> QED
    BY <2>1, <2>2
<1> QED
  BY <1>2, <1>3, <1>4

\* existing_order decides from the row as it is now; a fill is sent for an order
\* that exists.
LEMMA ReadingKeeps ==
  ASSUME FollowInv, BookRead
  PROVE  FollowInv'
<1>1. /\ UNCHANGED <<venue, since, key, stream, row, engine, position, events, unread>>
      /\ worker.pc = "book" /\ worker.page # {}
      /\ unread \in Nat /\ (worker.start = "since" \/ unread > 0)
  BY DEF BookRead, account, follows, books, FollowInv, WorkerAgrees, FollowTypes
<1>2. Booking \in Trades /\ Booking \in worker.page
  BY <1>1, BookingIsOnPage DEF FollowInv
<1>3. \/ worker' = After
      \/ row[Booking] = "routed" /\ worker' = [worker EXCEPT !.pc = "send"]
      \/ row[Booking] = "missing" /\ worker' = [worker EXCEPT !.pc = "insert"]
  BY <1>2 DEF BookRead, FollowInv, FollowTypes
<1>4. CASE worker' = After
  <2>1. /\ WorkerTypes' /\ worker'.page \subseteq worker.page
        /\ worker'.start = "since" \/ unread > 0
        /\ worker'.pc \in {"idle", "page", "book"} /\ (worker'.pc = "book" => worker'.page # {})
    BY <1>1, <1>4, AfterIs
  <2>2. WorkerAgrees'
    BY <1>1, <2>1 DEF WorkerAgrees
  <2> QED
    BY <1>1, <2>1, <2>2, WorkerKeeps DEF FollowInv, PageBookable
<1>5. CASE \/ row[Booking] = "routed" /\ worker' = [worker EXCEPT !.pc = "send"]
           \/ row[Booking] = "missing" /\ worker' = [worker EXCEPT !.pc = "insert"]
  <2>1. WorkerTypes' /\ worker'.page = worker.page
    BY <1>5 DEF FollowInv, WorkerTypes
  <2>2. Booking' = Booking
    BY <2>1 DEF Booking
  <2>3. WorkerAgrees'
    BY <1>1, <1>5, <2>1, <2>2 DEF FollowInv, WorkerTypes, WorkerAgrees
  <2> QED
    BY <1>1, <2>1, <2>3, WorkerKeeps DEF FollowInv, PageBookable
<1> QED
  BY <1>3, <1>4, <1>5

\* The order is inserted for a trade that has none, so no filled one goes back.
LEMMA InsertKeeps ==
  ASSUME FollowInv, BookInsert
  PROVE  FollowInv'
<1>1. /\ UNCHANGED <<venue, since, key, stream, engine, position, events, unread>>
      /\ worker.pc = "insert" /\ worker.page # {} /\ row[Booking] = "missing"
      /\ unread \in Nat /\ (worker.start = "since" \/ unread > 0)
  BY DEF BookInsert, account, follows, FollowInv, WorkerAgrees, FollowTypes
<1>2. Booking \in Trades /\ Booking \in worker.page /\ Bookable(Booking)
  BY <1>1, BookingIsOnPage DEF FollowInv, PageBookable
<1>3. CASE worker' = After /\ row' = row
  <2>1. /\ WorkerTypes' /\ worker'.page \subseteq worker.page
        /\ worker'.start = "since" \/ unread > 0
        /\ worker'.pc \in {"idle", "page", "book"} /\ (worker'.pc = "book" => worker'.page # {})
    BY <1>1, <1>3, AfterIs
  <2>2. WorkerAgrees'
    BY <1>1, <2>1 DEF WorkerAgrees
  <2> QED
    BY <1>1, <1>3, <2>1, <2>2, WorkerKeeps DEF FollowInv, PageBookable
<1>4. CASE row' = [row EXCEPT ![Booking] = "routed"] /\ worker' = [worker EXCEPT !.pc = "send"]
  <2>1. /\ WorkerTypes' /\ worker'.page = worker.page /\ worker'.pc = "send"
        /\ worker'.start = worker.start
    BY <1>4 DEF FollowInv, WorkerTypes
  <2>2. Booking' = Booking
    BY <2>1 DEF Booking
  <2>3. /\ row' \in [Trades -> {"missing", "routed", "filled"}] /\ row'[Booking] = "routed"
        /\ \A t \in Trades : t # Booking => row'[t] = row[t]
    BY <1>2, <1>4 DEF FollowInv, FollowTypes
  <2>4. \A u : Bookable(u)' = Bookable(u)
    BY <1>1 DEF Bookable
  <2>5. FollowTypes'
    BY <1>1, <2>3 DEF FollowInv, FollowTypes
  <2>6. WorkerAgrees' /\ PageBookable' /\ QueueBookable'
    BY <1>1, <2>1, <2>2, <2>3, <2>4 DEF FollowInv, WorkerAgrees, PageBookable, QueueBookable
  <2>7. RowsBookable'
    BY <1>2, <2>3, <2>4 DEF FollowInv, RowsBookable
  <2>8. EngineAgrees'
    <3>1. \A i \in DOMAIN engine : engine[i] \in Trades
      BY DEF FollowInv, FollowTypes
    <3> QED
      BY <1>1, <2>3, <3>1 DEF FollowInv, EngineAgrees
  <2>9. Counted'
    BY <1>1, <1>2, <2>3 DEF FollowInv, Counted
  <2> QED
    BY <1>1, <2>1, <2>5, <2>6, <2>7, <2>8, <2>9 DEF FollowInv, StreamSince, BeforeTraded
<1> QED
  BY <1>3, <1>4 DEF BookInsert

\* The fill of an order that exists goes to the engine.
LEMMA SendingKeeps ==
  ASSUME FollowInv, SendFill
  PROVE  FollowInv'
<1>1. /\ UNCHANGED <<venue, since, key, stream, row, position, events, unread>>
      /\ worker.pc = "send" /\ worker.page # {} /\ row[Booking] # "missing"
      /\ engine' = Append(engine, Booking) /\ worker' = After
      /\ unread \in Nat
  BY DEF SendFill, account, follows, FollowInv, WorkerAgrees, FollowTypes
<1>2. Booking \in Trades
  BY <1>1, BookingIsOnPage DEF FollowInv
<1>3. engine \in Seq(Trades)
  BY DEF FollowInv, FollowTypes
<1>4. /\ engine' \in Seq(Trades) /\ Len(engine') = Len(engine) + 1
      /\ \A i \in 1..Len(engine) : engine'[i] = engine[i]
      /\ engine'[Len(engine) + 1] = Booking
  BY <1>1, <1>2, <1>3
<1>5. EngineAgrees'
  <2> SUFFICES ASSUME NEW i \in DOMAIN engine' PROVE row[engine'[i]] # "missing"
    BY <1>1 DEF EngineAgrees
  <2>1. i \in DOMAIN engine \/ i = Len(engine) + 1
    BY <1>3, <1>4
  <2> QED
    BY <1>1, <1>3, <1>4, <2>1 DEF FollowInv, EngineAgrees
<1>6. /\ WorkerTypes' /\ worker'.page \subseteq worker.page
      /\ worker'.start = "since" \/ unread > 0
      /\ worker'.pc \in {"idle", "page", "book"} /\ (worker'.pc = "book" => worker'.page # {})
  BY <1>1, AfterIs
<1>7. \A u : Bookable(u)' = Bookable(u)
  BY <1>1 DEF Bookable
<1>8. PageBookable' /\ RowsBookable' /\ QueueBookable' /\ WorkerAgrees'
  BY <1>1, <1>6, <1>7 DEF FollowInv, PageBookable, RowsBookable, QueueBookable, WorkerAgrees
<1>9. FollowTypes'
  BY <1>1, <1>4 DEF FollowInv, FollowTypes
<1> QED
  BY <1>1, <1>5, <1>6, <1>8, <1>9 DEF FollowInv, StreamSince, BeforeTraded, Counted

\* A fill is counted when its order turns filled, and not when it already is.
LEMMA EngineKeeps ==
  ASSUME FollowInv, EngineBooks
  PROVE  FollowInv'
<1> DEFINE t == Head(engine)
<1>1. /\ UNCHANGED <<venue, since, key, stream, events, worker, unread>>
      /\ engine # <<>> /\ engine' = Tail(engine)
  BY DEF EngineBooks, account, follows
<1>2. engine \in Seq(Trades)
  BY DEF FollowInv, FollowTypes
<1>3. /\ t = engine[1] /\ 1 \in DOMAIN engine /\ t \in Trades
      /\ engine' \in Seq(Trades)
      /\ \A i \in DOMAIN engine' : engine'[i] = engine[i + 1] /\ i + 1 \in DOMAIN engine
  BY <1>1, <1>2
<1>4. row[t] # "missing"
  BY <1>3 DEF FollowInv, EngineAgrees
<1>5. \A u : Bookable(u)' = Bookable(u)
  BY <1>1 DEF Bookable
<1>6. \/ /\ row' = [row EXCEPT ![t] = "filled"]
         /\ position' = [position EXCEPT ![t] = IF row[t] = "filled" THEN @ ELSE @ + 1]
      \/ row' = row /\ position' = position
  BY DEF EngineBooks
<1> HIDE DEF t
<1>7. /\ row' \in [Trades -> {"missing", "routed", "filled"}]
      /\ \A u \in Trades : row'[u] = "missing" <=> row[u] = "missing"
      /\ position' \in [Trades -> {0, 1}] /\ Counted'
  <2>1. CASE /\ row' = [row EXCEPT ![t] = "filled"]
             /\ position' = [position EXCEPT ![t] = IF row[t] = "filled" THEN @ ELSE @ + 1]
    <3>1. position[t] = IF row[t] = "filled" THEN 1 ELSE 0
      BY <1>3 DEF FollowInv, Counted
    <3>2. row'[t] = "filled" /\ position'[t] = 1
      BY <1>3, <2>1, <3>1 DEF FollowInv, FollowTypes
    <3>3. \A u \in Trades : u # t => row'[u] = row[u] /\ position'[u] = position[u]
      BY <1>3, <2>1 DEF FollowInv, FollowTypes
    <3> QED
      BY <1>3, <1>4, <2>1, <3>2, <3>3 DEF FollowInv, FollowTypes, Counted
  <2>2. CASE row' = row /\ position' = position
    BY <2>2 DEF FollowInv, FollowTypes, Counted
  <2> QED
    BY <1>6, <2>1, <2>2
<1>8. FollowTypes'
  BY <1>1, <1>3, <1>7 DEF FollowInv, FollowTypes
<1>9. EngineAgrees'
  <2>1. \A i \in DOMAIN engine' : engine'[i] \in Trades /\ row[engine'[i]] # "missing"
    BY <1>2, <1>3 DEF FollowInv, EngineAgrees
  <2> QED
    BY <1>7, <2>1 DEF EngineAgrees
<1>10. WorkerAgrees' /\ WorkerTypes'
  <2>1. Booking' = Booking
    BY <1>1 DEF Booking
  <2>2. worker.page # {} => Booking \in Trades
    BY BookingIsOnPage DEF FollowInv
  <2> QED
    BY <1>1, <1>7, <2>1, <2>2 DEF FollowInv, WorkerAgrees, WorkerTypes
<1>11. RowsBookable' /\ PageBookable' /\ QueueBookable'
  BY <1>1, <1>5, <1>7 DEF FollowInv, RowsBookable, PageBookable, QueueBookable
<1> QED
  BY <1>1, <1>7, <1>8, <1>9, <1>10, <1>11 DEF FollowInv, StreamSince, BeforeTraded

LEMMA FollowInvHolds == FollowSpec => []FollowInv
<1>1. FollowInv /\ [FollowNext]_followVars => FollowInv'
  <2> SUFFICES ASSUME FollowInv, [FollowNext]_followVars PROVE FollowInv'
    OBVIOUS
  <2>1. CASE FollowNext
    BY <2>1, AccountKeeps, StreamKeeps, AskingKeeps, ReadingKeeps, InsertKeeps, SendingKeeps, EngineKeeps
       DEF FollowNext, Worker
  <2>2. CASE UNCHANGED followVars
    <3>1. UNCHANGED <<venue, since, key, stream, events, worker, row, engine, position, unread>>
      BY <2>2 DEF followVars
    <3>0. unread \in Nat
      BY DEF FollowInv, FollowTypes
    <3>2. WorkerTypes' /\ WorkerAgrees' /\ worker'.page = worker.page
      BY <3>1 DEF FollowInv, WorkerTypes, WorkerAgrees, Booking
    <3> QED
      BY <3>0, <3>1, <3>2, WorkerKeeps DEF FollowInv, PageBookable
  <2> QED
    BY <2>1, <2>2
<1> QED
  BY <1>1, FollowStarts, PTL DEF FollowSpec

\* However often a trade is reported, live and from the history, and whatever
\* dies between its order and its fill, it moves the position once, when its
\* order is filled; a trade from before following began has no order
\* (follow.rs fill_gap, booking.rs book_fill, order_engine.rs apply_exec).
THEOREM TradesBookedOnce == FollowSpec => []EachTradeOnce
<1>1. FollowInv => EachTradeOnce
  BY DEF FollowInv, Counted, RowsBookable, Bookable, EachTradeOnce
<1> QED
  BY <1>1, FollowInvHolds, PTL

-----------------------------------------------------------------------------
(***************************************************************************)
(* Positions, for every portfolio, order, price, quantity and number of    *)
(* fills.                                                                  *)
(*                                                                         *)
(* A position's cost and profit are fractions, since an average is one, so *)
(* what the book adds up is proved over them: the sums, products and       *)
(* quotients of position_math are those of the rationals, a fill's profit  *)
(* is what its proceeds and the worth of the position differ by, and an    *)
(* allocation at the average price makes none.                             *)
(*                                                                         *)
(* RebuildAgrees needs one thing more than the row it compares, that the   *)
(* fills logged are fills.  BooksBalance is the conjunction of a profit    *)
(* and of quantities.  A profit is kept because a row read under its lock  *)
(* is still the row when it is written, and a row that was not there is    *)
(* still flat unless somebody inserted it (LocksHeld).  Quantities are kept*)
(* because the source of an allocation always has a row (RowsThere), and   *)
(* what it gives the target gets if it is on the block's side.             *)
(***************************************************************************)
(* Fractions                                                               *)

PosInt == Nat \ {0}

LEMMA DivMod ==
  ASSUME NEW x \in Int, NEW y \in PosInt
  PROVE  /\ x \div y \in Int /\ x % y \in Int /\ 0 <= x % y /\ x % y < y
         /\ x = y * (x \div y) + (x % y)
BY DEF PosInt

LEMMA Exact ==
  ASSUME NEW x \in Int, NEW y \in PosInt
  PROVE  (y * x) \div y = x /\ (y * x) % y = 0
BY DEF PosInt

LEMMA Cancel ==
  ASSUME NEW x \in Int, NEW z \in Int, NEW y \in PosInt, x * y = z * y
  PROVE  x = z
BY DEF PosInt

\* Every nonempty set of positive numbers has a least one.
LEMMA LeastExists ==
  ASSUME NEW S, S \subseteq PosInt, S # {}
  PROVE  \E m \in S : \A k \in S : m <= k
<1>1. S \subseteq Nat
  BY DEF PosInt
<1>2. PICK m \in S : \A k \in Nat : <<k, m>> \in OpToRel(<, Nat) => k \notin S
  BY <1>1, WFMin, NatLessThanWellFounded
<1>3. \A k \in S : ~ (k < m)
  BY <1>1, <1>2 DEF OpToRel
<1> QED
  BY <1>1, <1>3

\* The denominators the fraction n over d can be written with.
Dens(n, d) == {k \in PosInt : \E a \in Int : a * d = n * k}

LEMMA DensSame ==
  ASSUME NEW n1 \in Int, NEW d1 \in PosInt, NEW n2 \in Int, NEW d2 \in PosInt, n1 * d2 = n2 * d1,
         NEW k \in PosInt, NEW a \in Int, a * d1 = n1 * k
  PROVE  a * d2 = n2 * k
<1> USE DEF PosInt
<1>1. (a * d2) * d1 = (a * d1) * d2
  OBVIOUS
<1>2. (n1 * k) * d2 = (n1 * d2) * k
  OBVIOUS
<1>3. (n2 * d1) * k = (n2 * k) * d1
  OBVIOUS
<1>4. (a * d2) * d1 = (n2 * k) * d1
  BY <1>1, <1>2, <1>3
<1>5. a * d2 \in Int /\ n2 * k \in Int
  OBVIOUS
<1> QED
  BY <1>4, <1>5, Cancel

LEMMA LeastDivides ==
  ASSUME NEW n \in Int, NEW d \in PosInt, NEW m \in Dens(n, d), \A k \in Dens(n, d) : m <= k,
         NEW a0 \in Int, a0 * d = n * m, NEW k \in PosInt, NEW a \in Int, a * d = n * k
  PROVE  \E q \in PosInt : k = q * m /\ a = q * a0
<1> DEFINE q == k \div m
           r == k % m
<1>1. m \in PosInt
  BY DEF Dens
<1>2. /\ q \in Int /\ r \in Int /\ 0 <= r /\ r < m /\ k = m * q + r
  BY <1>1, DivMod DEF PosInt
<1> HIDE DEF q, r
<1>3. (a - q * a0) * d = n * r
  <2>1. (a - q * a0) * d = a * d - q * (a0 * d)
    BY <1>2 DEF PosInt
  <2>2. n * k = n * (m * q + r)
    BY <1>2
  <2>3. n * (m * q + r) = q * (n * m) + n * r
    BY <1>1, <1>2 DEF PosInt
  <2>4. n * r \in Int /\ q * (n * m) \in Int
    BY <1>1, <1>2 DEF PosInt
  <2> QED
    BY <2>1, <2>2, <2>3, <2>4
<1>4. r = 0
  <2> SUFFICES ASSUME r # 0 PROVE FALSE
    OBVIOUS
  <2>1. r \in PosInt /\ a - q * a0 \in Int
    BY <1>2 DEF PosInt
  <2>2. r \in Dens(n, d)
    BY <1>3, <2>1 DEF Dens
  <2> QED
    BY <1>1, <1>2, <2>2 DEF PosInt
<1>5. k = q * m
  BY <1>1, <1>2, <1>4 DEF PosInt
<1>6. q \in PosInt
  <2>1. q > 0
    <3> SUFFICES ASSUME q <= 0 PROVE FALSE
      BY <1>2
    <3>1. q * m <= 0
      BY <1>1, <1>2 DEF PosInt
    <3> QED
      BY <1>5, <3>1 DEF PosInt
  <2> QED
    BY <1>2, <2>1 DEF PosInt
<1>7. a = q * a0
  <2>1. n * r = 0
    BY <1>4
  <2>2. (a - q * a0) * d = 0 * d
    BY <1>3, <2>1 DEF PosInt
  <2>3. a - q * a0 = 0
    BY <1>6, <2>2, Cancel DEF PosInt
  <2> QED
    BY <1>6, <2>3 DEF PosInt
<1> QED
  BY <1>5, <1>6, <1>7

\* Lowest reduces to the least denominator.
LEMMA LowestLeast ==
  ASSUME NEW n \in Int, NEW d \in PosInt, NEW m \in Dens(n, d), \A k \in Dens(n, d) : m <= k,
         NEW a0 \in Int, a0 * d = n * m
  PROVE  Lowest(n, d) = <<a0, m>>
<1> DEFINE G == {k \in 1..d : n % k = 0 /\ d % k = 0}
<1>1. m \in PosInt
  BY DEF Dens
<1>2. \A k \in PosInt, a \in Int : a * d = n * k => \E q \in PosInt : k = q * m /\ a = q * a0
  BY LeastDivides
<1>3. PICK g \in PosInt : d = g * m /\ n = g * a0
  <2>1. n * d = n * d
    OBVIOUS
  <2> QED
    BY <1>2, <2>1
<1>4. g \in G
  <2>1. g <= d
    <3>1. g * 1 <= g * m
      BY <1>1, <1>3 DEF PosInt
    <3> QED
      BY <1>3, <3>1 DEF PosInt
  <2>2. n % g = 0 /\ d % g = 0
    BY <1>1, <1>3, Exact DEF PosInt
  <2> QED
    BY <2>1, <2>2 DEF PosInt
<1>5. ASSUME NEW k \in G PROVE k <= g
  <2>1. k \in PosInt /\ n % k = 0 /\ d % k = 0
    BY DEF PosInt
  <2> DEFINE dk == d \div k
             nk == n \div k
  <2>2. dk \in Int /\ nk \in Int /\ d = k * dk /\ n = k * nk
    BY <2>1, DivMod DEF PosInt
  <2> HIDE DEF dk, nk
  <2>3. dk \in PosInt
    <3> SUFFICES ASSUME dk <= 0 PROVE FALSE
      BY <2>2 DEF PosInt
    <3>1. k * dk <= 0
      BY <2>1, <2>2 DEF PosInt
    <3> QED
      BY <2>2, <3>1 DEF PosInt
  <2>4. nk * d = n * dk
    <3>1. nk * (k * dk) = (k * nk) * dk
      BY <2>1, <2>2 DEF PosInt
    <3> QED
      BY <2>2, <3>1
  <2>5. PICK q \in PosInt : dk = q * m
    BY <1>2, <2>2, <2>3, <2>4
  <2>6. g * m = (k * q) * m
    <3>1. k * (q * m) = (k * q) * m
      BY <1>1, <2>1 DEF PosInt
    <3> QED
      BY <1>3, <2>2, <2>5, <3>1
  <2>7. g = k * q
    <3>1. k * q \in Int /\ g \in Int
      BY <2>1 DEF PosInt
    <3> QED
      BY <1>1, <2>6, <3>1, Cancel
  <2>8. k * 1 <= k * q
    BY <2>1 DEF PosInt
  <2> QED
    BY <2>1, <2>7, <2>8 DEF PosInt
<1>6. \A x \in G : (\A y \in G : x >= y) => x = g
  BY <1>4, <1>5 DEF PosInt
<1>7. Max(G) = g
  <2>1. \A y \in G : g >= y
    BY <1>5 DEF PosInt
  <2> HIDE DEF G
  <2> QED
    BY <1>4, <1>6, <2>1 DEF Max
<1>8. n \div g = a0 /\ d \div g = m
  BY <1>1, <1>3, Exact DEF PosInt
<1> QED
  BY <1>7, <1>8 DEF Lowest

Fraction == Int \X PosInt

\* What a fraction in lowest terms is.
LEMMA LowestIs ==
  ASSUME NEW n \in Int, NEW d \in PosInt
  PROVE  /\ Lowest(n, d) \in Fraction
         /\ Lowest(n, d)[1] * d = n * Lowest(n, d)[2]
<1>1. d \in Dens(n, d) /\ Dens(n, d) \subseteq PosInt
  BY DEF Dens
<1>2. PICK m \in Dens(n, d) : \A k \in Dens(n, d) : m <= k
  BY <1>1, LeastExists
<1>3. PICK a \in Int : a * d = n * m
  BY DEF Dens
<1>4. Lowest(n, d) = <<a, m>>
  BY <1>2, <1>3, LowestLeast
<1> QED
  BY <1>1, <1>3, <1>4 DEF Fraction

\* Two ways to write one fraction have the same lowest terms.
LEMMA LowestSame ==
  ASSUME NEW n1 \in Int, NEW d1 \in PosInt, NEW n2 \in Int, NEW d2 \in PosInt, n1 * d2 = n2 * d1
  PROVE  Lowest(n1, d1) = Lowest(n2, d2)
<1>1. d1 \in Dens(n1, d1) /\ Dens(n1, d1) \subseteq PosInt
  BY DEF Dens
<1>2. PICK m \in Dens(n1, d1) : \A k \in Dens(n1, d1) : m <= k
  BY <1>1, LeastExists
<1>3. PICK a \in Int : a * d1 = n1 * m
  BY DEF Dens
<1>4. m \in PosInt
  BY <1>1
<1>5. a * d2 = n2 * m
  BY <1>3, <1>4, DensSame
<1>6. \A k \in Dens(n2, d2) : k \in Dens(n1, d1)
  <2>1. ASSUME NEW k \in PosInt, NEW b \in Int, b * d2 = n2 * k PROVE b * d1 = n1 * k
    BY <2>1, DensSame
  <2> QED
    BY <2>1 DEF Dens
<1>7. m \in Dens(n2, d2)
  BY <1>4, <1>5 DEF Dens
<1>8. Lowest(n1, d1) = <<a, m>>
  BY <1>2, <1>3, LowestLeast
<1>9. Lowest(n2, d2) = <<a, m>>
  BY <1>2, <1>5, <1>6, <1>7, LowestLeast
<1> QED
  BY <1>8, <1>9


-----------------------------------------------------------------------------
(* Fractions in lowest terms                                               *)

Lows == {x \in Fraction : Lowest(x[1], x[2]) = x}

LEMMA LowestLow ==
  ASSUME NEW n \in Int, NEW d \in PosInt
  PROVE  Lowest(n, d) \in Lows
<1> DEFINE x == Lowest(n, d)
<1>1. x \in Fraction /\ x[1] * d = n * x[2]
  BY LowestIs
<1>2. x[1] \in Int /\ x[2] \in PosInt
  BY <1>1 DEF Fraction
<1>3. Lowest(x[1], x[2]) = Lowest(n, d)
  BY <1>1, <1>2, LowestSame
<1> QED
  BY <1>1, <1>3 DEF Lows

LEMMA LowIs ==
  ASSUME NEW x \in Lows
  PROVE  /\ x[1] \in Int /\ x[2] \in PosInt /\ Lowest(x[1], x[2]) = x
         /\ Scale(1, x) = x
<1>1. x[1] \in Int /\ x[2] \in PosInt /\ Lowest(x[1], x[2]) = x
  BY DEF Lows, Fraction
<1>2. 1 * x[1] = x[1]
  BY <1>1
<1> QED
  BY <1>1, <1>2 DEF Scale

LEMMA TimesPos ==
  ASSUME NEW x \in PosInt, NEW y \in PosInt
  PROVE  x * y \in PosInt
BY DEF PosInt

\* Whole numbers are in lowest terms.
LEMMA WholeLow ==
  ASSUME NEW n \in Int
  PROVE  <<n, 1>> \in Lows
<1>1. 1 \in PosInt /\ n * 1 = n * 1 /\ 1 * 1 = 1
  BY DEF PosInt
<1>2. 1 \in Dens(n, 1) /\ \A k \in Dens(n, 1) : 1 <= k
  BY <1>1 DEF Dens, PosInt
<1>3. Lowest(n, 1) = <<n, 1>>
  BY <1>1, <1>2, LowestLeast
<1> QED
  BY <1>1, <1>3, LowestLow

\* Sums, multiples and parts, from any way to write what they are of.
LEMMA PlusRep ==
  ASSUME NEW n \in Int, NEW d \in PosInt, NEW m \in Int, NEW e \in PosInt
  PROVE  Plus(Lowest(n, d), Lowest(m, e)) = Lowest(n * e + m * d, d * e)
<1> DEFINE x == Lowest(n, d)
           y == Lowest(m, e)
<1>1. x[1] \in Int /\ x[2] \in PosInt /\ x[1] * d = n * x[2]
  BY LowestIs DEF Fraction
<1>2. y[1] \in Int /\ y[2] \in PosInt /\ y[1] * e = m * y[2]
  BY LowestIs DEF Fraction
<1> HIDE DEF x, y
<1>5. x[2] \in Int /\ y[2] \in Int
  BY <1>1, <1>2 DEF PosInt
<1>6. (x[1] * y[2] + y[1] * x[2]) * (d * e) = (n * e + m * d) * (x[2] * y[2])
  <2>1. x[1] \in Int /\ y[1] \in Int
    BY <1>1, <1>2
  <2> DEFINE a == x[1]
             b == x[2]
             c == y[1]
             f == y[2]
  <2>2. a \in Int /\ b \in Int /\ c \in Int /\ f \in Int /\ a * d = n * b /\ c * e = m * f
    BY <1>1, <1>2, <1>5
  <2> HIDE DEF a, b, c, f
  <2>3. (a * f + c * b) * (d * e) = (a * d) * (f * e) + (c * e) * (b * d)
    BY <2>2 DEF PosInt
  <2>4. (n * b) * (f * e) + (m * f) * (b * d) = (n * e + m * d) * (b * f)
    BY <2>2 DEF PosInt
  <2>5. (a * f + c * b) * (d * e) = (n * e + m * d) * (b * f)
    BY <2>2, <2>3, <2>4
  <2> QED
    BY <2>5 DEF a, b, c, f
<1>7. x[2] * y[2] \in PosInt /\ d * e \in PosInt
  BY <1>1, <1>2, TimesPos
<1>8. x[1] * y[2] + y[1] * x[2] \in Int /\ n * e + m * d \in Int
  BY <1>1, <1>2 DEF PosInt
<1>9. Lowest(x[1] * y[2] + y[1] * x[2], x[2] * y[2]) = Lowest(n * e + m * d, d * e)
  BY <1>6, <1>7, <1>8, LowestSame
<1> QED
  BY <1>9 DEF Plus, x, y

LEMMA ScaleRep ==
  ASSUME NEW k \in Int, NEW n \in Int, NEW d \in PosInt
  PROVE  Scale(k, Lowest(n, d)) = Lowest(k * n, d)
<1> DEFINE x == Lowest(n, d)
<1>1. x[1] \in Int /\ x[2] \in PosInt /\ x[1] * d = n * x[2]
  BY LowestIs DEF Fraction
<1> HIDE DEF x
<1>2. (k * x[1]) * d = k * (x[1] * d) /\ (k * n) * x[2] = k * (n * x[2])
  BY <1>1 DEF PosInt
<1>3. (k * x[1]) * d = (k * n) * x[2]
  BY <1>1, <1>2
<1>4. k * x[1] \in Int /\ k * n \in Int
  BY <1>1
<1>5. Lowest(k * x[1], x[2]) = Lowest(k * n, d)
  BY <1>1, <1>3, <1>4, LowestSame
<1> QED
  BY <1>5 DEF Scale, x

LEMMA OverRep ==
  ASSUME NEW k \in PosInt, NEW n \in Int, NEW d \in PosInt
  PROVE  Over(Lowest(n, d), k) = Lowest(n, d * k)
<1> DEFINE x == Lowest(n, d)
<1>1. x[1] \in Int /\ x[2] \in PosInt /\ x[1] * d = n * x[2]
  BY LowestIs DEF Fraction
<1> HIDE DEF x
<1>2. x[1] * (d * k) = (x[1] * d) * k /\ n * (x[2] * k) = (n * x[2]) * k
  BY <1>1 DEF PosInt
<1>3. x[1] * (d * k) = n * (x[2] * k)
  BY <1>1, <1>2
<1>4. x[2] * k \in PosInt /\ d * k \in PosInt
  BY <1>1, TimesPos
<1>5. Lowest(x[1], x[2] * k) = Lowest(n, d * k)
  BY <1>1, <1>3, <1>4, LowestSame
<1> QED
  BY <1>5 DEF Over, x


LEMMA LowsClosed ==
  ASSUME NEW x \in Lows, NEW y \in Lows, NEW k \in Int
  PROVE  /\ Plus(x, y) \in Lows /\ Scale(k, x) \in Lows /\ Minus(x, y) \in Lows
         /\ Zero \in Lows /\ (k \in PosInt => Over(x, k) \in Lows)
<1>1. \A u, v \in Lows : Plus(u, v) \in Lows
  <2> SUFFICES ASSUME NEW u \in Lows, NEW v \in Lows PROVE Plus(u, v) \in Lows
    OBVIOUS
  <2>1. /\ u[1] \in Int /\ u[2] \in PosInt /\ v[1] \in Int /\ v[2] \in PosInt
    BY LowIs
  <2>2. u[1] * v[2] + v[1] * u[2] \in Int /\ u[2] * v[2] \in PosInt
    BY <2>1, TimesPos DEF PosInt
  <2> QED
    BY <2>2, LowestLow DEF Plus
<1>2. \A u \in Lows, j \in Int : Scale(j, u) \in Lows
  <2> SUFFICES ASSUME NEW u \in Lows, NEW j \in Int PROVE Scale(j, u) \in Lows
    OBVIOUS
  <2>1. /\ u[1] \in Int /\ u[2] \in PosInt /\ j * u[1] \in Int
    BY LowIs
  <2> QED
    BY <2>1, LowestLow DEF Scale
<1>3. k \in PosInt => Over(x, k) \in Lows
  <2>1. /\ x[1] \in Int /\ x[2] \in PosInt
    BY LowIs
  <2> QED
    BY <2>1, TimesPos, LowestLow DEF Over
<1>4. Minus(x, y) \in Lows
  BY <1>1, <1>2 DEF Minus
<1> QED
  BY <1>1, <1>2, <1>3, <1>4, WholeLow DEF Zero

LEMMA PlusComm ==
  ASSUME NEW x \in Lows, NEW y \in Lows
  PROVE  Plus(x, y) = Plus(y, x)
<1>1. /\ x[1] \in Int /\ x[2] \in Int /\ y[1] \in Int /\ y[2] \in Int
  BY LowIs DEF PosInt
<1>2. x[1] * y[2] + y[1] * x[2] = y[1] * x[2] + x[1] * y[2] /\ x[2] * y[2] = y[2] * x[2]
  BY <1>1
<1> QED
  BY <1>2 DEF Plus

LEMMA PlusAssoc ==
  ASSUME NEW x \in Lows, NEW y \in Lows, NEW z \in Lows
  PROVE  Plus(Plus(x, y), z) = Plus(x, Plus(y, z))
<1>1. /\ x[1] \in Int /\ x[2] \in PosInt /\ y[1] \in Int /\ y[2] \in PosInt
      /\ z[1] \in Int /\ z[2] \in PosInt
      /\ Lowest(x[1], x[2]) = x /\ Lowest(y[1], y[2]) = y /\ Lowest(z[1], z[2]) = z
  BY LowIs
<1> DEFINE n == x[1] * y[2] + y[1] * x[2]
           m == y[1] * z[2] + z[1] * y[2]
<1>2. n \in Int /\ m \in Int /\ x[2] * y[2] \in PosInt /\ y[2] * z[2] \in PosInt
  BY <1>1, TimesPos DEF PosInt
<1>3. Plus(Plus(x, y), z) = Lowest(n * z[2] + z[1] * (x[2] * y[2]), (x[2] * y[2]) * z[2])
  BY <1>1, <1>2, PlusRep DEF Plus
<1>4. Plus(x, Plus(y, z)) = Lowest(x[1] * (y[2] * z[2]) + m * x[2], x[2] * (y[2] * z[2]))
  BY <1>1, <1>2, PlusRep DEF Plus
<1>5. \A a, b, c, d, e, f \in Int :
        /\ (a * d + c * b) * f + e * (b * d) = a * (d * f) + (c * f + e * d) * b
        /\ (b * d) * f = b * (d * f)
  OBVIOUS
<1>6. /\ n * z[2] + z[1] * (x[2] * y[2]) = x[1] * (y[2] * z[2]) + m * x[2]
      /\ (x[2] * y[2]) * z[2] = x[2] * (y[2] * z[2])
  BY <1>1, <1>5 DEF PosInt
<1> QED
  BY <1>3, <1>4, <1>6

LEMMA PlusZero ==
  ASSUME NEW x \in Lows
  PROVE  Plus(x, Zero) = x /\ Plus(Zero, x) = x
<1>1. x[1] \in Int /\ x[2] \in PosInt /\ Lowest(x[1], x[2]) = x
  BY LowIs
<1>2. x[1] * 1 + 0 * x[2] = x[1] /\ x[2] * 1 = x[2]
  BY <1>1 DEF PosInt
<1>3. Plus(x, Zero) = x
  BY <1>1, <1>2 DEF Plus, Zero
<1> QED
  BY <1>3, PlusComm, LowsClosed

LEMMA ScaleZero ==
  ASSUME NEW x \in Lows, NEW k \in Int
  PROVE  Scale(0, x) = Zero /\ Scale(k, Zero) = Zero
<1>1. x[1] \in Int /\ x[2] \in PosInt
  BY LowIs
<1>2. 0 * x[1] = 0 /\ k * 0 = 0 /\ 1 \in PosInt /\ 0 * 1 = 0 * x[2]
  BY <1>1 DEF PosInt
<1>3. Lowest(0, 1) = Lowest(0, x[2])
  <2>1. 0 * x[2] = 0 * 1
    BY <1>1 DEF PosInt
  <2> QED
    BY <1>1, <1>2, <2>1, LowestSame
<1>4. Lowest(0, 1) = Zero
  <2>1. <<0, 1>> \in Lows
    BY WholeLow
  <2> QED
    BY <2>1, LowIs DEF Zero
<1> QED
  BY <1>2, <1>3, <1>4 DEF Scale, Zero

LEMMA ScaleSum ==
  ASSUME NEW x \in Lows, NEW k \in Int, NEW l \in Int
  PROVE  Scale(k + l, x) = Plus(Scale(k, x), Scale(l, x))
<1>1. x[1] \in Int /\ x[2] \in PosInt
  BY LowIs
<1>2. k * x[1] \in Int /\ l * x[1] \in Int /\ (k + l) * x[1] \in Int
  BY <1>1
<1> DEFINE n == (k * x[1]) * x[2] + (l * x[1]) * x[2]
<1>3. Plus(Scale(k, x), Scale(l, x)) = Lowest(n, x[2] * x[2])
  BY <1>1, <1>2, PlusRep DEF Scale
<1>4. \A a, b \in Int : ((k + l) * a) * (b * b) = ((k * a) * b + (l * a) * b) * b
  OBVIOUS
<1>5. n \in Int /\ x[2] * x[2] \in PosInt /\ ((k + l) * x[1]) * (x[2] * x[2]) = n * x[2]
  BY <1>1, <1>2, <1>4, TimesPos DEF PosInt
<1>6. Lowest((k + l) * x[1], x[2]) = Lowest(n, x[2] * x[2])
  BY <1>1, <1>2, <1>5, LowestSame
<1> QED
  BY <1>3, <1>6 DEF Scale

LEMMA ScaleDist ==
  ASSUME NEW x \in Lows, NEW y \in Lows, NEW k \in Int
  PROVE  Scale(k, Plus(x, y)) = Plus(Scale(k, x), Scale(k, y))
<1>1. x[1] \in Int /\ x[2] \in PosInt /\ y[1] \in Int /\ y[2] \in PosInt
  BY LowIs
<1> DEFINE n == x[1] * y[2] + y[1] * x[2]
<1>2. k * x[1] \in Int /\ k * y[1] \in Int /\ n \in Int /\ x[2] * y[2] \in PosInt
  BY <1>1, TimesPos DEF PosInt
<1>3. Scale(k, Plus(x, y)) = Lowest(k * n, x[2] * y[2])
  BY <1>2, ScaleRep DEF Plus
<1>4. Plus(Scale(k, x), Scale(k, y)) = Lowest((k * x[1]) * y[2] + (k * y[1]) * x[2], x[2] * y[2])
  BY <1>1, <1>2, PlusRep DEF Scale
<1>5. \A a, b, c, d \in Int : k * (a * d + c * b) = (k * a) * d + (k * c) * b
  OBVIOUS
<1>6. k * n = (k * x[1]) * y[2] + (k * y[1]) * x[2]
  BY <1>1, <1>5 DEF PosInt
<1> QED
  BY <1>3, <1>4, <1>6

LEMMA ScaleTimes ==
  ASSUME NEW x \in Lows, NEW k \in Int, NEW l \in Int
  PROVE  Scale(k, Scale(l, x)) = Scale(k * l, x)
<1>1. x[1] \in Int /\ x[2] \in PosInt
  BY LowIs
<1>2. l * x[1] \in Int /\ k * (l * x[1]) = (k * l) * x[1]
  BY <1>1
<1>3. Scale(k, Lowest(l * x[1], x[2])) = Lowest(k * (l * x[1]), x[2])
  BY <1>1, <1>2, ScaleRep
<1> QED
  BY <1>2, <1>3 DEF Scale

LEMMA ScaleOver ==
  ASSUME NEW x \in Lows, NEW k \in PosInt
  PROVE  Scale(k, Over(x, k)) = x
<1>1. x[1] \in Int /\ x[2] \in PosInt /\ Lowest(x[1], x[2]) = x
  BY LowIs
<1>2. k \in Int /\ x[2] * k \in PosInt /\ k * x[1] \in Int
  BY <1>1, TimesPos DEF PosInt
<1>3. Scale(k, Over(x, k)) = Lowest(k * x[1], x[2] * k)
  BY <1>1, <1>2, ScaleRep DEF Over
<1>4. (k * x[1]) * x[2] = x[1] * (x[2] * k)
  BY <1>1, <1>2 DEF PosInt
<1>5. Lowest(k * x[1], x[2] * k) = Lowest(x[1], x[2])
  BY <1>1, <1>2, <1>4, LowestSame, ZenonT(40)
<1> QED
  BY <1>1, <1>3, <1>5


-----------------------------------------------------------------------------
(* PositionMath                                                            *)

PositionMath == [net_qty : Int, avg_cost : Lows, realized_pnl : Lows]

LEMMA LeastOfTwo ==
  ASSUME NEW a \in Nat, NEW b \in Nat
  PROVE  Min({a, b}) = IF a <= b THEN a ELSE b
<1> DEFINE m == IF a <= b THEN a ELSE b
<1>1. m \in {a, b} /\ \A y \in {a, b} : m <= y
  OBVIOUS
<1>2. \A x \in {a, b} : (\A y \in {a, b} : x <= y) => x = m
  OBVIOUS
<1> QED
  BY <1>1, <1>2 DEF Min

LEMMA MinusIs ==
  ASSUME NEW x \in Lows, NEW y \in Lows, NEW k \in Int
  PROVE  /\ Scale(k, Minus(x, y)) = Plus(Scale(k, x), Scale(-k, y))
         /\ Minus(x, Scale(k, y)) = Plus(x, Scale(-k, y))
<1>1. Scale(-1, y) \in Lows /\ -1 \in Int /\ -k \in Int /\ k * (-1) = -k /\ (-1) * k = -k
  BY LowsClosed
<1>2. Scale(k, Minus(x, y)) = Plus(Scale(k, x), Scale(k, Scale(-1, y)))
  BY <1>1, ScaleDist DEF Minus
<1>3. Scale(k, Scale(-1, y)) = Scale(-k, y) /\ Scale(-1, Scale(k, y)) = Scale(-k, y)
  BY <1>1, ScaleTimes
<1> QED
  BY <1>2, <1>3 DEF Minus

\* Closing k of a position of n at price x leaves n - k at its cost.
LEMMA Realize ==
  ASSUME NEW c \in Lows, NEW a \in Lows, NEW x \in Lows, NEW n \in Int, NEW k \in Int
  PROVE  Plus(Plus(c, Scale(n, a)), Scale(k, Minus(x, a))) = Plus(Plus(c, Scale(k, x)), Scale(n - k, a))
<1> DEFINE w == Scale(n, a)
           v == Scale(k, x)
           u == Scale(-k, a)
<1>1. w \in Lows /\ v \in Lows /\ u \in Lows /\ Plus(w, u) \in Lows /\ Plus(v, u) \in Lows
      /\ Plus(w, Plus(v, u)) \in Lows
  BY LowsClosed
<1>2. Scale(k, Minus(x, a)) = Plus(v, u)
  BY MinusIs
<1>3. Scale(n - k, a) = Plus(w, u)
  <2>1. n - k = n + (-k) /\ -k \in Int
    OBVIOUS
  <2> QED
    BY <2>1, ScaleSum
<1> HIDE DEF w, v, u
<1>4. Plus(Plus(c, w), Plus(v, u)) = Plus(c, Plus(w, Plus(v, u)))
  BY <1>1, PlusAssoc
<1>5. Plus(Plus(c, v), Plus(w, u)) = Plus(c, Plus(v, Plus(w, u)))
  BY <1>1, PlusAssoc
<1>6. Plus(w, Plus(v, u)) = Plus(Plus(w, v), u) /\ Plus(v, Plus(w, u)) = Plus(Plus(v, w), u)
  BY <1>1, PlusAssoc
<1>7. Plus(w, v) = Plus(v, w)
  BY <1>1, PlusComm
<1>8. Plus(Plus(c, w), Plus(v, u)) = Plus(Plus(c, v), Plus(w, u))
  BY <1>4, <1>5, <1>6, <1>7
<1> QED
  BY <1>2, <1>3, <1>8 DEF w, v

\* What a position is worth at its cost, after more is bought at another price.
LEMMA BlendWorth ==
  ASSUME NEW a \in Lows, NEW x \in Lows, NEW m \in Nat, NEW t \in PosInt, NEW g \in {1, -1}
  PROVE  /\ Blend(m, a, t, x) \in Lows
         /\ Scale(g * m + g * t, Blend(m, a, t, x)) = Plus(Scale(g * m, a), Scale(g * t, x))
<1> DEFINE s == Plus(Scale(m, a), Scale(t, x))
           b == Over(s, m + t)
<1>1. m + t \in PosInt /\ m \in Int /\ t \in Int /\ g \in Int /\ m + t \in Int
  BY DEF PosInt
<1>2. Scale(m, a) \in Lows /\ Scale(t, x) \in Lows
  BY <1>1, LowsClosed
<1>3. s \in Lows
  BY <1>2, LowsClosed
<1>4. b \in Lows
  BY <1>1, <1>3, LowsClosed
<1>5. g * m + g * t = g * (m + t)
  BY <1>1
<1> HIDE DEF s
<1>6. Scale(g, Scale(m + t, b)) = Scale(g * (m + t), b)
  BY <1>1, <1>4, ScaleTimes
<1>7. Scale(m + t, b) = s
  BY <1>1, <1>3, ScaleOver
<1>8. Scale(g, s) = Plus(Scale(g, Scale(m, a)), Scale(g, Scale(t, x)))
  BY <1>1, <1>2, ScaleDist DEF s
<1>9. Scale(g, Scale(m, a)) = Scale(g * m, a) /\ Scale(g, Scale(t, x)) = Scale(g * t, x)
  BY <1>1, ScaleTimes
<1>10. b = Blend(m, a, t, x)
  BY DEF Blend, s
<1> QED
  BY <1>4, <1>5, <1>6, <1>7, <1>8, <1>9, <1>10

\* A fill: the money that came in is the fill's, the rest is what stays open at its cost.
LEMMA FillProfit ==
  ASSUME NEW p \in PositionMath, NEW c \in Lows, NEW s \in Int, s # 0, NEW x \in Lows
  PROVE  LET f == apply_fill(p, s, x)
         IN /\ f \in PositionMath /\ f.net_qty = p.net_qty + s
            /\ p.realized_pnl = Plus(c, Scale(p.net_qty, p.avg_cost))
               => f.realized_pnl = Plus(Minus(c, Scale(s, x)), Scale(f.net_qty, f.avg_cost))
<1> DEFINE n == p.net_qty
           a == p.avg_cost
           r == p.realized_pnl
           close == Min({Abs(s), Abs(n)})
           opens == n = 0 \/ Sign(n) = Sign(s)
           f == apply_fill(p, s, x)
<1>1. n \in Int /\ a \in Lows /\ r \in Lows /\ n + s \in Int /\ -s \in Int
  BY DEF PositionMath
<1>2. /\ f.net_qty = n + s
      /\ f.avg_cost = CASE opens                         -> Blend(Abs(n), a, Abs(s), x)
                        [] n + s = 0                     -> Zero
                        [] ~ opens /\ Abs(s) < Abs(n)    -> a
                        [] OTHER                         -> x
      /\ f.realized_pnl = IF opens THEN r ELSE Plus(r, Scale(close * Sign(n), Minus(x, a)))
      /\ f = [net_qty |-> f.net_qty, avg_cost |-> f.avg_cost, realized_pnl |-> f.realized_pnl]
  BY DEF apply_fill
<1> HIDE DEF f
<1>3. close = IF Abs(s) <= Abs(n) THEN Abs(s) ELSE Abs(n)
  BY <1>1, LeastOfTwo DEF Abs
<1> HIDE DEF close
<1> HIDE DEF n, a, r
<1>4. Minus(c, Scale(s, x)) = Plus(c, Scale(-s, x))
  BY MinusIs
<1> SUFFICES /\ f.avg_cost \in Lows /\ f.realized_pnl \in Lows
             /\ r = Plus(c, Scale(n, a))
                => f.realized_pnl = Plus(Plus(c, Scale(-s, x)), Scale(n + s, f.avg_cost))
  <2>1. f.avg_cost \in Lows /\ f.realized_pnl \in Lows => f \in PositionMath
    BY <1>1, <1>2 DEF PositionMath
  <2> QED
    BY <1>2, <1>4, <2>1 DEF f, n, a, r
<1>5. CASE opens
  <2> DEFINE m == Abs(n)
             t == Abs(s)
             g == Sign(s)
  <2>1. m \in Nat /\ t \in PosInt /\ g \in {1, -1} /\ n = g * m /\ s = g * t
    <3>1. n = 0 \/ (n > 0 /\ s > 0) \/ (n < 0 /\ s < 0)
      BY <1>1, <1>5 DEF Sign
    <3> QED
      BY <1>1, <3>1 DEF Abs, Sign, PosInt
  <2> DEFINE b == Blend(m, a, t, x)
  <2>11. n + s # 0
    BY <1>1, <1>5 DEF Sign
  <2>2. f.avg_cost = b /\ f.realized_pnl = r
    BY <1>2, <1>5, <2>11
  <2> HIDE DEF m, t, g
  <2>3. b \in Lows /\ Scale(n + s, b) = Plus(Scale(n, a), Scale(s, x))
    BY <1>1, <2>1, BlendWorth, ZenonT(40)
  <2> HIDE DEF b
  <2> DEFINE w == Scale(n, a)
             v == Scale(s, x)
             u == Scale(-s, x)
  <2>4. w \in Lows /\ v \in Lows /\ u \in Lows /\ Plus(w, v) \in Lows
    BY <1>1, LowsClosed
  <2>5. Plus(u, v) = Zero
    <3>1. (-s) + s = 0 /\ -s \in Int
      OBVIOUS
    <3> QED
      BY <3>1, ScaleSum, ScaleZero
  <2> HIDE DEF w, v, u
  <2>6. Plus(Plus(c, u), Plus(w, v)) = Plus(c, w)
    <3>1. Plus(Plus(c, u), Plus(w, v)) = Plus(c, Plus(u, Plus(w, v)))
      BY <2>4, PlusAssoc
    <3>2. Plus(w, v) = Plus(v, w)
      BY <2>4, PlusComm
    <3>3. Plus(u, Plus(v, w)) = Plus(Plus(u, v), w)
      BY <2>4, PlusAssoc
    <3> QED
      BY <2>4, <2>5, <3>1, <3>2, <3>3, PlusZero
  <2> QED
    BY <1>1, <2>2, <2>3, <2>6 DEF w, v, u
<1>6. CASE ~ opens
  <2>1. (n > 0 /\ s < 0) \/ (n < 0 /\ s > 0)
    BY <1>1, <1>6 DEF Sign
  <2> DEFINE k == close * Sign(n)
  <2>2. k = IF Abs(s) <= Abs(n) THEN -s ELSE n
    <3>1. Abs(s) * Sign(n) = -s /\ Abs(n) * Sign(n) = n
      BY <1>1, <2>1 DEF Abs, Sign
    <3> QED
      BY <1>3, <3>1
  <2>3. k \in Int
    BY <1>1, <2>2
  <2>4. f.realized_pnl = Plus(r, Scale(k, Minus(x, a)))
    BY <1>2, <1>6
  <2> HIDE DEF k
  <2>5. f.realized_pnl \in Lows
    BY <1>1, <2>3, <2>4, LowsClosed
  <2>6. r = Plus(c, Scale(n, a)) => f.realized_pnl = Plus(Plus(c, Scale(k, x)), Scale(n - k, a))
    BY <1>1, <2>3, <2>4, Realize
  <2>7. CASE n + s = 0
    <3>1. Abs(s) <= Abs(n) /\ n - k = 0 /\ k = -s
      BY <1>1, <2>1, <2>2, <2>7 DEF Abs
    <3>2. f.avg_cost = Zero
      <4>1. ~ Abs(s) < Abs(n)
        BY <1>1, <2>7 DEF Abs
      <4> QED
        BY <1>2, <1>6, <2>7, <4>1
    <3>3. Scale(0, a) = Zero /\ Scale(0, Zero) = Zero /\ Zero \in Lows
      BY <1>1, ScaleZero, LowsClosed
    <3> QED
      BY <2>5, <2>6, <2>7, <3>1, <3>2, <3>3
  <2>8. CASE n + s # 0 /\ Abs(s) < Abs(n)
    <3>1. n - k = n + s /\ k = -s
      BY <1>1, <2>2, <2>8 DEF Abs
    <3>2. f.avg_cost = a
      BY <1>2, <1>6, <2>8
    <3> QED
      BY <1>1, <2>5, <2>6, <3>1, <3>2
  <2>9. CASE n + s # 0 /\ ~ Abs(s) < Abs(n)
    <3>1. k = n /\ n - k = 0
      BY <1>1, <2>1, <2>2, <2>9 DEF Abs
    <3>2. f.avg_cost = x
      BY <1>2, <1>6, <2>9
    <3>3. Scale(0, a) = Zero /\ Scale(k, x) \in Lows /\ Scale(-s, x) \in Lows /\ Scale(n + s, x) \in Lows
      BY <1>1, <2>3, ScaleZero, LowsClosed
    <3>4. Plus(c, Scale(k, x)) \in Lows
      BY <3>3, LowsClosed
    <3>5. Plus(Plus(c, Scale(k, x)), Zero) = Plus(c, Scale(k, x))
      BY <3>4, PlusZero
    <3>6. Plus(Scale(-s, x), Scale(n + s, x)) = Scale(k, x)
      <4>1. (-s) + (n + s) = k
        BY <1>1, <3>1
      <4> QED
        BY <1>1, <4>1, ScaleSum
    <3>7. Plus(Plus(c, Scale(-s, x)), Scale(n + s, x)) = Plus(c, Scale(k, x))
      BY <3>3, <3>6, PlusAssoc
    <3> QED
      BY <2>5, <2>6, <3>1, <3>2, <3>3, <3>5, <3>7
  <2> QED
    BY <2>7, <2>8, <2>9
<1> QED
  BY <1>5, <1>6

\* What leaves a position at its cost takes no profit.
LEMMA ReduceProfit ==
  ASSUME NEW p \in PositionMath, NEW c \in Lows, NEW q \in Int
  PROVE  LET f == reduce_at_cost(p, q)
             g == IF p.net_qty >= 0 THEN 1 ELSE -1
         IN /\ f \in PositionMath /\ f.net_qty = p.net_qty - g * q
            /\ p.realized_pnl = Plus(c, Scale(p.net_qty, p.avg_cost))
               => f.realized_pnl = Plus(Plus(c, Scale(g * q, p.avg_cost)), Scale(f.net_qty, f.avg_cost))
<1> DEFINE n == p.net_qty
           a == p.avg_cost
           g == IF n >= 0 THEN 1 ELSE -1
           k == g * q
           f == reduce_at_cost(p, q)
<1>1. n \in Int /\ a \in Lows /\ p.realized_pnl \in Lows /\ g \in Int
  BY DEF PositionMath
<1>2. k \in Int /\ n - k \in Int
  BY <1>1
<1>31. f = [p EXCEPT !.net_qty = n - k, !.avg_cost = IF n - k = 0 THEN Zero ELSE a]
  BY DEF reduce_at_cost
<1>32. (IF n - k = 0 THEN Zero ELSE a) \in Lows
  BY <1>1, LowsClosed
<1> DEFINE av == IF n - k = 0 THEN Zero ELSE a
<1> HIDE DEF k, n, a, av, f
<1>33. \A y \in Int, z \in Lows :
         LET w == [p EXCEPT !.net_qty = y, !.avg_cost = z]
         IN w \in PositionMath /\ w.net_qty = y /\ w.avg_cost = z /\ w.realized_pnl = p.realized_pnl
  BY DEF PositionMath
<1>34. f = [p EXCEPT !.net_qty = n - k, !.avg_cost = av] /\ av \in Lows
  BY <1>31, <1>32 DEF av
<1>35. f \in PositionMath /\ f.net_qty = n - k /\ f.avg_cost = av /\ f.realized_pnl = p.realized_pnl
  BY <1>2, <1>33, <1>34
<1>3. f.net_qty = n - k /\ f.avg_cost = (IF n - k = 0 THEN Zero ELSE a) /\ f.realized_pnl = p.realized_pnl
  BY <1>35 DEF av
<1>4. f \in PositionMath
  BY <1>35
<1>5. Plus(Plus(c, Scale(k, a)), Scale(n - k, a)) = Plus(c, Scale(n, a))
  <2> HIDE DEF n, a, g, k, f
  <2>1. Scale(k, a) \in Lows /\ Scale(n - k, a) \in Lows
    BY <1>1, <1>2, LowsClosed
  <2>2. Plus(Plus(c, Scale(k, a)), Scale(n - k, a)) = Plus(c, Plus(Scale(k, a), Scale(n - k, a)))
    BY <2>1, PlusAssoc
  <2>3. k + (n - k) = n
    BY <1>1, <1>2
  <2>4. Plus(Scale(k, a), Scale(n - k, a)) = Scale(k + (n - k), a)
    BY <1>1, <1>2, ScaleSum
  <2> QED
    BY <2>2, <2>3, <2>4
<1>6. Scale(n - k, IF n - k = 0 THEN Zero ELSE a) = Scale(n - k, a)
  <2> HIDE DEF n, a, g, k, f
  <2>1. Scale(0, a) = Zero /\ Scale(0, Zero) = Zero
    BY <1>1, ScaleZero, LowsClosed
  <2> QED
    BY <2>1
<1>7. p.realized_pnl = Plus(c, Scale(n, a))
      => f.realized_pnl = Plus(Plus(c, Scale(k, a)), Scale(f.net_qty, f.avg_cost))
  BY <1>3, <1>5, <1>6
<1> QED
  BY <1>3, <1>4, <1>7 DEF f, k, n, a


-----------------------------------------------------------------------------
(* What the book holds                                                     *)

FillEvents == [order : Orders, qty : PosInt, price : Lows]

Postings == [stage : {"loaded"}, order : Orders, qty : PosInt, price : Lows, read : PositionMath,
             missing : BOOLEAN]

Splits == [stage : {"checked", "reduced", "loaded"}, order : Blocks, to : Portfolios, qty : PosInt,
           price : Lows, from : PositionMath, dest : PositionMath, missing : BOOLEAN]

BookTypes ==
  /\ positionRow \in [Portfolios -> PositionMath]
  /\ Opened \subseteq rows /\ rows \subseteq Portfolios
  /\ held \in [Portfolios -> {"free", "engine"} \cup Requests]
  /\ order \in [Orders -> [cum_qty : Nat, avg_px : Lows]]
  /\ fillLog \in Seq(FillEvents)
  /\ allocated \in [Orders -> Nat]
  /\ posting \in {NoWork} \cup Postings
  /\ request \in [Requests -> {NoWork} \cup Splits]
  /\ cash \in [Portfolios -> Lows]

LEMMA ReleaseTypes ==
  ASSUME held \in [Portfolios -> {"free", "engine"} \cup Requests], NEW who, Release(who)
  PROVE  held' \in [Portfolios -> {"free", "engine"} \cup Requests]
BY DEF Release

LEMMA LockTypes ==
  ASSUME held \in [Portfolios -> {"free", "engine"} \cup Requests], NEW p \in Portfolios,
         NEW who \in {"free", "engine"} \cup Requests, Lock(p, who)
  PROVE  held' \in [Portfolios -> {"free", "engine"} \cup Requests]
BY DEF Lock

LEMMA PostingIs ==
  ASSUME BookTypes, posting.stage = "loaded"
  PROVE  /\ posting \in Postings /\ posting.order \in Orders /\ posting.qty \in PosInt /\ posting.price \in Lows
         /\ posting.read \in PositionMath
         /\ Portfolio[posting.order] \in Portfolios /\ Side[posting.order] \in {1, -1}
         /\ Side[posting.order] * posting.qty \in Int /\ Side[posting.order] * posting.qty # 0
<1>1. posting \in Postings
  BY DEF BookTypes, NoWork
<1>2. posting.order \in Orders /\ posting.qty \in PosInt /\ posting.price \in Lows /\ posting.read \in PositionMath
  BY <1>1 DEF Postings
<1>3. Portfolio[posting.order] \in Portfolios /\ Side[posting.order] \in {1, -1}
  BY <1>2, BookAssumption
<1>4. \A s \in {1, -1}, q \in PosInt : s * q \in Int /\ s * q # 0
  BY DEF PosInt
<1> QED
  BY <1>1, <1>2, <1>3, <1>4

LEMMA SplitIs ==
  ASSUME BookTypes, NEW r \in Requests, request[r] # NoWork
  PROVE  /\ request[r] \in Splits /\ request[r].order \in Blocks /\ request[r].order \in Orders
         /\ request[r].to \in Portfolios /\ request[r].qty \in PosInt /\ request[r].price \in Lows
         /\ request[r].from \in PositionMath /\ request[r].dest \in PositionMath
         /\ Portfolio[request[r].order] \in Portfolios /\ Side[request[r].order] \in {1, -1}
         /\ Side[request[r].order] * request[r].qty \in Int /\ Side[request[r].order] * request[r].qty # 0
<1>1. request[r] \in Splits
  BY DEF BookTypes
<1>2. /\ request[r].order \in Blocks /\ request[r].to \in Portfolios /\ request[r].qty \in PosInt
      /\ request[r].price \in Lows /\ request[r].from \in PositionMath /\ request[r].dest \in PositionMath
  BY <1>1 DEF Splits
<1>3. request[r].order \in Orders
  BY <1>2, BookAssumption
<1>4. Portfolio[request[r].order] \in Portfolios /\ Side[request[r].order] \in {1, -1}
  BY <1>3, BookAssumption
<1>5. \A s \in {1, -1}, q \in PosInt : s * q \in Int /\ s * q # 0
  BY DEF PosInt
<1> QED
  BY <1>1, <1>2, <1>3, <1>4, <1>5

LEMMA FillIs ==
  ASSUME NEW p \in PositionMath, NEW s \in Int, s # 0, NEW x \in Lows
  PROVE  apply_fill(p, s, x) \in PositionMath /\ apply_fill(p, s, x).net_qty = p.net_qty + s
<1>1. Zero \in Lows
  BY WholeLow DEF Zero
<1> QED
  BY <1>1, FillProfit

LEMMA ReduceIs ==
  ASSUME NEW p \in PositionMath, NEW q \in Int
  PROVE  reduce_at_cost(p, q) \in PositionMath
<1>1. Zero \in Lows
  BY WholeLow DEF Zero
<1> QED
  BY <1>1, ReduceProfit

LEMMA BookTypesInit == BookInit => BookTypes
<1> SUFFICES ASSUME BookInit PROVE BookTypes
  OBVIOUS
<1>1. Zero \in Lows
  BY WholeLow DEF Zero
<1>2. FLAT \in PositionMath
  BY <1>1 DEF FLAT, PositionMath
<1>3. [cum_qty |-> 0, avg_px |-> Zero] \in [cum_qty : Nat, avg_px : Lows]
  BY <1>1
<1> QED
  BY <1>1, <1>2, <1>3, BookAssumption DEF BookInit, BookTypes

LEMMA LoadFillTypes == BookTypes /\ LoadFill => BookTypes'
<1> SUFFICES ASSUME BookTypes, LoadFill PROVE BookTypes'
  OBVIOUS
<1>1. PICK o \in Orders, q \in FillQuantities, px \in FillPrices :
        /\ Lock(Portfolio[o], "engine")
        /\ posting' = [stage |-> "loaded", order |-> o, qty |-> q, price |-> <<px, 1>>,
                       read |-> positionRow[Portfolio[o]], missing |-> Portfolio[o] \notin rows]
  BY DEF LoadFill
<1>2. Portfolio[o] \in Portfolios /\ q \in PosInt /\ px \in Int
  BY BookAssumption DEF PosInt
<1>3. <<px, 1>> \in Lows /\ positionRow[Portfolio[o]] \in PositionMath
  BY <1>2, WholeLow DEF BookTypes
<1>4. posting' \in Postings
  BY <1>1, <1>2, <1>3 DEF Postings
<1>5. held' \in [Portfolios -> {"free", "engine"} \cup Requests]
  BY <1>1, <1>2, LockTypes DEF BookTypes
<1> QED
  BY <1>4, <1>5 DEF LoadFill, BookTypes

LEMMA CommitFillTypes == BookTypes /\ CommitFill => BookTypes'
<1> SUFFICES ASSUME BookTypes, CommitFill PROVE BookTypes'
  OBVIOUS
<1> DEFINE o == posting.order
           p == Portfolio[o]
           s == Side[o] * posting.qty
<1>1. posting.stage = "loaded"
  BY DEF CommitFill
<1>2. /\ o \in Orders /\ posting.qty \in PosInt /\ posting.price \in Lows /\ posting.read \in PositionMath
      /\ p \in Portfolios /\ s \in Int /\ s # 0
  BY <1>1, PostingIs
<1> DEFINE f == apply_fill(posting.read, s, posting.price)
           b == Blend(order[o].cum_qty, order[o].avg_px, posting.qty, posting.price)
           c == Minus(cash[p], Scale(s, posting.price))
<1>3. f \in PositionMath
  BY <1>2, FillIs
<1>4. b \in Lows /\ order[o].cum_qty + posting.qty \in Nat
  <2>1. order[o].cum_qty \in Nat /\ order[o].avg_px \in Lows
    BY <1>2 DEF BookTypes
  <2>2. b \in Lows
    <3>1. 1 \in {1, -1}
      OBVIOUS
    <3> QED
      BY <1>2, <2>1, <3>1, BlendWorth
  <2> QED
    BY <1>2, <2>1, <2>2 DEF PosInt
<1>5. c \in Lows
  <2>1. Scale(s, posting.price) \in Lows /\ cash[p] \in Lows
    BY <1>2, LowsClosed DEF BookTypes
  <2> QED
    BY <1>2, <2>1, LowsClosed
<1>6. /\ positionRow' = [positionRow EXCEPT ![p] = f]
      /\ rows' = rows \cup {p}
      /\ order' = [order EXCEPT ![o] = [cum_qty |-> order[o].cum_qty + posting.qty, avg_px |-> b]]
      /\ fillLog' = Append(fillLog, [order |-> o, qty |-> posting.qty, price |-> posting.price])
      /\ cash' = [cash EXCEPT ![p] = c]
      /\ posting' = NoWork /\ Release("engine") /\ UNCHANGED <<allocated, request>>
  BY DEF CommitFill
<1> HIDE DEF o, p, s, f, b, c
<1>7. [cum_qty |-> order[o].cum_qty + posting.qty, avg_px |-> b] \in [cum_qty : Nat, avg_px : Lows]
  BY <1>4
<1>8. [order |-> o, qty |-> posting.qty, price |-> posting.price] \in FillEvents
  BY <1>2 DEF FillEvents
<1>9. held' \in [Portfolios -> {"free", "engine"} \cup Requests]
  BY <1>6, ReleaseTypes DEF BookTypes
<1>10. fillLog' \in Seq(FillEvents)
  BY <1>6, <1>8 DEF BookTypes
<1>11. positionRow' \in [Portfolios -> PositionMath] /\ cash' \in [Portfolios -> Lows]
  BY <1>3, <1>5, <1>6 DEF BookTypes
<1>12. order' \in [Orders -> [cum_qty : Nat, avg_px : Lows]]
  BY <1>6, <1>7 DEF BookTypes
<1> QED
  BY <1>2, <1>6, <1>9, <1>10, <1>11, <1>12 DEF BookTypes

LEMMA SplitTypes ==
  ASSUME BookTypes, NEW r \in Requests
  PROVE  /\ CheckAllocation(r) => BookTypes'
         /\ ReduceSource(r) => BookTypes'
         /\ LoadTarget(r) => BookTypes'
         /\ CommitAllocation(r) => BookTypes'
         /\ AbortAllocation(r) => BookTypes'
<1>1. ASSUME CheckAllocation(r) PROVE BookTypes'
  <2>1. PICK o \in Blocks, to \in Portfolios, q \in FillQuantities :
          request' = [request EXCEPT ![r] =
            [stage |-> "checked", order |-> o, to |-> to, qty |-> q,
             price |-> order[o].avg_px, from |-> FLAT, dest |-> FLAT, missing |-> FALSE]]
    BY <1>1 DEF CheckAllocation
  <2>2. o \in Orders /\ q \in PosInt
    BY BookAssumption DEF PosInt
  <2>3. Zero \in Lows
    BY WholeLow DEF Zero
  <2>4. FLAT \in PositionMath /\ order[o].avg_px \in Lows
    BY <2>2, <2>3 DEF FLAT, PositionMath, BookTypes
  <2>5. [stage |-> "checked", order |-> o, to |-> to, qty |-> q,
         price |-> order[o].avg_px, from |-> FLAT, dest |-> FLAT, missing |-> FALSE] \in Splits
    BY <2>2, <2>4 DEF Splits
  <2>6. request' \in [Requests -> {NoWork} \cup Splits]
    BY <2>1, <2>5 DEF BookTypes
  <2> QED
    BY <1>1, <2>6 DEF CheckAllocation, BookTypes
<1>2. ASSUME ReduceSource(r) PROVE BookTypes'
  <2> DEFINE t == request[r]
             p == Portfolio[t.order]
             f == reduce_at_cost(positionRow[p], t.qty)
  <2>1. t # NoWork
    BY <1>2 DEF ReduceSource, NoWork
  <2>2. t \in Splits /\ p \in Portfolios /\ t.qty \in Int
    BY <2>1, SplitIs DEF PosInt
  <2>3. f \in PositionMath
    BY <2>2, ReduceIs DEF BookTypes
  <2>4. request' = [request EXCEPT ![r].stage = "reduced", ![r].from = f] /\ Lock(p, r)
    BY <1>2 DEF ReduceSource
  <2> HIDE DEF t, p, f
  <2>5. \A u \in Splits : [u EXCEPT !.stage = "reduced", !.from = f] \in Splits
    BY <2>3 DEF Splits
  <2>6. request' = [request EXCEPT ![r] = [t EXCEPT !.stage = "reduced", !.from = f]]
    BY <2>4 DEF BookTypes, t
  <2>7. request' \in [Requests -> {NoWork} \cup Splits]
    BY <2>2, <2>5, <2>6 DEF BookTypes
  <2>8. held' \in [Portfolios -> {"free", "engine"} \cup Requests]
    BY <2>2, <2>4, LockTypes DEF BookTypes
  <2> QED
    BY <1>2, <2>7, <2>8 DEF ReduceSource, BookTypes
<1>3. ASSUME LoadTarget(r) PROVE BookTypes'
  <2> DEFINE t == request[r]
             read == IF t.to = Portfolio[t.order] THEN t.from ELSE positionRow[t.to]
             f == apply_fill(read, Side[t.order] * t.qty, t.price)
  <2>1. t # NoWork
    BY <1>3 DEF LoadTarget, NoWork
  <2>2. /\ t \in Splits /\ t.to \in Portfolios /\ t.from \in PositionMath /\ t.price \in Lows
        /\ Side[t.order] * t.qty \in Int /\ Side[t.order] * t.qty # 0
    BY <2>1, SplitIs
  <2>3. read \in PositionMath
    BY <2>2 DEF BookTypes
  <2>4. f \in PositionMath
    BY <2>2, <2>3, FillIs
  <2> DEFINE m == t.to \notin rows
  <2>5. request' = [request EXCEPT ![r].stage = "loaded", ![r].missing = m, ![r].dest = f] /\ Lock(t.to, r)
    BY <1>3 DEF LoadTarget
  <2>10. m \in BOOLEAN
    OBVIOUS
  <2> HIDE DEF t, read, f, m
  <2>6. \A u \in Splits : [u EXCEPT !.stage = "loaded", !.missing = m, !.dest = f] \in Splits
    BY <2>4, <2>10 DEF Splits
  <2>7. request' = [request EXCEPT ![r] = [t EXCEPT !.stage = "loaded", !.missing = m, !.dest = f]]
    BY <2>5 DEF BookTypes, t
  <2>8. request' \in [Requests -> {NoWork} \cup Splits]
    BY <2>2, <2>6, <2>7 DEF BookTypes
  <2>9. held' \in [Portfolios -> {"free", "engine"} \cup Requests]
    BY <2>2, <2>5, LockTypes DEF BookTypes
  <2> QED
    BY <1>3, <2>8, <2>9 DEF LoadTarget, BookTypes
<1>4. ASSUME CommitAllocation(r) PROVE BookTypes'
  <2> DEFINE t == request[r]
             p == Portfolio[t.order]
             s == Side[t.order] * t.qty
             g == (IF positionRow[p].net_qty >= 0 THEN 1 ELSE -1) * t.qty
             out == Scale(g, positionRow[p].avg_cost)
             paid == [cash EXCEPT ![p] = Plus(cash[p], out)]
             c == Minus(paid[t.to], Scale(s, t.price))
  <2>1. t # NoWork
    BY <1>4 DEF CommitAllocation, NoWork
  <2>2. /\ t.order \in Orders /\ t.to \in Portfolios /\ t.from \in PositionMath /\ t.dest \in PositionMath
        /\ t.price \in Lows /\ t.qty \in PosInt /\ p \in Portfolios /\ s \in Int
    BY <2>1, SplitIs
  <2>3. out \in Lows /\ cash[p] \in Lows
    <3>1. positionRow[p] \in PositionMath /\ g \in Int
      BY <2>2 DEF BookTypes, PosInt
    <3> QED
      BY <2>2, <3>1, LowsClosed DEF PositionMath, BookTypes
  <2>4. Plus(cash[p], out) \in Lows
    BY <2>3, LowsClosed
  <2>5. paid \in [Portfolios -> Lows]
    BY <2>4 DEF BookTypes
  <2>6. c \in Lows
    <3>1. Scale(s, t.price) \in Lows /\ paid[t.to] \in Lows
      BY <2>2, <2>5, LowsClosed
    <3> QED
      BY <2>2, <3>1, LowsClosed
  <2>7. /\ positionRow' = [positionRow EXCEPT ![p] = t.from, ![t.to] = t.dest]
        /\ rows' = rows \cup {t.to}
        /\ allocated' = [allocated EXCEPT ![t.order] = allocated[t.order] + t.qty]
        /\ cash' = [paid EXCEPT ![t.to] = c]
        /\ request' = [request EXCEPT ![r] = NoWork] /\ Release(r)
        /\ UNCHANGED <<order, fillLog, posting>>
    BY <1>4 DEF CommitAllocation
  <2> HIDE DEF t, p, s, g, out, paid, c
  <2>8. allocated' \in [Orders -> Nat]
    BY <2>2, <2>7 DEF BookTypes, PosInt
  <2>9. positionRow' \in [Portfolios -> PositionMath] /\ cash' \in [Portfolios -> Lows]
    BY <2>2, <2>5, <2>6, <2>7 DEF BookTypes
  <2>10. held' \in [Portfolios -> {"free", "engine"} \cup Requests]
    BY <2>7, ReleaseTypes DEF BookTypes
  <2>11. request' \in [Requests -> {NoWork} \cup Splits]
    BY <2>7 DEF BookTypes
  <2> QED
    BY <2>2, <2>7, <2>8, <2>9, <2>10, <2>11 DEF BookTypes
<1>5. ASSUME AbortAllocation(r) PROVE BookTypes'
  <2>1. request' \in [Requests -> {NoWork} \cup Splits] /\ Release(r)
    BY <1>5 DEF BookTypes, AbortAllocation
  <2>2. held' \in [Portfolios -> {"free", "engine"} \cup Requests]
    BY <2>1, ReleaseTypes DEF BookTypes
  <2> QED
    BY <1>5, <2>1, <2>2 DEF BookTypes, AbortAllocation
<1> QED
  BY <1>1, <1>2, <1>3, <1>4, <1>5

LEMMA BookTypesStep == BookTypes /\ [BookNext]_bookVars => BookTypes'
<1> SUFFICES ASSUME BookTypes, [BookNext]_bookVars PROVE BookTypes'
  OBVIOUS
<1>1. CASE LoadFill
  BY <1>1, LoadFillTypes
<1>2. CASE CommitFill
  BY <1>2, CommitFillTypes
<1>3. CASE AbortFill
  <2>1. held' \in [Portfolios -> {"free", "engine"} \cup Requests]
    BY <1>3, ReleaseTypes DEF BookTypes, AbortFill
  <2> QED
    BY <1>3, <2>1 DEF BookTypes, AbortFill
<1>4. CASE \E r \in Requests : \/ CheckAllocation(r) \/ ReduceSource(r) \/ LoadTarget(r)
                               \/ CommitAllocation(r) \/ AbortAllocation(r)
  BY <1>4, SplitTypes
<1>5. CASE UNCHANGED bookVars
  BY <1>5 DEF BookTypes, bookVars
<1> QED
  BY <1>1, <1>2, <1>3, <1>4, <1>5 DEF BookNext


-----------------------------------------------------------------------------
(* Rebuild                                                                 *)

\* f holds what replaying the events makes of p, on the way.
Replays(f, p, evs) ==
  /\ f \in [0..Len(evs) -> PositionMath] /\ f[0] = FLAT
  /\ \A i \in 1..Len(evs) : f[i] = Replay(p, evs[i], f[i - 1])

RebuildOf(p, evs) ==
  LET acc[i \in 0..Len(evs)] == IF i = 0 THEN FLAT ELSE Replay(p, evs[i], acc[i - 1])
  IN  acc[Len(evs)]

LEMMA FlatIs == FLAT \in PositionMath
<1>1. Zero \in Lows
  BY WholeLow DEF Zero
<1> QED
  BY <1>1 DEF FLAT, PositionMath

LEMMA ReplayIs ==
  ASSUME NEW p, NEW e \in FillEvents, NEW was \in PositionMath
  PROVE  Replay(p, e, was) \in PositionMath
<1>1. e.order \in Orders /\ e.qty \in PosInt /\ e.price \in Lows /\ Side[e.order] \in {1, -1}
  BY BookAssumption DEF FillEvents
<1>2. Side[e.order] * e.qty \in Int /\ Side[e.order] * e.qty # 0
  <2>1. \A s \in {1, -1}, q \in PosInt : s * q \in Int /\ s * q # 0
    BY DEF PosInt
  <2> QED
    BY <1>1, <2>1
<1>3. apply_fill(was, Side[e.order] * e.qty, e.price) \in PositionMath
  BY <1>1, <1>2, FillIs
<1> QED
  BY <1>3 DEF Replay

LEMMA ReplaysExist ==
  ASSUME NEW p, NEW evs \in Seq(FillEvents)
  PROVE  \E f : Replays(f, p, evs)
<1> DEFINE n == Len(evs)
           F == [i \in 1..n |-> [was \in PositionMath |-> Replay(p, evs[i], was)]]
<1>1. n \in Nat /\ \A i \in 1..n : evs[i] \in FillEvents
  OBVIOUS
<1>2. F \in Steps(PositionMath, n)
  <2>1. \A i \in 1..n : [was \in PositionMath |-> Replay(p, evs[i], was)] \in [PositionMath -> PositionMath]
    BY <1>1, ReplayIs
  <2> QED
    BY <2>1 DEF Steps
<1>3. \A i \in 1..n : \A was \in PositionMath : F[i][was] = Replay(p, evs[i], was)
  OBVIOUS
<1> HIDE DEF F
<1>4. PICK f : FoldOf(f, PositionMath, FLAT, n, F)
  BY <1>1, <1>2, FlatIs, FoldExists
<1>5. \A i \in 1..n : f[i - 1] \in PositionMath
  BY <1>1, <1>4 DEF FoldOf
<1> QED
  BY <1>3, <1>4, <1>5 DEF FoldOf, Replays

LEMMA RebuildIs ==
  ASSUME NEW p, NEW evs \in Seq(FillEvents), NEW f, Replays(f, p, evs)
  PROVE  RebuildOf(p, evs) = f[Len(evs)]
<1> DEFINE n == Len(evs)
           Body(g) == [i \in 0..n |-> IF i = 0 THEN FLAT ELSE Replay(p, evs[i], g[i - 1])]
           acc == CHOOSE g : g = Body(g)
<1>1. n \in Nat
  OBVIOUS
<1>2. f = Body(f)
  BY <1>1 DEF Replays
<1>3. acc = Body(acc)
  BY <1>2
<1>4. RebuildOf(p, evs) = acc[n]
  BY DEF RebuildOf
<1> HIDE DEF acc, n
<1>5. \A g : g = Body(g) => \A i \in 0..n : g[i] = IF i = 0 THEN FLAT ELSE Replay(p, evs[i], g[i - 1])
  <2> SUFFICES ASSUME NEW g, g = Body(g), NEW i \in 0..n
               PROVE  g[i] = IF i = 0 THEN FLAT ELSE Replay(p, evs[i], g[i - 1])
    OBVIOUS
  <2>1. Body(g)[i] = IF i = 0 THEN FLAT ELSE Replay(p, evs[i], g[i - 1])
    OBVIOUS
  <2> HIDE DEF Body
  <2> QED
    BY <2>1
<1> HIDE DEF Body
<1>6. Alike(acc, f, n)
  <2>1. \A i \in 0..n : acc[i] = IF i = 0 THEN FLAT ELSE Replay(p, evs[i], acc[i - 1])
    BY <1>3, <1>5
  <2>2. \A i \in 0..n : f[i] = IF i = 0 THEN FLAT ELSE Replay(p, evs[i], f[i - 1])
    BY <1>2, <1>5
  <2> QED
    BY <1>1, <2>1, <2>2 DEF Alike
<1>7. \A i \in 0..n : acc[i] = f[i]
  BY <1>1, <1>6, FoldUnique
<1> QED
  BY <1>1, <1>4, <1>7 DEF n

LEMMA RebuildEmpty ==
  ASSUME NEW p
  PROVE  RebuildOf(p, <<>>) = FLAT
<1> DEFINE f == [i \in 0..0 |-> FLAT]
<1>1. Len(<<>>) = 0 /\ 1..0 = {} /\ <<>> \in Seq(FillEvents)
  OBVIOUS
<1>2. Replays(f, p, <<>>) /\ f[0] = FLAT
  BY <1>1, FlatIs DEF Replays
<1> HIDE DEF f
<1> QED
  BY <1>1, <1>2, RebuildIs

\* One more event is applied to what the events before it made.
LEMMA RebuildAppend ==
  ASSUME NEW p, NEW evs \in Seq(FillEvents), NEW e \in FillEvents
  PROVE  RebuildOf(p, Append(evs, e)) = Replay(p, e, RebuildOf(p, evs))
<1> DEFINE n == Len(evs)
           next == Append(evs, e)
<1>1. /\ n \in Nat /\ Len(next) = n + 1 /\ next[n + 1] = e /\ next \in Seq(FillEvents)
      /\ \A i \in 1..n : next[i] = evs[i]
  OBVIOUS
<1>2. PICK f : Replays(f, p, evs)
  BY ReplaysExist
<1>3. RebuildOf(p, evs) = f[n]
  BY <1>2, RebuildIs
<1>4. f[n] \in PositionMath /\ f[0] = FLAT /\ \A i \in 1..n : f[i] = Replay(p, next[i], f[i - 1])
  BY <1>1, <1>2 DEF Replays
<1>5. Replay(p, e, f[n]) \in PositionMath
  BY <1>4, ReplayIs
<1> DEFINE g == [i \in 0..(n + 1) |-> IF i = n + 1 THEN Replay(p, e, f[n]) ELSE f[i]]
<1>6. Replays(g, p, next)
  <2>1. g \in [0..(n + 1) -> PositionMath]
    BY <1>1, <1>2, <1>5 DEF Replays
  <2>2. g[0] = FLAT
    BY <1>1, <1>4
  <2>3. ASSUME NEW i \in 1..(n + 1) PROVE g[i] = Replay(p, next[i], g[i - 1])
    <3>1. g[i - 1] = f[i - 1]
      BY <1>1
    <3>2. CASE i = n + 1
      <4>1. i - 1 = n /\ g[i] = Replay(p, e, f[n]) /\ next[i] = e
        BY <1>1, <3>2
      <4> QED
        BY <3>1, <4>1
    <3>3. CASE i # n + 1
      <4>1. i \in 1..n /\ g[i] = f[i]
        BY <1>1, <3>3
      <4> QED
        BY <1>4, <3>1, <4>1
    <3> QED
      BY <3>2, <3>3
  <2> HIDE DEF g, next
  <2> QED
    BY <1>1, <2>1, <2>2, <2>3 DEF Replays
<1>7. g[n + 1] = Replay(p, e, f[n])
  BY <1>1
<1> HIDE DEF g, next, n
<1>8. RebuildOf(p, next) = g[n + 1]
  BY <1>1, <1>6, RebuildIs
<1> QED
  BY <1>3, <1>7, <1>8 DEF next

-----------------------------------------------------------------------------
(* Until the first allocation, the rows are what the log makes of them, and *)
(* the engine's transaction works on the row as it is.                      *)

RebuildInv ==
  (\A o \in Orders : allocated[o] = 0) =>
    /\ \A p \in Portfolios : positionRow[p] = RebuildOf(p, fillLog)
    /\ posting.stage = "loaded" => posting.read = positionRow[Portfolio[posting.order]]

LEMMA RebuildInvInit == BookInit => RebuildInv
<1> SUFFICES ASSUME BookInit PROVE RebuildInv
  OBVIOUS
<1>1. posting.stage # "loaded"
  BY DEF BookInit, NoWork
<1>2. \A p \in Portfolios : positionRow[p] = FLAT /\ fillLog = <<>>
  BY DEF BookInit
<1> QED
  BY <1>1, <1>2, RebuildEmpty DEF RebuildInv

LEMMA RebuildInvStep == BookTypes /\ RebuildInv /\ [BookNext]_bookVars => RebuildInv'
<1> SUFFICES ASSUME BookTypes, RebuildInv, [BookNext]_bookVars PROVE RebuildInv'
  OBVIOUS
<1>1. CASE LoadFill
  <2>1. PICK o \in Orders, q \in FillQuantities, px \in FillPrices :
          posting' = [stage |-> "loaded", order |-> o, qty |-> q, price |-> <<px, 1>>,
                      read |-> positionRow[Portfolio[o]], missing |-> Portfolio[o] \notin rows]
    BY <1>1 DEF LoadFill
  <2>2. positionRow' = positionRow /\ fillLog' = fillLog /\ allocated' = allocated
    BY <1>1 DEF LoadFill
  <2>3. posting'.read = positionRow'[Portfolio[posting'.order]]
    BY <2>1, <2>2
  <2> QED
    BY <2>2, <2>3 DEF RebuildInv
<1>2. CASE CommitFill
  <2> DEFINE o == posting.order
             p == Portfolio[o]
             s == Side[o] * posting.qty
             e == [order |-> o, qty |-> posting.qty, price |-> posting.price]
  <2>1. posting.stage = "loaded"
    BY <1>2 DEF CommitFill
  <2>2. p \in Portfolios /\ e \in FillEvents
    BY <2>1, PostingIs DEF FillEvents
  <2>3. /\ positionRow' = [positionRow EXCEPT ![p] = apply_fill(posting.read, s, posting.price)]
        /\ fillLog' = Append(fillLog, e) /\ allocated' = allocated /\ posting' = NoWork
    BY <1>2 DEF CommitFill
  <2>4. posting'.stage # "loaded"
    BY <2>3 DEF NoWork
  <2>5. ASSUME \A x \in Orders : allocated'[x] = 0, NEW x \in Portfolios
        PROVE  positionRow'[x] = RebuildOf(x, fillLog')
    <3>1. /\ \A y \in Portfolios : positionRow[y] = RebuildOf(y, fillLog)
          /\ posting.read = positionRow[p]
      BY <2>1, <2>3, <2>5 DEF RebuildInv
    <3>2. RebuildOf(x, fillLog') = Replay(x, e, positionRow[x])
      BY <2>2, <2>3, <3>1, RebuildAppend DEF BookTypes
    <3>3. Replay(x, e, positionRow[x]) = IF p = x THEN apply_fill(positionRow[x], s, posting.price) ELSE positionRow[x]
      BY DEF Replay
    <3>4. positionRow'[x] = IF p = x THEN apply_fill(posting.read, s, posting.price) ELSE positionRow[x]
      BY <2>2, <2>3 DEF BookTypes
    <3> QED
      BY <3>1, <3>2, <3>3, <3>4
  <2> QED
    BY <2>4, <2>5 DEF RebuildInv
<1>3. CASE AbortFill
  <2>1. posting'.stage # "loaded" /\ positionRow' = positionRow /\ fillLog' = fillLog /\ allocated' = allocated
    BY <1>3 DEF AbortFill, NoWork
  <2> QED
    BY <2>1 DEF RebuildInv
<1>4. ASSUME NEW r \in Requests, CommitAllocation(r) PROVE RebuildInv'
  <2>1. request[r] # NoWork
    BY <1>4 DEF CommitAllocation, NoWork
  <2>2. request[r].order \in Orders /\ request[r].qty \in PosInt
    BY <2>1, SplitIs
  <2>3. allocated'[request[r].order] = allocated[request[r].order] + request[r].qty
    BY <1>4, <2>2 DEF CommitAllocation, BookTypes
  <2>4. allocated'[request[r].order] # 0
    BY <2>2, <2>3 DEF BookTypes, PosInt
  <2> QED
    BY <2>2, <2>4 DEF RebuildInv
<1>5. ASSUME NEW r \in Requests,
             CheckAllocation(r) \/ ReduceSource(r) \/ LoadTarget(r) \/ AbortAllocation(r)
      PROVE  RebuildInv'
  <2>1. positionRow' = positionRow /\ fillLog' = fillLog /\ allocated' = allocated /\ posting' = posting
    BY <1>5 DEF CheckAllocation, ReduceSource, LoadTarget, AbortAllocation
  <2> QED
    BY <2>1 DEF RebuildInv
<1>6. CASE UNCHANGED bookVars
  BY <1>6 DEF RebuildInv, bookVars
<1> QED
  BY <1>1, <1>2, <1>3, <1>4, <1>5, <1>6 DEF BookNext

\* Replaying the log gives the positions the engine kept, as long as nothing
\* was allocated: whatever fills, aborts and requests under way there are, and
\* whether the rows exist or not (positions.rs, rebuild_positions).
THEOREM RebuildSafe == BookSpec => []RebuildAgrees
<1>1. BookInit => BookTypes /\ RebuildInv
  BY BookTypesInit, RebuildInvInit
<1>2. (BookTypes /\ RebuildInv) /\ [BookNext]_bookVars => (BookTypes /\ RebuildInv)'
  BY BookTypesStep, RebuildInvStep
<1>3. BookTypes /\ RebuildInv => RebuildAgrees
  BY DEF RebuildInv, RebuildAgrees, Rebuild, RebuildOf
<1> QED
  BY <1>1, <1>2, <1>3, PTL DEF BookSpec


-----------------------------------------------------------------------------
(* Who holds a row changes it, and who found none inserts it.               *)

\* A row once there stays; where there is none the position is flat.  What was
\* traded has a row, so the source of an allocation is always locked.
RowsThere ==
  /\ \A p \in Portfolios \ rows : positionRow[p] = FLAT
  /\ \A o \in Orders : order[o].cum_qty > 0 => Portfolio[o] \in rows
  /\ \A r \in Requests : request[r] # NoWork => Portfolio[request[r].order] \in rows

\* The engine's transaction works on the row as it is, which it holds, or it found
\* none.
PostingReads ==
  posting.stage = "loaded" =>
    IF posting.missing THEN posting.read = FLAT
    ELSE /\ held[Portfolio[posting.order]] = "engine"
         /\ posting.read = positionRow[Portfolio[posting.order]]

\* So does a request, whose source is there.
SourceReads(r) ==
  request[r].stage \in {"reduced", "loaded"} =>
    /\ held[Portfolio[request[r].order]] = r
    /\ request[r].from = reduce_at_cost(positionRow[Portfolio[request[r].order]], request[r].qty)

TargetReads(r) ==
  request[r].stage = "loaded" =>
    LET t == request[r]
        read == IF t.to = Portfolio[t.order] THEN t.from ELSE positionRow[t.to]
    IN  IF t.missing THEN t.to # Portfolio[t.order] /\ t.dest = apply_fill(FLAT, Side[t.order] * t.qty, t.price)
        ELSE held[t.to] = r /\ t.dest = apply_fill(read, Side[t.order] * t.qty, t.price)

LocksHeld ==
  RowsThere /\ PostingReads /\ \A r \in Requests : SourceReads(r) /\ TargetReads(r)

LEMMA OthersNotEngine ==
  ASSUME NEW r \in Requests
  PROVE  r # "engine" /\ r # "free"
BY BookAssumption

LEMMA LockTakes ==
  ASSUME BookTypes, NEW p \in Portfolios, NEW who \in {"engine"} \cup Requests, Lock(p, who)
  PROVE  /\ p \in rows => held'[p] = who /\ held[p] \in {"free", who}
         /\ p \notin rows => held'[p] = held[p]
         /\ \A x \in Portfolios : x # p => held'[x] = held[x]
BY DEF BookTypes, Lock

LEMMA ReleaseLeaves ==
  ASSUME NEW who, Release(who), NEW x \in Portfolios, held[x] # who
  PROVE  held'[x] = held[x]
BY DEF Release

LEMMA SplitStays ==
  ASSUME BookTypes, NEW r \in Requests, SourceReads(r), TargetReads(r), request'[r] = request[r],
         \A p \in Portfolios : held[p] = r => held'[p] = r /\ positionRow'[p] = positionRow[p]
  PROVE  SourceReads(r)' /\ TargetReads(r)'
<1> DEFINE t == request[r]
           p == Portfolio[t.order]
<1>1. t.stage \in {"reduced", "loaded"} => p \in Portfolios /\ t.to \in Portfolios
  <2>1. t.stage \in {"reduced", "loaded"} => t # NoWork
    BY DEF NoWork
  <2> QED
    BY <2>1, SplitIs
<1>2. t.stage \in {"reduced", "loaded"} => held[p] = r /\ t.from = reduce_at_cost(positionRow[p], t.qty)
  BY DEF SourceReads
<1>3. t.stage = "loaded" /\ ~ t.missing =>
        /\ held[t.to] = r
        /\ t.dest = apply_fill(IF t.to = p THEN t.from ELSE positionRow[t.to], Side[t.order] * t.qty, t.price)
  BY DEF TargetReads
<1>4. t.stage \in {"reduced", "loaded"} => held'[p] = r /\ positionRow'[p] = positionRow[p]
  BY <1>1, <1>2
<1>5. t.stage = "loaded" /\ ~ t.missing => held'[t.to] = r /\ positionRow'[t.to] = positionRow[t.to]
  BY <1>1, <1>3
<1>6. SourceReads(r)'
  <2> HIDE DEF p
  <2>1. t.stage \in {"reduced", "loaded"} => held'[p] = r /\ t.from = reduce_at_cost(positionRow'[p], t.qty)
    BY <1>2, <1>4
  <2> QED
    BY <2>1 DEF SourceReads, p
<1>7. TargetReads(r)'
  <2>1. t.stage = "loaded" /\ t.missing =>
          t.to # p /\ t.dest = apply_fill(FLAT, Side[t.order] * t.qty, t.price)
    BY DEF TargetReads
  <2> HIDE DEF p
  <2>2. t.stage = "loaded" /\ ~ t.missing =>
          t.dest = apply_fill(IF t.to = p THEN t.from ELSE positionRow'[t.to], Side[t.order] * t.qty, t.price)
    BY <1>3, <1>5
  <2> QED
    BY <1>5, <2>1, <2>2 DEF TargetReads, p
<1> QED
  BY <1>6, <1>7

LEMMA PostingStays ==
  ASSUME BookTypes, PostingReads, posting' = posting,
         \A p \in Portfolios : held[p] = "engine" => held'[p] = "engine" /\ positionRow'[p] = positionRow[p]
  PROVE  PostingReads'
<1> SUFFICES ASSUME posting.stage = "loaded" PROVE PostingReads'
  BY DEF PostingReads
<1>1. Portfolio[posting.order] \in Portfolios
  BY PostingIs
<1> QED
  BY <1>1 DEF PostingReads

LEMMA LocksHeldInit == BookInit => LocksHeld
<1> SUFFICES ASSUME BookInit PROVE LocksHeld
  OBVIOUS
<1>1. posting.stage = "idle" /\ \A r \in Requests : request[r] = NoWork /\ request[r].stage = "idle"
  BY DEF BookInit, NoWork
<1>2. RowsThere
  <2>1. \A o \in Orders : order[o].cum_qty = 0
    BY DEF BookInit
  <2> QED
    BY <1>1, <2>1 DEF RowsThere, BookInit
<1> QED
  BY <1>1, <1>2 DEF LocksHeld, PostingReads, SourceReads, TargetReads

LEMMA FillLocks == BookTypes /\ LocksHeld /\ (LoadFill \/ CommitFill \/ AbortFill) => LocksHeld'
<1> SUFFICES ASSUME BookTypes, LocksHeld, LoadFill \/ CommitFill \/ AbortFill PROVE LocksHeld'
  OBVIOUS
<1>0. RowsThere /\ PostingReads /\ \A r \in Requests : SourceReads(r) /\ TargetReads(r)
  BY DEF LocksHeld
<1>1. request' = request
  BY DEF LoadFill, CommitFill, AbortFill
<1>2. /\ RowsThere' /\ PostingReads'
      /\ \A r \in Requests, p \in Portfolios : held[p] = r => held'[p] = r /\ positionRow'[p] = positionRow[p]
  <2>1. CASE LoadFill
    <3>1. PICK o \in Orders, q \in FillQuantities, px \in FillPrices :
            /\ Lock(Portfolio[o], "engine")
            /\ posting' = [stage |-> "loaded", order |-> o, qty |-> q, price |-> <<px, 1>>,
                           read |-> positionRow[Portfolio[o]], missing |-> Portfolio[o] \notin rows]
      BY <2>1 DEF LoadFill
    <3>2. Portfolio[o] \in Portfolios /\ positionRow' = positionRow /\ rows' = rows /\ order' = order
      BY <2>1, BookAssumption DEF LoadFill
    <3>3. /\ Portfolio[o] \in rows => held'[Portfolio[o]] = "engine" /\ held[Portfolio[o]] \in {"free", "engine"}
          /\ Portfolio[o] \notin rows => held'[Portfolio[o]] = held[Portfolio[o]]
          /\ \A x \in Portfolios : x # Portfolio[o] => held'[x] = held[x]
      BY <3>1, <3>2, LockTakes
    <3>4. posting'.order = o /\ posting'.read = positionRow[Portfolio[o]] /\ posting'.missing = (Portfolio[o] \notin rows)
      BY <3>1
    <3>5. Portfolio[o] \notin rows => positionRow[Portfolio[o]] = FLAT
      BY <1>0, <3>2 DEF RowsThere
    <3>6. PostingReads'
      BY <3>2, <3>3, <3>4, <3>5 DEF PostingReads
    <3>7. RowsThere'
      BY <1>0, <1>1, <3>2 DEF RowsThere
    <3> QED
      BY <3>2, <3>3, <3>6, <3>7, OthersNotEngine
  <2>2. CASE CommitFill
    <3> DEFINE p == Portfolio[posting.order]
    <3>1. /\ posting.stage = "loaded" /\ posting' = NoWork /\ Release("engine") /\ held[p] \in {"free", "engine"}
          /\ rows' = rows \cup {p}
      BY <2>2 DEF CommitFill
    <3>2. p \in Portfolios /\ posting.order \in Orders
      BY <3>1, PostingIs
    <3>3. \A x \in Portfolios : x # p => positionRow'[x] = positionRow[x]
      BY <2>2 DEF CommitFill, BookTypes
    <3>4. PostingReads'
      BY <3>1 DEF PostingReads, NoWork
    <3>5. \A x \in Portfolios : held[x] # "engine" => held'[x] = held[x]
      BY <3>1, ReleaseLeaves
    <3>6. RowsThere'
      <4>1. \A x \in Orders : x # posting.order => order'[x] = order[x]
        BY <2>2 DEF CommitFill, BookTypes
      <4>2. \A x \in Portfolios \ rows' : positionRow'[x] = FLAT
        BY <1>0, <3>1, <3>3 DEF RowsThere
      <4>3. \A x \in Orders : order'[x].cum_qty > 0 => Portfolio[x] \in rows'
        BY <1>0, <3>1, <4>1 DEF RowsThere
      <4>4. \A x \in Requests : request'[x] # NoWork => Portfolio[request'[x].order] \in rows'
        BY <1>0, <1>1, <3>1 DEF RowsThere
      <4> QED
        BY <4>2, <4>3, <4>4 DEF RowsThere
    <3> QED
      BY <3>1, <3>2, <3>3, <3>4, <3>5, <3>6, OthersNotEngine
  <2>3. CASE AbortFill
    <3>1. /\ posting' = NoWork /\ Release("engine") /\ positionRow' = positionRow
          /\ rows' = rows /\ order' = order
      BY <2>3 DEF AbortFill
    <3>2. \A x \in Portfolios : held[x] # "engine" => held'[x] = held[x]
      BY <3>1, ReleaseLeaves
    <3>3. PostingReads'
      BY <3>1 DEF PostingReads, NoWork
    <3>4. RowsThere'
      BY <1>0, <1>1, <3>1 DEF RowsThere
    <3> QED
      BY <3>1, <3>2, <3>3, <3>4, OthersNotEngine
  <2> QED
    BY <2>1, <2>2, <2>3
<1>3. ASSUME NEW r \in Requests PROVE SourceReads(r)' /\ TargetReads(r)'
  BY <1>0, <1>1, <1>2, SplitStays
<1> QED
  BY <1>2, <1>3 DEF LocksHeld

LEMMA SplitLocks ==
  ASSUME BookTypes, LocksHeld, NEW r \in Requests,
         \/ CheckAllocation(r) \/ ReduceSource(r) \/ LoadTarget(r)
         \/ CommitAllocation(r) \/ AbortAllocation(r)
  PROVE  LocksHeld'
<1> DEFINE t == request[r]
           p == Portfolio[t.order]
<1>0. RowsThere /\ PostingReads /\ \A x \in Requests : SourceReads(x) /\ TargetReads(x)
  BY DEF LocksHeld
<1>1. /\ posting' = posting /\ order' = order
      /\ \A x \in Requests \ {r} : request'[x] = request[x]
  BY DEF CheckAllocation, ReduceSource, LoadTarget, CommitAllocation, AbortAllocation, BookTypes
<1>2. /\ \A x \in Portfolios : held[x] # "free" /\ held[x] # r => held'[x] = held[x] /\ positionRow'[x] = positionRow[x]
      /\ SourceReads(r)' /\ TargetReads(r)'
      /\ rows \subseteq rows' /\ \A x \in Portfolios \ rows' : positionRow'[x] = FLAT
      /\ request'[r] # NoWork => Portfolio[request'[r].order] \in rows
  <2>1. CASE CheckAllocation(r)
    <3>1. PICK o \in Blocks, to \in Portfolios, q \in FillQuantities :
            /\ order[o].cum_qty > 0
            /\ request' = [request EXCEPT ![r] =
                 [stage |-> "checked", order |-> o, to |-> to, qty |-> q,
                  price |-> order[o].avg_px, from |-> FLAT, dest |-> FLAT, missing |-> FALSE]]
      BY <2>1 DEF CheckAllocation
    <3>2. /\ request'[r].stage = "checked" /\ request'[r].order = o
          /\ held' = held /\ positionRow' = positionRow /\ rows' = rows
      BY <2>1, <3>1 DEF CheckAllocation, BookTypes
    <3>3. o \in Orders
      BY BookAssumption
    <3> QED
      BY <1>0, <3>1, <3>2, <3>3 DEF RowsThere, SourceReads, TargetReads
  <2>2. CASE ReduceSource(r)
    <3>1. t # NoWork
      BY <2>2 DEF ReduceSource, NoWork
    <3>2. t \in Splits /\ p \in Portfolios /\ p \in rows
      BY <1>0, <3>1, SplitIs DEF RowsThere
    <3>3. /\ request' = [request EXCEPT ![r].stage = "reduced",
                                        ![r].from = reduce_at_cost(positionRow[p], t.qty)]
          /\ Lock(p, r) /\ positionRow' = positionRow /\ rows' = rows
      BY <2>2 DEF ReduceSource
    <3>4. /\ held'[p] = r /\ held[p] \in {"free", r}
          /\ \A x \in Portfolios : x # p => held'[x] = held[x]
      BY <3>2, <3>3, LockTakes
    <3> DEFINE f == reduce_at_cost(positionRow[p], t.qty)
    <3> HIDE DEF f
    <3>5. request'[r] = [t EXCEPT !.stage = "reduced", !.from = f]
      BY <3>3 DEF BookTypes, f
    <3>6. request'[r].stage = "reduced" /\ request'[r].order = t.order /\ request'[r].qty = t.qty
          /\ request'[r].from = f
      BY <3>2, <3>5 DEF Splits
    <3>7. SourceReads(r)' /\ TargetReads(r)'
      BY <3>3, <3>4, <3>6 DEF f, SourceReads, TargetReads
    <3> QED
      BY <1>0, <3>2, <3>3, <3>4, <3>6, <3>7 DEF RowsThere
  <2>3. CASE LoadTarget(r)
    <3> DEFINE read == IF t.to = p THEN t.from ELSE positionRow[t.to]
               f == apply_fill(read, Side[t.order] * t.qty, t.price)
               m == t.to \notin rows
    <3>1. t # NoWork /\ t.stage = "reduced"
      BY <2>3 DEF LoadTarget, NoWork
    <3>2. t \in Splits /\ p \in Portfolios /\ t.to \in Portfolios /\ p \in rows
      BY <1>0, <3>1, SplitIs DEF RowsThere
    <3>3. /\ request' = [request EXCEPT ![r].stage = "loaded", ![r].missing = m, ![r].dest = f]
          /\ Lock(t.to, r) /\ positionRow' = positionRow /\ rows' = rows
      BY <2>3 DEF LoadTarget
    <3>4. /\ t.to \in rows => held'[t.to] = r /\ held[t.to] \in {"free", r}
          /\ t.to \notin rows => held'[t.to] = held[t.to]
          /\ \A x \in Portfolios : x # t.to => held'[x] = held[x]
      BY <3>2, <3>3, LockTakes
    <3>5. held[p] = r /\ t.from = reduce_at_cost(positionRow[p], t.qty)
      BY <1>0, <3>1 DEF SourceReads
    <3>6. m => t.to # p /\ f = apply_fill(FLAT, Side[t.order] * t.qty, t.price)
      <4>1. m => t.to # p /\ read = FLAT
        BY <1>0, <3>2 DEF RowsThere
      <4> HIDE DEF m, read
      <4> QED
        BY <4>1
    <3> HIDE DEF f, m
    <3>7. request'[r] = [t EXCEPT !.stage = "loaded", !.missing = m, !.dest = f]
      BY <3>3 DEF BookTypes
    <3>8. /\ request'[r].stage = "loaded" /\ request'[r].order = t.order /\ request'[r].qty = t.qty
          /\ request'[r].from = t.from /\ request'[r].to = t.to /\ request'[r].price = t.price
          /\ request'[r].dest = f /\ request'[r].missing = m
      BY <3>2, <3>7 DEF Splits
    <3>9. held'[p] = r
      BY <3>2, <3>4, <3>5
    <3>10. SourceReads(r)'
      BY <3>3, <3>5, <3>8, <3>9 DEF SourceReads
    <3>11. TargetReads(r)'
      <4>1. CASE m
        BY <3>6, <3>8, <4>1 DEF TargetReads
      <4>2. CASE ~ m
        <5>1. held'[t.to] = r
          BY <3>4, <4>2 DEF m
        <5> QED
          BY <3>3, <3>8, <4>2, <5>1 DEF TargetReads, f
      <4> QED
        BY <4>1, <4>2
    <3>12. \A x \in Portfolios : held[x] # "free" /\ held[x] # r => held'[x] = held[x] /\ positionRow'[x] = positionRow[x]
      BY <3>2, <3>3, <3>4
    <3> QED
      BY <1>0, <3>2, <3>3, <3>8, <3>10, <3>11, <3>12 DEF RowsThere
  <2>4. CASE CommitAllocation(r)
    <3>1. /\ t # NoWork /\ t.stage = "loaded" /\ request'[r] = NoWork /\ Release(r) /\ held[t.to] \in {"free", r}
          /\ positionRow' = [positionRow EXCEPT ![p] = t.from, ![t.to] = t.dest]
          /\ rows' = rows \cup {t.to}
      BY <2>4 DEF CommitAllocation, NoWork, BookTypes
    <3>2. p \in Portfolios /\ t.to \in Portfolios /\ held[p] = r /\ p \in rows
      BY <1>0, <3>1, SplitIs DEF SourceReads, RowsThere
    <3>3. \A x \in Portfolios : x # p /\ x # t.to => positionRow'[x] = positionRow[x]
      BY <3>1 DEF BookTypes
    <3>4. SourceReads(r)' /\ TargetReads(r)'
      BY <3>1 DEF NoWork, SourceReads, TargetReads
    <3>5. \A x \in Portfolios : held[x] # r => held'[x] = held[x]
      BY <3>1, ReleaseLeaves
    <3>6. \A x \in Portfolios \ rows' : positionRow'[x] = FLAT
      BY <1>0, <3>1, <3>2, <3>3 DEF RowsThere
    <3> QED
      BY <3>1, <3>2, <3>3, <3>4, <3>5, <3>6
  <2>5. CASE AbortAllocation(r)
    <3>1. request'[r] = NoWork /\ Release(r) /\ positionRow' = positionRow /\ rows' = rows
      BY <2>5 DEF AbortAllocation, BookTypes
    <3>2. \A x \in Portfolios : held[x] # r => held'[x] = held[x]
      BY <3>1, ReleaseLeaves
    <3>3. SourceReads(r)' /\ TargetReads(r)'
      BY <3>1 DEF NoWork, SourceReads, TargetReads
    <3> QED
      BY <1>0, <3>1, <3>2, <3>3 DEF RowsThere
  <2> QED
    BY <2>1, <2>2, <2>3, <2>4, <2>5
<1>3. PostingReads'
  <2>1. \A x \in Portfolios : held[x] = "engine" => held'[x] = "engine" /\ positionRow'[x] = positionRow[x]
    BY <1>2, OthersNotEngine
  <2> QED
    BY <1>0, <1>1, <2>1, PostingStays
<1>4. ASSUME NEW x \in Requests, x # r PROVE SourceReads(x)' /\ TargetReads(x)'
  <2>1. request'[x] = request[x]
    BY <1>1, <1>4
  <2>2. \A y \in Portfolios : held[y] = x => held'[y] = x /\ positionRow'[y] = positionRow[y]
    BY <1>2, <1>4, OthersNotEngine
  <2> QED
    BY <1>0, <2>1, <2>2, SplitStays
<1>5. RowsThere'
  <2>1. \A o \in Orders : order'[o].cum_qty > 0 => Portfolio[o] \in rows'
    BY <1>0, <1>1, <1>2 DEF RowsThere
  <2>2. ASSUME NEW x \in Requests, request'[x] # NoWork PROVE Portfolio[request'[x].order] \in rows'
    BY <1>0, <1>1, <1>2, <2>2 DEF RowsThere
  <2> QED
    BY <1>2, <2>1, <2>2 DEF RowsThere
<1> QED
  BY <1>2, <1>3, <1>4, <1>5 DEF LocksHeld

LEMMA LocksHeldStep == BookTypes /\ LocksHeld /\ [BookNext]_bookVars => LocksHeld'
<1>1. UNCHANGED bookVars /\ LocksHeld => LocksHeld'
  BY DEF LocksHeld, RowsThere, PostingReads, SourceReads, TargetReads, bookVars
<1> QED
  BY <1>1, FillLocks, SplitLocks DEF BookNext


-----------------------------------------------------------------------------
(* What the steps do to the rows.                                          *)

\* The fill of the engine's transaction, on the row as it is, unless another has
\* inserted it since.
LEMMA CommitFillIs ==
  ASSUME BookTypes, LocksHeld, CommitFill
  PROVE  LET o == posting.order
             p == Portfolio[o]
             s == Side[o] * posting.qty
         IN /\ o \in Orders /\ p \in Portfolios /\ s \in Int /\ s # 0 /\ posting.qty \in PosInt
            /\ posting.price \in Lows
            /\ p \notin raced' => positionRow' = [positionRow EXCEPT ![p] = apply_fill(positionRow[p], s, posting.price)]
            /\ \A x \in Portfolios : x # p => positionRow'[x] = positionRow[x]
            /\ cash' = [cash EXCEPT ![p] = Minus(cash[p], Scale(s, posting.price))]
            /\ fillLog' = Append(fillLog, [order |-> o, qty |-> posting.qty, price |-> posting.price])
            /\ raced \subseteq raced' /\ crossed' = crossed
<1> DEFINE p == Portfolio[posting.order]
<1>1. posting.stage = "loaded"
  BY DEF CommitFill
<1>2. p \in Portfolios
  BY <1>1, PostingIs
<1>3. p \notin raced' => posting.read = positionRow[p]
  <2>1. raced' = raced \cup Inserted(p, posting.missing)
    BY DEF CommitFill
  <2>2. posting.missing => posting.read = FLAT
    BY <1>1 DEF LocksHeld, PostingReads
  <2>3. ~ posting.missing => posting.read = positionRow[p]
    BY <1>1 DEF LocksHeld, PostingReads
  <2>4. p \notin rows => positionRow[p] = FLAT
    BY <1>2 DEF LocksHeld, RowsThere
  <2> QED
    BY <2>1, <2>2, <2>3, <2>4 DEF Inserted
<1>4. positionRow' = [positionRow EXCEPT ![p] = apply_fill(posting.read, Side[posting.order] * posting.qty, posting.price)]
  BY DEF CommitFill
<1>5. \A x \in Portfolios : x # p => positionRow'[x] = positionRow[x]
  BY <1>4 DEF BookTypes
<1> QED
  BY <1>1, <1>3, <1>4, <1>5, PostingIs DEF CommitFill

\* The allocation's: the source reduced, the target filled at the block's price,
\* unless another has inserted it since.
LEMMA CommitAllocationIs ==
  ASSUME BookTypes, LocksHeld, NEW r \in Requests, CommitAllocation(r)
  PROVE  LET t == request[r]
             p == Portfolio[t.order]
             s == Side[t.order] * t.qty
             side == IF positionRow[p].net_qty >= 0 THEN 1 ELSE -1
             g == (IF positionRow[p].net_qty >= 0 THEN 1 ELSE -1) * t.qty
             from == reduce_at_cost(positionRow[p], t.qty)
             read == IF t.to = p THEN from ELSE positionRow[t.to]
             paid == [cash EXCEPT ![p] = Plus(cash[p], Scale(g, positionRow[p].avg_cost))]
         IN /\ t \in Splits /\ t.order \in Blocks /\ t.order \in Orders /\ t.to \in Portfolios
            /\ p \in Portfolios /\ t.qty \in PosInt /\ t.price \in Lows /\ s \in Int /\ s # 0
            /\ positionRow' = [positionRow EXCEPT ![p] = from, ![t.to] = t.dest]
            /\ t.to \notin raced' => t.dest = apply_fill(read, s, t.price)
            /\ cash' = [paid EXCEPT ![t.to] = Minus(paid[t.to], Scale(s, t.price))]
            /\ raced \subseteq raced' /\ (~ crossed' => ~ crossed /\ side = Side[t.order])
            /\ UNCHANGED <<order, fillLog>>
<1> DEFINE t == request[r]
           p == Portfolio[t.order]
           from == reduce_at_cost(positionRow[p], t.qty)
           read == IF t.to = p THEN from ELSE positionRow[t.to]
<1>1. t # NoWork /\ t.stage = "loaded"
  BY DEF CommitAllocation, NoWork
<1>2. t.from = from
  BY <1>1 DEF LocksHeld, SourceReads
<1>3. /\ t \in Splits /\ t.order \in Blocks /\ t.order \in Orders /\ t.to \in Portfolios
      /\ p \in Portfolios /\ t.qty \in PosInt /\ t.price \in Lows
      /\ Side[t.order] * t.qty \in Int /\ Side[t.order] * t.qty # 0
  BY <1>1, SplitIs
<1>4. t.to \notin raced' => t.dest = apply_fill(read, Side[t.order] * t.qty, t.price)
  <2>1. raced' = raced \cup Inserted(t.to, t.missing)
    BY DEF CommitAllocation
  <2>2. ~ t.missing => t.dest = apply_fill(read, Side[t.order] * t.qty, t.price)
    BY <1>1, <1>2 DEF LocksHeld, TargetReads
  <2>3. t.missing => t.to # p /\ t.dest = apply_fill(FLAT, Side[t.order] * t.qty, t.price)
    BY <1>1 DEF LocksHeld, TargetReads
  <2>4. t.to \notin rows => positionRow[t.to] = FLAT
    BY <1>3 DEF LocksHeld, RowsThere
  <2>5. t.missing /\ t.to \notin rows => read = FLAT
    BY <2>3, <2>4
  <2>6. t.to \notin raced' => ~ t.missing \/ t.to \notin rows
    BY <2>1 DEF Inserted
  <2> HIDE DEF read
  <2> QED
    BY <2>2, <2>3, <2>5, <2>6
<1> HIDE DEF from
<1>5. positionRow' = [positionRow EXCEPT ![p] = from, ![t.to] = t.dest]
  BY <1>2 DEF CommitAllocation
<1> QED
  BY <1>3, <1>4, <1>5 DEF CommitAllocation, from

-----------------------------------------------------------------------------
(* Profits                                                                 *)

\* The profit of a row is the money of its portfolio, and what is open at cost.
Sound(p, c) == p.realized_pnl = Plus(c, Scale(p.net_qty, p.avg_cost))

Profits == \A p \in Portfolios \ raced : Sound(positionRow[p], cash[p])

LEMMA FillSound ==
  ASSUME NEW p \in PositionMath, NEW c \in Lows, NEW s \in Int, s # 0, NEW x \in Lows, Sound(p, c)
  PROVE  Sound(apply_fill(p, s, x), Minus(c, Scale(s, x)))
BY FillProfit DEF Sound

LEMMA ReduceSound ==
  ASSUME NEW p \in PositionMath, NEW c \in Lows, NEW q \in PosInt, Sound(p, c)
  PROVE  LET g == (IF p.net_qty >= 0 THEN 1 ELSE -1) * q
         IN  Sound(reduce_at_cost(p, q), Plus(c, Scale(g, p.avg_cost)))
<1>1. q \in Int
  BY DEF PosInt
<1> QED
  BY <1>1, ReduceProfit DEF Sound

LEMMA ProfitsStep == BookTypes /\ LocksHeld /\ Profits /\ [BookNext]_bookVars => Profits'
<1> SUFFICES ASSUME BookTypes, LocksHeld, Profits, [BookNext]_bookVars PROVE Profits'
  OBVIOUS
<1>1. CASE CommitFill
  <2> DEFINE p == Portfolio[posting.order]
             s == Side[posting.order] * posting.qty
             f == apply_fill(positionRow[p], s, posting.price)
             c == Minus(cash[p], Scale(s, posting.price))
  <2>1. /\ p \in Portfolios /\ s \in Int /\ s # 0 /\ posting.price \in Lows
        /\ p \notin raced' => positionRow' = [positionRow EXCEPT ![p] = f]
        /\ \A x \in Portfolios : x # p => positionRow'[x] = positionRow[x]
        /\ cash' = [cash EXCEPT ![p] = c] /\ raced \subseteq raced'
    BY <1>1, CommitFillIs
  <2>2. positionRow[p] \in PositionMath /\ cash[p] \in Lows
    BY <2>1 DEF BookTypes
  <2>3. p \notin raced' => Sound(f, c)
    <3>1. p \notin raced' => Sound(positionRow[p], cash[p])
      BY <2>1 DEF Profits
    <3> QED
      BY <2>1, <2>2, <3>1, FillSound
  <2> HIDE DEF p, s, f, c
  <2>4. ASSUME NEW x \in Portfolios \ raced' PROVE Sound(positionRow'[x], cash'[x])
    <3>1. CASE x = p
      BY <2>1, <2>3, <3>1 DEF BookTypes
    <3>2. CASE x # p
      <4>1. positionRow'[x] = positionRow[x] /\ cash'[x] = cash[x] /\ x \in Portfolios \ raced
        BY <2>1, <3>2 DEF BookTypes
      <4> QED
        BY <4>1 DEF Profits
    <3> QED
      BY <3>1, <3>2
  <2> QED
    BY <2>4 DEF Profits
<1>2. ASSUME NEW r \in Requests, CommitAllocation(r) PROVE Profits'
  <2> DEFINE t == request[r]
             p == Portfolio[t.order]
             s == Side[t.order] * t.qty
             g == (IF positionRow[p].net_qty >= 0 THEN 1 ELSE -1) * t.qty
             from == reduce_at_cost(positionRow[p], t.qty)
             read == IF t.to = p THEN from ELSE positionRow[t.to]
             c == Plus(cash[p], Scale(g, positionRow[p].avg_cost))
             paid == [cash EXCEPT ![p] = c]
             f == apply_fill(read, s, t.price)
             d == Minus(paid[t.to], Scale(s, t.price))
  <2>1. /\ t.to \in Portfolios /\ p \in Portfolios /\ t.qty \in PosInt /\ t.price \in Lows /\ s \in Int /\ s # 0
        /\ positionRow' = [positionRow EXCEPT ![p] = from, ![t.to] = t.dest]
        /\ t.to \notin raced' => t.dest = f
        /\ cash' = [paid EXCEPT ![t.to] = d] /\ raced \subseteq raced'
    BY <1>2, CommitAllocationIs
  <2>2. /\ \A x \in Portfolios : positionRow[x] \in PositionMath /\ cash[x] \in Lows
        /\ \A x \in Portfolios : x \notin raced' => Sound(positionRow[x], cash[x])
    BY <2>1 DEF BookTypes, Profits
  <2>3. p \notin raced' => Sound(from, c)
    BY <2>1, <2>2, ReduceSound
  <2>4. from \in PositionMath /\ c \in Lows
    <3>1. t.qty \in Int /\ g \in Int /\ positionRow[p].avg_cost \in Lows
      BY <2>1, <2>2 DEF PosInt, PositionMath
    <3>2. Scale(g, positionRow[p].avg_cost) \in Lows
      BY <3>1, LowsClosed
    <3> QED
      BY <2>1, <2>2, <3>1, <3>2, ReduceIs, LowsClosed
  <2> HIDE DEF p, s, g, from, c, t
  <2>5. /\ paid \in [Portfolios -> Lows] /\ paid[p] = c
        /\ \A x \in Portfolios : x # p => paid[x] = cash[x]
    BY <2>1, <2>2, <2>4 DEF BookTypes
  <2> HIDE DEF paid
  <2>6. read \in PositionMath /\ paid[t.to] \in Lows /\ (t.to \notin raced' => Sound(read, paid[t.to]))
    BY <2>1, <2>2, <2>3, <2>4, <2>5
  <2> HIDE DEF read
  <2>7. t.to \notin raced' => Sound(f, d)
    BY <2>1, <2>6, FillSound
  <2> HIDE DEF f, d
  <2>8. ASSUME NEW x \in Portfolios \ raced' PROVE Sound(positionRow'[x], cash'[x])
    <3>1. CASE x = t.to
      <4>1. positionRow'[x] = f /\ cash'[x] = d
        BY <2>1, <2>5, <3>1 DEF BookTypes
      <4> QED
        BY <2>7, <3>1, <4>1
    <3>2. CASE x # t.to
      <4>1. positionRow'[x] = (IF x = p THEN from ELSE positionRow[x]) /\ cash'[x] = paid[x]
        BY <2>1, <2>5, <3>2 DEF BookTypes
      <4>2. x # p => paid[x] = cash[x]
        BY <2>5
      <4> QED
        BY <2>2, <2>3, <2>5, <4>1, <4>2
    <3> QED
      BY <3>1, <3>2
  <2> QED
    BY <2>8 DEF Profits
<1>3. CASE LoadFill \/ AbortFill
  BY <1>3 DEF LoadFill, AbortFill, Profits, slips
<1>4. ASSUME NEW r \in Requests, CheckAllocation(r) \/ ReduceSource(r) \/ LoadTarget(r) \/ AbortAllocation(r)
      PROVE  Profits'
  BY <1>4 DEF CheckAllocation, ReduceSource, LoadTarget, AbortAllocation, Profits, slips
<1>5. CASE UNCHANGED bookVars
  BY <1>5 DEF Profits, bookVars, slips
<1> QED
  BY <1>1, <1>2, <1>3, <1>4, <1>5 DEF BookNext

LEMMA ProfitsInit == BookInit => Profits
<1> SUFFICES ASSUME BookInit, NEW p \in Portfolios PROVE Sound(positionRow[p], cash[p])
  BY DEF Profits
<1>1. positionRow[p] = FLAT /\ cash[p] = Zero
  BY DEF BookInit
<1>2. Zero \in Lows
  BY WholeLow DEF Zero
<1>3. Scale(0, Zero) = Zero /\ Plus(Zero, Zero) = Zero
  BY <1>2, ScaleZero, PlusZero
<1> QED
  BY <1>1, <1>3 DEF Sound, FLAT

-----------------------------------------------------------------------------
(* Quantities                                                              *)

LEMMA ReduceNet ==
  ASSUME NEW p \in PositionMath, NEW q \in Int
  PROVE  reduce_at_cost(p, q).net_qty = p.net_qty - (IF p.net_qty >= 0 THEN 1 ELSE -1) * q
<1>1. Zero \in Lows
  BY WholeLow DEF Zero
<1> QED
  BY <1>1, ReduceProfit

\* An allocation moves its quantity, where the source is on the block's side and
\* nobody inserts the target's row meanwhile.
LEMMA AllocationMoves ==
  ASSUME BookTypes, LocksHeld, NEW r \in Requests, CommitAllocation(r), raced' = {}, ~ crossed'
  PROVE  LET t == request[r]
             p == Portfolio[t.order]
             s == Side[t.order] * t.qty
         IN  /\ t.to = p => \A x \in Portfolios : positionRow'[x].net_qty = positionRow[x].net_qty
             /\ t.to # p => /\ positionRow'[p].net_qty = positionRow[p].net_qty - s
                            /\ positionRow'[t.to].net_qty = positionRow[t.to].net_qty + s
                            /\ \A x \in Portfolios : x \notin {p, t.to} => positionRow'[x] = positionRow[x]
<1> DEFINE t == request[r]
           p == Portfolio[t.order]
           s == Side[t.order] * t.qty
           from == reduce_at_cost(positionRow[p], t.qty)
           read == IF t.to = p THEN from ELSE positionRow[t.to]
           f == apply_fill(read, s, t.price)
           n == positionRow[p].net_qty
<1>1. /\ t.order \in Orders /\ t.to \in Portfolios /\ p \in Portfolios /\ t.qty \in PosInt
      /\ t.price \in Lows /\ s \in Int /\ s # 0
      /\ positionRow' = [positionRow EXCEPT ![p] = from, ![t.to] = t.dest]
      /\ t.dest = f /\ (IF n >= 0 THEN 1 ELSE -1) = Side[t.order]
  BY CommitAllocationIs
<1>2. n \in Int /\ positionRow[p] \in PositionMath /\ positionRow[t.to] \in PositionMath
  BY <1>1 DEF BookTypes, PositionMath
<1>3. (IF n >= 0 THEN 1 ELSE -1) * t.qty = s
  BY <1>1
<1>6. from.net_qty = n - s /\ from \in PositionMath
  <2>1. t.qty \in Int
    BY <1>1 DEF PosInt
  <2> QED
    BY <1>2, <1>3, <2>1, ReduceNet, ReduceIs
<1>7. f.net_qty = read.net_qty + s
  <2>1. read \in PositionMath
    BY <1>2, <1>6
  <2> QED
    BY <1>1, <2>1, FillIs
<1>8. t.to = p => \A x \in Portfolios : positionRow'[x].net_qty = positionRow[x].net_qty
  <2> SUFFICES ASSUME t.to = p, NEW x \in Portfolios PROVE positionRow'[x].net_qty = positionRow[x].net_qty
    OBVIOUS
  <2>1. positionRow'[x] = IF x = p THEN f ELSE positionRow[x]
    BY <1>1 DEF BookTypes
  <2>2. f.net_qty = (n - s) + s
    BY <1>6, <1>7
  <2>3. f.net_qty = n
    BY <1>1, <1>2, <2>2
  <2> QED
    BY <2>1, <2>3
<1>9. t.to # p => /\ positionRow'[p].net_qty = n - s
                  /\ positionRow'[t.to].net_qty = positionRow[t.to].net_qty + s
                  /\ \A x \in Portfolios : x \notin {p, t.to} => positionRow'[x] = positionRow[x]
  <2> HIDE DEF from, f, n, s, p, t
  <2> SUFFICES ASSUME t.to # p
               PROVE  /\ positionRow'[p].net_qty = n - s
                      /\ positionRow'[t.to].net_qty = positionRow[t.to].net_qty + s
                      /\ \A x \in Portfolios : x \notin {p, t.to} => positionRow'[x] = positionRow[x]
    OBVIOUS
  <2>1. positionRow'[p] = from /\ positionRow'[t.to] = f
    BY <1>1 DEF BookTypes
  <2>2. \A x \in Portfolios : x \notin {p, t.to} => positionRow'[x] = positionRow[x]
    BY <1>1 DEF BookTypes
  <2> QED
    BY <1>6, <1>7, <2>1, <2>2
<1> QED
  BY <1>8, <1>9


LEMMA TotalZero ==
  ASSUME NEW D, IsFiniteSet(D)
  PROVE  Total([x \in D |-> 0]) = 0
<1> DEFINE f == [x \in D |-> 0]
<1>1. f \in [D -> Int] /\ DOMAIN f = D /\ \A x \in D : f[x] = 0
  OBVIOUS
<1> HIDE DEF f
<1>2. PICK s : SumIs(s, f) /\ Total(f) = s[D]
  BY <1>1, TotalIs
<1> DEFINE Q == {S \in SUBSET D : s[S] = 0}
<1>3. {} \in Q
  BY <1>2, SumEmpty
<1>4. ASSUME NEW S \in SUBSET D, S # {}, \A x \in S : S \ {x} \in Q PROVE S \in Q
  <2>1. Pick(S) \in S /\ s[S] = f[Pick(S)] + s[S \ {Pick(S)}]
    BY <1>1, <1>2, <1>4, SumStep
  <2>2. s[S \ {Pick(S)}] = 0 /\ f[Pick(S)] = 0
    BY <1>1, <1>4, <2>1
  <2> QED
    BY <2>1, <2>2
<1>5. \A S \in SUBSET D : S \in Q
  <2> HIDE DEF Q
  <2> QED
    BY <1>3, <1>4, SubsetInduction
<1>6. s[D] = 0
  BY <1>5
<1> QED
  BY <1>2, <1>6 DEF f

\* One value changes by d, and so does the total.
LEMMA TotalMoved ==
  ASSUME NEW D, IsFiniteSet(D), NEW f \in [D -> Int], NEW g \in [D -> Int], NEW x \in D, NEW d \in Int,
         g[x] = f[x] + d, \A y \in D : y # x => g[y] = f[y]
  PROVE  Total(g) = Total(f) + d
<1>1. /\ Total(f) = f[x] + Total([y \in D \ {x} |-> f[y]])
      /\ Total(g) = g[x] + Total([y \in D \ {x} |-> g[y]])
      /\ Total([y \in D \ {x} |-> f[y]]) \in Int
  BY TotalWithout
<1>2. [y \in D \ {x} |-> f[y]] = [y \in D \ {x} |-> g[y]]
  OBVIOUS
<1>3. f[x] \in Int
  OBVIOUS
<1>4. \A a, b \in Int : (a + d) + b = (a + b) + d
  OBVIOUS
<1>5. Total(g) = (f[x] + d) + Total([y \in D \ {x} |-> f[y]])
  BY <1>1, <1>2
<1> QED
  BY <1>1, <1>3, <1>4, <1>5

Nets == [p \in Portfolios |-> positionRow[p].net_qty]

Bought == [i \in DOMAIN fillLog |-> Side[fillLog[i].order] * fillLog[i].qty]

QuantitiesAdd == Total(Nets) = SumOf(Bought)

LEMMA NetsAre ==
  ASSUME BookTypes
  PROVE  Nets \in [Portfolios -> Int] /\ IsFiniteSet(Portfolios) /\ Total(Nets) \in Int
<1>1. Nets \in [Portfolios -> Int] /\ IsFiniteSet(Portfolios)
  BY BookAssumption DEF Nets, BookTypes, PositionMath
<1> QED
  BY <1>1, TotalInt

LEMMA NetsAreNext == BookTypes' => Nets' \in [Portfolios -> Int] /\ Total(Nets') \in Int
<1> SUFFICES ASSUME BookTypes' PROVE Nets' \in [Portfolios -> Int] /\ Total(Nets') \in Int
  OBVIOUS
<1>1. Nets' \in [Portfolios -> Int] /\ IsFiniteSet(Portfolios)
  BY BookAssumption DEF Nets, BookTypes, PositionMath
<1> QED
  BY <1>1, TotalInt

LEMMA EventQty ==
  ASSUME NEW e \in FillEvents
  PROVE  Side[e.order] * e.qty \in Int
<1>1. e.order \in Orders /\ e.qty \in Int /\ Side[e.order] \in {1, -1}
  BY BookAssumption DEF FillEvents, PosInt
<1> QED
  BY <1>1

LEMMA BoughtIs ==
  ASSUME NEW evs \in Seq(FillEvents)
  PROVE  /\ [i \in DOMAIN evs |-> Side[evs[i].order] * evs[i].qty] \in Seq(Int)
         /\ Len([i \in DOMAIN evs |-> Side[evs[i].order] * evs[i].qty]) = Len(evs)
<1>1. \A i \in 1..Len(evs) : Side[evs[i].order] * evs[i].qty \in Int
  BY EventQty
<1>2. DOMAIN evs = 1..Len(evs) /\ Len(evs) \in Nat
  OBVIOUS
<1> DEFINE q(i) == Side[evs[i].order] * evs[i].qty
<1> HIDE DEF q
<1>3. \A i \in 1..Len(evs) : q(i) \in Int
  BY <1>1 DEF q
<1>4. [i \in 1..Len(evs) |-> q(i)] \in Seq(Int) /\ Len([i \in 1..Len(evs) |-> q(i)]) = Len(evs)
  BY <1>2, <1>3
<1> QED
  BY <1>2, <1>4 DEF q

\* A fill's quantity joins what was bought.
LEMMA BoughtNext ==
  ASSUME NEW evs \in Seq(FillEvents), NEW e \in FillEvents
  PROVE  LET next == Append(evs, e)
         IN  SumOf([i \in DOMAIN next |-> Side[next[i].order] * next[i].qty]) =
               SumOf([i \in DOMAIN evs |-> Side[evs[i].order] * evs[i].qty]) + Side[e.order] * e.qty
<1> DEFINE next == Append(evs, e)
           a == [i \in DOMAIN evs |-> Side[evs[i].order] * evs[i].qty]
           b == [i \in DOMAIN next |-> Side[next[i].order] * next[i].qty]
           n == Len(evs)
<1>1. /\ n \in Nat /\ Len(next) = n + 1 /\ next[n + 1] = e /\ next \in Seq(FillEvents)
      /\ DOMAIN evs = 1..n /\ DOMAIN next = 1..(n + 1)
      /\ \A i \in 1..n : next[i] = evs[i]
  OBVIOUS
<1>2. a \in Seq(Int) /\ Len(a) = n
  BY BoughtIs
<1>3. b \in Seq(Int) /\ Len(b) = n + 1
  <2> HIDE DEF next
  <2> QED
    BY <1>1, BoughtIs
<1>4. \A i \in 1..n : b[i] = a[i]
  BY <1>1
<1>5. b[n + 1] = Side[e.order] * e.qty
  BY <1>1
<1> HIDE DEF a, b, n, next
<1>6. SumOf(b) = SumOf(a) + b[Len(b)]
  BY <1>1, <1>2, <1>3, <1>4, SumOfLonger
<1> QED
  BY <1>3, <1>5, <1>6 DEF a, b, n, next

QuantityInv == raced = {} /\ ~ crossed => QuantitiesAdd

LEMMA QuantityInvInit == BookInit => QuantityInv
<1> SUFFICES ASSUME BookInit PROVE QuantitiesAdd
  BY DEF QuantityInv
<1>1. BookTypes
  BY BookTypesInit
<1>2. Nets = [p \in Portfolios |-> 0]
  BY DEF Nets, BookInit, FLAT
<1>3. Total(Nets) = 0
  BY <1>1, <1>2, NetsAre, TotalZero
<1>4. Bought \in Seq(Int) /\ Len(Bought) = 0
  <2>1. fillLog \in Seq(FillEvents) /\ Len(fillLog) = 0
    BY <1>1 DEF BookInit, BookTypes
  <2> QED
    BY <2>1, BoughtIs DEF Bought
<1>5. \A i \in 1..Len(Bought) : Bought[i] = 0
  BY <1>4
<1>6. SumOf(Bought) = 0
  BY <1>4, <1>5, SumOfZeros
<1> QED
  BY <1>3, <1>6 DEF QuantitiesAdd

\* A fill.
LEMMA FillQuantity ==
  ASSUME BookTypes, BookTypes', LocksHeld, QuantitiesAdd, CommitFill, raced' = {}
  PROVE  QuantitiesAdd'
<1> DEFINE o == posting.order
           p == Portfolio[o]
           s == Side[o] * posting.qty
           f == apply_fill(positionRow[p], s, posting.price)
           e == [order |-> o, qty |-> posting.qty, price |-> posting.price]
<1>1. /\ o \in Orders /\ p \in Portfolios /\ s \in Int /\ s # 0 /\ posting.qty \in PosInt /\ posting.price \in Lows
      /\ positionRow' = [positionRow EXCEPT ![p] = f]
      /\ fillLog' = Append(fillLog, e)
  BY CommitFillIs
<1>2. f.net_qty = positionRow[p].net_qty + s
  BY <1>1, FillIs DEF BookTypes
<1>3. \A x \in Portfolios : positionRow'[x] = IF x = p THEN f ELSE positionRow[x]
  BY <1>1 DEF BookTypes
<1> HIDE DEF f
<1>4. Nets \in [Portfolios -> Int] /\ Nets' \in [Portfolios -> Int] /\ IsFiniteSet(Portfolios) /\ Total(Nets) \in Int
  BY NetsAre, NetsAreNext
<1>5. Nets'[p] = Nets[p] + s /\ \A x \in Portfolios : x # p => Nets'[x] = Nets[x]
  BY <1>1, <1>2, <1>3 DEF Nets
<1>6. Total(Nets') = Total(Nets) + s
  <2>1. p \in Portfolios /\ s \in Int
    BY <1>1
  <2> HIDE DEF p, s
  <2> DEFINE before == Nets
  <2>2. \A g \in [Portfolios -> Int] :
          g[p] = before[p] + s /\ (\A x \in Portfolios : x # p => g[x] = before[x]) => Total(g) = Total(before) + s
    <3>1. before \in [Portfolios -> Int] /\ IsFiniteSet(Portfolios)
      BY <1>4
    <3> HIDE DEF before
    <3> QED
      BY <2>1, <3>1, TotalMoved
  <2> QED
    BY <1>4, <1>5, <2>2
<1>7. e \in FillEvents /\ fillLog \in Seq(FillEvents)
  BY <1>1 DEF FillEvents, BookTypes
<1>8. SumOf(Bought') = SumOf(Bought) + s
  <2>1. SumOf(Bought') = SumOf(Bought) + Side[e.order] * e.qty
    <3> HIDE DEF e
    <3> QED
      BY <1>1, <1>7, BoughtNext DEF Bought
  <2> QED
    BY <2>1
<1> QED
  BY <1>6, <1>8 DEF QuantitiesAdd

\* An allocation's commit.
LEMMA AllocationQuantity ==
  ASSUME BookTypes, BookTypes', LocksHeld, QuantitiesAdd,
         NEW r \in Requests, CommitAllocation(r), raced' = {}, ~ crossed'
  PROVE  QuantitiesAdd'
<1> DEFINE t == request[r]
           p == Portfolio[t.order]
           s == Side[t.order] * t.qty
<1>1. t.to \in Portfolios /\ p \in Portfolios /\ s \in Int /\ fillLog' = fillLog
  BY CommitAllocationIs
<1>2. /\ t.to = p => \A x \in Portfolios : positionRow'[x].net_qty = positionRow[x].net_qty
      /\ t.to # p => /\ positionRow'[p].net_qty = positionRow[p].net_qty - s
                     /\ positionRow'[t.to].net_qty = positionRow[t.to].net_qty + s
                     /\ \A x \in Portfolios : x \notin {p, t.to} => positionRow'[x] = positionRow[x]
  BY AllocationMoves
<1> HIDE DEF t
<1>3. Nets \in [Portfolios -> Int] /\ Nets' \in [Portfolios -> Int] /\ IsFiniteSet(Portfolios) /\ Total(Nets) \in Int
  BY NetsAre, NetsAreNext
<1>4. Total(Nets') = Total(Nets)
  <2>1. CASE t.to = p
    <3>1. Nets' = Nets
      BY <1>2, <2>1 DEF Nets
    <3> QED
      BY <3>1
  <2>2. CASE t.to # p
    <3> DEFINE f == Nets
               to == t.to
               g == [f EXCEPT ![p] = f[p] - s]
    <3>1. /\ p \in Portfolios /\ to \in Portfolios /\ s \in Int /\ -s \in Int /\ to # p
          /\ f \in [Portfolios -> Int] /\ IsFiniteSet(Portfolios)
      BY <1>1, <1>3, <2>2
    <3>2. /\ Nets'[p] = f[p] - s /\ Nets'[to] = f[to] + s
          /\ \A x \in Portfolios : x \notin {p, to} => Nets'[x] = f[x]
      BY <1>2, <2>2, <3>1 DEF Nets
    <3> HIDE DEF f, s, p, to
    <3>3. /\ g \in [Portfolios -> Int] /\ g[p] = f[p] + (-s)
          /\ \A y \in Portfolios : y # p => g[y] = f[y]
      BY <3>1
    <3>4. Nets'[p] = g[p] /\ Nets'[to] = g[to] + s /\ \A x \in Portfolios : x \notin {p, to} => Nets'[x] = g[x]
      BY <3>1, <3>2, <3>3
    <3> HIDE DEF g
    <3>5. Total(g) = Total(f) + (-s)
      BY <3>1, <3>3, TotalMoved
    <3>6. \A h \in [Portfolios -> Int] :
            h[to] = g[to] + s /\ (\A x \in Portfolios : x # to => h[x] = g[x]) => Total(h) = Total(g) + s
      BY <3>1, <3>3, TotalMoved
    <3>7. \A x \in Portfolios : x # to => Nets'[x] = g[x]
      BY <3>4
    <3>8. Total(Nets') = Total(g) + s
      BY <1>3, <3>4, <3>6, <3>7
    <3>9. Total(f) \in Int
      BY <3>1, TotalInt
    <3>10. Total(Nets') = Total(f)
      BY <3>1, <3>5, <3>8, <3>9
    <3> QED
      BY <3>10 DEF f
  <2> QED
    BY <2>1, <2>2
<1>5. Bought' = Bought
  BY <1>1 DEF Bought
<1> QED
  BY <1>4, <1>5 DEF QuantitiesAdd

LEMMA QuantityInvStep == BookTypes /\ LocksHeld /\ QuantityInv /\ [BookNext]_bookVars => QuantityInv'
<1> SUFFICES ASSUME BookTypes, LocksHeld, QuantityInv, [BookNext]_bookVars, raced' = {}, ~ crossed'
             PROVE  QuantitiesAdd'
  BY DEF QuantityInv
<1>0. BookTypes'
  BY BookTypesStep
<1>1. CASE CommitFill
  <2>1. raced = {} /\ ~ crossed
    BY <1>1, CommitFillIs
  <2> QED
    BY <1>0, <1>1, <2>1, FillQuantity DEF QuantityInv
<1>2. ASSUME NEW r \in Requests, CommitAllocation(r) PROVE QuantitiesAdd'
  <2>1. raced = {} /\ ~ crossed
    BY <1>2, CommitAllocationIs
  <2> QED
    BY <1>0, <1>2, <2>1, AllocationQuantity DEF QuantityInv
<1>3. CASE \/ LoadFill \/ AbortFill \/ UNCHANGED bookVars
           \/ \E r \in Requests : CheckAllocation(r) \/ ReduceSource(r) \/ LoadTarget(r) \/ AbortAllocation(r)
  <2>1. positionRow' = positionRow /\ fillLog' = fillLog /\ raced' = raced /\ crossed' = crossed
    BY <1>3 DEF LoadFill, AbortFill, CheckAllocation, ReduceSource, LoadTarget, AbortAllocation, bookVars, slips
  <2>2. QuantitiesAdd
    BY <2>1 DEF QuantityInv
  <2> QED
    BY <2>1, <2>2 DEF QuantitiesAdd, Nets, Bought
<1> QED
  BY <1>1, <1>2, <1>3 DEF BookNext

\* No quantity appears or gets lost, and the profit booked is the profit made, for
\* any portfolios, orders and blocks, with or without rows, and in whatever order
\* fills, any number of allocation requests, aborts and lock waits come
\* (positions.rs, handlers.rs create_allocations): but for a row that two inserted,
\* and for the sum once an allocation was taken from the wrong side.
THEOREM BalanceSafe == BookSpec => []BooksBalance
<1> DEFINE IInv == BookTypes /\ LocksHeld /\ Profits /\ QuantityInv
<1>1. BookInit => IInv
  BY BookTypesInit, LocksHeldInit, ProfitsInit, QuantityInvInit
<1>2. IInv /\ [BookNext]_bookVars => IInv'
  BY BookTypesStep, LocksHeldStep, ProfitsStep, QuantityInvStep
<1>3. IInv => BooksBalance
  BY DEF QuantityInv, QuantitiesAdd, Nets, Bought, Profits, Sound, BooksBalance
<1> QED
  BY <1>1, <1>2, <1>3, PTL DEF BookSpec

-----------------------------------------------------------------------------
(***************************************************************************)
(* Market data: the mark and the previous closes, for every feed, ranking, *)
(* clock and channel, every set of instruments and of registered sources.  *)
(*                                                                         *)
(* That the owner of the mark is the best there is needs the order of the  *)
(* quotes on their way (InOrder) and that none of the owner's is older     *)
(* than the mark (OwnerLast): were the mark to go back in time, a quote    *)
(* turned away would be one it should have taken.                          *)
(***************************************************************************)
(* The previous closes                                                     *)

\* Every source registered is one of a broker that quotes something.
SourcesQuote == \A s \in StatSources : Quotes(s[1]) # "None"

Polls == [pc : {"idle", "asking", "done"}, sources : SUBSET StatSources, rows : SUBSET DOMAIN Quoted,
          todo : SUBSET StatSources, failed : SUBSET StatSources]

\* Where a close comes from: a source asked already, that serves the row's venue.
ClosesServed ==
  \A i \in DOMAIN Quoted : prevClose[i] # Unset =>
    /\ prevClose[i] \in Selected(poll.sources) \ poll.todo
    /\ ServesVenue(prevClose[i][1], Quoted[i].venue)

\* What a source was asked for and did not fail at, it has answered.
SourcesAnswered ==
  \A s \in Selected(poll.sources) \ (poll.todo \cup poll.failed), i \in poll.rows :
    Quoted[i].venue = s[1] =>
      \E j \in poll.rows : Quoted[j].symbol = Quoted[i].symbol /\ prevClose[j] = s

StatsInv ==
  /\ registered \subseteq StatSources /\ interesting \subseteq DOMAIN Quoted
  /\ poll \in Polls /\ prevClose \in [DOMAIN Quoted -> {Unset} \cup StatSources]
  /\ poll.todo \subseteq Selected(poll.sources)
  /\ poll.pc = "done" => poll.todo = {}
  /\ ClosesServed /\ SourcesAnswered

\* One environment is chosen for a broker, LIVE when it is there.
LEMMA EnvironmentIs ==
  ASSUME NEW sources, sources \subseteq StatSources, NEW s \in sources
  PROVE  /\ <<s[1], Environment(sources, s[1])>> \in sources
         /\ <<s[1], "LIVE">> \in sources => Environment(sources, s[1]) = "LIVE"
<1> DEFINE envs == {x[2] : x \in {y \in sources : y[1] = s[1]}}
           Best(e) == e = "LIVE" \/ ("LIVE" \notin envs /\ (e = "PAPER" \/ "PAPER" \notin envs))
<1>1. Environment(sources, s[1]) = CHOOSE e \in envs : Best(e)
  BY DEF Environment
<1>2. s[2] \in envs
  OBVIOUS
<1>3. \E e \in envs : Best(e)
  BY <1>2
<1>4. Environment(sources, s[1]) \in envs /\ Best(Environment(sources, s[1]))
  <2> HIDE DEF envs, Best
  <2> QED
    BY <1>1, <1>3
<1>5. \A e \in envs : <<s[1], e>> \in sources
  <2> SUFFICES ASSUME NEW e \in envs PROVE <<s[1], e>> \in sources
    OBVIOUS
  <2>1. PICK x \in sources : x[1] = s[1] /\ x[2] = e
    OBVIOUS
  <2>2. x = <<x[1], x[2]>>
    BY <2>1, DailyStatsAssumption
  <2> QED
    BY <2>1, <2>2
<1>6. <<s[1], "LIVE">> \in sources => "LIVE" \in envs
  OBVIOUS
<1> QED
  BY <1>4, <1>5, <1>6

\* The sources selected are registered ones, one of a broker.
LEMMA SelectedIs ==
  ASSUME NEW sources, sources \subseteq StatSources
  PROVE  /\ Selected(sources) \subseteq sources
         /\ \A s \in Selected(sources) : s[2] = Environment(sources, s[1]) /\ s = <<s[1], s[2]>>
         /\ \A s, t \in Selected(sources) : s[1] = t[1] => s = t
         /\ \A s \in Selected(sources) : <<s[1], "LIVE">> \in sources => s[2] = "LIVE"
<1>1. \A s \in Selected(sources) : s \in sources /\ s[2] = Environment(sources, s[1]) /\ s = <<s[1], s[2]>>
                                   /\ (<<s[1], "LIVE">> \in sources => s[2] = "LIVE")
  <2> SUFFICES ASSUME NEW s \in Selected(sources)
               PROVE  s \in sources /\ s[2] = Environment(sources, s[1]) /\ s = <<s[1], s[2]>>
                      /\ (<<s[1], "LIVE">> \in sources => s[2] = "LIVE")
    OBVIOUS
  <2>1. PICK t \in sources : s = <<t[1], Environment(sources, t[1])>>
    BY DEF Selected
  <2>2. s \in sources
    BY <2>1, EnvironmentIs
  <2>3. s[1] = t[1] /\ s[2] = Environment(sources, t[1])
    BY <2>1
  <2> QED
    BY <2>1, <2>2, <2>3, EnvironmentIs
<1> QED
  BY <1>1

\* Two brokers never serve one venue.
LEMMA OneServes ==
  ASSUME NEW b1, NEW b2, NEW v, ServesVenue(b1, v), ServesVenue(b2, v)
  PROVE  b1 = b2
BY DEF ServesVenue, Quotes

\* A broker that quotes something serves its own venue.
LEMMA ServesOwn ==
  ASSUME NEW b, Quotes(b) # "None"
  PROVE  ServesVenue(b, b)
<1>1. Quotes(b) \in {"OwnVenue", "NonCrypto", "None"}
  BY DEF Quotes
<1> QED
  BY <1>1 DEF ServesVenue

\* Binance is asked for its own symbols alone.
LEMMA NoBatchSpoilt ==
  ASSUME NEW b
  PROVE  ~ Refuses(b, Served(b))
<1>1. Quotes("BINANCE") = "OwnVenue"
  BY DEF Quotes
<1> QED
  BY <1>1 DEF Refuses, Served, ServesVenue


LEMMA StatsInvInit == StatsInit => StatsInv
<1> SUFFICES ASSUME StatsInit PROVE StatsInv
  OBVIOUS
<1>1. Selected(poll.sources) = {}
  BY DEF StatsInit, Selected
<1>2. poll \in Polls /\ poll.todo = {}
  BY DEF StatsInit, Polls
<1>3. prevClose \in [DOMAIN Quoted -> {Unset} \cup StatSources] /\ \A i \in DOMAIN Quoted : prevClose[i] = Unset
  BY DEF StatsInit
<1>4. registered \subseteq StatSources /\ interesting \subseteq DOMAIN Quoted /\ poll.pc = "idle"
  BY DEF StatsInit
<1>5. ClosesServed /\ SourcesAnswered
  BY <1>1, <1>3 DEF ClosesServed, SourcesAnswered
<1> QED
  BY <1>1, <1>2, <1>3, <1>4, <1>5 DEF StatsInv

\* A poll begins with no close, and all its sources still to ask.
LEMMA BeginsKeeps ==
  ASSUME StatsInv, PollBegins
  PROVE  StatsInv'
<1>1. /\ poll' = [pc |-> "asking", sources |-> registered, rows |-> interesting,
                  todo |-> Selected(registered), failed |-> {}]
      /\ prevClose' = [i \in DOMAIN Quoted |-> Unset]
      /\ registered' = registered /\ interesting' = interesting
  BY DEF PollBegins
<1>2. registered \subseteq StatSources /\ interesting \subseteq DOMAIN Quoted
  BY DEF StatsInv
<1>3. Selected(registered) \subseteq StatSources
  BY <1>2, SelectedIs
<1>4. poll' \in Polls
  BY <1>1, <1>2, <1>3 DEF Polls
<1>5. poll'.todo = Selected(poll'.sources) /\ poll'.pc # "done"
  BY <1>1
<1>6. prevClose' \in [DOMAIN Quoted -> {Unset} \cup StatSources] /\ \A i \in DOMAIN Quoted : prevClose'[i] = Unset
  BY <1>1
<1>7. ClosesServed' /\ SourcesAnswered'
  BY <1>5, <1>6 DEF ClosesServed, SourcesAnswered
<1> QED
  BY <1>1, <1>2, <1>4, <1>5, <1>6, <1>7 DEF StatsInv

\* What a source answers leaves the other sources' closes.
LEMMA AnswerKeeps ==
  ASSUME SourcesQuote, StatsInv, NEW s \in StatSources, SourceAnswers(s)
  PROVE  StatsInv'
<1> DEFINE b == s[1]
           picked == Selected(poll.sources)
<1>1. PICK S \in SymbolIds(Served(b)) : prevClose' = [i \in DOMAIN Quoted |-> IF i \in S THEN s ELSE prevClose[i]]
  BY DEF SourceAnswers
<1>2. /\ poll' = [poll EXCEPT !.todo = @ \ {s}] /\ s \in poll.todo
      /\ registered' = registered /\ interesting' = interesting
  BY DEF SourceAnswers
<1>3. /\ poll \in Polls /\ poll.todo \subseteq picked /\ (poll.pc = "done" => poll.todo = {})
      /\ prevClose \in [DOMAIN Quoted -> {Unset} \cup StatSources]
      /\ registered \subseteq StatSources /\ interesting \subseteq DOMAIN Quoted
      /\ ClosesServed /\ SourcesAnswered
  BY DEF StatsInv
<1>4. /\ poll' \in Polls /\ poll'.todo = poll.todo \ {s} /\ poll'.pc = poll.pc /\ poll'.sources = poll.sources
      /\ poll'.rows = poll.rows /\ poll'.failed = poll.failed /\ poll.sources \subseteq StatSources
      /\ poll.rows \subseteq DOMAIN Quoted
  BY <1>2, <1>3 DEF Polls
<1>5. /\ S \subseteq Served(b)
      /\ \A i \in Served(b) : \E j \in S : Quoted[j].symbol = Quoted[i].symbol
  <2>1. S \subseteq Served(b) /\ {Quoted[i].symbol : i \in S} = {Quoted[i].symbol : i \in Served(b)}
    BY DEF SymbolIds
  <2>2. ASSUME NEW i \in Served(b) PROVE \E j \in S : Quoted[j].symbol = Quoted[i].symbol
    <3>1. Quoted[i].symbol \in {Quoted[j].symbol : j \in Served(b)}
      OBVIOUS
    <3>2. Quoted[i].symbol \in {Quoted[j].symbol : j \in S}
      BY <2>1, <3>1
    <3> QED
      BY <3>2
  <2> QED
    BY <2>1, <2>2
<1>6. \A i \in S : i \in poll.rows /\ ServesVenue(b, Quoted[i].venue)
  BY <1>5 DEF Served
<1>7. prevClose' \in [DOMAIN Quoted -> {Unset} \cup StatSources]
  BY <1>1, <1>3
<1>8. /\ \A i \in DOMAIN Quoted : i \in S => prevClose'[i] = s
      /\ \A i \in DOMAIN Quoted : i \notin S => prevClose'[i] = prevClose[i]
  BY <1>1
<1> HIDE DEF b
<1>9. ClosesServed'
  <2> SUFFICES ASSUME NEW i \in DOMAIN Quoted, prevClose'[i] # Unset
               PROVE  /\ prevClose'[i] \in picked \ poll'.todo
                      /\ ServesVenue(prevClose'[i][1], Quoted[i].venue)
    BY <1>4 DEF ClosesServed
  <2>1. CASE i \in S
    BY <2>1, <1>2, <1>3, <1>4, <1>6, <1>8 DEF b
  <2>2. CASE i \notin S
    BY <2>2, <1>3, <1>4, <1>8 DEF ClosesServed
  <2> QED
    BY <2>1, <2>2
<1>10. SourcesAnswered'
  <2> SUFFICES ASSUME NEW t \in picked, t \notin poll'.todo, t \notin poll.failed, NEW i \in poll.rows,
                      Quoted[i].venue = t[1]
               PROVE  \E j \in poll.rows : Quoted[j].symbol = Quoted[i].symbol /\ prevClose'[j] = t
    BY <1>4 DEF SourcesAnswered
  <2>1. t \in StatSources /\ Quotes(t[1]) # "None"
    BY <1>4, SelectedIs DEF SourcesQuote
  <2>2. CASE t = s
    <3>1. ServesVenue(b, Quoted[i].venue)
      BY <2>1, <2>2, ServesOwn DEF b
    <3>2. i \in Served(b)
      BY <3>1 DEF Served
    <3>3. PICK j \in S : Quoted[j].symbol = Quoted[i].symbol
      BY <3>2, <1>5
    <3> QED
      BY <3>3, <2>2, <1>4, <1>6, <1>8
  <2>3. CASE t # s
    <3>1. t[1] # b
      BY <2>3, <1>2, <1>3, <1>4, SelectedIs DEF b
    <3>2. t \notin poll.todo
      BY <2>3, <1>4
    <3>3. PICK j \in poll.rows : Quoted[j].symbol = Quoted[i].symbol /\ prevClose[j] = t
      BY <3>2, <1>3 DEF SourcesAnswered
    <3>4. t # Unset
      BY <2>1 DEF Unset, Quotes
    <3>5. j \in DOMAIN Quoted /\ ServesVenue(t[1], Quoted[j].venue)
      BY <3>3, <3>4, <1>3, <1>4 DEF ClosesServed
    <3>6. j \notin S
      BY <3>1, <3>5, <1>6, OneServes
    <3> QED
      BY <3>3, <3>5, <3>6, <1>8
  <2> QED
    BY <2>2, <2>3
<1> QED
  BY <1>2, <1>3, <1>4, <1>7, <1>9, <1>10 DEF StatsInv

\* A source passed over had nothing to serve, or has failed.
LEMMA PassedKeeps ==
  ASSUME SourcesQuote, StatsInv, NEW s \in StatSources, SourcePassed(s)
  PROVE  StatsInv'
<1> DEFINE picked == Selected(poll.sources)
           failed == IF Served(s[1]) = {} \/ Refuses(s[1], Served(s[1])) THEN poll.failed ELSE poll.failed \cup {s}
<1>1. /\ poll' = [poll EXCEPT !.todo = @ \ {s}, !.failed = failed]
      /\ s \in poll.todo /\ registered' = registered /\ interesting' = interesting /\ prevClose' = prevClose
  BY DEF SourcePassed
<1>2. /\ poll \in Polls /\ poll.todo \subseteq picked /\ (poll.pc = "done" => poll.todo = {})
      /\ prevClose \in [DOMAIN Quoted -> {Unset} \cup StatSources]
      /\ registered \subseteq StatSources /\ interesting \subseteq DOMAIN Quoted
      /\ ClosesServed /\ SourcesAnswered
  BY DEF StatsInv
<1>3. failed \subseteq StatSources /\ poll.failed \subseteq failed
  BY <1>2 DEF Polls
<1>4. Served(s[1]) # {} => s \in failed
  BY NoBatchSpoilt
<1> HIDE DEF failed
<1>5. /\ poll' \in Polls /\ poll'.todo = poll.todo \ {s} /\ poll'.pc = poll.pc /\ poll'.sources = poll.sources
      /\ poll'.rows = poll.rows /\ poll'.failed = failed /\ poll.sources \subseteq StatSources
  BY <1>1, <1>2, <1>3 DEF Polls
<1>6. ClosesServed'
  BY <1>1, <1>2, <1>5 DEF ClosesServed
<1>7. SourcesAnswered'
  <2> SUFFICES ASSUME NEW t \in picked, t \notin poll'.todo, t \notin failed, NEW i \in poll.rows,
                      Quoted[i].venue = t[1]
               PROVE  \E j \in poll.rows : Quoted[j].symbol = Quoted[i].symbol /\ prevClose[j] = t
    BY <1>1, <1>5 DEF SourcesAnswered
  <2>1. CASE t = s
    <3>1. ServesVenue(s[1], Quoted[i].venue)
      BY <2>1, ServesOwn DEF SourcesQuote
    <3>2. Served(s[1]) # {}
      BY <3>1 DEF Served
    <3> QED
      BY <3>2, <2>1, <1>4
  <2>2. CASE t # s
    BY <2>2, <1>2, <1>3, <1>5 DEF SourcesAnswered
  <2> QED
    BY <2>1, <2>2
<1> QED
  BY <1>1, <1>2, <1>5, <1>6, <1>7 DEF StatsInv

LEMMA StatsInvStep == SourcesQuote /\ StatsInv /\ [StatsNext]_statsVars => StatsInv'
<1> SUFFICES ASSUME SourcesQuote, StatsInv, [StatsNext]_statsVars PROVE StatsInv'
  OBVIOUS
<1>1. CASE Interest
  BY <1>1, SMTT(30) DEF Interest, StatsInv, ClosesServed, SourcesAnswered, Selected, Environment
<1>2. CASE PublishSources
  BY <1>2 DEF PublishSources, StatsInv, ClosesServed, SourcesAnswered
<1>3. CASE PollEnds
  <2>1. /\ poll' \in Polls /\ poll'.todo = poll.todo /\ poll.todo = {} /\ poll'.sources = poll.sources
        /\ poll'.rows = poll.rows /\ poll'.failed = poll.failed
    BY <1>3 DEF PollEnds, StatsInv, Polls
  <2>2. registered' = registered /\ interesting' = interesting /\ prevClose' = prevClose
    BY <1>3 DEF PollEnds
  <2> QED
    BY <2>1, <2>2 DEF StatsInv, ClosesServed, SourcesAnswered
<1>4. CASE UNCHANGED statsVars
  BY <1>4 DEF statsVars, StatsInv, ClosesServed, SourcesAnswered
<1> QED
  BY <1>1, <1>2, <1>3, <1>4, BeginsKeeps, AnswerKeeps, PassedKeeps DEF StatsNext

LEMMA StatsSafe == StatsInv => ClosesAreOwn
<1> SUFFICES ASSUME StatsInv, poll.pc = "done"
             PROVE  /\ \A i \in DOMAIN Quoted : prevClose[i] # Unset =>
                         /\ Quoted[i].venue = prevClose[i][1] \/ Quotes(Quoted[i].venue) # "OwnVenue"
                         /\ <<prevClose[i][1], "LIVE">> \in poll.sources => prevClose[i][2] = "LIVE"
                    /\ \A s \in Selected(poll.sources) \ poll.failed, i \in poll.rows :
                         Quoted[i].venue = s[1] =>
                           \E j \in poll.rows : Quoted[j].symbol = Quoted[i].symbol /\ prevClose[j] = s
  BY DEF ClosesAreOwn
<1>1. poll.todo = {} /\ poll.sources \subseteq StatSources /\ ClosesServed /\ SourcesAnswered
  BY DEF StatsInv, Polls
<1>2. ASSUME NEW i \in DOMAIN Quoted, prevClose[i] # Unset
      PROVE  /\ Quoted[i].venue = prevClose[i][1] \/ Quotes(Quoted[i].venue) # "OwnVenue"
             /\ <<prevClose[i][1], "LIVE">> \in poll.sources => prevClose[i][2] = "LIVE"
  <2>1. prevClose[i] \in Selected(poll.sources) /\ ServesVenue(prevClose[i][1], Quoted[i].venue)
    BY <1>1, <1>2 DEF ClosesServed
  <2> QED
    BY <2>1, <1>1, SelectedIs DEF ServesVenue
<1> QED
  BY <1>1, <1>2 DEF SourcesAnswered


-----------------------------------------------------------------------------
(* The mark                                                                *)

Sides == {"bid", "ask"}

\* Bybit's feed knows of a side what its book has, or nothing; a message under way
\* tells it every other change there was.
BybitFollows ==
  /\ bybit \in [book : BybitBooks, msgs : Seq([snapshot : BOOLEAN, sides : SUBSET Sides, book : BybitBooks]),
                top : [Sides -> 0..2], wrong : BOOLEAN]
  /\ ~ bybit.wrong
  /\ bybit.msgs = <<>> => \A x \in Sides : bybit.top[x] \in {0, bybit.book[x]}
  /\ bybit.msgs # <<>> =>
       /\ Len(bybit.msgs) = 1 /\ Head(bybit.msgs).book = bybit.book
       /\ \A x \in Sides : \/ x \in Head(bybit.msgs).sides
                           \/ Head(bybit.msgs).snapshot
                           \/ bybit.top[x] \in {0, bybit.book[x]}

QuotesSent == [source : Sources, usable : BOOLEAN, at : Nat]

RouterTypes ==
  /\ pricing \subseteq Sources /\ second \in Nat
  /\ emitting \in [Sources -> {NoQuote} \cup QuotesSent]
  /\ quotes \in Seq(QuotesSent)
  /\ active \in [source : Sources \cup {"none"}, at : Nat]
  /\ routed \in [Sources -> Nat]

\* A source's quotes reach the router in the order they were received.
InOrder ==
  /\ \A s \in Sources : emitting[s] # NoQuote => emitting[s].source = s /\ emitting[s].at <= second
  /\ \A i \in 1..Len(quotes) :
       /\ quotes[i].at <= second
       /\ \A s \in Sources : emitting[s] # NoQuote /\ quotes[i].source = s => quotes[i].at <= emitting[s].at
       /\ \A j \in 1..Len(quotes) : i <= j /\ quotes[i].source = quotes[j].source => quotes[i].at <= quotes[j].at

\* What the owner still sends is no older than the mark.
OwnerLast ==
  /\ active.at <= second
  /\ \A s \in Sources : emitting[s] # NoQuote /\ s = active.source => active.at <= emitting[s].at
  /\ \A i \in 1..Len(quotes) : quotes[i].source = active.source => active.at <= quotes[i].at
  /\ active.source = "none" => \A s \in Sources : routed[s] = 0

OwnerBest == \A s \in Sources : routed[s] > 0 =>
               Rank[active.source] <= Rank[s] /\ routed[s] < active.at + StaleAfter

RouterInv == RouterTypes /\ InOrder /\ OwnerLast /\ OwnerBest /\ BybitFollows

LEMMA RouterInvInit == RouterInit => RouterInv
<1> SUFFICES ASSUME RouterInit PROVE RouterInv
  OBVIOUS
<1>1. RouterTypes
  BY DEF RouterInit, RouterTypes, NoQuote, Sources
<1>2. quotes = <<>> /\ Len(quotes) = 0 /\ \A s \in Sources : emitting[s] = NoQuote /\ routed[s] = 0
  BY DEF RouterInit
<1>3. active.at = 0 /\ second = 1
  BY DEF RouterInit
<1>4. InOrder /\ OwnerLast /\ OwnerBest
  BY <1>2, <1>3 DEF InOrder, OwnerLast, OwnerBest
<1>5. BybitFollows
  <2>1. bybit = [book |-> [bid |-> 1, ask |-> 2], msgs |-> <<>>, top |-> [bid |-> 0, ask |-> 0], wrong |-> FALSE]
    BY DEF RouterInit
  <2>2. [bid |-> 0, ask |-> 0] \in [Sides -> 0..2] /\ [bid |-> 1, ask |-> 2] \in BybitBooks
    BY DEF Sides, BybitBooks
  <2>3. \A x \in Sides : bybit.top[x] = 0
    BY <2>1 DEF Sides
  <2> QED
    BY <2>1, <2>2, <2>3 DEF BybitFollows
<1> QED
  BY <1>1, <1>4, <1>5 DEF RouterInv


\* A quote is emitted with the time it was received.
LEMMA EmitKeeps ==
  ASSUME RouterInv, NEW s \in Sources, NEW bid, NEW ask, EmitQuote(s, bid, ask),
         UNCHANGED <<pricing, second, quotes, active, routed>>
  PROVE  (RouterTypes /\ InOrder /\ OwnerLast /\ OwnerBest)'
<1> DEFINE q == [source |-> s, usable |-> IsUsable(bid, ask), at |-> second]
<1>1. /\ RouterTypes /\ InOrder /\ OwnerLast /\ OwnerBest
      /\ emitting' = [emitting EXCEPT ![s] = q]
  BY DEF RouterInv, EmitQuote
<1>2. q \in QuotesSent /\ q.source = s /\ q.at = second
  BY <1>1 DEF QuotesSent, RouterTypes, IsUsable
<1> HIDE DEF q
<1>3. /\ emitting' \in [Sources -> {NoQuote} \cup QuotesSent] /\ emitting'[s] = q
      /\ \A t \in Sources : t # s => emitting'[t] = emitting[t]
  BY <1>1, <1>2 DEF RouterTypes
<1>4. RouterTypes'
  BY <1>1, <1>3 DEF RouterTypes
<1>5. second \in Nat /\ active.at \in Nat /\ \A i \in 1..Len(quotes) : quotes[i].at \in Nat
  <2>1. quotes \in Seq(QuotesSent) /\ second \in Nat /\ active \in [source : Sources \cup {"none"}, at : Nat]
    BY <1>1 DEF RouterTypes
  <2>2. \A i \in 1..Len(quotes) : quotes[i] \in QuotesSent
    BY <2>1
  <2> QED
    BY <2>1, <2>2 DEF QuotesSent
<1>6. InOrder'
  <2>1. \A t \in Sources : emitting'[t] # NoQuote => emitting'[t].source = t /\ emitting'[t].at <= second
    BY <1>1, <1>2, <1>3, <1>5 DEF InOrder
  <2>2. \A i \in 1..Len(quotes) : \A t \in Sources :
          emitting'[t] # NoQuote /\ quotes[i].source = t => quotes[i].at <= emitting'[t].at
    BY <1>1, <1>2, <1>3, <1>5 DEF InOrder
  <2> QED
    BY <1>1, <2>1, <2>2 DEF InOrder
<1>7. OwnerLast'
  <2>1. \A t \in Sources : emitting'[t] # NoQuote /\ t = active.source => active.at <= emitting'[t].at
    BY <1>1, <1>2, <1>3, <1>5 DEF OwnerLast
  <2> QED
    BY <1>1, <2>1 DEF OwnerLast
<1>8. OwnerBest'
  BY <1>1 DEF OwnerBest
<1> QED
  BY <1>4, <1>6, <1>7, <1>8

LEMMA SendKeeps ==
  ASSUME RouterInv, NEW s \in pricing, SendQuote(s)
  PROVE  RouterInv'
<1>1. /\ RouterTypes /\ InOrder /\ OwnerLast /\ OwnerBest /\ BybitFollows /\ s \in Sources
      /\ emitting[s] # NoQuote /\ quotes' = Append(quotes, emitting[s])
      /\ emitting' = [emitting EXCEPT ![s] = NoQuote]
      /\ pricing' = pricing /\ second' = second /\ bybit' = bybit /\ active' = active /\ routed' = routed
  BY DEF RouterInv, SendQuote, RouterTypes
<1> DEFINE q == emitting[s]
           n == Len(quotes)
<1>2. q \in QuotesSent /\ q.source = s /\ q.at <= second
  BY <1>1 DEF RouterTypes, InOrder
<1>3. /\ quotes' \in Seq(QuotesSent) /\ Len(quotes') = n + 1 /\ n \in Nat /\ quotes'[n + 1] = q
      /\ \A i \in 1..n : quotes'[i] = quotes[i]
  BY <1>1, <1>2 DEF RouterTypes
<1>4. /\ emitting' \in [Sources -> {NoQuote} \cup QuotesSent] /\ emitting'[s] = NoQuote
      /\ \A t \in Sources : t # s => emitting'[t] = emitting[t]
  BY <1>1 DEF RouterTypes
<1>5. /\ \A i \in 1..n : quotes[i] \in QuotesSent
      /\ \A i \in 1..n : quotes[i].source = s => quotes[i].at <= q.at
      /\ second \in Nat
  <2>1. quotes \in Seq(QuotesSent) /\ second \in Nat
    BY <1>1 DEF RouterTypes
  <2>2. \A i \in 1..n : quotes[i].source = s => quotes[i].at <= q.at
    BY <1>1 DEF InOrder
  <2> QED
    BY <2>1, <2>2
<1> HIDE DEF q, n
<1>6. RouterTypes'
  BY <1>1, <1>3, <1>4 DEF RouterTypes
<1>7. InOrder'
  <2>1. \A t \in Sources : emitting'[t] # NoQuote => emitting'[t].source = t /\ emitting'[t].at <= second
    BY <1>1, <1>4 DEF InOrder
  <2>2. ASSUME NEW i \in 1..(n + 1)
        PROVE  /\ quotes'[i].at <= second
               /\ \A t \in Sources : emitting'[t] # NoQuote /\ quotes'[i].source = t => quotes'[i].at <= emitting'[t].at
               /\ \A j \in 1..(n + 1) : i <= j /\ quotes'[i].source = quotes'[j].source => quotes'[i].at <= quotes'[j].at
    <3>1. CASE i = n + 1
      <4>1. \A j \in 1..(n + 1) : i <= j => j = i
        BY <1>3, <3>1
      <4>2. q.at <= q.at
        BY <1>2 DEF QuotesSent
      <4> QED
        BY <3>1, <4>1, <4>2, <1>2, <1>3, <1>4
    <3>2. CASE i # n + 1
      <4>1. i \in 1..n /\ quotes'[i] = quotes[i]
        BY <3>2, <1>3
      <4>2. /\ quotes[i].at <= second
            /\ \A t \in Sources : emitting[t] # NoQuote /\ quotes[i].source = t => quotes[i].at <= emitting[t].at
            /\ \A j \in 1..n : i <= j /\ quotes[i].source = quotes[j].source => quotes[i].at <= quotes[j].at
        BY <4>1, <1>1 DEF InOrder, n
      <4>3. \A j \in 1..(n + 1) : j \in 1..n \/ j = n + 1
        BY <1>3
      <4>4. \A j \in 1..(n + 1) : i <= j /\ quotes'[i].source = quotes'[j].source => quotes'[i].at <= quotes'[j].at
        BY <4>1, <4>2, <4>3, <1>2, <1>3, <1>5
      <4> QED
        BY <4>1, <4>2, <4>4, <1>4
    <3> QED
      BY <3>1, <3>2
  <2> QED
    BY <1>1, <1>3, <2>1, <2>2 DEF InOrder
<1>8. OwnerLast'
  <2>1. \A t \in Sources : emitting'[t] # NoQuote /\ t = active.source => active.at <= emitting'[t].at
    BY <1>1, <1>4 DEF OwnerLast
  <2>2. \A i \in 1..(n + 1) : quotes'[i].source = active.source => active.at <= quotes'[i].at
    <3> SUFFICES ASSUME NEW i \in 1..(n + 1), quotes'[i].source = active.source
                 PROVE  active.at <= quotes'[i].at
      OBVIOUS
    <3>1. CASE i = n + 1
      BY <3>1, <1>1, <1>2, <1>3 DEF OwnerLast, q
    <3>2. CASE i # n + 1
      <4>1. i \in 1..n /\ quotes'[i] = quotes[i]
        BY <3>2, <1>3
      <4> QED
        BY <4>1, <1>1 DEF OwnerLast, n
    <3> QED
      BY <3>1, <3>2
  <2> QED
    BY <1>1, <1>3, <2>1, <2>2 DEF OwnerLast
<1>9. OwnerBest' /\ BybitFollows'
  BY <1>1 DEF OwnerBest, BybitFollows
<1> QED
  BY <1>6, <1>7, <1>8, <1>9 DEF RouterInv

\* The router drops the oldest quote, whatever it makes of it.
LEMMA TailKeeps ==
  ASSUME RouterInv, quotes # <<>>, quotes' = Tail(quotes), UNCHANGED <<pricing, second, emitting>>
  PROVE  /\ Head(quotes) \in QuotesSent /\ Head(quotes).at <= second
         /\ quotes' \in Seq(QuotesSent) /\ InOrder'
         /\ \A i \in 1..Len(quotes') : /\ i + 1 \in 1..Len(quotes) /\ quotes'[i] = quotes[i + 1]
                                       /\ quotes'[i].source = Head(quotes).source => Head(quotes).at <= quotes'[i].at
         /\ \A s \in Sources : emitting[s] # NoQuote /\ s = Head(quotes).source => Head(quotes).at <= emitting[s].at
<1>1. quotes \in Seq(QuotesSent) /\ InOrder
  BY DEF RouterInv, RouterTypes
<1> DEFINE n == Len(quotes)
<1>2. n \in Nat /\ n >= 1 /\ 1 \in 1..n /\ Head(quotes) = quotes[1]
  BY <1>1
<1>3. /\ quotes' \in Seq(QuotesSent) /\ Len(quotes') = n - 1
      /\ \A i \in 1..(n - 1) : quotes'[i] = quotes[i + 1]
  BY <1>1
<1>4. \A i \in 1..(n - 1) : i + 1 \in 1..n /\ 1 <= i + 1
  BY <1>2
<1>5. \A i, j \in 1..(n - 1) : i <= j => i + 1 <= j + 1
  BY <1>2
<1>6. \A i \in 1..n :
       /\ quotes[i] \in QuotesSent /\ quotes[i].at <= second
       /\ \A s \in Sources : emitting[s] # NoQuote /\ quotes[i].source = s => quotes[i].at <= emitting[s].at
       /\ \A j \in 1..n : i <= j /\ quotes[i].source = quotes[j].source => quotes[i].at <= quotes[j].at
  BY <1>1 DEF InOrder
<1> HIDE DEF n
<1>7. InOrder'
  <2>1. \A i \in 1..(n - 1) :
       /\ quotes'[i].at <= second
       /\ \A s \in Sources : emitting[s] # NoQuote /\ quotes'[i].source = s => quotes'[i].at <= emitting[s].at
       /\ \A j \in 1..(n - 1) : i <= j /\ quotes'[i].source = quotes'[j].source => quotes'[i].at <= quotes'[j].at
    BY <1>3, <1>4, <1>5, <1>6
  <2> QED
    BY <1>1, <1>3, <2>1 DEF InOrder
<1>8. \A i \in 1..(n - 1) : quotes'[i].source = Head(quotes).source => Head(quotes).at <= quotes'[i].at
  BY <1>2, <1>3, <1>4, <1>6
<1>9. \A i \in 1..(n - 1) : i + 1 \in 1..Len(quotes)
  BY <1>4 DEF n
<1> QED
  BY <1>2, <1>3, <1>6, <1>7, <1>8, <1>9


\* What the router makes of a quote: it skips it, turns it away, takes it from the
\* owner, or lets its source take over.
LEMMA RouteKeeps ==
  ASSUME RouterInv, RouteQuote
  PROVE  RouterInv'
<1> DEFINE q == Head(quotes)
<1>1. /\ RouterTypes /\ InOrder /\ OwnerLast /\ OwnerBest /\ BybitFollows
      /\ quotes # <<>> /\ quotes' = Tail(quotes)
      /\ pricing' = pricing /\ second' = second /\ bybit' = bybit /\ emitting' = emitting
  BY DEF RouterInv, RouteQuote
<1>2. /\ q \in QuotesSent /\ q.at <= second
      /\ quotes' \in Seq(QuotesSent) /\ InOrder'
      /\ \A i \in 1..Len(quotes') : /\ i + 1 \in 1..Len(quotes) /\ quotes'[i] = quotes[i + 1]
                                    /\ quotes'[i].source = q.source => q.at <= quotes'[i].at
      /\ \A s \in Sources : emitting[s] # NoQuote /\ s = q.source => q.at <= emitting[s].at
  BY <1>1, TailKeeps
<1>3. /\ q.source \in Sources /\ q.at \in Nat
      /\ active.source \in Sources \cup {"none"} /\ active.at \in Nat
      /\ routed \in [Sources -> Nat] /\ pricing \subseteq Sources /\ second \in Nat
      /\ emitting \in [Sources -> {NoQuote} \cup QuotesSent]
  BY <1>1, <1>2 DEF RouterTypes, QuotesSent
<1>4. StaleAfter \in Nat \ {0} /\ Rank \in [Sources -> Nat] /\ "none" \notin Sources
  BY RouterAssumption
<1>5. /\ active.at <= second
      /\ \A s \in Sources : emitting[s] # NoQuote /\ s = active.source => active.at <= emitting[s].at
      /\ active.source = "none" => \A s \in Sources : routed[s] = 0
      /\ \A s \in Sources : routed[s] > 0 => Rank[active.source] <= Rank[s] /\ routed[s] < active.at + StaleAfter
  BY <1>1 DEF OwnerLast, OwnerBest
<1>6. /\ \A i \in 1..Len(quotes) : quotes[i].source = active.source => active.at <= quotes[i].at
      /\ q.source = active.source => active.at <= q.at
  BY <1>1 DEF OwnerLast, RouterTypes
<1>7. \A i \in 1..Len(quotes') : quotes'[i].source = active.source => active.at <= quotes'[i].at
  BY <1>2, <1>6
<1>8. CASE ~ q.usable
  <2>1. active' = active /\ routed' = routed
    BY <1>8 DEF RouteQuote
  <2> QED
    BY <2>1, <1>1, <1>2, <1>7 DEF RouterInv, RouterTypes, OwnerLast, OwnerBest, BybitFollows
<1>9. CASE q.usable /\ ~ Accept(q)
  <2>1. active' = active /\ routed' = [routed EXCEPT ![q.source] = q.at]
    BY <1>9 DEF RouteQuote
  <2>2. /\ active.source # "none" /\ active.source # q.source
        /\ ~ (Rank[q.source] < Rank[active.source]) /\ ~ (q.at >= active.at + StaleAfter)
    BY <1>9 DEF Accept
  <2>3. Rank[active.source] <= Rank[q.source] /\ q.at < active.at + StaleAfter
    BY <2>2, <1>3, <1>4
  <2>4. /\ routed' \in [Sources -> Nat] /\ routed'[q.source] = q.at
        /\ \A s \in Sources : s # q.source => routed'[s] = routed[s]
    BY <2>1, <1>3
  <2>5. OwnerBest'
    BY <2>1, <2>3, <2>4, <1>5 DEF OwnerBest
  <2>6. OwnerLast'
    BY <2>1, <2>2, <1>1, <1>5, <1>7 DEF OwnerLast
  <2>7. RouterTypes'
    BY <2>1, <2>4, <1>1, <1>2 DEF RouterTypes
  <2> QED
    BY <2>5, <2>6, <2>7, <1>1, <1>2 DEF RouterInv, BybitFollows
<1>10. CASE q.usable /\ Accept(q)
  <2> DEFINE kept == IF active.source # q.source THEN [s \in Sources |-> 0] ELSE routed
  <2>1. active' = [source |-> q.source, at |-> q.at] /\ routed' = [kept EXCEPT ![q.source] = q.at]
    BY <1>10 DEF RouteQuote
  <2>2. kept \in [Sources -> Nat]
    BY <1>3
  <2>3. /\ active.source # q.source => \A s \in Sources : kept[s] = 0
        /\ active.source = q.source => kept = routed
    OBVIOUS
  <2> HIDE DEF kept
  <2>4. /\ routed' \in [Sources -> Nat] /\ routed'[q.source] = q.at
        /\ \A s \in Sources : s # q.source => routed'[s] = kept[s]
    BY <2>1, <2>2, <1>3
  <2>5. active'.source = q.source /\ active'.at = q.at /\ active' \in [source : Sources \cup {"none"}, at : Nat]
    BY <2>1, <1>3
  <2>6. RouterTypes'
    BY <2>4, <2>5, <1>1, <1>2 DEF RouterTypes
  <2>7. OwnerBest'
    <3> SUFFICES ASSUME NEW s \in Sources, routed'[s] > 0
                 PROVE  Rank[q.source] <= Rank[s] /\ routed'[s] < q.at + StaleAfter
      BY <2>5 DEF OwnerBest
    <3>1. CASE s = q.source
      BY <3>1, <2>4, <1>3, <1>4
    <3>2. CASE s # q.source
      <4>1. routed'[s] = kept[s]
        BY <3>2, <2>4
      <4>2. active.source = q.source /\ routed'[s] = routed[s]
        BY <4>1, <2>3
      <4>3. Rank[q.source] <= Rank[s] /\ routed[s] < active.at + StaleAfter /\ active.at <= q.at
        BY <4>2, <1>5, <1>6
      <4>4. routed[s] \in Nat
        BY <1>3
      <4> QED
        BY <4>2, <4>3, <4>4, <1>3, <1>4
    <3> QED
      BY <3>1, <3>2
  <2>8. OwnerLast'
    <3>1. active'.at <= second'
      BY <2>5, <1>1, <1>2
    <3>2. active'.source # "none"
      BY <2>5, <1>3, <1>4
    <3>3. \A s \in Sources : emitting'[s] # NoQuote /\ s = active'.source => active'.at <= emitting'[s].at
      BY <2>5, <1>1, <1>2
    <3>4. \A i \in 1..Len(quotes') : quotes'[i].source = active'.source => active'.at <= quotes'[i].at
      BY <2>5, <1>2
    <3> QED
      BY <3>1, <3>2, <3>3, <3>4 DEF OwnerLast
  <2> QED
    BY <2>6, <2>7, <2>8, <1>1, <1>2 DEF RouterInv, BybitFollows
<1> QED
  BY <1>8, <1>9, <1>10

LEMMA SecondKeeps ==
  ASSUME RouterInv, Second
  PROVE  RouterInv'
<1>1. /\ second' = second + 1 /\ pricing' = pricing /\ bybit' = bybit /\ emitting' = emitting
      /\ quotes' = quotes /\ active' = active /\ routed' = routed
      /\ RouterTypes /\ InOrder /\ OwnerLast /\ OwnerBest /\ BybitFollows
  BY DEF RouterInv, Second
<1>2. /\ second \in Nat /\ active.at \in Nat
      /\ emitting \in [Sources -> {NoQuote} \cup QuotesSent] /\ quotes \in Seq(QuotesSent)
  BY <1>1 DEF RouterTypes
<1>3. \A n \in Nat : n <= second => n <= second'
  BY <1>1, <1>2
<1>4. \A s \in Sources : emitting[s] # NoQuote => emitting[s].at \in Nat
  BY <1>2 DEF QuotesSent
<1>5. \A i \in 1..Len(quotes) : quotes[i].at \in Nat
  <2>1. \A i \in 1..Len(quotes) : quotes[i] \in QuotesSent
    BY <1>2
  <2> QED
    BY <2>1 DEF QuotesSent
<1>6. RouterTypes' /\ OwnerBest' /\ BybitFollows'
  BY <1>1, <1>2 DEF RouterTypes, OwnerBest, BybitFollows
<1>7. InOrder'
  BY <1>1, <1>3, <1>4, <1>5 DEF InOrder
<1>8. OwnerLast'
  BY <1>1, <1>2, <1>3 DEF OwnerLast
<1> QED
  BY <1>6, <1>7, <1>8 DEF RouterInv

-----------------------------------------------------------------------------
(* Bybit's book                                                            *)

Messages == [snapshot : BOOLEAN, sides : SUBSET Sides, book : BybitBooks]

\* A book is its two sides, as what the feed put together is.
LEMMA BooksSame ==
  ASSUME NEW b \in BybitBooks, NEW f \in [Sides -> 0..2], \A x \in Sides : f[x] = b[x]
  PROVE  f = b
<1>1. b = [bid |-> b.bid, ask |-> b.ask] /\ DOMAIN b = {"bid", "ask"}
  BY DEF BybitBooks
<1>2. f.bid = b.bid /\ f.ask = b.ask
  BY DEF Sides
<1>3. f = [x \in {"bid", "ask"} |-> f[x]]
  BY DEF Sides
<1>4. [bid |-> b.bid, ask |-> b.ask] = [x \in {"bid", "ask"} |-> IF x = "bid" THEN b.bid ELSE b.ask]
  OBVIOUS
<1>5. [x \in {"bid", "ask"} |-> f[x]] = [x \in {"bid", "ask"} |-> IF x = "bid" THEN b.bid ELSE b.ask]
  BY <1>2
<1> QED
  BY <1>1, <1>3, <1>4, <1>5

\* A session that starts keeps to it: a snapshot replaces whatever was known.
LEMMA SessionFollows ==
  ASSUME BybitFollows, BybitSession
  PROVE  BybitFollows'
<1> DEFINE m == [snapshot |-> TRUE, book |-> bybit.book, sides |-> {x \in {"bid", "ask"} : bybit.book[x] # 0}]
           zero == [bid |-> 0, ask |-> 0]
<1>1. bybit' = [bybit EXCEPT !.msgs = <<m>>, !.top = zero]
  BY DEF BybitSession
<1>2. /\ bybit \in [book : BybitBooks, msgs : Seq(Messages), top : [Sides -> 0..2], wrong : BOOLEAN]
      /\ ~ bybit.wrong
  BY DEF BybitFollows, Messages
<1>3. m \in Messages /\ zero \in [Sides -> 0..2] /\ m.snapshot /\ m.book = bybit.book
  BY <1>2 DEF Messages, Sides
<1> HIDE DEF m, zero
<1>4. <<m>> \in Seq(Messages) /\ Len(<<m>>) = 1 /\ Head(<<m>>) = m /\ <<m>> # <<>>
  BY <1>3
<1>5. /\ bybit' \in [book : BybitBooks, msgs : Seq(Messages), top : [Sides -> 0..2], wrong : BOOLEAN]
      /\ bybit'.book = bybit.book /\ bybit'.msgs = <<m>> /\ bybit'.wrong = bybit.wrong
  BY <1>1, <1>2, <1>3, <1>4
<1> QED
  BY <1>2, <1>3, <1>4, <1>5 DEF BybitFollows, Messages

\* The book moves: the message has the sides that changed, the feed knows the others.
LEMMA MoveFollows ==
  ASSUME BybitFollows, BookMoves
  PROVE  BybitFollows'
<1>1. PICK b \in BybitBooks :
        bybit' = [bybit EXCEPT !.book = b,
                    !.msgs = Append(@, [snapshot |-> FALSE, sides |-> {x \in {"bid", "ask"} : b[x] # bybit.book[x]},
                                        book |-> b])]
  BY DEF BookMoves
<1> DEFINE m == [snapshot |-> FALSE, sides |-> {x \in {"bid", "ask"} : b[x] # bybit.book[x]}, book |-> b]
<1>2. /\ bybit \in [book : BybitBooks, msgs : Seq(Messages), top : [Sides -> 0..2], wrong : BOOLEAN]
      /\ ~ bybit.wrong /\ bybit.msgs = <<>> /\ \A x \in Sides : bybit.top[x] \in {0, bybit.book[x]}
  BY DEF BybitFollows, Messages, BookMoves
<1>3. m \in Messages /\ m.book = b /\ \A x \in Sides : x \notin m.sides => b[x] = bybit.book[x]
  BY DEF Messages, Sides
<1>4. bybit' = [bybit EXCEPT !.book = b, !.msgs = Append(@, m)]
  BY <1>1
<1> HIDE DEF m
<1>5. Append(<<>>, m) = <<m>> /\ <<m>> \in Seq(Messages) /\ Len(<<m>>) = 1 /\ Head(<<m>>) = m /\ <<m>> # <<>>
  BY <1>3
<1>6. /\ bybit' \in [book : BybitBooks, msgs : Seq(Messages), top : [Sides -> 0..2], wrong : BOOLEAN]
      /\ bybit'.book = b /\ bybit'.msgs = <<m>> /\ bybit'.wrong = bybit.wrong /\ bybit'.top = bybit.top
  BY <1>2, <1>4, <1>5
<1> QED
  BY <1>2, <1>3, <1>5, <1>6 DEF BybitFollows, Messages

\* A whole top is the book's.
LEMMA ReadFollows ==
  ASSUME BybitFollows, BybitReadsBook
  PROVE  BybitFollows'
<1> DEFINE m == Head(bybit.msgs)
           top == TopAfter(bybit.top, m)
           whole == top.bid # 0 /\ top.ask # 0
<1>1. bybit' = [bybit EXCEPT !.msgs = Tail(@), !.top = top, !.wrong = @ \/ (whole /\ top # m.book)]
  BY DEF BybitReadsBook
<1>2. /\ bybit \in [book : BybitBooks, msgs : Seq(Messages), top : [Sides -> 0..2], wrong : BOOLEAN]
      /\ ~ bybit.wrong /\ bybit.msgs # <<>> /\ Len(bybit.msgs) = 1 /\ m.book = bybit.book
      /\ \A x \in Sides : x \in m.sides \/ m.snapshot \/ bybit.top[x] \in {0, bybit.book[x]}
  BY DEF BybitFollows, Messages, BybitReadsBook
<1>3. m \in Messages /\ Tail(bybit.msgs) = <<>>
  <2>1. bybit.msgs \in Seq(Messages)
    BY <1>2
  <2>2. m \in Messages /\ Tail(bybit.msgs) \in Seq(Messages) /\ Len(Tail(bybit.msgs)) = 0
    BY <1>2, <2>1, HeadTailProperties
  <2> QED
    BY <2>2, EmptySeq
<1>4. \A x \in Sides : bybit.book[x] \in 0..2
  BY <1>2 DEF BybitBooks, Sides
<1>5. top = [x \in Sides |-> IF x \in m.sides THEN m.book[x] ELSE IF m.snapshot THEN 0 ELSE bybit.top[x]]
  BY DEF TopAfter, Sides
<1> HIDE DEF m, top
<1>6. \A x \in Sides : top[x] \in {0, bybit.book[x]} /\ top[x] \in 0..2
  BY <1>2, <1>4, <1>5
<1>7. top \in [Sides -> 0..2]
  BY <1>5, <1>6
<1>8. whole => top = m.book
  <2> SUFFICES ASSUME whole PROVE top = m.book
    OBVIOUS
  <2>1. \A x \in Sides : top[x] = bybit.book[x]
    BY <1>6 DEF Sides
  <2>2. bybit.book \in BybitBooks
    BY <1>2
  <2> QED
    BY <1>2, <1>7, <2>1, <2>2, BooksSame
<1>9. ~ (whole /\ top # m.book)
  BY <1>8
<1> HIDE DEF whole
<1>10. bybit' = [bybit EXCEPT !.msgs = <<>>, !.top = top, !.wrong = FALSE]
  BY <1>1, <1>2, <1>3, <1>9
<1>11. /\ bybit' \in [book : BybitBooks, msgs : Seq(Messages), top : [Sides -> 0..2], wrong : BOOLEAN]
       /\ bybit'.book = bybit.book /\ bybit'.msgs = <<>> /\ ~ bybit'.wrong /\ bybit'.top = top
  <2>1. <<>> \in Seq(Messages)
    OBVIOUS
  <2> QED
    BY <1>2, <1>7, <1>10, <2>1
<1> QED
  BY <1>6, <1>11 DEF BybitFollows, Messages


\* Bybit's messages move no quote that is under way.
LEMMA BybitLeaves ==
  ASSUME RouterInv, BybitFollows', UNCHANGED <<pricing, second, emitting, quotes, active, routed>>
  PROVE  RouterInv'
BY DEF RouterInv, RouterTypes, InOrder, OwnerLast, OwnerBest

LEMMA RouterInvStep == RouterInv /\ [RouterNext]_routerVars => RouterInv'
<1> SUFFICES ASSUME RouterInv, [RouterNext]_routerVars PROVE RouterInv'
  OBVIOUS
<1>1. pricing \subseteq Sources /\ BybitFollows
  BY DEF RouterInv, RouterTypes
<1>2. ASSUME NEW s \in Sources, NEW bid, NEW ask, EmitQuote(s, bid, ask),
             UNCHANGED <<pricing, second, bybit, quotes, active, routed>>
      PROVE  RouterInv'
  <2>1. (RouterTypes /\ InOrder /\ OwnerLast /\ OwnerBest)'
    BY <1>2, EmitKeeps
  <2>2. BybitFollows'
    BY <1>1, <1>2 DEF BybitFollows
  <2> QED
    BY <2>1, <2>2 DEF RouterInv
<1>3. CASE BinanceQuote
  BY <1>1, <1>2, <1>3 DEF BinanceQuote
<1>4. CASE OkxQuote
  BY <1>1, <1>2, <1>4 DEF OkxQuote
<1>5. CASE CoinbaseQuote
  BY <1>1, <1>2, <1>5 DEF CoinbaseQuote
<1>6. CASE OpraQuote
  BY <1>1, <1>2, <1>6 DEF OpraQuote
<1>7. CASE BookMoves
  BY <1>1, <1>7, MoveFollows, BybitLeaves DEF BookMoves
<1>8. CASE BybitSession
  BY <1>1, <1>8, SessionFollows, BybitLeaves DEF BybitSession
<1>9. CASE BybitReadsBook
  <2>1. BybitFollows'
    BY <1>1, <1>9, ReadFollows
  <2>2. UNCHANGED <<pricing, second, quotes, active, routed>>
    BY <1>9 DEF BybitReadsBook
  <2>3. CASE UNCHANGED emitting
    BY <2>1, <2>2, <2>3, BybitLeaves
  <2>4. CASE ~ UNCHANGED emitting
    <3>1. PICK bid, ask : EmitQuote("BYBIT", bid, ask)
      BY <1>9, <2>4 DEF BybitReadsBook
    <3>2. "BYBIT" \in Sources
      BY <3>1, <2>4, <1>1 DEF EmitQuote, RouterInv, RouterTypes
    <3> QED
      BY <2>1, <2>2, <3>1, <3>2, EmitKeeps DEF RouterInv
  <2> QED
    BY <2>3, <2>4
<1>10. CASE UNCHANGED routerVars
  BY <1>1, <1>10, BybitLeaves DEF routerVars, BybitFollows
<1> QED
  BY <1>3, <1>4, <1>5, <1>6, <1>7, <1>8, <1>9, <1>10, SendKeeps, RouteKeeps, SecondKeeps DEF RouterNext

\* The prices positions are valued at are right, whatever quotes, sessions, books
\* and reloads come in what order, however ranked the sources and whatever is
\* quoted (mark_router.rs run, bybit.rs level, daily_stats_poller.rs poll_once),
\* where a source registered for the previous closes is a broker's that quotes.
THEOREM PricesSafe == SourcesQuote => (MCSpec => []PricesRight)
<1> SUFFICES ASSUME SourcesQuote PROVE MCSpec => []PricesRight
  OBVIOUS
<1> DEFINE IInv == RouterInv /\ StatsInv
<1>1. MCInit => IInv
  BY RouterInvInit, StatsInvInit DEF MCInit
<1>2. IInv /\ [MCNext]_allVars => IInv'
  <2> SUFFICES ASSUME IInv, [MCNext]_allVars PROVE IInv'
    OBVIOUS
  <2>1. [RouterNext]_routerVars /\ [StatsNext]_statsVars
    BY DEF MCNext, BookPart, FeedsPart, RouterPart, StatsPart, allVars
  <2> QED
    BY <2>1, RouterInvStep, StatsInvStep
<1>3. IInv => PricesRight
  BY StatsSafe DEF RouterInv, BybitFollows, OwnerBest, MarkIsBest, PricesRight
<1> QED
  BY <1>1, <1>2, <1>3, PTL DEF MCSpec

=============================================================================

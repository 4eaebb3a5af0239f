-------------------------- MODULE OrderPathProofs --------------------------
(***************************************************************************)
(* One order between the OMS and its venue, for every quantity, every      *)
(* bound on faults, losses and cancels and every capacity of the channels. *)
(*                                                                         *)
(* PathInv is inductive by itself: the row is what the stream folds to and *)
(* a snapshot as new as the stream is the row (BookInv), every message,    *)
(* report and belief of recon is still true of the venue, and until the    *)
(* venue closes nothing is counted twice (OnceWhileOpen).  It gives        *)
(* RowIsFold and ClosedOnlyAfterVenue.                                     *)
(*                                                                         *)
(* CountInv and ExactInv rest on it.  Fills in flight plus fills booked    *)
(* count what the venue executed, except after recon has sent a final      *)
(* state: then the reports in hand end the order (Ends) before a fill in   *)
(* flight can be booked again.  They give AllExecutionsBooked.             *)
(*                                                                         *)
(* At the end the order path is shown to implement the aggregate: a task   *)
(* decides on the row it read, and appends only if that is still the row,  *)
(* which while the order lives is what the stream folds to.                *)
(***************************************************************************)
EXTENDS OrderPath, FoldProofs, SequenceTheorems

-----------------------------------------------------------------------------
(* The row, its stream and what the tasks read of it                       *)

Tasks == {"submit", "cancel", "engine"}

Places == {"idle", "call", "sent", "route", "record_id", "route_write", "undo", "done",
           "write", "apply", "apply_write"}

TaskState == [pc : Places, snap : OrderState, tries : Nat]

Holding == {"route_write", "write", "apply_write"}

RowOK ==
  /\ GoodState(row) /\ log \in Seq(OrderDomainEvent) /\ ext \in BOOLEAN
  /\ row.version = Len(log)
  /\ row.resume_to_status = "none" /\ row.status # "suspended"
  /\ row.status # "none" => row.original_qty = Qty
  /\ row.status = "none" => row = NoOrder
  /\ row.status \in LiveStatus => row.cum_qty < Qty
  /\ position = row.cum_qty

\* While the order lives its row is exactly what the events fold to.
FoldOK ==
  LET s == Rehydrate(log) IN
  /\ row.status \notin TerminalStatus => s = row
  /\ s.status = row.status /\ s.version = row.version
  /\ s.cum_qty = row.cum_qty /\ s.notional = row.notional

\* What a task read is no newer than the stream, and is the row if it is as new.
SnapOK ==
  /\ task \in [Tasks -> TaskState]
  /\ \A t \in Tasks : task[t].pc \in Holding =>
       /\ task[t].snap.version <= Len(log)
       /\ task[t].snap.version = Len(log) => task[t].snap = row

BookInv == RowOK /\ FoldOK /\ SnapOK

-----------------------------------------------------------------------------
(* The venue, the call and what each party may believe of them             *)

VenueOK ==
  /\ venue \in [style : Style, status : ClosedAtVenue \cup {"absent", "open"}, exec : 0..Qty,
                cancelAsked : BOOLEAN]
  /\ venue.style \in VenueStyles
  /\ venue.status = "absent" => venue.exec = 0
  /\ venue.status = "filled" <=> venue.exec = Qty

WireOK ==
  /\ wire \in {"none", "request", "accepted", "rejected"}
  /\ task["submit"].pc \in {"idle", "call", "sent", "route", "record_id", "route_write", "undo", "done"}
  /\ task["cancel"].pc \in {"idle", "write"}
  /\ task["engine"].pc \in {"idle", "route", "record_id", "route_write", "apply", "apply_write"}
  /\ At("submit", "idle") <=> row.status = "none"
  /\ task["submit"].pc \in {"idle", "call"} => wire = "none" /\ venue.status = "absent"
  /\ At("submit", "sent") => wire # "none"
  /\ wire \in {"request", "rejected"} => venue.status = "absent"
  /\ wire \in {"accepted", "rejected"} => At("submit", "sent")
  /\ wire = "accepted" => venue.status # "absent"
  /\ task["submit"].pc \in {"route", "record_id", "route_write", "undo"} => venue.status # "absent"
  /\ task["engine"].pc \in {"route", "record_id", "route_write"} => venue.status # "absent"
  /\ row.status \in {"routed", "partially_filled"} => venue.status # "absent"

\* The venue holds nothing of the order and never will again.
Over ==
  /\ venue.status # "open" /\ wire # "request"
  /\ task["submit"].pc \notin {"idle", "call"}

ReconOK ==
  /\ recon \in [pc : {"idle", "load_stuck", "snapshot", "act"}, working : BOOLEAN,
                stuck : BOOLEAN, open : BOOLEAN]
  /\ recon.stuck => wire = "none" /\ task["submit"].pc \notin {"idle", "call", "sent"}
  /\ recon.working \/ recon.open => venue.status # "absent"
  /\ recon.pc = "act" /\ (recon.stuck \/ recon.working) /\ ~ recon.open => venue.status # "open"

Bare(m) == m.kind \in {"canceled", "rejected"}

\* What a message on its way may say.
MessageOK(m) ==
  /\ m \in Message
  /\ m.kind \notin {"canceled", "rejected"} => venue.status # "absent"
  /\ m.kind = "fill" => m.qty > 0 /\ venue.style \in {"report", "mixed"}
  /\ m.kind = "cumulative" => m.qty <= venue.exec /\ venue.style \in {"state", "blind"}
  /\ m.kind = "terminal" =>
       venue.status \in ClosedAtVenue /\ m.qty = venue.exec /\ m.outcome = venue.status
  /\ Bare(m) => Over

IsClose(r) == r.type \in {"canceled", "reject"}

\* The reports of one event: a fill, a close, or a fill and a close.
ReportsOK ==
  /\ reports \in Seq(Report) /\ Len(reports) <= 2
  /\ reports = <<>> <=> task["engine"].pc \notin {"apply", "apply_write"}
  /\ \A i \in DOMAIN reports :
       /\ reports[i].type = "fill" => i = 1 /\ reports[i].qty > 0
       /\ IsClose(reports[i]) => i = Len(reports) /\ Over
       /\ venue.status # "absent" \/ IsClose(reports[i])

FlightOK ==
  /\ stream \in Seq(Message) /\ queue \in Seq(Message)
  /\ \A i \in DOMAIN stream : MessageOK(stream[i])
  /\ \A i \in DOMAIN queue : MessageOK(queue[i])

SpentOK ==
  /\ spent \in [faults : Seq(FaultKind), losses : Nat, cancels : Nat]
  /\ At("cancel", "write") => spent.cancels > 0

-----------------------------------------------------------------------------
(* What is booked, and what is on its way to be booked                     *)

FillQty(m) == IF m.kind = "fill" THEN m.qty ELSE 0

FillSum(s) == SumOf([i \in DOMAIN s |-> FillQty(s[i])])

Reported == IF reports # <<>> /\ reports[1].type = "fill" THEN reports[1].qty ELSE 0

InFlight == FillSum(queue) + FillSum(stream)

\* Until the venue closes the order, nothing is reported twice.
OnceWhileOpen ==
  venue.status \notin ClosedAtVenue => row.cum_qty + Reported + InFlight <= venue.exec

ClosedOver == row.status \in TerminalStatus /\ spent.cancels = 0 => Over

PathInv == /\ BookInv /\ VenueOK /\ WireOK /\ ReconOK /\ ReportsOK /\ FlightOK /\ SpentOK
           /\ OnceWhileOpen /\ ClosedOver

LEMMA TheBook ==
  ASSUME BookInv
  PROVE  RowOK /\ FoldOK /\ SnapOK
BY DEF BookInv

-----------------------------------------------------------------------------
(* The fills in a sequence of messages                                     *)

FillsIn(s) == [i \in DOMAIN s |-> FillQty(s[i])]

LEMMA FillsInType ==
  ASSUME NEW s \in Seq(Message)
  PROVE  /\ FillsIn(s) \in Seq(Nat) /\ FillsIn(s) \in Seq(Int) /\ Len(FillsIn(s)) = Len(s)
         /\ \A i \in 1..Len(s) : FillsIn(s)[i] = FillQty(s[i])
         /\ FillSum(s) = SumOf(FillsIn(s))
<1>1. \A i \in 1..Len(s) : s[i] \in Message
  OBVIOUS
<1>2. \A m \in Message : FillQty(m) \in Nat
  BY PathAssumption DEF Message, FillQty
<1>3. FillsIn(s) = [i \in 1..Len(s) |-> FillQty(s[i])] /\ Len(s) \in Nat
  BY DEF FillsIn
<1>4. \A i \in 1..Len(s) : FillQty(s[i]) \in Nat
  BY <1>1, <1>2
<1> QED BY <1>3, <1>4 DEF FillSum, FillsIn

LEMMA FillSumType ==
  ASSUME NEW s \in Seq(Message)
  PROVE  FillSum(s) \in Nat
<1>1. FillsIn(s) \in Seq(Nat) /\ FillSum(s) = SumOf(FillsIn(s))
  BY FillsInType
<1> QED BY <1>1, SumOfNat

LEMMA FillSumAppend ==
  ASSUME NEW s \in Seq(Message), NEW m \in Message
  PROVE  Append(s, m) \in Seq(Message) /\ FillSum(Append(s, m)) = FillSum(s) + FillQty(m)
<1> DEFINE t == Append(s, m)
           a == FillsIn(s)
           b == FillsIn(t)
<1>1. t \in Seq(Message) /\ Len(t) = Len(s) + 1 /\ t[Len(t)] = m /\ \A i \in 1..Len(s) : t[i] = s[i]
  OBVIOUS
<1>2. a \in Seq(Int) /\ Len(a) = Len(s) /\ FillSum(s) = SumOf(a)
      /\ \A i \in 1..Len(s) : a[i] = FillQty(s[i])
  BY FillsInType
<1> HIDE DEF t
<1>3. b \in Seq(Int) /\ Len(b) = Len(t) /\ FillSum(t) = SumOf(b)
      /\ \A i \in 1..Len(t) : b[i] = FillQty(t[i])
  BY <1>1, FillsInType
<1> HIDE DEF a, b
<1>4. \A i \in 1..Len(a) : b[i] = a[i]
  BY <1>1, <1>2, <1>3
<1>5. SumOf(b) = SumOf(a) + b[Len(b)]
  BY <1>1, <1>2, <1>3, <1>4, SumOfLonger
<1>6. b[Len(b)] = FillQty(m)
  BY <1>1, <1>3
<1> QED BY <1>1, <1>2, <1>3, <1>5, <1>6 DEF t

\* t is s without its k-th element.
Dropped(s, k, t) ==
  /\ t \in Seq(Message) /\ Len(t) = Len(s) - 1
  /\ \A i \in 1..Len(t) : t[i] = IF i < k THEN s[i] ELSE s[i + 1]

LEMMA FillSumDropped ==
  ASSUME NEW s \in Seq(Message), NEW k \in 1..Len(s), NEW t, Dropped(s, k, t)
  PROVE  FillSum(t) = FillSum(s) - FillQty(s[k]) /\ \A i \in 1..Len(t) : \E j \in 1..Len(s) : t[i] = s[j]
<1> DEFINE a == FillsIn(s)
           b == FillsIn(t)
<1>1. /\ t \in Seq(Message) /\ Len(t) = Len(s) - 1
      /\ \A i \in 1..Len(t) : t[i] = IF i < k THEN s[i] ELSE s[i + 1]
  BY DEF Dropped
<1>2. a \in Seq(Int) /\ Len(a) = Len(s) /\ FillSum(s) = SumOf(a)
      /\ \A i \in 1..Len(s) : a[i] = FillQty(s[i])
  BY FillsInType
<1>3. b \in Seq(Int) /\ Len(b) = Len(t) /\ FillSum(t) = SumOf(b)
      /\ \A i \in 1..Len(t) : b[i] = FillQty(t[i])
  BY <1>1, FillsInType
<1> HIDE DEF a, b
<1>4. \A i \in 1..Len(b) : b[i] = IF i < k THEN a[i] ELSE a[i + 1]
  <2> SUFFICES ASSUME NEW i \in 1..Len(b) PROVE b[i] = IF i < k THEN a[i] ELSE a[i + 1]
    OBVIOUS
  <2>1. i \in 1..Len(s) /\ i + 1 \in 1..Len(s) /\ i \in 1..Len(t) /\ b[i] = FillQty(t[i])
    BY <1>1, <1>3
  <2>2. a[i] = FillQty(s[i]) /\ a[i + 1] = FillQty(s[i + 1])
    BY <1>2, <2>1
  <2>3. t[i] = IF i < k THEN s[i] ELSE s[i + 1]
    BY <1>1, <2>1
  <2> QED BY <2>1, <2>2, <2>3
<1>5. SumOf(b) = SumOf(a) - a[k]
  BY <1>1, <1>2, <1>3, <1>4, SumOfShorter
<1>6. \A i \in 1..Len(t) : \E j \in 1..Len(s) : t[i] = s[j]
  BY <1>1
<1> QED BY <1>2, <1>3, <1>5, <1>6

LEMMA TailDropped ==
  ASSUME NEW s \in Seq(Message), s # <<>>
  PROVE  1 \in 1..Len(s) /\ Dropped(s, 1, Tail(s)) /\ Head(s) = s[1]
<1>1. Len(s) \in Nat /\ Len(s) # 0 /\ Head(s) = s[1]
  OBVIOUS
<1>2. Tail(s) \in Seq(Message) /\ Len(Tail(s)) = Len(s) - 1
  OBVIOUS
<1>3. \A i \in 1..(Len(s) - 1) : Tail(s)[i] = s[i + 1]
  OBVIOUS
<1> QED BY <1>1, <1>2, <1>3 DEF Dropped

LEMMA WithoutDropped ==
  ASSUME NEW s \in Seq(Message), NEW k \in 1..Len(s)
  PROVE  Dropped(s, k, Without(s, k))
<1> DEFINE n == Len(s)
           a == SubSeq(s, 1, k - 1)
           b == SubSeq(s, k + 1, n)
<1>0. n \in Nat /\ k \in Nat /\ 1 <= k /\ k <= n /\ \A i \in 1..n : s[i] \in Message
  OBVIOUS
<1>1. a \in Seq(Message) /\ Len(a) = k - 1 /\ \A i \in 1..(k - 1) : a[i] = s[i]
  <2>1. 1 \in Int /\ k - 1 \in Int /\ \A i \in 1..(k - 1) : s[i] \in Message
    BY <1>0
  <2>2. /\ a \in Seq(Message) /\ Len(a) = IF 1 <= k - 1 THEN (k - 1) - 1 + 1 ELSE 0
        /\ \A i \in 1..((k - 1) - 1 + 1) : a[i] = s[1 + i - 1]
    BY <2>1, SubSeqProperties
  <2> HIDE DEF a
  <2> QED BY <1>0, <2>2
<1>2. b \in Seq(Message) /\ Len(b) = n - k /\ \A i \in 1..(n - k) : b[i] = s[i + k]
  <2>1. k + 1 \in Int /\ n \in Int /\ \A i \in (k + 1)..n : s[i] \in Message
    BY <1>0
  <2>2. /\ b \in Seq(Message) /\ Len(b) = IF k + 1 <= n THEN n - (k + 1) + 1 ELSE 0
        /\ \A i \in 1..(n - (k + 1) + 1) : b[i] = s[(k + 1) + i - 1]
    BY <2>1, SubSeqProperties
  <2> HIDE DEF b
  <2> QED BY <1>0, <2>2
<1> DEFINE c == Without(s, k)
<1>3. c = a \o b
  BY DEF Without
<1> HIDE DEF a, b, n
<1>4. /\ c \in Seq(Message) /\ Len(c) = Len(a) + Len(b)
      /\ \A i \in 1..(Len(a) + Len(b)) : c[i] = IF i <= Len(a) THEN a[i] ELSE b[i - Len(a)]
  BY <1>1, <1>2, <1>3, ConcatProperties
<1> HIDE DEF c
<1>5. Len(c) = n - 1
  BY <1>0, <1>1, <1>2, <1>4
<1>6. ASSUME NEW i \in 1..(n - 1) PROVE c[i] = IF i < k THEN s[i] ELSE s[i + 1]
  <2>1. c[i] = IF i <= k - 1 THEN a[i] ELSE b[i - (k - 1)]
    BY <1>0, <1>1, <1>2, <1>4
  <2>2. CASE i < k
    BY <1>0, <1>1, <2>1, <2>2
  <2>3. CASE i >= k
    <3> DEFINE j == i - (k - 1)
    <3>1. j \in 1..(n - k) /\ j + k = i + 1 /\ ~ (i < k) /\ ~ (i <= k - 1)
      BY <1>0, <2>3
    <3>2. c[i] = b[j]
      BY <2>1, <3>1
    <3> HIDE DEF j
    <3>3. b[j] = s[j + k]
      BY <1>2, <3>1
    <3> QED BY <3>1, <3>2, <3>3
  <2>4. i < k \/ i >= k
    BY <1>0
  <2> QED BY <2>2, <2>3, <2>4
<1> QED BY <1>4, <1>5, <1>6 DEF Dropped, n, c

LEMMA FillSumNone ==
  ASSUME NEW s \in Seq(Message), \A i \in DOMAIN s : s[i].kind # "fill"
  PROVE  FillSum(s) = 0
<1>1. /\ FillsIn(s) \in Seq(Int) /\ Len(FillsIn(s)) = Len(s) /\ FillSum(s) = SumOf(FillsIn(s))
      /\ \A i \in 1..Len(s) : FillsIn(s)[i] = FillQty(s[i])
  BY FillsInType
<1>2. \A i \in 1..Len(s) : FillsIn(s)[i] = 0
  BY <1>1 DEF FillQty
<1> QED BY <1>1, <1>2, SumOfZeros

(* What booking a report does to the order.                                *)
LEMMA ReportStep ==
  ASSUME NEW s, GoodState(s), s.resume_to_status = "none", NEW r \in Report, NEW e \in Decide(s, r)
  PROVE  /\ GoodStep(s, e) /\ s.status \in LiveStatus
         /\ Apply(s, e).original_qty = s.original_qty
         /\ Apply(s, e).resume_to_status = "none"
         /\ IF r.type = "fill"
              THEN /\ BookedQty(e) = r.qty /\ r.qty > 0
                   /\ Apply(s, e).status = IF s.cum_qty + r.qty < s.original_qty
                                             THEN "partially_filled" ELSE "filled"
              ELSE /\ BookedQty(e) = 0
                   /\ Apply(s, e).status \in {"canceled", "rejected"}
<1>0. r.type \in {"fill", "canceled", "reject"} /\ r.qty \in Int
  BY PathAssumption DEF Report
<1>1. CASE r.type = "fill"
  <2>1. e \in DecideFill(s, r.qty, 1)
    BY <1>1 DEF Decide
  <2>2. 1 \in Nat
    OBVIOUS
  <2>3. GoodStep(s, e) /\ s.status \in LiveStatus
    BY <1>0, <2>1, <2>2, FillGood
  <2> QED BY <1>0, <1>1, <2>1, <2>2, <2>3, FillApply
<1>2. CASE r.type # "fill"
  <2>1. e \in DecideReject(s) \cup DecideCanceled(s)
    BY <1>0, <1>2 DEF Decide
  <2>2. GoodStep(s, e) /\ s.status \in LiveStatus
    BY <2>1, SimpleCommandsGood
  <2>3. \/ e = Event(s, "order_rejected", "rejected")
        \/ e = Event(s, "order_canceled", "canceled")
    BY <2>1 DEF DecideReject, DecideCanceled, Emit
  <2>4. {"order_rejected", "order_canceled"} \subseteq LifecycleTypes
        /\ {"rejected", "canceled"} \subseteq OrderStatus
    BY DEF LifecycleTypes, OrderStatus, TerminalStatus
  <2>5. CASE e = Event(s, "order_rejected", "rejected")
    BY <1>2, <2>2, <2>4, <2>5, LifecycleApply
  <2>6. CASE e = Event(s, "order_canceled", "canceled")
    BY <1>2, <2>2, <2>4, <2>6, LifecycleApply
  <2> QED BY <2>3, <2>5, <2>6
<1> QED BY <1>1, <1>2

\* The rows that persist_routed and a local cancel write, from what folding the
\* event into s gives.
RoutedRow(s, r) == [s EXCEPT !.status = r.status, !.version = r.version]

CanceledRow(s, r) ==
  [s EXCEPT !.status = r.status, !.resume_to_status = r.resume_to_status, !.version = r.version]

(* Routing moves a submitted order's status and version, nothing else.     *)
LEMMA RouteApply ==
  ASSUME NEW s, GoodState(s), s.resume_to_status = "none", NEW e \in DecideRoute(s)
  PROVE  /\ GoodStep(s, e) /\ s.status = "submitted" /\ BookedQty(e) = 0
         /\ Apply(s, e).status = "routed"
         /\ Apply(s, e) = RoutedRow(s, Apply(s, e))
<1>1. GoodStep(s, e) /\ s.status \in LiveStatus
  BY SimpleCommandsGood
<1>2. s.status = "submitted" /\ e = Event(s, "order_routed", "routed")
  BY <1>1 DEF DecideRoute, Emit, Allowed, AllowedKinds, LiveStatus
<1>3. "order_routed" \in LifecycleTypes /\ "routed" \in OrderStatus
  BY DEF LifecycleTypes, OrderStatus, LiveStatus
<1> DEFINE r == Apply(s, e)
           u == RoutedRow(s, r)
<1>4. /\ r.status = "routed" /\ r.version = s.version + 1 /\ r.resume_to_status = "none"
      /\ r.order_type = s.order_type /\ r.limit_price = s.limit_price
      /\ r.original_qty = s.original_qty /\ r.cum_qty = s.cum_qty /\ r.notional = s.notional
      /\ r.leaves_qty = s.leaves_qty /\ BookedQty(e) = 0
  BY <1>2, <1>3, LifecycleApply
<1>5. r \in OrderState /\ s \in OrderState
  BY <1>1 DEF GoodStep, GoodState
<1> HIDE DEF r
<1>6. /\ u \in OrderState
      /\ u.status = r.status /\ u.version = r.version /\ u.resume_to_status = s.resume_to_status
      /\ u.order_type = s.order_type /\ u.limit_price = s.limit_price
      /\ u.original_qty = s.original_qty /\ u.cum_qty = s.cum_qty /\ u.notional = s.notional
      /\ u.leaves_qty = s.leaves_qty
  BY <1>5 DEF OrderState, RoutedRow
<1> HIDE DEF u
<1>7. r = u
  BY <1>4, <1>5, <1>6, SameState
<1> QED BY <1>1, <1>2, <1>4, <1>7 DEF r, u

(* A local cancel writes a closed order that agrees with the fold.         *)
LEMMA CancelApply ==
  ASSUME NEW s, GoodState(s), s.resume_to_status = "none", NEW e \in DecideCancel(s), NEW u,
         u = CanceledRow(s, Apply(s, e))
  PROVE  /\ GoodStep(s, e) /\ s.status \in LiveStatus /\ BookedQty(e) = 0
         /\ GoodState(u) /\ u.status = "canceled" /\ u.resume_to_status = "none"
         /\ u.version = s.version + 1 /\ u.original_qty = s.original_qty
         /\ u.cum_qty = s.cum_qty /\ u.notional = s.notional
         /\ Apply(s, e).status = u.status
<1>1. GoodStep(s, e) /\ s.status \in LiveStatus
  BY SimpleCommandsGood
<1>2. e = Event(s, "order_canceled", "canceled")
  BY DEF DecideCancel, Emit
<1>3. "order_canceled" \in LifecycleTypes /\ "canceled" \in OrderStatus
  BY DEF LifecycleTypes, OrderStatus, TerminalStatus
<1> DEFINE r == Apply(s, e)
<1>4. /\ r.status = "canceled" /\ r.version = s.version + 1 /\ r.resume_to_status = "none"
      /\ BookedQty(e) = 0
  BY <1>2, <1>3, LifecycleApply
<1>5. r \in OrderState /\ s \in OrderState
  BY <1>1 DEF GoodStep, GoodState
<1>6. u = CanceledRow(s, r)
  OBVIOUS
<1> HIDE DEF r
<1>7. /\ u \in OrderState
      /\ u.status = r.status /\ u.version = r.version /\ u.resume_to_status = r.resume_to_status
      /\ u.order_type = s.order_type /\ u.limit_price = s.limit_price
      /\ u.original_qty = s.original_qty /\ u.cum_qty = s.cum_qty /\ u.notional = s.notional
  BY <1>5, <1>6 DEF OrderState, CanceledRow
<1>8. GoodState(u)
  BY <1>1, <1>4, <1>7 DEF GoodState, LiveStatus
<1> QED BY <1>1, <1>4, <1>7, <1>8 DEF r

-----------------------------------------------------------------------------
(* Steps of the tasks                                                      *)

\* Task t goes to pc with snap and tries, the others stay.
Moved(t, pc, snap, tries) ==
  /\ task' \in [Tasks -> TaskState]
  /\ task'[t].pc = pc /\ task'[t].snap = snap /\ task'[t].tries = tries
  /\ \A u \in Tasks \ {t} : task'[u] = task[u]

LEMMA PutMoves ==
  ASSUME SnapOK, NEW t \in Tasks, NEW r \in TaskState, task' = [task EXCEPT ![t] = r]
  PROVE  Moved(t, r.pc, r.snap, r.tries)
BY DEF SnapOK, Moved

LEMMA GotoMoves ==
  ASSUME SnapOK, NEW t \in Tasks, NEW pc \in Places, Goto(t, pc)
  PROVE  Moved(t, pc, task[t].snap, task[t].tries)
<1> DEFINE r == [task[t] EXCEPT !.pc = pc]
<1>1. task[t] \in TaskState
  BY DEF SnapOK
<1>2. r \in TaskState /\ r.pc = pc /\ r.snap = task[t].snap /\ r.tries = task[t].tries
  BY <1>1 DEF TaskState
<1>3. task' = [task EXCEPT ![t] = r]
  BY DEF Goto
<1> HIDE DEF r
<1>4. Moved(t, r.pc, r.snap, r.tries)
  BY <1>2, <1>3, PutMoves
<1> QED BY <1>2, <1>4

LEMMA ReadMoves ==
  ASSUME SnapOK, row \in OrderState, NEW t \in Tasks, NEW pc \in Places, Read(t, pc)
  PROVE  Moved(t, pc, row, task[t].tries)
<1> DEFINE r == [task[t] EXCEPT !.pc = pc, !.snap = row]
<1>1. task[t] \in TaskState
  BY DEF SnapOK
<1>2. r \in TaskState /\ r.pc = pc /\ r.snap = row /\ r.tries = task[t].tries
  BY <1>1 DEF TaskState
<1>3. task' = [task EXCEPT ![t] = r]
  BY <1>1 DEF Read, SnapOK, TaskState
<1> HIDE DEF r
<1>4. Moved(t, r.pc, r.snap, r.tries)
  BY <1>2, <1>3, PutMoves
<1> QED BY <1>2, <1>4

LEMMA IdleState ==
  ASSUME NEW pc \in Places
  PROVE  /\ [Idle EXCEPT !.pc = pc] \in TaskState
         /\ [Idle EXCEPT !.pc = pc].pc = pc
         /\ [Idle EXCEPT !.pc = pc].snap = NoOrder
         /\ [Idle EXCEPT !.pc = pc].tries = 0
<1>1. NoOrder \in OrderState
  BY DEF NoOrder, OrderState, OrderType
<1> QED BY <1>1 DEF Idle, TaskState

LEMMA DoneMoves ==
  ASSUME SnapOK, NEW t \in Tasks, NEW pc \in Places, Done(t, pc)
  PROVE  Moved(t, pc, NoOrder, 0)
<1> DEFINE r == [Idle EXCEPT !.pc = pc]
<1>1. r \in TaskState /\ r.pc = pc /\ r.snap = NoOrder /\ r.tries = 0
  BY IdleState
<1>2. task' = [task EXCEPT ![t] = r]
  BY DEF Done
<1> HIDE DEF r
<1>3. Moved(t, r.pc, r.snap, r.tries)
  BY <1>1, <1>2, PutMoves
<1> QED BY <1>1, <1>3

LEMMA RetryMoves ==
  ASSUME SnapOK, NEW t \in Tasks, NEW pc \in Places,
         task' = [task EXCEPT ![t].pc = pc, ![t].tries = @ + 1]
  PROVE  Moved(t, pc, task[t].snap, task[t].tries + 1)
<1> DEFINE r == [task[t] EXCEPT !.pc = pc, !.tries = task[t].tries + 1]
<1>1. task[t] \in TaskState
  BY DEF SnapOK
<1>2. task[t].tries + 1 \in Nat
  BY <1>1 DEF TaskState
<1>3. r \in TaskState /\ r.pc = pc /\ r.snap = task[t].snap /\ r.tries = task[t].tries + 1
  BY <1>1, <1>2 DEF TaskState
<1>4. task' = [task EXCEPT ![t] = r]
  BY <1>1 DEF SnapOK, TaskState
<1> HIDE DEF r
<1>5. Moved(t, r.pc, r.snap, r.tries)
  BY <1>3, <1>4, PutMoves
<1> QED BY <1>3, <1>5

(* A task that moves without a write keeps what is known of the reads.     *)
LEMMA MoveKeeps ==
  ASSUME BookInv, UNCHANGED <<row, log>>, NEW t \in Tasks, NEW pc, NEW snap, NEW tries,
         Moved(t, pc, snap, tries), pc \in Holding => snap = row
  PROVE  SnapOK'
<1>1. SnapOK /\ row.version = Len(log) /\ row \in OrderState
  BY TheBook DEF RowOK, GoodState
<1>2. row' = row /\ log' = log /\ task' \in [Tasks -> TaskState]
  BY DEF Moved
<1>3. ASSUME NEW u \in Tasks, task'[u].pc \in Holding
      PROVE  /\ task'[u].snap.version <= Len(log)
             /\ task'[u].snap.version = Len(log) => task'[u].snap = row
  <2>1. CASE u = t
    <3>1. task'[u].snap = row
      BY <1>3, <2>1 DEF Moved
    <3>2. row.version \in Int
      BY <1>1 DEF OrderState
    <3> QED BY <1>1, <3>1, <3>2
  <2>2. CASE u # t
    BY <1>1, <1>3, <2>2 DEF Moved, SnapOK
  <2> QED BY <2>1, <2>2
<1> QED BY <1>2, <1>3 DEF SnapOK

(* A write by a task that then holds nothing makes the other reads stale.  *)
LEMMA WriteKeeps ==
  ASSUME BookInv, log' \in Seq(OrderDomainEvent), Len(log') > Len(log),
         NEW t \in Tasks, NEW pc, NEW snap, NEW tries,
         Moved(t, pc, snap, tries), pc \notin Holding
  PROVE  SnapOK'
<1>1. SnapOK /\ log \in Seq(OrderDomainEvent)
  BY TheBook DEF RowOK
<1>2. task' \in [Tasks -> TaskState] /\ Len(log) \in Int /\ Len(log') \in Int
  BY <1>1 DEF Moved
<1>3. ASSUME NEW u \in Tasks, task'[u].pc \in Holding
      PROVE  /\ task'[u].snap.version <= Len(log')
             /\ task'[u].snap.version # Len(log')
  <2>1. u # t
    BY <1>3 DEF Moved
  <2>2. task'[u] = task[u] /\ task[u].snap \in OrderState /\ task[u].snap.version <= Len(log)
    BY <1>1, <1>3, <2>1 DEF Moved, SnapOK, TaskState
  <2>3. task[u].snap.version \in Int
    BY <2>2 DEF OrderState
  <2> QED BY <1>2, <2>2, <2>3
<1> QED BY <1>2, <1>3 DEF SnapOK

-----------------------------------------------------------------------------
(* The row follows its stream                                              *)

(* One more event of a live order is folded into what the row shows.       *)
LEMMA FoldNext ==
  ASSUME BookInv, row.status \notin TerminalStatus, NEW e \in OrderDomainEvent,
         log' = Append(log, e)
  PROVE  /\ Rehydrate(log') = Apply(row, e)
         /\ log' \in Seq(OrderDomainEvent) /\ Len(log') = Len(log) + 1
<1>1. log \in Seq(OrderDomainEvent) /\ Rehydrate(log) = row
  BY TheBook DEF RowOK, FoldOK
<1>2. Rehydrate(Append(log, e)) = Apply(Rehydrate(log), e)
  BY <1>1, RehydrateNext
<1> QED BY <1>1, <1>2

(* The order a submit stores.                                              *)
LEMMA SubmitApply ==
  ASSUME NEW e \in DecideSubmit(NoOrder, Qty, "market", 0)
  PROVE  /\ GoodStep(NoOrder, e)
         /\ Apply(NoOrder, e).status = "submitted" /\ Apply(NoOrder, e).original_qty = Qty
         /\ Apply(NoOrder, e).resume_to_status = "none" /\ Apply(NoOrder, e).cum_qty = 0
         /\ Apply(NoOrder, e).version = 1
<1>1. GoodState(NoOrder) /\ Qty \in Int /\ "market" \in OrderType /\ 0 \in Nat
  BY PathAssumption DEF GoodState, NoOrder, OrderState, OrderType, LiveStatus
<1>2. GoodStep(NoOrder, e)
  BY <1>1, SubmitGood
<1>3. e = [type |-> "order_submitted", version |-> 1, status_after |-> "submitted",
           quantity |-> Qty, order_type |-> "market", limit_price |-> 0]
  BY DEF DecideSubmit, Emit
<1>4. Apply(NoOrder, e) = ApplySubmitted(e)
  BY <1>3 DEF Apply, FillTypes
<1> QED BY <1>2, <1>3, <1>4 DEF ApplySubmitted, NoOrder

LEMMA SubmitKeepsBook ==
  ASSUME BookInv, Submit
  PROVE  BookInv' /\ row'.status = "submitted" /\ row'.cum_qty = 0
<1>1. PICK e \in DecideSubmit(NoOrder, Qty, "market", 0) : row' = Apply(NoOrder, e) /\ log' = <<e>>
  BY DEF Submit
<1>2. RowOK /\ FoldOK /\ SnapOK /\ row = NoOrder /\ row.status = "none"
  BY TheBook DEF Submit, RowOK
<1>3. /\ GoodStep(NoOrder, e) /\ row'.status = "submitted" /\ row'.original_qty = Qty
      /\ row'.resume_to_status = "none" /\ row'.cum_qty = 0 /\ row'.version = 1
  BY <1>1, SubmitApply
<1>4. e \in OrderDomainEvent /\ GoodState(row')
  BY <1>1, <1>3 DEF GoodStep
<1>5. log = <<>>
  BY <1>2 DEF RowOK, NoOrder
<1>6. log' = Append(log, e)
  BY <1>1, <1>5
<1>7. Rehydrate(log') = row' /\ log' \in Seq(OrderDomainEvent) /\ Len(log') = Len(log) + 1
  BY <1>1, <1>2, <1>4, <1>6, FoldNext DEF TerminalStatus
<1>8. RowOK'
  <2>1. Len(log') = 1
    BY <1>1
  <2>2. ext' \in BOOLEAN /\ position' = 0 /\ 0 < Qty
    BY <1>2, PathAssumption DEF Submit, RowOK, NoOrder
  <2> QED BY <1>3, <1>4, <1>7, <2>1, <2>2 DEF RowOK
<1>9. FoldOK'
  BY <1>7 DEF FoldOK
<1>10. SnapOK'
  <2>1. "submit" \in Tasks /\ "call" \in Places /\ "call" \notin Holding
    BY DEF Tasks, Places, Holding
  <2>2. Moved("submit", "call", task["submit"].snap, task["submit"].tries)
    BY <1>2, <2>1, GotoMoves DEF Submit
  <2>3. Len(log') > Len(log)
    BY <1>5, <1>7
  <2> QED BY <1>7, <2>1, <2>2, <2>3, WriteKeeps
<1> QED BY <1>3, <1>8, <1>9, <1>10 DEF BookInv

LEMMA RefusedKeepsBook ==
  ASSUME BookInv, SubmitRefused
  PROVE  BookInv' /\ row'.status = "rejected" /\ row'.cum_qty = 0
<1>1. PICK e \in DecideSubmit(NoOrder, Qty, "market", 0) :
        \E f \in DecideReject(Apply(NoOrder, e)) :
          row' = Apply(Apply(NoOrder, e), f) /\ log' = <<e, f>>
  BY DEF SubmitRefused
<1> DEFINE s == Apply(NoOrder, e)
<1>2. PICK f \in DecideReject(s) : row' = Apply(s, f) /\ log' = <<e, f>>
  BY <1>1
<1>3. RowOK /\ FoldOK /\ SnapOK /\ row = NoOrder /\ row.status = "none"
  BY TheBook DEF SubmitRefused, RowOK
<1>4. /\ GoodStep(NoOrder, e) /\ s.status = "submitted" /\ s.original_qty = Qty
      /\ s.resume_to_status = "none" /\ s.cum_qty = 0 /\ s.version = 1
  BY SubmitApply
<1>5. GoodState(s) /\ e \in OrderDomainEvent
  BY <1>4 DEF GoodStep
<1> HIDE DEF s
<1>6. GoodStep(s, f) /\ s.status \in LiveStatus
  BY <1>5, SimpleCommandsGood
<1>7. f = Event(s, "order_rejected", "rejected")
  BY DEF DecideReject, Emit
<1>8. "order_rejected" \in LifecycleTypes /\ "rejected" \in OrderStatus
  BY DEF LifecycleTypes, OrderStatus, TerminalStatus
<1>9. /\ row'.status = "rejected" /\ row'.version = 2 /\ row'.resume_to_status = "none"
      /\ row'.original_qty = Qty /\ row'.cum_qty = 0
  BY <1>2, <1>4, <1>5, <1>7, <1>8, LifecycleApply
<1>10. f \in OrderDomainEvent /\ GoodState(row')
  BY <1>2, <1>6 DEF GoodStep
<1>11. log = <<>> /\ <<e>> = Append(log, e) /\ log' = Append(<<e>>, f) /\ <<e>> \in Seq(OrderDomainEvent)
  BY <1>2, <1>3, <1>5 DEF RowOK, NoOrder
<1>12. Rehydrate(<<e>>) = s
  <2>1. Rehydrate(log) = NoOrder /\ log \in Seq(OrderDomainEvent)
    BY <1>3 DEF FoldOK, TerminalStatus, RowOK
  <2>2. Rehydrate(Append(log, e)) = Apply(Rehydrate(log), e)
    BY <1>5, <2>1, RehydrateNext
  <2> QED BY <1>11, <2>1, <2>2 DEF s
<1>13. Rehydrate(log') = row' /\ log' \in Seq(OrderDomainEvent) /\ Len(log') = 2
  <2>1. Rehydrate(Append(<<e>>, f)) = Apply(Rehydrate(<<e>>), f)
    BY <1>10, <1>11, RehydrateNext
  <2>2. Rehydrate(log') = row'
    BY <1>2, <1>11, <1>12, <2>1
  <2> QED BY <1>2, <1>5, <1>10, <2>2
<1>14. RowOK'
  <2>1. ext' \in BOOLEAN /\ position' = 0
    BY <1>3 DEF SubmitRefused, RowOK, NoOrder
  <2> QED BY <1>9, <1>10, <1>13, <2>1 DEF RowOK, LiveStatus
<1>15. FoldOK'
  BY <1>13 DEF FoldOK
<1>16. SnapOK'
  <2>1. "submit" \in Tasks /\ "done" \in Places /\ "done" \notin Holding
    BY DEF Tasks, Places, Holding
  <2>2. Moved("submit", "done", task["submit"].snap, task["submit"].tries)
    BY <1>3, <2>1, GotoMoves DEF SubmitRefused
  <2>3. Len(log') > Len(log)
    BY <1>11, <1>13
  <2> QED BY <1>13, <2>1, <2>2, <2>3, WriteKeeps
<1> QED BY <1>9, <1>14, <1>15, <1>16 DEF BookInv

\* Where a router goes when it is done.
Home(t) == IF t = "submit" THEN "done" ELSE "idle"

LEMMA FinishMoves ==
  ASSUME SnapOK, NEW t \in Routers, Finish(t)
  PROVE  t \in Tasks /\ Home(t) \in Places \ Holding /\ Moved(t, Home(t), NoOrder, 0)
<1>1. t \in Tasks /\ Home(t) \in Places \ Holding
  BY DEF Routers, Tasks, Home, Places, Holding
<1>2. Done(t, Home(t))
  BY DEF Finish, Home
<1> QED BY <1>1, <1>2, DoneMoves

(* persist_routed: what it read is still the row, or it writes nothing.    *)
LEMMA RouteKeepsBook ==
  ASSUME BookInv, NEW t \in Routers, RouteWrite(t)
  PROVE  /\ BookInv' /\ row.status = "submitted" /\ row'.status = "routed"
         /\ row'.cum_qty = row.cum_qty /\ Len(log') = Len(log) + 1 /\ ext' = TRUE
<1> DEFINE s == task[t].snap
<1>1. At(t, "route_write") /\ VersionHolds(s.version) /\ Finish(t)
  BY DEF RouteWrite
<1>2. RowOK /\ FoldOK /\ SnapOK /\ t \in Tasks
  BY TheBook DEF Routers, Tasks
<1>3. s = row /\ s.version = Len(log) /\ row.version = s.version
  BY <1>1, <1>2 DEF At, Holding, VersionHolds, SnapOK, RowOK
<1>4. PICK e \in DecideRoute(row) :
        /\ log' = Append(log, e) /\ ext' = TRUE
        /\ row' = RoutedRow(row, Apply(row, e))
  BY <1>3 DEF RouteWrite, RoutedRow
<1>5. GoodState(row) /\ row.resume_to_status = "none"
  BY <1>2 DEF RowOK
<1>6. /\ GoodStep(row, e) /\ row.status = "submitted" /\ BookedQty(e) = 0
      /\ row' = Apply(row, e) /\ row'.status = "routed"
  BY <1>4, <1>5, RouteApply
<1>7. e \in OrderDomainEvent /\ GoodState(row') /\ row'.version = row.version + 1
      /\ row'.cum_qty = row.cum_qty
  <2>1. row.cum_qty \in Int
    BY <1>5 DEF GoodState, OrderState
  <2> QED BY <1>6, <2>1 DEF GoodStep
<1>8. Rehydrate(log') = row' /\ log' \in Seq(OrderDomainEvent) /\ Len(log') = Len(log) + 1
  BY <1>4, <1>6, <1>7, FoldNext DEF TerminalStatus
<1>9. RowOK'
  <2>1. row'.resume_to_status = "none" /\ row'.original_qty = row.original_qty
    BY <1>4, <1>5 DEF GoodState, OrderState, RoutedRow
  <2>2. position' = position
    BY DEF RouteWrite
  <2>3. row.original_qty = Qty /\ row.cum_qty < Qty /\ row.version = Len(log) /\ position = row.cum_qty
    BY <1>2, <1>6 DEF RowOK, LiveStatus
  <2> QED BY <1>4, <1>6, <1>7, <1>8, <2>1, <2>2, <2>3 DEF RowOK
<1>10. FoldOK'
  BY <1>8 DEF FoldOK
<1>11. SnapOK'
  <2>1. Home(t) \notin Holding /\ Moved(t, Home(t), NoOrder, 0)
    BY <1>1, <1>2, FinishMoves
  <2>2. Len(log') > Len(log)
    BY <1>2, <1>8 DEF RowOK
  <2> QED BY <1>2, <1>8, <2>1, <2>2, WriteKeeps
<1> QED BY <1>4, <1>6, <1>7, <1>8, <1>9, <1>10, <1>11 DEF BookInv

(* A local cancel that finds the row changed writes nothing.               *)
LEMMA CancelKeepsBook ==
  ASSUME BookInv, CancelLocally
  PROVE  /\ BookInv' /\ row'.cum_qty = row.cum_qty
         /\ \/ UNCHANGED <<row, log>>
            \/ row.status \in LiveStatus /\ row'.status = "canceled" /\ Len(log') = Len(log) + 1
<1> DEFINE s == task["cancel"].snap
<1>0. "cancel" \in Tasks /\ "idle" \in Places /\ "idle" \notin Holding
  BY DEF Tasks, Places, Holding
<1>1. At("cancel", "write") /\ Done("cancel", "idle") /\ ext' = ext /\ position' = position
  BY DEF CancelLocally
<1>2. RowOK /\ FoldOK /\ SnapOK
  BY TheBook
<1>3. Moved("cancel", "idle", NoOrder, 0)
  BY <1>0, <1>1, <1>2, DoneMoves
<1>4. CASE ~ (row.version = s.version /\ VersionHolds(s.version))
  <2>1. UNCHANGED <<row, log>>
    BY <1>4 DEF CancelLocally
  <2>2. SnapOK'
    BY <1>0, <1>3, <2>1, MoveKeeps
  <2> QED BY <1>1, <1>2, <2>1, <2>2 DEF BookInv, RowOK, FoldOK
<1>5. CASE row.version = s.version /\ VersionHolds(s.version)
  <2>1. s = row
    BY <1>0, <1>1, <1>2, <1>5 DEF At, Holding, VersionHolds, SnapOK
  <2>2. PICK e \in DecideCancel(row) :
          row' = CanceledRow(row, Apply(row, e)) /\ log' = Append(log, e)
    BY <1>5, <2>1 DEF CancelLocally, CanceledRow
  <2>3. GoodState(row) /\ row.resume_to_status = "none"
    BY <1>2 DEF RowOK
  <2>4. /\ GoodStep(row, e) /\ row.status \in LiveStatus /\ BookedQty(e) = 0
        /\ GoodState(row') /\ row'.status = "canceled" /\ row'.resume_to_status = "none"
        /\ row'.version = row.version + 1 /\ row'.original_qty = row.original_qty
        /\ row'.cum_qty = row.cum_qty /\ row'.notional = row.notional
        /\ Apply(row, e).status = row'.status
    BY <2>2, <2>3, CancelApply
  <2>5. Rehydrate(log') = Apply(row, e) /\ log' \in Seq(OrderDomainEvent) /\ Len(log') = Len(log) + 1
    BY <2>2, <2>4, FoldNext DEF GoodStep, LiveStatus, TerminalStatus
  <2>6. RowOK'
    <3>1. row.original_qty = Qty /\ row.version = Len(log) /\ position = row.cum_qty /\ ext \in BOOLEAN
      BY <1>2, <2>4 DEF RowOK, LiveStatus
    <3> QED BY <1>1, <2>4, <2>5, <3>1 DEF RowOK, LiveStatus
  <2>7. FoldOK'
    <3>1. /\ Apply(row, e).version = row.version + 1
          /\ Apply(row, e).cum_qty = row.cum_qty + BookedQty(e)
          /\ Apply(row, e).notional = row.notional + BookedCost(e)
          /\ GoodState(Apply(row, e))
      BY <2>4 DEF GoodStep
    <3>2. row.cum_qty \in Int /\ row.notional \in Int /\ Apply(row, e).cum_qty = row.cum_qty
      BY <2>3, <2>4, <3>1 DEF GoodState, OrderState
    <3>3. BookedCost(e) = 0
      BY <2>2 DEF BookedCost, DecideCancel, Emit, Event, FillTypes
    <3>4. Apply(row, e).notional = row.notional
      BY <3>1, <3>2, <3>3
    <3> QED BY <2>4, <2>5, <3>1, <3>2, <3>4 DEF FoldOK, TerminalStatus
  <2>8. SnapOK'
    <3>1. Len(log') > Len(log)
      BY <1>2, <2>5 DEF RowOK
    <3> QED BY <1>0, <1>3, <2>5, <3>1, WriteKeeps
  <2> QED BY <2>4, <2>5, <2>6, <2>7, <2>8 DEF BookInv
<1> QED BY <1>4, <1>5

\* Where the engine goes after a report.
AfterReport == IF Len(reports) = 1 THEN "idle" ELSE "apply"

LEMMA NextReportMoves ==
  ASSUME SnapOK, NextReport
  PROVE  /\ "engine" \in Tasks /\ AfterReport \in Places \ Holding
         /\ Moved("engine", AfterReport, NoOrder, 0)
         /\ reports' = Tail(reports)
<1>1. "engine" \in Tasks /\ AfterReport \in Places \ Holding
  BY DEF Tasks, AfterReport, Places, Holding
<1>2. Done("engine", AfterReport) /\ reports' = Tail(reports)
  BY DEF NextReport, AfterReport
<1> QED BY <1>1, <1>2, DoneMoves

(* apply_once books a report on the row it read, or not at all.            *)
LEMMA ApplyKeepsBook ==
  ASSUME BookInv, ReportsOK, ApplyWrite
  PROVE  /\ BookInv' /\ row.status \in LiveStatus /\ Len(log') = Len(log) + 1
         /\ reports # <<>> /\ Head(reports) \in Report
         /\ LET r == Head(reports) IN
            IF r.type = "fill"
              THEN /\ row'.cum_qty = row.cum_qty + r.qty /\ r.qty > 0
                   /\ row'.cum_qty <= Qty
                   /\ row'.status = IF row'.cum_qty < Qty THEN "partially_filled" ELSE "filled"
              ELSE /\ row'.cum_qty = row.cum_qty
                   /\ row'.status \in {"canceled", "rejected"}
<1> DEFINE s == task["engine"].snap
           r == Head(reports)
<1>1. At("engine", "apply_write") /\ VersionHolds(s.version) /\ NextReport /\ ext' = ext
  BY DEF ApplyWrite
<1>2. RowOK /\ FoldOK /\ SnapOK /\ "engine" \in Tasks
  BY TheBook DEF Tasks
<1>3. s = row /\ s.version = Len(log) /\ row.version = s.version
  BY <1>1, <1>2 DEF At, Holding, VersionHolds, SnapOK, RowOK
<1>4. PICK e \in Decide(row, r) :
        /\ log' = Append(log, e)
        /\ row' = [Apply(row, e) EXCEPT !.resume_to_status = row.resume_to_status]
        /\ position' = position + IF e.type \in FillTypes THEN e.fill_qty ELSE 0
  BY <1>3 DEF ApplyWrite
<1>5. GoodState(row) /\ row.resume_to_status = "none"
  BY <1>2 DEF RowOK
<1>6. reports # <<>> /\ r \in Report
  BY <1>1 DEF At, ReportsOK
<1> HIDE DEF r
<1> DEFINE a == Apply(row, e)
<1>7. /\ GoodStep(row, e) /\ row.status \in LiveStatus
      /\ a.original_qty = row.original_qty /\ a.resume_to_status = "none"
      /\ IF r.type = "fill"
           THEN /\ BookedQty(e) = r.qty /\ r.qty > 0
                /\ a.status = IF row.cum_qty + r.qty < row.original_qty
                                THEN "partially_filled" ELSE "filled"
           ELSE BookedQty(e) = 0 /\ a.status \in {"canceled", "rejected"}
  BY <1>5, <1>6, ReportStep
<1>8. /\ e \in OrderDomainEvent /\ GoodState(a) /\ a.version = row.version + 1
      /\ BookedQty(e) \in Nat /\ a.cum_qty = row.cum_qty + BookedQty(e)
  BY <1>7 DEF GoodStep
<1>9. Rehydrate(log') = a /\ log' \in Seq(OrderDomainEvent) /\ Len(log') = Len(log) + 1
  BY <1>4, <1>7, <1>8, FoldNext DEF LiveStatus, TerminalStatus
<1>10. row' = a
  <2>1. row' = [a EXCEPT !.resume_to_status = "none"] /\ a \in OrderState
    BY <1>4, <1>5, <1>8 DEF GoodState
  <2> HIDE DEF a
  <2> QED BY <1>7, <2>1 DEF OrderState
<1>11. position' = position + BookedQty(e)
  BY <1>4 DEF BookedQty
<1> HIDE DEF a
<1>12. row.original_qty = Qty /\ row.version = Len(log) /\ position = row.cum_qty /\ ext \in BOOLEAN
  BY <1>2, <1>7 DEF RowOK, LiveStatus
<1>13. /\ row.cum_qty \in Int /\ a.cum_qty <= a.original_qty /\ Qty \in Int /\ r.qty \in Int
       /\ r.type \in {"fill", "canceled", "reject"}
  BY <1>5, <1>6, <1>8, PathAssumption DEF GoodState, OrderState, Report
<1>14. IF r.type = "fill"
         THEN /\ row'.cum_qty = row.cum_qty + r.qty /\ r.qty > 0
              /\ row'.cum_qty <= Qty
              /\ row'.status = IF row'.cum_qty < Qty THEN "partially_filled" ELSE "filled"
         ELSE /\ row'.cum_qty = row.cum_qty
              /\ row'.status \in {"canceled", "rejected"}
  BY <1>7, <1>8, <1>10, <1>12, <1>13
<1>15. RowOK'
  <2>1. row'.status # "none" /\ row'.status # "suspended"
        /\ (row'.status \in LiveStatus => row'.cum_qty < Qty)
    BY <1>14 DEF LiveStatus
  <2>2. row'.original_qty = Qty /\ row'.resume_to_status = "none" /\ row'.version = Len(log')
        /\ position' = row'.cum_qty /\ GoodState(row')
    BY <1>7, <1>8, <1>9, <1>10, <1>11, <1>12
  <2> QED BY <1>1, <1>9, <1>12, <2>1, <2>2 DEF RowOK
<1>16. FoldOK'
  BY <1>9, <1>10 DEF FoldOK
<1>17. SnapOK'
  <2>1. AfterReport \notin Holding /\ Moved("engine", AfterReport, NoOrder, 0)
    BY <1>1, <1>2, NextReportMoves
  <2>2. Len(log') > Len(log)
    BY <1>2, <1>9 DEF RowOK
  <2> QED BY <1>2, <1>9, <2>1, <2>2, WriteKeeps
<1> QED BY <1>6, <1>7, <1>9, <1>14, <1>15, <1>16, <1>17 DEF BookInv, r

-----------------------------------------------------------------------------
(* What a step that leaves the venue alone keeps                           *)

LEMMA ThePath ==
  ASSUME PathInv
  PROVE  /\ RowOK /\ FoldOK /\ SnapOK /\ BookInv
         /\ VenueOK /\ WireOK /\ ReconOK /\ ReportsOK /\ FlightOK /\ SpentOK
         /\ OnceWhileOpen /\ ClosedOver
         /\ row \in OrderState /\ row.cum_qty \in Nat /\ venue.exec \in Nat
<1>1. BookInv /\ VenueOK
  BY DEF PathInv
<1>2. row \in OrderState
  BY <1>1, TheBook DEF RowOK, GoodState
<1>3. row.cum_qty \in Nat
  BY <1>2 DEF OrderState
<1>4. venue.exec \in Nat
  BY <1>1, PathAssumption DEF VenueOK
<1> QED BY <1>1, <1>2, <1>3, <1>4, TheBook DEF PathInv

(* The stream and the row as they were, one task moved.                    *)
LEMMA QuietBook ==
  ASSUME BookInv, UNCHANGED <<row, log, position>>, ext' \in BOOLEAN, SnapOK'
  PROVE  BookInv'
BY TheBook DEF BookInv, RowOK, FoldOK

LEMMA MoveBook ==
  ASSUME BookInv, UNCHANGED <<row, log, position>>, ext' \in BOOLEAN,
         NEW t \in Tasks, NEW pc, NEW snap, NEW tries,
         Moved(t, pc, snap, tries), pc \in Holding => snap = row
  PROVE  BookInv'
<1>1. SnapOK'
  BY MoveKeeps
<1> QED BY <1>1, QuietBook

LEMMA StillBook ==
  ASSUME BookInv, UNCHANGED <<db, task>>
  PROVE  BookInv'
BY DEF db, BookInv, RowOK, FoldOK, SnapOK

\* The venue only moves on: nothing it did is undone.
MovesOn ==
  /\ venue'.style = venue.style /\ venue'.exec >= venue.exec
  /\ venue.status # "absent" => venue'.status # "absent"
  /\ venue.status \in ClosedAtVenue => venue'.status = venue.status /\ venue'.exec = venue.exec
  /\ Over => Over'

(* So what a message or a report said stays true.                          *)
LEMMA MessageKept ==
  ASSUME VenueOK, VenueOK', MovesOn, NEW m, MessageOK(m)
  PROVE  MessageOK(m)'
<1>1. venue.exec \in Int /\ venue'.exec \in Int
  BY PathAssumption DEF VenueOK
<1>2. m \in Message
  BY DEF MessageOK
<1>3. m.qty \in Int
  BY <1>2, PathAssumption DEF Message
<1> QED BY <1>1, <1>3 DEF MessageOK, MovesOn, Bare

LEMMA FlightKept ==
  ASSUME PathInv, VenueOK', MovesOn, UNCHANGED <<stream, queue>>
  PROVE  FlightOK'
<1>1. VenueOK /\ FlightOK
  BY ThePath
<1>2. \A m : MessageOK(m) => MessageOK(m)'
  BY <1>1, MessageKept
<1> QED BY <1>1, <1>2 DEF FlightOK

Busy == task["engine"].pc \in {"apply", "apply_write"}

LEMMA ReportsKept ==
  ASSUME PathInv, MovesOn, UNCHANGED reports, Busy' <=> Busy
  PROVE  ReportsOK'
<1>1. ReportsOK
  BY ThePath
<1> QED BY <1>1 DEF ReportsOK, MovesOn, Busy, IsClose

LEMMA OnceKept ==
  ASSUME PathInv, UNCHANGED <<venue, stream, queue, reports>>, row'.cum_qty = row.cum_qty
  PROVE  OnceWhileOpen'
<1>1. OnceWhileOpen
  BY ThePath
<1> QED BY <1>1 DEF OnceWhileOpen, Reported, InFlight

(* A step of a task that touches neither the venue nor what is under way.  *)
LEMMA QuietStep ==
  ASSUME PathInv, BookInv', UNCHANGED <<venue, stream, queue, reports>>,
         row'.cum_qty = row.cum_qty, Over => Over', Busy' <=> Busy
  PROVE  /\ VenueOK' /\ FlightOK' /\ ReportsOK' /\ OnceWhileOpen'
         /\ MovesOn
<1>1. VenueOK'
  BY ThePath DEF VenueOK
<1>3. venue.exec \in Nat
  BY ThePath
<1>4. MovesOn
  BY <1>3 DEF MovesOn
<1>5. FlightOK'
  BY <1>1, <1>4, FlightKept
<1>6. ReportsOK'
  BY <1>4, ReportsKept
<1>7. OnceWhileOpen'
  BY OnceKept
<1> QED BY <1>1, <1>4, <1>5, <1>6, <1>7

LEMMA ClosedKept ==
  ASSUME PathInv, MovesOn, spent'.cancels >= spent.cancels,
         row'.status \in TerminalStatus => row.status \in TerminalStatus \/ spent'.cancels > 0 \/ Over'
  PROVE  ClosedOver'
<1>1. ClosedOver /\ SpentOK
  BY ThePath
<1>2. spent.cancels \in Nat
  BY <1>1 DEF SpentOK
<1>3. spent'.cancels = 0 => spent.cancels = 0 /\ ~ (spent'.cancels > 0)
  BY <1>2
<1> QED BY <1>1, <1>3 DEF ClosedOver, MovesOn

LEMMA FaultSpends ==
  ASSUME PathInv, NEW kind \in FaultKind, Fault(kind), task'["cancel"].pc = task["cancel"].pc
  PROVE  SpentOK' /\ spent'.cancels = spent.cancels /\ spent'.cancels >= spent.cancels
<1>1. SpentOK
  BY ThePath
<1>2. spent' = [spent EXCEPT !.faults = Append(@, kind)]
  BY DEF Fault
<1>3. Append(spent.faults, kind) \in Seq(FaultKind)
  BY <1>1 DEF SpentOK
<1>4. spent' \in [faults : Seq(FaultKind), losses : Nat, cancels : Nat] /\ spent'.cancels = spent.cancels
  BY <1>1, <1>2, <1>3 DEF SpentOK
<1>5. spent.cancels \in Nat
  BY <1>1 DEF SpentOK
<1> QED BY <1>1, <1>4, <1>5 DEF SpentOK, At

LEMMA SpentKept ==
  ASSUME PathInv, UNCHANGED spent,
         task'["cancel"].pc = task["cancel"].pc \/ task'["cancel"].pc # "write"
  PROVE  SpentOK' /\ spent'.cancels >= spent.cancels
<1>1. SpentOK
  BY ThePath
<1> QED BY <1>1 DEF SpentOK, At

-----------------------------------------------------------------------------
(* Steps of submit, persist_routed and cancel                              *)

(* A task moves on; the venue, the messages and recon stay as they are.    *)
LEMMA QuietTask ==
  ASSUME PathInv, BookInv', WireOK', SpentOK',
         UNCHANGED <<venue, stream, queue, reports, recon>>,
         row'.cum_qty = row.cum_qty, spent'.cancels >= spent.cancels,
         row'.status \in TerminalStatus => row.status \in TerminalStatus \/ spent'.cancels > 0 \/ Over',
         Over => Over', Busy' <=> Busy,
         recon.stuck => wire' = "none" /\ task'["submit"].pc \notin {"idle", "call", "sent"}
  PROVE  PathInv'
<1>1. VenueOK' /\ FlightOK' /\ ReportsOK' /\ OnceWhileOpen' /\ MovesOn
  BY QuietStep
<1>2. ReconOK'
  BY ThePath DEF ReconOK
<1>3. ClosedOver'
  BY <1>1, ClosedKept
<1> QED BY <1>1, <1>2, <1>3 DEF PathInv

LEMMA CallBrokerKeeps ==
  ASSUME PathInv, CallBroker
  PROVE  PathInv'
<1>0. /\ BookInv /\ SnapOK /\ RowOK /\ WireOK /\ ReconOK
      /\ "submit" \in Tasks /\ "sent" \in Places /\ "sent" \notin Holding
  BY ThePath DEF Tasks, Places, Holding
<1>1. /\ task["submit"].pc = "call" /\ wire' = "request" /\ Goto("submit", "sent")
      /\ UNCHANGED <<row, ext, log, position, venue, stream, queue, reports, recon, spent>>
  BY DEF CallBroker, At, db
<1>2. Moved("submit", "sent", task["submit"].snap, task["submit"].tries)
  BY <1>0, <1>1, GotoMoves
<1>3. task'["submit"].pc = "sent" /\ task'["cancel"] = task["cancel"] /\ task'["engine"] = task["engine"]
  BY <1>2 DEF Moved, Tasks
<1>4. BookInv'
  BY <1>0, <1>1, <1>2, MoveBook DEF RowOK
<1>5. WireOK'
  BY <1>0, <1>1, <1>3 DEF WireOK, At
<1>6. SpentOK' /\ spent'.cancels >= spent.cancels
  BY <1>1, <1>3, SpentKept
<1> QED BY <1>0, <1>1, <1>3, <1>4, <1>5, <1>6, QuietTask DEF Over, Busy, ReconOK

LEMMA RouteUnknownKeeps ==
  ASSUME PathInv, RouteUnknown
  PROVE  PathInv'
<1>0. /\ BookInv /\ SnapOK /\ RowOK /\ WireOK /\ ReconOK
      /\ "submit" \in Tasks /\ "done" \in Places /\ "done" \notin Holding
  BY ThePath DEF Tasks, Places, Holding
<1>1. /\ task["submit"].pc = "sent" /\ Fault("timeout") /\ Goto("submit", "done")
      /\ wire' \in {wire, "none"} /\ (wire' = wire => wire \in {"request", "none"})
      /\ UNCHANGED <<row, ext, log, position, venue, stream, queue, reports, recon>>
  BY DEF RouteUnknown, At, db
<1>2. Moved("submit", "done", task["submit"].snap, task["submit"].tries)
  BY <1>0, <1>1, GotoMoves
<1>3. task'["submit"].pc = "done" /\ task'["cancel"] = task["cancel"] /\ task'["engine"] = task["engine"]
  BY <1>2 DEF Moved, Tasks
<1>4. BookInv'
  BY <1>0, <1>1, <1>2, MoveBook DEF RowOK
<1>5. WireOK'
  BY <1>0, <1>1, <1>3 DEF WireOK, At
<1>6. SpentOK' /\ spent'.cancels >= spent.cancels
  BY <1>1, <1>3, FaultSpends DEF FaultKind
<1> QED BY <1>0, <1>1, <1>3, <1>4, <1>5, <1>6, QuietTask DEF Over, Busy, ReconOK

LEMMA BrokerAcceptedKeeps ==
  ASSUME PathInv, BrokerAccepted
  PROVE  PathInv'
<1>0. /\ BookInv /\ SnapOK /\ RowOK /\ WireOK /\ ReconOK
      /\ "submit" \in Tasks /\ "route" \in Places /\ "route" \notin Holding
  BY ThePath DEF Tasks, Places, Holding
<1>1. /\ task["submit"].pc = "sent" /\ wire = "accepted" /\ wire' = "none" /\ Goto("submit", "route")
      /\ UNCHANGED <<row, ext, log, position, venue, stream, queue, reports, recon, spent>>
  BY DEF BrokerAccepted, At, db
<1>2. Moved("submit", "route", task["submit"].snap, task["submit"].tries)
  BY <1>0, <1>1, GotoMoves
<1>3. task'["submit"].pc = "route" /\ task'["cancel"] = task["cancel"] /\ task'["engine"] = task["engine"]
  BY <1>2 DEF Moved, Tasks
<1>4. BookInv'
  BY <1>0, <1>1, <1>2, MoveBook DEF RowOK
<1>5. WireOK'
  BY <1>0, <1>1, <1>3 DEF WireOK, At
<1>6. SpentOK' /\ spent'.cancels >= spent.cancels
  BY <1>1, <1>3, SpentKept
<1> QED BY <1>0, <1>1, <1>3, <1>4, <1>5, <1>6, QuietTask DEF Over, Busy, ReconOK

(* A router that moves on inside persist_routed, or leaves it.             *)
LEMMA RouterMoves ==
  ASSUME PathInv, BookInv', SpentOK', spent'.cancels >= spent.cancels,
         NEW t \in Routers, task[t].pc \in {"route", "record_id", "route_write", "undo"},
         NEW pc, NEW snap, NEW tries, Moved(t, pc, snap, tries),
         pc \in {"route", "record_id", "route_write", Home(t)} \/ (t = "submit" /\ pc = "undo"),
         UNCHANGED <<venue, wire, stream, queue, reports, recon>>,
         row'.cum_qty = row.cum_qty,
         row'.status = row.status \/ (row.status # "none" /\ row'.status = "routed")
  PROVE  PathInv'
<1>0. WireOK /\ ReconOK
  BY ThePath
<1>1. t = "submit" \/ t = "engine"
  BY DEF Routers
<1>2. CASE t = "submit"
  <2>1. /\ task'["submit"].pc = pc /\ task'["cancel"] = task["cancel"] /\ task'["engine"] = task["engine"]
        /\ pc \in {"route", "record_id", "route_write", "undo", "done"}
    BY <1>2 DEF Moved, Tasks, Home
  <2>2. WireOK'
    BY <1>0, <1>2, <2>1 DEF WireOK, At
  <2> QED BY <1>0, <1>2, <2>1, <2>2, QuietTask DEF Over, Busy, ReconOK, TerminalStatus
<1>3. CASE t = "engine"
  <2>1. /\ task'["engine"].pc = pc /\ task'["cancel"] = task["cancel"] /\ task'["submit"] = task["submit"]
        /\ pc \in {"route", "record_id", "route_write", "idle"}
    BY <1>3 DEF Moved, Tasks, Home
  <2>2. WireOK'
    BY <1>0, <1>3, <2>1 DEF WireOK, At
  <2> QED BY <1>0, <1>3, <2>1, <2>2, QuietTask DEF Over, Busy, ReconOK, TerminalStatus
<1> QED BY <1>1, <1>2, <1>3

LEMMA RouterCancelStays ==
  ASSUME NEW t \in Routers, NEW pc, NEW snap, NEW tries, Moved(t, pc, snap, tries)
  PROVE  task'["cancel"].pc = task["cancel"].pc
BY DEF Moved, Tasks, Routers

LEMMA RouteReadKeeps ==
  ASSUME PathInv, NEW t \in Routers, RouteRead(t)
  PROVE  PathInv'
<1>0. /\ BookInv /\ SnapOK /\ RowOK /\ row \in OrderState /\ t \in Tasks
      /\ {"record_id", "route_write", "undo"} \subseteq Places
      /\ "record_id" \notin Holding /\ "undo" \notin Holding
  BY ThePath DEF Tasks, Routers, Places, Holding
<1>1. /\ task[t].pc = "route"
      /\ UNCHANGED <<row, ext, log, position, venue, wire, stream, queue, reports, recon, spent>>
  BY DEF RouteRead, At, db, outside
<1>2. \E pc, snap, tries :
        /\ Moved(t, pc, snap, tries)
        /\ pc \in {"record_id", "route_write", Home(t)} \/ (t = "submit" /\ pc = "undo")
        /\ pc \in Holding => snap = row
  <2>1. CASE t = "submit" /\ Goto(t, "undo")
    <3>1. Moved(t, "undo", task[t].snap, task[t].tries)
      BY <1>0, <2>1, GotoMoves
    <3> QED BY <1>0, <2>1, <3>1
  <2>2. CASE Finish(t)
    <3>1. Moved(t, Home(t), NoOrder, 0) /\ Home(t) \notin Holding
      BY <1>0, <2>2, FinishMoves
    <3> QED BY <3>1
  <2>3. CASE Goto(t, "record_id")
    <3>1. Moved(t, "record_id", task[t].snap, task[t].tries)
      BY <1>0, <2>3, GotoMoves
    <3> QED BY <1>0, <3>1
  <2>4. CASE Read(t, "route_write")
    <3>1. Moved(t, "route_write", row, task[t].tries)
      BY <1>0, <2>4, ReadMoves
    <3> QED BY <3>1
  <2> QED BY <2>1, <2>2, <2>3, <2>4 DEF RouteRead
<1>3. PICK pc, snap, tries :
        /\ Moved(t, pc, snap, tries)
        /\ pc \in {"record_id", "route_write", Home(t)} \/ (t = "submit" /\ pc = "undo")
        /\ pc \in Holding => snap = row
  BY <1>2
<1>4. BookInv'
  BY <1>0, <1>1, <1>3, MoveBook DEF RowOK
<1>5. SpentOK' /\ spent'.cancels >= spent.cancels
  BY <1>1, <1>3, RouterCancelStays, SpentKept
<1> QED BY <1>1, <1>3, <1>4, <1>5, RouterMoves

LEMMA RecordIdKeeps ==
  ASSUME PathInv, NEW t \in Routers, RecordId(t)
  PROVE  PathInv'
<1>0. BookInv /\ SnapOK
  BY ThePath
<1>1. /\ task[t].pc = "record_id" /\ ext' = TRUE /\ Finish(t)
      /\ UNCHANGED <<row, log, position, venue, wire, stream, queue, reports, recon, spent>>
  BY DEF RecordId, At, outside
<1>2. t \in Tasks /\ Moved(t, Home(t), NoOrder, 0) /\ Home(t) \notin Holding
  BY <1>0, <1>1, FinishMoves
<1>3. BookInv'
  BY <1>0, <1>1, <1>2, MoveBook
<1>4. SpentOK' /\ spent'.cancels >= spent.cancels
  BY <1>1, <1>2, RouterCancelStays, SpentKept
<1> QED BY <1>1, <1>2, <1>3, <1>4, RouterMoves

LEMMA RouteWriteKeeps ==
  ASSUME PathInv, NEW t \in Routers, RouteWrite(t)
  PROVE  PathInv'
<1>0. BookInv /\ SnapOK
  BY ThePath
<1>1. /\ task[t].pc = "route_write" /\ Finish(t)
      /\ UNCHANGED <<venue, wire, stream, queue, reports, recon, spent>>
  BY DEF RouteWrite, At, outside
<1>2. Moved(t, Home(t), NoOrder, 0)
  BY <1>0, <1>1, FinishMoves
<1>3. BookInv' /\ row.status = "submitted" /\ row'.status = "routed" /\ row'.cum_qty = row.cum_qty
  BY <1>0, RouteKeepsBook
<1>4. SpentOK' /\ spent'.cancels >= spent.cancels
  BY <1>1, <1>2, RouterCancelStays, SpentKept
<1> QED BY <1>1, <1>2, <1>3, <1>4, RouterMoves

LEMMA RouteConflictKeeps ==
  ASSUME PathInv, NEW t \in Routers, RouteConflict(t)
  PROVE  PathInv'
<1>0. /\ BookInv /\ SnapOK /\ RowOK /\ t \in Tasks /\ "route" \in Places /\ "route" \notin Holding
  BY ThePath DEF Tasks, Routers, Places, Holding
<1>1. /\ task[t].pc = "route_write"
      /\ UNCHANGED <<row, ext, log, position, venue, wire, stream, queue, reports, recon, spent>>
  BY DEF RouteConflict, At, db, outside
<1>2. \E pc, snap, tries : Moved(t, pc, snap, tries) /\ pc \in {"route", Home(t)} /\ pc \notin Holding
  <2>1. CASE Finish(t)
    <3>1. Moved(t, Home(t), NoOrder, 0) /\ Home(t) \notin Holding
      BY <1>0, <2>1, FinishMoves
    <3> QED BY <3>1
  <2>2. CASE task' = [task EXCEPT ![t].pc = "route", ![t].tries = @ + 1]
    <3>1. Moved(t, "route", task[t].snap, task[t].tries + 1)
      BY <1>0, <2>2, RetryMoves
    <3> QED BY <1>0, <3>1
  <2> QED BY <2>1, <2>2 DEF RouteConflict
<1>3. PICK pc, snap, tries :
        Moved(t, pc, snap, tries) /\ pc \in {"route", Home(t)} /\ pc \notin Holding
  BY <1>2
<1>4. BookInv'
  BY <1>0, <1>1, <1>3, MoveBook DEF RowOK
<1>5. SpentOK' /\ spent'.cancels >= spent.cancels
  BY <1>1, <1>3, RouterCancelStays, SpentKept
<1> QED BY <1>1, <1>3, <1>4, <1>5, RouterMoves

LEMMA RouteFailsKeeps ==
  ASSUME PathInv, NEW t \in Routers, RouteFails(t)
  PROVE  PathInv'
<1>0. BookInv /\ SnapOK /\ RowOK
  BY ThePath
<1>1. /\ task[t].pc \in {"route", "record_id", "route_write"} /\ Finish(t) /\ Fault("db")
      /\ UNCHANGED <<row, ext, log, position, venue, wire, stream, queue, reports, recon>>
  BY DEF RouteFails, db, outside
<1>2. t \in Tasks /\ Moved(t, Home(t), NoOrder, 0) /\ Home(t) \notin Holding
  BY <1>0, <1>1, FinishMoves
<1>3. BookInv'
  BY <1>0, <1>1, <1>2, MoveBook DEF RowOK
<1>4. SpentOK' /\ spent'.cancels >= spent.cancels
  BY <1>1, <1>2, RouterCancelStays, FaultSpends DEF FaultKind
<1> QED BY <1>1, <1>2, <1>3, <1>4, RouterMoves

LEMMA UndoFailsKeeps ==
  ASSUME PathInv, UndoFails
  PROVE  PathInv'
<1>0. BookInv /\ SnapOK /\ RowOK /\ "submit" \in Routers
  BY ThePath DEF Routers
<1>1. /\ task["submit"].pc = "undo" /\ Finish("submit") /\ Fault("api")
      /\ UNCHANGED <<row, ext, log, position, venue, wire, stream, queue, reports, recon>>
  BY DEF UndoFails, db, outside, At
<1>2. /\ "submit" \in Tasks /\ Moved("submit", Home("submit"), NoOrder, 0)
      /\ Home("submit") \notin Holding
  BY <1>0, <1>1, FinishMoves
<1>3. BookInv'
  BY <1>0, <1>1, <1>2, MoveBook DEF RowOK
<1>4. SpentOK' /\ spent'.cancels >= spent.cancels
  BY <1>0, <1>1, <1>2, RouterCancelStays, FaultSpends DEF FaultKind
<1> QED BY <1>0, <1>1, <1>2, <1>3, <1>4, RouterMoves

(* A cancel was asked for, so the row may close at any time.               *)
LEMMA CancelLocallyKeeps ==
  ASSUME PathInv, CancelLocally
  PROVE  PathInv'
<1>0. /\ BookInv /\ SnapOK /\ WireOK /\ ReconOK /\ SpentOK
      /\ "cancel" \in Tasks /\ "idle" \in Places
  BY ThePath DEF Tasks, Places
<1>1. /\ task["cancel"].pc = "write" /\ Done("cancel", "idle")
      /\ UNCHANGED <<venue, wire, stream, queue, reports, recon, spent>>
  BY DEF CancelLocally, At, outside
<1>2. Moved("cancel", "idle", NoOrder, 0)
  BY <1>0, <1>1, DoneMoves
<1>3. task'["cancel"].pc = "idle" /\ task'["submit"] = task["submit"] /\ task'["engine"] = task["engine"]
  BY <1>2 DEF Moved, Tasks
<1>4. /\ BookInv' /\ row'.cum_qty = row.cum_qty
      /\ row' = row \/ (row.status \in LiveStatus /\ row'.status = "canceled")
  BY <1>0, CancelKeepsBook
<1>5. WireOK'
  BY <1>0, <1>1, <1>3, <1>4 DEF WireOK, At, LiveStatus
<1>6. SpentOK' /\ spent'.cancels >= spent.cancels
  BY <1>1, <1>3, SpentKept
<1>7. spent'.cancels > 0
  BY <1>0, <1>1 DEF SpentOK, At
<1> QED BY <1>0, <1>1, <1>3, <1>4, <1>5, <1>6, <1>7, QuietTask DEF Over, Busy, ReconOK

LEMMA SubmitKeeps ==
  ASSUME PathInv, Submit
  PROVE  PathInv'
<1>0. /\ BookInv /\ SnapOK /\ RowOK /\ WireOK /\ ReconOK
      /\ "submit" \in Tasks /\ "call" \in Places
  BY ThePath DEF Tasks, Places
<1>1. /\ task["submit"].pc = "idle" /\ row.status = "none" /\ Goto("submit", "call")
      /\ UNCHANGED <<venue, wire, stream, queue, reports, recon, spent>>
  BY DEF Submit, At, outside
<1>2. Moved("submit", "call", task["submit"].snap, task["submit"].tries)
  BY <1>0, <1>1, GotoMoves
<1>3. task'["submit"].pc = "call" /\ task'["cancel"] = task["cancel"] /\ task'["engine"] = task["engine"]
  BY <1>2 DEF Moved, Tasks
<1>4. BookInv' /\ row'.status = "submitted" /\ row'.cum_qty = 0
  BY <1>0, SubmitKeepsBook
<1>5. row.cum_qty = 0
  BY <1>0, <1>1 DEF RowOK, NoOrder
<1>6. WireOK'
  BY <1>0, <1>1, <1>3, <1>4 DEF WireOK, At
<1>7. SpentOK' /\ spent'.cancels >= spent.cancels
  BY <1>1, <1>3, SpentKept
<1> QED BY <1>0, <1>1, <1>3, <1>4, <1>5, <1>6, <1>7, QuietTask DEF Over, Busy, ReconOK, TerminalStatus

LEMMA SubmitRefusedKeeps ==
  ASSUME PathInv, SubmitRefused
  PROVE  PathInv'
<1>0. /\ BookInv /\ SnapOK /\ RowOK /\ WireOK /\ ReconOK
      /\ "submit" \in Tasks /\ "done" \in Places
  BY ThePath DEF Tasks, Places
<1>1. /\ task["submit"].pc = "idle" /\ row.status = "none" /\ Goto("submit", "done")
      /\ UNCHANGED <<venue, wire, stream, queue, reports, recon, spent>>
  BY DEF SubmitRefused, At, outside
<1>2. Moved("submit", "done", task["submit"].snap, task["submit"].tries)
  BY <1>0, <1>1, GotoMoves
<1>3. task'["submit"].pc = "done" /\ task'["cancel"] = task["cancel"] /\ task'["engine"] = task["engine"]
  BY <1>2 DEF Moved, Tasks
<1>4. BookInv' /\ row'.status = "rejected" /\ row'.cum_qty = 0
  BY <1>0, RefusedKeepsBook
<1>5. row.cum_qty = 0
  BY <1>0, <1>1 DEF RowOK, NoOrder
<1>6. WireOK'
  BY <1>0, <1>1, <1>3, <1>4 DEF WireOK, At
<1>7. SpentOK' /\ spent'.cancels >= spent.cancels
  BY <1>1, <1>3, SpentKept
<1>8. Over'
  BY <1>0, <1>1, <1>3 DEF WireOK, Over
<1> QED BY <1>0, <1>1, <1>3, <1>4, <1>5, <1>6, <1>7, <1>8, QuietTask DEF Over, Busy, ReconOK

-----------------------------------------------------------------------------
(* Steps that send, take or lose a message, or move the venue              *)

Counted == row.cum_qty + Reported + InFlight

LEMMA CountedType ==
  ASSUME PathInv
  PROVE  /\ Reported \in Nat /\ FillSum(queue) \in Nat /\ FillSum(stream) \in Nat
         /\ InFlight = FillSum(queue) + FillSum(stream) /\ InFlight \in Nat /\ Counted \in Nat
<1>1. ReportsOK /\ FlightOK /\ row.cum_qty \in Nat
  BY ThePath
<1>2. FillSum(queue) \in Nat /\ FillSum(stream) \in Nat
  BY <1>1, FillSumType DEF FlightOK
<1>3. Reported \in Nat
  <2>1. CASE reports # <<>>
    <3>1. reports[1] \in Report
      BY <1>1, <2>1 DEF ReportsOK
    <3> QED BY <3>1, PathAssumption DEF Reported, Report
  <2>2. CASE reports = <<>>
    BY <2>2 DEF Reported
  <2> QED BY <2>1, <2>2
<1> QED BY <1>1, <1>2, <1>3 DEF InFlight, Counted

(* How every step is shown to keep the invariant.                          *)
LEMMA PathFrom ==
  ASSUME PathInv, BookInv', VenueOK', WireOK', ReconOK', SpentOK', FlightOK', ReportsOK', MovesOn,
         spent'.cancels >= spent.cancels,
         row'.status \in TerminalStatus => row.status \in TerminalStatus \/ spent'.cancels > 0 \/ Over',
         Counted' \in Int,
         venue'.status \notin ClosedAtVenue => Counted' <= Counted + (venue'.exec - venue.exec)
  PROVE  PathInv'
<1>1. ClosedOver'
  BY ClosedKept
<1>2. OnceWhileOpen /\ Counted \in Nat /\ venue.exec \in Nat
  BY ThePath, CountedType
<1>3. venue'.exec \in Int
  BY PathAssumption DEF VenueOK
<1>4. OnceWhileOpen'
  <2>1. venue'.status \notin ClosedAtVenue => venue.status \notin ClosedAtVenue
    BY DEF MovesOn
  <2>2. venue.status \notin ClosedAtVenue => Counted <= venue.exec
    BY <1>2 DEF OnceWhileOpen, Counted
  <2>3. venue'.status \notin ClosedAtVenue => Counted' <= venue'.exec
    BY <1>2, <1>3, <2>1, <2>2
  <2> QED BY <2>3 DEF OnceWhileOpen, Counted
<1> QED BY <1>1, <1>4 DEF PathInv

(* The count after a step, from the parts.                                 *)
LEMMA CountedNext ==
  ASSUME BookInv', FlightOK', ReportsOK'
  PROVE  /\ Reported' \in Nat /\ FillSum(queue') \in Nat /\ FillSum(stream') \in Nat
         /\ row'.cum_qty \in Nat
         /\ Counted' = row'.cum_qty + Reported' + (FillSum(queue') + FillSum(stream'))
         /\ Counted' \in Int
<1>1. row'.cum_qty \in Nat
  BY DEF BookInv, RowOK, GoodState, OrderState
<1>2. FillSum(queue') \in Nat /\ FillSum(stream') \in Nat
  BY FillSumType DEF FlightOK
<1>3. Reported' \in Nat
  <2>1. CASE reports' # <<>>
    <3>1. reports'[1] \in Report
      BY <2>1 DEF ReportsOK
    <3> QED BY <3>1, PathAssumption DEF Reported, Report
  <2>2. CASE reports' = <<>>
    BY <2>2 DEF Reported
  <2> QED BY <2>1, <2>2
<1>4. Counted' = row'.cum_qty + Reported' + (FillSum(queue') + FillSum(stream'))
  BY DEF Counted, InFlight, FillSum
<1> QED BY <1>1, <1>2, <1>3, <1>4

(* A message more in the engine's channel.                                 *)
LEMMA SentFlight ==
  ASSUME PathInv, VenueOK', MovesOn, UNCHANGED stream, NEW m, MessageOK(m)', queue' = Append(queue, m)
  PROVE  FlightOK' /\ m \in Message /\ FillSum(queue') = FillSum(queue) + FillQty(m)
<1>1. VenueOK /\ FlightOK
  BY ThePath
<1>2. \A x : MessageOK(x) => MessageOK(x)'
  BY <1>1, MessageKept
<1>3. m \in Message
  BY DEF MessageOK
<1>4. queue' \in Seq(Message) /\ FillSum(queue') = FillSum(queue) + FillQty(m)
  BY <1>1, <1>3, FillSumAppend DEF FlightOK
<1>5. ASSUME NEW i \in DOMAIN queue' PROVE MessageOK(queue[i])'
  <2>1. queue'[i] = m \/ (i \in DOMAIN queue /\ queue'[i] = queue[i])
    BY <1>1 DEF FlightOK
  <2>2. PICK x : x = queue'[i]
    OBVIOUS
  <2>3. MessageOK(x)'
    BY <1>1, <1>2, <2>1, <2>2 DEF FlightOK
  <2> QED BY <2>2, <2>3 DEF MessageOK, Bare
<1>6. \A i \in DOMAIN stream' : MessageOK(stream[i])'
  BY <1>1, <1>2 DEF FlightOK
<1> QED BY <1>1, <1>3, <1>4, <1>5, <1>6 DEF FlightOK

(* A message less in the engine's channel.                                 *)
LEMMA TakenFlight ==
  ASSUME PathInv, VenueOK', MovesOn, UNCHANGED stream, queue # <<>>, queue' = Tail(queue)
  PROVE  /\ FlightOK' /\ MessageOK(Head(queue)) /\ Head(queue) \in Message
         /\ FillSum(queue') = FillSum(queue) - FillQty(Head(queue))
<1>1. VenueOK /\ FlightOK
  BY ThePath
<1>2. \A x : MessageOK(x) => MessageOK(x)'
  BY <1>1, MessageKept
<1>3. queue \in Seq(Message)
  BY <1>1 DEF FlightOK
<1>4. 1 \in 1..Len(queue) /\ Dropped(queue, 1, queue') /\ Head(queue) = queue[1]
  BY <1>3, TailDropped
<1>5. /\ FillSum(queue') = FillSum(queue) - FillQty(Head(queue))
      /\ \A i \in 1..Len(queue') : \E j \in 1..Len(queue) : queue'[i] = queue[j]
  BY <1>3, <1>4, FillSumDropped
<1>6. queue' \in Seq(Message)
  BY <1>4 DEF Dropped
<1>7. MessageOK(Head(queue)) /\ Head(queue) \in Message
  BY <1>1, <1>3, <1>4 DEF FlightOK, MessageOK
<1>8. ASSUME NEW i \in DOMAIN queue' PROVE MessageOK(queue[i])'
  <2>1. PICK x : x = queue'[i]
    OBVIOUS
  <2>2. MessageOK(x)
    BY <1>1, <1>3, <1>5, <1>6, <2>1 DEF FlightOK
  <2>3. MessageOK(x)'
    BY <1>2, <2>2
  <2> QED BY <2>1, <2>3 DEF MessageOK, Bare
<1>9. \A i \in DOMAIN stream' : MessageOK(stream[i])'
  BY <1>1, <1>2 DEF FlightOK
<1> QED BY <1>1, <1>5, <1>6, <1>7, <1>8, <1>9 DEF FlightOK

(* A step that leaves the venue and the reports alone and sends a close.   *)
LEMMA SendClose ==
  ASSUME PathInv, BookInv', WireOK', SpentOK', Over',
         UNCHANGED <<row, venue, stream, reports, recon, spent>>, Busy' <=> Busy,
         queue' = Append(queue, Msg("rejected", 0, "none")),
         recon.stuck => wire' = "none" /\ task'["submit"].pc \notin {"idle", "call", "sent"}
  PROVE  PathInv'
<1> DEFINE m == Msg("rejected", 0, "none")
<1>0. VenueOK /\ ReconOK /\ SpentOK /\ venue.exec \in Nat
  BY ThePath
<1>1. VenueOK'
  BY <1>0 DEF VenueOK
<1>2. MovesOn
  BY <1>0 DEF MovesOn
<1>3. m \in Message /\ m.kind = "rejected"
  BY PathAssumption DEF Message, Msg, ClosedAtVenue
<1>4. MessageOK(m)'
  BY <1>3 DEF MessageOK, Bare
<1> HIDE DEF m
<1>5. FlightOK' /\ FillSum(queue') = FillSum(queue) + FillQty(m)
  BY <1>1, <1>2, <1>4, SentFlight DEF m
<1>6. FillQty(m) = 0
  BY <1>3 DEF FillQty
<1>7. ReportsOK'
  BY <1>2, ReportsKept
<1>8. ReconOK'
  BY <1>0 DEF ReconOK
<1>9. /\ Reported \in Nat /\ FillSum(queue) \in Nat /\ FillSum(stream) \in Nat
      /\ Counted = row.cum_qty + Reported + (FillSum(queue) + FillSum(stream)) /\ Counted \in Nat
  BY CountedType DEF Counted
<1>10. /\ Counted' = row'.cum_qty + Reported' + (FillSum(queue') + FillSum(stream'))
       /\ Counted' \in Int
  BY <1>5, <1>7, CountedNext
<1>11. Counted' = Counted
  BY <1>5, <1>6, <1>9, <1>10 DEF Reported
<1>12. Counted' <= Counted + (venue'.exec - venue.exec)
  BY <1>0, <1>9, <1>11
<1>13. spent'.cancels >= spent.cancels
  BY <1>0 DEF SpentOK
<1> QED BY <1>1, <1>2, <1>5, <1>7, <1>8, <1>10, <1>12, <1>13, PathFrom

LEMMA NoAdapterKeeps ==
  ASSUME PathInv, NoAdapter
  PROVE  PathInv'
<1>0. /\ BookInv /\ SnapOK /\ RowOK /\ WireOK /\ ReconOK
      /\ "submit" \in Tasks /\ "done" \in Places /\ "done" \notin Holding
  BY ThePath DEF Tasks, Places, Holding
<1>1. /\ task["submit"].pc = "call" /\ Goto("submit", "done")
      /\ queue' = Append(queue, Msg("rejected", 0, "none"))
      /\ UNCHANGED <<row, ext, log, position, venue, wire, stream, reports, recon, spent>>
  BY DEF NoAdapter, At, Exec, db, outside
<1>2. Moved("submit", "done", task["submit"].snap, task["submit"].tries)
  BY <1>0, <1>1, GotoMoves
<1>3. task'["submit"].pc = "done" /\ task'["cancel"] = task["cancel"] /\ task'["engine"] = task["engine"]
  BY <1>2 DEF Moved, Tasks
<1>4. BookInv'
  BY <1>0, <1>1, <1>2, MoveBook DEF RowOK
<1>5. WireOK' /\ Over'
  BY <1>0, <1>1, <1>3 DEF WireOK, At, Over
<1>6. SpentOK'
  BY <1>1, <1>3, SpentKept
<1> QED BY <1>0, <1>1, <1>3, <1>4, <1>5, <1>6, SendClose DEF Busy, ReconOK

LEMMA BrokerRejectedKeeps ==
  ASSUME PathInv, BrokerRejected
  PROVE  PathInv'
<1>0. /\ BookInv /\ SnapOK /\ RowOK /\ WireOK /\ ReconOK
      /\ "submit" \in Tasks /\ "done" \in Places /\ "done" \notin Holding
  BY ThePath DEF Tasks, Places, Holding
<1>1. /\ task["submit"].pc = "sent" /\ wire = "rejected" /\ Goto("submit", "done")
      /\ wire' = "none" /\ queue' = Append(queue, Msg("rejected", 0, "none"))
      /\ UNCHANGED <<row, ext, log, position, venue, stream, reports, recon, spent>>
  BY DEF BrokerRejected, At, Exec, db
<1>2. Moved("submit", "done", task["submit"].snap, task["submit"].tries)
  BY <1>0, <1>1, GotoMoves
<1>3. task'["submit"].pc = "done" /\ task'["cancel"] = task["cancel"] /\ task'["engine"] = task["engine"]
  BY <1>2 DEF Moved, Tasks
<1>4. BookInv'
  BY <1>0, <1>1, <1>2, MoveBook DEF RowOK
<1>5. WireOK' /\ Over'
  BY <1>0, <1>1, <1>3 DEF WireOK, At, Over
<1>6. SpentOK'
  BY <1>1, <1>3, SpentKept
<1> QED BY <1>0, <1>1, <1>3, <1>4, <1>5, <1>6, SendClose DEF Busy, ReconOK

(* Asking the venue to cancel changes nothing but that it was asked.       *)
LEMMA AskKeeps ==
  ASSUME PathInv, BookInv', WireOK', SpentOK', AskVenueToCancel,
         UNCHANGED <<row, wire, stream, queue, reports, recon>>, spent'.cancels >= spent.cancels,
         Over => Over', Busy' <=> Busy,
         recon.stuck => wire' = "none" /\ task'["submit"].pc \notin {"idle", "call", "sent"}
  PROVE  PathInv'
<1>0. VenueOK /\ ReconOK /\ venue.exec \in Nat
  BY ThePath
<1>1. /\ VenueOK' /\ venue'.style = venue.style /\ venue'.exec = venue.exec
      /\ venue'.status = venue.status
  BY <1>0 DEF VenueOK, AskVenueToCancel
<1>2. MovesOn
  BY <1>0, <1>1 DEF MovesOn
<1>3. FlightOK'
  BY <1>1, <1>2, FlightKept
<1>4. ReportsOK'
  BY <1>2, ReportsKept
<1>5. ReconOK'
  BY <1>0, <1>1 DEF ReconOK
<1>6. Counted' = Counted /\ Counted \in Nat
  BY CountedType DEF Counted, Reported, InFlight
<1>7. Counted' <= Counted + (venue'.exec - venue.exec)
  BY <1>0, <1>1, <1>6
<1> QED BY <1>1, <1>2, <1>3, <1>4, <1>5, <1>6, <1>7, PathFrom

LEMMA UndoAtBrokerKeeps ==
  ASSUME PathInv, UndoAtBroker
  PROVE  PathInv'
<1>0. BookInv /\ SnapOK /\ RowOK /\ WireOK /\ ReconOK /\ VenueOK /\ "submit" \in Routers
  BY ThePath DEF Routers
<1>1. /\ task["submit"].pc = "undo" /\ Finish("submit") /\ AskVenueToCancel
      /\ UNCHANGED <<row, ext, log, position, wire, stream, queue, reports, recon, spent>>
  BY DEF UndoAtBroker, db, At
<1>2. /\ "submit" \in Tasks /\ Moved("submit", Home("submit"), NoOrder, 0)
      /\ Home("submit") \notin Holding /\ Home("submit") = "done"
  BY <1>0, <1>1, FinishMoves DEF Home
<1>3. task'["submit"].pc = "done" /\ task'["cancel"] = task["cancel"] /\ task'["engine"] = task["engine"]
  BY <1>2 DEF Moved, Tasks
<1>4. BookInv'
  BY <1>0, <1>1, <1>2, MoveBook DEF RowOK
<1>5. venue'.status = venue.status
  BY <1>0, <1>1 DEF AskVenueToCancel, VenueOK
<1>6. WireOK'
  BY <1>0, <1>1, <1>3, <1>5 DEF WireOK, At
<1>7. SpentOK' /\ spent'.cancels >= spent.cancels
  BY <1>1, <1>3, SpentKept
<1> QED BY <1>0, <1>1, <1>3, <1>4, <1>5, <1>6, <1>7, AskKeeps DEF Over, Busy, ReconOK

LEMMA CancelRequestKeeps ==
  ASSUME PathInv, CancelRequest
  PROVE  PathInv'
<1>0. /\ BookInv /\ SnapOK /\ RowOK /\ WireOK /\ ReconOK /\ VenueOK /\ SpentOK /\ row \in OrderState
      /\ "cancel" \in Tasks /\ "write" \in Places
  BY ThePath DEF Tasks, Places
<1>1. /\ task["cancel"].pc = "idle" /\ row.status \in LiveStatus
      /\ spent' = [spent EXCEPT !.cancels = @ + 1]
      /\ UNCHANGED <<row, ext, log, position, wire, stream, queue, reports, recon>>
  BY DEF CancelRequest, db, At
<1>2. /\ spent' \in [faults : Seq(FaultKind), losses : Nat, cancels : Nat]
      /\ spent'.cancels > 0 /\ spent'.cancels >= spent.cancels
  BY <1>0, <1>1 DEF SpentOK
<1>3. SpentOK'
  BY <1>2 DEF SpentOK
<1>4. CASE ext
  <2>1. AskVenueToCancel /\ UNCHANGED task
    BY <1>4 DEF CancelRequest
  <2>2. BookInv'
    BY <1>0, <1>1, <2>1, StillBook DEF db
  <2>3. venue'.status = venue.status
    BY <1>0, <2>1 DEF AskVenueToCancel, VenueOK
  <2>4. WireOK'
    BY <1>0, <1>1, <2>1, <2>3 DEF WireOK, At
  <2> QED BY <1>0, <1>1, <1>2, <1>3, <2>1, <2>2, <2>3, <2>4, AskKeeps DEF Over, Busy, ReconOK
<1>5. CASE ~ ext
  <2>1. Read("cancel", "write") /\ UNCHANGED venue
    BY <1>5 DEF CancelRequest
  <2>2. Moved("cancel", "write", row, task["cancel"].tries)
    BY <1>0, <2>1, ReadMoves
  <2>3. task'["cancel"].pc = "write" /\ task'["submit"] = task["submit"] /\ task'["engine"] = task["engine"]
    BY <2>2 DEF Moved, Tasks
  <2>4. BookInv'
    BY <1>0, <1>1, <2>2, MoveBook DEF RowOK
  <2>5. WireOK'
    BY <1>0, <1>1, <2>1, <2>3 DEF WireOK, At
  <2> QED BY <1>0, <1>1, <1>2, <1>3, <2>1, <2>3, <2>4, <2>5, QuietTask DEF Over, Busy, ReconOK
<1> QED BY <1>4, <1>5

-----------------------------------------------------------------------------
(* Steps of the engine                                                     *)

\* The quantity of the fill that a list of reports starts with, and whether the
\* list ends in a close.
FirstFill(rs) == IF rs # <<>> /\ rs[1].type = "fill" THEN rs[1].qty ELSE 0

Closes(rs) == rs # <<>> /\ IsClose(rs[Len(rs)])

GoodReports(rs) ==
  /\ rs \in Seq(Report) /\ Len(rs) <= 2
  /\ \A i \in DOMAIN rs :
       /\ rs[i].type = "fill" => i = 1 /\ rs[i].qty > 0
       /\ IsClose(rs[i]) => i = Len(rs)

LEMMA OneReport ==
  ASSUME NEW r \in Report, r.type = "fill" => r.qty > 0, NEW rs, rs = <<r>>
  PROVE  /\ GoodReports(rs) /\ rs # <<>>
         /\ FirstFill(rs) = IF r.type = "fill" THEN r.qty ELSE 0
         /\ Closes(rs) <=> IsClose(r)
<1>1. rs \in Seq(Report) /\ Len(rs) = 1 /\ rs[1] = r /\ rs # <<>>
  OBVIOUS
<1>2. \A i \in DOMAIN rs : i = 1
  BY <1>1
<1> QED BY <1>1, <1>2 DEF GoodReports, FirstFill, Closes, IsClose

LEMMA FillThenClose ==
  ASSUME NEW f \in Report, f.type = "fill", f.qty > 0, NEW c \in Report, IsClose(c),
         NEW rs, rs = <<f>> \o <<c>>
  PROVE  GoodReports(rs) /\ rs # <<>> /\ FirstFill(rs) = f.qty /\ Closes(rs)
<1> DEFINE a == <<f>>
           b == <<c>>
<1>1. a \in Seq(Report) /\ b \in Seq(Report) /\ Len(a) = 1 /\ Len(b) = 1 /\ a[1] = f /\ b[1] = c
  OBVIOUS
<1>a. rs = a \o b
  OBVIOUS
<1> HIDE DEF a, b
<1>b. /\ rs \in Seq(Report) /\ Len(rs) = Len(a) + Len(b)
      /\ \A i \in 1..(Len(a) + Len(b)) : rs[i] = IF i <= Len(a) THEN a[i] ELSE b[i - Len(a)]
  BY <1>1, <1>a, ConcatProperties
<1>2. rs \in Seq(Report) /\ Len(rs) = 2 /\ rs[1] = f /\ rs[2] = c /\ rs # <<>>
  BY <1>1, <1>b
<1>3. \A i \in DOMAIN rs : i = 1 \/ i = 2
  BY <1>2
<1> QED BY <1>2, <1>3 DEF GoodReports, FirstFill, Closes, IsClose

LEMMA NoReport ==
  ASSUME NEW rs, rs = <<>>
  PROVE  GoodReports(rs) /\ FirstFill(rs) = 0 /\ ~ Closes(rs)
BY DEF GoodReports, FirstFill, Closes

\* What an update says is missing.
Missing(m, booked) ==
  IF m.kind = "fill" THEN m.qty
  ELSE IF m.kind \in {"cumulative", "terminal"} /\ m.qty > booked THEN m.qty - booked ELSE 0

IsFinal(m) == Bare(m) \/ (m.kind = "terminal" /\ m.outcome \in {"canceled", "rejected"})

(* What the engine makes of an event.                                      *)
LEMMA ReportsForIs ==
  ASSUME NEW m \in Message, m.kind # "ack", m.kind = "fill" => m.qty > 0, NEW booked \in Nat,
         NEW rs, rs = ReportsFor(m, booked)
  PROVE  /\ GoodReports(rs) /\ FirstFill(rs) = Missing(m, booked)
         /\ Closes(rs) <=> IsFinal(m)
         /\ rs # <<>> <=> Missing(m, booked) > 0 \/ IsFinal(m)
<1>0. /\ m.kind \in {"fill", "cumulative", "terminal", "canceled", "rejected"}
      /\ m.qty \in 0..Qty /\ Qty \in Nat
      /\ m.outcome \in {"filled", "canceled", "rejected", "working", "none"}
  BY PathAssumption DEF Message, ClosedAtVenue
<1> DEFINE gap == [type |-> "fill", qty |-> m.qty - booked]
           whole == [type |-> "fill", qty |-> m.qty]
           cancel == [type |-> "canceled", qty |-> 0]
           reject == [type |-> "reject", qty |-> 0]
<1>1. cancel \in Report /\ reject \in Report /\ IsClose(cancel) /\ IsClose(reject)
      /\ cancel.type # "fill" /\ reject.type # "fill"
  BY <1>0 DEF Report, IsClose
<1>2. m.qty > booked => gap \in Report /\ gap.type = "fill" /\ gap.qty > 0 /\ gap.qty = m.qty - booked
                        /\ ~ IsClose(gap)
  BY <1>0 DEF Report, IsClose
<1>3. whole \in Report /\ whole.type = "fill" /\ whole.qty = m.qty /\ ~ IsClose(whole)
  BY <1>0 DEF Report, IsClose
<1>4. MissingFill(booked, m.qty) = IF m.qty > booked THEN <<gap>> ELSE <<>>
  BY DEF MissingFill
<1>5. /\ Close("canceled") = <<cancel>> /\ Close("rejected") = <<reject>>
      /\ Close("filled") = <<>> /\ Close("working") = <<>> /\ Close("none") = <<>>
  BY DEF Close
<1> HIDE DEF gap, whole, cancel, reject
<1>6. CASE m.kind = "fill"
  <2>1. rs = <<whole>>
    BY <1>6 DEF ReportsFor, whole
  <2> QED BY <1>3, <1>6, <2>1, OneReport DEF Missing, IsFinal, Bare
<1>7. CASE m.kind \in {"canceled", "rejected"}
  <2>1. rs = <<cancel>> \/ rs = <<reject>>
    BY <1>5, <1>7 DEF ReportsFor
  <2> QED BY <1>1, <1>7, <2>1, OneReport DEF Missing, IsFinal, Bare
<1>8. CASE m.kind = "cumulative"
  <2>1. rs = MissingFill(booked, m.qty)
    BY <1>8 DEF ReportsFor
  <2>2. CASE m.qty > booked
    <3>1. rs = <<gap>>
      BY <1>4, <2>1, <2>2
    <3> QED BY <1>2, <1>8, <2>2, <3>1, OneReport DEF Missing, IsFinal, Bare
  <2>3. CASE ~ (m.qty > booked)
    <3>1. rs = <<>>
      BY <1>4, <2>1, <2>3
    <3> QED BY <1>8, <2>3, <3>1, NoReport DEF Missing, IsFinal, Bare
  <2> QED BY <2>2, <2>3
<1>9. CASE m.kind = "terminal"
  <2>1. rs = MissingFill(booked, m.qty) \o Close(m.outcome)
    BY <1>9 DEF ReportsFor
  <2>2. ~ Bare(m)
    BY <1>9 DEF Bare
  <2>3. CASE m.outcome \in {"canceled", "rejected"}
    <3>0. PICK c : c \in {cancel, reject} /\ Close(m.outcome) = <<c>>
      BY <1>5, <2>3
    <3>1. CASE m.qty > booked
      <4>1. rs = <<gap>> \o <<c>>
        BY <1>4, <2>1, <3>0, <3>1
      <4> QED BY <1>1, <1>2, <1>9, <2>3, <3>0, <3>1, <4>1, FillThenClose DEF Missing, IsFinal
    <3>2. CASE ~ (m.qty > booked)
      <4> DEFINE w == MissingFill(booked, m.qty)
                 z == Close(m.outcome)
      <4>a. w = <<>> /\ z = <<c>>
        BY <1>4, <3>0, <3>2
      <4>b. z \in Seq({c})
        BY <4>a
      <4>0. rs = w \o z
        BY <2>1
      <4> HIDE DEF w, z
      <4>c. <<>> \o z = z
        BY <4>b, ConcatEmptySeq
      <4>1. rs = <<c>>
        BY <4>0, <4>a, <4>c
      <4> QED BY <1>1, <1>9, <2>3, <3>0, <3>2, <4>1, OneReport DEF Missing, IsFinal
    <3> QED BY <3>1, <3>2
  <2>4. CASE m.outcome \notin {"canceled", "rejected"}
    <3>0. Close(m.outcome) = <<>>
      BY <1>0, <1>5, <2>4
    <3>1. CASE m.qty > booked
      <4>1. rs = <<gap>>
        BY <1>4, <2>1, <3>0, <3>1
      <4> QED BY <1>2, <1>9, <2>2, <2>4, <3>1, <4>1, OneReport DEF Missing, IsFinal
    <3>2. CASE ~ (m.qty > booked)
      <4>1. rs = <<>>
        BY <1>4, <2>1, <3>0, <3>2
      <4> QED BY <1>9, <2>2, <2>4, <3>2, <4>1, NoReport DEF Missing, IsFinal
    <3> QED BY <3>1, <3>2
  <2> QED BY <2>3, <2>4
<1> QED BY <1>0, <1>6, <1>7, <1>8, <1>9

(* A close is said only of an order that the venue is done with.           *)
LEMMA FinalIsOver ==
  ASSUME PathInv, NEW m, MessageOK(m), IsFinal(m) \/ m.kind = "terminal"
  PROVE  Over
<1>0. WireOK
  BY ThePath
<1> QED BY <1>0 DEF MessageOK, IsFinal, WireOK, Over, ClosedAtVenue

(* Where updates are cumulative, no single fill is on its way.             *)
LEMMA NoFillsOfStates ==
  ASSUME PathInv, venue.style \in {"state", "blind"}
  PROVE  InFlight = 0
<1>1. FlightOK
  BY ThePath
<1>2. FillSum(stream) = 0 /\ FillSum(queue) = 0
  BY <1>1, FillSumNone DEF FlightOK, MessageOK
<1> QED BY <1>2 DEF InFlight

LEMMA ReportedIs == Reported = FirstFill(reports)
BY DEF Reported, FirstFill

(* The reports of the event that was taken.                                *)
LEMMA TakenReports ==
  ASSUME PathInv, NEW m, MessageOK(m), m.kind # "ack", reports' = ReportsFor(m, row.cum_qty),
         UNCHANGED venue, Over => Over',
         reports' = <<>> <=> task'["engine"].pc \notin {"apply", "apply_write"}
  PROVE  /\ ReportsOK' /\ Reported' = Missing(m, row.cum_qty) /\ m \in Message
         /\ Closes(reports') <=> IsFinal(m)
<1>0. row.cum_qty \in Nat /\ m \in Message /\ (m.kind = "fill" => m.qty > 0)
  BY ThePath DEF MessageOK
<1> DEFINE rs == reports'
<1>1. /\ GoodReports(rs) /\ FirstFill(rs) = Missing(m, row.cum_qty) /\ (Closes(rs) <=> IsFinal(m))
      /\ (rs # <<>> <=> Missing(m, row.cum_qty) > 0 \/ IsFinal(m))
  BY <1>0, ReportsForIs
<1>2. Reported' = FirstFill(rs)
  BY DEF Reported, FirstFill
<1>3. IsFinal(m) => Over'
  BY FinalIsOver
<1>4. Bare(m) \/ venue'.status # "absent"
  BY DEF MessageOK, Bare
<1>5. ASSUME NEW i \in DOMAIN rs
      PROVE  /\ rs[i].type = "fill" => i = 1 /\ rs[i].qty > 0
             /\ IsClose(rs[i]) => i = Len(rs) /\ Over'
             /\ venue'.status # "absent" \/ IsClose(rs[i])
  <2>1. /\ rs[i].type = "fill" => i = 1 /\ rs[i].qty > 0
        /\ IsClose(rs[i]) => i = Len(rs)
        /\ rs[i] \in Report
    BY <1>1 DEF GoodReports
  <2>2. IsClose(rs[i]) => Over'
    BY <1>1, <1>3, <2>1 DEF Closes
  <2>3. CASE Bare(m)
    <3>1. Missing(m, row.cum_qty) = 0
      BY <2>3 DEF Missing, Bare
    <3>2. rs[i].type # "fill"
      <4>1. rs[i].type = "fill" => i = 1 /\ rs # <<>> /\ FirstFill(rs) = rs[1].qty /\ rs[1].qty > 0
        BY <1>1, <2>1 DEF FirstFill, GoodReports
      <4> QED BY <1>1, <3>1, <4>1
    <3> QED BY <2>1, <2>2, <3>2 DEF Report, IsClose
  <2> QED BY <1>4, <2>1, <2>2, <2>3
<1>6. ReportsOK'
  BY <1>1, <1>5 DEF ReportsOK, GoodReports, IsClose
<1> QED BY <1>0, <1>1, <1>2, <1>6

LEMMA EngineTakeKeeps ==
  ASSUME PathInv, EngineTake
  PROVE  PathInv'
<1>0. /\ BookInv /\ SnapOK /\ RowOK /\ WireOK /\ ReconOK /\ VenueOK /\ ReportsOK /\ FlightOK
      /\ venue.exec \in Nat /\ row.cum_qty \in Nat /\ SpentOK
      /\ "engine" \in Tasks /\ {"route", "idle", "apply"} \subseteq Places
      /\ "route" \notin Holding /\ "idle" \notin Holding /\ "apply" \notin Holding
  BY ThePath DEF Tasks, Places, Holding
<1>1. /\ task["engine"].pc = "idle" /\ queue # <<>> /\ queue' = Tail(queue)
      /\ UNCHANGED <<row, ext, log, position, venue, wire, stream, recon, spent>>
  BY DEF EngineTake, At, db, outside
<1>2. PICK m : m = Head(queue)
  OBVIOUS
<1>3. reports = <<>> /\ Reported = 0
  BY <1>0, <1>1 DEF ReportsOK, Reported
<1>4. \E pc : /\ pc \in {"route", "idle", "apply"} /\ Goto("engine", pc)
              /\ IF m.kind = "ack" THEN pc = "route" /\ reports' = reports
                 ELSE /\ reports' = ReportsFor(m, row.cum_qty)
                      /\ pc = IF reports' = <<>> THEN "idle" ELSE "apply"
  BY <1>2 DEF EngineTake
<1>5. PICK pc : /\ pc \in {"route", "idle", "apply"} /\ Goto("engine", pc)
                /\ IF m.kind = "ack" THEN pc = "route" /\ reports' = reports
                   ELSE /\ reports' = ReportsFor(m, row.cum_qty)
                        /\ pc = IF reports' = <<>> THEN "idle" ELSE "apply"
  BY <1>4
<1>6. Moved("engine", pc, task["engine"].snap, task["engine"].tries)
  BY <1>0, <1>5, GotoMoves
<1>7. task'["engine"].pc = pc /\ task'["cancel"] = task["cancel"] /\ task'["submit"] = task["submit"]
  BY <1>6 DEF Moved, Tasks
<1>8. BookInv'
  BY <1>0, <1>1, <1>5, <1>6, MoveBook DEF RowOK
<1>9. VenueOK' /\ ReconOK' /\ (Over => Over')
  BY <1>0, <1>1, <1>7 DEF VenueOK, ReconOK, Over
<1>10. MovesOn
  BY <1>0, <1>1, <1>9 DEF MovesOn
<1>11. /\ FlightOK' /\ MessageOK(m) /\ m \in Message
       /\ FillSum(queue') = FillSum(queue) - FillQty(m)
  BY <1>1, <1>2, <1>9, <1>10, TakenFlight
<1>12. WireOK'
  <2>1. pc = "route" => venue.status # "absent"
    BY <1>5, <1>11 DEF MessageOK
  <2> QED BY <1>0, <1>1, <1>5, <1>7, <2>1 DEF WireOK, At
<1>13. SpentOK' /\ spent'.cancels >= spent.cancels
  BY <1>1, <1>7, SpentKept
<1>14. CASE m.kind = "ack"
  <2>1. ReportsOK'
    BY <1>0, <1>3, <1>5, <1>7, <1>14 DEF ReportsOK
  <2>2. FillQty(m) = 0 /\ Reported' = Reported
    BY <1>5, <1>14 DEF FillQty, Reported
  <2>3. /\ Reported \in Nat /\ FillSum(queue) \in Nat /\ FillSum(stream) \in Nat
        /\ Counted = row.cum_qty + Reported + (FillSum(queue) + FillSum(stream)) /\ Counted \in Nat
    BY CountedType DEF Counted
  <2>4. /\ Counted' = row'.cum_qty + Reported' + (FillSum(queue') + FillSum(stream'))
        /\ Counted' \in Int
    BY <1>8, <1>11, <2>1, CountedNext
  <2>5. Counted' = Counted
    BY <1>1, <1>11, <2>2, <2>3, <2>4
  <2>6. Counted' <= Counted + (venue'.exec - venue.exec)
    BY <1>0, <1>1, <2>3, <2>5
  <2> QED BY <1>1, <1>8, <1>9, <1>10, <1>11, <1>12, <1>13, <2>1, <2>4, <2>6, PathFrom
<1>15. CASE m.kind # "ack"
  <2>0. reports' = <<>> <=> task'["engine"].pc \notin {"apply", "apply_write"}
    BY <1>5, <1>7, <1>15
  <2>1. ReportsOK' /\ Reported' = Missing(m, row.cum_qty)
    BY <1>1, <1>5, <1>9, <1>11, <1>15, <2>0, TakenReports
  <2>3. /\ Reported \in Nat /\ FillSum(queue) \in Nat /\ FillSum(stream) \in Nat
        /\ Counted = row.cum_qty + Reported + (FillSum(queue) + FillSum(stream)) /\ Counted \in Nat
        /\ InFlight = FillSum(queue) + FillSum(stream)
    BY CountedType DEF Counted
  <2>4. /\ Counted' = row'.cum_qty + Reported' + (FillSum(queue') + FillSum(stream'))
        /\ Counted' \in Int /\ Reported' \in Nat
    BY <1>8, <1>11, <2>1, CountedNext
  <2>5. OnceWhileOpen
    BY ThePath
  <2>6. m.qty \in Nat /\ m.kind \in {"fill", "cumulative", "terminal", "canceled", "rejected", "ack"}
    BY <1>11, PathAssumption DEF Message
  <2>7. ASSUME venue'.status \notin ClosedAtVenue
        PROVE  Counted' <= venue.exec
    <3>1. venue.status \notin ClosedAtVenue /\ Counted <= venue.exec
      BY <1>1, <2>5, <2>7 DEF OnceWhileOpen, Counted
    <3>2. CASE m.kind = "fill"
      <4>1. Reported' = m.qty /\ FillQty(m) = m.qty
        BY <2>1, <3>2 DEF Missing, FillQty
      <4> QED BY <1>0, <1>1, <1>3, <1>11, <2>3, <2>4, <2>6, <3>1, <4>1
    <3>3. CASE m.kind = "cumulative"
      <4>1. m.qty <= venue.exec /\ venue.style \in {"state", "blind"}
        BY <1>11, <3>3 DEF MessageOK
      <4>2. InFlight = 0
        BY <4>1, NoFillsOfStates
      <4>3. FillQty(m) = 0 /\ Reported' = IF m.qty > row.cum_qty THEN m.qty - row.cum_qty ELSE 0
        BY <2>1, <3>3 DEF Missing, FillQty
      <4>4. FillSum(queue') + FillSum(stream') = 0
        BY <1>1, <1>11, <2>3, <4>2, <4>3
      <4>5. Counted' = row.cum_qty + Reported'
        BY <1>0, <1>1, <2>4, <4>4
      <4>6. row.cum_qty <= venue.exec
        BY <1>0, <1>3, <2>3, <3>1
      <4> QED BY <1>0, <2>6, <4>1, <4>3, <4>5, <4>6
    <3>4. CASE m.kind \in {"canceled", "rejected"}
      <4>1. Reported' = 0 /\ FillQty(m) = 0
        BY <2>1, <3>4 DEF Missing, FillQty
      <4> QED BY <1>0, <1>1, <1>3, <1>11, <2>3, <2>4, <3>1, <4>1
    <3>5. m.kind # "terminal"
      BY <1>11, <3>1 DEF MessageOK
    <3> QED BY <1>15, <2>6, <3>2, <3>3, <3>4, <3>5
  <2>8. OnceWhileOpen'
    BY <1>1, <2>7 DEF OnceWhileOpen, Counted
  <2>9. ClosedOver'
    BY <1>1, <1>10, <1>13, ClosedKept
  <2> QED BY <1>8, <1>9, <1>11, <1>12, <1>13, <2>1, <2>8, <2>9 DEF PathInv
<1> QED BY <1>14, <1>15

(* An event less in the channel, nothing else moved.                       *)
LEMMA BookedUnreadableKeeps ==
  ASSUME PathInv, BookedUnreadable
  PROVE  PathInv'
<1>0. /\ BookInv /\ WireOK /\ ReconOK /\ VenueOK /\ ReportsOK /\ FlightOK
      /\ venue.exec \in Nat /\ row.cum_qty \in Nat
  BY ThePath
<1>1. /\ queue # <<>> /\ queue' = Tail(queue) /\ Fault("db") /\ Head(queue).kind # "fill"
      /\ UNCHANGED <<row, ext, log, position, venue, wire, stream, recon, reports, task>>
  BY DEF BookedUnreadable, db, outside
<1>2. BookInv' /\ VenueOK' /\ WireOK' /\ ReconOK' /\ (Over => Over') /\ (Busy' <=> Busy)
  BY <1>0, <1>1, StillBook DEF db, VenueOK, WireOK, ReconOK, Over, Busy, At
<1>3. MovesOn
  BY <1>0, <1>1, <1>2 DEF MovesOn
<1>4. FlightOK' /\ FillSum(queue') = FillSum(queue) - FillQty(Head(queue))
  BY <1>1, <1>2, <1>3, TakenFlight
<1>5. ReportsOK'
  BY <1>1, <1>2, <1>3, ReportsKept
<1>6. SpentOK' /\ spent'.cancels >= spent.cancels
  BY <1>1, FaultSpends DEF FaultKind
<1>7. /\ Reported \in Nat /\ FillSum(queue) \in Nat /\ FillSum(stream) \in Nat
      /\ Counted = row.cum_qty + Reported + (FillSum(queue) + FillSum(stream)) /\ Counted \in Nat
  BY CountedType DEF Counted
<1>8. /\ Counted' = row'.cum_qty + Reported' + (FillSum(queue') + FillSum(stream'))
      /\ Counted' \in Int
  BY <1>2, <1>4, <1>5, CountedNext
<1>9. FillQty(Head(queue)) = 0 /\ Reported' = Reported
  BY <1>1 DEF FillQty, Reported
<1>10. Counted' <= Counted + (venue'.exec - venue.exec)
  BY <1>0, <1>1, <1>4, <1>7, <1>8, <1>9
<1> QED BY <1>1, <1>2, <1>3, <1>4, <1>5, <1>6, <1>8, <1>10, PathFrom

(* The report in hand is done with; at most the close is left.             *)
LEMMA ReportDone ==
  ASSUME PathInv, NextReport, UNCHANGED <<venue, wire, queue, stream, recon>>, Busy
  PROVE  /\ reports # <<>> /\ Head(reports) = reports[1] /\ reports[1] \in Report
         /\ VenueOK' /\ ReconOK' /\ MovesOn /\ FlightOK' /\ ReportsOK'
         /\ Reported' = 0 /\ (Over' <=> Over)
         /\ task'["engine"].pc \in {"idle", "apply"} /\ task'["engine"].tries = 0
         /\ task'["cancel"] = task["cancel"] /\ task'["submit"] = task["submit"]
         /\ (reports' # <<>> => Closes(reports) /\ Closes(reports'))
         /\ (Closes(reports') => reports' # <<>> /\ Closes(reports))
         /\ (reports' = <<>> => Len(reports) = 1)
<1>0. SnapOK /\ VenueOK /\ ReconOK /\ ReportsOK /\ venue.exec \in Nat
  BY ThePath
<1>1. Moved("engine", AfterReport, NoOrder, 0) /\ reports' = Tail(reports)
  BY <1>0, NextReportMoves
<1>2. /\ task'["engine"].pc = AfterReport /\ task'["engine"].tries = 0
      /\ task'["cancel"] = task["cancel"] /\ task'["submit"] = task["submit"]
  BY <1>1 DEF Moved, Tasks
<1>3. VenueOK' /\ ReconOK' /\ (Over' <=> Over)
  BY <1>0, <1>2 DEF VenueOK, ReconOK, Over
<1>4. MovesOn
  BY <1>0, <1>3 DEF MovesOn
<1>5. FlightOK'
  BY <1>3, <1>4, FlightKept
<1>6. reports # <<>> /\ reports \in Seq(Report) /\ Len(reports) <= 2
  BY <1>0 DEF ReportsOK, Busy
<1>7. Len(reports) \in {1, 2} /\ Head(reports) = reports[1] /\ reports[1] \in Report
  <2>1. Len(reports) \in Nat /\ Len(reports) # 0
    BY <1>6
  <2>2. Head(reports) = reports[1]
    BY <1>6
  <2>3. 1 \in 1..Len(reports) /\ Len(reports) \in {1, 2}
    <3>1. PICK n : n = Len(reports)
      OBVIOUS
    <3>2. n \in Nat /\ n # 0 /\ n <= 2
      BY <1>6, <2>1, <3>1
    <3>3. n \in {1, 2}
      BY <3>2
    <3> QED BY <3>1, <3>2, <3>3
  <2>4. reports[1] \in Report
    BY <1>6, <2>3, ElementOfSeq
  <2> QED BY <2>2, <2>3, <2>4
<1>8. CASE Len(reports) = 1
  <2>1. reports' = <<>> /\ AfterReport = "idle"
    BY <1>1, <1>6, <1>8 DEF AfterReport
  <2>2. ReportsOK'
    BY <1>2, <2>1 DEF ReportsOK
  <2> QED BY <1>2, <1>3, <1>4, <1>5, <1>6, <1>7, <1>8, <2>1, <2>2 DEF Reported, Closes
<1>9. CASE Len(reports) = 2
  <2>1. /\ reports' \in Seq(Report) /\ Len(reports') = 1 /\ reports'[1] = reports[2]
        /\ reports' # <<>> /\ AfterReport = "apply" /\ 2 \in DOMAIN reports /\ DOMAIN reports' = {1}
        /\ reports[2] \in Report
    <3>1. /\ Tail(reports) \in Seq(Report) /\ Len(Tail(reports)) = 1
          /\ \A i \in 1..Len(Tail(reports)) : Tail(reports)[i] = reports[i + 1]
      BY <1>6, <1>9, HeadTailProperties
    <3>2. Tail(reports)[1] = reports[2]
      BY <3>1
    <3>3. 2 \in DOMAIN reports /\ reports[2] \in Report
      BY <1>6, <1>9
    <3>4. AfterReport = "apply"
      BY <1>9 DEF AfterReport
    <3>5. Tail(reports) # <<>> /\ DOMAIN Tail(reports) = {1}
      <4>1. PICK n : n = Tail(reports)
        OBVIOUS
      <4>2. n \in Seq(Report) /\ Len(n) = 1
        BY <3>1, <4>1
      <4>3. n # <<>> /\ DOMAIN n = {1}
        BY <4>2
      <4> QED BY <4>1, <4>3
    <3>6. /\ reports' \in Seq(Report) /\ Len(reports') = 1 /\ reports'[1] = reports[2]
          /\ reports' # <<>> /\ DOMAIN reports' = {1}
      BY <1>1, <3>1, <3>2, <3>5
    <3> QED BY <3>3, <3>4, <3>6
  <2>2. reports[2].type # "fill"
    BY <1>0, <2>1 DEF ReportsOK
  <2>3. IsClose(reports[2])
    BY <2>1, <2>2 DEF Report, IsClose
  <2>4. Over
    BY <1>0, <2>1, <2>3 DEF ReportsOK
  <2>5. \A i \in DOMAIN reports' : i = 1 /\ reports'[i] = reports[2] /\ reports'[i].type # "fill"
    BY <2>1, <2>2
  <2>6. ReportsOK'
    BY <1>2, <1>3, <2>1, <2>3, <2>4, <2>5 DEF ReportsOK, IsClose
  <2>7. Closes(reports) /\ Closes(reports')
    BY <1>6, <1>9, <2>1, <2>3 DEF Closes, IsClose
  <2>8. Reported' = 0
    BY <2>1, <2>2 DEF Reported
  <2> QED BY <1>2, <1>3, <1>4, <1>5, <1>6, <1>7, <2>1, <2>6, <2>7, <2>8
<1> QED BY <1>7, <1>8, <1>9

(* A report that is skipped or dropped: nothing is written.                *)
LEMMA ReportSkipped ==
  ASSUME PathInv, NextReport, UNCHANGED <<db, outside, queue, recon>>, Busy,
         SpentOK', spent'.cancels >= spent.cancels
  PROVE  PathInv'
<1>0. BookInv /\ SnapOK /\ RowOK /\ WireOK /\ venue.exec \in Nat /\ row.cum_qty \in Nat
  BY ThePath
<1>1. UNCHANGED <<row, ext, log, position, venue, wire, stream, queue, recon>>
  BY DEF db, outside
<1>2. /\ VenueOK' /\ ReconOK' /\ MovesOn /\ FlightOK' /\ ReportsOK' /\ Reported' = 0
      /\ task'["engine"].pc \in {"idle", "apply"}
      /\ task'["cancel"] = task["cancel"] /\ task'["submit"] = task["submit"]
  BY <1>1, ReportDone
<1>3. "engine" \in Tasks /\ AfterReport \notin Holding /\ Moved("engine", AfterReport, NoOrder, 0)
  BY <1>0, NextReportMoves
<1>4. BookInv'
  BY <1>0, <1>1, <1>3, MoveBook DEF RowOK
<1>5. WireOK'
  BY <1>0, <1>1, <1>2 DEF WireOK, At
<1>6. /\ Reported \in Nat /\ FillSum(queue) \in Nat /\ FillSum(stream) \in Nat
      /\ Counted = row.cum_qty + Reported + (FillSum(queue) + FillSum(stream)) /\ Counted \in Nat
  BY CountedType DEF Counted
<1>7. /\ Counted' = row'.cum_qty + Reported' + (FillSum(queue') + FillSum(stream'))
      /\ Counted' \in Int
  BY <1>2, <1>4, CountedNext
<1>8. Counted' <= Counted + (venue'.exec - venue.exec)
  BY <1>0, <1>1, <1>2, <1>6, <1>7
<1> QED BY <1>1, <1>2, <1>4, <1>5, <1>7, <1>8, PathFrom

LEMMA ApplyReadKeeps ==
  ASSUME PathInv, ApplyRead
  PROVE  PathInv'
<1>0. /\ BookInv /\ SnapOK /\ RowOK /\ WireOK /\ ReconOK /\ row \in OrderState
      /\ "engine" \in Tasks /\ "apply_write" \in Places
  BY ThePath DEF Tasks, Places
<1>1. /\ task["engine"].pc = "apply" /\ UNCHANGED <<db, outside, queue, recon, spent>>
      /\ UNCHANGED <<row, ext, log, position, venue, wire, stream, queue, recon, spent>>
  BY DEF ApplyRead, At, db, outside
<1>2. CASE NextReport
  <2>1. task'["cancel"].pc = task["cancel"].pc
    BY <1>0, <1>2, NextReportMoves DEF Moved, Tasks
  <2>2. SpentOK' /\ spent'.cancels >= spent.cancels
    BY <1>1, <2>1, SpentKept
  <2> QED BY <1>1, <1>2, <2>2, ReportSkipped DEF Busy
<1>3. CASE Read("engine", "apply_write") /\ UNCHANGED reports
  <2>1. Moved("engine", "apply_write", row, task["engine"].tries)
    BY <1>0, <1>3, ReadMoves
  <2>2. task'["engine"].pc = "apply_write" /\ task'["cancel"] = task["cancel"] /\ task'["submit"] = task["submit"]
    BY <2>1 DEF Moved, Tasks
  <2>3. BookInv'
    BY <1>0, <1>1, <2>1, MoveBook DEF RowOK
  <2>4. WireOK'
    BY <1>0, <1>1, <2>2 DEF WireOK, At
  <2>5. SpentOK' /\ spent'.cancels >= spent.cancels
    BY <1>1, <2>2, SpentKept
  <2> QED BY <1>0, <1>1, <1>3, <2>2, <2>3, <2>4, <2>5, QuietTask DEF Over, Busy, ReconOK
<1> QED BY <1>2, <1>3 DEF ApplyRead

LEMMA ApplyFailsKeeps ==
  ASSUME PathInv, ApplyFails
  PROVE  PathInv'
<1>0. SnapOK
  BY ThePath
<1>1. /\ task["engine"].pc \in {"apply", "apply_write"} /\ UNCHANGED <<db, outside, queue, recon>>
      /\ Fault("db") /\ NextReport
  BY DEF ApplyFails
<1>2. task'["cancel"].pc = task["cancel"].pc
  BY <1>0, <1>1, NextReportMoves DEF Moved, Tasks
<1>3. SpentOK' /\ spent'.cancels >= spent.cancels
  BY <1>1, <1>2, FaultSpends DEF FaultKind
<1> QED BY <1>1, <1>3, ReportSkipped DEF Busy

LEMMA ApplyConflictKeeps ==
  ASSUME PathInv, ApplyConflict
  PROVE  PathInv'
<1>0. /\ BookInv /\ SnapOK /\ RowOK /\ WireOK /\ ReconOK
      /\ "engine" \in Tasks /\ "apply" \in Places /\ "apply" \notin Holding
  BY ThePath DEF Tasks, Places, Holding
<1>1. /\ task["engine"].pc = "apply_write" /\ UNCHANGED <<db, outside, queue, recon, spent>>
      /\ UNCHANGED <<row, ext, log, position, venue, wire, stream, queue, recon, spent>>
  BY DEF ApplyConflict, At, db, outside
<1>2. CASE NextReport
  <2>1. task'["cancel"].pc = task["cancel"].pc
    BY <1>0, <1>2, NextReportMoves DEF Moved, Tasks
  <2>2. SpentOK' /\ spent'.cancels >= spent.cancels
    BY <1>1, <2>1, SpentKept
  <2> QED BY <1>1, <1>2, <2>2, ReportSkipped DEF Busy
<1>3. CASE /\ task' = [task EXCEPT !["engine"].pc = "apply", !["engine"].tries = @ + 1]
           /\ UNCHANGED reports
  <2>1. Moved("engine", "apply", task["engine"].snap, task["engine"].tries + 1)
    BY <1>0, <1>3, RetryMoves
  <2>2. task'["engine"].pc = "apply" /\ task'["cancel"] = task["cancel"] /\ task'["submit"] = task["submit"]
    BY <2>1 DEF Moved, Tasks
  <2>3. BookInv'
    BY <1>0, <1>1, <2>1, MoveBook DEF RowOK
  <2>4. WireOK'
    BY <1>0, <1>1, <2>2 DEF WireOK, At
  <2>5. SpentOK' /\ spent'.cancels >= spent.cancels
    BY <1>1, <2>2, SpentKept
  <2> QED BY <1>0, <1>1, <1>3, <2>2, <2>3, <2>4, <2>5, QuietTask DEF Over, Busy, ReconOK
<1> QED BY <1>2, <1>3 DEF ApplyConflict

(* A report is booked: what it said was missing is in the row now, and an  *)
(* order that it closes is closed at the venue.                            *)
LEMMA ApplyWriteKeeps ==
  ASSUME PathInv, ApplyWrite
  PROVE  PathInv'
<1>0. /\ BookInv /\ SnapOK /\ RowOK /\ WireOK /\ VenueOK /\ ReportsOK /\ OnceWhileOpen
      /\ venue.exec \in Nat /\ row.cum_qty \in Nat
  BY ThePath
<1>1. /\ task["engine"].pc = "apply_write" /\ NextReport
      /\ UNCHANGED <<venue, wire, stream, queue, recon, spent>>
  BY DEF ApplyWrite, At, outside
<1>2. /\ BookInv' /\ row.status \in LiveStatus
      /\ LET r == Head(reports) IN
         IF r.type = "fill"
           THEN /\ row'.cum_qty = row.cum_qty + r.qty /\ r.qty > 0 /\ row'.cum_qty <= Qty
                /\ row'.status = IF row'.cum_qty < Qty THEN "partially_filled" ELSE "filled"
           ELSE row'.cum_qty = row.cum_qty /\ row'.status \in {"canceled", "rejected"}
  BY <1>0, ApplyKeepsBook
<1>3. /\ reports # <<>> /\ Head(reports) = reports[1] /\ reports[1] \in Report
      /\ VenueOK' /\ ReconOK' /\ MovesOn /\ FlightOK' /\ ReportsOK' /\ Reported' = 0
      /\ (Over' <=> Over) /\ task'["engine"].pc \in {"idle", "apply"}
      /\ task'["cancel"] = task["cancel"] /\ task'["submit"] = task["submit"]
  BY <1>1, ReportDone DEF Busy
<1>4. PICK r : r = reports[1]
  OBVIOUS
<1>5. /\ r \in Report /\ r.qty \in Nat /\ r.type \in {"fill", "canceled", "reject"} /\ 1 \in DOMAIN reports
      /\ Reported = IF r.type = "fill" THEN r.qty ELSE 0
  BY <1>0, <1>3, <1>4, PathAssumption, SMTT(30) DEF Report, Reported, ReportsOK
<1>6. IF r.type = "fill"
        THEN /\ row'.cum_qty = row.cum_qty + r.qty /\ row'.cum_qty <= Qty
             /\ row'.status = IF row'.cum_qty < Qty THEN "partially_filled" ELSE "filled"
        ELSE row'.cum_qty = row.cum_qty /\ row'.status \in {"canceled", "rejected"}
  BY <1>2, <1>3, <1>4
<1>7. /\ r.type # "fill" => Over
      /\ r.type = "fill" => venue.status # "absent"
  BY <1>0, <1>4, <1>5 DEF ReportsOK, IsClose
<1>8. WireOK'
  <2>1. row'.status \in {"routed", "partially_filled"} => venue.status # "absent"
    BY <1>5, <1>6, <1>7
  <2>2. row'.status # "none" /\ row.status # "none"
    BY <1>2, <1>6 DEF LiveStatus
  <2> QED BY <1>0, <1>1, <1>3, <2>1, <2>2 DEF WireOK, At
<1>9. SpentOK' /\ spent'.cancels >= spent.cancels
  BY <1>1, <1>3, SpentKept
<1>10. /\ Reported \in Nat /\ FillSum(queue) \in Nat /\ FillSum(stream) \in Nat
       /\ Counted = row.cum_qty + Reported + (FillSum(queue) + FillSum(stream)) /\ Counted \in Nat
  BY CountedType DEF Counted
<1>11. /\ Counted' = row'.cum_qty + Reported' + (FillSum(queue') + FillSum(stream'))
       /\ Counted' \in Int
  BY <1>2, <1>3, CountedNext
<1>12. row'.cum_qty = row.cum_qty + Reported
  BY <1>0, <1>5, <1>6
<1>13. Counted' = Counted
  BY <1>0, <1>1, <1>3, <1>10, <1>11, <1>12
<1>14. Counted' <= Counted + (venue'.exec - venue.exec)
  BY <1>0, <1>1, <1>10, <1>13
<1>15. ASSUME row'.status \in TerminalStatus PROVE Over'
  <2>1. CASE r.type = "fill"
    <3>1. row'.cum_qty = Qty
      <4>1. ~ (row'.cum_qty < Qty) /\ row'.cum_qty <= Qty /\ row'.cum_qty \in Nat
        BY <1>0, <1>5, <1>6, <1>15, <2>1 DEF TerminalStatus
      <4> QED BY <4>1, PathAssumption
    <3>2. venue.status \in ClosedAtVenue
      <4>1. SUFFICES ASSUME venue.status \notin ClosedAtVenue PROVE FALSE
        OBVIOUS
      <4>2. Counted <= venue.exec
        BY <1>0, <4>1 DEF OnceWhileOpen, Counted
      <4>3. venue.exec \in 0..Qty /\ Qty \in Nat
        BY <1>0, PathAssumption DEF VenueOK
      <4>4. venue.exec = Qty
        BY <1>0, <1>10, <1>12, <3>1, <4>2, <4>3
      <4> QED BY <1>0, <4>1, <4>4 DEF VenueOK, ClosedAtVenue
    <3>3. Over
      BY <1>0, <3>2 DEF WireOK, Over, ClosedAtVenue
    <3> QED BY <1>3, <3>3
  <2>2. CASE r.type # "fill"
    BY <1>3, <1>7, <2>2
  <2> QED BY <2>1, <2>2
<1> QED BY <1>2, <1>3, <1>8, <1>9, <1>11, <1>14, <1>15, PathFrom

-----------------------------------------------------------------------------
(* Steps of recon                                                          *)

(* A step of recon that sends nothing.                                     *)
LEMMA ReconMoves ==
  ASSUME PathInv, UNCHANGED <<db, outside, queue, reports, task>>, ReconOK',
         SpentOK', spent'.cancels >= spent.cancels
  PROVE  PathInv'
<1>0. BookInv /\ WireOK /\ VenueOK
  BY ThePath
<1>1. UNCHANGED <<row, ext, log, position, venue, wire, stream, queue, reports, task>>
  BY DEF db, outside
<1>2. BookInv' /\ WireOK'
  BY <1>0, <1>1, StillBook DEF db, WireOK, At
<1>3. (Over => Over') /\ (Busy' <=> Busy) /\ row'.cum_qty = row.cum_qty
  BY <1>1 DEF Over, Busy
<1>4. VenueOK' /\ FlightOK' /\ ReportsOK' /\ OnceWhileOpen' /\ MovesOn
  BY <1>1, <1>2, <1>3, QuietStep
<1>5. ClosedOver'
  BY <1>1, <1>4, ClosedKept
<1> QED BY <1>2, <1>4, <1>5 DEF PathInv

LEMMA ReconQuietKeeps ==
  ASSUME PathInv, ReconLoadWorking \/ ReconLoadStuck \/ ReconSnapshot
  PROVE  PathInv'
<1>0. ReconOK /\ WireOK /\ RowOK /\ VenueOK
  BY ThePath
<1>1. UNCHANGED <<db, outside, queue, reports, task, spent>> /\ UNCHANGED <<row, venue, wire, task, spent>>
  BY DEF ReconLoadWorking, ReconLoadStuck, ReconSnapshot, db, outside
<1>2. SpentOK' /\ spent'.cancels >= spent.cancels
  BY <1>1, SpentKept
<1>3. CASE ReconLoadWorking
  <2> DEFINE w == row.status \in {"routed", "partially_filled"}
                    /\ ((\E i \in DOMAIN log : log[i].type = "order_routed") \/ ext)
  <2>1. recon.pc = "idle" /\ recon' = [recon EXCEPT !.pc = "load_stuck", !.working = w]
    BY <1>3 DEF ReconLoadWorking
  <2>2. w \in BOOLEAN /\ (w => venue.status # "absent")
    BY <1>0 DEF WireOK
  <2> HIDE DEF w
  <2>3. /\ recon' \in [pc : {"idle", "load_stuck", "snapshot", "act"}, working : BOOLEAN,
                       stuck : BOOLEAN, open : BOOLEAN]
        /\ recon'.pc = "load_stuck" /\ recon'.working = w
        /\ recon'.stuck = recon.stuck /\ recon'.open = recon.open
    BY <1>0, <2>1, <2>2 DEF ReconOK
  <2>4. ReconOK'
    BY <1>0, <1>1, <2>2, <2>3 DEF ReconOK
  <2> QED BY <1>1, <1>2, <2>4, ReconMoves
<1>4. CASE ReconLoadStuck
  <2> DEFINE w == row.status = "submitted" /\ Aged
  <2>1. recon.pc = "load_stuck" /\ recon' = [recon EXCEPT !.pc = "snapshot", !.stuck = w]
    BY <1>4 DEF ReconLoadStuck
  <2>2. w \in BOOLEAN /\ (w => wire = "none" /\ task["submit"].pc \notin {"idle", "call", "sent"})
    BY <1>0 DEF WireOK, Aged, At
  <2> HIDE DEF w
  <2>3. /\ recon' \in [pc : {"idle", "load_stuck", "snapshot", "act"}, working : BOOLEAN,
                       stuck : BOOLEAN, open : BOOLEAN]
        /\ recon'.pc = "snapshot" /\ recon'.stuck = w
        /\ recon'.working = recon.working /\ recon'.open = recon.open
    BY <1>0, <2>1, <2>2 DEF ReconOK
  <2>4. ReconOK'
    BY <1>0, <1>1, <2>2, <2>3 DEF ReconOK
  <2> QED BY <1>1, <1>2, <2>4, ReconMoves
<1>5. CASE ReconSnapshot
  <2> DEFINE w == venue.status = "open"
  <2>1. recon.pc = "snapshot" /\ recon' = [recon EXCEPT !.pc = "act", !.open = w]
    BY <1>5 DEF ReconSnapshot
  <2>2. w \in BOOLEAN /\ (w <=> venue.status = "open")
    OBVIOUS
  <2> HIDE DEF w
  <2>3. /\ recon' \in [pc : {"idle", "load_stuck", "snapshot", "act"}, working : BOOLEAN,
                       stuck : BOOLEAN, open : BOOLEAN]
        /\ recon'.pc = "act" /\ recon'.open = w
        /\ recon'.working = recon.working /\ recon'.stuck = recon.stuck
    BY <1>0, <2>1, <2>2 DEF ReconOK
  <2>4. ReconOK'
    BY <1>0, <1>1, <2>2, <2>3 DEF ReconOK
  <2> QED BY <1>1, <1>2, <2>4, ReconMoves
<1> QED BY <1>3, <1>4, <1>5

LEMMA NoReconOK ==
  ASSUME recon' = NoRecon
  PROVE  ReconOK'
BY DEF ReconOK, NoRecon

LEMMA ReconFaultKeeps ==
  ASSUME PathInv, ReconLoadFails \/ ReconFails
  PROVE  PathInv'
<1>0. ReconOK
  BY ThePath
<1>1. /\ UNCHANGED <<db, outside, queue, reports, task>> /\ UNCHANGED <<venue, wire, task>>
      /\ Fault("db") \/ Fault("api")
  BY DEF ReconLoadFails, ReconFails, db, outside
<1>2. SpentOK' /\ spent'.cancels >= spent.cancels
  BY <1>1, FaultSpends DEF FaultKind
<1>3. CASE ReconLoadFails
  <2>1. /\ recon.pc \in {"idle", "load_stuck"}
        /\ recon' = [recon EXCEPT !.pc = IF recon.pc = "idle" THEN "load_stuck" ELSE "snapshot"]
    BY <1>3 DEF ReconLoadFails
  <2>2. /\ recon' \in [pc : {"idle", "load_stuck", "snapshot", "act"}, working : BOOLEAN,
                       stuck : BOOLEAN, open : BOOLEAN]
        /\ recon'.pc # "act" /\ recon'.open = recon.open
        /\ recon'.working = recon.working /\ recon'.stuck = recon.stuck
    BY <1>0, <2>1 DEF ReconOK
  <2>3. ReconOK'
    BY <1>0, <1>1, <2>2 DEF ReconOK
  <2> QED BY <1>1, <1>2, <2>3, ReconMoves
<1>4. CASE ReconFails
  <2>1. ReconOK'
    BY <1>4, NoReconOK DEF ReconFails
  <2> QED BY <1>1, <1>2, <2>1, ReconMoves
<1> QED BY <1>3, <1>4

(* What recon sends is true of the venue, then and later.                  *)
LEMMA PlanTrue ==
  ASSUME PathInv, recon.pc = "act", NEW m \in ReconPlan
  PROVE  /\ MessageOK(m) /\ m.kind \in {"ack", "terminal", "rejected"}
         /\ m.kind = "rejected" => venue.status = "absent"
<1>0. ReconOK /\ WireOK /\ VenueOK /\ venue.exec \in Nat
  BY ThePath
<1>1. \/ recon.stuck /\ recon.open /\ m = Msg("ack", 0, "none")
      \/ ~ recon.open /\ (recon.stuck \/ recon.working) /\ m \in StatusAnswer
  BY <1>0 DEF ReconPlan, ReconOK
<1>2. CASE recon.stuck /\ recon.open /\ m = Msg("ack", 0, "none")
  <2>1. m \in Message /\ m.kind = "ack"
    BY <1>2, PathAssumption DEF Message, Msg
  <2> QED BY <1>0, <1>2, <2>1 DEF MessageOK, Bare, ReconOK
<1>3. CASE ~ recon.open /\ (recon.stuck \/ recon.working) /\ m \in StatusAnswer
  <2>1. venue.status # "open"
    BY <1>0, <1>3 DEF ReconOK
  <2>2. \/ venue.status \in ClosedAtVenue /\ m = Msg("terminal", venue.exec, venue.status)
        \/ venue.status = "absent" /\ recon.stuck /\ m = Msg("rejected", 0, "none")
    BY <1>3, <2>1 DEF StatusAnswer
  <2>3. CASE venue.status \in ClosedAtVenue /\ m = Msg("terminal", venue.exec, venue.status)
    <3>1. m \in Message /\ m.kind = "terminal" /\ m.qty = venue.exec /\ m.outcome = venue.status
      BY <1>0, <2>3 DEF Message, Msg, VenueOK
    <3> QED BY <2>3, <3>1 DEF MessageOK, Bare, ClosedAtVenue
  <2>4. CASE venue.status = "absent" /\ recon.stuck /\ m = Msg("rejected", 0, "none")
    <3>1. m \in Message /\ m.kind = "rejected"
      BY <2>4, PathAssumption DEF Message, Msg
    <3>2. Over
      BY <1>0, <2>4 DEF ReconOK, Over
    <3> QED BY <2>4, <3>1, <3>2 DEF MessageOK, Bare
  <2> QED BY <2>2, <2>3, <2>4
<1> QED BY <1>1, <1>2, <1>3

LEMMA ReconActKeeps ==
  ASSUME PathInv, ReconAct
  PROVE  PathInv'
<1>0. BookInv /\ WireOK /\ VenueOK /\ venue.exec \in Nat
  BY ThePath
<1>1. /\ recon.pc = "act" /\ recon' = NoRecon /\ UNCHANGED <<db, outside, reports, task, spent>>
      /\ UNCHANGED <<row, ext, log, position, venue, wire, stream, reports, task, spent>>
  BY DEF ReconAct, db, outside
<1>2. SpentOK' /\ spent'.cancels >= spent.cancels
  BY <1>1, SpentKept
<1>3. ReconOK'
  BY <1>1, NoReconOK
<1>4. CASE UNCHANGED queue
  BY <1>1, <1>2, <1>3, <1>4, ReconMoves
<1>5. CASE \E m \in ReconPlan : Exec(m)
  <2>1. PICK m \in ReconPlan : queue' = Append(queue, m)
    BY <1>5 DEF Exec
  <2>2. MessageOK(m) /\ m.kind # "fill"
    BY <1>1, PlanTrue
  <2>3. BookInv' /\ WireOK' /\ VenueOK' /\ (Over => Over') /\ (Busy' <=> Busy)
    BY <1>0, <1>1, StillBook DEF db, WireOK, At, VenueOK, Over, Busy
  <2>4. MovesOn
    BY <1>0, <1>1, <2>3 DEF MovesOn
  <2>5. MessageOK(m)'
    BY <1>0, <2>2, <2>3, <2>4, MessageKept
  <2>6. FlightOK' /\ FillSum(queue') = FillSum(queue) + FillQty(m)
    BY <1>1, <2>1, <2>3, <2>4, <2>5, SentFlight
  <2>7. ReportsOK'
    BY <1>1, <2>3, <2>4, ReportsKept
  <2>8. FillQty(m) = 0 /\ Reported' = Reported
    BY <1>1, <2>2 DEF FillQty, Reported
  <2>9. /\ Reported \in Nat /\ FillSum(queue) \in Nat /\ FillSum(stream) \in Nat
        /\ Counted = row.cum_qty + Reported + (FillSum(queue) + FillSum(stream)) /\ Counted \in Nat
    BY CountedType DEF Counted
  <2>10. /\ Counted' = row'.cum_qty + Reported' + (FillSum(queue') + FillSum(stream'))
         /\ Counted' \in Int
    BY <2>3, <2>6, <2>7, CountedNext
  <2>11. Counted' = Counted
    BY <1>1, <2>6, <2>8, <2>9, <2>10
  <2>12. Counted' <= Counted + (venue'.exec - venue.exec)
    BY <1>0, <1>1, <2>9, <2>11
  <2> QED BY <1>1, <1>2, <1>3, <2>3, <2>4, <2>6, <2>7, <2>10, <2>12, PathFrom
<1> QED BY <1>4, <1>5 DEF ReconAct

-----------------------------------------------------------------------------
(* Crashes and steps of the venue                                          *)

LEMMA EmptyFlight == FillSum(<<>>) = 0
<1>1. <<>> \in Seq(Message) /\ \A i \in DOMAIN <<>> : <<>>[i].kind # "fill"
  OBVIOUS
<1> QED BY <1>1, FillSumNone

LEMMA CrashKeeps ==
  ASSUME PathInv, Crash
  PROVE  PathInv'
<1>0. /\ BookInv /\ SnapOK /\ RowOK /\ WireOK /\ VenueOK /\ SpentOK
      /\ venue.exec \in Nat /\ row.cum_qty \in Nat
      /\ {"idle", "done"} \subseteq Places \ Holding
  BY ThePath DEF Places, Holding
<1>1. /\ Fault("crash") /\ queue' = <<>> /\ reports' = <<>> /\ stream' = <<>> /\ recon' = NoRecon
      /\ wire' = IF wire = "request" THEN wire ELSE "none"
      /\ UNCHANGED <<row, ext, log, position, venue>>
  BY DEF Crash, db
<1>2. /\ task' \in [Tasks -> TaskState]
      /\ task'["submit"].pc = IF row.status # "none" THEN "done" ELSE "idle"
      /\ task'["cancel"].pc = "idle" /\ task'["engine"].pc = "idle"
  <2> DEFINE d == [Idle EXCEPT !.pc = "done"]
  <2>1. d \in TaskState /\ d.pc = "done"
    BY <1>0, IdleState
  <2>2. Idle \in TaskState /\ Idle.pc = "idle"
    <3>1. NoOrder \in OrderState
      BY DEF NoOrder, OrderState, OrderType
    <3> QED BY <3>1 DEF Idle, TaskState, Places
  <2>3. DOMAIN task = Tasks
    BY <1>0 DEF SnapOK
  <2>4. task' = [t \in Tasks |-> IF t = "submit" /\ row.status # "none" THEN d ELSE Idle]
    BY <2>3 DEF Crash
  <2> HIDE DEF d
  <2> QED BY <2>1, <2>2, <2>4 DEF Tasks
<1>3. SnapOK'
  BY <1>2 DEF SnapOK, Tasks, Holding
<1>4. BookInv'
  BY <1>0, <1>1, <1>3, QuietBook DEF RowOK
<1>5. VenueOK' /\ ReconOK'
  BY <1>0, <1>1, NoReconOK DEF VenueOK
<1>6. WireOK'
  BY <1>0, <1>1, <1>2 DEF WireOK, At
<1>7. MovesOn
  BY <1>0, <1>1, <1>2 DEF MovesOn, Over, WireOK, At
<1>8. FlightOK' /\ ReportsOK'
  BY <1>1, <1>2 DEF FlightOK, ReportsOK
<1>9. SpentOK' /\ spent'.cancels >= spent.cancels
  <2>1. spent' = [spent EXCEPT !.faults = Append(@, "crash")]
    BY <1>1 DEF Fault
  <2>2. Append(spent.faults, "crash") \in Seq(FaultKind)
    BY <1>0 DEF SpentOK, FaultKind
  <2>3. spent' \in [faults : Seq(FaultKind), losses : Nat, cancels : Nat] /\ spent'.cancels = spent.cancels
    BY <1>0, <2>1, <2>2 DEF SpentOK
  <2>4. spent.cancels \in Nat
    BY <1>0 DEF SpentOK
  <2> QED BY <1>2, <2>3, <2>4 DEF SpentOK, At
<1>10. /\ Reported \in Nat /\ FillSum(queue) \in Nat /\ FillSum(stream) \in Nat
       /\ Counted = row.cum_qty + Reported + (FillSum(queue) + FillSum(stream)) /\ Counted \in Nat
  BY CountedType DEF Counted
<1>11. /\ Counted' = row'.cum_qty + Reported' + (FillSum(queue') + FillSum(stream'))
       /\ Counted' \in Int
  BY <1>4, <1>8, CountedNext
<1>12. FillSum(queue') = 0 /\ FillSum(stream') = 0 /\ Reported' = 0
  BY <1>1, EmptyFlight DEF Reported
<1>13. Counted' <= Counted + (venue'.exec - venue.exec)
  BY <1>0, <1>1, <1>10, <1>11, <1>12
<1> QED BY <1>1, <1>4, <1>5, <1>6, <1>7, <1>8, <1>9, <1>11, <1>13, PathFrom

LEMMA VenueAnswersKeeps ==
  ASSUME PathInv, VenueAnswers
  PROVE  PathInv'
<1>0. /\ BookInv /\ WireOK /\ VenueOK /\ ReconOK /\ venue.exec \in Nat
  BY ThePath
<1>1. /\ wire = "request" /\ UNCHANGED <<db, task>>
      /\ UNCHANGED <<row, ext, log, position, stream, queue, reports, task, recon, spent>>
  BY DEF VenueAnswers, db
<1>2. PICK answer \in {"accepted", "rejected"} :
        /\ wire' = IF At("submit", "sent") THEN answer ELSE "none"
        /\ venue' = IF answer = "accepted" THEN [venue EXCEPT !.status = "open"] ELSE venue
  BY DEF VenueAnswers
<1>3. venue.status = "absent" /\ venue.exec = 0
  BY <1>0, <1>1 DEF WireOK, VenueOK
<1>4. /\ VenueOK' /\ venue'.style = venue.style /\ venue'.exec = venue.exec
      /\ venue'.status = IF answer = "accepted" THEN "open" ELSE "absent"
  <2>1. CASE answer = "accepted"
    <3>1. venue' = [venue EXCEPT !.status = "open"]
      BY <1>2, <2>1
    <3>2. /\ venue' \in [style : Style, status : ClosedAtVenue \cup {"absent", "open"}, exec : 0..Qty,
                         cancelAsked : BOOLEAN]
          /\ venue'.style = venue.style /\ venue'.exec = venue.exec /\ venue'.status = "open"
      BY <1>0, <3>1 DEF VenueOK
    <3>3. 0 # Qty
      BY PathAssumption
    <3> QED BY <1>0, <1>3, <2>1, <3>2, <3>3 DEF VenueOK
  <2>2. CASE answer # "accepted"
    BY <1>0, <1>2, <1>3, <2>2 DEF VenueOK
  <2> QED BY <2>1, <2>2
<1>5. BookInv'
  BY <1>0, <1>1, StillBook
<1>6. WireOK'
  BY <1>0, <1>1, <1>2, <1>3, <1>4 DEF WireOK, At
<1>7. ReconOK'
  BY <1>0, <1>1, <1>3 DEF ReconOK
<1>8. MovesOn
  BY <1>0, <1>1, <1>3, <1>4 DEF MovesOn, Over, ClosedAtVenue
<1>9. FlightOK'
  BY <1>1, <1>4, <1>8, FlightKept
<1>10. ReportsOK'
  BY <1>1, <1>8, ReportsKept DEF Busy
<1>11. SpentOK' /\ spent'.cancels >= spent.cancels
  BY <1>1, SpentKept
<1>12. Counted' = Counted /\ Counted \in Nat
  BY <1>1, CountedType DEF Counted, Reported, InFlight
<1>13. Counted' <= Counted + (venue'.exec - venue.exec)
  BY <1>0, <1>4, <1>12
<1> QED BY <1>1, <1>4, <1>5, <1>6, <1>7, <1>8, <1>9, <1>10, <1>11, <1>12, <1>13, PathFrom

(* A message more on the venue's stream.                                   *)
LEMMA ReportedFlight ==
  ASSUME PathInv, VenueOK', MovesOn, UNCHANGED queue, NEW m, MessageOK(m)', stream' = Append(stream, m)
  PROVE  FlightOK' /\ m \in Message /\ FillSum(stream') = FillSum(stream) + FillQty(m)
<1>1. VenueOK /\ FlightOK
  BY ThePath
<1>2. \A x : MessageOK(x) => MessageOK(x)'
  BY <1>1, MessageKept
<1>3. m \in Message
  BY DEF MessageOK
<1>4. stream' \in Seq(Message) /\ FillSum(stream') = FillSum(stream) + FillQty(m)
  BY <1>1, <1>3, FillSumAppend DEF FlightOK
<1>5. ASSUME NEW i \in DOMAIN stream' PROVE MessageOK(stream[i])'
  <2>1. stream'[i] = m \/ (i \in DOMAIN stream /\ stream'[i] = stream[i])
    BY <1>1 DEF FlightOK
  <2>2. PICK x : x = stream'[i]
    OBVIOUS
  <2>3. MessageOK(x)'
    BY <1>1, <1>2, <2>1, <2>2 DEF FlightOK
  <2> QED BY <2>2, <2>3 DEF MessageOK, Bare
<1>6. \A i \in DOMAIN queue' : MessageOK(queue[i])'
  BY <1>1, <1>2 DEF FlightOK
<1> QED BY <1>1, <1>3, <1>4, <1>5, <1>6 DEF FlightOK

LEMMA OneMore ==
  ASSUME NEW c \in Nat, NEW r \in Nat, NEW q \in Nat, NEW s \in Nat, NEW f \in Nat
  PROVE  c + r + (q + (s + f)) = c + r + (q + s) + f
OBVIOUS

(* The venue trades or closes an order that it works and reports it.       *)
LEMMA VenueReports ==
  ASSUME PathInv, venue.status = "open", VenueOK', venue'.style = venue.style,
         venue'.exec >= venue.exec, venue'.status \in ClosedAtVenue \cup {"open"},
         UNCHANGED <<db, wire, queue, reports, task, recon, spent>>,
         NEW m, MessageOK(m)', stream' = Append(stream, m),
         venue'.status \notin ClosedAtVenue => FillQty(m) <= venue'.exec - venue.exec
  PROVE  PathInv'
<1>0. /\ BookInv /\ WireOK /\ VenueOK /\ ReconOK /\ venue.exec \in Nat /\ row.cum_qty \in Nat
  BY ThePath
<1>1. UNCHANGED <<row, ext, log, position, wire, queue, reports, task, recon, spent>>
  BY DEF db
<1>2. MovesOn
  BY DEF MovesOn, Over, ClosedAtVenue
<1>3. FlightOK' /\ m \in Message /\ FillSum(stream') = FillSum(stream) + FillQty(m)
  BY <1>1, <1>2, ReportedFlight
<1>4. BookInv'
  BY <1>0, <1>1, StillBook
<1>5. WireOK'
  BY <1>0, <1>1 DEF WireOK, At, ClosedAtVenue
<1>6. ReconOK'
  BY <1>0, <1>1 DEF ReconOK, ClosedAtVenue
<1>7. ReportsOK'
  BY <1>1, <1>2, ReportsKept DEF Busy
<1>8. SpentOK' /\ spent'.cancels >= spent.cancels
  BY <1>1, SpentKept
<1>9. /\ Reported \in Nat /\ FillSum(queue) \in Nat /\ FillSum(stream) \in Nat
      /\ Counted = row.cum_qty + Reported + (FillSum(queue) + FillSum(stream)) /\ Counted \in Nat
  BY CountedType DEF Counted
<1>10. /\ Counted' = row'.cum_qty + Reported' + (FillSum(queue') + FillSum(stream'))
       /\ Counted' \in Int
  BY <1>3, <1>4, <1>7, CountedNext
<1>11. Reported' = Reported /\ FillQty(m) \in Nat /\ venue'.exec \in Nat
  BY <1>1, <1>3, PathAssumption DEF Reported, FillQty, Message, VenueOK
<1>12. venue'.status \notin ClosedAtVenue => Counted' <= Counted + (venue'.exec - venue.exec)
  <2>1. Counted' = row.cum_qty + Reported + (FillSum(queue) + (FillSum(stream) + FillQty(m)))
    BY <1>1, <1>3, <1>10, <1>11
  <2>2. Counted' = Counted + FillQty(m)
    BY <1>0, <1>9, <1>11, <2>1, OneMore
  <2>3. PICK c, f, a, b : c = Counted /\ f = FillQty(m) /\ a = venue.exec /\ b = venue'.exec
    OBVIOUS
  <2>4. c \in Nat /\ f \in Nat /\ a \in Nat /\ b \in Nat /\ Counted' = c + f
    BY <1>0, <1>9, <1>11, <2>2, <2>3
  <2>5. f <= b - a => c + f <= c + (b - a)
    BY <2>4
  <2> QED BY <2>3, <2>4, <2>5
<1> QED BY <1>1, <1>2, <1>3, <1>4, <1>5, <1>6, <1>7, <1>8, <1>10, <1>12, PathFrom

LEMMA VenueFillsIs ==
  ASSUME PathInv, VenueFills
  PROVE  \E q \in Nat \ {0} : \E m :
           /\ venue.status = "open" /\ VenueOK' /\ venue'.style = venue.style
           /\ venue'.exec = venue.exec + q
           /\ venue'.status = IF venue'.exec = Qty THEN "filled" ELSE "open"
           /\ stream' = Append(stream, m) /\ MessageOK(m)' /\ m.kind \in {"fill", "terminal", "cumulative"}
           /\ m.kind = "fill" => m.qty = q
           /\ m.kind = "fill" <=> venue.style \in {"report", "mixed"}
<1>0. VenueOK /\ venue.status = "open" /\ Qty \in Nat \ {0} /\ venue.exec \in 0..Qty
  BY ThePath, PathAssumption DEF VenueFills, VenueOK
<1>1. PICK q \in 1..(Qty - venue.exec) :
        /\ venue' = [venue EXCEPT !.exec = venue.exec + q,
                                  !.status = IF venue.exec + q = Qty THEN "filled" ELSE @]
        /\ stream' = Append(stream, TradeMessage(q, venue.exec + q))
  BY DEF VenueFills
<1>2. q \in Nat \ {0} /\ q \in 0..Qty /\ venue.exec + q \in 0..Qty
  BY <1>0
<1>3. /\ venue' \in [style : Style, status : ClosedAtVenue \cup {"absent", "open"}, exec : 0..Qty,
                     cancelAsked : BOOLEAN]
      /\ venue'.style = venue.style /\ venue'.exec = venue.exec + q
      /\ venue'.status = IF venue'.exec = Qty THEN "filled" ELSE "open"
  BY <1>0, <1>1, <1>2 DEF VenueOK, ClosedAtVenue
<1>4. VenueOK'
  BY <1>0, <1>3 DEF VenueOK
<1>5. PICK m : m = TradeMessage(q, venue.exec + q)
  OBVIOUS
<1>6. venue.style \in Style
  BY <1>0 DEF VenueOK
<1>7. CASE venue.style \in {"report", "mixed"}
  <2>1. m = Msg("fill", q, "none")
    BY <1>5, <1>7 DEF TradeMessage
  <2>2. m \in Message /\ m.kind = "fill" /\ m.qty = q
    BY <1>2, <2>1 DEF Msg, Message
  <2>3. MessageOK(m)'
    BY <1>2, <1>3, <1>7, <2>2 DEF MessageOK, Bare
  <2> QED BY <1>0, <1>1, <1>2, <1>3, <1>4, <1>5, <1>7, <2>2, <2>3
<1>8. CASE venue.style \notin {"report", "mixed"}
  <2>1. m = IF venue'.exec = Qty THEN Msg("terminal", venue'.exec, "filled")
                                 ELSE Msg("cumulative", venue'.exec, "none")
    BY <1>3, <1>5, <1>8 DEF TradeMessage
  <2>2. venue'.exec \in 0..Qty
    BY <1>3
  <2>3. /\ m \in Message /\ m.qty = venue'.exec
        /\ IF venue'.exec = Qty THEN m.kind = "terminal" /\ m.outcome = "filled" ELSE m.kind = "cumulative"
    BY <2>1, <2>2 DEF Msg, Message, ClosedAtVenue
  <2>4. venue'.exec <= venue'.exec
    BY <1>0, <2>2
  <2>5. MessageOK(m)'
    BY <1>3, <1>6, <1>8, <2>3, <2>4 DEF MessageOK, Bare, ClosedAtVenue, Style
  <2> QED BY <1>0, <1>1, <1>2, <1>3, <1>4, <1>5, <1>8, <2>3, <2>5
<1> QED BY <1>7, <1>8

LEMMA VenueFillsKeeps ==
  ASSUME PathInv, VenueFills
  PROVE  PathInv'
<1>1. PICK q, m :
           /\ q \in Nat \ {0}
           /\ venue.status = "open" /\ VenueOK' /\ venue'.style = venue.style
           /\ venue'.exec = venue.exec + q
           /\ venue'.status = IF venue'.exec = Qty THEN "filled" ELSE "open"
           /\ stream' = Append(stream, m) /\ MessageOK(m)'
           /\ m.kind = "fill" => m.qty = q
  BY VenueFillsIs
<1>2. venue.exec \in Nat
  BY ThePath
<1>3. FillQty(m) <= venue'.exec - venue.exec /\ venue'.exec >= venue.exec
  BY <1>1, <1>2 DEF FillQty
<1>4. UNCHANGED <<db, wire, queue, reports, task, recon, spent>>
  BY DEF VenueFills
<1> QED BY <1>1, <1>3, <1>4, VenueReports DEF ClosedAtVenue

LEMMA VenueClosesIs ==
  ASSUME PathInv, VenueCloses
  PROVE  \E m : /\ venue.status = "open" /\ VenueOK' /\ venue'.style = venue.style
                /\ venue'.exec = venue.exec /\ venue'.status \in {"canceled", "rejected"}
                /\ stream' = Append(stream, m) /\ MessageOK(m)' /\ m.kind # "fill"
                /\ Bare(m) => venue.style = "report" \/ venue.exec = 0
<1>0. VenueOK /\ WireOK /\ venue.status = "open" /\ venue.exec \in 0..Qty /\ 0 \in 0..Qty
  BY ThePath, PathAssumption DEF VenueCloses, VenueOK
<1>1. PICK outcome \in {"canceled", "rejected"} :
        /\ venue' = [venue EXCEPT !.status = outcome]
        /\ stream' = Append(stream, CloseMessage(outcome, venue.exec))
  BY DEF VenueCloses
<1>2. /\ venue' \in [style : Style, status : ClosedAtVenue \cup {"absent", "open"}, exec : 0..Qty,
                     cancelAsked : BOOLEAN]
      /\ venue'.style = venue.style /\ venue'.exec = venue.exec /\ venue'.status = outcome
  BY <1>0, <1>1 DEF VenueOK, ClosedAtVenue
<1>3. VenueOK'
  BY <1>0, <1>2 DEF VenueOK
<1>4. Over'
  <2>1. UNCHANGED <<wire, task>>
    BY DEF VenueCloses
  <2> QED BY <1>0, <1>2, <2>1 DEF Over, WireOK
<1>5. PICK m : m = CloseMessage(outcome, venue.exec)
  OBVIOUS
<1>6. CASE m = Msg(outcome, 0, "none") /\ (venue.style = "report" \/ venue.exec = 0)
  <2>1. m \in Message /\ m.kind = outcome
    BY <1>0, <1>6 DEF Msg, Message
  <2>2. MessageOK(m)'
    BY <1>4, <2>1 DEF MessageOK, Bare
  <2> QED BY <1>0, <1>1, <1>2, <1>3, <1>5, <1>6, <2>1, <2>2
<1>7. CASE m = Msg("terminal", venue.exec, outcome)
  <2>1. m \in Message /\ m.kind = "terminal" /\ m.qty = venue.exec /\ m.outcome = outcome
    BY <1>0, <1>7 DEF Msg, Message, ClosedAtVenue
  <2>2. MessageOK(m)'
    BY <1>2, <2>1 DEF MessageOK, Bare, ClosedAtVenue
  <2> QED BY <1>0, <1>1, <1>2, <1>3, <1>5, <2>1, <2>2 DEF Bare
<1> QED BY <1>5, <1>6, <1>7 DEF CloseMessage

LEMMA VenueClosesKeeps ==
  ASSUME PathInv, VenueCloses
  PROVE  PathInv'
<1>1. PICK m : /\ venue.status = "open" /\ VenueOK' /\ venue'.style = venue.style
               /\ venue'.exec = venue.exec /\ venue'.status \in {"canceled", "rejected"}
               /\ stream' = Append(stream, m) /\ MessageOK(m)'
  BY VenueClosesIs
<1>2. venue.exec \in Nat
  BY ThePath
<1>3. venue'.exec >= venue.exec /\ venue'.status \in ClosedAtVenue
  BY <1>1, <1>2 DEF ClosedAtVenue
<1>4. UNCHANGED <<db, wire, queue, reports, task, recon, spent>>
  BY DEF VenueCloses
<1> QED BY <1>1, <1>3, <1>4, VenueReports

(* A message less on the venue's stream; the channel may have it now.      *)
LEMMA StreamShrinks ==
  ASSUME PathInv, VenueOK', MovesOn, NEW i \in Deliverable, stream' = Without(stream, i),
         \/ queue' = queue
         \/ queue' = Append(queue, stream[i])
  PROVE  /\ FlightOK' /\ i \in 1..Len(stream) /\ Dropped(stream, i, stream')
         /\ MessageOK(stream[i]) /\ stream[i] \in Message
         /\ FillSum(stream') = FillSum(stream) - FillQty(stream[i])
         /\ queue' = Append(queue, stream[i]) => FillSum(queue') = FillSum(queue) + FillQty(stream[i])
<1>1. VenueOK /\ FlightOK
  BY ThePath
<1>2. \A x : MessageOK(x) => MessageOK(x)'
  BY <1>1, MessageKept
<1>3. stream \in Seq(Message) /\ queue \in Seq(Message) /\ i \in 1..Len(stream)
  BY <1>1 DEF FlightOK, Deliverable
<1>4. Dropped(stream, i, stream')
  BY <1>3, WithoutDropped
<1>5. /\ FillSum(stream') = FillSum(stream) - FillQty(stream[i])
      /\ \A k \in 1..Len(stream') : \E j \in 1..Len(stream) : stream'[k] = stream[j]
  BY <1>3, <1>4, FillSumDropped
<1>6. PICK m : m = stream[i]
  OBVIOUS
<1>7. MessageOK(m) /\ m \in Message
  BY <1>1, <1>3, <1>6 DEF FlightOK, MessageOK
<1>8. stream' \in Seq(Message)
  BY <1>4 DEF Dropped
<1>9. ASSUME NEW k \in DOMAIN stream' PROVE MessageOK(stream[k])'
  <2>1. PICK x : x = stream'[k]
    OBVIOUS
  <2>2. MessageOK(x)
    BY <1>1, <1>3, <1>5, <1>8, <2>1, SMTT(30) DEF FlightOK
  <2>3. MessageOK(x)'
    BY <1>2, <2>2
  <2> QED BY <2>1, <2>3 DEF MessageOK, Bare
<1>10. /\ Append(queue, m) \in Seq(Message)
       /\ FillSum(Append(queue, m)) = FillSum(queue) + FillQty(m)
  BY <1>3, <1>7, FillSumAppend
<1>11. queue' \in Seq(Message) /\ (queue' = queue \/ queue' = Append(queue, m))
  BY <1>3, <1>6, <1>10
<1>12. ASSUME NEW k \in DOMAIN queue' PROVE MessageOK(queue[k])'
  <2>1. queue'[k] = m \/ (k \in DOMAIN queue /\ queue'[k] = queue[k])
    BY <1>3, <1>11
  <2>2. PICK x : x = queue'[k]
    OBVIOUS
  <2>3. MessageOK(x)'
    BY <1>1, <1>2, <1>7, <2>1, <2>2 DEF FlightOK
  <2> QED BY <2>2, <2>3 DEF MessageOK, Bare
<1>13. FlightOK'
  BY <1>8, <1>9, <1>11, <1>12 DEF FlightOK
<1> QED BY <1>3, <1>4, <1>5, <1>6, <1>7, <1>10, <1>13

LEMMA StreamKeeps ==
  ASSUME PathInv, Deliver \/ Lose
  PROVE  PathInv'
<1>0. BookInv /\ WireOK /\ VenueOK /\ ReconOK /\ SpentOK /\ venue.exec \in Nat /\ row.cum_qty \in Nat
  BY ThePath
<1>1. /\ UNCHANGED <<db, task>>
      /\ UNCHANGED <<row, ext, log, position, venue, wire, reports, task, recon>>
  BY DEF Deliver, Lose, db
<1>2. PICK i \in Deliverable :
        /\ stream' = Without(stream, i)
        /\ queue' = queue \/ queue' = Append(queue, stream[i])
  BY DEF Deliver, Lose, Exec
<1>3. BookInv' /\ WireOK' /\ VenueOK' /\ ReconOK' /\ (Over => Over') /\ (Busy' <=> Busy)
  BY <1>0, <1>1, StillBook DEF WireOK, At, VenueOK, ReconOK, Over, Busy
<1>4. MovesOn
  BY <1>0, <1>1, <1>3 DEF MovesOn
<1>5. /\ FlightOK' /\ stream[i] \in Message
      /\ FillSum(stream') = FillSum(stream) - FillQty(stream[i])
      /\ queue' = Append(queue, stream[i]) => FillSum(queue') = FillSum(queue) + FillQty(stream[i])
  BY <1>2, <1>3, <1>4, StreamShrinks
<1>6. ReportsOK'
  BY <1>1, <1>3, <1>4, ReportsKept
<1>7. SpentOK' /\ spent'.cancels >= spent.cancels
  <2>1. CASE Deliver
    <3>1. UNCHANGED spent
      BY <2>1 DEF Deliver
    <3> QED BY <1>1, <3>1, SpentKept
  <2>2. CASE Lose
    <3>1. spent' = [spent EXCEPT !.losses = @ + 1]
      BY <2>2 DEF Lose
    <3>2. spent' \in [faults : Seq(FaultKind), losses : Nat, cancels : Nat] /\ spent'.cancels = spent.cancels
      BY <1>0, <3>1 DEF SpentOK
    <3>3. spent.cancels \in Nat
      BY <1>0 DEF SpentOK
    <3> QED BY <1>0, <1>1, <3>2, <3>3 DEF SpentOK, At
  <2> QED BY <2>1, <2>2
<1>8. /\ Reported \in Nat /\ FillSum(queue) \in Nat /\ FillSum(stream) \in Nat
      /\ Counted = row.cum_qty + Reported + (FillSum(queue) + FillSum(stream)) /\ Counted \in Nat
  BY CountedType DEF Counted
<1>9. /\ Counted' = row'.cum_qty + Reported' + (FillSum(queue') + FillSum(stream'))
      /\ Counted' \in Int
  BY <1>3, <1>5, <1>6, CountedNext
<1>10. Reported' = Reported /\ FillQty(stream[i]) \in Nat
  BY <1>1, <1>5, PathAssumption DEF Reported, FillQty, Message
<1>11. Counted' <= Counted
  <2>1. FillSum(queue') + FillSum(stream') <= FillSum(queue) + FillSum(stream)
    BY <1>2, <1>5, <1>8, <1>10
  <2>2. FillSum(queue') \in Nat /\ FillSum(stream') \in Nat
    BY <1>3, <1>5, <1>6, CountedNext
  <2> QED BY <1>0, <1>1, <1>8, <1>9, <1>10, <2>1, <2>2
<1>12. Counted' <= Counted + (venue'.exec - venue.exec)
  BY <1>0, <1>1, <1>8, <1>9, <1>11
<1> QED BY <1>1, <1>3, <1>4, <1>5, <1>6, <1>7, <1>9, <1>12, PathFrom

-----------------------------------------------------------------------------
(* The invariant                                                           *)

LEMMA PathStart ==
  ASSUME Init
  PROVE  PathInv
<1>1. /\ row = NoOrder /\ ext = FALSE /\ log = <<>> /\ position = 0 /\ wire = "none" /\ stream = <<>>
      /\ queue = <<>> /\ reports = <<>> /\ recon = NoRecon
      /\ task = [t \in Tasks |-> Idle] /\ spent = [faults |-> <<>>, losses |-> 0, cancels |-> 0]
  BY DEF Init, Tasks
<1>2. PICK style \in VenueStyles :
        venue = [style |-> style, status |-> "absent", exec |-> 0, cancelAsked |-> FALSE]
  BY DEF Init
<1>3. GoodState(NoOrder) /\ NoOrder \in OrderState
  BY DEF GoodState, NoOrder, OrderState, OrderType, LiveStatus
<1>4. RowOK
  <2>1. /\ NoOrder.version = 0 /\ NoOrder.resume_to_status = "none" /\ NoOrder.status = "none"
        /\ NoOrder.cum_qty = 0
    BY DEF NoOrder
  <2>2. <<>> \in Seq(OrderDomainEvent) /\ Len(<<>>) = 0 /\ "none" \notin LiveStatus
    BY DEF LiveStatus
  <2> QED BY <1>1, <1>3, <2>1, <2>2 DEF RowOK
<1>5. FoldOK
  BY <1>1, RehydrateEmpty DEF FoldOK
<1>6. Idle \in TaskState /\ Idle.pc = "idle"
  BY <1>3 DEF Idle, TaskState, Places
<1>7. SnapOK
  BY <1>1, <1>6 DEF SnapOK, Holding
<1>8. VenueOK
  BY <1>2, PathAssumption DEF VenueOK, ClosedAtVenue
<1>9. WireOK
  BY <1>1, <1>2, <1>6 DEF WireOK, At, Tasks, NoOrder
<1>10. ReconOK
  BY <1>1 DEF ReconOK, NoRecon
<1>11. ReportsOK /\ FlightOK
  BY <1>1, <1>6 DEF ReportsOK, FlightOK, Tasks
<1>12. SpentOK
  BY <1>1, <1>6 DEF SpentOK, At, Tasks
<1>13. OnceWhileOpen
  BY <1>1, <1>2, EmptyFlight DEF OnceWhileOpen, Reported, InFlight, NoOrder
<1>14. ClosedOver
  BY <1>1 DEF ClosedOver, NoOrder, TerminalStatus
<1> QED BY <1>4, <1>5, <1>7, <1>8, <1>9, <1>10, <1>11, <1>12, <1>13, <1>14 DEF PathInv, BookInv

LEMMA StutterKeeps ==
  ASSUME PathInv, UNCHANGED vars
  PROVE  PathInv'
<1>1. UNCHANGED <<db, outside, queue, reports, task, recon, spent>>
  BY DEF vars
<1>2. ReconOK'
  BY <1>1, ThePath DEF ReconOK, outside
<1>3. SpentOK' /\ spent'.cancels >= spent.cancels
  BY <1>1, SpentKept
<1> QED BY <1>1, <1>2, <1>3, ReconMoves

LEMMA PathNext ==
  ASSUME PathInv, [Next]_vars
  PROVE  PathInv'
<1>1. CASE SubmitStep
  BY <1>1, NoAdapterKeeps, CallBrokerKeeps, BrokerRejectedKeeps, BrokerAcceptedKeeps,
     UndoAtBrokerKeeps DEF SubmitStep
<1>2. CASE \E t \in Routers : RouteStep(t)
  BY <1>2, RouteReadKeeps, RecordIdKeeps, RouteWriteKeeps, RouteConflictKeeps DEF RouteStep
<1>3. CASE EngineStep
  BY <1>3, EngineTakeKeeps, ApplyReadKeeps, ApplyWriteKeeps, ApplyConflictKeeps DEF EngineStep
<1>4. CASE ReconStep
  BY <1>4, ReconQuietKeeps, ReconActKeeps DEF ReconStep
<1>5. CASE Failure
  BY <1>5, RouteUnknownKeeps, UndoFailsKeeps, BookedUnreadableKeeps, ApplyFailsKeeps,
     ReconFaultKeeps, CrashKeeps, RouteFailsKeeps DEF Failure
<1>6. CASE VenueAnswers \/ VenueFills \/ VenueCloses \/ Deliver \/ Lose
  BY <1>6, VenueAnswersKeeps, VenueFillsKeeps, VenueClosesKeeps, StreamKeeps
<1>7. CASE Submit \/ SubmitRefused \/ CancelRequest \/ CancelLocally
  BY <1>7, SubmitKeeps, SubmitRefusedKeeps, CancelRequestKeeps, CancelLocallyKeeps
<1>8. CASE UNCHANGED vars
  BY <1>8, StutterKeeps
<1> QED BY <1>1, <1>2, <1>3, <1>4, <1>5, <1>6, <1>7, <1>8 DEF Next

LEMMA PathSafe == Spec => []PathInv
<1>1. Init => PathInv
  BY PathStart
<1>2. PathInv /\ [Next]_vars => PathInv'
  BY PathNext
<1> QED BY <1>1, <1>2, PTL DEF Spec

(* However submit, cancel, the engine and recon interleave, crash or fail, *)
(* the order_state row shows what its events fold to and the position has  *)
(* moved exactly with the booked fills.                                    *)
THEOREM RowSafe == Spec => []RowIsFold
<1>1. PathInv => RowIsFold
  <2> SUFFICES ASSUME PathInv PROVE RowIsFold
    OBVIOUS
  <2>1. RowOK /\ FoldOK
    BY ThePath
  <2>2. row.status \in LiveStatus => row.status \notin TerminalStatus
    BY DEF LiveStatus, TerminalStatus
  <2> QED BY <2>1, <2>2 DEF RowIsFold, RowOK, FoldOK
<1> QED BY <1>1, PathSafe, PTL

(* An order that nobody cancelled locally is closed in the OMS only when   *)
(* the venue holds nothing of it and no request for it is on its way: the  *)
(* stuck sweep never rejects an order that may still reach the venue.      *)
THEOREM ClosedSafe == Spec => []ClosedOnlyAfterVenue
<1>1. PathInv => ClosedOnlyAfterVenue
  BY ThePath DEF ClosedOver, ClosedOnlyAfterVenue, Over, At
<1> QED BY <1>1, PathSafe, PTL

-----------------------------------------------------------------------------
(* What is booked against what the venue executed                          *)

NoDbError == \A i \in DOMAIN spent.faults : spent.faults[i] # "db"

Alive == NoDbError /\ row.status \notin TerminalStatus

\* The reports in hand will close the order.
Ends == Closes(reports) \/ (reports # <<>> /\ row.cum_qty + Reported = Qty)

\* An order that lives was given no fill twice: only the reports that close it
\* may count what is still on its way.
CountOK ==
  Alive => /\ row.cum_qty + Reported <= venue.exec
           /\ Ends \/ Counted <= venue.exec

NeverOver == NoDbError => row.cum_qty <= venue.exec

\* While the engine retries, what beat it was the routing or closed the order.
RetryOK ==
  LET e == task["engine"] IN
  /\ e.pc = "idle" => e.tries = 0
  /\ e.pc \in {"apply", "apply_write"} /\ e.tries > 0 => row.status # "submitted"
  /\ e.pc = "apply_write" =>
       /\ e.tries > 0 => e.snap.status # "submitted"
       /\ e.snap.version # Len(log) /\ row.status \notin TerminalStatus =>
            e.snap.status = "submitted" /\ row.status # "submitted"

CountInv == CountOK /\ NeverOver /\ RetryOK

NoFill(s) == \A i \in DOMAIN s : s[i].kind # "fill"

\* No fill comes after a close that does not say what was executed.
BareLast ==
  /\ \A i \in DOMAIN stream : Bare(stream[i]) =>
       venue.exec = 0 \/ (venue.style = "report" /\ i = Len(stream))
  /\ \A i \in DOMAIN queue : Bare(queue[i]) =>
       \/ venue.exec = 0
       \/ /\ venue.style = "report" /\ NoFill(stream)
          /\ \A j \in DOMAIN queue : j > i => queue[j].kind # "fill"

\* With every report delivered, the fills on their way are all that is missing.
ExactOK ==
  Alive => IF Ends THEN row.cum_qty + Reported = venue.exec
                   ELSE venue.style = "report" => Counted = venue.exec

AllBooked ==
  NoDbError /\ row.status \in TerminalStatus /\ spent.cancels = 0 => row.cum_qty = venue.exec

ExactInv == BareLast /\ ExactOK /\ AllBooked

-----------------------------------------------------------------------------
(* Failures are counted once and for all                                   *)

LEMMA DbFault ==
  ASSUME PathInv, Fault("db")
  PROVE  ~ NoDbError'
<1>1. spent.faults \in Seq(FaultKind) /\ spent \in [faults : Seq(FaultKind), losses : Nat, cancels : Nat]
  BY ThePath DEF SpentOK
<1>2. spent'.faults = Append(spent.faults, "db")
  BY <1>1 DEF Fault
<1>3. Len(spent.faults) + 1 \in DOMAIN spent'.faults /\ spent'.faults[Len(spent.faults) + 1] = "db"
  BY <1>1, <1>2
<1> QED BY <1>3 DEF NoDbError

LEMMA FaultsGrow ==
  ASSUME PathInv, [Next]_vars
  PROVE  NoDbError' => NoDbError
<1>0. spent \in [faults : Seq(FaultKind), losses : Nat, cancels : Nat]
  BY ThePath DEF SpentOK
<1>1. \/ spent' = spent
      \/ \E kind : spent' = [spent EXCEPT !.faults = Append(@, kind)]
      \/ spent' = [spent EXCEPT !.cancels = @ + 1]
      \/ spent' = [spent EXCEPT !.losses = @ + 1]
  <2>1. CASE Failure
    BY <2>1 DEF Failure, RouteUnknown, UndoFails, BookedUnreadable, ApplyFails, ReconLoadFails,
       ReconFails, Crash, RouteFails, Fault
  <2>2. CASE CancelRequest
    BY <2>2 DEF CancelRequest
  <2>3. CASE Lose
    BY <2>3 DEF Lose
  <2>4. CASE SubmitStep
    BY <2>4 DEF SubmitStep, NoAdapter, CallBroker, BrokerRejected, BrokerAccepted, UndoAtBroker
  <2>5. CASE \E t \in Routers : RouteStep(t)
    BY <2>5 DEF RouteStep, RouteRead, RecordId, RouteWrite, RouteConflict
  <2>6. CASE EngineStep
    BY <2>6 DEF EngineStep, EngineTake, ApplyRead, ApplyWrite, ApplyConflict
  <2>7. CASE ReconStep
    BY <2>7 DEF ReconStep, ReconLoadWorking, ReconLoadStuck, ReconSnapshot, ReconAct
  <2>8. CASE VenueAnswers \/ VenueFills \/ VenueCloses \/ Deliver
    BY <2>8 DEF VenueAnswers, VenueFills, VenueCloses, Deliver
  <2>9. CASE Submit \/ SubmitRefused \/ CancelLocally
    BY <2>9 DEF Submit, SubmitRefused, CancelLocally
  <2>10. CASE UNCHANGED vars
    BY <2>10 DEF vars
  <2> QED BY <2>1, <2>2, <2>3, <2>4, <2>5, <2>6, <2>7, <2>8, <2>9, <2>10 DEF Next
<1>2. spent'.faults = spent.faults \/ \E kind : spent'.faults = Append(spent.faults, kind)
  BY <1>0, <1>1
<1>3. \A kind : \A i \in DOMAIN spent.faults :
        /\ i \in DOMAIN Append(spent.faults, kind)
        /\ Append(spent.faults, kind)[i] = spent.faults[i]
  BY <1>0
<1> QED BY <1>2, <1>3 DEF NoDbError

-----------------------------------------------------------------------------
(* Steps that book nothing                                                 *)

\* What is booked, reported and executed stays; a message may be lost where the
\* connector may lose it.
Still ==
  /\ row'.cum_qty = row.cum_qty /\ reports' = reports
  /\ venue'.exec = venue.exec /\ venue'.style = venue.style
  /\ row.status \in TerminalStatus => row'.status \in TerminalStatus
  /\ spent'.cancels >= spent.cancels
  /\ row'.status \in TerminalStatus =>
       row.status \in TerminalStatus \/ spent'.cancels > 0 \/ row'.cum_qty = venue'.exec
  /\ Counted' = Counted \/ (venue.style \in LossyStyles /\ Counted' <= Counted)

LEMMA PathInvNext ==
  ASSUME PathInv'
  PROVE  /\ Reported' \in Nat /\ FillSum(queue') \in Nat /\ FillSum(stream') \in Nat
         /\ row'.cum_qty \in Nat /\ venue'.exec \in 0..Qty
         /\ Counted' = row'.cum_qty + Reported' + (FillSum(queue') + FillSum(stream'))
         /\ Counted' \in Nat
<1>1. BookInv' /\ FlightOK' /\ ReportsOK' /\ VenueOK'
  BY DEF PathInv
<1>2. /\ Reported' \in Nat /\ FillSum(queue') \in Nat /\ FillSum(stream') \in Nat
      /\ row'.cum_qty \in Nat
      /\ Counted' = row'.cum_qty + Reported' + (FillSum(queue') + FillSum(stream'))
  BY <1>1, CountedNext
<1>3. venue'.exec \in 0..Qty
  BY <1>1 DEF VenueOK
<1> QED BY <1>2, <1>3

LEMMA StillCount ==
  ASSUME PathInv, PathInv', NoDbError' => NoDbError, Still, CountOK, NeverOver
  PROVE  CountOK' /\ NeverOver'
<1>1. Reported' = Reported /\ (Ends' <=> Ends)
  BY DEF Still, Reported, Ends, Closes, IsClose
<1>2. Alive' => Alive
  BY DEF Alive, Still
<1>3. Counted' \in Nat /\ Counted \in Nat /\ venue.exec \in Nat
  BY CountedType, ThePath, PathInvNext
<1>4. Counted' <= Counted
  BY <1>3 DEF Still
<1>5. Counted <= venue.exec => Counted' <= venue.exec
  BY <1>3, <1>4
<1> QED BY <1>1, <1>2, <1>5 DEF CountOK, NeverOver, Still


LEMMA StillExact ==
  ASSUME PathInv, PathInv', NoDbError' => NoDbError, Still, ExactOK, AllBooked,
         "report" \notin LossyStyles
  PROVE  ExactOK' /\ AllBooked'
<1>1. Reported' = Reported /\ (Ends' <=> Ends)
  BY DEF Still, Reported, Ends, Closes, IsClose
<1>2. Alive' => Alive
  BY DEF Alive, Still
<1>3. venue.style = "report" => Counted' = Counted
  BY DEF Still
<1>4. ExactOK'
  BY <1>1, <1>2, <1>3 DEF ExactOK, Still
<1>5. spent.cancels \in Nat /\ spent'.cancels \in Nat
  <2>1. SpentOK /\ SpentOK'
    BY DEF PathInv
  <2> QED BY <2>1 DEF SpentOK
<1>6. spent'.cancels = 0 => spent.cancels = 0
  BY <1>5 DEF Still
<1>7. AllBooked'
  BY <1>5, <1>6 DEF AllBooked, Still
<1> QED BY <1>4, <1>7

LEMMA EngineStays ==
  ASSUME RetryOK, task'["engine"] = task["engine"], UNCHANGED <<row, log>>
  PROVE  RetryOK'
BY DEF RetryOK

LEMMA EngineAway ==
  ASSUME task'["engine"].pc \notin {"apply", "apply_write"},
         task'["engine"].pc = "idle" => task'["engine"].tries = 0
  PROVE  RetryOK'
BY DEF RetryOK

\* Nothing is sent, taken or delivered.
Silent ==
  /\ UNCHANGED <<stream, queue, reports>>
  /\ venue'.exec = venue.exec /\ venue'.style = venue.style
  /\ row'.cum_qty = row.cum_qty

LEMMA SilentStill ==
  ASSUME PathInv, Silent, spent'.cancels >= spent.cancels,
         row.status \in TerminalStatus => row'.status \in TerminalStatus,
         row'.status \in TerminalStatus =>
           row.status \in TerminalStatus \/ spent'.cancels > 0 \/ row'.cum_qty = venue'.exec
  PROVE  Still /\ (BareLast => BareLast')
<1>1. UNCHANGED <<stream, queue, reports>> /\ row'.cum_qty = row.cum_qty
  BY DEF Silent
<1>2. Counted' = Counted
  BY <1>1 DEF Counted, Reported, InFlight
<1>3. BareLast => BareLast'
  BY DEF BareLast, Silent, NoFill, Bare
<1> QED BY <1>2, <1>3 DEF Still, Silent

\* The row, the stream and the engine are left alone.
Aside ==
  /\ UNCHANGED <<row, log, stream, queue, reports>> /\ task'["engine"] = task["engine"]
  /\ venue'.exec = venue.exec /\ venue'.style = venue.style
  /\ spent'.cancels >= spent.cancels

LEMMA AsideKeeps ==
  ASSUME PathInv, Aside, RetryOK
  PROVE  Still /\ (BareLast => BareLast') /\ RetryOK'
<1>1. Silent /\ row' = row /\ spent'.cancels >= spent.cancels
  BY DEF Aside, Silent
<1>2. Still /\ (BareLast => BareLast')
  BY <1>1, SilentStill
<1>3. RetryOK'
  BY EngineStays DEF Aside
<1> QED BY <1>2, <1>3

LEMMA SpentGrows ==
  ASSUME PathInv, UNCHANGED spent \/ \E kind : Fault(kind)
  PROVE  spent'.cancels >= spent.cancels
<1>1. spent \in [faults : Seq(FaultKind), losses : Nat, cancels : Nat]
  BY ThePath DEF SpentOK
<1>2. spent'.cancels = spent.cancels
  BY <1>1 DEF Fault
<1> QED BY <1>1, <1>2

LEMMA EntryAside ==
  ASSUME PathInv, CallBroker \/ RouteUnknown \/ BrokerAccepted \/ UndoAtBroker \/ UndoFails
  PROVE  Aside
<1>0. SnapOK /\ VenueOK
  BY ThePath
<1>1. /\ UNCHANGED <<row, log, stream, queue, reports>>
      /\ venue' = venue \/ AskVenueToCancel
      /\ UNCHANGED spent \/ \E kind : Fault(kind)
      /\ \E pc : Goto("submit", pc) \/ Done("submit", pc)
  BY DEF CallBroker, RouteUnknown, BrokerAccepted, UndoAtBroker, UndoFails, Finish, db, outside
<1>2. venue'.exec = venue.exec /\ venue'.style = venue.style
  BY <1>0, <1>1 DEF AskVenueToCancel, VenueOK
<1>3. task'["engine"] = task["engine"]
  BY <1>0, <1>1 DEF Goto, Done, SnapOK, Tasks
<1>4. spent'.cancels >= spent.cancels
  BY <1>1, SpentGrows
<1> QED BY <1>1, <1>2, <1>3, <1>4 DEF Aside

LEMMA OthersAside ==
  ASSUME PathInv,
         \/ CancelRequest \/ VenueAnswers \/ UNCHANGED vars
         \/ ReconLoadWorking \/ ReconLoadStuck \/ ReconSnapshot \/ ReconLoadFails \/ ReconFails
         \/ ReconAct /\ UNCHANGED queue
  PROVE  Aside
<1>0. SnapOK /\ VenueOK /\ spent \in [faults : Seq(FaultKind), losses : Nat, cancels : Nat]
  BY ThePath DEF SpentOK
<1>1. CASE CancelRequest
  <2>1. /\ UNCHANGED <<row, log, stream, queue, reports>>
        /\ venue' = venue \/ AskVenueToCancel
        /\ spent' = [spent EXCEPT !.cancels = @ + 1]
        /\ task' = task \/ Read("cancel", "write")
    BY <1>1 DEF CancelRequest, db
  <2>2. venue'.exec = venue.exec /\ venue'.style = venue.style
    BY <1>0, <2>1 DEF AskVenueToCancel, VenueOK
  <2>3. task'["engine"] = task["engine"]
    BY <1>0, <2>1 DEF Read, SnapOK, Tasks
  <2>4. spent'.cancels >= spent.cancels
    BY <1>0, <2>1
  <2> QED BY <2>1, <2>2, <2>3, <2>4 DEF Aside
<1>2. CASE VenueAnswers
  <2>1. /\ UNCHANGED <<row, log, stream, queue, reports, task, spent>>
        /\ venue' = venue \/ venue' = [venue EXCEPT !.status = "open"]
    BY <1>2 DEF VenueAnswers, db
  <2>2. venue'.exec = venue.exec /\ venue'.style = venue.style
    BY <1>0, <2>1 DEF VenueOK
  <2>3. spent'.cancels >= spent.cancels
    BY <2>1, SpentGrows
  <2> QED BY <2>1, <2>2, <2>3 DEF Aside
<1>3. ASSUME /\ UNCHANGED <<row, log, stream, queue, reports, task, venue>>
             /\ UNCHANGED spent \/ \E kind : Fault(kind)
      PROVE  Aside
  <2>1. spent'.cancels >= spent.cancels
    BY <1>3, SpentGrows
  <2> QED BY <1>3, <2>1 DEF Aside
<1>4. CASE UNCHANGED vars
  BY <1>3, <1>4 DEF vars, db, outside
<1>5. CASE ReconLoadWorking \/ ReconLoadStuck \/ ReconSnapshot
  BY <1>3, <1>5 DEF db, outside, ReconLoadWorking, ReconLoadStuck, ReconSnapshot
<1>6. CASE ReconLoadFails \/ ReconFails
  BY <1>3, <1>6 DEF db, outside, ReconLoadFails, ReconFails
<1>7. CASE ReconAct /\ UNCHANGED queue
  BY <1>3, <1>7 DEF db, outside, ReconAct
<1> QED BY <1>1, <1>2, <1>4, <1>5, <1>6, <1>7


LEMMA RoutersAside ==
  ASSUME PathInv, RetryOK, NEW t \in Routers,
         RouteRead(t) \/ RecordId(t) \/ RouteConflict(t) \/ RouteFails(t)
  PROVE  Still /\ (BareLast => BareLast') /\ RetryOK'
<1>0. SnapOK /\ RowOK /\ row \in OrderState /\ t \in Tasks
      /\ {"record_id", "route_write", "undo", "route"} \subseteq Places
  BY ThePath DEF Tasks, Routers, Places
<1>1. /\ UNCHANGED <<row, log, stream, queue, reports, venue>>
      /\ UNCHANGED spent \/ \E kind : Fault(kind)
  BY DEF RouteRead, RecordId, RouteConflict, RouteFails, db, outside
<1>2. \/ Finish(t) \/ (t = "submit" /\ Goto(t, "undo")) \/ Goto(t, "record_id")
      \/ Read(t, "route_write")
      \/ task' = [task EXCEPT ![t].pc = "route", ![t].tries = @ + 1]
  BY DEF RouteRead, RecordId, RouteConflict, RouteFails
<1>3. \E pc, snap, tries :
        /\ Moved(t, pc, snap, tries)
        /\ t = "engine" => pc \in {"route", "record_id", "route_write"} \/ (pc = "idle" /\ tries = 0)
  <2>1. CASE Finish(t)
    <3>1. Moved(t, Home(t), NoOrder, 0)
      BY <1>0, <2>1, FinishMoves
    <3> QED BY <3>1 DEF Home
  <2>2. CASE t = "submit" /\ Goto(t, "undo")
    <3>1. Moved(t, "undo", task[t].snap, task[t].tries)
      BY <1>0, <2>2, GotoMoves
    <3> QED BY <2>2, <3>1
  <2>3. CASE Goto(t, "record_id")
    <3>1. Moved(t, "record_id", task[t].snap, task[t].tries)
      BY <1>0, <2>3, GotoMoves
    <3> QED BY <3>1
  <2>4. CASE Read(t, "route_write")
    <3>1. Moved(t, "route_write", row, task[t].tries)
      BY <1>0, <2>4, ReadMoves
    <3> QED BY <3>1
  <2>5. CASE task' = [task EXCEPT ![t].pc = "route", ![t].tries = @ + 1]
    <3>1. Moved(t, "route", task[t].snap, task[t].tries + 1)
      BY <1>0, <2>5, RetryMoves
    <3> QED BY <3>1
  <2> QED BY <1>2, <2>1, <2>2, <2>3, <2>4, <2>5
<1>4. spent'.cancels >= spent.cancels
  BY <1>1, SpentGrows
<1>5. RetryOK'
  <2>1. CASE t = "submit"
    BY <1>1, <1>3, <2>1, EngineStays DEF Moved, Tasks
  <2>2. CASE t = "engine"
    BY <1>3, <2>2, EngineAway DEF Moved
  <2> QED BY <2>1, <2>2 DEF Routers
<1>6. Silent
  BY <1>1 DEF Silent
<1> QED BY <1>1, <1>4, <1>5, <1>6, SilentStill

(* The routing overtakes the engine only once.                             *)
LEMMA RouteWriteStill ==
  ASSUME PathInv, RetryOK, NEW t \in Routers, RouteWrite(t)
  PROVE  Still /\ (BareLast => BareLast') /\ RetryOK'
<1>0. BookInv /\ SnapOK /\ RowOK /\ WireOK /\ log \in Seq(OrderDomainEvent)
  BY ThePath DEF RowOK
<1>1. /\ task[t].pc = "route_write" /\ Finish(t)
      /\ UNCHANGED <<venue, wire, stream, queue, reports, recon, spent>>
  BY DEF RouteWrite, At, outside
<1>2. Moved(t, Home(t), NoOrder, 0)
  BY <1>0, <1>1, FinishMoves
<1>3. row.status = "submitted" /\ row'.status = "routed" /\ row'.cum_qty = row.cum_qty
  BY <1>0, RouteKeepsBook
<1>4. PICK e : log' = Append(log, e)
  BY DEF RouteWrite
<1>5. Len(log') = Len(log) + 1 /\ Len(log) \in Nat
  BY <1>0, <1>4
<1>6. spent'.cancels >= spent.cancels
  BY <1>1, SpentGrows
<1>7. Silent
  BY <1>1, <1>3 DEF Silent
<1>8. Still /\ (BareLast => BareLast')
  BY <1>3, <1>6, <1>7, SilentStill DEF TerminalStatus
<1>9. RetryOK'
  <2>1. CASE t = "engine"
    BY <1>2, <2>1, EngineAway DEF Moved, Home
  <2>2. CASE t = "submit"
    <3> DEFINE e0 == task["engine"]
    <3>1. task'["engine"] = e0
      BY <1>2, <2>2 DEF Moved, Tasks
    <3>2. e0.pc = "idle" => e0.tries = 0
      BY DEF RetryOK
    <3>3. ASSUME e0.pc = "apply_write"
          PROVE  e0.snap = row /\ ~ e0.tries > 0
      BY <1>0, <1>3, <3>3 DEF RetryOK, SnapOK, Holding, Tasks, TerminalStatus
    <3> QED BY <1>3, <3>1, <3>2, <3>3 DEF RetryOK, TerminalStatus
  <2> QED BY <2>1, <2>2 DEF Routers
<1> QED BY <1>8, <1>9

LEMMA NothingReported ==
  ASSUME PathInv, task["submit"].pc = "idle"
  PROVE  reports = <<>> /\ task["engine"].pc \notin {"apply", "apply_write"}
<1>0. ReportsOK /\ WireOK
  BY ThePath
<1>1. venue.status = "absent" /\ ~ Over
  BY <1>0 DEF WireOK, Over
<1>2. reports \in Seq(Report) /\ \A i \in DOMAIN reports : FALSE
  BY <1>0, <1>1 DEF ReportsOK
<1>3. reports # <<>> => 1 \in DOMAIN reports
  BY <1>2
<1> QED BY <1>0, <1>2, <1>3 DEF ReportsOK

LEMMA EntryStill ==
  ASSUME PathInv, RetryOK, Submit \/ SubmitRefused
  PROVE  Still /\ (BareLast => BareLast') /\ RetryOK'
<1>0. /\ BookInv /\ SnapOK /\ RowOK /\ WireOK /\ VenueOK
  BY ThePath
<1>1. /\ task["submit"].pc = "idle" /\ row.status = "none"
      /\ Goto("submit", "call") \/ Goto("submit", "done")
      /\ UNCHANGED <<venue, wire, stream, queue, reports, recon, spent>>
  BY DEF Submit, SubmitRefused, At, outside
<1>2. task'["engine"] = task["engine"]
  BY <1>0, <1>1 DEF Goto, SnapOK, Tasks
<1>3. row'.cum_qty = 0
  BY <1>0, SubmitKeepsBook, RefusedKeepsBook
<1>4. row.cum_qty = 0
  BY <1>0, <1>1 DEF RowOK, NoOrder
<1>5. venue.exec = 0
  BY <1>0, <1>1 DEF WireOK, VenueOK
<1>6. spent'.cancels >= spent.cancels
  BY <1>1, SpentGrows
<1>7. Silent
  BY <1>1, <1>3, <1>4 DEF Silent
<1>8. Still /\ (BareLast => BareLast')
  BY <1>1, <1>3, <1>5, <1>6, <1>7, SilentStill DEF TerminalStatus
<1>9. RetryOK'
  <2>1. task["engine"].pc \notin {"apply", "apply_write"}
    BY <1>1, NothingReported
  <2>2. task["engine"].pc = "idle" => task["engine"].tries = 0
    BY DEF RetryOK
  <2> QED BY <1>2, <2>1, <2>2, EngineAway
<1> QED BY <1>8, <1>9

LEMMA CancelLocallyStill ==
  ASSUME PathInv, RetryOK, CancelLocally
  PROVE  Still /\ (BareLast => BareLast') /\ RetryOK'
<1>0. BookInv /\ SnapOK /\ SpentOK
  BY ThePath
<1>1. /\ task["cancel"].pc = "write" /\ Done("cancel", "idle")
      /\ UNCHANGED <<venue, wire, stream, queue, reports, recon, spent>>
  BY DEF CancelLocally, At, outside
<1>2. task'["engine"] = task["engine"]
  BY <1>0, <1>1 DEF Done, SnapOK, Tasks
<1>3. /\ row'.cum_qty = row.cum_qty
      /\ row' = row \/ (row.status \in LiveStatus /\ row'.status = "canceled")
  BY <1>0, CancelKeepsBook
<1>4. spent'.cancels > 0 /\ spent'.cancels >= spent.cancels
  BY <1>0, <1>1, SpentGrows DEF SpentOK, At
<1>5. Silent
  BY <1>1, <1>3 DEF Silent
<1>6. "canceled" \in TerminalStatus /\ "canceled" # "submitted"
  BY DEF TerminalStatus
<1>7. Still /\ (BareLast => BareLast')
  BY <1>3, <1>4, <1>5, <1>6, SilentStill
<1>8. UNCHANGED <<row, log>> \/ row'.status = "canceled"
  BY <1>0, CancelKeepsBook
<1>9. RetryOK'
  BY <1>2, <1>6, <1>8, EngineStays DEF RetryOK
<1> QED BY <1>7, <1>9


-----------------------------------------------------------------------------
(* Steps that send or deliver a message without booking it                 *)

\* What a step that only moves messages leaves alone.
Carried ==
  /\ UNCHANGED <<row, log, reports>> /\ task'["engine"] = task["engine"]
  /\ venue'.exec = venue.exec /\ venue'.style = venue.style
  /\ spent'.cancels >= spent.cancels

LEMMA CarriedStill ==
  ASSUME PathInv, PathInv', Carried, RetryOK,
         \/ FillSum(queue') + FillSum(stream') = FillSum(queue) + FillSum(stream)
         \/ venue.style \in LossyStyles /\ FillSum(queue') + FillSum(stream') <= FillSum(queue) + FillSum(stream)
  PROVE  Still /\ RetryOK'
<1>1. /\ Reported \in Nat /\ FillSum(queue) \in Nat /\ FillSum(stream) \in Nat /\ row.cum_qty \in Nat
      /\ Counted = row.cum_qty + Reported + (FillSum(queue) + FillSum(stream)) /\ Counted \in Nat
  BY CountedType, ThePath DEF Counted
<1>2. /\ FillSum(queue') \in Nat /\ FillSum(stream') \in Nat
      /\ Counted' = row'.cum_qty + Reported' + (FillSum(queue') + FillSum(stream'))
  BY PathInvNext
<1>3. row' = row /\ Reported' = Reported
  BY DEF Carried, Reported
<1>4. Counted' = Counted \/ (venue.style \in LossyStyles /\ Counted' <= Counted)
  BY <1>1, <1>2, <1>3
<1>5. RetryOK'
  BY EngineStays DEF Carried
<1> QED BY <1>3, <1>4, <1>5 DEF Still, Carried

LEMMA SentStill ==
  ASSUME PathInv, PathInv', Carried, RetryOK, UNCHANGED stream,
         NEW m \in Message, queue' = Append(queue, m), m.kind # "fill",
         Bare(m) => venue.exec = 0
  PROVE  Still /\ (BareLast => BareLast') /\ RetryOK'
<1>0. queue \in Seq(Message) /\ FillSum(queue) \in Nat
  BY ThePath, CountedType DEF FlightOK
<1>1. FillSum(queue') = FillSum(queue) + FillQty(m) /\ FillQty(m) = 0
  BY <1>0, FillSumAppend DEF FillQty
<1>2. FillSum(queue') = FillSum(queue)
  BY <1>0, <1>1
<1>3. Still /\ RetryOK'
  BY <1>2, CarriedStill
<1>4. /\ DOMAIN queue' = 1..(Len(queue) + 1) /\ DOMAIN queue = 1..Len(queue) /\ Len(queue) \in Nat
      /\ queue'[Len(queue) + 1] = m /\ \A j \in 1..Len(queue) : queue'[j] = queue[j]
  BY <1>0
<1>5. venue'.exec = venue.exec /\ venue'.style = venue.style
  BY DEF Carried
<1>6. ASSUME BareLast, NEW i \in DOMAIN queue', Bare(queue'[i])
      PROVE  \/ venue.exec = 0
             \/ /\ venue.style = "report" /\ NoFill(stream)
                /\ \A j \in DOMAIN queue' : j > i => queue'[j].kind # "fill"
  <2>1. CASE i = Len(queue) + 1
    BY <1>4, <1>6, <2>1
  <2>2. CASE i \in 1..Len(queue)
    <3>1. Bare(queue[i])
      BY <1>4, <1>6, <2>2
    <3>2. \/ venue.exec = 0
          \/ /\ venue.style = "report" /\ NoFill(stream)
             /\ \A j \in 1..Len(queue) : j > i => queue[j].kind # "fill"
      BY <1>4, <1>6, <2>2, <3>1 DEF BareLast
    <3>3. \A j \in DOMAIN queue' : j = Len(queue) + 1 \/ j \in 1..Len(queue)
      BY <1>4
    <3> QED BY <1>4, <3>2, <3>3
  <2> QED BY <1>4, <2>1, <2>2
<1>7. BareLast => BareLast'
  BY <1>5, <1>6 DEF BareLast, Bare, NoFill
<1> QED BY <1>3, <1>7

LEMMA RejectMessage == Msg("rejected", 0, "none") \in Message
BY PathAssumption DEF Message, Msg

LEMMA SendersStill ==
  ASSUME PathInv, PathInv', RetryOK, NoAdapter \/ BrokerRejected \/ (ReconAct /\ queue' # queue)
  PROVE  Still /\ (BareLast => BareLast') /\ RetryOK'
<1>0. SnapOK /\ WireOK /\ VenueOK
  BY ThePath
<1>1. /\ UNCHANGED <<row, log, reports, venue, stream, spent>>
  BY DEF NoAdapter, BrokerRejected, ReconAct, db, outside
<1>2. task'["engine"] = task["engine"]
  <2>1. UNCHANGED task \/ Goto("submit", "done")
    BY DEF NoAdapter, BrokerRejected, ReconAct
  <2> QED BY <1>0, <2>1 DEF Goto, SnapOK, Tasks
<1>3. Carried
  BY <1>1, <1>2, SpentGrows DEF Carried
<1>4. CASE NoAdapter \/ BrokerRejected
  <2> DEFINE m == Msg("rejected", 0, "none")
  <2>1. queue' = Append(queue, m) /\ (At("submit", "call") \/ wire = "rejected")
    BY <1>4 DEF NoAdapter, BrokerRejected, Exec
  <2>2. venue.exec = 0
    BY <1>0, <2>1 DEF WireOK, VenueOK, At
  <2>3. m \in Message /\ m.kind # "fill"
    BY RejectMessage DEF Msg
  <2> HIDE DEF m
  <2> QED BY <1>1, <1>3, <2>1, <2>2, <2>3, SentStill
<1>5. CASE ReconAct /\ queue' # queue
  <2>1. PICK m \in ReconPlan : queue' = Append(queue, m)
    BY <1>5 DEF ReconAct, Exec
  <2>2. MessageOK(m) /\ m.kind \in {"ack", "terminal", "rejected"}
        /\ (m.kind = "rejected" => venue.status = "absent")
    BY <1>5, PlanTrue DEF ReconAct
  <2>3. Bare(m) => venue.exec = 0
    BY <1>0, <2>2 DEF Bare, VenueOK
  <2>4. m \in Message /\ m.kind # "fill"
    BY <2>2 DEF MessageOK
  <2> QED BY <1>1, <1>3, <2>1, <2>3, <2>4, SentStill
<1> QED BY <1>4, <1>5

LEMMA NoBareYet ==
  ASSUME PathInv, venue.status = "open"
  PROVE  /\ \A i \in DOMAIN stream : ~ Bare(stream[i])
         /\ \A i \in DOMAIN queue : ~ Bare(queue[i])
BY ThePath DEF FlightOK, MessageOK, Over

LEMMA VenueClosesStill ==
  ASSUME PathInv, PathInv', RetryOK, VenueCloses
  PROVE  Still /\ BareLast' /\ RetryOK'
<1>1. PICK m : /\ venue.status = "open" /\ VenueOK' /\ venue'.style = venue.style
               /\ venue'.exec = venue.exec /\ venue'.status \in {"canceled", "rejected"}
               /\ stream' = Append(stream, m) /\ MessageOK(m)' /\ m.kind # "fill"
               /\ Bare(m) => venue.style = "report" \/ venue.exec = 0
  BY VenueClosesIs
<1>2. UNCHANGED <<row, log, reports, queue, task, spent>>
  BY DEF VenueCloses, db
<1>3. Carried
  BY <1>1, <1>2, SpentGrows DEF Carried
<1>4. stream \in Seq(Message) /\ FillSum(stream) \in Nat /\ m \in Message
  BY <1>1, ThePath, CountedType DEF FlightOK, MessageOK
<1>5. FillSum(stream') = FillSum(stream) + FillQty(m) /\ FillQty(m) = 0
  BY <1>1, <1>4, FillSumAppend DEF FillQty
<1>6. FillSum(stream') = FillSum(stream)
  BY <1>4, <1>5
<1>7. Still /\ RetryOK'
  BY <1>2, <1>3, <1>6, CarriedStill
<1>8. /\ DOMAIN stream' = 1..(Len(stream) + 1) /\ DOMAIN stream = 1..Len(stream) /\ Len(stream) \in Nat
      /\ Len(stream') = Len(stream) + 1
      /\ stream'[Len(stream) + 1] = m /\ \A j \in 1..Len(stream) : stream'[j] = stream[j]
  BY <1>1, <1>4
<1>9. \A i \in DOMAIN queue' : ~ Bare(queue'[i])
  BY <1>1, <1>2, NoBareYet
<1>10. ASSUME NEW i \in DOMAIN stream', Bare(stream'[i])
       PROVE  i = Len(stream') /\ stream'[i] = m
  BY <1>1, <1>8, <1>10, NoBareYet
<1>11. BareLast'
  BY <1>1, <1>9, <1>10 DEF BareLast, Bare
<1> QED BY <1>7, <1>11


(* With one topic the connector delivers the oldest message first.         *)
LEMMA OldestFirst ==
  ASSUME PathInv, venue.style = "report", NEW i \in Deliverable
  PROVE  i = 1
<1>1. i \in 1..Len(stream) /\ Len(stream) \in Nat
  BY ThePath DEF Deliverable, FlightOK
<1>2. \A j \in 1..(i - 1) : Topic(stream[j]) # Topic(stream[i])
  BY DEF Deliverable
<1>3. \A m : Topic(m) = "order"
  BY DEF Topic
<1>4. 1 \notin 1..(i - 1)
  BY <1>2, <1>3
<1> QED BY <1>1, <1>4

LEMMA DeliverBare ==
  ASSUME PathInv, BareLast, UNCHANGED venue, NEW i \in Deliverable, i \in 1..Len(stream),
         Dropped(stream, i, stream'),
         \/ queue' = queue /\ venue.style # "report"
         \/ queue' = Append(queue, stream[i])
  PROVE  BareLast'
<1>0. stream \in Seq(Message) /\ queue \in Seq(Message)
  BY ThePath DEF FlightOK
<1>1. /\ stream' \in Seq(Message) /\ Len(stream') = Len(stream) - 1
      /\ \A k \in 1..Len(stream') : stream'[k] = IF k < i THEN stream[k] ELSE stream[k + 1]
      /\ DOMAIN stream = 1..Len(stream) /\ DOMAIN stream' = 1..Len(stream') /\ Len(stream) \in Nat
      /\ DOMAIN queue = 1..Len(queue) /\ Len(queue) \in Nat
  BY <1>0 DEF Dropped
<1>2. CASE venue.exec = 0
  BY <1>2 DEF BareLast
<1>3. CASE venue.exec # 0 /\ venue.style # "report"
  <2>1. /\ \A k \in 1..Len(stream) : ~ Bare(stream[k])
        /\ \A k \in 1..Len(queue) : ~ Bare(queue[k])
    BY <1>1, <1>3 DEF BareLast
  <2>2. \A k \in DOMAIN stream' : ~ Bare(stream'[k])
    <3> SUFFICES ASSUME NEW k \in 1..Len(stream') PROVE ~ Bare(stream'[k])
      BY <1>1
    <3>1. k \in 1..Len(stream) /\ k + 1 \in 1..Len(stream)
      BY <1>1
    <3>2. stream'[k] = stream[k] \/ stream'[k] = stream[k + 1]
      BY <1>1
    <3> QED BY <2>1, <3>1, <3>2
  <2>3. \A k \in DOMAIN queue' : ~ Bare(queue'[k])
    <3>1. CASE queue' = queue
      BY <1>1, <2>1, <3>1
    <3>2. CASE queue' = Append(queue, stream[i])
      BY <1>0, <1>1, <2>1, <3>2
    <3> QED BY <3>1, <3>2
  <2> QED BY <2>2, <2>3 DEF BareLast, Bare
<1>4. CASE venue.exec # 0 /\ venue.style = "report"
  <2>1. i = 1 /\ queue' = Append(queue, stream[1])
    BY <1>4, OldestFirst
  <2>2. \A k \in 1..Len(stream') : stream'[k] = stream[k + 1] /\ k + 1 \in 1..Len(stream)
    BY <1>1, <2>1
  <2>3. /\ DOMAIN queue' = 1..(Len(queue) + 1) /\ queue'[Len(queue) + 1] = stream[1]
        /\ \A j \in 1..Len(queue) : queue'[j] = queue[j]
    BY <1>0, <2>1
  <2>4. \A k \in DOMAIN stream' : Bare(stream'[k]) => k = Len(stream')
    <3> SUFFICES ASSUME NEW k \in 1..Len(stream'), Bare(stream'[k]) PROVE k = Len(stream')
      BY <1>1
    <3>1. Bare(stream[k + 1]) /\ k + 1 \in 1..Len(stream)
      BY <2>2
    <3>2. k + 1 = Len(stream)
      BY <1>1, <1>4, <3>1 DEF BareLast
    <3> QED BY <1>1, <3>2
  <2>5. ASSUME NEW k \in DOMAIN queue', Bare(queue'[k])
        PROVE  NoFill(stream)' /\ \A j \in DOMAIN queue' : j > k => queue'[j].kind # "fill"
    <3>1. CASE k = Len(queue) + 1
      <4>1. Bare(stream[1]) /\ 1 \in DOMAIN stream
        BY <1>1, <2>1, <2>3, <2>5, <3>1
      <4>2. Len(stream) = 1
        BY <1>4, <4>1 DEF BareLast
      <4>3. DOMAIN stream' = {}
        BY <1>1, <4>2
      <4>4. \A j \in DOMAIN queue' : ~ (j > k)
        BY <1>1, <2>3, <3>1
      <4> QED BY <4>3, <4>4 DEF NoFill
    <3>2. CASE k \in 1..Len(queue)
      <4>1. Bare(queue[k])
        BY <2>3, <2>5, <3>2
      <4>2. NoFill(stream) /\ \A j \in 1..Len(queue) : j > k => queue[j].kind # "fill"
        BY <1>1, <1>4, <3>2, <4>1 DEF BareLast
      <4>3. NoFill(stream)'
        BY <1>1, <2>2, <4>2 DEF NoFill
      <4>4. stream[1].kind # "fill"
        BY <1>1, <2>1, <4>2 DEF NoFill
      <4>5. \A j \in DOMAIN queue' : j \in 1..Len(queue) \/ j = Len(queue) + 1
        BY <1>1, <2>3
      <4> QED BY <2>3, <4>2, <4>3, <4>4, <4>5
    <3> QED BY <1>1, <2>3, <3>1, <3>2
  <2> QED BY <1>4, <2>4, <2>5 DEF BareLast, Bare
<1> QED BY <1>2, <1>3, <1>4

LEMMA StreamStill ==
  ASSUME PathInv, PathInv', RetryOK, Deliver \/ Lose
  PROVE  /\ Still /\ RetryOK'
         /\ "report" \notin LossyStyles => (BareLast => BareLast')
<1>0. VenueOK /\ spent \in [faults : Seq(FaultKind), losses : Nat, cancels : Nat]
      /\ VenueOK'
  BY ThePath DEF SpentOK, PathInv
<1>1. UNCHANGED <<row, log, reports, venue, wire, task>>
  BY DEF Deliver, Lose, db
<1>2. MovesOn
  BY <1>0, <1>1 DEF MovesOn, Over, VenueOK
<1>3. spent'.cancels >= spent.cancels
  <2>1. spent' = spent \/ spent' = [spent EXCEPT !.losses = @ + 1]
    BY DEF Deliver, Lose
  <2> QED BY <1>0, <2>1
<1>4. Carried
  BY <1>1, <1>3 DEF Carried
<1>5. PICK i \in Deliverable :
        /\ stream' = Without(stream, i)
        /\ \/ queue' = queue /\ venue.style \in LossyStyles
           \/ queue' = Append(queue, stream[i])
  BY DEF Deliver, Lose, Exec
<1>6. /\ i \in 1..Len(stream) /\ Dropped(stream, i, stream') /\ stream[i] \in Message
      /\ FillSum(stream') = FillSum(stream) - FillQty(stream[i])
      /\ queue' = Append(queue, stream[i]) => FillSum(queue') = FillSum(queue) + FillQty(stream[i])
  BY <1>0, <1>2, <1>5, StreamShrinks
<1>7. FillSum(queue) \in Nat /\ FillSum(stream) \in Nat /\ FillQty(stream[i]) \in Nat
  BY <1>6, CountedType DEF FillQty, Message
<1>8. Still /\ RetryOK'
  <2>1. CASE queue' = queue /\ venue.style \in LossyStyles
    <3>1. FillSum(queue') + FillSum(stream') <= FillSum(queue) + FillSum(stream)
      BY <1>6, <1>7, <2>1
    <3> QED BY <1>4, <2>1, <3>1, CarriedStill
  <2>2. CASE queue' = Append(queue, stream[i])
    <3>1. FillSum(queue') + FillSum(stream') = FillSum(queue) + FillSum(stream)
      BY <1>6, <1>7, <2>2
    <3> QED BY <1>4, <3>1, CarriedStill
  <2> QED BY <1>5, <2>1, <2>2
<1>9. ASSUME "report" \notin LossyStyles, BareLast
      PROVE  BareLast'
  <2>1. (queue' = queue /\ venue.style # "report") \/ queue' = Append(queue, stream[i])
    BY <1>5, <1>9
  <2> QED BY <1>1, <1>5, <1>6, <1>9, <2>1, DeliverBare
<1> QED BY <1>8, <1>9


-----------------------------------------------------------------------------
(* Trades at the venue and crashes                                         *)

LEMMA VenueFillsCounts ==
  ASSUME PathInv, PathInv', CountInv, VenueFills
  PROVE  CountInv' /\ (ExactInv => ExactInv')
<1>0. /\ VenueOK /\ ReportsOK /\ OnceWhileOpen /\ ClosedOver /\ venue.exec \in 0..Qty /\ Qty \in Nat
      /\ stream \in Seq(Message) /\ row.cum_qty \in Nat
  BY ThePath, PathAssumption DEF VenueOK, FlightOK
<1>1. PICK q \in Nat \ {0} : \E m :
           /\ venue.status = "open" /\ VenueOK' /\ venue'.style = venue.style
           /\ venue'.exec = venue.exec + q
           /\ venue'.status = IF venue'.exec = Qty THEN "filled" ELSE "open"
           /\ stream' = Append(stream, m) /\ MessageOK(m)' /\ m.kind \in {"fill", "terminal", "cumulative"}
           /\ m.kind = "fill" => m.qty = q
           /\ m.kind = "fill" <=> venue.style \in {"report", "mixed"}
  BY VenueFillsIs
<1>2. PICK m :
           /\ venue.status = "open" /\ venue'.style = venue.style /\ venue'.exec = venue.exec + q
           /\ stream' = Append(stream, m) /\ MessageOK(m)' /\ m.kind \in {"fill", "terminal", "cumulative"}
           /\ m.kind = "fill" => m.qty = q
           /\ m.kind = "fill" <=> venue.style \in {"report", "mixed"}
  BY <1>1
<1>3. UNCHANGED <<row, log, reports, queue, task, spent>>
  BY DEF VenueFills, db
<1>4. m \in Message /\ FillQty(m) \in Nat /\ FillQty(m) <= q
      /\ (venue.style = "report" => FillQty(m) = q)
  BY <1>2 DEF MessageOK, FillQty
<1>5. FillSum(stream') = FillSum(stream) + FillQty(m)
  BY <1>0, <1>2, <1>4, FillSumAppend
<1>6. /\ Reported \in Nat /\ FillSum(queue) \in Nat /\ FillSum(stream) \in Nat /\ Counted \in Nat
      /\ Counted = row.cum_qty + Reported + (FillSum(queue) + FillSum(stream))
  BY CountedType DEF Counted
<1>7. Counted' = row'.cum_qty + Reported' + (FillSum(queue') + FillSum(stream')) /\ Reported' = Reported
  BY <1>3, PathInvNext DEF Reported
<1>8. Counted' = Counted + FillQty(m)
  BY <1>0, <1>3, <1>4, <1>5, <1>6, <1>7, SMTT(30)
<1>9. Counted <= venue.exec /\ venue.exec # Qty
  BY <1>0, <1>2 DEF OnceWhileOpen, Counted, ClosedAtVenue, VenueOK
<1>10. row.cum_qty + Reported <= venue.exec /\ row.cum_qty <= venue.exec
       /\ row.cum_qty + Reported # Qty
  BY <1>0, <1>6, <1>9, SMTT(30)
<1>11. ~ Closes(reports)
  <2>1. ~ Over /\ reports \in Seq(Report)
    BY <1>0, <1>2 DEF Over, ReportsOK
  <2>2. reports # <<>> => Len(reports) \in DOMAIN reports
    BY <2>1
  <2> QED BY <1>0, <2>1, <2>2 DEF Closes, ReportsOK
<1>12. ~ Ends'
  BY <1>3, <1>10, <1>11 DEF Ends, Closes, IsClose, Reported
<1>13. CountOK' /\ NeverOver'
  <2>1. row'.cum_qty + Reported' <= venue'.exec /\ row'.cum_qty <= venue'.exec /\ Counted' <= venue'.exec
    <3>1. row' = row /\ Reported' = Reported /\ venue'.exec = venue.exec + q /\ venue.exec \in Nat
      BY <1>0, <1>2, <1>3, <1>7
    <3>2. Counted' <= venue.exec + q
      BY <1>4, <1>6, <1>8, <1>9, <3>1
    <3>3. row.cum_qty + Reported <= venue.exec + q /\ row.cum_qty <= venue.exec + q
      BY <1>0, <1>6, <1>10, <3>1, SMTT(30)
    <3> QED BY <3>1, <3>2, <3>3
  <2> QED BY <2>1 DEF CountOK, NeverOver
<1>14. RetryOK'
  BY <1>3, EngineStays DEF CountInv
<1>15. ASSUME ExactInv PROVE ExactInv'
  <2>1. BareLast'
    <3>1. \A i \in DOMAIN queue' : ~ Bare(queue'[i])
      BY <1>2, <1>3, NoBareYet
    <3>2. /\ DOMAIN stream' = 1..(Len(stream) + 1) /\ DOMAIN stream = 1..Len(stream) /\ Len(stream) \in Nat
          /\ stream'[Len(stream) + 1] = m /\ \A j \in 1..Len(stream) : stream'[j] = stream[j]
      BY <1>0, <1>2
    <3>3. ~ Bare(m)
      BY <1>2 DEF Bare
    <3>4. \A i \in DOMAIN stream' : ~ Bare(stream'[i])
      BY <1>2, <3>2, <3>3, NoBareYet
    <3> QED BY <3>1, <3>4 DEF BareLast, Bare
  <2>2. ExactOK'
    <3>1. ASSUME Alive, venue.style = "report" PROVE Counted' = venue'.exec
      <4>1. ~ Ends
        BY <1>10, <1>11 DEF Ends
      <4>2. Counted = venue.exec
        BY <1>15, <3>1, <4>1 DEF ExactInv, ExactOK
      <4> QED BY <1>0, <1>2, <1>4, <1>8, <3>1, <4>2
    <3>2. Alive' => Alive
      BY <1>3 DEF Alive, NoDbError
    <3> QED BY <1>2, <1>12, <3>1, <3>2 DEF ExactOK
  <2>3. AllBooked'
    BY <1>0, <1>2, <1>3 DEF AllBooked, ClosedOver, Over
  <2> QED BY <2>1, <2>2, <2>3 DEF ExactInv
<1> QED BY <1>13, <1>14, <1>15 DEF CountInv

LEMMA EmptyParts ==
  ASSUME PathInv, stream \o queue \o reports = <<>>
  PROVE  stream = <<>> /\ queue = <<>> /\ reports = <<>>
<1>1. stream \in Seq(Message) /\ queue \in Seq(Message) /\ reports \in Seq(Report)
  BY ThePath DEF FlightOK, ReportsOK
<1> DEFINE S == Message \cup Report
<1>2. stream \in Seq(S) /\ queue \in Seq(S) /\ reports \in Seq(S)
  BY <1>1
<1> DEFINE c == stream \o queue
<1>3. c \in Seq(S) /\ Len(c) = Len(stream) + Len(queue) /\ Len(stream) \in Nat /\ Len(queue) \in Nat
      /\ Len(reports) \in Nat
  BY <1>2
<1> HIDE DEF c
<1>4. Len(c \o reports) = Len(c) + Len(reports) /\ Len(c) \in Nat
  BY <1>2, <1>3
<1>5. Len(c \o reports) = 0
  BY DEF c
<1>6. Len(stream) = 0 /\ Len(queue) = 0 /\ Len(reports) = 0
  BY <1>3, <1>4, <1>5
<1> QED BY <1>1, <1>6

LEMMA CrashCounts ==
  ASSUME PathInv, PathInv', CountInv, NoDbError' => NoDbError, Crash
  PROVE  /\ CountInv'
         /\ "report" \notin LossyStyles => (ExactInv => ExactInv')
<1>0. SnapOK /\ row.cum_qty \in Nat /\ spent \in [faults : Seq(FaultKind), losses : Nat, cancels : Nat]
  BY ThePath DEF SpentOK
<1>1. /\ queue' = <<>> /\ reports' = <<>> /\ stream' = <<>> /\ UNCHANGED <<row, log, venue>>
      /\ Fault("crash") /\ (venue.style \in LossyStyles \/ stream \o queue \o reports = <<>>)
  BY DEF Crash, db
<1>2. task'["engine"] = Idle
  BY <1>0 DEF Crash, SnapOK, Tasks
<1>3. RetryOK'
  BY <1>2, EngineAway DEF Idle
<1>4. FillSum(queue') = 0 /\ FillSum(stream') = 0 /\ Reported' = 0
  BY <1>1, EmptyFlight DEF Reported
<1>5. Counted' = row'.cum_qty
  <2>1. Counted' = row'.cum_qty + Reported' + (FillSum(queue') + FillSum(stream')) /\ row'.cum_qty \in Nat
    BY PathInvNext
  <2> QED BY <1>4, <2>1
<1>6. ~ Ends'
  BY <1>1 DEF Ends, Closes
<1>7. NeverOver'
  BY <1>1 DEF CountInv, NeverOver
<1>8. CountOK'
  <2>1. row'.cum_qty + Reported' = row'.cum_qty
    BY <1>0, <1>1, <1>4
  <2> QED BY <1>5, <1>7, <2>1 DEF CountOK, NeverOver, Alive
<1>9. spent'.cancels = spent.cancels
  BY <1>0, <1>1 DEF Fault
<1>10. ASSUME "report" \notin LossyStyles, ExactInv
       PROVE  ExactInv'
  <2>1. BareLast'
    BY <1>1 DEF BareLast
  <2>2. AllBooked'
    BY <1>1, <1>9, <1>10 DEF AllBooked, ExactInv
  <2>3. ASSUME Alive', venue.style = "report" PROVE Counted' = venue'.exec
    <3>1. stream = <<>> /\ queue = <<>> /\ reports = <<>>
      BY <1>1, <1>10, <2>3, EmptyParts
    <3>2. ~ Ends /\ Reported = 0 /\ FillSum(queue) = 0 /\ FillSum(stream) = 0
      BY <3>1, EmptyFlight DEF Ends, Closes, Reported
    <3>3. Counted = row.cum_qty
      BY <1>0, <3>2 DEF Counted, InFlight
    <3>4. Alive
      BY <1>1, <2>3 DEF Alive
    <3>5. Counted = venue.exec
      BY <1>10, <2>3, <3>2, <3>4 DEF ExactInv, ExactOK
    <3> QED BY <1>1, <1>5, <3>3, <3>5
  <2>4. ExactOK'
    BY <1>1, <1>6, <2>3 DEF ExactOK
  <2> QED BY <2>1, <2>2, <2>4 DEF ExactInv
<1> QED BY <1>3, <1>7, <1>8, <1>10 DEF CountInv


-----------------------------------------------------------------------------
(* The engine takes an event                                               *)

\* The oldest message leaves the queue.
LEMMA TakenBare ==
  ASSUME PathInv, BareLast, UNCHANGED <<venue, stream>>, queue # <<>>, queue' = Tail(queue)
  PROVE  BareLast'
<1>0. queue \in Seq(Message)
  BY ThePath DEF FlightOK
<1>1. /\ queue' \in Seq(Message) /\ Len(queue') = Len(queue) - 1 /\ Len(queue) \in Nat
      /\ \A k \in 1..Len(queue') : queue'[k] = queue[k + 1] /\ k + 1 \in 1..Len(queue)
      /\ DOMAIN queue' = 1..Len(queue') /\ DOMAIN queue = 1..Len(queue)
  BY <1>0, TailDropped DEF Dropped
<1>2. ASSUME NEW k \in DOMAIN queue', Bare(queue'[k])
      PROVE  \/ venue.exec = 0
             \/ /\ venue.style = "report" /\ NoFill(stream)
                /\ \A j \in DOMAIN queue' : j > k => queue'[j].kind # "fill"
  <2>1. Bare(queue[k + 1]) /\ k + 1 \in DOMAIN queue /\ k \in Nat
    BY <1>1, <1>2
  <2>2. \/ venue.exec = 0
        \/ /\ venue.style = "report" /\ NoFill(stream)
           /\ \A j \in DOMAIN queue : j > k + 1 => queue[j].kind # "fill"
    BY <2>1 DEF BareLast
  <2>3. ASSUME NEW j \in DOMAIN queue', j > k, \A i \in DOMAIN queue : i > k + 1 => queue[i].kind # "fill"
        PROVE  queue'[j].kind # "fill"
    <3>1. j \in 1..Len(queue') /\ j + 1 \in DOMAIN queue /\ j + 1 > k + 1
      BY <1>1, <2>1, <2>3
    <3> QED BY <1>1, <2>3, <3>1
  <2> QED BY <2>2, <2>3
<1> QED BY <1>2 DEF BareLast, Bare, NoFill

LEMMA AckCounts ==
  ASSUME PathInv, PathInv', CountInv, NoDbError' => NoDbError, EngineTake,
         Head(queue).kind = "ack"
  PROVE  /\ CountInv'
         /\ "report" \notin LossyStyles => (ExactInv => ExactInv')
<1>0. SnapOK /\ RowOK /\ VenueOK /\ VenueOK' /\ venue.exec \in Nat
  BY ThePath DEF PathInv
<1>1. /\ queue # <<>> /\ queue' = Tail(queue) /\ Goto("engine", "route")
      /\ UNCHANGED <<row, log, venue, wire, stream, reports, spent>>
  BY DEF EngineTake, db, outside
<1>2. task'["engine"].pc = "route" /\ task'["submit"] = task["submit"]
  BY <1>0, <1>1 DEF Goto, SnapOK, Tasks, TaskState
<1>3. RetryOK'
  BY <1>2, EngineAway
<1>4. MovesOn
  BY <1>0, <1>1, <1>2 DEF MovesOn, Over
<1>5. FillSum(queue') = FillSum(queue) - FillQty(Head(queue))
  BY <1>0, <1>1, <1>4, TakenFlight
<1>6. FillSum(queue') = FillSum(queue)
  BY <1>5, CountedType DEF FillQty
<1>7. Still
  <2>1. Counted' = Counted
    <3>1. /\ Counted = row.cum_qty + Reported + (FillSum(queue) + FillSum(stream))
          /\ Counted' = row'.cum_qty + Reported' + (FillSum(queue') + FillSum(stream'))
      BY CountedType, PathInvNext DEF Counted
    <3>2. Reported' = Reported
      BY <1>1 DEF Reported
    <3> QED BY <1>1, <1>6, <3>1, <3>2
  <2> QED BY <1>1, <2>1, SpentGrows DEF Still
<1>8. CountOK' /\ NeverOver'
  BY <1>7, StillCount DEF CountInv
<1>9. ASSUME "report" \notin LossyStyles, ExactInv PROVE ExactInv'
  <2>1. ExactOK' /\ AllBooked'
    BY <1>7, <1>9, StillExact DEF ExactInv
  <2>2. BareLast'
    BY <1>1, <1>9, TakenBare DEF ExactInv
  <2> QED BY <2>1, <2>2 DEF ExactInv
<1> QED BY <1>3, <1>8, <1>9 DEF CountInv

(* A fill moves from the queue to the reports; a state adds what is missing *)
(* to what the venue executed; a bare close leaves nothing behind.          *)
LEMMA TakeCounts ==
  ASSUME PathInv, PathInv', CountInv, NoDbError' => NoDbError, EngineTake,
         Head(queue).kind # "ack"
  PROVE  /\ CountInv'
         /\ ExactInv => ExactInv'
<1>0. /\ SnapOK /\ RowOK /\ VenueOK /\ WireOK /\ ReportsOK /\ VenueOK' /\ queue \in Seq(Message)
      /\ row.cum_qty \in Nat /\ venue.exec \in 0..Qty /\ venue.exec \in Nat /\ Qty \in Nat \ {0}
      /\ stream \in Seq(Message)
  BY ThePath, PathAssumption DEF PathInv, FlightOK, VenueOK
<1>1. /\ task["engine"].pc = "idle" /\ queue # <<>> /\ queue' = Tail(queue)
      /\ UNCHANGED <<row, log, venue, wire, stream, spent>>
      /\ reports' = ReportsFor(Head(queue), row.cum_qty)
      /\ \E pc \in {"idle", "apply"} : Goto("engine", pc)
  BY DEF EngineTake, db, outside, At
<1>2. PICK m : m = Head(queue)
  OBVIOUS
<1>3. /\ task'["engine"].pc \in {"idle", "apply"} /\ task'["engine"].tries = task["engine"].tries
      /\ task'["submit"] = task["submit"]
  BY <1>0, <1>1 DEF Goto, SnapOK, Tasks, TaskState
<1>4. RetryOK'
  <2>1. task["engine"].tries = 0
    BY <1>1 DEF CountInv, RetryOK
  <2> QED BY <1>3, <2>1 DEF RetryOK
<1>5. MovesOn /\ (Over => Over')
  BY <1>0, <1>1, <1>3 DEF MovesOn, Over
<1>6. MessageOK(m) /\ m \in Message /\ FillSum(queue') = FillSum(queue) - FillQty(m)
  BY <1>0, <1>1, <1>2, <1>5, TakenFlight
<1>7. /\ Reported' = Missing(m, row.cum_qty) /\ (Closes(reports') <=> IsFinal(m))
  <2>1. ReportsOK'
    BY DEF PathInv
  <2> QED BY <1>1, <1>2, <1>5, <1>6, <2>1, TakenReports DEF ReportsOK
<1>8. reports = <<>> /\ Reported = 0 /\ ~ Ends
  BY <1>0, <1>1 DEF ReportsOK, Reported, Ends, Closes
<1>9. PICK fq : fq = FillSum(queue)
  OBVIOUS
<1>10. PICK fs : fs = FillSum(stream)
  OBVIOUS
<1>11. /\ fq \in Nat /\ fs \in Nat /\ InFlight = fq + fs /\ FillSum(queue') \in Nat
       /\ Counted = row.cum_qty + (fq + fs)
       /\ Counted' = row.cum_qty + Reported' + ((fq - FillQty(m)) + fs)
       /\ Reported' \in Nat
  <2>1. Counted = row.cum_qty + Reported + (fq + fs) /\ fq \in Nat /\ fs \in Nat /\ InFlight = fq + fs
    BY <1>9, <1>10, CountedType DEF Counted
  <2>2. Counted' = row'.cum_qty + Reported' + (FillSum(queue') + FillSum(stream')) /\ Reported' \in Nat
        /\ FillSum(queue') \in Nat
    BY PathInvNext
  <2> QED BY <1>0, <1>1, <1>6, <1>8, <1>9, <1>10, <2>1, <2>2
<1>12. NeverOver'
  BY <1>1 DEF CountInv, NeverOver
<1>13. m.qty \in 0..Qty /\ m.qty \in Nat
       /\ m.kind \in {"fill", "cumulative", "terminal", "canceled", "rejected"}
  BY <1>0, <1>2, <1>6 DEF Message
<1>14. ASSUME Alive
       PROVE  /\ row.cum_qty + Reported' <= venue.exec
              /\ Ends' \/ Counted' <= venue.exec
              /\ Ends' => row.cum_qty + Reported' = venue.exec \/ Bare(m)
              /\ ~ Ends' /\ venue.style = "report" => Counted' = Counted
  <2>1. Counted <= venue.exec /\ row.cum_qty <= venue.exec
    BY <1>0, <1>8, <1>14 DEF CountInv, CountOK
  <2>2. Ends' <=> Closes(reports') \/ (reports' # <<>> /\ row.cum_qty + Reported' = Qty)
    BY <1>1 DEF Ends, Closes, IsClose
  <2>3. CASE m.kind = "fill"
    <3>1. Reported' = m.qty /\ FillQty(m) = m.qty /\ ~ Closes(reports')
      BY <1>7, <2>3 DEF Missing, FillQty, IsFinal, Bare
    <3>2. Counted' = Counted
      BY <1>0, <1>11, <1>13, <3>1
    <3>3. fq - m.qty \in Nat
      BY <1>6, <1>9, <1>11, <3>1
    <3>4. row.cum_qty + Reported' <= venue.exec
      <4>1. /\ row.cum_qty + (fq + fs) <= venue.exec /\ fq \in Nat /\ fs \in Nat /\ fq - m.qty \in Nat
            /\ m.qty \in Nat /\ row.cum_qty \in Nat /\ venue.exec \in Nat
        BY <1>0, <1>11, <1>13, <2>1, <3>3
      <4>2. row.cum_qty + m.qty <= venue.exec
        BY <4>1
      <4> QED BY <3>1, <4>2
    <3>5. row.cum_qty + Reported' = Qty => row.cum_qty + Reported' = venue.exec
      BY <1>0, <1>11, <3>4
    <3> QED BY <2>1, <2>2, <3>1, <3>2, <3>4, <3>5
  <2>4. CASE m.kind = "cumulative"
    <3>1. venue.style \in {"state", "blind"} /\ m.qty <= venue.exec
      BY <1>6, <2>4 DEF MessageOK
    <3>2. InFlight = 0
      BY <3>1, NoFillsOfStates
    <3>3. fq = 0 /\ fs = 0 /\ FillQty(m) = 0
      BY <1>11, <2>4, <3>2 DEF FillQty
    <3>4. /\ Reported' = IF m.qty > row.cum_qty THEN m.qty - row.cum_qty ELSE 0
          /\ ~ Closes(reports')
      BY <1>7, <2>4 DEF Missing, IsFinal, Bare
    <3>5. Counted' = row.cum_qty + Reported'
      BY <1>0, <1>11, <3>3
    <3>6. row.cum_qty + Reported' <= venue.exec
      BY <1>0, <1>13, <2>1, <3>1, <3>4
    <3>7. row.cum_qty + Reported' = Qty => row.cum_qty + Reported' = venue.exec
      BY <1>0, <1>11, <3>6
    <3> QED BY <2>2, <3>1, <3>4, <3>5, <3>6, <3>7
  <2>5. CASE m.kind = "terminal"
    <3>1. venue.status \in ClosedAtVenue /\ m.qty = venue.exec /\ m.outcome = venue.status
      BY <1>6, <2>5 DEF MessageOK
    <3>2. Reported' = IF m.qty > row.cum_qty THEN m.qty - row.cum_qty ELSE 0
      BY <1>7, <2>5 DEF Missing
    <3>3. row.cum_qty + Reported' = venue.exec
      BY <1>0, <1>13, <2>1, <3>1, <3>2
    <3>4. Ends'
      <4>1. CASE venue.status \in {"canceled", "rejected"}
        BY <1>7, <2>2, <2>5, <3>1, <4>1 DEF IsFinal
      <4>2. CASE venue.status = "filled"
        <5>1. venue.exec = Qty
          BY <1>0, <4>2 DEF VenueOK
        <5>2. row.status \in LiveStatus
          <6>1. row.status # "none"
            BY <1>0, <3>1 DEF WireOK, ClosedAtVenue, At
          <6>2. row.status \in OrderStatus \cup {"none"}
            BY <1>0 DEF RowOK, GoodState, OrderState
          <6> QED BY <1>14, <6>1, <6>2 DEF Alive, OrderStatus
        <5>3. row.cum_qty < Qty
          BY <1>0, <5>2 DEF RowOK
        <5>4. Reported' # 0
          BY <1>0, <1>11, <3>3, <5>1, <5>3
        <5>5. reports' # <<>>
          BY <5>4 DEF Reported
        <5> QED BY <2>2, <3>3, <5>1, <5>5
      <4> QED BY <3>1, <4>1, <4>2 DEF ClosedAtVenue
    <3> QED BY <1>0, <3>3, <3>4
  <2>6. CASE Bare(m)
    <3>1. Reported' = 0 /\ Closes(reports')
      BY <1>7, <2>6 DEF Missing, IsFinal, Bare
    <3> QED BY <1>0, <2>1, <2>2, <2>6, <3>1
  <2> QED BY <1>13, <2>3, <2>4, <2>5, <2>6 DEF Bare
<1>15. Alive' => Alive
  BY <1>1 DEF Alive
<1>16. CountOK'
  BY <1>1, <1>14, <1>15 DEF CountOK
<1>17. ASSUME ExactInv PROVE ExactInv'
  <2>1. BareLast'
    BY <1>1, <1>17, TakenBare DEF ExactInv
  <2>2. AllBooked'
    BY <1>1, <1>17 DEF ExactInv, AllBooked, NoDbError
  <2>3. ASSUME Alive, Bare(m) PROVE row.cum_qty + Reported' = venue.exec
    <3>1. Reported' = 0
      BY <1>7, <2>3 DEF Missing, Bare
    <3>2. row.cum_qty + Reported' <= venue.exec
      BY <1>14, <2>3
    <3>3. CASE venue.exec = 0
      BY <1>0, <3>1, <3>2, <3>3
    <3>4. CASE venue.exec # 0
      <4>1. 1 \in DOMAIN queue /\ m = queue[1] /\ \A j \in DOMAIN queue : j \in Nat /\ (j = 1 \/ j > 1)
        BY <1>0, <1>1, <1>2
      <4>2. /\ venue.style = "report" /\ NoFill(stream)
            /\ \A j \in DOMAIN queue : j > 1 => queue[j].kind # "fill"
        BY <1>17, <2>3, <3>4, <4>1 DEF ExactInv, BareLast
      <4>3. \A j \in DOMAIN queue : queue[j].kind # "fill"
        BY <2>3, <4>1, <4>2 DEF Bare
      <4>4. fq = 0 /\ fs = 0
        BY <1>0, <1>9, <1>10, <4>2, <4>3, FillSumNone DEF NoFill
      <4>5. Counted = venue.exec
        BY <1>8, <1>17, <2>3, <4>2 DEF ExactInv, ExactOK
      <4> QED BY <1>0, <1>11, <3>1, <4>4, <4>5
    <3> QED BY <3>3, <3>4
  <2>4. ExactOK'
    <3>1. ASSUME Alive, ~ Ends', venue.style = "report" PROVE Counted' = venue.exec
      BY <1>8, <1>14, <1>17, <3>1 DEF ExactInv, ExactOK
    <3> QED BY <1>1, <1>14, <1>15, <2>3, <3>1 DEF ExactOK
  <2> QED BY <2>1, <2>2, <2>4 DEF ExactInv
<1> QED BY <1>4, <1>12, <1>16, <1>17 DEF CountInv


-----------------------------------------------------------------------------
(* The engine books or skips a report                                      *)

(* What the venue reports of a live order the aggregate accepts.           *)
LEMMA CanBook ==
  ASSUME PathInv, CountOK, Alive, Busy
  PROVE  Decide(row, Head(reports)) # {} /\ row.status # "none"
<1>0. /\ WireOK /\ ReportsOK /\ RowOK /\ row.cum_qty \in Nat /\ venue.exec \in 0..Qty /\ Qty \in Nat
      /\ row.status \in OrderStatus \cup {"none"}
  BY ThePath, PathAssumption DEF VenueOK, OrderState
<1>1. reports # <<>> /\ reports \in Seq(Report)
  BY <1>0 DEF ReportsOK, Busy
<1>2. 1 \in DOMAIN reports /\ Head(reports) = reports[1] /\ reports[1] \in Report
  BY <1>1
<1>3. row.status # "none"
  BY <1>0, <1>1, NothingReported DEF WireOK, At
<1>4. row.status \in {"submitted", "routed", "partially_filled"} /\ row.original_qty = Qty
  BY <1>0, <1>3 DEF Alive, RowOK, OrderStatus, LiveStatus
<1>5. Allowed(row.status, "receive_execution_report")
  BY <1>4 DEF Allowed, AllowedKinds
<1>6. PICK r : r = reports[1]
  OBVIOUS
<1>7. CASE r.type = "fill"
  <2>1. r.qty > 0 /\ Reported = r.qty /\ r.qty \in Nat
    BY <1>0, <1>1, <1>2, <1>6, <1>7 DEF ReportsOK, Reported, Report
  <2>2. row.cum_qty + r.qty <= venue.exec
    BY <2>1 DEF CountOK, Alive
  <2>3. row.cum_qty + r.qty <= row.original_qty
    BY <1>0, <1>4, <2>1, <2>2
  <2>4. DecideFill(row, r.qty, 1) # {}
    <3>1. \A accepted, e : accepted => Emit(accepted, e) # {}
      BY DEF Emit
    <3>2. 1 > 0
      OBVIOUS
    <3> QED BY <1>5, <2>1, <2>3, <3>1, <3>2, Zenon DEF DecideFill
  <2> QED BY <1>2, <1>3, <1>6, <1>7, <2>4 DEF Decide
<1>8. CASE r.type # "fill"
  <2>1. DecideCanceled(row) # {} /\ DecideReject(row) # {}
    BY <1>5 DEF DecideCanceled, DecideReject, Emit
  <2> QED BY <1>2, <1>3, <1>6, <1>8, <2>1 DEF Decide
<1> QED BY <1>7, <1>8

LEMMA QueueAlone ==
  ASSUME BareLast, UNCHANGED <<venue, stream, queue>>
  PROVE  BareLast'
BY DEF BareLast, Bare, NoFill

\* A report is dropped: only when the order is closed or a database error is on
\* the books.
LEMMA SkipCounts ==
  ASSUME PathInv, CountInv, NoDbError' => NoDbError, NextReport, Busy,
         UNCHANGED <<row, log, venue, wire, queue, stream, recon>>, ~ Alive',
         UNCHANGED spent
  PROVE  CountInv' /\ (ExactInv => ExactInv')
<1>1. task'["engine"].pc \in {"idle", "apply"} /\ task'["engine"].tries = 0
  BY ReportDone
<1>2. RetryOK'
  BY <1>1 DEF RetryOK
<1>3. CountOK' /\ NeverOver'
  BY DEF CountInv, NeverOver, CountOK
<1>4. ASSUME ExactInv PROVE ExactInv'
  <2>1. BareLast'
    BY <1>4, QueueAlone DEF ExactInv
  <2>2. ExactOK'
    BY DEF ExactOK
  <2>3. AllBooked'
    BY <1>4 DEF ExactInv, AllBooked
  <2> QED BY <2>1, <2>2, <2>3 DEF ExactInv
<1> QED BY <1>2, <1>3, <1>4 DEF CountInv

LEMMA ApplyReadCounts ==
  ASSUME PathInv, PathInv', CountInv, NoDbError' => NoDbError, ApplyRead
  PROVE  /\ CountInv'
         /\ "report" \notin LossyStyles => (ExactInv => ExactInv')
<1>0. SnapOK /\ RowOK /\ row \in OrderState /\ "engine" \in Tasks /\ "apply_write" \in Places
  BY ThePath DEF Tasks, Places
<1>1. /\ task["engine"].pc = "apply" /\ Busy
      /\ UNCHANGED <<row, log, venue, wire, queue, stream, recon, spent>>
  BY DEF ApplyRead, At, Busy, db, outside
<1>2. Alive' => Alive
  BY <1>1 DEF Alive
<1>3. CASE NextReport /\ (row.status \in TerminalStatus \cup {"none"} \/ Decide(row, Head(reports)) = {})
  <2>1. ~ Alive'
    BY <1>1, <1>2, <1>3, CanBook DEF CountInv, Alive
  <2> QED BY <1>1, <1>3, <2>1, SkipCounts
<1>4. CASE Read("engine", "apply_write") /\ UNCHANGED reports
  <2>1. Moved("engine", "apply_write", row, task["engine"].tries)
    BY <1>0, <1>4, ReadMoves
  <2>2. Silent
    BY <1>1, <1>4 DEF Silent
  <2>3. Still /\ (BareLast => BareLast')
    BY <1>1, <2>2, SilentStill, SpentGrows
  <2>4. RetryOK'
    BY <1>0, <1>1, <2>1 DEF RetryOK, CountInv, Moved, RowOK
  <2> QED BY <2>3, <2>4, StillCount, StillExact DEF CountInv, ExactInv
<1> QED BY <1>3, <1>4 DEF ApplyRead

LEMMA ApplyConflictCounts ==
  ASSUME MaxAttempts >= 2, PathInv, PathInv', CountInv, NoDbError' => NoDbError, ApplyConflict
  PROVE  /\ CountInv'
         /\ "report" \notin LossyStyles => (ExactInv => ExactInv')
<1>0. SnapOK /\ RowOK /\ row \in OrderState /\ "engine" \in Tasks /\ "apply" \in Places
      /\ task["engine"].tries \in Nat
  BY ThePath DEF Tasks, Places, SnapOK, TaskState
<1>1. /\ task["engine"].pc = "apply_write" /\ Busy /\ task["engine"].snap.version # Len(log)
      /\ UNCHANGED <<row, log, venue, wire, queue, stream, recon, spent>>
  BY DEF ApplyConflict, At, Busy, db, outside, VersionHolds
<1>2. Alive' => Alive
  BY <1>1 DEF Alive
<1>3. row.status \notin TerminalStatus =>
        ~ task["engine"].tries > 0 /\ row.status # "submitted"
  BY <1>1 DEF CountInv, RetryOK
<1>4. CASE NextReport /\ task["engine"].tries + 1 = MaxAttempts
  <2>1. task["engine"].tries > 0
    BY <1>0, <1>4, PathAssumption
  <2>2. ~ Alive'
    BY <1>1, <1>2, <1>3, <2>1 DEF Alive
  <2> QED BY <1>1, <1>4, <2>2, SkipCounts
<1>5. CASE /\ UNCHANGED reports
           /\ task' = [task EXCEPT !["engine"].pc = "apply", !["engine"].tries = @ + 1]
  <2>1. Moved("engine", "apply", task["engine"].snap, task["engine"].tries + 1)
    BY <1>0, <1>5, RetryMoves
  <2>2. Silent
    BY <1>1, <1>5 DEF Silent
  <2>3. Still /\ (BareLast => BareLast')
    BY <1>1, <2>2, SilentStill, SpentGrows
  <2>4. RetryOK'
    <3>1. row.status # "submitted"
      BY <1>3 DEF TerminalStatus
    <3> QED BY <1>1, <2>1, <3>1 DEF RetryOK, Moved
  <2> QED BY <2>3, <2>4, StillCount, StillExact DEF CountInv, ExactInv
<1> QED BY <1>4, <1>5 DEF ApplyConflict

LEMMA DbFaultCounts ==
  ASSUME PathInv, CountInv, ApplyFails \/ BookedUnreadable
  PROVE  CountInv' /\ (ExactInv => ExactInv')
<1>0. Fault("db") /\ UNCHANGED <<row, log, venue, wire, stream, recon>>
  BY DEF ApplyFails, BookedUnreadable, db, outside
<1>1. ~ NoDbError'
  BY <1>0, DbFault
<1>2. RetryOK'
  <2>1. CASE ApplyFails
    <3>1. NextReport /\ Busy /\ UNCHANGED <<venue, wire, queue, stream, recon>>
      BY <1>0, <2>1 DEF ApplyFails, Busy
    <3>2. task'["engine"].pc \in {"idle", "apply"} /\ task'["engine"].tries = 0
      BY <3>1, ReportDone
    <3> QED BY <3>2 DEF RetryOK
  <2>2. CASE BookedUnreadable
    BY <1>0, <2>2, EngineStays DEF BookedUnreadable, CountInv
  <2> QED BY <2>1, <2>2
<1>3. CountInv'
  BY <1>1, <1>2 DEF CountInv, CountOK, NeverOver, Alive
<1>4. ASSUME ExactInv PROVE ExactInv'
  <2>1. BareLast'
    <3>1. CASE ApplyFails
      BY <1>0, <1>4, <3>1, QueueAlone DEF ApplyFails, ExactInv
    <3>2. CASE BookedUnreadable
      BY <1>0, <1>4, <3>2, TakenBare DEF BookedUnreadable, ExactInv
    <3> QED BY <3>1, <3>2
  <2> QED BY <1>1, <2>1 DEF ExactInv, ExactOK, AllBooked, Alive
<1> QED BY <1>3, <1>4

(* Booking a report moves it from what is reported to what is booked.      *)
LEMMA ApplyWriteCounts ==
  ASSUME PathInv, PathInv', CountInv, NoDbError' => NoDbError, ApplyWrite
  PROVE  CountInv' /\ (ExactInv => ExactInv')
<1>0. /\ BookInv /\ ReportsOK /\ RowOK
      /\ venue.exec \in 0..Qty /\ venue.exec \in Nat /\ Qty \in Nat /\ row.cum_qty \in Nat
  BY ThePath, PathAssumption DEF VenueOK
<1>1. /\ task["engine"].pc = "apply_write" /\ NextReport /\ Busy
      /\ UNCHANGED <<venue, wire, stream, queue, recon, spent>>
  BY DEF ApplyWrite, At, Busy, outside
<1>2. /\ row.status \in LiveStatus
      /\ LET r == Head(reports) IN
         IF r.type = "fill"
           THEN /\ row'.cum_qty = row.cum_qty + r.qty /\ row'.cum_qty <= Qty
                /\ row'.status = IF row'.cum_qty < Qty THEN "partially_filled" ELSE "filled"
           ELSE row'.cum_qty = row.cum_qty /\ row'.status \in {"canceled", "rejected"}
  BY <1>0, ApplyKeepsBook
<1>3. /\ reports # <<>> /\ Head(reports) = reports[1] /\ Reported' = 0
      /\ task'["engine"].pc \in {"idle", "apply"} /\ task'["engine"].tries = 0
      /\ (reports' # <<>> => Closes(reports) /\ Closes(reports'))
      /\ (reports' = <<>> => Len(reports) = 1)
  BY <1>1, ReportDone
<1>4. PICK r : r = reports[1]
  OBVIOUS
<1>5. /\ r \in Report /\ r.qty \in Nat /\ 1 \in DOMAIN reports
      /\ Reported = IF r.type = "fill" THEN r.qty ELSE 0
      /\ IsClose(r) => Len(reports) = 1
      /\ r.type # "fill" => IsClose(r)
  <2>1. reports \in Seq(Report) /\ 1 \in DOMAIN reports
    BY <1>0, <1>3 DEF ReportsOK
  <2>2. r \in Report
    BY <1>4, <2>1
  <2>3. r.qty \in Nat /\ r.type \in {"fill", "canceled", "reject"}
    BY <2>2, PathAssumption DEF Report
  <2>4. IsClose(reports[1]) => 1 = Len(reports)
    BY <1>0, <2>1 DEF ReportsOK
  <2>5. Reported = IF r.type = "fill" THEN r.qty ELSE 0
    BY <1>3, <1>4 DEF Reported
  <2> QED BY <1>4, <2>1, <2>2, <2>3, <2>4, <2>5 DEF IsClose
<1>6. /\ row'.cum_qty = row.cum_qty + Reported
      /\ r.type = "fill" => row'.cum_qty <= Qty /\
           row'.status = (IF row'.cum_qty < Qty THEN "partially_filled" ELSE "filled")
      /\ r.type # "fill" => row'.status \in {"canceled", "rejected"}
  BY <1>0, <1>2, <1>3, <1>4, <1>5
<1>7. /\ Reported \in Nat /\ Counted = row.cum_qty + Reported + InFlight /\ InFlight \in Nat
      /\ row'.cum_qty \in Nat
  BY CountedType, PathInvNext DEF Counted
<1>8. Counted' = Counted
  <2>1. InFlight' = InFlight
    BY <1>1 DEF InFlight
  <2> QED BY <1>3, <1>6, <1>7, <2>1 DEF Counted
<1>9. row.status \notin TerminalStatus /\ (NoDbError' => Alive)
  BY <1>2 DEF Alive, LiveStatus, TerminalStatus
<1>10. RetryOK'
  BY <1>3 DEF RetryOK
<1>11. NoDbError' => row'.cum_qty <= venue'.exec
  <2>1. Alive => row.cum_qty + Reported <= venue.exec
    BY DEF CountInv, CountOK
  <2>2. row'.cum_qty = row.cum_qty + Reported /\ venue' = venue
    BY <1>1, <1>6
  <2> QED BY <1>9, <2>1, <2>2
<1>12. Alive' => row'.cum_qty < Qty /\ r.type = "fill"
  BY <1>5, <1>6 DEF Alive, TerminalStatus
<1>13. Alive' => (Ends' <=> Ends)
  <2> SUFFICES ASSUME Alive' PROVE Ends' <=> Ends
    OBVIOUS
  <2>1. row'.cum_qty < Qty /\ r.type = "fill"
    BY <1>12
  <2>2. row.cum_qty + Reported # Qty /\ row'.cum_qty + Reported' # Qty
    BY <1>0, <1>3, <1>6, <1>7, <2>1
  <2>3. Ends <=> Closes(reports)
    BY <2>2 DEF Ends
  <2>4. Ends' <=> Closes(reports')
    BY <2>2 DEF Ends, Closes, IsClose
  <2>5. Closes(reports) => reports' # <<>>
    BY <1>3, <1>4, <2>1 DEF Closes, IsClose
  <2>6. Closes(reports') => reports' # <<>>
    BY DEF Closes
  <2> QED BY <1>3, <2>3, <2>4, <2>5, <2>6
<1>14. CountOK'
  <2> SUFFICES ASSUME Alive' PROVE row'.cum_qty + Reported' <= venue'.exec /\ (Ends' \/ Counted' <= venue'.exec)
    BY DEF CountOK
  <2>1. NoDbError' /\ Alive
    BY <1>9 DEF Alive
  <2>2. row'.cum_qty + Reported' <= venue'.exec
    BY <1>3, <1>7, <1>11, <2>1
  <2> QED BY <1>1, <1>8, <1>13, <2>1, <2>2 DEF CountInv, CountOK
<1>15. ASSUME ExactInv PROVE ExactInv'
  <2>1. BareLast'
    BY <1>1, <1>15, QueueAlone DEF ExactInv
  <2>2. ExactOK'
    <3> SUFFICES ASSUME Alive'
                 PROVE  IF Ends' THEN row'.cum_qty + Reported' = venue'.exec
                                 ELSE venue'.style = "report" => Counted' = venue'.exec
      BY DEF ExactOK
    <3>1. Alive /\ (Ends' <=> Ends)
      BY <1>9, <1>13 DEF Alive
    <3>2. IF Ends THEN row.cum_qty + Reported = venue.exec
                  ELSE venue.style = "report" => Counted = venue.exec
      BY <1>15, <3>1 DEF ExactInv, ExactOK
    <3>3. row'.cum_qty + Reported' = row.cum_qty + Reported
      BY <1>3, <1>6, <1>7
    <3> QED BY <1>1, <1>8, <3>1, <3>2, <3>3
  <2>3. AllBooked'
    <3> SUFFICES ASSUME NoDbError', row'.status \in TerminalStatus PROVE row'.cum_qty = venue'.exec
      BY DEF AllBooked
    <3>1. Alive
      BY <1>9
    <3>2. Ends
      <4>1. CASE r.type = "fill"
        <5>1. row'.cum_qty = Qty
          BY <1>0, <1>6, <1>7, <4>1 DEF TerminalStatus
        <5> QED BY <1>3, <1>6, <5>1 DEF Ends
      <4>2. CASE r.type # "fill"
        BY <1>3, <1>4, <1>5, <4>2 DEF Ends, Closes
      <4> QED BY <4>1, <4>2
    <3>3. row.cum_qty + Reported = venue.exec
      BY <1>15, <3>1, <3>2 DEF ExactInv, ExactOK
    <3> QED BY <1>1, <1>6, <3>3
  <2> QED BY <2>1, <2>2, <2>3 DEF ExactInv
<1> QED BY <1>10, <1>11, <1>14, <1>15 DEF CountInv, NeverOver


-----------------------------------------------------------------------------

LEMMA QuietStill ==
  ASSUME PathInv, PathInv', RetryOK,
         \/ Submit \/ SubmitRefused \/ SubmitStep
         \/ \E t \in Routers : RouteStep(t) \/ RouteFails(t)
         \/ CancelRequest \/ CancelLocally \/ ReconStep
         \/ RouteUnknown \/ UndoFails \/ ReconLoadFails \/ ReconFails
         \/ VenueAnswers \/ VenueCloses \/ Deliver \/ Lose \/ UNCHANGED vars
  PROVE  /\ Still /\ RetryOK'
         /\ "report" \notin LossyStyles => (BareLast => BareLast')
<1>1. CASE Submit \/ SubmitRefused
  BY <1>1, EntryStill
<1>2. CASE SubmitStep
  <2>1. CASE NoAdapter \/ BrokerRejected
    BY <2>1, SendersStill
  <2>2. CASE CallBroker \/ BrokerAccepted \/ UndoAtBroker
    BY <2>2, EntryAside, AsideKeeps
  <2> QED BY <1>2, <2>1, <2>2 DEF SubmitStep
<1>3. CASE \E t \in Routers : RouteStep(t) \/ RouteFails(t)
  BY <1>3, RoutersAside, RouteWriteStill DEF RouteStep
<1>4. CASE CancelLocally
  BY <1>4, CancelLocallyStill
<1>5. CASE ReconStep
  <2>1. CASE ReconAct /\ queue' # queue
    BY <2>1, SendersStill
  <2>2. CASE ReconLoadWorking \/ ReconLoadStuck \/ ReconSnapshot \/ (ReconAct /\ UNCHANGED queue)
    BY <2>2, OthersAside, AsideKeeps
  <2> QED BY <1>5, <2>1, <2>2 DEF ReconStep
<1>6. CASE RouteUnknown \/ UndoFails
  BY <1>6, EntryAside, AsideKeeps
<1>7. CASE CancelRequest \/ VenueAnswers \/ UNCHANGED vars \/ ReconLoadFails \/ ReconFails
  BY <1>7, OthersAside, AsideKeeps
<1>8. CASE VenueCloses
  BY <1>8, VenueClosesStill
<1>9. CASE Deliver \/ Lose
  BY <1>9, StreamStill
<1> QED BY <1>1, <1>2, <1>3, <1>4, <1>5, <1>6, <1>7, <1>8, <1>9

LEMMA BooksNext ==
  ASSUME MaxAttempts >= 2, PathInv, [Next]_vars, CountInv
  PROVE  /\ CountInv'
         /\ "report" \notin LossyStyles => (ExactInv => ExactInv')
<1>1. PathInv' /\ (NoDbError' => NoDbError)
  BY PathNext, FaultsGrow
<1>2. CASE EngineStep
  BY <1>1, <1>2, AckCounts, TakeCounts, ApplyReadCounts, ApplyWriteCounts, ApplyConflictCounts
     DEF EngineStep
<1>3. CASE BookedUnreadable \/ ApplyFails
  BY <1>3, DbFaultCounts
<1>4. CASE Crash
  BY <1>1, <1>4, CrashCounts
<1>5. CASE VenueFills
  BY <1>1, <1>5, VenueFillsCounts
<1>6. ASSUME Still, RetryOK', "report" \notin LossyStyles => (BareLast => BareLast')
      PROVE  /\ CountInv'
             /\ "report" \notin LossyStyles => (ExactInv => ExactInv')
  BY <1>1, <1>6, StillCount, StillExact DEF CountInv, ExactInv
<1>7. CASE \/ Submit \/ SubmitRefused \/ SubmitStep
           \/ \E t \in Routers : RouteStep(t) \/ RouteFails(t)
           \/ CancelRequest \/ CancelLocally \/ ReconStep
           \/ RouteUnknown \/ UndoFails \/ ReconLoadFails \/ ReconFails
           \/ VenueAnswers \/ VenueCloses \/ Deliver \/ Lose \/ UNCHANGED vars
  BY <1>1, <1>6, <1>7, QuietStill DEF CountInv
<1> QED BY <1>2, <1>3, <1>4, <1>5, <1>7 DEF Next, Failure

LEMMA BooksStart ==
  ASSUME Init
  PROVE  CountInv /\ ExactInv
<1>1. /\ row = NoOrder /\ stream = <<>> /\ queue = <<>> /\ reports = <<>> /\ venue.exec = 0
      /\ task = [t \in Tasks |-> Idle]
  BY DEF Init, Tasks
<1>2. row.cum_qty = 0 /\ row.status = "none" /\ task["engine"].pc = "idle" /\ task["engine"].tries = 0
  BY <1>1 DEF NoOrder, Tasks, Idle
<1>3. Reported = 0 /\ ~ Ends
  BY <1>1 DEF Reported, Ends, Closes
<1>4. InFlight = 0
  BY <1>1, EmptyFlight DEF InFlight
<1>5. Counted = 0
  BY <1>2, <1>3, <1>4 DEF Counted
<1>6. RetryOK
  BY <1>2 DEF RetryOK
<1>7. BareLast
  BY <1>1 DEF BareLast
<1>8. CountOK /\ NeverOver /\ ExactOK /\ AllBooked
  BY <1>1, <1>2, <1>3, <1>5 DEF CountOK, NeverOver, ExactOK, AllBooked, TerminalStatus
<1> QED BY <1>6, <1>7, <1>8 DEF CountInv, ExactInv

(* Whatever is lost, repeated by recon, retried or cut short by a crash,   *)
(* the engine never books more of the order than the venue executed, as    *)
(* long as no database error makes it drop a report half way.              *)
THEOREM NeverOverbooked ==
  ASSUME MaxAttempts >= 2
  PROVE  Spec => [](NoDbError => row.cum_qty <= venue.exec)
<1>1. Init => PathInv /\ CountInv
  BY PathStart, BooksStart
<1>2. PathInv /\ CountInv /\ [Next]_vars => PathInv' /\ CountInv'
  BY PathNext, BooksNext
<1>3. CountInv => (NoDbError => row.cum_qty <= venue.exec)
  BY DEF CountInv, NeverOver
<1> QED BY <1>1, <1>2, <1>3, PTL DEF Spec

(* Where the connectors that report bare closes lose nothing, an order     *)
(* that closes without a local cancel has booked exactly what the venue    *)
(* executed.  (LostFill.cfg: not so where such a connector may lose one.   *)
(* MAX_ATTEMPTS is 5 in the code; with 1 a single race drops a report.)    *)
THEOREM BookedSafe ==
  ASSUME MaxAttempts >= 2, "report" \notin LossyStyles
  PROVE  Spec => []AllExecutionsBooked
<1>1. Init => PathInv /\ CountInv /\ ExactInv
  BY PathStart, BooksStart
<1>2. PathInv /\ CountInv /\ ExactInv /\ [Next]_vars => PathInv' /\ CountInv' /\ ExactInv'
  BY PathNext, BooksNext
<1>3. PathInv /\ CountInv /\ ExactInv => AllExecutionsBooked
  BY DEF CountInv, ExactInv, NeverOver, AllBooked, AllExecutionsBooked, NoDbError
<1> QED BY <1>1, <1>2, <1>3, PTL DEF Spec

-----------------------------------------------------------------------------
(* The stream of the order path is one of the aggregate                    *)

\* order_event as OrderAggregate's stream: its state is what the events fold to, a
\* fill is of at most Qty lots at price 1, and Qty + 3 events are the most there
\* are: submitted, routed, a fill for every lot and a close.
Stream == INSTANCE OrderAggregate WITH
            state <- Rehydrate(log), Quantities <- 0..Qty, Prices <- {0, 1}, MaxEvents <- Qty + 3

\* The aggregate decides and applies as the order path does.
LEMMA SameApply ==
  \A s, e : Stream!Apply(s, e) = Apply(s, e)
BY DEF Apply, ApplySubmitted, ApplyAmended, ApplyFill, ApplySuspended, ApplyReleased, ApplyLifecycle,
       NoOrder, FillTypes, Stream!Apply, Stream!ApplySubmitted, Stream!ApplyAmended, Stream!ApplyFill,
       Stream!ApplySuspended, Stream!ApplyReleased, Stream!ApplyLifecycle, Stream!NoOrder, Stream!FillTypes

LEMMA SameDecisions ==
  /\ Stream!OrderType = OrderType /\ Stream!NoOrder = NoOrder
  /\ \A s, q, t, p : Stream!DecideSubmit(s, q, t, p) = DecideSubmit(s, q, t, p)
  /\ \A s, q, p : Stream!DecideFill(s, q, p) = DecideFill(s, q, p)
  /\ \A s : /\ Stream!DecideRoute(s) = DecideRoute(s) /\ Stream!DecideCancel(s) = DecideCancel(s)
           /\ Stream!DecideCanceled(s) = DecideCanceled(s) /\ Stream!DecideReject(s) = DecideReject(s)
<1>1. Stream!OrderType = OrderType /\ Stream!NoOrder = NoOrder
  BY DEF OrderType, NoOrder, Stream!OrderType, Stream!NoOrder
<1>2. \A status, kind : Stream!Allowed(status, kind) = Allowed(status, kind)
  BY DEF Allowed, AllowedKinds, Stream!Allowed, Stream!AllowedKinds
<1>3. \A accepted, e : Stream!Emit(accepted, e) = Emit(accepted, e)
  BY DEF Emit, Stream!Emit
<1>4. \A s, type, status : Stream!Event(s, type, status) = Event(s, type, status)
  BY DEF Event, Stream!Event
<1>5. \A q, t, p : Stream!ValidSubmit(q, t, p) = ValidSubmit(q, t, p)
  BY DEF ValidSubmit, Stream!ValidSubmit
<1>6. \A s, q, t, p : Stream!DecideSubmit(s, q, t, p) = DecideSubmit(s, q, t, p)
  BY <1>2, <1>3, <1>5 DEF DecideSubmit, Stream!DecideSubmit
<1>7. \A s, q, p : Stream!DecideFill(s, q, p) = DecideFill(s, q, p)
  <2> SUFFICES ASSUME NEW s, NEW q, NEW p PROVE Stream!DecideFill(s, q, p) = DecideFill(s, q, p)
    OBVIOUS
  <2>1. Stream!Allowed(s.status, "receive_execution_report") = Allowed(s.status, "receive_execution_report")
    BY <1>2
  <2> QED BY <2>1 DEF DecideFill, Stream!DecideFill, Emit, Stream!Emit
<1>8. \A s : /\ Stream!DecideRoute(s) = DecideRoute(s) /\ Stream!DecideCancel(s) = DecideCancel(s)
            /\ Stream!DecideCanceled(s) = DecideCanceled(s) /\ Stream!DecideReject(s) = DecideReject(s)
  BY <1>2, <1>3, <1>4 DEF DecideRoute, DecideCancel, DecideCanceled, DecideReject, Stream!DecideRoute,
     Stream!DecideCancel, Stream!DecideCanceled, Stream!DecideReject
<1> QED BY <1>1, <1>6, <1>7, <1>8

\* A live order has at most its submission, its routing and its fills behind it.
EventsFew ==
  /\ row.status = "submitted" => row.version <= 1
  /\ row.status \in LiveStatus => row.version <= 2 + row.cum_qty

\* Who writes the row, the stream and the position.
Writes ==
  Submit \/ SubmitRefused \/ (\E t \in Routers : RouteWrite(t)) \/ CancelLocally \/ ApplyWrite

LEMMA OthersLeave ==
  ASSUME [Next]_vars, ~ Writes
  PROVE  UNCHANGED <<row, log, position>>
<1>1. CASE SubmitStep
  BY <1>1 DEF SubmitStep, NoAdapter, CallBroker, BrokerRejected, BrokerAccepted, UndoAtBroker, db
<1>2. CASE \E t \in Routers : RouteStep(t)
  BY <1>2 DEF RouteStep, RouteRead, RecordId, RouteConflict, Writes, db
<1>3. CASE EngineStep
  BY <1>3 DEF EngineStep, EngineTake, ApplyRead, ApplyConflict, Writes, db
<1>4. CASE ReconStep
  BY <1>4 DEF ReconStep, ReconLoadWorking, ReconLoadStuck, ReconSnapshot, ReconAct, db
<1>5. CASE Failure
  BY <1>5 DEF Failure, RouteUnknown, UndoFails, BookedUnreadable, ApplyFails, ReconLoadFails, ReconFails,
              Crash, RouteFails, db
<1>6. CASE VenueAnswers \/ VenueFills \/ VenueCloses \/ Deliver \/ Lose
  BY <1>6 DEF VenueAnswers, VenueFills, VenueCloses, Deliver, Lose, db
<1>7. CASE CancelRequest
  BY <1>7 DEF CancelRequest, db
<1>8. CASE UNCHANGED vars
  BY <1>8 DEF vars, db
<1> QED BY <1>1, <1>2, <1>3, <1>4, <1>5, <1>6, <1>7, <1>8 DEF Next, Writes

LEMMA EventsFewNext ==
  ASSUME PathInv, EventsFew, [Next]_vars
  PROVE  EventsFew'
<1>1. BookInv /\ ReportsOK /\ RowOK
  BY ThePath DEF PathInv
<1>2. row.version = Len(log) /\ row.version \in Int /\ row.cum_qty \in Nat
  BY <1>1 DEF RowOK, GoodState, OrderState
<1>3. PathInv' /\ RowOK' /\ row'.version = Len(log') /\ row'.cum_qty \in Nat
  <2>1. PathInv'
    BY PathNext
  <2>2. RowOK'
    BY <2>1 DEF PathInv, BookInv
  <2> QED BY <2>1, <2>2 DEF RowOK, GoodState, OrderState
<1>4. CASE ~ Writes
  BY <1>4, OthersLeave DEF EventsFew
<1>5. CASE Submit
  <2>1. row'.status = "submitted" /\ row'.cum_qty = 0
    BY <1>1, <1>5, SubmitKeepsBook
  <2>2. Len(log') = 1
    BY <1>5 DEF Submit
  <2> QED BY <1>3, <2>1, <2>2 DEF EventsFew
<1>6. CASE SubmitRefused
  BY <1>1, <1>6, RefusedKeepsBook DEF EventsFew, LiveStatus
<1>7. ASSUME NEW t \in Routers, RouteWrite(t) PROVE EventsFew'
  <2>1. /\ row.status = "submitted" /\ row'.status = "routed"
        /\ row'.cum_qty = row.cum_qty /\ Len(log') = Len(log) + 1
    BY <1>1, <1>7, RouteKeepsBook
  <2> QED BY <1>2, <1>3, <2>1 DEF EventsFew
<1>8. CASE CancelLocally
  <2>1. \/ UNCHANGED <<row, log>>
        \/ row'.status = "canceled"
    BY <1>1, <1>8, CancelKeepsBook
  <2> QED BY <2>1 DEF EventsFew, LiveStatus
<1>9. CASE ApplyWrite
  <2> DEFINE r == Head(reports)
  <2>1. /\ row.status \in LiveStatus /\ Len(log') = Len(log) + 1 /\ r \in Report
        /\ IF r.type = "fill"
             THEN /\ row'.cum_qty = row.cum_qty + r.qty /\ r.qty > 0
                  /\ row'.status \in {"partially_filled", "filled"}
             ELSE row'.status \in {"canceled", "rejected"}
    BY <1>1, <1>9, ApplyKeepsBook
  <2>2. r.qty \in Int
    BY <2>1, PathAssumption DEF Report
  <2>3. CASE r.type = "fill"
    <3>1. row'.cum_qty > row.cum_qty /\ row'.status # "submitted"
      BY <1>2, <2>1, <2>2, <2>3
    <3> QED BY <1>2, <1>3, <2>1, <3>1 DEF EventsFew
  <2>4. CASE r.type # "fill"
    BY <2>1, <2>4 DEF EventsFew, LiveStatus
  <2> QED BY <2>3, <2>4
<1> QED BY <1>4, <1>5, <1>6, <1>7, <1>8, <1>9 DEF Writes

\* Every write is a command decided on what the stream folds to.
LEMMA WritesDecided ==
  ASSUME PathInv, EventsFew, [Next]_vars
  PROVE  [Stream!Next \/ SubmitRefused]_<<Rehydrate(log), log>>
<1>1. BookInv /\ ReportsOK /\ RowOK /\ FoldOK /\ SnapOK
  BY ThePath DEF PathInv
<1>2. row.status \notin TerminalStatus =>
        /\ Rehydrate(log) = row /\ log \in Seq(OrderDomainEvent) /\ Len(log) < Qty + 3
  <2>1. row.version = Len(log) /\ row.version \in Int /\ row.cum_qty \in Nat /\ Qty \in Nat \ {0}
    BY <1>1, PathAssumption DEF RowOK, GoodState, OrderState
  <2>2. CASE row.status = "none"
    BY <1>1, <2>1, <2>2 DEF RowOK, FoldOK, NoOrder, TerminalStatus
  <2>3. CASE row.status \in LiveStatus
    <3>1. row.version <= 2 + row.cum_qty /\ row.cum_qty < Qty
      BY <1>1, <2>3 DEF EventsFew, RowOK
    <3> QED BY <1>1, <2>1, <3>1 DEF FoldOK, RowOK
  <2>4. row.status \in LiveStatus \cup TerminalStatus \cup {"none"}
    BY <1>1 DEF RowOK, GoodState, OrderState, OrderStatus
  <2> QED BY <2>2, <2>3, <2>4
<1>3. ASSUME row.status \notin TerminalStatus, NEW e \in OrderDomainEvent, log' = Append(log, e),
             NEW D, e \in D
      PROVE  Stream!Commit(D)
  <2>1. Rehydrate(log') = Apply(Rehydrate(log), e)
    BY <1>1, <1>2, <1>3, FoldNext
  <2> QED BY <1>2, <1>3, <2>1, SameApply DEF Stream!Commit
<1>4. CASE ~ Writes
  BY <1>4, OthersLeave
<1>5. CASE Submit
  <2>1. PICK e \in DecideSubmit(NoOrder, Qty, "market", 0) : log' = <<e>>
    BY <1>5 DEF Submit
  <2>2. row = NoOrder /\ row.status \notin TerminalStatus /\ log = <<>>
    BY <1>1, <1>5 DEF Submit, RowOK, TerminalStatus, NoOrder
  <2>3. e \in OrderDomainEvent /\ log' = Append(log, e) /\ e \in DecideSubmit(Rehydrate(log), Qty, "market", 0)
    BY <1>2, <2>1, <2>2, SubmitApply DEF GoodStep
  <2>4. Stream!Commit(DecideSubmit(Rehydrate(log), Qty, "market", 0))
    BY <1>3, <2>2, <2>3
  <2>5. Qty \in 0..Qty /\ "market" \in OrderType /\ 0 \in {0, 1}
    BY PathAssumption DEF OrderType
  <2> QED BY <2>4, <2>5, SameDecisions DEF Stream!Next, Stream!SubmitOrder
<1>6. ASSUME NEW t \in Routers, RouteWrite(t) PROVE Stream!Next
  <2>1. row.status = "submitted"
    BY <1>1, <1>6, RouteKeepsBook
  <2>2. task[t].snap = row
    BY <1>1, <1>6 DEF RouteWrite, At, Holding, VersionHolds, SnapOK, Routers, Tasks
  <2>3. PICK e \in DecideRoute(row) : log' = Append(log, e)
    BY <1>6, <2>2 DEF RouteWrite
  <2>4. e \in OrderDomainEvent
    BY <1>1, <2>3, RouteApply DEF RowOK, GoodStep
  <2>5. Stream!Commit(DecideRoute(Rehydrate(log)))
    BY <1>2, <1>3, <2>1, <2>3, <2>4 DEF TerminalStatus
  <2> QED BY <2>5, SameDecisions DEF Stream!Next, Stream!RouteOrder
<1>7. CASE CancelLocally
  <2>1. CASE UNCHANGED <<row, log>>
    BY <2>1
  <2>2. CASE ~ UNCHANGED <<row, log>>
    <3> DEFINE s == task["cancel"].snap
    <3>1. row.version = s.version /\ VersionHolds(s.version)
      BY <1>7, <2>2 DEF CancelLocally
    <3>2. s = row
      BY <1>1, <1>7, <3>1 DEF CancelLocally, At, Holding, VersionHolds, SnapOK, Tasks
    <3>3. PICK e \in DecideCancel(row) : log' = Append(log, e)
      BY <1>7, <3>1, <3>2 DEF CancelLocally
    <3>4. row.status \in LiveStatus
      BY <1>1, <1>7, <2>2, CancelKeepsBook
    <3>5. e \in OrderDomainEvent
      BY <1>1, <3>3, SimpleCommandsGood DEF RowOK, GoodStep
    <3>6. Stream!Commit(DecideCancel(Rehydrate(log)))
      BY <1>2, <1>3, <3>3, <3>4, <3>5 DEF TerminalStatus, LiveStatus
    <3> QED BY <3>6, SameDecisions DEF Stream!Next, Stream!CancelOrder
  <2> QED BY <2>1, <2>2
<1>8. CASE ApplyWrite
  <2> DEFINE r == Head(reports)
  <2>1. row.status \in LiveStatus /\ r \in Report
    BY <1>1, <1>8, ApplyKeepsBook
  <2>2. task["engine"].snap = row
    BY <1>1, <1>8 DEF ApplyWrite, At, Holding, VersionHolds, SnapOK, Tasks
  <2>3. PICK e \in Decide(row, r) : log' = Append(log, e)
    BY <1>8, <2>2 DEF ApplyWrite
  <2>4. e \in OrderDomainEvent
    BY <1>1, <2>1, <2>3, ReportStep DEF RowOK, GoodStep
  <2>5. Stream!Commit(Decide(Rehydrate(log), r))
    BY <1>2, <1>3, <2>1, <2>3, <2>4 DEF TerminalStatus, LiveStatus
  <2>6. r.qty \in 0..Qty /\ r.type \in {"fill", "canceled", "reject"} /\ 1 \in {0, 1}
    BY <2>1 DEF Report
  <2>7. \/ Stream!Commit(DecideFill(Rehydrate(log), r.qty, 1))
        \/ Stream!Commit(DecideCanceled(Rehydrate(log)))
        \/ Stream!Commit(DecideReject(Rehydrate(log)))
    BY <2>5, <2>6 DEF Decide
  <2> QED BY <2>6, <2>7, SameDecisions DEF Stream!Next, Stream!ReportFill, Stream!ReportCanceled, Stream!ReportReject
<1> QED BY <1>4, <1>5, <1>6, <1>7, <1>8 DEF Writes

\* The order path implements the aggregate: whoever writes, what is appended is one
\* event that the aggregate decides on the stream as it is, or both events of an
\* order refused on entry (append_events_in_tx, persist_routed, cancel, apply_once).
THEOREM PathImplementsAggregate ==
  Spec => Stream!Init /\ [][Stream!Next \/ SubmitRefused]_<<Rehydrate(log), log>>
<1>1. Init => Stream!Init /\ EventsFew
  BY RehydrateEmpty, SameDecisions DEF Init, Stream!Init, EventsFew, NoOrder, LiveStatus
<1>2. PathInv /\ EventsFew /\ [Next]_vars => EventsFew'
  BY EventsFewNext
<1>3. PathInv /\ EventsFew /\ [Next]_vars => [Stream!Next \/ SubmitRefused]_<<Rehydrate(log), log>>
  BY WritesDecided
<1> QED BY <1>1, <1>2, <1>3, PathSafe, PTL DEF Spec

\* A closed order stays as it is, whatever was read of it before it closed: no task
\* reopens it, appends to it or moves the position for it (append_events_in_tx).
ClosedIsFinal == [][row.status \in TerminalStatus => UNCHANGED <<row, log, position>>]_vars

\* A closed order is closed for good, in the row, the stream and the position, for
\* every interleaving of submit, cancel, engine and recon (persist_routed, cancel,
\* apply_once).
THEOREM ClosedStays == Spec => ClosedIsFinal
<1>1. ASSUME PathInv, [Next]_vars, row.status \in TerminalStatus
      PROVE  UNCHANGED <<row, log, position>>
  <2>1. BookInv /\ ReportsOK /\ row.status \notin LiveStatus \cup {"none", "submitted"}
    BY <1>1, ThePath DEF PathInv, TerminalStatus, LiveStatus
  <2>2. CancelLocally => UNCHANGED <<row, log, position>>
    BY <2>1, CancelKeepsBook DEF CancelLocally
  <2>3. Writes => CancelLocally
    BY <2>1, RouteKeepsBook, ApplyKeepsBook DEF Writes, Submit, SubmitRefused
  <2> QED BY <1>1, <2>2, <2>3, OthersLeave
<1> QED BY <1>1, PathSafe, PTL DEF Spec, ClosedIsFinal
=============================================================================

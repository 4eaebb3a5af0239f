--------------------------- MODULE EventFeedsProofs ---------------------------
(***************************************************************************)
(* For any number of orders, events, batches, failures and crashes: the    *)
(* orders topic and the reports of a strategy are ordered feeds of what is *)
(* committed, no owed report is dropped, and a screen that shows something *)
(* outdated has a notice on its way.                                       *)
(*                                                                         *)
(* An event is inserted at the next position and becomes visible at its    *)
(* commit, so the positions of different orders appear in any order; those *)
(* of one order do not, as its open transaction is the only one (StoreOK). *)
(* A batch, or the rows of a replay, therefore stays closed: what is       *)
(* committed after it was read lies behind all of its order that it holds  *)
(* (KafkaOK, FixOK).                                                       *)
(***************************************************************************)
EXTENDS EventFeeds, WellFoundedInduction, FiniteSetTheorems, TLAPS

-----------------------------------------------------------------------------
(* Sequences, and the least element of a set of positions                  *)

\* Appending an element adds it to the range.
LEMMA RangeAppend ==
  ASSUME NEW S, NEW s \in Seq(S), NEW x \in S
  PROVE  /\ Append(s, x) \in Seq(S)
         /\ Range(Append(s, x)) = Range(s) \cup {x}
         /\ Len(s) \in Nat /\ Len(Append(s, x)) = Len(s) + 1
         /\ \A i \in 1..Len(s) : Append(s, x)[i] = s[i]
         /\ Append(s, x)[Len(s) + 1] = x
<1>1. /\ Append(s, x) \in Seq(S) /\ Len(s) \in Nat
      /\ DOMAIN s = 1..Len(s) /\ DOMAIN Append(s, x) = 1..(Len(s) + 1)
      /\ \A i \in 1..Len(s) : Append(s, x)[i] = s[i]
      /\ Append(s, x)[Len(s) + 1] = x
  OBVIOUS
<1>2. ASSUME NEW y \in Range(Append(s, x)) PROVE y \in Range(s) \cup {x}
  BY <1>1 DEF Range
<1>3. ASSUME NEW y \in Range(s) \cup {x} PROVE y \in Range(Append(s, x))
  <2>1. CASE y = x
    BY <1>1, <2>1 DEF Range
  <2>2. CASE y \in Range(s)
    <3>1. PICK i \in 1..Len(s) : y = s[i]
      BY <1>1, <2>2 DEF Range
    <3>2. i \in 1..(Len(s) + 1) /\ Append(s, x)[i] = y
      BY <1>1, <3>1
    <3> QED
      BY <1>1, <3>2 DEF Range
  <2> QED
    BY <2>1, <2>2
<1> QED
  BY <1>1, <1>2, <1>3

\* A nonempty set of positions has a least one, and Min is it.
LEMMA MinLeast ==
  ASSUME NEW T \in SUBSET Nat, T # {}
  PROVE  Min(T) \in T /\ \A k \in T : Min(T) <= k
<1> DEFINE R == OpToRel(<, Nat)
<1>1. IsWellFoundedOn(R, Nat)
  BY NatLessThanWellFounded
<1>2. \A x, y \in Nat : x < y => <<x, y>> \in R
  BY DEF OpToRel
<1> HIDE DEF R
<1>3. PICK m \in T : \A y \in T : ~ (<<y, m>> \in R)
  BY <1>1, WFMin
<1>4. ASSUME NEW k \in T PROVE m <= k
  <2>1. m \in Nat /\ k \in Nat
    OBVIOUS
  <2>2. ~ (k < m)
    BY <1>2, <1>3, <2>1
  <2> QED
    BY <2>1, <2>2
<1> QED
  BY <1>3, <1>4 DEF Min

\* Whatever is older than a row of the batch is in the batch too.
LEMMA OldestClosed ==
  ASSUME NEW n \in Nat, NEW rows \in SUBSET (1..n), NEW p \in Oldest(rows),
         NEW q \in rows, q < p
  PROVE  q \in Oldest(rows)
<1> USE FeedsAssumption
<1> DEFINE Below(x) == {y \in rows : y < x}
<1>1. IsFiniteSet(1..n)
  BY FS_Interval
<1>2. IsFiniteSet(Below(p)) /\ IsFiniteSet(Below(q))
  BY <1>1, FS_Subset
<1>3. Below(q) \in SUBSET Below(p)
  <2>1. p \in rows /\ \A y \in rows : y \in Nat
    BY DEF Oldest
  <2>2. ASSUME NEW y \in Below(q) PROVE y \in Below(p)
    <3>1. y \in rows /\ y < q /\ {y, q, p} \subseteq Nat
      BY <2>1
    <3>2. y < p
      BY <3>1
    <3> QED
      BY <3>1, <3>2
  <2> QED
    BY <2>2
<1>4. Cardinality(Below(q)) <= Cardinality(Below(p))
  BY <1>2, <1>3, FS_Subset
<1>5. Cardinality(Below(q)) \in Nat /\ Cardinality(Below(p)) \in Nat
  BY <1>2, FS_CardinalityType
<1>6. Cardinality(Below(p)) < BatchSize /\ BatchSize \in Nat
  BY DEF Oldest, FeedsAssumption
<1>7. Cardinality(Below(q)) < BatchSize
  BY <1>4, <1>5, <1>6
<1> QED
  BY <1>7 DEF Oldest

-----------------------------------------------------------------------------
(* The inductive invariant                                                 *)

\* What is committed for an order lies at its own positions, below that of its
\* open transaction.
StoreOK ==
  /\ reader \in {"kafka", "fix", "ui"}
  /\ inserted \in Seq([order : Orders, type : STRING])
  /\ Len(inserted) <= MaxInserts
  /\ open \in [Orders -> Nat] /\ log \in [Orders -> Seq(Nat)]
  /\ \A o \in Orders :
       /\ \A p \in Range(log[o]) : p \in 1..Len(inserted) /\ inserted[p].order = o
       /\ open[o] # 0 =>
            /\ open[o] \in 1..Len(inserted) /\ inserted[open[o]].order = o
            /\ \A p \in Range(log[o]) : p < open[o]

\* The bridge has order events of its batch to send or to ack.
Delivering == kafka.pc \in {"deliver", "ack"} /\ kafka.of = "orders"

BridgeState ==
  [pc : {"drain", "deliver", "ack", "retry", "wait"}, of : {"orders", "positions"},
   batch : SUBSET Nat, net : Nat, acked : SUBSET Nat, half : BOOLEAN, failed : BOOLEAN]

\* What left the outbox is on the topic.  A batch holds what is in the outbox of
\* each order up to its last event of it, and before any failure only what was
\* sent of the batch is both on the topic and in the outbox.
KafkaOK ==
  /\ outbox \subseteq Committed /\ posbox \subseteq Nat /\ net \in Nat /\ faults \in Nat
  /\ topics \in [orders : Seq(Nat), fills : Seq(Nat), position : Nat]
  /\ kafka \in BridgeState
  /\ reader # "kafka" => kafka = Idle /\ topics.orders = <<>>
  /\ Range(topics.orders) \subseteq Committed
  /\ Committed \subseteq outbox \cup Range(topics.orders)
  /\ Delivering =>
       /\ kafka.batch \subseteq outbox /\ kafka.acked \subseteq Range(topics.orders)
       /\ \A o \in Orders : \A p \in kafka.batch, q \in Range(log[o]) :
            p \in Range(log[o]) /\ q < p /\ q \in outbox => q \in kafka.batch
  /\ kafka.half => kafka.pc = "deliver" /\ Delivering /\ Unsent # {} /\ Min(Unsent) \in Range(topics.orders)
  /\ faults = 0 =>
       \A p \in outbox : p \in Range(topics.orders) =>
         Delivering /\ (p \in kafka.acked \/ (kafka.half /\ p = Min(Unsent)))

\* The same of the reports: the rows of a replay are owed, and hold what is owed
\* of each order up to the last of them.
FixOK ==
  /\ owed \subseteq {p \in Committed : TypeOf(p) \in Reported}
  /\ sent \in Seq(Nat) /\ Range(sent) \subseteq Committed
  /\ doubled \in BOOLEAN
  /\ replay \in [pc : {"idle", "row", "delete"}, rows : SUBSET Nat]
  /\ ReportsKept
  /\ replay.rows \subseteq owed
  /\ \A o \in Orders : \A p \in replay.rows, q \in Range(log[o]) :
       p \in Range(log[o]) /\ q < p /\ q \in owed => q \in replay.rows
  /\ replay.pc = "delete" => replay.rows # {} /\ Min(replay.rows) \in Range(sent)
  /\ ~ doubled => \A p \in owed : p \in Range(sent) => replay.pc = "delete" /\ p = Min(replay.rows)

Messages == {"order", "position"}

Lane == [msgs : Seq(Messages), lagged : BOOLEAN]

\* A notice about what is on its way: it will be sent, or is being sent, or the
\* commit that makes it stale is still to be published.
Noticed(what) ==
  \/ \E p \in unpublished : what = "orders" \/ TypeOf(p) \in Fills
  \/ screen.lane.lagged \/ "resync" \in screen.pending \cup screen.out
  \/ what \in screen.pending \cup screen.out
  \/ (IF what = "orders" THEN "order" ELSE "position") \in Range(screen.lane.msgs)

UiOK ==
  /\ unpublished \subseteq 1..Len(inserted)
  /\ screen \in [pc : {"closed", "subscribed", "open"}, lane : Lane,
                  pending : SUBSET {"orders", "positions", "resync"},
                  out : SUBSET {"orders", "positions", "resync"}, opened : Nat]
  /\ stale \subseteq {"orders", "positions"}
  /\ screen.pc # "closed" => reader = "ui"
  /\ screen.pc = "open" => \A what \in stale : Noticed(what)

-----------------------------------------------------------------------------
(* The event store                                                         *)

\* The steps that touch the store; every other step leaves it as it is.
LEMMA StoreSteps ==
  ASSUME Next
  PROVE  \/ \E o \in Orders : Insert(o) \/ Rollback(o) \/ Commit(o)
         \/ Crash
         \/ UNCHANGED <<reader, inserted, open, log>>
  BY DEF Next, Publish, KafkaStep, FetchBatch, SendRecord, Delivered, Ack, Wake, SendFails,
         AckFails, FixStep, HandleInbound, ReportLoop, ReplayBegin, ReplayEnd, SendReport,
         DeleteRow, Logon, Logout, Restart, ReplayFails, UiStep, Opened, OnOrder, TakeFast,
         Notice, Subscribe, CloseScreen, db

\* A position keeps its event when another is inserted behind it.
LEMMA InsertKeeps ==
  ASSUME StoreOK, NEW o \in Orders, Insert(o)
  PROVE  /\ inserted' \in Seq([order : Orders, type : STRING])
         /\ Len(inserted') = Len(inserted) + 1 /\ Len(inserted) \in Nat
         /\ inserted'[Len(inserted) + 1].order = o
         /\ \A p \in 1..Len(inserted) : inserted'[p] = inserted[p]
<1> DEFINE n == Len(log[o]) + 1
           e == [order |-> o, type |-> Story[reader][o][n]]
<1>1. Story[reader][o] \in Seq(STRING) /\ n \in 1..Len(Story[reader][o])
  <2>1. Story[reader][o] \in Seq(STRING)
    BY FeedsAssumption DEF StoreOK, FeedsAssumption
  <2>2. log[o] \in Seq(Nat) /\ n <= Len(Story[reader][o])
    BY DEF StoreOK, Insert
  <2>3. Len(log[o]) \in Nat /\ Len(Story[reader][o]) \in Nat
    BY <2>1, <2>2
  <2> QED
    BY <2>1, <2>2, <2>3
<1>2. e \in [order : Orders, type : STRING]
  BY <1>1
<1>3. inserted' = Append(inserted, e)
  BY DEF Insert
<1>4. e.order = o
  OBVIOUS
<1>5. inserted \in Seq([order : Orders, type : STRING])
  BY DEF StoreOK
<1> DEFINE Event == [order : Orders, type : STRING]
<1>6. e \in Event /\ inserted \in Seq(Event)
  BY <1>2, <1>5
<1> HIDE DEF e, Event
<1>7. /\ Append(inserted, e) \in Seq(Event) /\ Len(inserted) \in Nat
      /\ Len(Append(inserted, e)) = Len(inserted) + 1
      /\ Append(inserted, e)[Len(inserted) + 1] = e
      /\ \A p \in 1..Len(inserted) : Append(inserted, e)[p] = inserted[p]
  BY <1>6, RangeAppend
<1> QED
  BY <1>3, <1>4, <1>7 DEF Event

LEMMA StoreInit == Init => StoreOK
<1> SUFFICES ASSUME Init PROVE StoreOK
  OBVIOUS
<1>1. \A o \in Orders : Range(log[o]) = {}
  BY DEF Init, Range
<1>2. inserted \in Seq([order : Orders, type : STRING]) /\ Len(inserted) = 0
  BY DEF Init
<1> QED
  BY <1>1, <1>2, FeedsAssumption DEF Init, StoreOK, FeedsAssumption

LEMMA StoreStep == StoreOK /\ [Next]_vars => StoreOK'
<1> SUFFICES ASSUME StoreOK, [Next]_vars PROVE StoreOK'
  OBVIOUS
<1>1. ASSUME NEW o \in Orders, Insert(o) PROVE StoreOK'
  <2>1. /\ inserted' \in Seq([order : Orders, type : STRING])
        /\ Len(inserted') = Len(inserted) + 1 /\ Len(inserted) \in Nat
        /\ inserted'[Len(inserted) + 1].order = o
        /\ \A p \in 1..Len(inserted) : inserted'[p] = inserted[p]
    BY <1>1, InsertKeeps
  <2>2. /\ open' = [open EXCEPT ![o] = Len(inserted) + 1] /\ log' = log /\ reader' = reader
        /\ Len(inserted) < MaxInserts
    BY <1>1 DEF Insert
  <2>3. Len(inserted') <= MaxInserts /\ MaxInserts \in Nat
    BY <2>1, <2>2, FeedsAssumption DEF FeedsAssumption
  <2>4. ASSUME NEW q \in Orders
        PROVE  /\ \A p \in Range(log[q]) : p \in 1..Len(inserted') /\ inserted'[p].order = q
               /\ open'[q] # 0 =>
                    /\ open'[q] \in 1..Len(inserted') /\ inserted'[open'[q]].order = q
                    /\ \A p \in Range(log[q]) : p < open'[q]
    <3>1. \A p \in Range(log[q]) : p \in 1..Len(inserted) /\ inserted[p].order = q
      BY DEF StoreOK
    <3>2. \A p \in Range(log[q]) : p \in 1..Len(inserted') /\ inserted'[p].order = q
      BY <2>1, <3>1
    <3>3. CASE q = o
      <4>1. open'[q] = Len(inserted) + 1
        BY <2>2, <3>3 DEF StoreOK
      <4>2. \A p \in Range(log[q]) : p < open'[q]
        BY <2>1, <3>1, <4>1
      <4> QED
        BY <2>1, <3>2, <3>3, <4>1, <4>2
    <3>4. CASE q # o
      <4>1. open'[q] = open[q]
        BY <2>2, <3>4 DEF StoreOK
      <4>2. open[q] # 0 => /\ open[q] \in 1..Len(inserted) /\ inserted[open[q]].order = q
                           /\ \A p \in Range(log[q]) : p < open[q]
        BY DEF StoreOK
      <4> QED
        BY <2>1, <3>2, <4>1, <4>2
    <3> QED
      BY <3>3, <3>4
  <2>5. open' \in [Orders -> Nat]
    BY <2>1, <2>2 DEF StoreOK
  <2> QED
    BY <2>1, <2>2, <2>3, <2>4, <2>5 DEF StoreOK
<1>2. ASSUME NEW o \in Orders, Rollback(o) PROVE StoreOK'
  BY <1>2 DEF Rollback, StoreOK
<1>3. ASSUME NEW o \in Orders, Commit(o) PROVE StoreOK'
  <2>1. /\ open' = [open EXCEPT ![o] = 0] /\ log' = [log EXCEPT ![o] = Append(log[o], open[o])]
        /\ reader' = reader /\ inserted' = inserted /\ open[o] # 0
    BY <1>3 DEF Commit
  <2>2. log[o] \in Seq(Nat) /\ open[o] \in Nat
    BY DEF StoreOK
  <2>3. /\ Append(log[o], open[o]) \in Seq(Nat)
        /\ Range(Append(log[o], open[o])) = Range(log[o]) \cup {open[o]}
    BY <2>2, RangeAppend
  <2>4. /\ log' \in [Orders -> Seq(Nat)] /\ open' \in [Orders -> Nat]
        /\ Range(log'[o]) = Range(log[o]) \cup {open[o]} /\ open'[o] = 0
        /\ \A q \in Orders \ {o} : log'[q] = log[q] /\ open'[q] = open[q]
    BY <2>1, <2>3 DEF StoreOK
  <2>5. ASSUME NEW q \in Orders
        PROVE  /\ \A p \in Range(log'[q]) : p \in 1..Len(inserted) /\ inserted[p].order = q
               /\ open'[q] # 0 =>
                    /\ open'[q] \in 1..Len(inserted) /\ inserted[open'[q]].order = q
                    /\ \A p \in Range(log'[q]) : p < open'[q]
    <3>1. CASE q = o
      BY <2>1, <2>4, <3>1 DEF StoreOK
    <3>2. CASE q # o
      BY <2>4, <3>2 DEF StoreOK
    <3> QED
      BY <3>1, <3>2
  <2> QED
    BY <2>1, <2>4, <2>5 DEF StoreOK
<1>4. CASE Crash
  BY <1>4 DEF Crash, StoreOK
<1>5. CASE UNCHANGED <<reader, inserted, open, log>>
  BY <1>5 DEF StoreOK
<1>6. CASE UNCHANGED vars
  BY <1>6, <1>5 DEF vars, db
<1> QED
  BY <1>1, <1>2, <1>3, <1>4, <1>5, <1>6, StoreSteps

-----------------------------------------------------------------------------
(* The bridge to Kafka                                                     *)

\* The steps that touch what the bridge reads and writes.
LEMMA KafkaSteps ==
  ASSUME Next, faults \in Nat
  PROVE  \/ \E o \in Orders : Commit(o)
         \/ Crash \/ FetchBatch \/ SendRecord \/ SendFails \/ Delivered \/ Ack \/ AckFails \/ Wake
         \/ /\ UNCHANGED <<reader, log, outbox, posbox, net, kafka, topics>>
            /\ faults' \in {faults, faults + 1}
  BY DEF Next, Insert, Rollback, Publish, KafkaStep,
         FixStep, HandleInbound, ReportLoop, ReplayBegin, ReplayEnd, SendReport,
         DeleteRow, Logon, Logout, Restart, ReplayFails, UiStep, Opened, OnOrder, TakeFast,
         Notice, Subscribe, CloseScreen, db, bridge, Fault

\* A committed event was the open transaction's, and is new.
LEMMA CommitAdds ==
  ASSUME StoreOK, NEW o \in Orders, Commit(o)
  PROVE  /\ open[o] \in 1..Len(inserted) /\ open[o] \notin Committed
         /\ Committed' = Committed \cup {open[o]}
         /\ Range(log'[o]) = Range(log[o]) \cup {open[o]}
         /\ \A q \in Orders \ {o} : Range(log'[q]) = Range(log[q])
         /\ \A p \in Range(log[o]) : p < open[o]
         /\ \A q \in Orders \ {o} : open[o] \notin Range(log[q])
<1>1. /\ log' = [log EXCEPT ![o] = Append(log[o], open[o])] /\ open[o] # 0
      /\ log[o] \in Seq(Nat) /\ open[o] \in Nat
  BY DEF Commit, StoreOK
<1>2. Range(Append(log[o], open[o])) = Range(log[o]) \cup {open[o]}
  BY <1>1, RangeAppend
<1>3. /\ Range(log'[o]) = Range(log[o]) \cup {open[o]}
      /\ \A q \in Orders \ {o} : Range(log'[q]) = Range(log[q])
  BY <1>1, <1>2 DEF StoreOK
<1>4. /\ open[o] \in 1..Len(inserted) /\ inserted[open[o]].order = o
      /\ \A p \in Range(log[o]) : p \in Nat /\ p < open[o]
  BY <1>1 DEF StoreOK
<1>5. \A q \in Orders \ {o} : open[o] \notin Range(log[q])
  BY <1>4 DEF StoreOK
<1>6. open[o] \notin Range(log[o])
  BY <1>1, <1>4
<1>7. open[o] \notin Committed
  BY <1>5, <1>6 DEF Committed
<1>8. Committed' = Committed \cup {open[o]}
  BY <1>3 DEF Committed
<1> QED
  BY <1>3, <1>4, <1>5, <1>7, <1>8

\* A committed event is one of an order's, at a position of the store.
LEMMA CommittedOf ==
  ASSUME StoreOK, NEW p \in Committed
  PROVE  p \in 1..Len(inserted) /\ p \in Nat /\ \E o \in Orders : p \in Range(log[o])
  BY DEF StoreOK, Committed

LEMMA KafkaInit == Init => KafkaOK
<1> SUFFICES ASSUME Init PROVE KafkaOK
  OBVIOUS
<1>1. Committed = {}
  BY DEF Init, Committed, Range
<1>2. /\ topics \in [orders : Seq(Nat), fills : Seq(Nat), position : Nat]
      /\ topics.orders = <<>> /\ Range(topics.orders) = {}
  BY DEF Init, Range
<1> QED
  BY <1>1, <1>2 DEF Init, KafkaOK, Idle, Delivering, BridgeState

\* The next record of a batch of order events.
LEMMA NextRecord ==
  ASSUME StoreOK, KafkaOK, kafka.pc = "deliver", Unsent # {}
  PROVE  /\ Min(Unsent) \in Unsent /\ Min(Unsent) \in Nat /\ \A p \in Unsent : Min(Unsent) <= p
         /\ reader = "kafka" /\ kafka.batch \subseteq Nat
         /\ kafka.of = "orders" => Min(Unsent) \in outbox /\ Min(Unsent) \in Committed
<1>1. Unsent \in SUBSET Nat
  BY DEF KafkaOK, Unsent, BridgeState
<1>2. Min(Unsent) \in Unsent /\ \A p \in Unsent : Min(Unsent) <= p
  BY <1>1, MinLeast
<1>3. reader = "kafka"
  BY DEF KafkaOK, Idle
<1>4. kafka.of = "orders" => Unsent \subseteq outbox /\ outbox \subseteq Committed
  BY DEF KafkaOK, Delivering, Unsent
<1> QED
  BY <1>1, <1>2, <1>3, <1>4 DEF KafkaOK, BridgeState

\* One record more on the orders topic.
LEMMA OrderRecord ==
  ASSUME StoreOK, KafkaOK, kafka.pc = "deliver", Unsent # {},
         topics' = [topics EXCEPT !.orders = Append(topics.orders, Min(Unsent))]
  PROVE  /\ topics' \in [orders : Seq(Nat), fills : Seq(Nat), position : Nat]
         /\ Range(topics'.orders) = Range(topics.orders) \cup {Min(Unsent)}
<1>1. Min(Unsent) \in Nat /\ topics.orders \in Seq(Nat)
  BY NextRecord DEF KafkaOK
<1>2. /\ Append(topics.orders, Min(Unsent)) \in Seq(Nat)
      /\ Range(Append(topics.orders, Min(Unsent))) = Range(topics.orders) \cup {Min(Unsent)}
  BY <1>1, RangeAppend
<1> QED
  BY <1>2 DEF KafkaOK

LEMMA CommitKafka ==
  ASSUME StoreOK, KafkaOK, NEW o \in Orders, Commit(o)
  PROVE  KafkaOK'
<1> DEFINE c == open[o]
<1>1. /\ kafka' = kafka /\ topics' = topics /\ faults' = faults /\ reader' = reader
      /\ outbox' = outbox \cup {c}
      /\ net' \in {net, net + 1} /\ posbox' \subseteq posbox \cup {net + 1}
  BY DEF Commit, bridge
<1>2. /\ c \in Nat /\ c \notin Committed /\ Committed' = Committed \cup {c}
      /\ Range(log'[o]) = Range(log[o]) \cup {c} /\ \A p \in Range(log[o]) : p < c
      /\ \A q \in Orders \ {o} : Range(log'[q]) = Range(log[q]) /\ c \notin Range(log[q])
  BY CommitAdds DEF StoreOK
<1> HIDE DEF c
<1>3. Unsent' = Unsent /\ Delivering' = Delivering
  BY <1>1 DEF Unsent, Delivering
<1>4. /\ outbox' \subseteq Committed' /\ posbox' \subseteq Nat /\ net' \in Nat
      /\ Range(topics.orders) \subseteq Committed' /\ Committed' \subseteq outbox' \cup Range(topics.orders)
  BY <1>1, <1>2 DEF KafkaOK
<1>5. ASSUME Delivering, NEW q \in Orders, NEW p \in kafka.batch, NEW x \in Range(log'[q]),
             p \in Range(log'[q]), x < p, x \in outbox'
      PROVE  x \in kafka.batch
  <2>1. p \in Committed /\ p # c
    BY <1>2, <1>5 DEF KafkaOK
  <2>2. p \in Nat /\ p \in Range(log[q])
    BY <1>2, <1>5, <2>1, CommittedOf
  <2>3. CASE x = c
    <3>1. q = o
      BY <1>2, <1>5, <2>3
    <3> QED
      BY <1>2, <1>5, <2>2, <2>3, <3>1
  <2>4. CASE x # c
    <3>1. x \in Range(log[q]) /\ x \in outbox
      BY <1>1, <1>2, <1>5, <2>4
    <3> QED
      BY <1>5, <2>2, <3>1 DEF KafkaOK
  <2> QED
    BY <2>3, <2>4
<1>6. ASSUME faults = 0, NEW p \in outbox', p \in Range(topics.orders)
      PROVE  Delivering /\ (p \in kafka.acked \/ (kafka.half /\ p = Min(Unsent)))
  <2>1. p # c /\ p \in outbox
    BY <1>1, <1>2, <1>6 DEF KafkaOK
  <2> QED
    BY <1>6, <2>1 DEF KafkaOK
<1> QED
  BY <1>1, <1>3, <1>4, <1>5, <1>6 DEF KafkaOK

LEMMA FetchKafka == ASSUME StoreOK, KafkaOK, FetchBatch PROVE KafkaOK'
<1>1. /\ UNCHANGED <<reader, inserted, log, outbox, posbox, net, topics, faults>>
      /\ kafka.pc = "drain" /\ reader = "kafka"
  BY DEF FetchBatch, db
<1>2. Committed' = Committed
  BY <1>1 DEF Committed
<1>3. faults = 0 => \A p \in outbox : p \notin Range(topics.orders)
  BY <1>1 DEF KafkaOK, Delivering
<1>4. CASE outbox # {}
  <2>1. kafka' = [Idle EXCEPT !.pc = "deliver", !.batch = Oldest(outbox), !.net = net, !.of = "orders"]
    BY <1>4 DEF FetchBatch
  <2>2. outbox \in SUBSET (1..Len(inserted)) /\ Len(inserted) \in Nat /\ outbox \subseteq Nat
    BY CommittedOf DEF KafkaOK, StoreOK
  <2>3. Oldest(outbox) \subseteq outbox /\ Oldest(outbox) \subseteq Nat
    <3>1. Oldest(outbox) \subseteq outbox
      BY DEF Oldest
    <3> QED
      BY <2>2, <3>1
  <2>4. \A p \in Oldest(outbox), q \in outbox : q < p => q \in Oldest(outbox)
    BY <2>2, OldestClosed
  <2>5. /\ kafka'.pc = "deliver" /\ kafka'.of = "orders" /\ kafka'.batch = Oldest(outbox)
        /\ kafka'.acked = {} /\ ~ kafka'.half
        /\ kafka' \in BridgeState
    BY <2>1, <2>3 DEF Idle, KafkaOK, BridgeState
  <2>6. ASSUME NEW o \in Orders, NEW p \in kafka'.batch, NEW q \in Range(log'[o]), q < p, q \in outbox'
        PROVE  q \in kafka'.batch
    BY <1>1, <2>4, <2>5, <2>6
  <2>7. /\ kafka'.batch \subseteq outbox' /\ kafka'.acked \subseteq Range(topics'.orders)
        /\ faults' = 0 => \A p \in outbox' : p \notin Range(topics'.orders)
    BY <1>1, <1>3, <2>3, <2>5
  <2> QED
    BY <1>1, <1>2, <2>5, <2>6, <2>7 DEF KafkaOK
<1>5. CASE outbox = {}
  <2>1. /\ kafka' \in BridgeState
        /\ ~ Delivering' /\ ~ kafka'.half
    <3>1. CASE posbox = {}
      BY <1>5, <3>1 DEF FetchBatch, Idle, Delivering, BridgeState
    <3>2. CASE posbox # {}
      <4>1. kafka' = [Idle EXCEPT !.pc = "deliver", !.batch = Oldest(posbox), !.net = net, !.of = "positions"]
        BY <1>5, <3>2 DEF FetchBatch
      <4>2. Oldest(posbox) \subseteq Nat
        BY DEF Oldest, KafkaOK
      <4> QED
        BY <4>1, <4>2 DEF Idle, Delivering, KafkaOK, BridgeState
    <3> QED
      BY <3>1, <3>2
  <2> QED
    BY <1>1, <1>2, <1>3, <2>1 DEF KafkaOK
<1> QED
  BY <1>4, <1>5

\* A record on the fills or the positions topic.
LEMMA OtherRecord ==
  ASSUME StoreOK, KafkaOK, kafka.pc = "deliver", Unsent # {}, topics' = WithRecord,
         kafka.of = "positions" \/ kafka.half
  PROVE  /\ topics' \in [orders : Seq(Nat), fills : Seq(Nat), position : Nat]
         /\ topics'.orders = topics.orders
<1>1. Min(Unsent) \in Nat /\ topics.fills \in Seq(Nat) /\ kafka.net \in Nat
  BY NextRecord DEF KafkaOK, BridgeState
<1>2. Append(topics.fills, Min(Unsent)) \in Seq(Nat)
  BY <1>1, RangeAppend
<1> QED
  BY <1>1, <1>2 DEF KafkaOK, WithRecord

LEMMA SendKafka == ASSUME StoreOK, KafkaOK, SendRecord PROVE KafkaOK'
<1> DEFINE m == Min(Unsent)
<1>1. /\ UNCHANGED <<reader, log, outbox, posbox, net, faults>> /\ topics' = WithRecord
      /\ kafka.pc = "deliver" /\ Unsent # {}
  BY DEF SendRecord, db
<1>2. /\ m \in Unsent /\ m \in Nat /\ reader = "kafka"
      /\ kafka.of = "orders" => m \in outbox /\ m \in Committed
  BY <1>1, NextRecord
<1>3. Committed' = Committed
  BY <1>1 DEF Committed
<1> DEFINE after == [kafka EXCEPT !.half = FALSE, !.acked = kafka.acked \cup {m}]
<1>4. /\ after \in BridgeState /\ ~ after.half /\ after.acked = kafka.acked \cup {m}
      /\ after.pc = kafka.pc /\ after.of = kafka.of /\ after.batch = kafka.batch
  BY <1>2 DEF KafkaOK, BridgeState
<1> HIDE DEF m, after
<1>5. CASE kafka.of = "positions"
  <2>1. kafka' = after /\ topics'.orders = topics.orders
        /\ topics' \in [orders : Seq(Nat), fills : Seq(Nat), position : Nat]
    BY <1>1, <1>5, OtherRecord DEF SendRecord, after, m
  <2> QED
    BY <1>1, <1>2, <1>3, <1>4, <1>5, <2>1 DEF KafkaOK, Delivering
<1>6. CASE kafka.of = "orders" /\ kafka.half
  <2>1. kafka' = after /\ topics'.orders = topics.orders
        /\ topics' \in [orders : Seq(Nat), fills : Seq(Nat), position : Nat]
    BY <1>1, <1>6, OtherRecord DEF SendRecord, after, m
  <2>2. m \in Range(topics.orders)
    BY <1>6 DEF KafkaOK, m
  <2>3. faults = 0 => \A p \in outbox : p \in Range(topics.orders) => p \in after.acked
    BY <1>4 DEF KafkaOK, m
  <2> QED
    BY <1>1, <1>2, <1>3, <1>4, <1>6, <2>1, <2>2, <2>3 DEF KafkaOK, Delivering
<1>7. CASE kafka.of = "orders" /\ ~ kafka.half
  <2>1. topics' = [topics EXCEPT !.orders = Append(topics.orders, Min(Unsent))]
    BY <1>1, <1>7 DEF WithRecord
  <2>2. /\ topics' \in [orders : Seq(Nat), fills : Seq(Nat), position : Nat]
        /\ Range(topics'.orders) = Range(topics.orders) \cup {m}
    BY <1>1, <2>1, OrderRecord DEF m
  <2>3. faults = 0 => \A p \in outbox : p \in Range(topics.orders) => p \in kafka.acked
    BY <1>7 DEF KafkaOK
  <2>4. CASE Records(m) = 2
    <3>1. kafka' = [kafka EXCEPT !.half = TRUE]
      BY <1>7, <2>4 DEF SendRecord, m
    <3>2. /\ kafka' \in BridgeState /\ kafka'.half /\ kafka'.acked = kafka.acked
          /\ kafka'.pc = kafka.pc /\ kafka'.of = kafka.of /\ kafka'.batch = kafka.batch
      BY <3>1 DEF KafkaOK, BridgeState
    <3>3. Unsent' = Unsent /\ Min(Unsent') = m /\ Delivering /\ Delivering'
      BY <1>1, <1>7, <3>2 DEF Unsent, m, Delivering
    <3>4. /\ kafka.batch \subseteq outbox /\ kafka.acked \subseteq Range(topics'.orders)
          /\ Range(topics'.orders) \subseteq Committed
          /\ Committed \subseteq outbox \cup Range(topics'.orders)
          /\ faults = 0 => \A p \in outbox : p \in Range(topics'.orders) => p \in kafka.acked \/ p = m
      BY <1>2, <1>7, <2>2, <2>3, <3>3 DEF KafkaOK
    <3> QED
      BY <1>1, <1>2, <1>3, <2>2, <3>2, <3>3, <3>4 DEF KafkaOK
  <2>5. CASE Records(m) # 2
    <3>1. kafka' = after
      BY <1>7, <2>5 DEF SendRecord, m, after
    <3>2. Delivering /\ Delivering'
      BY <1>1, <1>4, <1>7, <3>1 DEF Delivering
    <3>3. /\ kafka.batch \subseteq outbox /\ after.acked \subseteq Range(topics'.orders)
          /\ Range(topics'.orders) \subseteq Committed
          /\ Committed \subseteq outbox \cup Range(topics'.orders)
          /\ faults = 0 => \A p \in outbox : p \in Range(topics'.orders) => p \in after.acked
      BY <1>2, <1>4, <1>7, <2>2, <2>3, <3>2 DEF KafkaOK
    <3> QED
      BY <1>1, <1>2, <1>3, <1>4, <2>2, <3>1, <3>2, <3>3 DEF KafkaOK
  <2> QED
    BY <2>4, <2>5
<1>8. kafka.of \in {"orders", "positions"} /\ kafka.half \in BOOLEAN
  BY DEF KafkaOK, BridgeState
<1> QED
  BY <1>5, <1>6, <1>7, <1>8

LEMMA SendFailsKafka == ASSUME StoreOK, KafkaOK, SendFails PROVE KafkaOK'
<1> DEFINE m == Min(Unsent)
<1>1. /\ UNCHANGED <<reader, log, outbox, posbox, net>> /\ topics' \in {topics, WithRecord}
      /\ kafka.pc = "deliver" /\ Unsent # {} /\ faults' = faults + 1
  BY DEF SendFails, db, Fault
<1>2. /\ reader = "kafka" /\ faults' \in Nat /\ faults' # 0
      /\ kafka.of = "orders" => m \in Committed
  BY <1>1, NextRecord DEF KafkaOK
<1>3. Committed' = Committed
  BY <1>1 DEF Committed
<1>4. /\ kafka' \in BridgeState /\ ~ kafka'.half /\ kafka'.acked = kafka.acked
      /\ kafka'.pc = "ack" /\ kafka'.of = kafka.of /\ kafka'.batch = kafka.batch
  BY DEF SendFails, KafkaOK, BridgeState
<1>5. Delivering' = Delivering
  BY <1>1, <1>4 DEF Delivering
<1>6. /\ topics' \in [orders : Seq(Nat), fills : Seq(Nat), position : Nat]
      /\ Range(topics.orders) \subseteq Range(topics'.orders)
      /\ Range(topics'.orders) \subseteq Committed
  <2>1. CASE topics' = topics
    BY <2>1 DEF KafkaOK
  <2>2. CASE topics' = WithRecord /\ (kafka.of = "positions" \/ kafka.half)
    BY <1>1, <2>2, OtherRecord DEF KafkaOK
  <2>3. CASE topics' = WithRecord /\ ~ (kafka.of = "positions" \/ kafka.half)
    <3>1. topics' = [topics EXCEPT !.orders = Append(topics.orders, m)] /\ kafka.of = "orders"
      BY <2>3 DEF WithRecord, KafkaOK, BridgeState
    <3> QED
      BY <1>1, <1>2, <3>1, OrderRecord DEF KafkaOK
  <2> QED
    BY <1>1, <2>1, <2>2, <2>3
<1> QED
  BY <1>1, <1>2, <1>3, <1>4, <1>5, <1>6 DEF KafkaOK

LEMMA AckKafka == ASSUME StoreOK, KafkaOK, Ack PROVE KafkaOK'
<1>1. /\ UNCHANGED <<reader, log, net, topics, faults>> /\ kafka.pc = "ack"
      /\ kafka' = [Idle EXCEPT !.pc = IF kafka.failed THEN "retry" ELSE "drain"]
  BY DEF Ack
<1>2. Committed' = Committed
  BY <1>1 DEF Committed
<1>3. kafka' \in BridgeState /\ ~ Delivering' /\ ~ kafka'.half
  BY <1>1 DEF Idle, BridgeState, Delivering
<1>4. reader = "kafka"
  BY <1>1 DEF KafkaOK, Idle
<1>5. CASE kafka.of = "orders"
  <2>1. outbox' = outbox \ kafka.acked /\ posbox' = posbox /\ Delivering
    BY <1>1, <1>5 DEF Ack, Delivering
  <2>2. kafka.acked \subseteq Range(topics.orders)
    BY <2>1 DEF KafkaOK
  <2>3. faults = 0 => \A p \in outbox : p \in Range(topics.orders) => p \in kafka.acked
    BY <1>1 DEF KafkaOK
  <2> QED
    BY <1>1, <1>2, <1>3, <1>4, <2>1, <2>2, <2>3 DEF KafkaOK
<1>6. CASE kafka.of # "orders"
  <2>1. outbox' = outbox /\ posbox' \subseteq posbox /\ ~ Delivering
    BY <1>6 DEF Ack, Delivering
  <2> QED
    BY <1>1, <1>2, <1>3, <1>4, <2>1 DEF KafkaOK
<1> QED
  BY <1>5, <1>6

LEMMA KafkaStepOK == StoreOK /\ KafkaOK /\ [Next]_vars => KafkaOK'
<1> SUFFICES ASSUME StoreOK, KafkaOK, [Next]_vars PROVE KafkaOK'
  OBVIOUS
<1>1. ASSUME NEW o \in Orders, Commit(o) PROVE KafkaOK'
  BY <1>1, CommitKafka
<1>2. CASE FetchBatch
  BY <1>2, FetchKafka
<1>3. CASE SendRecord
  BY <1>3, SendKafka
<1>4. CASE SendFails
  BY <1>4, SendFailsKafka
<1>5. CASE Ack
  BY <1>5, AckKafka
<1>6. CASE Delivered
  <2>1. /\ UNCHANGED <<reader, log, outbox, posbox, net, topics, faults>>
        /\ kafka.pc = "deliver" /\ Unsent = {} /\ kafka' = [kafka EXCEPT !.pc = "ack"]
    BY <1>6 DEF Delivered, db
  <2>2. /\ kafka' \in BridgeState /\ kafka'.half = kafka.half /\ kafka'.acked = kafka.acked
        /\ kafka'.pc = "ack" /\ kafka'.of = kafka.of /\ kafka'.batch = kafka.batch
    BY <2>1 DEF KafkaOK, BridgeState
  <2>3. ~ kafka.half /\ reader = "kafka"
    BY <2>1 DEF KafkaOK, Idle
  <2>4. Delivering' = Delivering /\ Committed' = Committed
    BY <2>1, <2>2 DEF Delivering, Committed
  <2> QED
    BY <2>1, <2>2, <2>3, <2>4 DEF KafkaOK
<1>7. CASE Crash \/ AckFails \/ Wake
  <2>1. /\ UNCHANGED <<reader, log, outbox, posbox, net, topics>>
        /\ faults' \in {faults, faults + 1}
        /\ kafka' = Idle \/ kafka' = [Idle EXCEPT !.pc = "retry"]
    BY <1>7 DEF Crash, AckFails, Wake, Fault, db
  <2>2. kafka' \in BridgeState /\ ~ Delivering' /\ ~ kafka'.half
    <3>1. CASE kafka' = Idle
      BY <3>1 DEF Idle, BridgeState, Delivering
    <3>2. CASE kafka' = [Idle EXCEPT !.pc = "retry"]
      BY <3>2 DEF Idle, BridgeState, Delivering
    <3> QED
      BY <2>1, <3>1, <3>2
  <2>3. faults' = 0 => ~ Delivering
    BY <1>7 DEF Crash, AckFails, Wake, Fault, Delivering, KafkaOK
  <2>4. reader # "kafka" => kafka' = Idle
    BY <1>7 DEF Crash, AckFails, Wake, KafkaOK, Idle
  <2>5. Committed' = Committed /\ faults' \in Nat /\ (faults' = 0 => faults = 0)
    BY <2>1 DEF Committed, KafkaOK
  <2> QED
    BY <2>1, <2>2, <2>3, <2>4, <2>5 DEF KafkaOK
<1>8. CASE /\ UNCHANGED <<reader, log, outbox, posbox, net, kafka, topics>>
           /\ faults' \in {faults, faults + 1}
  <2>1. Committed' = Committed /\ Delivering' = Delivering /\ Unsent' = Unsent
    BY <1>8 DEF Committed, Delivering, Unsent
  <2>2. faults' \in Nat /\ (faults' = 0 => faults = 0)
    BY <1>8 DEF KafkaOK
  <2> QED
    BY <1>8, <2>1, <2>2 DEF KafkaOK
<1>9. CASE UNCHANGED vars
  BY <1>8, <1>9 DEF vars, db, bridge
<1>10. faults \in Nat
  BY DEF KafkaOK
<1> QED
  BY <1>1, <1>2, <1>3, <1>4, <1>5, <1>6, <1>7, <1>8, <1>9, <1>10, KafkaSteps

-----------------------------------------------------------------------------
(* The reports of a strategy                                               *)

\* The steps that touch what is owed and sent.
LEMMA FixSteps ==
  ASSUME Next
  PROVE  \/ \E o \in Orders : Insert(o) \/ Commit(o)
         \/ Crash \/ ReplayBegin \/ ReplayEnd \/ SendReport \/ DeleteRow \/ ReplayFails
         \/ UNCHANGED <<inserted, log, owed, sent, doubled, replay>>
  BY DEF Next, Rollback, Publish, KafkaStep, FetchBatch, SendRecord, Delivered, Ack, Wake, SendFails,
         AckFails, FixStep, HandleInbound, ReportLoop, Logon, Logout, Restart,
         UiStep, Opened, OnOrder, TakeFast, Notice, Subscribe, CloseScreen, db, session

LEMMA FixInit == Init => FixOK
<1> SUFFICES ASSUME Init PROVE FixOK
  OBVIOUS
<1>1. Committed = {} /\ sent \in Seq(Nat) /\ Range(sent) = {}
  BY DEF Init, Committed, Range
<1> QED
  BY <1>1 DEF Init, FixOK, ReportsKept, NoReplay

\* The next report is the oldest owed one of the replay.
LEMMA NextReport ==
  ASSUME StoreOK, FixOK, replay.rows # {}
  PROVE  /\ Min(replay.rows) \in replay.rows /\ Min(replay.rows) \in Nat
         /\ \A p \in replay.rows : Min(replay.rows) <= p
         /\ Min(replay.rows) \in owed /\ Min(replay.rows) \in Committed
<1>1. replay.rows \in SUBSET Nat
  BY DEF FixOK
<1> QED
  BY <1>1, MinLeast DEF FixOK

LEMMA CommitFix ==
  ASSUME StoreOK, FixOK, NEW o \in Orders, Commit(o)
  PROVE  FixOK'
<1> DEFINE c == open[o]
<1>1. /\ replay' = replay /\ sent' = sent /\ doubled' = doubled /\ inserted' = inserted
      /\ owed' = IF TypeOf(c) \in Reported THEN owed \cup {c} ELSE owed
  BY DEF Commit, session
<1>2. /\ c \in Nat /\ c \notin Committed /\ Committed' = Committed \cup {c}
      /\ Range(log'[o]) = Range(log[o]) \cup {c} /\ \A p \in Range(log[o]) : p < c
      /\ \A q \in Orders \ {o} : Range(log'[q]) = Range(log[q]) /\ c \notin Range(log[q])
  BY CommitAdds DEF StoreOK
<1> HIDE DEF c
<1>3. \A p : TypeOf(p)' = TypeOf(p)
  BY <1>1 DEF TypeOf
<1>4. /\ owed' \subseteq {p \in Committed' : TypeOf(p)' \in Reported}
      /\ Range(sent) \subseteq Committed' /\ replay.rows \subseteq owed'
  BY <1>1, <1>2, <1>3 DEF FixOK
<1>5. ReportsKept'
  BY <1>1, <1>2, <1>3 DEF FixOK, ReportsKept
<1>6. ASSUME NEW q \in Orders, NEW p \in replay.rows, NEW x \in Range(log'[q]),
             p \in Range(log'[q]), x < p, x \in owed'
      PROVE  x \in replay.rows
  <2>1. p \in Committed /\ p # c
    BY <1>2, <1>6 DEF FixOK
  <2>2. p \in Nat /\ p \in Range(log[q])
    BY <1>2, <1>6, <2>1, CommittedOf
  <2>3. CASE x = c
    <3>1. q = o
      BY <1>2, <1>6, <2>3
    <3> QED
      BY <1>2, <1>6, <2>2, <2>3, <3>1
  <2>4. CASE x # c
    <3>1. x \in Range(log[q]) /\ x \in owed
      BY <1>1, <1>2, <1>6, <2>4
    <3> QED
      BY <1>6, <2>2, <3>1 DEF FixOK
  <2> QED
    BY <2>3, <2>4
<1>7. ASSUME ~ doubled, NEW p \in owed', p \in Range(sent)
      PROVE  replay.pc = "delete" /\ p = Min(replay.rows)
  <2>1. p # c /\ p \in owed
    BY <1>1, <1>2, <1>7 DEF FixOK
  <2> QED
    BY <1>7, <2>1 DEF FixOK
<1> QED
  BY <1>1, <1>4, <1>5, <1>6, <1>7 DEF FixOK

LEMMA FixStepOK == StoreOK /\ FixOK /\ [Next]_vars => FixOK'
<1> SUFFICES ASSUME StoreOK, FixOK, [Next]_vars PROVE FixOK'
  OBVIOUS
<1>1. ASSUME NEW o \in Orders, Insert(o) PROVE FixOK'
  <2>1. UNCHANGED <<log, owed, sent, doubled, replay>>
    BY <1>1 DEF Insert, session
  <2>2. Committed' = Committed
    BY <2>1 DEF Committed
  <2>3. \A p \in Committed : TypeOf(p)' = TypeOf(p)
    BY <1>1, InsertKeeps, CommittedOf DEF TypeOf
  <2> QED
    BY <2>1, <2>2, <2>3 DEF FixOK, ReportsKept
<1>2. ASSUME NEW o \in Orders, Commit(o) PROVE FixOK'
  BY <1>2, CommitFix
<1>3. CASE Crash \/ ReplayEnd \/ ReplayFails
  <2>1. /\ UNCHANGED <<inserted, log, owed, sent>> /\ replay' = NoReplay
        /\ doubled' \in BOOLEAN /\ (~ doubled' => ~ doubled /\ replay.pc # "delete")
    BY <1>3 DEF Crash, ReplayEnd, ReplayFails, Release, db, session, FixOK
  <2>2. Committed' = Committed /\ \A p : TypeOf(p)' = TypeOf(p)
    BY <2>1 DEF Committed, TypeOf
  <2> QED
    BY <2>1, <2>2 DEF FixOK, ReportsKept, NoReplay
<1>4. CASE ReplayBegin
  <2>1. /\ UNCHANGED <<inserted, log, owed, sent, doubled>>
        /\ replay' = [pc |-> "row", rows |-> owed] /\ replay.pc = "idle"
    BY <1>4 DEF ReplayBegin, db
  <2>2. Committed' = Committed /\ \A p : TypeOf(p)' = TypeOf(p)
    BY <2>1 DEF Committed, TypeOf
  <2>3. owed \subseteq Nat
    BY CommittedOf DEF FixOK
  <2> QED
    BY <2>1, <2>2, <2>3 DEF FixOK, ReportsKept
<1>5. CASE SendReport
  <2> DEFINE m == Min(replay.rows)
  <2>1. /\ UNCHANGED <<inserted, log, owed, doubled>> /\ replay' = [replay EXCEPT !.pc = "delete"]
        /\ replay.pc = "row" /\ replay.rows # {} /\ sent' = Append(sent, m)
    BY <1>5 DEF SendReport, db
  <2>2. m \in replay.rows /\ m \in Nat /\ m \in Committed
    BY <2>1, NextReport
  <2>3. sent' \in Seq(Nat) /\ Range(sent') = Range(sent) \cup {m}
    BY <2>1, <2>2, RangeAppend DEF FixOK
  <2>4. /\ replay' \in [pc : {"idle", "row", "delete"}, rows : SUBSET Nat]
        /\ replay'.pc = "delete" /\ replay'.rows = replay.rows
    BY <2>1 DEF FixOK
  <2>5. Committed' = Committed /\ \A p : TypeOf(p)' = TypeOf(p)
    BY <2>1 DEF Committed, TypeOf
  <2> HIDE DEF m
  <2>6. Min(replay'.rows) = m
    BY <2>4 DEF m
  <2> QED
    BY <2>1, <2>2, <2>3, <2>4, <2>5, <2>6 DEF FixOK, ReportsKept
<1>6. CASE DeleteRow
  <2> DEFINE m == Min(replay.rows)
  <2>1. /\ UNCHANGED <<inserted, log, sent, doubled>>
        /\ replay' = [pc |-> "row", rows |-> replay.rows \ {m}] /\ owed' = owed \ {m}
        /\ replay.pc = "delete"
    BY <1>6 DEF DeleteRow
  <2>2. m \in Range(sent) /\ m \in replay.rows
    BY <2>1, NextReport DEF FixOK
  <2>3. Committed' = Committed /\ \A p : TypeOf(p)' = TypeOf(p)
    BY <2>1 DEF Committed, TypeOf
  <2>4. ~ doubled => \A p \in owed : p \in Range(sent) => p = m
    BY DEF FixOK
  <2> HIDE DEF m
  <2> QED
    BY <2>1, <2>2, <2>3, <2>4 DEF FixOK, ReportsKept
<1>7. CASE UNCHANGED <<inserted, log, owed, sent, doubled, replay>>
  <2>1. Committed' = Committed /\ \A p : TypeOf(p)' = TypeOf(p)
    BY <1>7 DEF Committed, TypeOf
  <2> QED
    BY <1>7, <2>1 DEF FixOK, ReportsKept
<1>8. CASE UNCHANGED vars
  BY <1>7, <1>8 DEF vars, db, session
<1> QED
  BY <1>1, <1>2, <1>3, <1>4, <1>5, <1>6, <1>7, <1>8, FixSteps

-----------------------------------------------------------------------------
(* The refinements                                                         *)

Inv == StoreOK /\ KafkaOK /\ FixOK

LEMMA InvInit == Init => Inv
  BY StoreInit, KafkaInit, FixInit DEF Inv

LEMMA InvStep == Inv /\ [Next]_vars => Inv'
  BY StoreStep, KafkaStepOK, FixStepOK DEF Inv

\* An element of a sequence is at one of its indices.
LEMMA GivenIsRange ==
  ASSUME NEW s, NEW e
  PROVE  (\E i \in DOMAIN s : s[i] = e) <=> e \in Range(s)
  BY DEF Range

\* An event on the orders topic: every earlier one of its order is there, and it
\* is there already only after a failure.
LEMMA GiveOrder ==
  ASSUME Inv, NEW m, m = Min(Unsent), kafka.pc = "deliver", Unsent # {}, kafka.of = "orders",
         ~ kafka.half, UNCHANGED <<reader, log>>,
         topics' = [topics EXCEPT !.orders = Append(topics.orders, m)]
  PROVE  KafkaFeed!Next
<1>1. /\ reader = "kafka" /\ m \in Unsent /\ m \in Nat /\ m \in outbox /\ m \in Committed
      /\ \A p \in Unsent : m <= p
  BY NextRecord DEF Inv
<1>2. PICK o \in Orders : m \in Range(log[o])
  BY <1>1, CommittedOf DEF Inv
<1>3. OnTopic' = OnTopic /\ OnTopic[o] = Range(log[o])
  BY <1>1 DEF OnTopic
<1>4. ASSUME NEW d \in OnTopic[o], d < m PROVE KafkaFeed!Given(d)
  <2>1. d \in Range(log[o]) /\ d \in Committed /\ d \in Nat
    BY <1>3, <1>4 DEF Committed, Inv, StoreOK
  <2>2. Delivering /\ m \in kafka.batch
    BY <1>1 DEF Delivering, Unsent
  <2>3. CASE d \in outbox
    <3>1. d \in kafka.batch
      BY <1>2, <1>4, <2>1, <2>2, <2>3 DEF Inv, KafkaOK
    <3>2. ~ (m <= d)
      BY <1>1, <1>4, <2>1
    <3>3. d \in kafka.acked
      BY <1>1, <3>1, <3>2 DEF Unsent
    <3> QED
      BY <2>2, <3>3, GivenIsRange DEF KafkaFeed!Given, Inv, KafkaOK
  <2>4. CASE d \notin outbox
    BY <2>1, <2>4, GivenIsRange DEF KafkaFeed!Given, Inv, KafkaOK
  <2> QED
    BY <2>3, <2>4
<1>5. KafkaFeed!Given(m) => faults > 0
  <2> SUFFICES ASSUME m \in Range(topics.orders), faults = 0 PROVE FALSE
    BY GivenIsRange DEF KafkaFeed!Given, Inv, KafkaOK
  <2> QED
    BY <1>1 DEF Inv, KafkaOK, Unsent
<1>6. topics'.orders = Append(topics.orders, m)
  BY DEF Inv, KafkaOK
<1>7. KafkaFeed!Give(o, m)
  BY <1>3, <1>4, <1>5, <1>6 DEF KafkaFeed!Give
<1> QED
  BY <1>2, <1>3, <1>7 DEF KafkaFeed!Next

\* A step of the order path or of the bridge is a step of the ordered feed, or
\* leaves what the topic owes and was given as they are.
LEMMA KafkaRefines ==
  ASSUME Inv, Inv', [Next]_vars
  PROVE  [KafkaFeed!Next]_(KafkaFeed!feedVars)
<1> SUFFICES ASSUME Next PROVE KafkaFeed!Next \/ UNCHANGED <<OnTopic, topics.orders>>
  <2>1. CASE UNCHANGED vars
    <3>1. UNCHANGED <<OnTopic, topics.orders>>
      BY <2>1 DEF vars, db, bridge, OnTopic
    <3> QED
      BY <3>1 DEF KafkaFeed!feedVars
  <2> QED
    BY <2>1 DEF KafkaFeed!feedVars
<1>1. CASE reader # "kafka"
  <2>1. reader' = reader
    BY StoreSteps DEF Insert, Rollback, Commit, Crash
  <2> QED
    BY <1>1, <2>1 DEF OnTopic, Inv, KafkaOK
<1>2. ASSUME reader = "kafka", NEW o \in Orders, Commit(o) PROVE KafkaFeed!Next
  <2>1. /\ open[o] \in 1..Len(inserted) /\ Len(inserted) <= MaxInserts /\ Len(inserted) \in Nat
        /\ Range(log'[o]) = Range(log[o]) \cup {open[o]}
        /\ \A q \in Orders \ {o} : Range(log'[q]) = Range(log[q])
        /\ \A p \in Range(log[o]) : p < open[o]
    <3>1. StoreOK /\ Len(inserted) <= MaxInserts /\ Len(inserted) \in Nat
      BY DEF Inv, StoreOK
    <3> QED
      BY <1>2, <3>1, CommitAdds
  <2>2. open[o] \in 1..MaxInserts
    BY <2>1, FeedsAssumption DEF FeedsAssumption
  <2>3. reader' = reader /\ topics' = topics
    BY <1>2 DEF Commit, bridge
  <2>4. OnTopic' = [OnTopic EXCEPT ![o] = OnTopic[o] \cup {open[o]}] /\ OnTopic[o] = Range(log[o])
    BY <1>2, <2>1, <2>3 DEF OnTopic
  <2>5. KafkaFeed!Store(o, open[o])
    BY <2>1, <2>3, <2>4 DEF KafkaFeed!Store
  <2> QED
    BY <2>2, <2>5 DEF KafkaFeed!Next
<1>3. CASE SendRecord \/ SendFails
  <2>1. /\ kafka.pc = "deliver" /\ Unsent # {} /\ UNCHANGED <<reader, log>>
        /\ topics' \in {topics, WithRecord}
    BY <1>3 DEF SendRecord, SendFails, db
  <2>2. CASE topics' = WithRecord /\ kafka.of = "orders" /\ ~ kafka.half
    <3>1. topics' = [topics EXCEPT !.orders = Append(topics.orders, Min(Unsent))]
      BY <2>2 DEF WithRecord
    <3> QED
      BY <2>1, <2>2, <3>1, GiveOrder
  <2>3. CASE topics' = topics \/ kafka.of # "orders" \/ kafka.half
    <3>1. topics'.orders = topics.orders
      BY <2>1, <2>3, OtherRecord DEF Inv, KafkaOK, BridgeState
    <3> QED
      BY <2>1, <3>1 DEF OnTopic
  <2> QED
    BY <2>1, <2>2, <2>3
<1>4. CASE Crash \/ FetchBatch \/ Delivered \/ Ack \/ AckFails \/ Wake
  BY <1>4 DEF Crash, FetchBatch, Delivered, Ack, AckFails, Wake, db, OnTopic
<1>5. CASE UNCHANGED <<reader, log, outbox, posbox, net, kafka, topics>>
  BY <1>5 DEF OnTopic
<1>6. faults \in Nat
  BY DEF Inv, KafkaOK
<1> QED
  BY <1>1, <1>2, <1>3, <1>4, <1>5, <1>6, KafkaSteps

LEMMA KafkaRefinesInit == Init => KafkaFeed!Init
<1> SUFFICES ASSUME Init PROVE KafkaFeed!Init
  OBVIOUS
<1>1. OnTopic = [o \in Orders |-> {}]
  BY DEF Init, OnTopic, Range
<1> QED
  BY <1>1 DEF Init, KafkaFeed!Init

\* The bridge implements an ordered feed: whatever commits, fails, retries or
\* crashes, the orders topic gets nothing uncommitted, each order's events first
\* in their order, and one twice only after a failure.
THEOREM KafkaOrdered == Spec => KafkaInOrder
<1>1. Inv /\ Inv' /\ [Next]_vars => [KafkaFeed!Next]_(KafkaFeed!feedVars)
  BY KafkaRefines
<1> QED
  BY <1>1, InvInit, InvStep, KafkaRefinesInit, PTL DEF Spec, KafkaInOrder, KafkaFeed!Spec

\* A step is one of the feed of reports, or leaves it as it is.
LEMMA ReportsRefine ==
  ASSUME Inv, [Next]_vars
  PROVE  [ReportFeed!Next]_(ReportFeed!feedVars)
<1> SUFFICES ASSUME Next PROVE ReportFeed!Next \/ UNCHANGED <<Reports, sent>>
  <2>1. CASE UNCHANGED vars
    <3>1. UNCHANGED <<Reports, sent>>
      BY <2>1 DEF vars, db, session, Reports, TypeOf
    <3> QED
      BY <3>1 DEF ReportFeed!feedVars
  <2> QED
    BY <2>1 DEF ReportFeed!feedVars
<1>0. StoreOK /\ FixOK
  BY DEF Inv
<1>1. ASSUME NEW o \in Orders, Insert(o) PROVE UNCHANGED <<Reports, sent>>
  <2>1. log' = log /\ sent' = sent
    BY <1>1 DEF Insert, session
  <2>2. \A q \in Orders : \A p \in Range(log[q]) : TypeOf(p)' = TypeOf(p)
    BY <1>0, <1>1, InsertKeeps DEF TypeOf, StoreOK
  <2> QED
    BY <2>1, <2>2 DEF Reports
<1>2. ASSUME NEW o \in Orders, Commit(o) PROVE ReportFeed!Next \/ UNCHANGED <<Reports, sent>>
  <2> DEFINE c == open[o]
  <2>1. /\ c \in 1..Len(inserted) /\ Len(inserted) <= MaxInserts /\ Len(inserted) \in Nat
        /\ Range(log'[o]) = Range(log[o]) \cup {c}
        /\ \A q \in Orders \ {o} : Range(log'[q]) = Range(log[q])
        /\ \A p \in Range(log[o]) : p < c
    <3>1. Len(inserted) <= MaxInserts /\ Len(inserted) \in Nat
      BY <1>0 DEF StoreOK
    <3> QED
      BY <1>0, <1>2, <3>1, CommitAdds
  <2>2. c \in 1..MaxInserts
    BY <2>1, FeedsAssumption DEF FeedsAssumption
  <2>3. inserted' = inserted /\ sent' = sent /\ \A p : TypeOf(p)' = TypeOf(p)
    BY <1>2 DEF Commit, session, TypeOf
  <2> HIDE DEF c
  <2>4. CASE TypeOf(c) \in Reported
    <3>1. Reports' = [Reports EXCEPT ![o] = Reports[o] \cup {c}]
      BY <2>1, <2>3, <2>4 DEF Reports
    <3>2. \A p \in Reports[o] : p < c
      BY <2>1 DEF Reports
    <3>3. ReportFeed!Store(o, c)
      BY <2>3, <3>1, <3>2 DEF ReportFeed!Store
    <3> QED
      BY <2>2, <3>3 DEF ReportFeed!Next
  <2>5. CASE TypeOf(c) \notin Reported
    <3>1. \A q \in Orders : {p \in Range(log'[q]) : TypeOf(p)' \in Reported} = {p \in Range(log[q]) : TypeOf(p) \in Reported}
      BY <2>1, <2>3, <2>5
    <3> QED
      BY <2>3, <3>1 DEF Reports
  <2> QED
    BY <2>4, <2>5
<1>3. CASE SendReport
  <2> DEFINE m == Min(replay.rows)
  <2>1. /\ UNCHANGED <<inserted, log>> /\ sent' = Append(sent, m)
        /\ replay.pc = "row" /\ replay.rows # {}
    BY <1>3 DEF SendReport, db
  <2>2. /\ m \in replay.rows /\ m \in Nat /\ m \in owed /\ m \in Committed
        /\ \A p \in replay.rows : m <= p
    BY <1>0, <2>1, NextReport
  <2> HIDE DEF m
  <2>3. PICK o \in Orders : m \in Range(log[o])
    BY <1>0, <2>2, CommittedOf
  <2>4. Reports' = Reports /\ m \in Reports[o]
    BY <1>0, <2>1, <2>2, <2>3 DEF Reports, TypeOf, FixOK
  <2>5. ASSUME NEW d \in Reports[o], d < m PROVE ReportFeed!Given(d)
    <3>1. d \in Range(log[o]) /\ d \in Committed /\ d \in Nat /\ TypeOf(d) \in Reported
      BY <1>0, <2>5 DEF Reports, Committed, StoreOK
    <3>2. ~ (m <= d)
      BY <2>2, <2>5, <3>1
    <3>3. d \notin owed
      BY <1>0, <2>2, <2>3, <2>5, <3>1, <3>2 DEF FixOK
    <3>4. d \in Range(sent)
      BY <1>0, <3>1, <3>3 DEF FixOK, ReportsKept
    <3> QED
      BY <3>4, GivenIsRange DEF ReportFeed!Given
  <2>6. ReportFeed!Given(m) => doubled
    <3> SUFFICES ASSUME m \in Range(sent), ~ doubled PROVE FALSE
      BY GivenIsRange DEF ReportFeed!Given
    <3> QED
      BY <1>0, <2>1, <2>2 DEF FixOK
  <2>7. ReportFeed!Give(o, m)
    BY <2>1, <2>4, <2>5, <2>6 DEF ReportFeed!Give
  <2> QED
    BY <2>4, <2>7 DEF ReportFeed!Next
<1>4. CASE \/ Crash \/ ReplayBegin \/ ReplayEnd \/ DeleteRow \/ ReplayFails
           \/ UNCHANGED <<inserted, log, owed, sent, doubled, replay>>
  <2>1. UNCHANGED <<inserted, log, sent>>
    BY <1>4 DEF Crash, ReplayBegin, ReplayEnd, DeleteRow, ReplayFails, db
  <2> QED
    BY <2>1 DEF Reports, TypeOf
<1> QED
  BY <1>1, <1>2, <1>3, <1>4, FixSteps

LEMMA ReportsRefineInit == Init => ReportFeed!Init
<1> SUFFICES ASSUME Init PROVE ReportFeed!Init
  OBVIOUS
<1>1. Reports = [o \in Orders |-> {}]
  BY DEF Init, Reports, Range
<1> QED
  BY <1>1 DEF Init, ReportFeed!Init

\* What a strategy is sent is an ordered feed, and none of it is dropped, for any
\* number of sessions, replays, restarts of the acceptor and crashes.
THEOREM ReportsOrdered == Spec => ReportsInOrder
<1>1. Inv /\ [Next]_vars => [ReportFeed!Next]_(ReportFeed!feedVars)
  BY ReportsRefine
<1>2. Inv => ReportsKept
  BY DEF Inv, FixOK
<1> QED
  BY <1>1, <1>2, InvInit, InvStep, ReportsRefineInit, PTL DEF Spec, ReportsInOrder, ReportFeed!Spec

-----------------------------------------------------------------------------
(* A screen's socket                                                       *)

\* The head and the tail of a lane are all of it.
LEMMA LaneSplit ==
  ASSUME NEW s \in Seq(Messages), s # <<>>
  PROVE  Head(s) \in Messages /\ Tail(s) \in Seq(Messages) /\ Range(s) \subseteq {Head(s)} \cup Range(Tail(s))
<1>1. /\ Len(s) \in Nat /\ Len(s) # 0 /\ DOMAIN s = 1..Len(s) /\ Head(s) = s[1] /\ s[1] \in Messages
      /\ Tail(s) \in Seq(Messages) /\ DOMAIN Tail(s) = 1..(Len(s) - 1)
      /\ \A i \in 1..(Len(s) - 1) : Tail(s)[i] = s[i + 1]
  OBVIOUS
<1>2. ASSUME NEW x \in Range(s) PROVE x \in {Head(s)} \cup Range(Tail(s))
  <2>1. PICK i \in 1..Len(s) : x = s[i]
    BY <1>1 DEF Range
  <2>2. CASE i = 1
    BY <1>1, <2>1, <2>2
  <2>3. CASE i # 1
    <3>1. i - 1 \in DOMAIN Tail(s) /\ Tail(s)[i - 1] = x
      BY <1>1, <2>1, <2>3
    <3> QED
      BY <3>1 DEF Range
  <2> QED
    BY <2>2, <2>3
<1> QED
  BY <1>1, <1>2

\* A broadcast puts the message in the lane and pushes another out only with
\* the mark that says so.
LEMMA BroadcastAdds ==
  ASSUME NEW r \in Lane, NEW m \in Messages
  PROVE  /\ Broadcast(r, m) \in Lane /\ m \in Range(Broadcast(r, m).msgs)
         /\ r.lagged => Broadcast(r, m).lagged
         /\ Broadcast(r, m).lagged \/ Range(r.msgs) \subseteq Range(Broadcast(r, m).msgs)
<1>1. r.msgs \in Seq(Messages) /\ r.lagged \in BOOLEAN /\ LaneCap \in Nat \ {0}
  BY FeedsAssumption DEF Lane, FeedsAssumption
<1>2. CASE Len(r.msgs) < LaneCap
  <2>1. Broadcast(r, m) = [r EXCEPT !.msgs = Append(r.msgs, m)]
    BY <1>2 DEF Broadcast
  <2>2. Append(r.msgs, m) \in Seq(Messages) /\ Range(Append(r.msgs, m)) = Range(r.msgs) \cup {m}
    BY <1>1, RangeAppend
  <2> QED
    BY <1>1, <2>1, <2>2 DEF Lane
<1>3. CASE ~ (Len(r.msgs) < LaneCap)
  <2>1. Broadcast(r, m) = [r EXCEPT !.msgs = Append(Tail(r.msgs), m), !.lagged = TRUE]
    BY <1>3 DEF Broadcast
  <2>2. r.msgs # <<>>
    BY <1>1, <1>3
  <2>3. Tail(r.msgs) \in Seq(Messages)
    BY <1>1, <2>2, LaneSplit
  <2>4. /\ Append(Tail(r.msgs), m) \in Seq(Messages)
        /\ Range(Append(Tail(r.msgs), m)) = Range(Tail(r.msgs)) \cup {m}
    <3> DEFINE t == Tail(r.msgs)
    <3>1. t \in Seq(Messages)
      BY <2>3
    <3> HIDE DEF t
    <3>2. Append(t, m) \in Seq(Messages) /\ Range(Append(t, m)) = Range(t) \cup {m}
      BY <3>1, RangeAppend
    <3> QED
      BY <3>2 DEF t
  <2> QED
    BY <1>1, <2>1, <2>4 DEF Lane
<1> QED
  BY <1>2, <1>3

\* The steps that touch the screen or what it is told.
LEMMA UiSteps ==
  ASSUME Next
  PROVE  \/ \E o \in Orders : Insert(o) \/ Commit(o)
         \/ \E p \in unpublished : Publish(p)
         \/ Crash \/ Subscribe \/ Opened \/ OnOrder \/ TakeFast \/ CloseScreen
         \/ \E n \in {"orders", "positions", "resync"} : Notice(n)
         \/ UNCHANGED <<reader, inserted, unpublished, screen, stale>>
  BY DEF Next, Rollback, KafkaStep, FetchBatch, SendRecord, Delivered, Ack, Wake, SendFails,
         AckFails, FixStep, HandleInbound, ReportLoop, ReplayBegin, ReplayEnd, SendReport,
         DeleteRow, ReplayFails, Logon, Logout, Restart, UiStep, db, ui

LEMMA UiInit == Init => UiOK
<1> SUFFICES ASSUME Init PROVE UiOK
  OBVIOUS
<1>1. Receiver \in Lane
  BY DEF Receiver, Lane
<1> QED
  BY <1>1 DEF Init, UiOK, Closed

LEMMA PublishUi ==
  ASSUME StoreOK, UiOK, NEW p \in unpublished, Publish(p)
  PROVE  UiOK'
<1> DEFINE one == Broadcast(screen.lane, "order")
           two == Broadcast(one, "position")
           lane == IF TypeOf(p) \in Fills THEN two ELSE one
<1>1. /\ UNCHANGED <<reader, inserted, stale>> /\ unpublished' = unpublished \ {p}
      /\ screen' = IF screen.pc = "closed" THEN screen ELSE [screen EXCEPT !.lane = lane]
  BY DEF Publish, db
<1>0. "order" \in Messages /\ "position" \in Messages
  BY DEF Messages
<1>2. screen.lane \in Lane
  BY DEF UiOK
<1>3. /\ one \in Lane /\ "order" \in Range(one.msgs) /\ (screen.lane.lagged => one.lagged)
      /\ one.lagged \/ Range(screen.lane.msgs) \subseteq Range(one.msgs)
  BY <1>0, <1>2, BroadcastAdds
<1> HIDE DEF one
<1>4. /\ two \in Lane /\ "position" \in Range(two.msgs) /\ (one.lagged => two.lagged)
      /\ two.lagged \/ Range(one.msgs) \subseteq Range(two.msgs)
  BY <1>0, <1>3, BroadcastAdds
<1> HIDE DEF two
<1>5. /\ lane \in Lane /\ (screen.lane.lagged => lane.lagged)
      /\ lane.lagged \/ (/\ Range(screen.lane.msgs) \subseteq Range(lane.msgs) /\ "order" \in Range(lane.msgs)
                         /\ (TypeOf(p) \in Fills => "position" \in Range(lane.msgs)))
  BY <1>3, <1>4
<1> HIDE DEF lane
<1>6. \A q : TypeOf(q)' = TypeOf(q)
  BY <1>1 DEF TypeOf
<1>7. CASE screen.pc = "closed"
  BY <1>1, <1>7 DEF UiOK
<1>8. CASE screen.pc # "closed"
  <2>1. /\ screen' = [screen EXCEPT !.lane = lane]
        /\ screen'.lane = lane /\ screen'.pc = screen.pc /\ screen'.pending = screen.pending
        /\ screen'.out = screen.out /\ screen'.opened = screen.opened
    BY <1>1, <1>8 DEF UiOK
  <2>2. ASSUME screen.pc = "open", NEW what \in stale PROVE Noticed(what)'
    <3>1. Noticed(what) /\ what \in {"orders", "positions"}
      BY <2>2 DEF UiOK
    <3>2. CASE lane.lagged
      BY <2>1, <3>2 DEF Noticed
    <3>3. CASE ~ lane.lagged
      <4>1. /\ Range(screen.lane.msgs) \subseteq Range(lane.msgs) /\ "order" \in Range(lane.msgs)
            /\ (TypeOf(p) \in Fills => "position" \in Range(lane.msgs)) /\ ~ screen.lane.lagged
        BY <1>5, <3>3
      <4> QED
        BY <1>1, <1>6, <2>1, <3>1, <4>1 DEF Noticed
    <3> QED
      BY <3>2, <3>3
  <2>3. screen' \in [pc : {"closed", "subscribed", "open"}, lane : Lane,
                  pending : SUBSET {"orders", "positions", "resync"},
                  out : SUBSET {"orders", "positions", "resync"}, opened : Nat]
    BY <1>5, <2>1 DEF UiOK
  <2> QED
    BY <1>1, <2>1, <2>2, <2>3 DEF UiOK
<1> QED
  BY <1>7, <1>8

LEMMA UiStepOK == StoreOK /\ UiOK /\ [Next]_vars => UiOK'
<1> SUFFICES ASSUME StoreOK, UiOK, [Next]_vars PROVE UiOK'
  OBVIOUS
<1> DEFINE Notices == {"orders", "positions", "resync"}
           Screens == [pc : {"closed", "subscribed", "open"}, lane : Lane,
                       pending : SUBSET Notices, out : SUBSET Notices, opened : Nat]
<1>0. screen \in Screens /\ screen.lane \in Lane /\ screen.opened \in Nat
  BY DEF UiOK
<1>1. ASSUME NEW o \in Orders, Insert(o) PROVE UiOK'
  <2>1. UNCHANGED <<reader, unpublished, screen, stale>>
    BY <1>1 DEF Insert, ui
  <2>2. /\ Len(inserted) \in Nat /\ Len(inserted') = Len(inserted) + 1
        /\ \A p \in 1..Len(inserted) : inserted'[p] = inserted[p]
    BY <1>1, InsertKeeps
  <2>3. \A p \in unpublished : p \in 1..Len(inserted') /\ TypeOf(p)' = TypeOf(p)
    BY <2>2 DEF UiOK, TypeOf
  <2> QED
    BY <2>1, <2>3 DEF UiOK, Noticed
<1>2. ASSUME NEW o \in Orders, Commit(o) PROVE UiOK'
  <2> DEFINE c == open[o]
  <2>1. /\ UNCHANGED <<reader, inserted, screen>>
        /\ unpublished' = IF reader = "kafka" THEN {} ELSE unpublished \cup {c}
        /\ stale' = IF screen.pc = "closed" THEN stale
                    ELSE stale \cup {"orders"} \cup (IF TypeOf(c) \in Fills THEN {"positions"} ELSE {})
    BY <1>2 DEF Commit
  <2>2. c \in 1..Len(inserted)
    BY <1>2, CommitAdds
  <2> HIDE DEF c
  <2>3. \A p : TypeOf(p)' = TypeOf(p)
    BY <2>1 DEF TypeOf
  <2>4. unpublished' \subseteq 1..Len(inserted) /\ stale' \subseteq {"orders", "positions"}
    BY <2>1, <2>2 DEF UiOK
  <2>5. ASSUME screen.pc = "open", NEW what \in stale' PROVE Noticed(what)'
    <3>1. unpublished' = unpublished \cup {c}
      BY <2>1, <2>5 DEF UiOK
    <3>2. CASE what \in stale
      <4>1. Noticed(what)
        BY <2>5, <3>2 DEF UiOK
      <4> QED
        BY <2>1, <2>3, <3>1, <4>1 DEF Noticed
    <3>3. CASE what \notin stale
      <4>1. what = "orders" \/ TypeOf(c) \in Fills
        BY <2>1, <2>5, <3>3
      <4> QED
        BY <2>3, <3>1, <4>1 DEF Noticed
    <3> QED
      BY <3>2, <3>3
  <2> QED
    BY <2>1, <2>4, <2>5 DEF UiOK
<1>3. ASSUME NEW p \in unpublished, Publish(p) PROVE UiOK'
  BY <1>3, PublishUi
<1>4. CASE Crash \/ Subscribe \/ CloseScreen
  <2>1. /\ reader' = reader /\ inserted' = inserted /\ unpublished' \subseteq unpublished
        /\ stale' \subseteq {"orders", "positions"}
    BY <1>4 DEF Crash, Subscribe, CloseScreen, db
  <2>2. screen' \in Screens /\ screen'.pc # "open" /\ (screen'.pc # "closed" => reader = "ui")
    <3>1. Receiver \in Lane
      BY DEF Receiver, Lane
    <3>2. CASE Crash \/ CloseScreen
      <4>1. screen' = [Closed EXCEPT !.opened = screen.opened]
        BY <3>2 DEF Crash, CloseScreen
      <4> QED
        BY <1>0, <3>1, <4>1 DEF Closed
    <3>3. CASE Subscribe
      <4>1. screen' = [Closed EXCEPT !.pc = "subscribed", !.opened = screen.opened + 1] /\ reader = "ui"
        BY <3>3 DEF Subscribe
      <4> DEFINE n == screen.opened + 1
      <4>2. n \in Nat
        BY <1>0
      <4> HIDE DEF n
      <4>3. screen' = [Closed EXCEPT !.pc = "subscribed", !.opened = n]
        BY <4>1 DEF n
      <4> QED
        BY <3>1, <4>1, <4>2, <4>3 DEF Closed
    <3> QED
      BY <1>4, <3>2, <3>3
  <2> QED
    BY <2>1, <2>2 DEF UiOK
<1>5. CASE Opened
  <2>1. /\ UNCHANGED <<reader, inserted, unpublished>> /\ stale' = {}
        /\ screen' = [screen EXCEPT !.pc = "open"] /\ screen.pc = "subscribed"
    BY <1>5 DEF Opened, db
  <2>2. screen' \in Screens
    BY <1>0, <2>1
  <2> QED
    BY <2>1, <2>2 DEF UiOK
<1>6. CASE OnOrder
  <2> DEFINE l == screen.lane
             h == IF Head(l.msgs) = "order" THEN "orders" ELSE "positions"
  <2>1. UNCHANGED <<reader, inserted, unpublished, stale>> /\ screen.pc # "closed"
        /\ (l.lagged \/ l.msgs # <<>>)
    BY <1>6 DEF OnOrder, db, HasMessage
  <2>2. \A p : TypeOf(p)' = TypeOf(p)
    BY <2>1 DEF TypeOf
  <2>3. l.msgs \in Seq(Messages) /\ l.lagged \in BOOLEAN
    BY <1>0 DEF Lane
  <2>4. CASE l.lagged
    <3>1. screen' = [screen EXCEPT !.pending = screen.pending \cup {"resync"}, !.lane.lagged = FALSE]
      BY <1>6, <2>4 DEF OnOrder
    <3>2. screen' \in Screens /\ "resync" \in screen'.pending /\ screen'.pc = screen.pc
      BY <1>0, <2>3, <3>1 DEF Lane
    <3> QED
      BY <2>1, <3>2 DEF UiOK, Noticed
  <2>5. CASE ~ l.lagged
    <3>1. screen' = [screen EXCEPT !.lane.msgs = Tail(l.msgs), !.pending = screen.pending \cup {h}]
      BY <1>6, <2>5 DEF OnOrder
    <3>2. /\ Head(l.msgs) \in Messages /\ Tail(l.msgs) \in Seq(Messages)
          /\ Range(l.msgs) \subseteq {Head(l.msgs)} \cup Range(Tail(l.msgs))
      BY <2>1, <2>3, <2>5, LaneSplit
    <3>3. h \in {"orders", "positions"}
      OBVIOUS
    <3>4. /\ screen' \in Screens /\ screen'.pc = screen.pc /\ screen'.out = screen.out
          /\ screen'.pending = screen.pending \cup {h}
          /\ screen'.lane.msgs = Tail(l.msgs) /\ screen'.lane.lagged = l.lagged
      BY <1>0, <2>3, <3>1, <3>2, <3>3 DEF Lane
    <3>5. ASSUME NEW what \in {"orders", "positions"}, Noticed(what) PROVE Noticed(what)'
      <4>1. CASE (IF what = "orders" THEN "order" ELSE "position") \in Range(l.msgs)
        <5>1. CASE (IF what = "orders" THEN "order" ELSE "position") = Head(l.msgs)
          <6>1. h = what
            BY <5>1
          <6> QED
            BY <3>4, <6>1 DEF Noticed
        <5>2. CASE (IF what = "orders" THEN "order" ELSE "position") \in Range(Tail(l.msgs))
          BY <3>4, <5>2 DEF Noticed
        <5> QED
          BY <3>2, <4>1, <5>1, <5>2
      <4>2. CASE ~ ((IF what = "orders" THEN "order" ELSE "position") \in Range(l.msgs))
        BY <2>1, <2>2, <2>5, <3>4, <3>5, <4>2 DEF Noticed
      <4> QED
        BY <4>1, <4>2
    <3> QED
      BY <2>1, <3>4, <3>5 DEF UiOK
  <2> QED
    BY <2>4, <2>5
<1>7. CASE TakeFast
  <2>1. /\ UNCHANGED <<reader, inserted, unpublished, stale>>
        /\ screen' = [screen EXCEPT !.pending = {},
             !.out = screen.out \cup IF "resync" \in screen.pending THEN {"resync"} ELSE screen.pending]
    BY <1>7 DEF TakeFast, db
  <2>2. /\ screen' \in Screens /\ screen'.pc = screen.pc /\ screen'.lane = screen.lane
        /\ screen'.pending = {}
        /\ screen'.out = screen.out \cup IF "resync" \in screen.pending THEN {"resync"} ELSE screen.pending
    BY <1>0, <2>1
  <2>3. \A p : TypeOf(p)' = TypeOf(p)
    BY <2>1 DEF TypeOf
  <2>4. ASSUME NEW what \in stale, Noticed(what) PROVE Noticed(what)'
    BY <2>1, <2>2, <2>3, <2>4 DEF Noticed
  <2> QED
    BY <2>1, <2>2, <2>4 DEF UiOK
<1>8. ASSUME NEW n \in Notices, Notice(n) PROVE UiOK'
  <2>1. /\ UNCHANGED <<reader, inserted, unpublished>> /\ screen.pc = "open"
        /\ screen' = [screen EXCEPT !.out = screen.out \ {n}]
        /\ stale' = IF n = "resync" THEN {} ELSE stale \ {n}
    BY <1>8 DEF Notice, db
  <2>2. /\ screen' \in Screens /\ screen'.pc = screen.pc /\ screen'.lane = screen.lane
        /\ screen'.pending = screen.pending /\ screen'.out = screen.out \ {n}
    BY <1>0, <2>1
  <2>3. \A p : TypeOf(p)' = TypeOf(p)
    BY <2>1 DEF TypeOf
  <2>4. ASSUME NEW what \in stale' PROVE Noticed(what)'
    <3>1. n # "resync" /\ what # n /\ what \in stale /\ Noticed(what)
      BY <2>1, <2>4 DEF UiOK
    <3> QED
      BY <2>1, <2>2, <2>3, <3>1 DEF Noticed
  <2>5. stale' \subseteq {"orders", "positions"}
    BY <2>1 DEF UiOK
  <2> QED
    BY <2>1, <2>2, <2>4, <2>5 DEF UiOK
<1>9. CASE UNCHANGED <<reader, inserted, unpublished, screen, stale>>
  <2>1. \A p : TypeOf(p)' = TypeOf(p)
    BY <1>9 DEF TypeOf
  <2> QED
    BY <1>9, <2>1 DEF UiOK, Noticed
<1>10. CASE UNCHANGED vars
  BY <1>9, <1>10 DEF vars, db, ui
<1> QED
  BY <1>1, <1>2, <1>3, <1>4, <1>5, <1>6, <1>7, <1>8, <1>9, <1>10, UiSteps

\* However late a screen subscribes, however often its lane overflows and its
\* notices are conflated: what it shows is up to date or a notice is on its way.
THEOREM ScreenTold == Spec => []ScreenKnows
<1>1. UiOK => ScreenKnows
  BY DEF UiOK, ScreenKnows, Noticed
<1> QED
  BY <1>1, StoreInit, StoreStep, UiInit, UiStepOK, PTL DEF Spec
=============================================================================

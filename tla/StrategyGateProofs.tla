------------------------- MODULE StrategyGateProofs -------------------------
(***************************************************************************)
(* For any number of orders, sessions, restarts, reloads, failures and     *)
(* operator actions: a killed strategy places nothing, Kill reaches every  *)
(* order and no FIX order works on unasked once its strategy is gone, but  *)
(* for what a failed statement left out.                                   *)
(*                                                                         *)
(* The three rest on what the strategy row's lock gives: the transaction   *)
(* that holds it is the only one between its checks and its commit, and    *)
(* the row it read is still the row (RowHeld).  NoneWorksUnattended must   *)
(* in addition speak of orders that passed the session gate and are not    *)
(* placed yet (Attended).                                                  *)
(***************************************************************************)
EXTENDS StrategyGate, FoldProofs, FiniteSetTheorems

\* The row a transaction read is the row as it is, and not that of a halted
\* strategy once the order passed its checks.
RowHeld ==
  \A o \in Orders :
    /\ order[o].pc \in Checking => order[o].row = strategy.state
    /\ order[o].pc = "checked" => order[o].row # "HALTED"

\* Only a restart boots.
BootAfterCrash == booting => spent.crashes > 0

\* The row has the state of the control action in progress, and is halted as
\* long as a Kill that reported no failure is the last word.
ControlRow ==
  /\ control.act # "none" => (control.act = "kill" <=> strategy.state = "HALTED")
  /\ cleared => strategy.state = "HALTED"

\* What Kill promises, from its listing on.
KillPast ==
  /\ cleared => Live \subseteq asked
  /\ strategy.state = "HALTED" /\ control.at \notin {"reload", "cancel"} /\ ~ booting =>
       \A o \in Live : Accounted(o) \/ (order[o].origin = "FLATTEN" /\ spent.crashes > 0)

\* Without a session, and with the cancels through, no FIX order is past the
\* session gate, and those placed were asked to cancel, but for what a failed
\* listing left out.
Attended ==
  ending = 0 /\ ~ booting /\ ~ session.live =>
    \A o \in Orders : order[o].origin = "FIX" =>
      /\ order[o].pc \in {"reading", "checked"} => o \in unsent
      /\ order[o].pc = "live" => Accounted(o)

\* The type of control.
ControlType == [act : Controls \cup {"none"},
                at : {"none", "reload", "cancel", "logout", "close_out"}]

\* An order not yet received has the type of an order record.
LEMMA NewOrderTyped == NewOrder \in OrderRecord
  BY DEF NewOrder, OrderRecord, Origin, TradingState, Checking

\* An order dropped with its task is a closed record of no session.
LEMMA GoneTyped ==
  ASSUME TypeOK, NEW o \in Orders
  PROVE  Gone(o) \in OrderRecord /\ Gone(o).pc = "closed" /\ Gone(o).origin = "API"
<1>1. order[o].side \in {1, -1}
  BY DEF TypeOK, OrderRecord
<1> QED
  BY <1>1, NewOrderTyped DEF Gone, NewOrder, OrderRecord

\* Receiving an order moves that order from idle to begin, and no other.
LEMMA ReceiveTyped ==
  ASSUME TypeOK, NEW o \in Orders, NEW origin \in Origin, NEW side \in {1, -1},
         NEW qty \in Nat, Receive(o, origin, side, qty)
  PROVE  /\ order' \in [Orders -> OrderRecord]
         /\ order[o].pc = "idle" /\ order'[o].pc = "begin"
         /\ \A p \in Orders \ {o} : order'[p] = order[p]
<1> DEFINE r == [NewOrder EXCEPT !.pc = "begin", !.origin = origin, !.side = side,
                   !.qty = qty]
<1>2. r \in OrderRecord /\ r.pc = "begin"
  BY NewOrderTyped DEF NewOrder, OrderRecord
<1>3. order' = [order EXCEPT ![o] = r] /\ order[o].pc = "idle"
  BY DEF Receive
<1> QED
  BY <1>2, <1>3 DEF TypeOK

\* Updating one field of one order keeps the type.
LEMMA UpdateTyped ==
  ASSUME TypeOK, NEW o \in Orders, NEW r \in OrderRecord
  PROVE  /\ [order EXCEPT ![o] = r] \in [Orders -> OrderRecord]
         /\ [order EXCEPT ![o] = r][o] = r
         /\ \A p \in Orders \ {o} : [order EXCEPT ![o] = r][p] = order[p]
  BY DEF TypeOK

\* What cancel_open leaves: every order it lists, and every order past its checks,
\* is asked to cancel or left out by a failure, and without one all are asked.
LEMMA CancelAccounts ==
  ASSUME TypeOK, NEW keep \in BOOLEAN, CancelOpen(keep)
  PROVE  /\ asked \subseteq asked' /\ unsent \subseteq unsent'
         /\ asked' \subseteq Orders /\ unsent' \subseteq Orders
         /\ spent' \in [controls : Nat, reloads : Nat, crashes : Nat, faults : Nat]
         /\ spent'.crashes = spent.crashes
         /\ \A o \in Live : o \in asked' \cup unsent' \/ (keep /\ order[o].origin = "FLATTEN")
         /\ \A o \in Orders : order[o].pc \in {"reading", "checked"} =>
              o \in unsent' \/ (keep /\ order[o].origin = "FLATTEN")
         /\ spent' = spent =>
              \A o \in Live : o \in asked' \/ (keep /\ order[o].origin = "FLATTEN")
<1>0. spent \in [controls : Nat, reloads : Nat, crashes : Nat, faults : Nat]
  BY DEF TypeOK
<1>1. Fault => /\ spent' \in [controls : Nat, reloads : Nat, crashes : Nat, faults : Nat]
               /\ spent'.crashes = spent.crashes /\ spent' # spent
  BY <1>0 DEF Fault
<1>2. /\ Listed(keep) \subseteq Live /\ Live \subseteq Orders
      /\ \A o \in Live : o \in Listed(keep) \/ (keep /\ order[o].origin = "FLATTEN")
  BY DEF Listed, Live
<1>3. CASE lock = "free" /\ Ask(Listed(keep))
  <2>1. PICK failed \in SUBSET Listed(keep) :
          /\ asked' = asked \cup (Listed(keep) \ failed)
          /\ unsent' = unsent \cup failed
          /\ IF failed = {} THEN UNCHANGED spent ELSE Fault
    BY <1>3 DEF Ask
  <2>2. \A o \in Orders : order[o].pc \notin {"reading", "checked"}
    BY <1>3, GateAssumption DEF TypeOK, GateAssumption, Checking
  <2>3. asked \subseteq Orders /\ unsent \subseteq Orders
    BY DEF TypeOK
  <2>4. CASE failed = {}
    BY <1>0, <1>2, <2>1, <2>2, <2>3, <2>4
  <2>5. CASE failed # {}
    BY <1>1, <1>2, <2>1, <2>2, <2>3, <2>5
  <2> QED
    BY <2>4, <2>5
<1>4. CASE ListingFails(keep)
  <2>1. unsent' = unsent \cup Listed(keep) \cup Passed(keep) /\ asked' = asked /\ Fault
    BY <1>4 DEF ListingFails
  <2>2. /\ Passed(keep) \subseteq Orders
        /\ \A o \in Orders : order[o].pc \in {"reading", "checked"} =>
              o \in Passed(keep) \/ (keep /\ order[o].origin = "FLATTEN")
    BY DEF Passed
  <2>3. asked \subseteq Orders /\ unsent \subseteq Orders
    BY DEF TypeOK
  <2> QED
    BY <1>1, <1>2, <2>1, <2>2, <2>3
<1> QED
  BY <1>3, <1>4 DEF CancelOpen

\* Every step keeps the types, and the row lock with the one submit inside.
LEMMA TypeStep == TypeOK /\ [Next]_vars => TypeOK'
<1> SUFFICES ASSUME TypeOK, [Next]_vars PROVE TypeOK'
  OBVIOUS
<1> USE GateAssumption
<1>1. ASSUME ReceiveApi PROVE TypeOK'
  <2>1. PICK o \in Orders, side \in {1, -1}, qty \in Quantities : Receive(o, "API", side, qty)
    BY <1>1 DEF ReceiveApi
  <2>2. /\ order' \in [Orders -> OrderRecord]
        /\ order[o].pc = "idle" /\ order'[o].pc = "begin"
        /\ \A p \in Orders \ {o} : order'[p] = order[p]
    BY <2>1, ReceiveTyped DEF GateAssumption, Origin
  <2> QED
    BY <1>1, <2>2 DEF ReceiveApi, history, TypeOK, Checking
<1>2. ASSUME ReceiveFix PROVE TypeOK'
  <2>1. PICK o \in Orders, side \in {1, -1}, qty \in Quantities : Receive(o, "FIX", side, qty)
    BY <1>2 DEF ReceiveFix
  <2>2. /\ order' \in [Orders -> OrderRecord]
        /\ order[o].pc = "idle" /\ order'[o].pc = "begin"
        /\ \A p \in Orders \ {o} : order'[p] = order[p]
    BY <2>1, ReceiveTyped DEF GateAssumption, Origin
  <2> QED
    BY <1>2, <2>2 DEF ReceiveFix, history, TypeOK, Checking
<1>3. ASSUME NEW o \in Orders, LockRow(o) PROVE TypeOK'
  <2> DEFINE r == [order[o] EXCEPT !.pc = "locked", !.row = strategy.state]
  <2>10. order[o] \in OrderRecord /\ strategy.state \in TradingState
    BY DEF TypeOK, Row
  <2>1. r \in OrderRecord /\ r.pc = "locked"
    BY <2>10 DEF OrderRecord, Checking
  <2>2. order' = [order EXCEPT ![o] = r]
    BY <1>3 DEF LockRow, history, TypeOK
  <2> HIDE DEF r
  <2>3. /\ order' \in [Orders -> OrderRecord] /\ order'[o] = r
        /\ \A p \in Orders \ {o} : order'[p] = order[p]
    BY <2>1, <2>2, UpdateTyped
  <2> QED
    BY <1>3, <2>1, <2>3 DEF LockRow, history, TypeOK, Checking
<1>4. ASSUME NEW o \in Orders, ReadPosition(o) PROVE TypeOK'
  <2> DEFINE r == [order[o] EXCEPT !.pc = "reading", !.seen = position]
  <2>10. order[o] \in OrderRecord /\ position \in Int
    BY DEF TypeOK
  <2>1. r \in OrderRecord /\ r.pc = "reading"
    BY <2>10 DEF OrderRecord, Checking
  <2>2. order' = [order EXCEPT ![o] = r] /\ order[o].pc = "locked"
    BY <1>4 DEF ReadPosition, history, TypeOK
  <2> HIDE DEF r
  <2>3. /\ order' \in [Orders -> OrderRecord] /\ order'[o] = r
        /\ \A p \in Orders \ {o} : order'[p] = order[p]
    BY <2>1, <2>2, UpdateTyped
  <2> QED
    BY <1>4, <2>1, <2>2, <2>3 DEF ReadPosition, history, TypeOK, Checking
<1>5. ASSUME NEW o \in Orders, ReadWorking(o) PROVE TypeOK'
  <2> DEFINE r == [order[o] EXCEPT !.pc = "checked", !.seen = 0]
  <2>10. order[o] \in OrderRecord /\ 0 \in Int
    BY DEF TypeOK
  <2>11. "checked" \in {"idle", "begin", "live", "closed"} \cup Checking
    BY DEF Checking
  <2>1. r \in OrderRecord /\ r.pc = "checked"
    BY <2>10, <2>11 DEF OrderRecord
  <2>2. order' = [order EXCEPT ![o] = r] /\ order[o].pc = "reading"
    BY <1>5 DEF ReadWorking, history, TypeOK
  <2> HIDE DEF r
  <2>3. /\ order' \in [Orders -> OrderRecord] /\ order'[o] = r
        /\ \A p \in Orders \ {o} : order'[p] = order[p]
    BY <2>1, <2>2, UpdateTyped
  <2> QED
    BY <1>5, <2>1, <2>2, <2>3 DEF ReadWorking, history, TypeOK, Checking
<1>6. ASSUME NEW o \in Orders, Admit(o) PROVE TypeOK'
  <2> DEFINE r == [order[o] EXCEPT !.pc = "live", !.leaves = order[o].qty, !.row = "ACTIVE"]
  <2>10. order[o] \in OrderRecord
    BY DEF TypeOK
  <2>1. r \in OrderRecord /\ r.pc = "live"
    BY <2>10 DEF OrderRecord, TradingState
  <2>2. order' = [order EXCEPT ![o] = r] /\ order[o].pc = "checked"
    BY <1>6 DEF Admit, history, TypeOK
  <2> HIDE DEF r
  <2>3. /\ order' \in [Orders -> OrderRecord] /\ order'[o] = r
        /\ \A p \in Orders \ {o} : order'[p] = order[p]
    BY <2>1, <2>2, UpdateTyped
  <2> QED
    BY <1>6, <2>1, <2>2, <2>3 DEF Admit, history, TypeOK, Checking, GateAssumption
<1>7. ASSUME NEW o \in Orders, Refuse(o) PROVE TypeOK'
  <2>1. /\ order' \in [Orders -> OrderRecord] /\ order'[o].pc = "closed"
        /\ \A p \in Orders \ {o} : order'[p] = order[p]
    BY <1>7, GoneTyped, UpdateTyped DEF Refuse
  <2> QED
    BY <1>7, <2>1 DEF Refuse, Forget, TypeOK, Checking, GateAssumption
<1>8. ASSUME NEW o \in Orders, Fill(o) PROVE TypeOK'
  <2>1. PICK q \in 1..order[o].leaves :
          /\ order' = [order EXCEPT ![o] = AfterFill(o, q)]
          /\ position' = position + Signed(o, q)
          /\ missed' = missed + IF \E p \in Orders : order[p].pc = "reading" THEN q ELSE 0
          /\ IF q = order[o].leaves THEN Forget(o) ELSE UNCHANGED <<asked, unsent>>
    BY <1>8 DEF Fill
  <2> DEFINE r == AfterFill(o, q)
  <2>2. order[o] \in OrderRecord /\ order[o].pc = "live"
    BY <1>8 DEF Fill, Live, TypeOK
  <2>3. q \in Nat /\ order[o].leaves - q \in Nat
    BY <2>2 DEF OrderRecord
  <2>4. r \in OrderRecord /\ r.pc \in {"live", "closed"}
    BY <2>2, <2>3, GoneTyped DEF AfterFill, OrderRecord
  <2>5. order' = [order EXCEPT ![o] = r]
    BY <2>1
  <2> HIDE DEF r
  <2>6. /\ order' \in [Orders -> OrderRecord] /\ order'[o] = r
        /\ \A p \in Orders \ {o} : order'[p] = order[p]
    BY <2>4, <2>5, UpdateTyped
  <2>7. Signed(o, q) \in Int
    BY <2>2, <2>3 DEF Signed, OrderRecord
  <2>8. position' \in Int /\ missed' \in Nat
    BY <2>1, <2>3, <2>7 DEF TypeOK
  <2>9. asked' \subseteq Orders /\ unsent' \subseteq Orders
    BY <2>1 DEF Forget, TypeOK
  <2> QED
    BY <1>8, <2>2, <2>4, <2>6, <2>8, <2>9 DEF Fill, TypeOK, Checking
<1>9. ASSUME NEW o \in Orders, Close(o) PROVE TypeOK'
  <2>1. /\ order' \in [Orders -> OrderRecord] /\ order'[o].pc = "closed"
        /\ \A p \in Orders \ {o} : order'[p] = order[p]
    BY <1>9, GoneTyped, UpdateTyped DEF Close
  <2> QED
    BY <1>9, <2>1 DEF Close, Forget, Live, TypeOK, Checking
<1>10. ASSUME SetState PROVE TypeOK'
  <2>1. strategy' \in Row
    BY <1>10 DEF SetState, Row, TradingState, GateAssumption
  <2>2. control' \in ControlType
    BY <1>10 DEF SetState, ControlType
  <2>3. spent' \in [controls : Nat, reloads : Nat, crashes : Nat, faults : Nat]
    BY <1>10 DEF SetState, TypeOK
  <2> QED
    BY <1>10, <2>1, <2>2, <2>3 DEF SetState, TypeOK, ControlType
<1>11. ASSUME StopStrategy PROVE TypeOK'
  <2>1. /\ asked' \subseteq Orders /\ unsent' \subseteq Orders
        /\ spent' \in [controls : Nat, reloads : Nat, crashes : Nat, faults : Nat]
    BY <1>11, CancelAccounts DEF StopStrategy
  <2>2. control' \in ControlType /\ cleared' \in BOOLEAN
    BY <1>11 DEF StopStrategy, TypeOK, ControlType
  <2> QED
    BY <1>11, <2>1, <2>2 DEF StopStrategy, TypeOK, ControlType
<1>12. ASSUME CloseOut PROVE TypeOK'
  <2>1. PICK o \in Orders :
          Receive(o, "FLATTEN", IF position > 0 THEN -1 ELSE 1, Abs(position))
    BY <1>12 DEF CloseOut
  <2>2. Abs(position) \in Nat
    BY DEF Abs, TypeOK
  <2>3. (IF position > 0 THEN -1 ELSE 1) \in {1, -1}
    OBVIOUS
  <2>4. /\ order' \in [Orders -> OrderRecord]
        /\ order[o].pc = "idle" /\ order'[o].pc = "begin"
        /\ \A p \in Orders \ {o} : order'[p] = order[p]
    BY <2>1, <2>2, <2>3, ReceiveTyped DEF Origin
  <2>5. control' \in ControlType
    BY <1>12 DEF CloseOut, ControlType, Idle
  <2> QED
    BY <1>12, <2>4, <2>5 DEF CloseOut, history, TypeOK, Checking, ControlType
<1>13. ASSUME SkipCloseOut PROVE TypeOK'
  BY <1>13 DEF SkipCloseOut, Idle, history, TypeOK
<1>14. ASSUME Enable PROVE TypeOK'
  BY <1>14 DEF Enable, Idle, history, TypeOK
<1>15. ASSUME ReloadQuery PROVE TypeOK'
  BY <1>15 DEF ReloadQuery, history, TypeOK
<1>16. ASSUME ReloadStore PROVE TypeOK'
  BY <1>16 DEF ReloadStore, history, TypeOK
<1>17. ASSUME LoggedOn PROVE TypeOK'
  <2>10. session \in [live : BOOLEAN, epoch : Nat, barred : BOOLEAN] /\ session.epoch + 1 \in Nat
    BY DEF TypeOK
  <2>11. session' = [session EXCEPT !.live = TRUE, !.epoch = session.epoch + 1]
    BY <1>17 DEF LoggedOn
  <2>1. session' \in [live : BOOLEAN, epoch : Nat, barred : BOOLEAN]
    BY <2>10, <2>11
  <2>2. ending' \in Nat
    BY <1>17 DEF LoggedOn, history, TypeOK
  <2> QED
    BY <1>17, <2>1, <2>2 DEF LoggedOn, history, TypeOK
<1>18. ASSUME LoggedOut PROVE TypeOK'
  <2>1. session' \in [live : BOOLEAN, epoch : Nat, barred : BOOLEAN]
    BY <1>18 DEF LoggedOut, history, TypeOK
  <2>2. ending' \in Nat
    BY <1>18 DEF LoggedOut, history, TypeOK
  <2> QED
    BY <1>18, <2>1, <2>2 DEF LoggedOut, history, TypeOK
<1>19. ASSUME OnSessionEnd PROVE TypeOK'
  <2>1. ending' \in Nat
    BY <1>19 DEF OnSessionEnd, TypeOK
  <2>2. /\ asked' \subseteq Orders /\ unsent' \subseteq Orders
        /\ spent' \in [controls : Nat, reloads : Nat, crashes : Nat, faults : Nat]
    BY <1>19, CancelAccounts DEF OnSessionEnd
  <2> QED
    BY <1>19, <2>1, <2>2 DEF OnSessionEnd, TypeOK
<1>20. ASSUME Crash PROVE TypeOK'
  <2>1. \A o \in Orders : order'[o] \in OrderRecord /\ order'[o].pc \notin Checking
    BY <1>20, GoneTyped DEF Crash, history, TypeOK, Checking
  <2>2. order' \in [Orders -> OrderRecord]
    BY <1>20, <2>1 DEF Crash
  <2>3. session' \in [live : BOOLEAN, epoch : Nat, barred : BOOLEAN]
    BY <1>20 DEF Crash, history, TypeOK
  <2>4. spent' \in [controls : Nat, reloads : Nat, crashes : Nat, faults : Nat]
    BY <1>20 DEF Crash, history, TypeOK
  <2>5. /\ ending' \in Nat /\ booting' \in BOOLEAN /\ loaded' \in Row \cup {NoRow}
        /\ control' \in ControlType
    BY <1>20 DEF Crash, ControlType, Idle
  <2>6. /\ lock' \in Orders \cup {"free"}
        /\ \A o \in Orders : order'[o].pc \in Checking <=> lock' = o
    BY <1>20, <2>1 DEF Crash, GateAssumption
  <2> QED
    BY <1>20, <2>2, <2>3, <2>4, <2>5, <2>6 DEF Crash, history, TypeOK, ControlType
<1>21. ASSUME BootRecovery PROVE TypeOK'
  <2>1. /\ asked' \subseteq Orders /\ unsent' \subseteq Orders
        /\ spent' \in [controls : Nat, reloads : Nat, crashes : Nat, faults : Nat]
    BY <1>21, CancelAccounts DEF BootRecovery
  <2> QED
    BY <1>21, <2>1 DEF BootRecovery, TypeOK
<1>22. ASSUME UNCHANGED vars PROVE TypeOK'
  BY <1>22 DEF vars, history, TypeOK
<1>23. ASSUME ReloadStopped PROVE TypeOK'
  BY <1>23 DEF ReloadStopped, history, TypeOK
<1>24. ASSUME LogOutStopped PROVE TypeOK'
  <2>1. session' \in [live : BOOLEAN, epoch : Nat, barred : BOOLEAN]
    BY <1>24 DEF LogOutStopped, TypeOK
  <2>2. control' \in ControlType
    BY <1>24 DEF LogOutStopped, TypeOK, ControlType, Idle
  <2> QED
    BY <1>24, <2>1, <2>2 DEF LogOutStopped, history, TypeOK, ControlType
<1>25. ASSUME AbandonControl PROVE TypeOK'
  <2>1. spent' \in [controls : Nat, reloads : Nat, crashes : Nat, faults : Nat]
    BY <1>25 DEF AbandonControl, Fault, TypeOK
  <2>2. control' \in ControlType /\ unsent' \subseteq Orders
    BY <1>25 DEF AbandonControl, Live, TypeOK, ControlType, Idle
  <2> QED
    BY <1>25, <2>1, <2>2 DEF AbandonControl, TypeOK, ControlType
<1>26. ASSUME BootUnloaded PROVE TypeOK'
  <2>1. /\ asked' \subseteq Orders /\ unsent' \subseteq Orders
        /\ spent' \in [controls : Nat, reloads : Nat, crashes : Nat, faults : Nat]
    BY <1>26, CancelAccounts DEF BootUnloaded, CancelOpen
  <2> QED
    BY <1>26, <2>1 DEF BootUnloaded, TypeOK
<1> QED
  BY <1>1, <1>2, <1>3, <1>4, <1>5, <1>6, <1>7, <1>8, <1>9, <1>10, <1>11, <1>12, <1>13,
     <1>14, <1>15, <1>16, <1>17, <1>18, <1>19, <1>20, <1>21, <1>22, <1>23, <1>24, <1>25,
     <1>26 DEF Next

Inv == TypeOK /\ RowHeld /\ BootAfterCrash /\ ControlRow /\ KillPast /\ Attended

\* With no order received there is nothing to cancel.
LEMMA InvInit == Init => Inv
<1> SUFFICES ASSUME Init PROVE Inv
  OBVIOUS
<1>1. \A o \in Orders : order[o].pc = "idle"
  BY DEF Init, NewOrder
<1>2. TypeOK
  <2>1. order \in [Orders -> OrderRecord]
    BY NewOrderTyped DEF Init
  <2>2. lock = "free" /\ \A o \in Orders : order[o].pc \in Checking <=> lock = o
    BY <1>1, GateAssumption DEF Init, Checking, GateAssumption
  <2>3. strategy \in Row /\ {snapshot, loaded} \subseteq Row \cup {NoRow}
    BY DEF Init, Row, TradingState
  <2>4. session \in [live : BOOLEAN, epoch : Nat, barred : BOOLEAN]
    BY DEF Init
  <2>5. spent \in [controls : Nat, reloads : Nat, crashes : Nat, faults : Nat]
    BY DEF Init
  <2>6. /\ position \in Int /\ missed \in Nat /\ ending \in Nat
        /\ asked \subseteq Orders /\ unsent \subseteq Orders
        /\ control \in ControlType
    BY DEF Init, ControlType, Idle
  <2>7. booting \in BOOLEAN /\ cleared \in BOOLEAN
    BY DEF Init
  <2> QED
    BY <2>1, <2>2, <2>3, <2>4, <2>5, <2>6, <2>7 DEF TypeOK, ControlType
<1>3. RowHeld /\ Attended
  BY <1>1 DEF RowHeld, Attended, Checking
<1>4. BootAfterCrash
  BY DEF Init, BootAfterCrash
<1>5. ControlRow /\ KillPast
  BY <1>1 DEF Init, Idle, ControlRow, KillPast, Live
<1> QED
  BY <1>2, <1>3, <1>4, <1>5 DEF Inv

\* A step on one order o that leaves the strategy, the sessions and the boot
\* alone, and forgets o's cancel only when it closes, keeps the invariant if o's
\* new record does.
LEMMA OneOrderStep ==
  ASSUME Inv, TypeOK', NEW o \in Orders,
         \A p \in Orders \ {o} : order'[p] = order[p],
         order'[o].pc \in Checking => order'[o].row = strategy.state,
         order'[o].pc = "checked" => order'[o].row # "HALTED",
         order'[o].pc = "live" => \/ order[o].pc = "live" /\ order'[o].origin = order[o].origin
                                 \/ /\ strategy.state # "HALTED"
                                    /\ order[o].pc = "checked"
                                    /\ order'[o].origin = order[o].origin,
         order'[o].pc \in {"reading", "checked"} /\ order'[o].origin = "FIX" =>
           \/ session.live
           \/ order[o].pc = "reading" /\ order[o].origin = "FIX",
         control' = control \/ (control' = Idle /\ control.at = "close_out"),
         asked \ {o} \subseteq asked', unsent \ {o} \subseteq unsent',
         order'[o].pc = "closed" \/ (asked \subseteq asked' /\ unsent \subseteq unsent'),
         UNCHANGED <<strategy, session, ending, booting, cleared, spent>>
  PROVE  Inv'
<1>1. RowHeld'
  BY DEF Inv, RowHeld
<1>2. BootAfterCrash' /\ ControlRow'
  BY DEF Inv, BootAfterCrash, ControlRow, Idle
<1>3. KillPast'
  <2>1. ASSUME cleared' PROVE Live' \subseteq asked'
    <3>1. strategy.state = "HALTED" /\ Live \subseteq asked
      BY <2>1 DEF Inv, ControlRow, KillPast
    <3> QED
      BY <3>1 DEF Live
  <2>2. ASSUME strategy'.state = "HALTED", control'.at \notin {"reload", "cancel"}, ~ booting',
               NEW p \in Live'
        PROVE  Accounted(p)' \/ (order'[p].origin = "FLATTEN" /\ spent'.crashes > 0)
    <3>1. p \in Live /\ order'[p].origin = order[p].origin
      BY <2>2 DEF Live
    <3>2. Accounted(p) \/ (order[p].origin = "FLATTEN" /\ spent.crashes > 0)
      BY <2>2, <3>1 DEF Inv, KillPast
    <3>3. Accounted(p) => Accounted(p)'
      BY <2>2 DEF Accounted, Live
    <3> QED
      BY <3>1, <3>2, <3>3
  <2> QED
    BY <2>1, <2>2 DEF KillPast
<1>4. Attended'
  <2> SUFFICES ASSUME ending' = 0, ~ booting', ~ session'.live,
                      NEW p \in Orders, order'[p].origin = "FIX"
               PROVE  /\ order'[p].pc \in {"reading", "checked"} => p \in unsent'
                      /\ order'[p].pc = "live" => Accounted(p)'
    BY DEF Attended
  <2>1. order[p].origin = "FIX" =>
          /\ order[p].pc \in {"reading", "checked"} => p \in unsent
          /\ order[p].pc = "live" => Accounted(p)
    BY DEF Inv, Attended
  <2> QED
    BY <2>1 DEF Accounted
<1> QED
  BY <1>1, <1>2, <1>3, <1>4 DEF Inv

\* A step that changes no order keeps it, if a change of the strategy's state
\* waits for the row and what Kill promises is kept.
LEMMA NoOrderStep ==
  ASSUME Inv, TypeOK', ControlRow',
         strategy' = strategy \/ lock = "free",
         cleared' => cleared \/ Live \subseteq asked',
         strategy'.state = "HALTED" /\ control'.at \notin {"reload", "cancel"} =>
           \/ strategy.state = "HALTED" /\ control.at \notin {"reload", "cancel"}
           \/ Live \subseteq asked' \cup unsent',
         booting' = booting, spent'.crashes = spent.crashes,
         asked \subseteq asked', unsent \subseteq unsent',
         ending' = 0 /\ ~ session'.live => ending = 0 /\ ~ session.live,
         order' = order
  PROVE  Inv'
<1>1. RowHeld'
  <2>1. CASE strategy' = strategy
    BY <2>1 DEF Inv, RowHeld
  <2>2. CASE lock = "free"
    BY <2>2, GateAssumption DEF Inv, TypeOK, GateAssumption, RowHeld, Checking
  <2> QED
    BY <2>1, <2>2
<1>2. BootAfterCrash'
  BY DEF Inv, BootAfterCrash
<1>3. KillPast'
  BY DEF Inv, KillPast, Accounted, Live
<1>4. Attended'
  BY DEF Inv, Attended, Accounted
<1> QED
  BY <1>1, <1>2, <1>3, <1>4 DEF Inv

\* The cancels that spare Flatten's orders, of a session's end or of the boot.
LEMMA CancelStep ==
  ASSUME Inv, TypeOK', CancelOpen(TRUE), booting' => booting,
         UNCHANGED <<strategy, order, session, control, cleared>>
  PROVE  Inv'
<1>1. /\ asked \subseteq asked' /\ unsent \subseteq unsent' /\ spent'.crashes = spent.crashes
      /\ \A o \in Live : o \in asked' \cup unsent' \/ order[o].origin = "FLATTEN"
      /\ \A o \in Orders : order[o].pc \in {"reading", "checked"} =>
           o \in unsent' \/ order[o].origin = "FLATTEN"
  BY CancelAccounts DEF Inv
<1>2. RowHeld' /\ BootAfterCrash' /\ ControlRow'
  BY <1>1 DEF Inv, RowHeld, BootAfterCrash, ControlRow
<1>3. KillPast'
  <2>1. cleared' => Live' \subseteq asked'
    BY <1>1 DEF Inv, KillPast, Live
  <2>2. booting => spent'.crashes > 0
    BY <1>1 DEF Inv, BootAfterCrash
  <2>3. \A o \in Live : Accounted(o) => Accounted(o)'
    BY <1>1 DEF Accounted
  <2>4. \A o \in Live : Accounted(o)' \/ order[o].origin = "FLATTEN"
    BY <1>1 DEF Accounted
  <2> QED
    BY <1>1, <2>1, <2>2, <2>3, <2>4 DEF Inv, KillPast, Live
<1>4. Attended'
  <2>1. \A o \in Orders : order'[o].origin = "FIX" /\ order'[o].pc = "live" =>
          o \in asked' \cup unsent'
    BY <1>1 DEF Live
  <2>2. \A o \in Orders :
          order'[o].origin = "FIX" /\ order'[o].pc \in {"reading", "checked"} => o \in unsent'
    BY <1>1
  <2> QED
    BY <2>1, <2>2 DEF Attended, Accounted
<1> QED
  BY <1>2, <1>3, <1>4 DEF Inv

\* Every step keeps the inductive invariant, one case per action of Next.
LEMMA InvStep == Inv /\ [Next]_vars => Inv'
<1> SUFFICES ASSUME Inv, [Next]_vars PROVE Inv'
  OBVIOUS
<1>0. TypeOK /\ TypeOK'
  BY TypeStep DEF Inv
<1> USE <1>0
<1>1. ASSUME ReceiveApi PROVE Inv'
  <2>1. PICK o \in Orders, side \in {1, -1}, qty \in Quantities : Receive(o, "API", side, qty)
    BY <1>1 DEF ReceiveApi
  <2>3. order'[o].pc = "begin" /\ \A p \in Orders \ {o} : order'[p] = order[p]
    BY <2>1, ReceiveTyped, GateAssumption DEF GateAssumption, Origin
  <2>4. UNCHANGED <<strategy, session, ending, booting, history, spent>>
    BY <1>1 DEF ReceiveApi
  <2>5. control' = control
    BY <1>1 DEF ReceiveApi
  <2> QED
    BY <2>3, <2>4, <2>5, OneOrderStep DEF Checking, history
<1>2. ASSUME ReceiveFix PROVE Inv'
  <2>1. PICK o \in Orders, side \in {1, -1}, qty \in Quantities : Receive(o, "FIX", side, qty)
    BY <1>2 DEF ReceiveFix
  <2>3. order'[o].pc = "begin" /\ \A p \in Orders \ {o} : order'[p] = order[p]
    BY <2>1, ReceiveTyped, GateAssumption DEF GateAssumption, Origin
  <2>4. UNCHANGED <<strategy, session, ending, booting, history, spent>>
    BY <1>2 DEF ReceiveFix
  <2>5. control' = control
    BY <1>2 DEF ReceiveFix
  <2> QED
    BY <2>3, <2>4, <2>5, OneOrderStep DEF Checking, history
<1>3. ASSUME NEW o \in Orders, LockRow(o) PROVE Inv'
  <2>1. \A p \in Orders \ {o} : order'[p] = order[p]
    BY <1>3 DEF LockRow, TypeOK
  <2>2. order'[o].pc = "locked" /\ order'[o].row = strategy.state
    BY <1>3 DEF LockRow, TypeOK, OrderRecord
  <2>3. UNCHANGED <<strategy, session, ending, booting, history, spent>>
    BY <1>3 DEF LockRow
  <2>4. control' = control
    BY <1>3 DEF LockRow
  <2> QED
    BY <2>1, <2>2, <2>3, <2>4, OneOrderStep DEF Checking, history
<1>4. ASSUME NEW o \in Orders, ReadPosition(o) PROVE Inv'
  <2>1. \A p \in Orders \ {o} : order'[p] = order[p]
    BY <1>4 DEF ReadPosition, TypeOK
  <2>2. /\ order[o].pc = "locked" /\ order'[o].pc = "reading"
        /\ order'[o].row = order[o].row /\ order'[o].origin = order[o].origin
        /\ order[o].row = strategy.state /\ (order[o].origin = "FIX" => session.live)
    BY <1>4 DEF ReadPosition, SessionGate, TypeOK, OrderRecord, Inv, RowHeld, Checking
  <2>3. UNCHANGED <<strategy, session, ending, booting, history, spent>>
    BY <1>4 DEF ReadPosition
  <2>4. control' = control
    BY <1>4 DEF ReadPosition
  <2> QED
    BY <2>1, <2>2, <2>3, <2>4, OneOrderStep DEF Checking, history
<1>5. ASSUME NEW o \in Orders, ReadWorking(o) PROVE Inv'
  <2>1. \A p \in Orders \ {o} : order'[p] = order[p]
    BY <1>5 DEF ReadWorking, TypeOK
  <2>2. /\ order[o].pc = "reading" /\ order'[o].pc = "checked"
        /\ order'[o].row = order[o].row /\ order'[o].origin = order[o].origin
        /\ order[o].row = strategy.state /\ order[o].row # "HALTED"
    BY <1>5 DEF ReadWorking, Allows, StateAllows, TypeOK, OrderRecord, Inv, RowHeld, Checking
  <2>3. UNCHANGED <<strategy, session, ending, booting, history, spent>>
    BY <1>5 DEF ReadWorking
  <2>4. control' = control
    BY <1>5 DEF ReadWorking
  <2> QED
    BY <2>1, <2>2, <2>3, <2>4, OneOrderStep DEF Checking, history
<1>6. ASSUME NEW o \in Orders, Admit(o) PROVE Inv'
  <2>1. \A p \in Orders \ {o} : order'[p] = order[p]
    BY <1>6 DEF Admit, TypeOK
  <2>2. /\ order[o].pc = "checked" /\ order'[o].pc = "live"
        /\ order'[o].origin = order[o].origin /\ strategy.state # "HALTED"
    BY <1>6 DEF Admit, TypeOK, OrderRecord, Inv, RowHeld, Checking
  <2>3. UNCHANGED <<strategy, session, ending, booting, history, spent>>
    BY <1>6 DEF Admit
  <2>4. control' = control
    BY <1>6 DEF Admit
  <2> QED
    BY <2>1, <2>2, <2>3, <2>4, OneOrderStep DEF Checking, history
<1>7. ASSUME NEW o \in Orders, Refuse(o) PROVE Inv'
  <2>1. \A p \in Orders \ {o} : order'[p] = order[p]
    BY <1>7 DEF Refuse, TypeOK
  <2>2. order'[o].pc = "closed"
    BY <1>7, GoneTyped DEF Refuse, TypeOK
  <2>3. /\ UNCHANGED <<strategy, session, ending, booting, cleared, spent>>
        /\ asked \ {o} \subseteq asked' /\ unsent \ {o} \subseteq unsent'
    BY <1>7 DEF Refuse, Forget
  <2>4. control' = control
    BY <1>7 DEF Refuse
  <2> QED
    BY <2>1, <2>2, <2>3, <2>4, OneOrderStep DEF Checking, history
<1>8. ASSUME NEW o \in Orders, Fill(o) PROVE Inv'
  <2>1. PICK q \in 1..order[o].leaves :
          /\ order' = [order EXCEPT ![o] = AfterFill(o, q)]
          /\ IF q = order[o].leaves THEN Forget(o) ELSE UNCHANGED <<asked, unsent>>
    BY <1>8 DEF Fill
  <2>2. order[o] \in OrderRecord /\ order[o].pc = "live"
    BY <1>8 DEF Fill, Live, TypeOK
  <2>3. /\ AfterFill(o, q).pc \in {"live", "closed"}
        /\ AfterFill(o, q).pc = "live" => AfterFill(o, q).origin = order[o].origin
    BY <2>2, GoneTyped DEF AfterFill, OrderRecord
  <2>4. order'[o] = AfterFill(o, q) /\ \A p \in Orders \ {o} : order'[p] = order[p]
    BY <2>1 DEF TypeOK
  <2>5. UNCHANGED <<strategy, session, ending, booting, cleared, spent>>
    BY <1>8 DEF Fill
  <2>6. control' = control
    BY <1>8 DEF Fill
  <2>7. /\ asked \ {o} \subseteq asked' /\ unsent \ {o} \subseteq unsent'
        /\ order'[o].pc = "closed" \/ (asked \subseteq asked' /\ unsent \subseteq unsent')
    BY <2>1, <2>2, <2>4, GoneTyped DEF AfterFill, Forget
  <2> QED
    BY <2>2, <2>3, <2>4, <2>5, <2>6, <2>7, OneOrderStep DEF Checking
<1>9. ASSUME NEW o \in Orders, Close(o) PROVE Inv'
  <2>1. \A p \in Orders \ {o} : order'[p] = order[p]
    BY <1>9 DEF Close, TypeOK
  <2>2. order'[o].pc = "closed"
    BY <1>9, GoneTyped DEF Close, TypeOK
  <2>3. /\ UNCHANGED <<strategy, session, ending, booting, cleared, spent>>
        /\ asked \ {o} \subseteq asked' /\ unsent \ {o} \subseteq unsent'
    BY <1>9 DEF Close, Forget
  <2>4. control' = control
    BY <1>9 DEF Close
  <2> QED
    BY <2>1, <2>2, <2>3, <2>4, OneOrderStep DEF Checking, history
<1>10. ASSUME SetState PROVE Inv'
  <2>1. /\ lock = "free" /\ order' = order /\ asked' = asked /\ unsent' = unsent
        /\ UNCHANGED <<session, ending, booting>> /\ ~ cleared'
    BY <1>10 DEF SetState
  <2>2. control'.at = "reload" /\ (control'.act = "kill" <=> strategy'.state = "HALTED")
    BY <1>10, GateAssumption DEF SetState, GateAssumption
  <2>3. spent'.crashes = spent.crashes
    BY <1>10 DEF SetState, TypeOK
  <2>4. ControlRow'
    BY <2>1, <2>2 DEF ControlRow
  <2> QED
    BY <2>1, <2>2, <2>3, <2>4, NoOrderStep
<1>11. ASSUME StopStrategy PROVE Inv'
  <2>1. /\ asked \subseteq asked' /\ unsent \subseteq unsent'
        /\ Live \subseteq asked' \cup unsent' /\ spent'.crashes = spent.crashes
        /\ spent' = spent => Live \subseteq asked'
    BY <1>11, CancelAccounts DEF StopStrategy
  <2>2. UNCHANGED <<strategy, session, order, ending, booting>>
    BY <1>11 DEF StopStrategy
  <2>3. cleared' => control.act = "kill" /\ spent' = spent
    BY <1>11 DEF StopStrategy
  <2>4. control'.act = control.act
    BY <1>11 DEF StopStrategy, TypeOK
  <2>5. ControlRow'
    BY <2>2, <2>3, <2>4 DEF Inv, ControlRow
  <2> QED
    BY <2>1, <2>2, <2>3, <2>5, NoOrderStep
<1>12. ASSUME CloseOut PROVE Inv'
  <2>1. PICK o \in Orders :
          Receive(o, "FLATTEN", IF position > 0 THEN -1 ELSE 1, Abs(position))
    BY <1>12 DEF CloseOut
  <2>2. Abs(position) \in Nat /\ (IF position > 0 THEN -1 ELSE 1) \in {1, -1}
    BY DEF Abs, TypeOK
  <2>3. order'[o].pc = "begin" /\ \A p \in Orders \ {o} : order'[p] = order[p]
    BY <2>1, <2>2, ReceiveTyped, GateAssumption DEF GateAssumption, Origin
  <2>4. UNCHANGED <<strategy, session, ending, booting, history, spent>>
    BY <1>12 DEF CloseOut
  <2>5. control' = Idle /\ control.at = "close_out"
    BY <1>12 DEF CloseOut
  <2> QED
    BY <2>3, <2>4, <2>5, OneOrderStep DEF Checking, history
<1>13. ASSUME SkipCloseOut PROVE Inv'
  <2>1. ControlRow'
    BY <1>13 DEF SkipCloseOut, history, Idle, Inv, ControlRow
  <2> QED
    BY <1>13, <2>1, NoOrderStep DEF SkipCloseOut, history
<1>14. ASSUME Enable PROVE Inv'
  <2>1. ControlRow' /\ strategy'.state # "HALTED"
    BY <1>14 DEF Enable, history, Idle, Inv, ControlRow
  <2>2. session'.live = session.live
    BY <1>14 DEF Enable, TypeOK
  <2> QED
    BY <1>14, <2>1, <2>2, NoOrderStep DEF Enable, history
<1>15. ASSUME ReloadQuery PROVE Inv'
  <2>1. ControlRow' /\ spent'.crashes = spent.crashes
    BY <1>15 DEF ReloadQuery, history, Inv, ControlRow, TypeOK
  <2> QED
    BY <1>15, <2>1, NoOrderStep DEF ReloadQuery, history
<1>16. ASSUME ReloadStore PROVE Inv'
  <2>1. ControlRow'
    BY <1>16 DEF ReloadStore, history, Inv, ControlRow
  <2> QED
    BY <1>16, <2>1, NoOrderStep DEF ReloadStore, history
<1>17. ASSUME LoggedOn PROVE Inv'
  <2>1. ControlRow' /\ session'.live
    BY <1>17 DEF LoggedOn, history, Inv, ControlRow, TypeOK
  <2> QED
    BY <1>17, <2>1, NoOrderStep DEF LoggedOn, history
<1>18. ASSUME LoggedOut PROVE Inv'
  <2>1. ControlRow' /\ ending' # 0
    BY <1>18 DEF LoggedOut, history, Inv, ControlRow, TypeOK
  <2> QED
    BY <1>18, <2>1, NoOrderStep DEF LoggedOut, history
<1>19. ASSUME OnSessionEnd PROVE Inv'
  <2>1. UNCHANGED <<strategy, order, session, control, booting, cleared>>
    BY <1>19 DEF OnSessionEnd
  <2>2. CancelOpen(TRUE)
    BY <1>19 DEF OnSessionEnd
  <2> QED
    BY <2>1, <2>2, CancelStep
<1>20. ASSUME Crash PROVE Inv'
  <2>1. booting' /\ UNCHANGED <<strategy, asked, cleared>> /\ control' = Idle
    BY <1>20 DEF Crash, history
  <2>2. \A o \in Orders : order'[o].pc \notin Checking
    BY <1>20, GoneTyped DEF Crash, TypeOK, Checking
  <2>3. spent'.crashes > 0
    BY <1>20 DEF Crash, TypeOK
  <2>4. Live' \subseteq Live
    BY <1>20, GoneTyped DEF Crash, Live, Checking
  <2>5. RowHeld' /\ BootAfterCrash' /\ Attended'
    BY <2>1, <2>2, <2>3 DEF RowHeld, BootAfterCrash, Attended, Checking
  <2>6. ControlRow' /\ KillPast'
    BY <2>1, <2>4 DEF Inv, ControlRow, KillPast, Idle
  <2> QED
    BY <2>5, <2>6 DEF Inv
<1>21. ASSUME BootRecovery PROVE Inv'
  <2>1. UNCHANGED <<strategy, order, session, control, cleared>>
    BY <1>21 DEF BootRecovery
  <2>2. CancelOpen(TRUE)
    BY <1>21 DEF BootRecovery
  <2> QED
    BY <1>21, <2>1, <2>2, CancelStep DEF BootRecovery
<1>22. ASSUME UNCHANGED vars PROVE Inv'
  <2>1. ControlRow'
    BY <1>22 DEF vars, history, Inv, ControlRow
  <2> QED
    BY <1>22, <2>1, NoOrderStep DEF vars, history
<1>23. ASSUME ReloadStopped PROVE Inv'
  <2>1. ControlRow' /\ control'.at = "cancel"
    BY <1>23 DEF ReloadStopped, history, Inv, ControlRow, TypeOK
  <2> QED
    BY <1>23, <2>1, NoOrderStep DEF ReloadStopped, history
<1>24. ASSUME LogOutStopped PROVE Inv'
  <2>1. control'.act \in {control.act, "none"}
    BY <1>24 DEF LogOutStopped, Idle, TypeOK
  <2>2. ControlRow' /\ session'.live = session.live
    BY <1>24, <2>1 DEF LogOutStopped, history, Inv, ControlRow, TypeOK
  <2> QED
    BY <1>24, <2>2, NoOrderStep DEF LogOutStopped, history
<1>25. ASSUME AbandonControl PROVE Inv'
  <2>1. ControlRow' /\ spent'.crashes = spent.crashes
    BY <1>25 DEF AbandonControl, Fault, Idle, Inv, ControlRow, TypeOK
  <2>2. /\ unsent \subseteq unsent'
        /\ \/ control.at = "logout"
           \/ strategy.state # "HALTED"
           \/ Live \subseteq unsent'
    BY <1>25 DEF AbandonControl, Inv, ControlRow
  <2> QED
    BY <1>25, <2>1, <2>2, NoOrderStep DEF AbandonControl
<1>26. ASSUME BootUnloaded PROVE Inv'
  <2>1. UNCHANGED <<strategy, order, session, control, cleared>>
    BY <1>26 DEF BootUnloaded
  <2>2. CancelOpen(TRUE)
    BY <1>26 DEF BootUnloaded, CancelOpen
  <2> QED
    BY <1>26, <2>1, <2>2, CancelStep DEF BootUnloaded
<1> QED
  BY <1>1, <1>2, <1>3, <1>4, <1>5, <1>6, <1>7, <1>8, <1>9, <1>10, <1>11, <1>12, <1>13,
     <1>14, <1>15, <1>16, <1>17, <1>18, <1>19, <1>20, <1>21, <1>22, <1>23, <1>24, <1>25,
     <1>26 DEF Next

\* Only a commit of submit's transaction adds a working order.
LEMMA OnlyAdmitPlaces ==
  ASSUME Inv, [Next]_vars, strategy.state = "HALTED"
  PROVE  Live' \subseteq Live
<1> SUFFICES ASSUME NEW p \in Orders, order'[p].pc = "live" PROVE order[p].pc = "live"
  BY DEF Live
<1>0. TypeOK
  BY DEF Inv
<1> USE <1>0
<1>1. CASE ReceiveApi
  <2>1. PICK o \in Orders, side \in {1, -1}, qty \in Quantities : Receive(o, "API", side, qty)
    BY <1>1 DEF ReceiveApi
  <2> QED
    BY <2>1, ReceiveTyped, GateAssumption DEF GateAssumption, Origin
<1>2. CASE ReceiveFix
  <2>1. PICK o \in Orders, side \in {1, -1}, qty \in Quantities : Receive(o, "FIX", side, qty)
    BY <1>2 DEF ReceiveFix
  <2> QED
    BY <2>1, ReceiveTyped, GateAssumption DEF GateAssumption, Origin
<1>3. ASSUME NEW o \in Orders, LockRow(o) \/ ReadPosition(o) \/ ReadWorking(o)
      PROVE  order[p].pc = "live"
  BY <1>3 DEF LockRow, ReadPosition, ReadWorking, TypeOK, OrderRecord
<1>4. ASSUME NEW o \in Orders, Admit(o) PROVE order[p].pc = "live"
  BY <1>4 DEF Admit, Inv, RowHeld, Checking, TypeOK
<1>5. ASSUME NEW o \in Orders, Refuse(o) \/ Close(o) PROVE order[p].pc = "live"
  BY <1>5, GoneTyped DEF Refuse, Close, TypeOK
<1>6. ASSUME NEW o \in Orders, Fill(o) PROVE order[p].pc = "live"
  BY <1>6 DEF Fill, Live, TypeOK
<1>7. CASE CloseOut
  <2>1. PICK o \in Orders :
          Receive(o, "FLATTEN", IF position > 0 THEN -1 ELSE 1, Abs(position))
    BY <1>7 DEF CloseOut
  <2>2. Abs(position) \in Nat /\ (IF position > 0 THEN -1 ELSE 1) \in {1, -1}
    BY DEF Abs, TypeOK
  <2> QED
    BY <2>1, <2>2, ReceiveTyped DEF Origin
<1>8. CASE Crash
  BY <1>8, GoneTyped DEF Crash
<1>9. CASE \/ SetState \/ ReloadStopped \/ StopStrategy \/ LogOutStopped \/ SkipCloseOut
           \/ Enable \/ AbandonControl \/ ReloadQuery \/ ReloadStore
  BY <1>9 DEF SetState, ReloadStopped, StopStrategy, LogOutStopped, SkipCloseOut, Enable,
              AbandonControl, ReloadQuery, ReloadStore
<1>10. CASE \/ LoggedOn \/ LoggedOut \/ OnSessionEnd \/ BootRecovery \/ BootUnloaded
            \/ UNCHANGED vars
  BY <1>10 DEF LoggedOn, LoggedOut, OnSessionEnd, BootRecovery, BootUnloaded, vars
<1> QED
  BY <1>1, <1>2, <1>3, <1>4, <1>5, <1>6, <1>7, <1>8, <1>9, <1>10 DEF Next

-----------------------------------------------------------------------------
(* The position limit.                                                      *)

\* What order o adds to the working quantity.
Open(o) == IF order[o].pc = "live" THEN Signed(o, order[o].leaves) ELSE 0

\* The limit was checked against what the transaction read: the position as it
\* was then, but for what filled since, and the working orders.
WithinLimit ==
  /\ position + Working <= MaxPosition + missed
  /\ \A o \in Orders : order[o].pc = "reading" => position - order[o].seen <= missed
  /\ \A o \in Orders : order[o].pc = "checked" =>
       position + Working + order[o].qty <= MaxPosition + missed

\* An order not received yet has the side of NewOrder.
LimitInv ==
  /\ \A o \in Orders : order[o].pc = "idle" => order[o].side = 1
  /\ OnlyBuys => WithinLimit

LEMMA SignedInt ==
  ASSUME TypeOK
  PROVE  /\ IsFiniteSet(Live) /\ Working \in Int
         /\ \A o \in Orders : Open(o) \in Int /\ Signed(o, order[o].leaves) \in Int
<1>1. IsFiniteSet(Live)
  BY GateAssumption, FS_Subset DEF Live
<1>2. \A o \in Orders : Signed(o, order[o].leaves) \in Int
  <2> SUFFICES ASSUME NEW o \in Orders PROVE Signed(o, order[o].leaves) \in Int
    OBVIOUS
  <2>1. order[o].side \in {1, -1} /\ order[o].leaves \in Nat
    BY DEF TypeOK, OrderRecord
  <2> QED
    BY <2>1 DEF Signed
<1>3. [o \in Live |-> Signed(o, order[o].leaves)] \in [Live -> Int]
  BY <1>2 DEF Live
<1>4. Working \in Int
  BY <1>1, <1>3, TotalInt DEF Working
<1> QED
  BY <1>1, <1>2, <1>4 DEF Open

\* The working quantity without one order, which is what the others add.
Others(o) == Total([p \in Live \ {o} |-> Signed(p, order[p].leaves)])

LEMMA WorkingWithout ==
  ASSUME TypeOK, NEW o \in Orders
  PROVE  Working = Open(o) + Others(o) /\ Others(o) \in Int
<1> DEFINE f == [p \in Live |-> Signed(p, order[p].leaves)]
<1>1. IsFiniteSet(Live) /\ Live \subseteq Orders /\ Working = Total(f) /\ Working \in Int
  BY SignedInt DEF Live, Working
<1>2. f \in [Live -> Int]
  BY <1>1, SignedInt
<1>3. CASE o \in Live
  <2>1. [p \in Live \ {o} |-> f[p]] = [p \in Live \ {o} |-> Signed(p, order[p].leaves)]
    OBVIOUS
  <2>2. Total(f) = f[o] + Others(o) /\ Others(o) \in Int
    <3> HIDE DEF f
    <3>1. /\ Total(f) = f[o] + Total([p \in Live \ {o} |-> f[p]])
          /\ Total([p \in Live \ {o} |-> f[p]]) \in Int
      BY <1>1, <1>2, <1>3, TotalWithout
    <3> QED
      BY <2>1, <3>1 DEF Others
  <2>3. f[o] = Open(o)
    BY <1>3 DEF Live, Open
  <2> QED
    BY <1>1, <2>2, <2>3
<1>4. CASE o \notin Live
  <2>1. Live \ {o} = Live
    BY <1>4
  <2>2. Others(o) = Total(f)
    BY <2>1 DEF Others
  <2>3. Open(o) = 0
    BY <1>4 DEF Live, Open
  <2> QED
    BY <1>1, <2>2, <2>3
<1> QED
  BY <1>3, <1>4

\* The same of the state after a step.
LEMMA SignedIntNext == TypeOK' => (Working \in Int /\ \A o \in Orders : Open(o) \in Int)'
<1>1. TypeOK => Working \in Int /\ \A o \in Orders : Open(o) \in Int
  BY SignedInt
<1> QED
  BY <1>1, PTL

LEMMA WorkingWithoutNext ==
  TypeOK' => (\A o \in Orders : Working = Open(o) + Others(o) /\ Others(o) \in Int)'
<1>1. TypeOK => \A o \in Orders : Working = Open(o) + Others(o) /\ Others(o) \in Int
  BY WorkingWithout
<1> QED
  BY <1>1, PTL

\* A step on one order moves the working quantity by what that order adds.
LEMMA WorkingMoves ==
  ASSUME TypeOK, TypeOK', NEW o \in Orders,
         \A p \in Orders \ {o} : order'[p] = order[p]
  PROVE  /\ Working' = (Working - Open(o)) + Open(o)'
         /\ Working \in Int /\ Working' \in Int /\ Open(o) \in Int /\ Open(o)' \in Int
<1>1. Others(o)' = Others(o)
  <2>1. Live' \ {o} = Live \ {o}
    BY DEF Live
  <2>2. \A p \in Live \ {o} : Signed(p, order[p].leaves)' = Signed(p, order[p].leaves)
    BY DEF Live, Signed
  <2>3. [p \in Live' \ {o} |-> Signed(p, order[p].leaves)'] = [p \in Live \ {o} |-> Signed(p, order[p].leaves)]
    BY <2>1, <2>2
  <2> QED
    BY <2>3 DEF Others
<1>2. Working = Open(o) + Others(o) /\ Others(o) \in Int
  BY WorkingWithout
<1>3. (Working = Open(o) + Others(o) /\ Others(o) \in Int)'
  BY WorkingWithoutNext
<1>4. Working \in Int /\ Open(o) \in Int
  BY SignedInt
<1>5. (Working \in Int /\ Open(o) \in Int)'
  BY SignedIntNext
<1> QED
  BY <1>1, <1>2, <1>3, <1>4, <1>5

\* A step on no working order leaves it.
LEMMA WorkingStays ==
  ASSUME TypeOK, \A p \in Orders : /\ order'[p].pc = "live" <=> order[p].pc = "live"
                                   /\ order[p].pc = "live" => order'[p] = order[p]
  PROVE  Working' = Working
<1>1. Live' = Live
  BY DEF Live
<1>2. \A p \in Live : Signed(p, order[p].leaves)' = Signed(p, order[p].leaves)
  BY DEF Live, Signed
<1>3. [p \in Live' |-> Signed(p, order[p].leaves)'] = [p \in Live |-> Signed(p, order[p].leaves)]
  BY <1>1, <1>2
<1> QED
  BY <1>3 DEF Working

\* A step that admits nothing, reads nothing and fills nothing.
LEMMA LimitStays ==
  ASSUME TypeOK, TypeOK', LimitInv, UNCHANGED <<position, missed>>,
         Working' \in Int, OnlyBuys => Working' <= Working,
         \A p \in Orders :
           /\ order'[p].side = order[p].side \/ order[p].pc = "idle"
           /\ order'[p].pc \in {"idle", "reading", "checked"} => order'[p] = order[p]
  PROVE  LimitInv'
<1>1. \A o \in Orders : order'[o].pc = "idle" => order'[o].side = 1
  BY DEF LimitInv
<1>2. ASSUME OnlyBuys' PROVE WithinLimit'
  <2>1. OnlyBuys
    BY <1>2 DEF OnlyBuys, LimitInv
  <2>2. WithinLimit
    BY <2>1 DEF LimitInv
  <2>3. /\ position \in Int /\ missed \in Int /\ Working \in Int /\ MaxPosition \in Int
        /\ \A p \in Orders : order[p].qty \in Int
    BY SignedInt, GateAssumption DEF TypeOK, OrderRecord
  <2>4. position' + Working' <= MaxPosition + missed'
    BY <2>1, <2>2, <2>3 DEF WithinLimit
  <2>5. ASSUME NEW o \in Orders, order'[o].pc = "reading" PROVE position' - order'[o].seen <= missed'
    <3>1. order'[o] = order[o]
      BY <2>5
    <3> QED
      BY <2>2, <2>5, <3>1 DEF WithinLimit
  <2>6. ASSUME NEW o \in Orders, order'[o].pc = "checked"
        PROVE  position' + Working' + order'[o].qty <= MaxPosition + missed'
    <3>1. order'[o] = order[o]
      BY <2>6
    <3>2. position + Working + order[o].qty <= MaxPosition + missed /\ order[o].qty \in Int
      BY <2>2, <2>3, <2>6, <3>1 DEF WithinLimit
    <3> QED
      BY <2>1, <2>3, <3>1, <3>2
  <2> QED
    BY <2>4, <2>5, <2>6 DEF WithinLimit
<1> QED
  BY <1>1, <1>2 DEF LimitInv

\* submit's transaction checks the limit against its two reads.
LEMMA SubmitKeepsLimit ==
  ASSUME TypeOK, TypeOK', LimitInv, NEW o \in Orders,
         ReadPosition(o) \/ ReadWorking(o) \/ Admit(o)
  PROVE  LimitInv'
<1> DEFINE r == order'[o]
<1>1. /\ position' = position /\ missed' = missed
      /\ order[o].pc \in {"locked", "reading", "checked"}
      /\ \A p \in Orders \ {o} : order'[p] = order[p]
      /\ r.side = order[o].side /\ r.qty = order[o].qty /\ r.pc # "idle"
  BY DEF ReadPosition, ReadWorking, Admit, TypeOK, OrderRecord
<1>2. \A p \in Orders \ {o} : order[p].pc \notin Checking
  BY <1>1 DEF TypeOK, Checking
<1>3. /\ position \in Int /\ missed \in Nat /\ MaxPosition \in Int
      /\ order[o].qty \in Nat /\ order[o].seen \in Int
  BY GateAssumption DEF TypeOK, OrderRecord
<1>4. /\ Working' = (Working - Open(o)) + Open(o)'
      /\ Working \in Int /\ Working' \in Int /\ Open(o) \in Int /\ Open(o)' \in Int
  BY <1>1, WorkingMoves
<1>5. Open(o) = 0
  BY <1>1 DEF Open
<1>6. \A p \in Orders : order'[p].pc = "idle" => order'[p].side = 1
  BY <1>1 DEF LimitInv
<1>7. ASSUME OnlyBuys' PROVE WithinLimit'
  <2>1. WithinLimit /\ order[o].side = 1
    BY <1>1, <1>7 DEF OnlyBuys, LimitInv
  <2>2. CASE ReadPosition(o)
    <3>1. r.pc = "reading" /\ r.seen = position
      BY <2>2 DEF ReadPosition, TypeOK, OrderRecord
    <3>2. Open(o)' = 0
      BY <3>1 DEF Open
    <3>3. Working' = Working
      BY <1>4, <1>5, <3>2
    <3>4. position' + Working' <= MaxPosition + missed'
      BY <1>1, <2>1, <3>3 DEF WithinLimit
    <3>5. \A p \in Orders : /\ order'[p].pc = "reading" => p = o
                            /\ order'[p].pc # "checked"
      BY <1>1, <1>2, <3>1 DEF Checking
    <3>6. position' - r.seen <= missed'
      BY <1>1, <1>3, <3>1
    <3> QED
      BY <3>4, <3>5, <3>6 DEF WithinLimit
  <2>3. CASE ReadWorking(o)
    <3>1. r.pc = "checked" /\ order[o].pc = "reading" /\ Allows(o)
      BY <2>3 DEF ReadWorking, TypeOK, OrderRecord
    <3>2. Open(o)' = 0
      BY <3>1 DEF Open
    <3>3. Working' = Working
      BY <1>4, <1>5, <3>2
    <3>4. position' + Working' <= MaxPosition + missed'
      BY <1>1, <2>1, <3>3 DEF WithinLimit
    <3>5. \A p \in Orders : /\ order'[p].pc = "checked" => p = o
                            /\ order'[p].pc # "reading"
      BY <1>1, <1>2, <3>1 DEF Checking
    <3>6. Abs(order[o].seen + Working + Signed(o, order[o].qty)) <= MaxPosition
      BY <3>1 DEF Allows
    <3>7. Signed(o, order[o].qty) = order[o].qty
      BY <1>3, <2>1 DEF Signed
    <3>8. order[o].seen + Working + order[o].qty <= MaxPosition
      BY <1>3, <1>4, <3>6, <3>7 DEF Abs
    <3>9. position - order[o].seen <= missed
      BY <2>1, <3>1 DEF WithinLimit
    <3>10. position' + Working' + r.qty <= MaxPosition + missed'
      BY <1>1, <1>3, <1>4, <3>3, <3>8, <3>9
    <3> QED
      BY <3>4, <3>5, <3>10 DEF WithinLimit
  <2>4. CASE Admit(o)
    <3>1. r.pc = "live" /\ order[o].pc = "checked" /\ r.leaves = order[o].qty
      BY <2>4 DEF Admit, TypeOK, OrderRecord
    <3>2. Open(o)' = order[o].qty
      BY <1>1, <1>3, <2>1, <3>1 DEF Open, Signed
    <3>3. position + Working + order[o].qty <= MaxPosition + missed
      BY <2>1, <3>1 DEF WithinLimit
    <3>4. position' + Working' <= MaxPosition + missed'
      BY <1>1, <1>3, <1>4, <1>5, <3>2, <3>3
    <3>5. \A p \in Orders : order'[p].pc \notin {"reading", "checked"}
      BY <1>1, <1>2, <3>1 DEF Checking
    <3> QED
      BY <3>4, <3>5 DEF WithinLimit
  <2> QED
    BY <2>2, <2>3, <2>4
<1> QED
  BY <1>6, <1>7 DEF LimitInv

\* A fill moves quantity from the working orders to the position, and what a
\* check between its reads misses of it is counted.
LEMMA FillKeepsLimit ==
  ASSUME TypeOK, TypeOK', LimitInv, NEW o \in Orders, Fill(o)
  PROVE  LimitInv'
<1>1. order[o].pc = "live"
  BY DEF Fill, Live
<1>2. PICK q \in 1..order[o].leaves :
        /\ order' = [order EXCEPT ![o] = AfterFill(o, q)]
        /\ position' = position + Signed(o, q)
        /\ missed' = missed + IF \E p \in Orders : order[p].pc = "reading" THEN q ELSE 0
  BY DEF Fill
<1>3. order[o] \in OrderRecord /\ position \in Int /\ missed \in Nat /\ MaxPosition \in Int
  BY GateAssumption DEF TypeOK
<1>4. order[o].leaves \in Nat /\ q \in Nat /\ q <= order[o].leaves /\ order[o].side \in {1, -1}
  BY <1>3 DEF OrderRecord
<1>5. /\ \A p \in Orders \ {o} : order'[p] = order[p]
      /\ order'[o] = AfterFill(o, q)
  BY <1>2 DEF TypeOK
<1>6. /\ order'[o].side = order[o].side
      /\ \/ order'[o].pc = "live" /\ order'[o].leaves = order[o].leaves - q
         \/ order'[o].pc = "closed" /\ q = order[o].leaves
  BY <1>1, <1>3, <1>5 DEF AfterFill, Gone, NewOrder, OrderRecord
<1>7. /\ Working' = (Working - Open(o)) + Open(o)'
      /\ Working \in Int /\ Working' \in Int /\ Open(o) \in Int /\ Open(o)' \in Int
  BY <1>5, WorkingMoves
<1>8. \A p \in Orders : order'[p].pc = "idle" => order'[p].side = 1
  BY <1>5, <1>6 DEF LimitInv
<1>9. ASSUME OnlyBuys' PROVE WithinLimit'
  <2>1. WithinLimit /\ order[o].side = 1
    BY <1>5, <1>6, <1>9 DEF OnlyBuys, LimitInv
  <2>2. Open(o) = order[o].leaves /\ Open(o)' = order[o].leaves - q
    BY <1>1, <1>4, <1>6, <2>1 DEF Open, Signed
  <2>3. Working' = Working - q /\ position' = position + q
    BY <1>2, <1>4, <1>7, <2>1, <2>2 DEF Signed
  <2>4. missed' \in Nat /\ missed <= missed'
    BY <1>2, <1>3, <1>4
  <2>5. position' + Working' <= MaxPosition + missed'
    <3>1. position + Working <= MaxPosition + missed
      BY <2>1 DEF WithinLimit
    <3> QED
      BY <1>3, <1>4, <1>7, <2>3, <2>4, <3>1
  <2>6. ASSUME NEW p \in Orders, order'[p].pc = "reading" PROVE position' - order'[p].seen <= missed'
    <3>1. order'[p] = order[p]
      BY <1>5, <1>6, <2>6
    <3>2. missed' = missed + q
      BY <1>2, <2>6, <3>1
    <3>3. position - order[p].seen <= missed /\ order[p].seen \in Int
      BY <2>1, <2>6, <3>1 DEF WithinLimit, TypeOK, OrderRecord
    <3> QED
      BY <1>3, <1>4, <2>3, <3>1, <3>2, <3>3
  <2>7. ASSUME NEW p \in Orders, order'[p].pc = "checked"
        PROVE  position' + Working' + order'[p].qty <= MaxPosition + missed'
    <3>1. order'[p] = order[p]
      BY <1>5, <1>6, <2>7
    <3>2. position + Working + order[p].qty <= MaxPosition + missed /\ order[p].qty \in Int
      BY <2>1, <2>7, <3>1 DEF WithinLimit, TypeOK, OrderRecord
    <3> QED
      BY <1>3, <1>4, <1>7, <2>3, <2>4, <3>1, <3>2
  <2> QED
    BY <2>5, <2>6, <2>7 DEF WithinLimit
<1> QED
  BY <1>8, <1>9 DEF LimitInv

\* Requests that come in, that wait for the row or are refused, a close at the
\* venue, and a restart place nothing.
LEMMA OrdersKeepLimit ==
  ASSUME TypeOK, TypeOK', LimitInv,
         \/ \E o \in Orders : \E origin, side, qty : Receive(o, origin, side, qty)
         \/ \E o \in Orders : LockRow(o) \/ Refuse(o) \/ Close(o)
         \/ Crash,
         UNCHANGED <<position, missed>>
  PROVE  LimitInv'
<1>1. CASE \/ \E o \in Orders : \E origin, side, qty : Receive(o, origin, side, qty)
           \/ \E o \in Orders : LockRow(o) \/ Refuse(o) \/ Close(o)
  <2>0. PICK o \in Orders : \/ \E origin, side, qty : Receive(o, origin, side, qty)
                            \/ LockRow(o) \/ Refuse(o) \/ Close(o)
    BY <1>1
  <2>1. /\ \A p \in Orders \ {o} : order'[p] = order[p]
        /\ order'[o].side = order[o].side \/ order[o].pc = "idle"
        /\ order'[o].pc \in {"begin", "locked", "closed"}
    <3>1. CASE \E origin, side, qty : Receive(o, origin, side, qty)
      <4>1. PICK origin, side, qty : Receive(o, origin, side, qty)
        BY <3>1
      <4>2. order[o].pc = "idle" /\ order'[o].pc = "begin"
        BY <4>1 DEF Receive, NewOrder, TypeOK
      <4>3. \A p \in Orders \ {o} : order'[p] = order[p]
        BY <4>1 DEF Receive, TypeOK
      <4> QED
        BY <4>2, <4>3
    <3>2. CASE LockRow(o)
      BY <3>2 DEF LockRow, TypeOK, OrderRecord
    <3>3. CASE Refuse(o) \/ Close(o)
      <4>1. order' = [order EXCEPT ![o] = Gone(o)]
        BY <3>3 DEF Refuse, Close
      <4> QED
        BY <4>1 DEF Gone, NewOrder, TypeOK, OrderRecord
    <3> QED
      BY <2>0, <3>1, <3>2, <3>3
  <2>2. /\ Working' = (Working - Open(o)) + Open(o)'
        /\ Working \in Int /\ Working' \in Int /\ Open(o) \in Int /\ Open(o)' \in Int
    BY <2>1, WorkingMoves
  <2>3. Open(o)' = 0
    BY <2>1 DEF Open
  <2>4. ASSUME OnlyBuys PROVE Working' <= Working
    <3>1. order[o].side = 1 /\ order[o].leaves \in Nat
      BY <2>4 DEF OnlyBuys, TypeOK, OrderRecord
    <3>2. Open(o) >= 0
      BY <3>1 DEF Open, Signed
    <3> QED
      BY <2>2, <2>3, <3>2
  <2>5. \A p \in Orders :
          /\ order'[p].side = order[p].side \/ order[p].pc = "idle"
          /\ order'[p].pc \in {"idle", "reading", "checked"} => order'[p] = order[p]
    BY <2>1
  <2> QED
    BY <2>2, <2>4, <2>5, LimitStays
<1>2. CASE Crash
  <2>1. \A p \in Orders :
          \/ order'[p] = order[p] /\ order[p].pc \notin {"begin"} \cup Checking
          \/ /\ order[p].pc \in {"begin"} \cup Checking
             /\ order'[p].pc = "closed" /\ order'[p].side = order[p].side
    BY <1>2 DEF Crash, Gone, NewOrder
  <2>2. \A p \in Orders : /\ order'[p].pc = "live" <=> order[p].pc = "live"
                          /\ order[p].pc = "live" => order'[p] = order[p]
    BY <2>1 DEF Checking
  <2>3. Working' = Working /\ Working \in Int
    BY <2>2, WorkingStays, SignedInt
  <2>4. \A p \in Orders :
          /\ order'[p].side = order[p].side \/ order[p].pc = "idle"
          /\ order'[p].pc \in {"idle", "reading", "checked"} => order'[p] = order[p]
    BY <2>1
  <2> QED
    BY <2>3, <2>4, LimitStays
<1> QED
  BY <1>1, <1>2

\* Every step keeps the limit.
LEMMA LimitStep == TypeOK /\ TypeOK' /\ LimitInv /\ [Next]_vars => LimitInv'
<1> SUFFICES ASSUME TypeOK, TypeOK', LimitInv, [Next]_vars PROVE LimitInv'
  OBVIOUS
<1>1. CASE \/ ReceiveApi \/ ReceiveFix \/ CloseOut \/ Crash
           \/ \E o \in Orders : LockRow(o) \/ Refuse(o) \/ Close(o)
  <2>1. UNCHANGED <<position, missed>>
    BY <1>1 DEF ReceiveApi, ReceiveFix, CloseOut, Crash, LockRow, Refuse, Close
  <2>2. \/ \E o \in Orders : \E origin, side, qty : Receive(o, origin, side, qty)
        \/ \E o \in Orders : LockRow(o) \/ Refuse(o) \/ Close(o)
        \/ Crash
    BY <1>1 DEF ReceiveApi, ReceiveFix, CloseOut
  <2> QED
    BY <2>1, <2>2, OrdersKeepLimit
<1>2. CASE \E o \in Orders : ReadPosition(o) \/ ReadWorking(o) \/ Admit(o)
  BY <1>2, SubmitKeepsLimit
<1>3. CASE \E o \in Orders : Fill(o)
  BY <1>3, FillKeepsLimit
<1>4. CASE UNCHANGED <<order, position, missed>>
  <2>1. Working' = Working /\ Working \in Int
    BY <1>4, WorkingStays, SignedInt
  <2> QED
    BY <1>4, <2>1, LimitStays
<1>5. CASE \/ SetState \/ ReloadStopped \/ StopStrategy \/ LogOutStopped \/ SkipCloseOut
           \/ Enable \/ AbandonControl \/ ReloadQuery \/ ReloadStore
           \/ LoggedOn \/ LoggedOut \/ OnSessionEnd \/ BootRecovery \/ BootUnloaded
           \/ UNCHANGED vars
  <2>1. UNCHANGED <<order, position, missed>>
    BY <1>5 DEF SetState, ReloadStopped, StopStrategy, LogOutStopped, SkipCloseOut, Enable,
                AbandonControl, ReloadQuery, ReloadStore, LoggedOn, LoggedOut, OnSessionEnd,
                BootRecovery, BootUnloaded, vars
  <2> QED
    BY <1>4, <2>1
<1> QED
  BY <1>1, <1>2, <1>3, <1>5 DEF Next

\* With no order received the strategy works nothing.
LEMMA LimitInit == Init => LimitInv
<1> SUFFICES ASSUME Init PROVE LimitInv
  OBVIOUS
<1>1. Live = {}
  BY DEF Init, NewOrder, Live
<1>2. Working = 0
  <2> DEFINE f == [o \in Live |-> Signed(o, order[o].leaves)]
  <2>1. f \in [{} -> Int] /\ DOMAIN f = {}
    BY <1>1
  <2> QED
    BY <2>1, TotalEmpty DEF Working
<1>3. \A o \in Orders : order[o].pc = "idle" /\ order[o].side = 1
  BY DEF Init, NewOrder
<1>4. position + Working <= MaxPosition + missed
  BY <1>2, GateAssumption DEF Init
<1> QED
  BY <1>3, <1>4 DEF LimitInv, WithinLimit

(***************************************************************************)
(* Results                                                                 *)
(***************************************************************************)

\* The lock on the strategy's row, the checks and the cancels keep Inv.
THEOREM InvHolds == Spec => []Inv
  BY InvInit, InvStep, PTL DEF Spec

\* Every variable keeps its type, and exactly the submit between its lock and
\* its commit holds the strategy's row.
THEOREM TypeCorrect == Spec => []TypeOK
<1>1. Inv => TypeOK
  BY DEF Inv
<1> QED
  BY <1>1, InvHolds, PTL

\* A Kill whose report has no failure leaves no working order that was not asked
\* to cancel, and any other leaves only those its failure left out.
THEOREM KillComplete == Spec => []KillReachesAll
<1>1. Inv => KillReachesAll
  BY DEF Inv, KillPast, KillReachesAll, Idle
<1> QED
  BY <1>1, InvHolds, PTL

\* Once its sessions are over, no FIX order of a strategy works on unasked, unless
\* a failure left it out of the cancels.
THEOREM SessionEndComplete == Spec => []NoneWorksUnattended
<1>1. Inv => NoneWorksUnattended
  BY DEF Inv, Attended, NoneWorksUnattended, Live
<1> QED
  BY <1>1, InvHolds, PTL

\* A halted strategy places no order, whatever the snapshot says.
THEOREM HaltHolds == Spec => NothingAdmittedWhileHalted
<1>1. Inv /\ [Next]_vars => [strategy.state = "HALTED" => Live' \subseteq Live]_vars
  BY OnlyAdmitPlaces
<1> QED
  BY <1>1, InvHolds, PTL DEF Spec, NothingAdmittedWhileHalted

\* While a strategy only buys, the check of its position limit holds up to what
\* fills between the two reads of a check, whatever runs in between: exposure
\* reads without a lock on position and orders (strategies/guard.rs).
THEOREM LimitSafe == Spec => []LimitHeld
<1>1. LimitInv => LimitHeld
  BY DEF LimitInv, WithinLimit, LimitHeld
<1> QED
  BY <1>1, LimitInit, LimitStep, TypeCorrect, PTL DEF Spec
=============================================================================

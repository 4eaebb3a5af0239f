------------------------------ MODULE DeskProofs ------------------------------
(* What holds of the routing of an order, of the operator's commands and of a *)
(* strategy's FIX requests for every number of accounts, connections, edits,  *)
(* terminals, commands, crashes, requests, logons and restarts.               *)
EXTENDS Routing, Setup, FixRequests, FiniteSetTheorems, TLAPS

-----------------------------------------------------------------------------
(* Routing                                                                    *)

ConnectionRow == [broker : Brokers, environment : Environments, active : BOOLEAN]
LimitRow == [state : TradingStates \cup {None}, held : BOOLEAN]
Targets == {None} \cup ((Brokers \cup {None}) \X (Environments \cup {None}))

\* From preflight on, unless refused.
Placed == {"ready", "checked", "stored", "routed", "cancelled"}
OrderRow == [stage : {"none", "resolved", "refused"} \cup Placed, portfolio : Portfolios \cup {None},
             account : Accounts \cup {None}, explicit : BOOLEAN, broker_named : Brokers \cup {None},
             named : SUBSET Instruments, instrument : Instruments \cup {None},
             connection : Connections \cup {None}, broker : Brokers \cup {None},
             environment : Environments \cup {None}, strayed : BOOLEAN,
             limit : TradingStates \cup {None}, sent : Targets, cancel : Targets]

RoutingTypeOK ==
    /\ connection \in [Connections -> ConnectionRow]
    /\ account \in [Accounts -> CreatableAccounts]
    /\ default \in Accounts \cup {None}
    /\ strategyRow \in [Brokers -> Accounts \cup {None}] /\ registry \in [Brokers -> Accounts \cup {None}]
    /\ catalog.active \subseteq Instruments
    /\ limit \in LimitRow
    /\ judged \subseteq [code : Connections, patch : ConnectionPatches]
    /\ order \in OrderRow

\* What is known of an order at each stage.
StageOK ==
    /\ order.stage = "none" => order.connection = None
    /\ order.stage \in {"none", "resolved", "ready"} => order.limit = None
    /\ order.stage # "none" => order.account \in Accounts /\ order.named = {order.instrument}
    /\ order.stage = "resolved" /\ order.portfolio = "strategy" => order.broker_named \in Brokers /\ order.account # None
    /\ order.stage \in Placed => order.connection \in Connections
    /\ order.stage = "routed" => order.sent = <<order.broker, order.environment>>
    /\ order.cancel # None => order.stage = "cancelled"

\* A limit an order was checked against stays as it was until the commit.
HeldOK == order.stage = "checked" /\ order.limit # None => limit.held /\ limit.state # "HALTED"

\* An order of the strategy that names broker b takes account a.
Taken(b, a) ==
    /\ a # None
    /\ \/ strategyRow[b] = a
       \/ registry[b] = a
       \/ /\ order.stage = "resolved" /\ order.portfolio = "strategy"
          /\ order.broker_named = b /\ order.account = a

\* An account put for a broker is on a connection to it, until it moves.
PutOK == \A b \in Brokers, a \in Accounts :
    Taken(b, a) /\ <<b, a>> \notin astray => connection[account[a].connection].broker = b

\* The order has the broker it named, and its connection still points there.
RoutedOK ==
    /\ order.connection # None /\ order.portfolio = "strategy" /\ ~order.strayed => order.broker = order.broker_named
    /\ order.stage \in Placed /\ ~repointed =>
          /\ connection[order.connection].broker = order.broker
          /\ connection[order.connection].environment = order.environment
    /\ order.cancel # None /\ ~repointed => order.cancel = order.sent

RoutingInv == RoutingTypeOK /\ StageOK /\ HeldOK /\ PutOK /\ RoutedOK

LEMMA RoutingInitInv == RoutingInit => RoutingInv
<1> SUFFICES ASSUME RoutingInit PROVE RoutingInv
  OBVIOUS
<1>1. Unplaced \in OrderRow
  BY DEF Unplaced, OrderRow, Targets
<1>2. Pointless \in [Brokers -> Accounts \cup {None}]
  BY DEF Pointless
<1>3. RoutingTypeOK
  BY <1>1, <1>2 DEF RoutingInit, RoutingTypeOK, CreatableConnections, ConnectionRow, CreatablePortfolios, LimitRow
<1>4. StageOK /\ HeldOK /\ RoutedOK
  BY DEF RoutingInit, StageOK, HeldOK, RoutedOK, Unplaced, Placed
<1>5. PutOK
  BY DEF RoutingInit, PutOK, Taken, Unplaced, Pointless
<1> QED BY <1>3, <1>4, <1>5 DEF RoutingInv

\* Rows that decide nothing of the order on its way.
LEMMA EditKeeps ==
  ASSUME RoutingInv, UpdatePortfolio \/ JudgeUpdate \/ ChangeCatalog
  PROVE  RoutingInv'
<1>0. RoutingTypeOK /\ StageOK /\ HeldOK /\ PutOK /\ RoutedOK
  BY DEF RoutingInv
<1>1. UNCHANGED <<connection, account, strategyRow, registry, limit, order, astray, repointed>>
  BY DEF UpdatePortfolio, JudgeUpdate, ChangeCatalog
<1>2. StageOK' /\ HeldOK' /\ PutOK' /\ RoutedOK'
  BY <1>0, <1>1 DEF StageOK, HeldOK, PutOK, Taken, RoutedOK
<1>3. RoutingTypeOK'
  <2>1. CASE UpdatePortfolio
    BY <1>0, <2>1 DEF UpdatePortfolio, RoutingTypeOK
  <2>2. CASE JudgeUpdate
    BY <1>0, <2>2 DEF JudgeUpdate, RoutingTypeOK
  <2>3. CASE ChangeCatalog
    <3>1. \A c \in Catalogs : c.active \subseteq Instruments
      BY DEF Catalogs, Instruments
    <3> QED BY <1>0, <2>3, <3>1 DEF ChangeCatalog, RoutingTypeOK
  <2> QED BY <2>1, <2>2, <2>3
<1> QED BY <1>2, <1>3 DEF RoutingInv

LEMMA UpdateAccountKeeps ==
  ASSUME RoutingInv, UpdateAccount
  PROVE  RoutingInv'
<1>0. RoutingTypeOK /\ StageOK /\ HeldOK /\ PutOK /\ RoutedOK
  BY DEF RoutingInv
<1>1. PICK a \in Accounts, c \in Connections, p \in Portfolios \cup {None} :
        /\ account' = [account EXCEPT ![a] = [connection |-> c, portfolio |-> p]]
        /\ astray' = astray \cup (Brokers \X {a})
        /\ UNCHANGED <<connection, default, strategyRow, registry, catalog, limit, judged, order, repointed>>
  BY DEF UpdateAccount
<1>2. RoutingTypeOK'
  BY <1>0, <1>1 DEF RoutingTypeOK, CreatableAccounts
<1>3. StageOK' /\ HeldOK' /\ RoutedOK'
  BY <1>0, <1>1 DEF StageOK, HeldOK, RoutedOK
<1>4. PutOK'
  <2> SUFFICES ASSUME NEW b \in Brokers, NEW d \in Accounts, Taken(b, d)', <<b, d>> \notin astray'
               PROVE  connection[account'[d].connection].broker = b
    BY <1>1 DEF PutOK
  <2>1. Taken(b, d) /\ <<b, d>> \notin astray /\ d # a
    BY <1>1 DEF Taken
  <2>2. account'[d] = account[d]
    BY <1>0, <1>1, <2>1 DEF RoutingTypeOK
  <2> QED BY <1>0, <2>1, <2>2 DEF PutOK
<1> QED BY <1>2, <1>3, <1>4 DEF RoutingInv

\* A connection is pointed elsewhere, or only enabled or disabled.
LEMMA WriteUpdateKeeps ==
  ASSUME RoutingInv, WriteUpdate
  PROVE  RoutingInv'
<1>0. RoutingTypeOK /\ StageOK /\ HeldOK /\ PutOK /\ RoutedOK
  BY DEF RoutingInv
<1>1. PICK u \in judged :
        /\ judged' = judged \ {u}
        /\ connection' = [connection EXCEPT ![u.code] = Patched(@, u.patch)]
        /\ IF u.patch.field = "active" THEN UNCHANGED <<astray, repointed>>
           ELSE /\ astray' = astray \cup (Brokers \X {a \in Accounts : account[a].connection = u.code})
                /\ repointed' = (repointed \/ u.code = order.connection)
        /\ UNCHANGED <<account, default, strategyRow, registry, catalog, limit, order, edits>>
  BY DEF WriteUpdate
<1>2. PICK c \in Connections : c = u.code
  BY <1>0 DEF RoutingTypeOK
<1>3. PICK row : row = Patched(connection[c], u.patch)
  OBVIOUS
<1>4. row \in ConnectionRow
      /\ (u.patch.field = "active" => row.broker = connection[c].broker /\ row.environment = connection[c].environment)
  <2>1. u.patch \in ConnectionPatches /\ connection[c] \in ConnectionRow
    BY <1>0 DEF RoutingTypeOK
  <2>2. CASE \E b \in Brokers : u.patch = [field |-> "broker", value |-> b]
    BY <1>3, <2>1, <2>2 DEF Patched, ConnectionRow
  <2>3. CASE \E e \in Environments : u.patch = [field |-> "environment", value |-> e]
    BY <1>3, <2>1, <2>3 DEF Patched, ConnectionRow
  <2>4. CASE \E on \in BOOLEAN : u.patch = [field |-> "active", value |-> on]
    BY <1>3, <2>1, <2>4 DEF Patched, ConnectionRow
  <2> QED BY <2>1, <2>2, <2>3, <2>4 DEF ConnectionPatches
<1>5. connection' \in [Connections -> ConnectionRow] /\ connection'[c] = row
      /\ \A d \in Connections \ {c} : connection'[d] = connection[d]
  BY <1>0, <1>1, <1>2, <1>3, <1>4 DEF RoutingTypeOK
<1>6. RoutingTypeOK'
  BY <1>0, <1>1, <1>5 DEF RoutingTypeOK
<1>7. StageOK' /\ HeldOK'
  BY <1>0, <1>1 DEF StageOK, HeldOK
<1>8. PutOK'
  <2> SUFFICES ASSUME NEW b \in Brokers, NEW a \in Accounts, Taken(b, a)', <<b, a>> \notin astray'
               PROVE  connection'[account[a].connection].broker = b
    BY <1>1 DEF PutOK
  <2>1. Taken(b, a) /\ <<b, a>> \notin astray
    BY <1>1 DEF Taken
  <2>2. account[a].connection \in Connections /\ connection[account[a].connection].broker = b
    BY <1>0, <2>1 DEF PutOK, RoutingTypeOK, CreatableAccounts
  <2>3. CASE account[a].connection = c
    <3>1. u.patch.field = "active"
      BY <1>1, <1>2, <2>3
    <3> QED BY <1>4, <1>5, <2>2, <2>3, <3>1
  <2>4. CASE account[a].connection # c
    BY <1>5, <2>2, <2>4
  <2> QED BY <2>3, <2>4
<1>9. RoutedOK'
  <2>1. ASSUME order.stage \in Placed, ~repointed'
        PROVE  /\ connection'[order.connection].broker = order.broker
               /\ connection'[order.connection].environment = order.environment
    <3>1. order.connection \in Connections /\ ~repointed
      BY <1>0, <1>1, <2>1 DEF StageOK
    <3>2. /\ connection[order.connection].broker = order.broker
          /\ connection[order.connection].environment = order.environment
      BY <1>0, <2>1, <3>1 DEF RoutedOK
    <3>3. order.connection = c => u.patch.field = "active"
      BY <1>1, <1>2, <2>1
    <3> QED BY <1>4, <1>5, <3>1, <3>2, <3>3
  <2>2. ~repointed' => ~repointed
    BY <1>1
  <2> QED BY <1>0, <1>1, <2>1, <2>2 DEF RoutedOK
<1> QED BY <1>6, <1>7, <1>8, <1>9 DEF RoutingInv

LEMMA StrategyRowsKeep ==
  ASSUME RoutingInv, PutConnections \/ ReloadRegistry
  PROVE  RoutingInv'
<1>0. RoutingTypeOK /\ StageOK /\ HeldOK /\ PutOK /\ RoutedOK
  BY DEF RoutingInv
<1>1. UNCHANGED <<connection, account, default, catalog, limit, judged, order, repointed>>
  BY DEF PutConnections, ReloadRegistry
<1>2. StageOK' /\ HeldOK' /\ RoutedOK'
  BY <1>0, <1>1 DEF StageOK, HeldOK, RoutedOK
<1>3. CASE PutConnections
  <2>1. PICK entries \in [Brokers -> Accounts \cup {None}] :
          /\ \A b \in Brokers : entries[b] # None => CheckConnection("strategy", b, entries[b])
          /\ strategyRow' = entries /\ astray' = astray \ {<<b, entries[b]>> : b \in Brokers}
          /\ UNCHANGED registry
    BY <1>3 DEF PutConnections
  <2>2. RoutingTypeOK'
    BY <1>0, <1>1, <2>1 DEF RoutingTypeOK
  <2>3. PutOK'
    <3> SUFFICES ASSUME NEW b \in Brokers, NEW a \in Accounts, Taken(b, a)', <<b, a>> \notin astray'
                 PROVE  connection[account[a].connection].broker = b
      BY <1>1 DEF PutOK
    <3>1. CASE entries[b] = a
      <4>1. entries[b] # None
        BY <3>1 DEF Taken
      <4> QED BY <2>1, <3>1, <4>1 DEF CheckConnection
    <3>2. CASE entries[b] # a
      <4>1. Taken(b, a) /\ <<b, a>> \notin astray
        BY <1>1, <2>1, <3>2 DEF Taken
      <4> QED BY <1>0, <4>1 DEF PutOK
    <3> QED BY <3>1, <3>2
  <2> QED BY <1>2, <2>2, <2>3 DEF RoutingInv
<1>4. CASE ReloadRegistry
  <2>1. registry' = strategyRow /\ UNCHANGED <<strategyRow, astray>>
    BY <1>4 DEF ReloadRegistry
  <2>2. RoutingTypeOK'
    BY <1>0, <1>1, <2>1 DEF RoutingTypeOK
  <2>3. PutOK'
    BY <1>0, <1>1, <2>1 DEF PutOK, Taken
  <2> QED BY <1>2, <2>2, <2>3 DEF RoutingInv
<1> QED BY <1>3, <1>4

\* The row waits while a submit holds it.
LEMMA ChangeLimitKeeps ==
  ASSUME RoutingInv, ChangeLimit
  PROVE  RoutingInv'
<1>0. RoutingTypeOK /\ StageOK /\ HeldOK /\ PutOK /\ RoutedOK
  BY DEF RoutingInv
<1>1. PICK state \in TradingStates \cup {None} : ~limit.held /\ limit' = [limit EXCEPT !.state = state]
  BY DEF ChangeLimit, SetLimit
<1>2. UNCHANGED <<connection, account, default, strategyRow, registry, catalog, judged, order, astray, repointed>>
  BY DEF ChangeLimit
<1>3. limit' \in LimitRow
  BY <1>0, <1>1 DEF RoutingTypeOK, LimitRow
<1>4. RoutingTypeOK'
  BY <1>0, <1>2, <1>3 DEF RoutingTypeOK
<1>5. HeldOK'
  BY <1>0, <1>1, <1>2 DEF HeldOK
<1>6. StageOK' /\ PutOK' /\ RoutedOK'
  BY <1>0, <1>2 DEF StageOK, PutOK, Taken, RoutedOK
<1> QED BY <1>4, <1>5, <1>6 DEF RoutingInv

\* A reference that resolves has one meaning, the instrument it resolves to.
LEMMA ResolvedIsNamed ==
  ASSUME catalog.active \subseteq Instruments, NEW ref \in References, NEW i \in ResolveInstrumentRef(ref)
  PROVE  i \in Instruments /\ Named(ref) = {i}
<1>1. CASE ref.id # None
  <2>1. i = ref.id /\ Named(ref) = {ref.id}
    BY <1>1 DEF ResolveInstrumentRef, Named
  <2>2. ref.id \in Instruments
    BY <1>1 DEF References, Instruments, None
  <2> QED BY <2>1, <2>2
<1>2. CASE ref.id = None
  <2> DEFINE venue == IF ref.at # None THEN ref.at ELSE ref.field
             found == {j \in catalog.active : venue # None => Venue(j) = venue}
  <2>1. ~(ref.at # None /\ ref.field # None) /\ i \in found /\ Cardinality(found) = 1
    BY <1>2 DEF ResolveInstrumentRef
  <2>2. IsFiniteSet(Instruments)
    <3>1. Instruments = {"first"} \cup {"second"}
      BY DEF Instruments
    <3>2. IsFiniteSet({"first"})
      BY FS_Singleton
    <3> QED BY <3>1, <3>2, FS_AddElement
  <2>3. IsFiniteSet(found)
    <3>1. found \in SUBSET Instruments
      OBVIOUS
    <3> QED BY <2>2, <3>1, FS_Subset
  <2>4. found = {i}
    <3>1. PICK x : found = {x}
      BY <2>1, <2>3, FS_Singleton
    <3> QED BY <2>1, <3>1
  <2>5. Named(ref) = {j \in catalog.active : {ref.at, ref.field} \subseteq {None, Venue(j)}}
    BY <1>2 DEF Named
  <2>6. Named(ref) = found
    <3>1. ASSUME NEW j PROVE ({ref.at, ref.field} \subseteq {None, Venue(j)}) <=> (venue # None => Venue(j) = venue)
      BY <2>1
    <3> HIDE DEF venue
    <3> QED BY <2>5, <3>1
  <2> QED BY <2>1, <2>4, <2>6
<1> QED BY <1>1, <1>2

\* A step of the order that leaves the rows alone.
LEMMA OrderKeeps ==
  ASSUME RoutingInv, NEW row \in OrderRow, order' = row, limit' \in LimitRow,
         UNCHANGED <<connection, account, default, strategyRow, registry, catalog, judged, astray, repointed>>,
         StageOK', HeldOK', RoutedOK',
         row.stage = "resolved" /\ row.portfolio = "strategy"
           => row.broker_named \in Brokers /\ registry[row.broker_named] = row.account
  PROVE  RoutingInv'
<1>0. RoutingTypeOK /\ PutOK
  BY DEF RoutingInv
<1>1. RoutingTypeOK'
  BY <1>0 DEF RoutingTypeOK
<1>2. PutOK'
  BY <1>0 DEF PutOK, Taken
<1> QED BY <1>1, <1>2 DEF RoutingInv

LEMMA SubmitKeeps ==
  ASSUME RoutingInv, SubmitDesk \/ SubmitStrategy
  PROVE  RoutingInv'
<1>0. RoutingTypeOK /\ order.stage = "none" /\ limit \in LimitRow
  BY DEF RoutingInv, RoutingTypeOK, SubmitDesk, SubmitStrategy
<1>1. ASSUME NEW row \in OrderRow, order' = row, row.stage = "resolved", row.named = {row.instrument},
             row.account \in Accounts, row.connection = None, row.limit = None, row.cancel = None,
             row.portfolio = "strategy" => row.broker_named \in Brokers /\ registry[row.broker_named] = row.account
                                           /\ row.account # None,
             UNCHANGED <<connection, account, default, strategyRow, registry, catalog, limit, judged, astray, repointed>>
      PROVE  RoutingInv'
  <2>1. StageOK' /\ HeldOK' /\ RoutedOK'
    BY <1>1 DEF StageOK, HeldOK, RoutedOK, Placed
  <2> QED BY <1>0, <1>1, <2>1, OrderKeeps
<1>2. CASE SubmitDesk
  <2>1. PICK ref \in References, a \in Accounts \cup {None} :
          \E i \in ResolveInstrumentRef(ref) :
             /\ a = None => default # None
             /\ order' = [Unplaced EXCEPT !.stage = "resolved", !.portfolio = "desk", !.named = Named(ref),
                            !.account = IF a = None THEN default ELSE a, !.explicit = a # None,
                            !.instrument = i]
    BY <1>2 DEF SubmitDesk
  <2>2. PICK i \in ResolveInstrumentRef(ref) :
             /\ a = None => default # None
             /\ order' = [Unplaced EXCEPT !.stage = "resolved", !.portfolio = "desk", !.named = Named(ref),
                            !.account = IF a = None THEN default ELSE a, !.explicit = a # None,
                            !.instrument = i]
    BY <2>1
  <2>3. i \in Instruments /\ Named(ref) = {i}
    BY <1>0, ResolvedIsNamed DEF RoutingTypeOK
  <2>4. PICK b \in Accounts : b = IF a = None THEN default ELSE a
    BY <1>0, <2>2 DEF RoutingTypeOK
  <2>5. PICK explicit \in BOOLEAN : explicit = (a # None)
    OBVIOUS
  <2>6. PICK row : row = [Unplaced EXCEPT !.stage = "resolved", !.portfolio = "desk", !.named = {i},
                            !.account = b, !.explicit = explicit, !.instrument = i]
    OBVIOUS
  <2>7. /\ row \in OrderRow /\ row.stage = "resolved" /\ row.named = {row.instrument} /\ row.portfolio = "desk"
        /\ row.account \in Accounts /\ row.connection = None /\ row.limit = None /\ row.cancel = None
    BY <2>3, <2>6 DEF Unplaced, OrderRow, Targets, Portfolios
  <2>8. order' = row
    BY <2>2, <2>3, <2>4, <2>5, <2>6
  <2> QED BY <1>1, <1>2, <2>7, <2>8 DEF SubmitDesk
<1>3. CASE SubmitStrategy
  <2>1. PICK b \in Brokers, i \in Instruments :
          /\ registry[b] # None
          /\ order' = [Unplaced EXCEPT !.stage = "resolved", !.portfolio = "strategy", !.named = {i},
                         !.broker_named = b, !.account = registry[b], !.explicit = TRUE, !.instrument = i]
    BY <1>3 DEF SubmitStrategy
  <2>2. PICK a \in Accounts : a = registry[b]
    BY <1>0, <2>1 DEF RoutingTypeOK
  <2>3. PICK explicit \in BOOLEAN : explicit = TRUE
    OBVIOUS
  <2>4. PICK row : row = [Unplaced EXCEPT !.stage = "resolved", !.portfolio = "strategy", !.named = {i},
                            !.broker_named = b, !.account = a, !.explicit = explicit, !.instrument = i]
    OBVIOUS
  <2>5. /\ row \in OrderRow /\ row.stage = "resolved" /\ row.named = {row.instrument}
        /\ row.broker_named = b /\ row.account = a
        /\ row.account \in Accounts /\ row.connection = None /\ row.limit = None /\ row.cancel = None
    BY <2>4 DEF Unplaced, OrderRow, Targets, Portfolios
  <2>6. order' = row
    BY <2>1, <2>2, <2>3, <2>4
  <2> QED BY <1>1, <1>3, <2>1, <2>2, <2>5, <2>6 DEF SubmitStrategy
<1> QED BY <1>2, <1>3

\* The connection, its broker and its environment are read together.
LEMMA PreflightKeeps ==
  ASSUME RoutingInv, Preflight
  PROVE  RoutingInv'
<1>0. /\ RoutingTypeOK /\ StageOK /\ PutOK /\ order \in OrderRow /\ limit \in LimitRow /\ order.stage = "resolved"
      /\ order.account \in Accounts /\ order.named = {order.instrument} /\ order.limit = None
  BY DEF RoutingInv, RoutingTypeOK, Preflight, StageOK
<1>1. UNCHANGED <<connection, account, default, strategyRow, registry, catalog, limit, judged, astray, repointed>>
  BY DEF Preflight
<1>2. PICK c \in Connections : c = account[order.account].connection
  BY <1>0 DEF RoutingTypeOK, CreatableAccounts
<1>3. PICK strayed \in BOOLEAN : strayed = (<<order.broker_named, order.account>> \in astray)
  <2>1. CASE <<order.broker_named, order.account>> \in astray
    <3>1. (<<order.broker_named, order.account>> \in astray) = TRUE
      BY <2>1
    <3> QED BY <3>1
  <2>2. CASE <<order.broker_named, order.account>> \notin astray
    <3>1. (<<order.broker_named, order.account>> \in astray) = FALSE
      BY <2>2
    <3> QED BY <3>1
  <2> QED BY <2>1, <2>2
<1>4. CASE order' = [order EXCEPT !.stage = "ready", !.connection = c, !.broker = connection[c].broker,
                       !.environment = connection[c].environment, !.strayed = strayed]
  <2>1. PICK broker \in Brokers, environment \in Environments :
          broker = connection[c].broker /\ environment = connection[c].environment
    BY <1>0 DEF RoutingTypeOK, ConnectionRow
  <2>2. PICK row : row = [order EXCEPT !.stage = "ready", !.connection = c, !.broker = broker,
                            !.environment = environment, !.strayed = strayed]
    OBVIOUS
  <2>0. row \in OrderRow
    <3>1. order \in OrderRow
      BY <1>0
    <3> QED BY <2>2, <3>1 DEF OrderRow, Placed
  <2>3. /\ row \in OrderRow /\ row.stage = "ready" /\ row.connection = c /\ row.broker = broker
        /\ row.environment = environment /\ row.strayed = strayed
        /\ row.account = order.account /\ row.named = order.named /\ row.instrument = order.instrument
        /\ row.portfolio = order.portfolio /\ row.broker_named = order.broker_named
        /\ row.limit = order.limit /\ row.cancel = order.cancel
    BY <1>0, <2>2, <2>0 DEF OrderRow
  <2>4. order' = row
    BY <1>4, <2>1, <2>2
  <2>5. row.cancel = None
    BY <1>0, <2>3 DEF StageOK
  <2>6. StageOK' /\ HeldOK'
    BY <1>0, <2>3, <2>4, <2>5 DEF StageOK, HeldOK, Placed
  <2>7. ASSUME order.portfolio = "strategy", ~strayed PROVE connection[c].broker = order.broker_named
    <3>1. order.broker_named \in Brokers /\ order.account # None
      BY <1>0, <2>7 DEF StageOK
    <3>2. Taken(order.broker_named, order.account)
      BY <1>0, <2>7, <3>1 DEF Taken
    <3> QED BY <1>0, <1>2, <1>3, <2>7, <3>1, <3>2 DEF PutOK
  <2>8. RoutedOK'
    BY <1>1, <2>1, <2>3, <2>4, <2>5, <2>7 DEF RoutedOK
  <2> QED BY <1>0, <1>1, <2>3, <2>4, <2>6, <2>8, OrderKeeps
<1>5. CASE order' = [order EXCEPT !.stage = "refused"]
  <2>1. PICK row : row = [order EXCEPT !.stage = "refused"]
    OBVIOUS
  <2>2. /\ row \in OrderRow /\ row.stage = "refused" /\ row.connection = order.connection /\ row.strayed = order.strayed
        /\ row.account = order.account /\ row.named = order.named /\ row.instrument = order.instrument
        /\ row.portfolio = order.portfolio /\ row.broker_named = order.broker_named /\ row.broker = order.broker
        /\ row.limit = order.limit /\ row.cancel = order.cancel
    BY <1>0, <2>1 DEF OrderRow
  <2>3. order' = row
    BY <1>5, <2>1
  <2>4. StageOK' /\ HeldOK'
    BY <1>0, <2>2, <2>3 DEF StageOK, HeldOK, Placed
  <2>5. RoutedOK'
    BY <1>0, <1>1, <2>2, <2>3 DEF RoutingInv, RoutedOK, StageOK, Placed
  <2> QED BY <1>0, <1>1, <2>2, <2>3, <2>4, <2>5, OrderKeeps
<1> QED BY <1>2, <1>3, <1>4, <1>5 DEF Preflight

\* From the check of the limit to the cancel, the order keeps its route.
LEMMA PlacedKeeps ==
  ASSUME RoutingInv, CheckLimit \/ Commit1 \/ Send \/ CancelRouted
  PROVE  RoutingInv'
<1>0. /\ RoutingTypeOK /\ StageOK /\ RoutedOK /\ HeldOK /\ order \in OrderRow /\ limit \in LimitRow
      /\ order.stage \in Placed \ {"cancelled"} /\ order.connection \in Connections
  BY DEF RoutingInv, RoutingTypeOK, CheckLimit, Commit1, Send, CancelRouted, Placed, StageOK
<1>1. UNCHANGED <<connection, account, default, strategyRow, registry, catalog, judged, astray, repointed>>
  BY DEF CheckLimit, Commit1, Send, CancelRouted
<1>2. ASSUME NEW row \in OrderRow, order' = row, limit' \in LimitRow, HeldOK',
             row.stage \in {"checked", "refused", "stored"},
             row.account = order.account, row.named = order.named, row.instrument = order.instrument,
             row.portfolio = order.portfolio, row.broker_named = order.broker_named, row.strayed = order.strayed,
             row.connection = order.connection, row.broker = order.broker, row.environment = order.environment,
             row.cancel = order.cancel
      PROVE  RoutingInv'
  <2>1. StageOK'
    BY <1>0, <1>2 DEF StageOK, Placed
  <2>2. RoutedOK'
    BY <1>0, <1>1, <1>2 DEF RoutedOK, StageOK, Placed
  <2> QED BY <1>1, <1>2, <2>1, <2>2, OrderKeeps
<1>3. CASE CheckLimit
  <2>1. order.stage = "ready" /\ order.limit = None
    BY <1>0, <1>3 DEF CheckLimit, StageOK
  <2>2. CASE order.portfolio = "strategy" \/ limit.state = "HALTED"
    <3>1. PICK stage \in {"checked", "refused"} : order' = [order EXCEPT !.stage = stage]
      BY <1>3, <2>2 DEF CheckLimit
    <3>2. PICK row : row = [order EXCEPT !.stage = stage]
      OBVIOUS
    <3>3. /\ row \in OrderRow /\ row.stage = stage /\ row.limit = None /\ row.account = order.account
          /\ row.named = order.named /\ row.instrument = order.instrument
          /\ row.portfolio = order.portfolio /\ row.broker_named = order.broker_named /\ row.strayed = order.strayed
          /\ row.connection = order.connection /\ row.broker = order.broker /\ row.environment = order.environment
          /\ row.cancel = order.cancel
      BY <1>0, <2>1, <3>2 DEF OrderRow, Placed
    <3>4. order' = row /\ limit' = limit
      BY <1>3, <2>2, <3>1, <3>2 DEF CheckLimit
    <3>5. HeldOK'
      BY <3>3, <3>4 DEF HeldOK
    <3> QED BY <1>0, <1>2, <3>3, <3>4, <3>5
  <2>3. CASE order.portfolio # "strategy" /\ limit.state # "HALTED"
    <3>1. PICK held \in BOOLEAN : held = (limit.state # None)
      OBVIOUS
    <3>2. order' = [order EXCEPT !.stage = "checked", !.limit = limit.state] /\ limit' = [limit EXCEPT !.held = held]
      BY <1>3, <2>3, <3>1 DEF CheckLimit
    <3>3. PICK row : row = [order EXCEPT !.stage = "checked", !.limit = limit.state]
      OBVIOUS
    <3>4. /\ row \in OrderRow /\ row.stage = "checked" /\ row.limit = limit.state /\ row.account = order.account
          /\ row.named = order.named /\ row.instrument = order.instrument
          /\ row.portfolio = order.portfolio /\ row.broker_named = order.broker_named /\ row.strayed = order.strayed
          /\ row.connection = order.connection /\ row.broker = order.broker /\ row.environment = order.environment
          /\ row.cancel = order.cancel
      BY <1>0, <3>3 DEF OrderRow, Placed, LimitRow
    <3>5. limit' \in LimitRow /\ limit'.state = limit.state /\ limit'.held = held
      BY <1>0, <3>2 DEF LimitRow
    <3>6. order' = row
      BY <3>2, <3>3
    <3>7. HeldOK'
      BY <2>3, <3>1, <3>4, <3>5, <3>6 DEF HeldOK
    <3> QED BY <1>2, <3>4, <3>5, <3>6, <3>7
  <2> QED BY <2>2, <2>3
<1>4. CASE Commit1
  <2>1. PICK row : row = [order EXCEPT !.stage = "stored"]
    OBVIOUS
  <2>2. /\ row \in OrderRow /\ row.stage = "stored" /\ row.account = order.account
        /\ row.named = order.named /\ row.instrument = order.instrument
        /\ row.portfolio = order.portfolio /\ row.broker_named = order.broker_named /\ row.strayed = order.strayed
        /\ row.connection = order.connection /\ row.broker = order.broker /\ row.environment = order.environment
        /\ row.cancel = order.cancel
    BY <1>0, <2>1 DEF OrderRow, Placed
  <2>3. PICK held \in BOOLEAN : held = FALSE
    OBVIOUS
  <2>4. order' = row /\ limit' = [limit EXCEPT !.held = held]
    BY <1>4, <2>1, <2>3 DEF Commit1
  <2>5. limit' \in LimitRow
    BY <1>0, <2>4 DEF LimitRow
  <2>6. HeldOK'
    BY <2>2, <2>4 DEF HeldOK
  <2> QED BY <1>2, <2>2, <2>4, <2>5, <2>6
<1>5. CASE Send \/ CancelRouted
  <2>1. PICK stage \in {"routed", "cancelled"}, sent \in Targets, cancel \in Targets :
          /\ order' = [order EXCEPT !.stage = stage, !.sent = sent, !.cancel = cancel]
          /\ stage = "routed" => sent = <<order.broker, order.environment>> /\ cancel = None
          /\ stage = "cancelled" => sent = order.sent /\ order.stage = "routed"
                 /\ cancel = <<connection[order.connection].broker, connection[order.connection].environment>>
    <3>1. connection[order.connection] \in ConnectionRow
      BY <1>0 DEF RoutingTypeOK
    <3>2. <<connection[order.connection].broker, connection[order.connection].environment>> \in Targets
      BY <3>1 DEF ConnectionRow, Targets
    <3>3. CASE Send
      <4>1. order' = [order EXCEPT !.stage = "routed", !.sent = <<order.broker, order.environment>>] /\ order.stage = "stored"
        BY <3>3 DEF Send
      <4>2. order.cancel = None
        BY <1>0, <4>1 DEF StageOK
      <4>3. <<order.broker, order.environment>> \in Targets
        BY <1>0, <4>1 DEF OrderRow, Targets
      <4>4. order' = [order EXCEPT !.stage = "routed", !.sent = <<order.broker, order.environment>>, !.cancel = None]
        BY <1>0, <4>1, <4>2 DEF OrderRow
      <4> QED BY <4>3, <4>4 DEF Targets
    <3>4. CASE CancelRouted
      <4>1. /\ order.stage = "routed"
            /\ order' = [order EXCEPT !.stage = "cancelled",
                           !.cancel = <<connection[order.connection].broker, connection[order.connection].environment>>]
        BY <3>4 DEF CancelRouted, CancelTarget
      <4> QED BY <1>0, <3>2, <4>1 DEF OrderRow
    <3> QED BY <1>5, <3>3, <3>4
  <2>2. PICK row : row = [order EXCEPT !.stage = stage, !.sent = sent, !.cancel = cancel]
    OBVIOUS
  <2>3. /\ row \in OrderRow /\ row.stage = stage /\ row.sent = sent /\ row.cancel = cancel /\ row.account = order.account
        /\ row.named = order.named /\ row.instrument = order.instrument
        /\ row.portfolio = order.portfolio /\ row.broker_named = order.broker_named /\ row.strayed = order.strayed
        /\ row.connection = order.connection /\ row.broker = order.broker /\ row.environment = order.environment
    BY <1>0, <2>2 DEF OrderRow, Placed
  <2>4. order' = row /\ limit' = limit
    BY <1>5, <2>1, <2>2 DEF Send, CancelRouted
  <2>5. StageOK' /\ HeldOK'
    BY <1>0, <2>1, <2>3, <2>4 DEF StageOK, HeldOK, Placed
  <2>6. RoutedOK'
    BY <1>0, <1>1, <2>1, <2>3, <2>4 DEF RoutedOK, StageOK, Placed
  <2> QED BY <1>0, <1>1, <2>3, <2>4, <2>5, <2>6, OrderKeeps
<1> QED BY <1>3, <1>4, <1>5

LEMMA RoutingInvariant == RoutingSpec => []RoutingInv
<1>1. RoutingInv /\ [RoutingNext]_routingVars => RoutingInv'
  <2> SUFFICES ASSUME RoutingInv, [RoutingNext]_routingVars PROVE RoutingInv'
    OBVIOUS
  <2>1. ASSUME UNCHANGED routingVars PROVE RoutingInv'
    BY <2>1 DEF routingVars, RoutingInv, RoutingTypeOK, StageOK, HeldOK, PutOK, Taken, RoutedOK
  <2> QED BY <2>1, EditKeeps, UpdateAccountKeeps, WriteUpdateKeeps, StrategyRowsKeep, ChangeLimitKeeps,
             SubmitKeeps, PreflightKeeps, PlacedKeeps DEF RoutingNext
<1> QED BY <1>1, RoutingInitInv, PTL DEF RoutingSpec

\* risk_engine.rs risk_config FOR UPDATE and admin.rs update_risk_limit: a halt
\* that was answered is behind no order that was checked before it.
THEOREM HaltSafe == RoutingSpec => []HaltWaitsForChecked
<1>1. RoutingInv => HaltWaitsForChecked
  BY DEF RoutingInv, HeldOK, HaltWaitsForChecked
<1> QED BY <1>1, RoutingInvariant, PTL

\* handlers.rs resolve_instrument_ref, strategies/admin.rs put_connections,
\* order_entry.rs submit and cancel: an order and its cancel go where they say.
THEOREM RoutingSafe == RoutingSpec => []RoutedAsNamed
<1>1. RoutingInv => RoutedAsNamed
  <2> SUFFICES ASSUME RoutingInv PROVE RoutedAsNamed
    OBVIOUS
  <2>0. RoutingTypeOK /\ StageOK /\ RoutedOK
    BY DEF RoutingInv
  <2>1. \A i \in catalog.active, a \in Accounts : ShownEligible("desk", i, a) <=> MayRoute(a, TRUE, "desk", i)
    <3> TAKE i \in catalog.active, a \in Accounts
    <3>1. account[a].connection \in Connections
      BY <2>0 DEF RoutingTypeOK, CreatableAccounts
    <3> QED BY <3>1 DEF ShownEligible, MayRoute, ClassifyVenue
  <2>2. order.connection # None => order.named = {order.instrument}
    BY <2>0 DEF StageOK
  <2> QED BY <2>0, <2>1, <2>2 DEF RoutedAsNamed, RoutedOK
<1> QED BY <1>1, RoutingInvariant, PTL

-----------------------------------------------------------------------------
(* Setup                                                                      *)

Ended == {"idle", "ok", "failed", "died"}
Steps == Ended \cup {"docker", "probe", "write", "inspect", "role", "database", "connect", "list", "apply",
                     "grant", "seed", "check", "save", "download", "staged"}
PlanItems == {"role", "database", "broker", "feed", "genuine", "damaged", "mislabelled"}
CommandRow == [cmd : {"none", "init", "database init", "resume", "migrate", "import", "update"}, pc : Steps,
               password : Nat, key : Nat, version : Nat, plan : SUBSET PlanItems, todo : SUBSET Nat,
               disturbed : BOOLEAN, foreign : BOOLEAN]
DatabaseRow == [exists : BOOLEAN, tracked : BOOLEAN, ran : Seq(Nat), granted : BOOLEAN, seeds : 0..AllSeeds]

SharedOK ==
    /\ config \in [file : {"absent", "torn", "whole"}, password : Nat, key : Nat]
    /\ role \in [exists : BOOLEAN, password : Nat]
    /\ database \in DatabaseRow
    /\ store \in [CredentialRows -> Nat]
    /\ exe \in [version : Nat, release : {"genuine"}]
    /\ secrets \in Nat /\ printed \in Nat

\* Each migration has run once and in order, none where there is no database;
\* one key opens what is stored.
RanOK == /\ \A i \in DOMAIN database.ran : database.ran[i] = i
         /\ ~database.exists => database.ran = <<>>
SealedOK == \A r, s \in Sealed : store[r] = store[s]

\* A command that applies migrations has the database, and goes on from a file
\* that is recorded already or comes next.  One that stores credentials has the
\* key of the file, which opens whatever is stored.
CommandOK(t) ==
    /\ command[t].pc \in {"list", "apply", "grant", "seed", "save"} => database.exists
    /\ command[t].pc = "apply" => \E k \in 1..(Len(database.ran) + 1) : command[t].todo = k..command[t].version
    /\ command[t].pc = "seed" => \E k \in 1..AllSeeds : command[t].todo = k..AllSeeds
    /\ command[t].pc \in {"check", "save"} => config.file = "whole" /\ command[t].key = config.key
    /\ command[t].pc = "save" => \A r \in Sealed : store[r] = command[t].key
    /\ command[t].pc = "write" => config.file = "torn"

\* How far a resume that nothing disturbed has come.
ResumeOK(t) == Running(t) /\ command[t].cmd = "resume" /\ ~command[t].disturbed =>
    /\ command[t].pc \in {"inspect", "role", "database", "connect", "list", "apply", "grant", "seed"}
    /\ command[t].password = FromFile.password /\ ~RefusesDefault(command[t].password)
    /\ command[t].pc # "inspect" /\ role.exists => command[t].foreign \/ role.password = command[t].password
    /\ command[t].pc = "role" => ~role.exists /\ ("database" \in command[t].plan <=> ~database.exists)
    /\ command[t].pc = "database" => ~database.exists
    /\ command[t].pc \notin {"inspect", "role"} => role.exists
    /\ command[t].pc \in {"connect", "list", "apply", "grant", "seed"} => database.exists
    /\ command[t].pc = "apply" => command[t].todo = (Len(database.ran) + 1)..command[t].version
    /\ command[t].pc \in {"grant", "seed"} => 1..command[t].version \subseteq Recorded
    /\ command[t].pc = "seed" => database.granted
    /\ command[t].pc = "seed" => \A k \in 1..AllSeeds : command[t].todo = k..AllSeeds => database.seeds >= k - 1

SetupInv ==
    /\ SharedOK /\ command \in [Terminals -> CommandRow] /\ RanOK /\ SealedOK
    /\ \A t \in Terminals : CommandOK(t) /\ ResumeOK(t)
    /\ \A t, u \in Terminals : command[t].pc = "write" /\ command[u].pc = "write" => t = u

LEMMA IdleIs == ASSUME NEW result \in Ended
                PROVE  /\ [Idle EXCEPT !.pc = result] \in CommandRow
                       /\ [Idle EXCEPT !.pc = result].pc = result
                       /\ [Idle EXCEPT !.pc = result].cmd = "none"
BY DEF Idle, CommandRow, Steps

LEMMA SetupInitInv == SetupInit => SetupInv
<1> SUFFICES ASSUME SetupInit PROVE SetupInv
  OBVIOUS
<1>1. SharedOK
  <2>1. <<>> \in Seq(Nat) /\ 0 \in 0..AllSeeds
    BY DEF AllSeeds
  <2>2. database \in DatabaseRow
    BY <2>1 DEF SetupInit, DatabaseRow, NoDatabase
  <2>3. store \in [CredentialRows -> Nat]
    BY DEF SetupInit, NoBlobs
  <2> QED BY <2>2, <2>3 DEF SetupInit, SharedOK, NoConfig, NoRole
<1>2. Idle \in CommandRow /\ Idle.pc = "idle"
  BY DEF Idle, CommandRow, Steps, Ended
<1>3. command \in [Terminals -> CommandRow] /\ \A t \in Terminals : command[t].pc = "idle"
  BY <1>2 DEF SetupInit
<1>4. RanOK /\ SealedOK
  BY DEF SetupInit, RanOK, SealedOK, Sealed, NoDatabase, NoBlobs
<1>5. \A t \in Terminals : CommandOK(t) /\ ResumeOK(t)
  BY <1>3 DEF CommandOK, ResumeOK, Running
<1> QED BY <1>1, <1>3, <1>4, <1>5 DEF SetupInv

\* What a step of one command makes of the others: nothing but a disturbance.
LEMMA SteppedIs ==
  ASSUME command \in [Terminals -> CommandRow], NEW t \in Terminals, NEW c \in CommandRow, Stepped(t, c)
  PROVE  /\ command' \in [Terminals -> CommandRow] /\ command'[t] = c
         /\ \A u \in Terminals \ {t} :
               /\ command'[u].pc = command[u].pc /\ command'[u].cmd = command[u].cmd
               /\ command'[u].key = command[u].key /\ command'[u].version = command[u].version
               /\ command'[u].todo = command[u].todo
               /\ Running(u) => command'[u].disturbed
<1>1. command' = [u \in Terminals |->
         IF u = t THEN c
         ELSE IF Running(u) THEN [command[u] EXCEPT !.disturbed = TRUE] ELSE command[u]]
  BY DEF Stepped
<1>2. command' \in [Terminals -> CommandRow] /\ command'[t] = c
  BY <1>1 DEF CommandRow
<1>3. ASSUME NEW u \in Terminals \ {t}
      PROVE  /\ command'[u].pc = command[u].pc /\ command'[u].cmd = command[u].cmd
             /\ command'[u].key = command[u].key /\ command'[u].version = command[u].version
             /\ command'[u].todo = command[u].todo
             /\ Running(u) => command'[u].disturbed
  <2>1. command[u] \in CommandRow /\ command'[u] = IF Running(u) THEN [command[u] EXCEPT !.disturbed = TRUE] ELSE command[u]
    BY <1>1
  <2> QED BY <2>1 DEF CommandRow
<1> QED BY <1>2, <1>3

\* A step of one command keeps the invariant when what it leaves suits itself.
LEMMA StepKeeps ==
  ASSUME SetupInv, NEW t \in Terminals, NEW c \in CommandRow, Stepped(t, c),
         SharedOK', RanOK', SealedOK', CommandOK(t)', ResumeOK(t)',
         database.exists => database'.exists, Len(database'.ran) >= Len(database.ran),
         config' = config \/ config.file = "absent" \/ command[t].pc = "write",
         store' = store \/ (command[t].pc = "save" /\ \E r \in CredentialRows : store' = [store EXCEPT ![r] = command[t].key]),
         c.pc = "write" => config.file = "absent"
  PROVE  SetupInv'
<1>0. /\ SharedOK /\ command \in [Terminals -> CommandRow]
      /\ \A u \in Terminals : CommandOK(u) /\ ResumeOK(u)
      /\ \A u, v \in Terminals : command[u].pc = "write" /\ command[v].pc = "write" => u = v
  BY DEF SetupInv
<1>1. /\ command' \in [Terminals -> CommandRow] /\ command'[t] = c
      /\ \A u \in Terminals \ {t} :
            /\ command'[u].pc = command[u].pc /\ command'[u].cmd = command[u].cmd
            /\ command'[u].key = command[u].key /\ command'[u].version = command[u].version
            /\ command'[u].todo = command[u].todo
            /\ Running(u) => command'[u].disturbed
  BY <1>0, SteppedIs
<1>2. ASSUME NEW u \in Terminals \ {t} PROVE ResumeOK(u)'
  BY <1>1 DEF ResumeOK, Running
<1>3. ASSUME NEW u \in Terminals \ {t} PROVE CommandOK(u)'
  <2>1. command[u].pc = "apply" => \E k \in 1..(Len(database'.ran) + 1) : command[u].todo = k..command[u].version
    <3>1. Len(database.ran) \in Nat /\ Len(database'.ran) \in Nat
      BY <1>0 DEF SharedOK, DatabaseRow
    <3>2. ASSUME command[u].pc = "apply"
          PROVE \E k \in 1..(Len(database'.ran) + 1) : command[u].todo = k..command[u].version
      <4>1. PICK k \in 1..(Len(database.ran) + 1) : command[u].todo = k..command[u].version
        BY <1>0, <3>2 DEF CommandOK
      <4>2. k \in 1..(Len(database'.ran) + 1)
        BY <3>1
      <4> QED BY <4>1, <4>2
    <3> QED BY <3>2
  <2>2. command[u].pc \in {"check", "save"} => config'.file = "whole" /\ command[u].key = config'.key
    BY <1>0 DEF CommandOK
  <2>3. command[u].pc = "write" => config'.file = "torn"
    BY <1>0 DEF CommandOK
  <2>4. command[u].pc = "save" => \A r \in Sealed' : store'[r] = command[u].key
    <3>1. CASE store' = store
      BY <1>0, <3>1 DEF CommandOK, Sealed
    <3>2. CASE command[t].pc = "save" /\ \E r \in CredentialRows : store' = [store EXCEPT ![r] = command[t].key]
      <4>1. PICK r \in CredentialRows : store' = [store EXCEPT ![r] = command[t].key]
        BY <3>2
      <4>2. store \in [CredentialRows -> Nat]
        BY <1>0 DEF SharedOK
      <4>3. store'[r] = command[t].key /\ \A s \in CredentialRows \ {r} : store'[s] = store[s]
        BY <4>1, <4>2
      <4>4. command[u].pc = "save" => command[t].key = command[u].key
        BY <1>0, <3>2 DEF CommandOK
      <4> QED BY <1>0, <4>3, <4>4 DEF CommandOK, Sealed
    <3> QED BY <3>1, <3>2
  <2> QED BY <1>0, <1>1, <2>1, <2>2, <2>3, <2>4 DEF CommandOK
<1>4. \A u, v \in Terminals : command'[u].pc = "write" /\ command'[v].pc = "write" => u = v
  BY <1>0, <1>1 DEF CommandOK
<1> QED BY <1>1, <1>2, <1>3, <1>4 DEF SetupInv

\* A command that ends leaves nothing to hold of itself.
LEMMA EndKeeps ==
  ASSUME SetupInv, NEW t \in Terminals, NEW result \in Ended, Ends(t, result),
         SharedOK', RanOK', SealedOK',
         database.exists => database'.exists, Len(database'.ran) >= Len(database.ran),
         config' = config \/ config.file = "absent" \/ command[t].pc = "write",
         store' = store \/ (command[t].pc = "save" /\ \E r \in CredentialRows : store' = [store EXCEPT ![r] = command[t].key])
  PROVE  SetupInv'
<1>1. PICK c \in CommandRow : c = [Idle EXCEPT !.pc = result] /\ c.pc = result
  BY IdleIs
<1>2. Stepped(t, c)
  BY <1>1 DEF Ends
<1>3. command'[t] = c
  BY <1>2, SteppedIs DEF SetupInv
<1>4. c.pc \in Ended
  BY <1>1
<1>5. CommandOK(t)' /\ ResumeOK(t)'
  BY <1>3, <1>4 DEF CommandOK, ResumeOK, Running, Ended
<1> QED BY <1>2, <1>4, <1>5, StepKeeps DEF Ended

\* A step that leaves everything but its own command as it is.
SharedSame == UNCHANGED <<server, container, config, exe, secrets, printed, role, database, store>>

LEMMA SameKeeps ==
  ASSUME SetupInv, NEW t \in Terminals, SharedSame
  PROVE  /\ \A result \in Ended : Ends(t, result) => SetupInv'
         /\ \A c \in CommandRow : Stepped(t, c) /\ CommandOK(t)' /\ ResumeOK(t)' /\ c.pc # "write" => SetupInv'
<1>1. SharedOK' /\ RanOK' /\ SealedOK' /\ (database.exists => database'.exists)
      /\ config' = config /\ store' = store
  BY DEF SetupInv, SharedOK, RanOK, SealedOK, Sealed, SharedSame
<1>2. Len(database'.ran) >= Len(database.ran)
  <2>1. Len(database.ran) \in Nat
    BY DEF SetupInv, SharedOK, DatabaseRow
  <2> QED BY <2>1 DEF SharedSame
<1> QED BY <1>1, <1>2, EndKeeps, StepKeeps

\* A command that goes to its next step.
LEMMA GoesIs ==
  ASSUME SetupInv, NEW t \in Terminals, NEW pc \in Steps, Goes(t, pc)
  PROVE  \E c \in CommandRow :
           /\ Stepped(t, c) /\ c.pc = pc
           /\ c.cmd = command[t].cmd /\ c.password = command[t].password /\ c.key = command[t].key
           /\ c.version = command[t].version /\ c.plan = command[t].plan /\ c.todo = command[t].todo
           /\ c.disturbed = command[t].disturbed /\ c.foreign = command[t].foreign
<1>1. PICK c : c = [command[t] EXCEPT !.pc = pc]
  OBVIOUS
<1>2. command[t] \in CommandRow
  BY DEF SetupInv
<1>3. /\ c \in CommandRow /\ c.pc = pc
      /\ c.cmd = command[t].cmd /\ c.password = command[t].password /\ c.key = command[t].key
      /\ c.version = command[t].version /\ c.plan = command[t].plan /\ c.todo = command[t].todo
      /\ c.disturbed = command[t].disturbed /\ c.foreign = command[t].foreign
  BY <1>1, <1>2 DEF CommandRow
<1>4. Stepped(t, c)
  BY <1>1 DEF Goes
<1> QED BY <1>3, <1>4

LEMMA BeginKeeps ==
  ASSUME SetupInv, NEW t \in Terminals,
         NEW cmd \in {"init", "database init", "resume", "migrate", "import", "update"}, BeginCommand(t, cmd)
  PROVE  SetupInv'
<1>0. SharedOK /\ command \in [Terminals -> CommandRow] /\ SharedSame
  BY DEF SetupInv, BeginCommand, fileVars, SharedSame
<1>1. PICK busy \in BOOLEAN : busy = (\E u \in Terminals \ {t} : Running(u))
  <2>1. CASE \E u \in Terminals \ {t} : Running(u)
    <3>1. (\E u \in Terminals \ {t} : Running(u)) = TRUE
      BY <2>1
    <3> QED BY <3>1
  <2>2. CASE ~ \E u \in Terminals \ {t} : Running(u)
    <3>1. (\E u \in Terminals \ {t} : Running(u)) = FALSE
      BY <2>2
    <3> QED BY <3>1
  <2> QED BY <2>1, <2>2
<1>2. PICK first : first =
         CASE cmd = "init" -> IF config.file # "absent" THEN "failed"
                              ELSE IF server = "docker" THEN "docker" ELSE "probe"
           [] cmd \in {"database init", "resume"} ->
                IF RefusesDefault(FromFile.password) THEN "failed" ELSE "inspect"
           [] cmd = "migrate" -> "connect"
           [] cmd = "import" -> IF FromFile.key = 0 THEN "failed" ELSE "check"
           [] cmd = "update" -> "download"
  OBVIOUS
<1>3. /\ first \in {"failed", "docker", "probe", "inspect", "connect", "check", "download"}
      /\ cmd = "resume" /\ first # "failed" => first = "inspect" /\ ~RefusesDefault(FromFile.password)
      /\ first = "check" => FromFile.key # 0
  <2>1. CASE cmd = "init"
    BY <1>2, <2>1
  <2>2. CASE cmd \in {"database init", "resume"}
    BY <1>2, <2>2
  <2>3. CASE cmd \in {"migrate", "update", "import"}
    BY <1>2, <2>3
  <2> QED BY <2>1, <2>2, <2>3
<1>4. PICK fresh : fresh = [Idle EXCEPT !.cmd = cmd, !.version = exe.version, !.password = FromFile.password,
                              !.key = FromFile.key, !.disturbed = busy]
  OBVIOUS
<1>5. IF first = "failed" THEN Ends(t, "failed") ELSE Stepped(t, [fresh EXCEPT !.pc = first])
  BY <1>1, <1>2, <1>4 DEF BeginCommand
<1>6. CASE first = "failed"
  BY <1>0, <1>5, <1>6, SameKeeps DEF Ended
<1>7. CASE first # "failed"
  <2>1. FromFile.password \in Nat /\ FromFile.key \in Nat /\ exe.version \in Nat
    BY <1>0 DEF SharedOK, FromFile, NoConfig
  <2>2. fresh \in CommandRow /\ fresh.cmd = cmd /\ fresh.password = FromFile.password /\ fresh.key = FromFile.key
    BY <1>4, <2>1 DEF Idle, CommandRow, Steps, Ended
  <2>3. PICK c : c = [fresh EXCEPT !.pc = first]
    OBVIOUS
  <2>4. /\ c \in CommandRow /\ c.cmd = cmd /\ c.pc = first
        /\ c.password = FromFile.password /\ c.key = FromFile.key
    BY <1>3, <1>7, <2>2, <2>3 DEF CommandRow, Steps
  <2>5. Stepped(t, c)
    BY <1>5, <1>7, <2>3
  <2>6. command'[t] = c
    BY <1>0, <2>4, <2>5, SteppedIs
  <2>7. CommandOK(t)'
    <3>1. first = "check" => config.file = "whole" /\ config.key = FromFile.key
      BY <1>3 DEF FromFile, NoConfig
    <3> QED BY <1>0, <1>3, <1>7, <2>4, <2>6, <3>1 DEF CommandOK, SharedSame
  <2>8. ResumeOK(t)'
    <3>1. cmd = "resume" => first = "inspect" /\ ~RefusesDefault(c.password)'
      BY <1>0, <1>3, <1>7, <2>4 DEF RefusesDefault, SharedSame
    <3>2. c.password = FromFile'.password
      BY <1>0, <2>4 DEF FromFile, SharedSame
    <3> QED BY <2>4, <2>6, <3>1, <3>2 DEF ResumeOK
  <2> QED BY <1>0, <1>3, <2>4, <2>5, <2>7, <2>8, SameKeeps
<1> QED BY <1>6, <1>7

\* The steps around the config file.
LEMMA InitStepsKeep ==
  ASSUME SetupInv, NEW t \in Terminals, StartDocker(t) \/ CreateConfig(t) \/ WriteConfig(t)
  PROVE  SetupInv'
<1>0. /\ SharedOK /\ RanOK /\ SealedOK /\ command \in [Terminals -> CommandRow] /\ CommandOK(t) /\ ResumeOK(t)
      /\ Len(database.ran) \in Nat
  BY DEF SetupInv, SharedOK, DatabaseRow
<1>1. UNCHANGED <<role, database, store, exe>>
  BY DEF StartDocker, CreateConfig, WriteConfig
<1>2. RanOK' /\ SealedOK'
  BY <1>0, <1>1 DEF RanOK, SealedOK, Sealed
<1>3. CASE StartDocker(t)
  <2>1. UNCHANGED <<config, role, database, store, exe, secrets, printed>> /\ command[t].pc = "docker"
    BY <1>3 DEF StartDocker, AtStep
  <2>2. SharedOK'
    BY <1>0, <2>1 DEF SharedOK
  <2>3. CASE Ends(t, "failed")
    BY <1>0, <1>1, <1>2, <2>1, <2>2, <2>3, EndKeeps DEF Ended
  <2>4. CASE Goes(t, "probe")
    <3>0. "probe" \in Steps
      BY DEF Steps
    <3>1. PICK c \in CommandRow :
            Stepped(t, c) /\ c.pc = "probe" /\ c.cmd = command[t].cmd /\ c.disturbed = command[t].disturbed
      BY <2>4, <3>0, GoesIs
    <3>2. command'[t] = c
      BY <1>0, <3>1, SteppedIs
    <3>3. ~(command[t].cmd = "resume" /\ ~command[t].disturbed)
      BY <1>0, <2>1 DEF ResumeOK, Running
    <3>4. CommandOK(t)' /\ ResumeOK(t)'
      BY <3>1, <3>2, <3>3 DEF CommandOK, ResumeOK
    <3> QED BY <1>0, <1>1, <1>2, <2>1, <2>2, <3>1, <3>4, StepKeeps
  <2> QED BY <1>3, <2>3, <2>4 DEF StartDocker
<1>4. CASE CreateConfig(t)
  <2>1. command[t].pc = "probe" /\ UNCHANGED printed
    BY <1>4 DEF CreateConfig, AtStep
  <2>2. CASE Ends(t, "failed") /\ UNCHANGED <<config, secrets>>
    <3>1. SharedOK'
      BY <1>0, <1>1, <2>1, <2>2 DEF SharedOK
    <3> QED BY <1>0, <1>1, <1>2, <2>2, <3>1, EndKeeps DEF Ended
  <2>3. CASE /\ config.file = "absent" /\ config' = [NoConfig EXCEPT !.file = "torn"] /\ secrets' = secrets + 1
             /\ Stepped(t, [command[t] EXCEPT !.pc = "write", !.password = secrets + 1, !.key = secrets + 1])
    <3>1. SharedOK'
      BY <1>0, <1>1, <2>1, <2>3 DEF SharedOK, NoConfig
    <3>2. PICK n \in Nat : n = secrets + 1
      BY <1>0 DEF SharedOK
    <3>3. PICK c : c = [command[t] EXCEPT !.pc = "write", !.password = n, !.key = n]
      OBVIOUS
    <3>4. command[t] \in CommandRow
      BY <1>0
    <3>5. c \in CommandRow /\ c.pc = "write" /\ c.cmd = command[t].cmd /\ c.disturbed = command[t].disturbed
      BY <3>3, <3>4 DEF CommandRow, Steps
    <3>6. Stepped(t, c)
      BY <2>3, <3>2, <3>3
    <3>7. command'[t] = c
      BY <1>0, <3>5, <3>6, SteppedIs
    <3>8. ~(command[t].cmd = "resume" /\ ~command[t].disturbed)
      BY <1>0, <2>1 DEF ResumeOK, Running
    <3>9. CommandOK(t)' /\ ResumeOK(t)'
      BY <2>3, <3>5, <3>7, <3>8 DEF CommandOK, ResumeOK, NoConfig
    <3> QED BY <1>0, <1>1, <1>2, <2>3, <3>1, <3>5, <3>6, <3>9, StepKeeps
  <2> QED BY <1>4, <2>2, <2>3 DEF CreateConfig
<1>5. CASE WriteConfig(t)
  <2>1. command[t].pc = "write" /\ UNCHANGED <<secrets, printed>>
    BY <1>5 DEF WriteConfig, AtStep
  <2>2. CASE config' = NoConfig /\ Ends(t, "failed")
    <3>1. SharedOK'
      BY <1>0, <1>1, <2>1, <2>2 DEF SharedOK, NoConfig
    <3> QED BY <1>0, <1>1, <1>2, <2>1, <2>2, <3>1, EndKeeps DEF Ended
  <2>3. CASE /\ config' = [file |-> "whole", password |-> command[t].password, key |-> command[t].key]
             /\ Goes(t, "inspect")
    <3>1. command[t].password \in Nat /\ command[t].key \in Nat
      BY <1>0 DEF CommandRow
    <3>2. SharedOK'
      BY <1>0, <1>1, <2>1, <2>3, <3>1 DEF SharedOK
    <3>0. "inspect" \in Steps
      BY DEF Steps
    <3>3. PICK c \in CommandRow :
            Stepped(t, c) /\ c.pc = "inspect" /\ c.cmd = command[t].cmd /\ c.disturbed = command[t].disturbed
      BY <2>3, <3>0, GoesIs
    <3>4. command'[t] = c
      BY <1>0, <3>3, SteppedIs
    <3>5. ~(command[t].cmd = "resume" /\ ~command[t].disturbed)
      BY <1>0, <2>1 DEF ResumeOK, Running
    <3>6. CommandOK(t)' /\ ResumeOK(t)'
      BY <3>3, <3>4, <3>5 DEF CommandOK, ResumeOK
    <3> QED BY <1>0, <1>1, <1>2, <2>1, <3>2, <3>3, <3>6, StepKeeps
  <2> QED BY <1>5, <2>2, <2>3 DEF WriteConfig
<1> QED BY <1>3, <1>4, <1>5

\* What the steps of provisioning and migrating need of the invariant.
LEMMA SetupFacts ==
  ASSUME SetupInv, NEW t \in Terminals
  PROVE  /\ SharedOK /\ RanOK /\ SealedOK /\ command \in [Terminals -> CommandRow] /\ command[t] \in CommandRow
         /\ CommandOK(t) /\ ResumeOK(t) /\ Len(database.ran) \in Nat /\ database \in DatabaseRow
         /\ DOMAIN database.ran = 1..Len(database.ran)
BY DEF SetupInv, SharedOK, DatabaseRow

LEMMA RecordedIs == RanOK /\ database \in DatabaseRow => Recorded = 1..Len(database.ran)
<1> SUFFICES ASSUME RanOK, database \in DatabaseRow PROVE Recorded = 1..Len(database.ran)
  OBVIOUS
<1>1. DOMAIN database.ran = 1..Len(database.ran)
  BY DEF DatabaseRow
<1> QED BY <1>1 DEF Recorded, RanOK

\* What inspect finds, and the plan made from it.
LEMMA PlanHolds ==
  ASSUME NEW resume \in BOOLEAN, NEW found \in SUBSET {"role", "database"}, NEW plan,
         plan = PlanProvisioning(resume, found), plan # {"refuse"}
  PROVE  /\ plan \in SUBSET PlanItems /\ Next1(plan) \in {"role", "database", "connect"}
         /\ Next1(plan) = "role" <=> "role" \notin found
         /\ Next1(plan) = "database" <=> "role" \in found /\ "database" \notin found
         /\ "database" \in plan <=> "database" \notin found
<1>1. plan = {"role", "database"} \ found
  <2>1. CASE found = {}
    BY <2>1 DEF PlanProvisioning
  <2>2. CASE found # {}
    BY <2>2 DEF PlanProvisioning
  <2> QED BY <2>1, <2>2
<1>2. plan \in SUBSET PlanItems
  BY <1>1 DEF PlanItems
<1>3. ("role" \in plan <=> "role" \notin found) /\ ("database" \in plan <=> "database" \notin found)
  BY <1>1
<1> QED BY <1>2, <1>3 DEF Next1

LEMMA InspectKeeps ==
  ASSUME SetupInv, NEW t \in Terminals, Inspect(t)
  PROVE  SetupInv'
<1>0. /\ SharedOK /\ ResumeOK(t) /\ command \in [Terminals -> CommandRow] /\ command[t].pc = "inspect" /\ SharedSame
      /\ command[t] \in CommandRow
  BY SetupFacts DEF Inspect, AtStep, fileVars, SharedSame
<1>1. PICK found \in SUBSET {"role", "database"} :
        found = (IF role.exists THEN {"role"} ELSE {}) \cup (IF database.exists THEN {"database"} ELSE {})
  OBVIOUS
<1>2. PICK resume \in BOOLEAN : resume = (command[t].cmd = "resume")
  <2>1. CASE command[t].cmd = "resume"
    <3>1. (command[t].cmd = "resume") = TRUE
      BY <2>1
    <3> QED BY <3>1
  <2>2. CASE command[t].cmd # "resume"
    <3>1. (command[t].cmd = "resume") = FALSE
      BY <2>2
    <3> QED BY <3>1
  <2> QED BY <2>1, <2>2
<1>3. PICK foreign \in BOOLEAN : foreign = (role.exists /\ role.password # command[t].password)
  <2>1. CASE role.exists /\ role.password # command[t].password
    <3>1. (role.exists /\ role.password # command[t].password) = TRUE
      BY <2>1
    <3> QED BY <3>1
  <2>2. CASE ~(role.exists /\ role.password # command[t].password)
    <3>1. (role.exists /\ role.password # command[t].password) = FALSE
      BY <2>2
    <3> QED BY <3>1
  <2> QED BY <2>1, <2>2
<1>4. PICK plan : plan = PlanProvisioning(resume, found)
  OBVIOUS
<1>5. IF ~Reachable \/ plan = {"refuse"} THEN Ends(t, "failed")
      ELSE Stepped(t, [command[t] EXCEPT !.pc = Next1(plan), !.plan = plan, !.foreign = foreign])
  BY <1>1, <1>2, <1>3, <1>4 DEF Inspect
<1>6. CASE ~Reachable \/ plan = {"refuse"}
  BY <1>0, <1>5, <1>6, SameKeeps DEF Ended
<1>7. CASE ~(~Reachable \/ plan = {"refuse"})
  <2>1. /\ plan \in SUBSET PlanItems /\ Next1(plan) \in {"role", "database", "connect"}
        /\ Next1(plan) = "role" <=> "role" \notin found
        /\ Next1(plan) = "database" <=> "role" \in found /\ "database" \notin found
        /\ "database" \in plan <=> "database" \notin found
    BY <1>4, <1>7, PlanHolds
  <2>2. PICK pc : pc = Next1(plan)
    OBVIOUS
  <2>3. PICK c : c = [command[t] EXCEPT !.pc = pc, !.plan = plan, !.foreign = foreign]
    OBVIOUS
  <2>4. pc \in Steps
    BY <2>1, <2>2 DEF Steps
  <2>5. /\ c \in CommandRow /\ c.pc = pc /\ c.plan = plan /\ c.foreign = foreign /\ c.password = command[t].password
        /\ c.cmd = command[t].cmd /\ c.disturbed = command[t].disturbed
    BY <1>0, <2>1, <2>3, <2>4 DEF CommandRow
  <2>6. Stepped(t, c)
    BY <1>5, <1>7, <2>2, <2>3
  <2>7. command'[t] = c
    BY <1>0, <2>5, <2>6, SteppedIs
  <2>8. CommandOK(t)'
    BY <2>1, <2>2, <2>5, <2>7 DEF CommandOK
  <2>9. ("role" \in found <=> role.exists) /\ ("database" \in found <=> database.exists)
    BY <1>1
  <2>10. ResumeOK(t)'
    <3>1. ASSUME c.cmd = "resume", ~c.disturbed
          PROVE  c.password = FromFile'.password /\ ~RefusesDefault(c.password)'
      BY <1>0, <2>5, <3>1 DEF ResumeOK, Running, FromFile, RefusesDefault, SharedSame
    <3>2. role' = role /\ database' = database
      BY <1>0 DEF SharedSame
    <3> QED BY <1>3, <2>1, <2>2, <2>5, <2>7, <2>9, <3>1, <3>2 DEF ResumeOK
  <2> QED BY <1>0, <2>1, <2>2, <2>5, <2>6, <2>8, <2>10, SameKeeps
<1> QED BY <1>6, <1>7

LEMMA CreateRoleKeeps ==
  ASSUME SetupInv, NEW t \in Terminals, CreateRole(t)
  PROVE  SetupInv'
<1>0. /\ SharedOK /\ RanOK /\ SealedOK /\ ResumeOK(t) /\ command \in [Terminals -> CommandRow]
      /\ command[t] \in CommandRow /\ command[t].pc = "role" /\ Len(database.ran) \in Nat
  BY SetupFacts DEF CreateRole, AtStep
<1>1. UNCHANGED <<server, container, config, exe, secrets, printed, database, store>>
  BY DEF CreateRole, fileVars
<1>2. RanOK' /\ SealedOK'
  BY <1>0, <1>1 DEF RanOK, SealedOK, Sealed
<1>3. CASE Ends(t, "failed") /\ role' = role
  BY <1>1, <1>3, SameKeeps DEF SharedSame, Ended
<1>4. CASE /\ ~role.exists /\ role' = [exists |-> TRUE, password |-> command[t].password]
           /\ Goes(t, Next1(command[t].plan \ {"role"}))
  <2>1. command[t].password \in Nat
    BY <1>0 DEF CommandRow
  <2>2. SharedOK'
    BY <1>0, <1>1, <1>4, <2>1 DEF SharedOK
  <2>3. PICK pc : pc = Next1(command[t].plan \ {"role"})
    OBVIOUS
  <2>4. /\ pc \in {"database", "connect"} /\ pc \in Steps
        /\ pc = "database" <=> "database" \in command[t].plan
    BY <2>3 DEF Next1, Steps
  <2>5. PICK c \in CommandRow :
          /\ Stepped(t, c) /\ c.pc = pc /\ c.cmd = command[t].cmd /\ c.password = command[t].password
          /\ c.disturbed = command[t].disturbed
    BY <1>4, <2>3, <2>4, GoesIs
  <2>6. command'[t] = c
    BY <1>0, <2>5, SteppedIs
  <2>7. CommandOK(t)'
    BY <2>4, <2>5, <2>6 DEF CommandOK
  <2>8. ResumeOK(t)'
    <3>1. ASSUME c.cmd = "resume", ~c.disturbed
          PROVE  /\ c.password = FromFile'.password /\ ~RefusesDefault(c.password)'
                 /\ "database" \in command[t].plan <=> ~database'.exists
      BY <1>0, <1>1, <2>5, <3>1 DEF ResumeOK, Running, FromFile, RefusesDefault
    <3>2. role'.exists /\ role'.password = c.password
      BY <1>4, <2>5
    <3> QED BY <2>4, <2>5, <2>6, <3>1, <3>2 DEF ResumeOK
  <2> QED BY <1>0, <1>1, <1>2, <2>2, <2>4, <2>5, <2>7, <2>8, StepKeeps
<1> QED BY <1>3, <1>4 DEF CreateRole

LEMMA CreateDatabaseKeeps ==
  ASSUME SetupInv, NEW t \in Terminals, CreateDatabase(t)
  PROVE  SetupInv'
<1>0. /\ SharedOK /\ RanOK /\ SealedOK /\ ResumeOK(t) /\ command \in [Terminals -> CommandRow]
      /\ command[t] \in CommandRow /\ command[t].pc = "database" /\ database \in DatabaseRow
  BY SetupFacts DEF CreateDatabase, AtStep
<1>1. UNCHANGED <<server, container, config, exe, secrets, printed, role, store>>
  BY DEF CreateDatabase, fileVars
<1>2. CASE Ends(t, "failed") /\ database' = database
  BY <1>1, <1>2, SameKeeps DEF SharedSame, Ended
<1>3. CASE ~database.exists /\ role.exists /\ database' = [NoDatabase EXCEPT !.exists = TRUE] /\ Goes(t, "connect")
  <2>1. /\ database' \in DatabaseRow /\ database'.exists /\ database'.ran = <<>> /\ database.ran = <<>>
        /\ Len(database'.ran) >= Len(database.ran)
    <3>1. <<>> \in Seq(Nat) /\ 0 \in 0..AllSeeds /\ Len(<<>>) = 0
      BY DEF AllSeeds
    <3>2. database' = [exists |-> TRUE, tracked |-> FALSE, ran |-> <<>>, granted |-> FALSE, seeds |-> 0]
      BY <1>3 DEF NoDatabase
    <3>3. database.ran = <<>>
      BY <1>0, <1>3 DEF RanOK
    <3> QED BY <3>1, <3>2, <3>3 DEF DatabaseRow
  <2>2. SharedOK'
    BY <1>0, <1>1, <2>1 DEF SharedOK
  <2>3. RanOK' /\ SealedOK'
    BY <1>0, <1>1, <2>1 DEF RanOK, SealedOK, Sealed
  <2>4. "connect" \in Steps
    BY DEF Steps
  <2>5. PICK c \in CommandRow :
          /\ Stepped(t, c) /\ c.pc = "connect" /\ c.cmd = command[t].cmd /\ c.password = command[t].password
          /\ c.disturbed = command[t].disturbed /\ c.foreign = command[t].foreign
    BY <1>3, <2>4, GoesIs
  <2>6. command'[t] = c
    BY <1>0, <2>5, SteppedIs
  <2>7. CommandOK(t)'
    BY <2>5, <2>6 DEF CommandOK
  <2>8. ResumeOK(t)'
    <3>1. ASSUME c.cmd = "resume", ~c.disturbed
          PROVE  /\ c.password = FromFile'.password /\ ~RefusesDefault(c.password)'
                 /\ c.foreign \/ role'.password = c.password
      BY <1>0, <1>1, <1>3, <2>5, <3>1 DEF ResumeOK, Running, FromFile, RefusesDefault
    <3>2. role' = role
      BY <1>1
    <3> QED BY <1>3, <2>1, <2>5, <2>6, <3>1, <3>2 DEF ResumeOK
  <2> QED BY <1>1, <2>1, <2>2, <2>3, <2>5, <2>7, <2>8, StepKeeps
<1> QED BY <1>2, <1>3 DEF CreateDatabase

LEMMA EnsureTrackingKeeps ==
  ASSUME SetupInv, NEW t \in Terminals, EnsureTracking(t)
  PROVE  SetupInv'
<1>0. /\ SharedOK /\ RanOK /\ SealedOK /\ ResumeOK(t) /\ command \in [Terminals -> CommandRow]
      /\ command[t] \in CommandRow /\ command[t].pc = "connect" /\ database \in DatabaseRow
      /\ Len(database.ran) \in Nat
  BY SetupFacts DEF EnsureTracking, AtStep
<1>1. UNCHANGED <<server, container, config, exe, secrets, printed, role, store>>
  BY DEF EnsureTracking, fileVars
<1>2. CASE Ends(t, "failed") /\ database' = database
  BY <1>1, <1>2, SameKeeps DEF SharedSame, Ended
<1>3. CASE database.exists /\ role.exists /\ database' = [database EXCEPT !.tracked = TRUE] /\ Goes(t, "list")
  <2>1. database' \in DatabaseRow /\ database'.exists /\ database'.ran = database.ran
    BY <1>0, <1>3 DEF DatabaseRow
  <2>2. SharedOK'
    BY <1>0, <1>1, <2>1 DEF SharedOK
  <2>3. RanOK' /\ SealedOK'
    BY <1>0, <1>1, <2>1 DEF RanOK, SealedOK, Sealed
  <2>4. "list" \in Steps
    BY DEF Steps
  <2>5. PICK c \in CommandRow :
          /\ Stepped(t, c) /\ c.pc = "list" /\ c.cmd = command[t].cmd /\ c.password = command[t].password
          /\ c.disturbed = command[t].disturbed /\ c.foreign = command[t].foreign
    BY <1>3, <2>4, GoesIs
  <2>6. command'[t] = c
    BY <1>0, <2>5, SteppedIs
  <2>7. CommandOK(t)'
    BY <2>1, <2>5, <2>6 DEF CommandOK
  <2>8. ResumeOK(t)'
    <3>1. ASSUME c.cmd = "resume", ~c.disturbed
          PROVE  /\ c.password = FromFile'.password /\ ~RefusesDefault(c.password)'
                 /\ c.foreign \/ role'.password = c.password
      BY <1>0, <1>1, <1>3, <2>5, <3>1 DEF ResumeOK, Running, FromFile, RefusesDefault
    <3>2. role' = role
      BY <1>1
    <3> QED BY <1>3, <2>1, <2>5, <2>6, <3>1, <3>2 DEF ResumeOK
  <2> QED BY <1>0, <1>1, <2>1, <2>2, <2>3, <2>5, <2>7, <2>8, StepKeeps
<1> QED BY <1>2, <1>3 DEF EnsureTracking

LEMMA ListPendingKeeps ==
  ASSUME SetupInv, NEW t \in Terminals, ListPending(t)
  PROVE  SetupInv'
<1>0. /\ CommandOK(t) /\ ResumeOK(t) /\ command \in [Terminals -> CommandRow]
      /\ command[t] \in CommandRow /\ command[t].pc = "list" /\ SharedSame
  BY SetupFacts DEF ListPending, AtStep, fileVars, SharedSame
<1>1. PICK n \in Nat : n = Len(database.ran)
  BY SetupFacts
<1>2. PICK v \in Nat : v = command[t].version
  BY <1>0 DEF CommandRow
<1>3. Recorded = 1..n
  BY <1>1, SetupFacts, RecordedIs
<1>4. 1..v \ Recorded = (n + 1)..v
  BY <1>3
<1>5. PICK todo \in SUBSET Nat : todo = (n + 1)..v
  OBVIOUS
<1>6. PICK c : c = [command[t] EXCEPT !.pc = "apply", !.todo = todo]
  OBVIOUS
<1>7. Stepped(t, c)
  BY <1>2, <1>4, <1>5, <1>6 DEF ListPending
<1>8. /\ c \in CommandRow /\ c.pc = "apply" /\ c.todo = todo /\ c.cmd = command[t].cmd
      /\ c.password = command[t].password /\ c.version = command[t].version
      /\ c.disturbed = command[t].disturbed /\ c.foreign = command[t].foreign
  BY <1>0, <1>5, <1>6 DEF CommandRow, Steps
<1>9. command'[t] = c
  BY <1>0, <1>7, <1>8, SteppedIs
<1>10. database' = database /\ role' = role
  BY <1>0 DEF SharedSame
<1>11. CommandOK(t)'
  <2>1. database'.exists
    BY <1>0, <1>10 DEF CommandOK
  <2>2. n + 1 \in 1..(Len(database'.ran) + 1) /\ c.todo = (n + 1)..c.version
    BY <1>1, <1>2, <1>5, <1>8, <1>10
  <2> QED BY <1>8, <1>9, <2>1, <2>2 DEF CommandOK
<1>12. ResumeOK(t)'
  <2>1. ASSUME c.cmd = "resume", ~c.disturbed
        PROVE  /\ c.password = FromFile'.password /\ ~RefusesDefault(c.password)'
               /\ c.foreign \/ role'.password = c.password
               /\ role'.exists /\ database'.exists
    BY <1>0, <1>8, <2>1 DEF ResumeOK, Running, FromFile, RefusesDefault, SharedSame
  <2>2. c.todo = (Len(database'.ran) + 1)..c.version
    BY <1>1, <1>2, <1>5, <1>8, <1>10
  <2> QED BY <1>8, <1>9, <2>1, <2>2 DEF ResumeOK
<1> QED BY <1>0, <1>7, <1>8, <1>11, <1>12, SameKeeps

\* The first of the files, or of the seed steps, that are left.
LEMMA FirstLeft ==
  ASSUME NEW k \in Nat, NEW n \in Nat, k..n # {}
  PROVE  (CHOOSE f \in k..n : \A g \in k..n : f <= g) = k /\ (k..n) \ {k} = (k + 1)..n /\ k <= n
<1>1. k <= n
  OBVIOUS
<1>2. PICK first : first = CHOOSE f \in k..n : \A g \in k..n : f <= g
  OBVIOUS
<1>3. k \in k..n /\ \A g \in k..n : k <= g
  BY <1>1
<1>4. first \in k..n /\ \A g \in k..n : first <= g
  BY <1>2, <1>3
<1>5. first = k
  BY <1>3, <1>4
<1> QED BY <1>1, <1>2, <1>5

LEMMA ApplyOneKeeps ==
  ASSUME SetupInv, NEW t \in Terminals, ApplyOne(t)
  PROVE  SetupInv' /\ (command'[t].pc = "failed" => command[t].cmd # "resume" \/ command[t].disturbed)
<1>0. /\ SharedOK /\ RanOK /\ SealedOK /\ CommandOK(t) /\ ResumeOK(t) /\ command \in [Terminals -> CommandRow]
      /\ command[t] \in CommandRow /\ command[t].pc = "apply" /\ command[t].todo # {} /\ database \in DatabaseRow
  BY SetupFacts DEF ApplyOne, AtStep
<1>1. UNCHANGED <<server, container, config, exe, secrets, printed, role, store>>
  BY DEF ApplyOne, fileVars
<1>2. PICK n \in Nat : n = Len(database.ran)
  BY SetupFacts
<1>3. PICK v \in Nat : v = command[t].version
  BY <1>0 DEF CommandRow
<1>4. PICK k \in 1..(n + 1) : command[t].todo = k..v
  BY <1>0, <1>2, <1>3 DEF CommandOK
<1>5. /\ (CHOOSE f \in command[t].todo : \A g \in command[t].todo : f <= g) = k
      /\ command[t].todo \ {k} = (k + 1)..v /\ k <= v
  BY <1>0, <1>4, FirstLeft
<1>6. Recorded = 1..n
  BY <1>0, <1>2, RecordedIs
<1>7. IF k \in Recorded THEN Ends(t, "failed") /\ UNCHANGED database
      ELSE /\ database' = [database EXCEPT !.ran = Append(@, k)]
           /\ Stepped(t, [command[t] EXCEPT !.todo = @ \ {k}])
  BY <1>5 DEF ApplyOne
<1>8. CASE k \in Recorded
  <2>1. command[t].cmd # "resume" \/ command[t].disturbed
    <3>1. SUFFICES ASSUME command[t].cmd = "resume", ~command[t].disturbed PROVE FALSE
      OBVIOUS
    <3>2. k..v = (n + 1)..v
      BY <1>0, <1>2, <1>3, <1>4, <3>1 DEF ResumeOK, Running
    <3>3. k \in (n + 1)..v
      BY <1>4, <1>5, <3>2
    <3> QED BY <1>6, <1>8, <3>3
  <2> QED BY <1>1, <1>7, <1>8, <2>1, SameKeeps DEF SharedSame, Ended
<1>9. CASE k \notin Recorded
  <2>1. k = n + 1
    BY <1>4, <1>6, <1>9
  <2>2. database.ran \in Seq(Nat)
    BY <1>0 DEF DatabaseRow
  <2>3. PICK ran \in Seq(Nat) : ran = Append(database.ran, k)
    <3>1. k \in Nat
      BY <1>4
    <3>2. Append(database.ran, k) \in Seq(Nat)
      BY <2>2, <3>1
    <3> QED BY <3>2
  <2>4. Len(ran) = n + 1 /\ \A i \in 1..(n + 1) : ran[i] = IF i <= n THEN database.ran[i] ELSE k
    BY <1>2, <1>4, <2>2, <2>3
  <2>5. database' \in DatabaseRow /\ database'.ran = ran /\ database'.exists = database.exists
    BY <1>0, <1>7, <1>9, <2>3 DEF DatabaseRow
  <2>6. database.exists
    BY <1>0 DEF CommandOK
  <2>7. SharedOK'
    BY <1>0, <1>1, <2>5 DEF SharedOK
  <2>8. RanOK'
    <3>1. \A i \in 1..n : database.ran[i] = i
      BY <1>0, <1>2, SetupFacts DEF RanOK
    <3>2. DOMAIN ran = 1..(n + 1)
      BY <2>3, <2>4
    <3> QED BY <2>1, <2>4, <2>5, <2>6, <3>1, <3>2 DEF RanOK
  <2>9. SealedOK'
    BY <1>0, <1>1 DEF SealedOK, Sealed
  <2>10. PICK todo \in SUBSET Nat : todo = (k + 1)..v
    OBVIOUS
  <2>11. PICK c : c = [command[t] EXCEPT !.todo = todo]
    OBVIOUS
  <2>12. /\ c \in CommandRow /\ c.pc = "apply" /\ c.todo = todo /\ c.cmd = command[t].cmd
         /\ c.password = command[t].password /\ c.version = command[t].version
         /\ c.disturbed = command[t].disturbed /\ c.foreign = command[t].foreign
    BY <1>0, <2>10, <2>11 DEF CommandRow
  <2>13. Stepped(t, c)
    BY <1>5, <1>7, <1>9, <2>10, <2>11
  <2>14. command'[t] = c
    BY <1>0, <2>12, <2>13, SteppedIs
  <2>15. c.todo = (k + 1)..c.version /\ k + 1 = Len(database'.ran) + 1 /\ k + 1 \in 1..(Len(database'.ran) + 1)
    BY <1>3, <2>1, <2>4, <2>5, <2>10, <2>12
  <2>16. CommandOK(t)'
    BY <2>5, <2>6, <2>12, <2>14, <2>15 DEF CommandOK
  <2>17. ResumeOK(t)'
    <3>1. ASSUME c.cmd = "resume", ~c.disturbed
          PROVE  /\ c.password = FromFile'.password /\ ~RefusesDefault(c.password)'
                 /\ c.foreign \/ role'.password = c.password
                 /\ role'.exists
      BY <1>0, <1>1, <2>12, <3>1 DEF ResumeOK, Running, FromFile, RefusesDefault
    <3> QED BY <2>5, <2>6, <2>12, <2>14, <2>15, <3>1 DEF ResumeOK
  <2>18. Len(database'.ran) >= Len(database.ran)
    BY <1>2, <2>4, <2>5
  <2> QED BY <1>1, <2>5, <2>6, <2>7, <2>8, <2>9, <2>12, <2>13, <2>14, <2>16, <2>17, <2>18, StepKeeps
<1> QED BY <1>8, <1>9

LEMMA AppliedKeeps ==
  ASSUME SetupInv, NEW t \in Terminals, Applied(t)
  PROVE  SetupInv'
<1>0. /\ RanOK /\ CommandOK(t) /\ ResumeOK(t) /\ command \in [Terminals -> CommandRow] /\ database \in DatabaseRow
      /\ command[t] \in CommandRow /\ command[t].pc = "apply" /\ command[t].todo = {} /\ SharedSame
  BY SetupFacts DEF Applied, AtStep, fileVars, SharedSame
<1>1. CASE Ends(t, "ok")
  BY <1>0, <1>1, SameKeeps DEF Ended
<1>2. CASE Goes(t, "grant")
  <2>1. "grant" \in Steps
    BY DEF Steps
  <2>2. PICK c \in CommandRow :
          /\ Stepped(t, c) /\ c.pc = "grant" /\ c.cmd = command[t].cmd
          /\ c.password = command[t].password /\ c.version = command[t].version
          /\ c.disturbed = command[t].disturbed /\ c.foreign = command[t].foreign
    BY <1>2, <2>1, GoesIs
  <2>3. command'[t] = c
    BY <1>0, <2>2, SteppedIs
  <2>4. database' = database /\ role' = role /\ database.exists
    BY <1>0 DEF SharedSame, CommandOK
  <2>5. CommandOK(t)'
    BY <2>2, <2>3, <2>4 DEF CommandOK
  <2>6. ResumeOK(t)'
    <3>1. ASSUME c.cmd = "resume", ~c.disturbed
          PROVE  /\ c.password = FromFile'.password /\ ~RefusesDefault(c.password)'
                 /\ c.foreign \/ role'.password = c.password
                 /\ role'.exists /\ (1..c.version \subseteq Recorded)'
      <4>1. (Len(database.ran) + 1)..command[t].version = {}
        BY <1>0, <2>2, <3>1 DEF ResumeOK, Running
      <4>2. 1..command[t].version \subseteq 1..Len(database.ran)
        <5>1. Len(database.ran) \in Nat /\ command[t].version \in Nat
          BY <1>0, SetupFacts DEF CommandRow
        <5> QED BY <4>1, <5>1
      <4>3. Recorded' = 1..Len(database.ran)
        BY <1>0, <2>4, RecordedIs DEF Recorded
      <4> QED BY <1>0, <2>2, <3>1, <4>2, <4>3 DEF ResumeOK, Running, FromFile, RefusesDefault, SharedSame
    <3> QED BY <2>2, <2>3, <2>4, <3>1 DEF ResumeOK
  <2> QED BY <1>0, <2>2, <2>5, <2>6, SameKeeps
<1> QED BY <1>1, <1>2 DEF Applied

LEMMA GrantKeeps ==
  ASSUME SetupInv, NEW t \in Terminals, Grant(t)
  PROVE  SetupInv'
<1>0. /\ SharedOK /\ RanOK /\ SealedOK /\ CommandOK(t) /\ ResumeOK(t) /\ command \in [Terminals -> CommandRow]
      /\ command[t] \in CommandRow /\ command[t].pc = "grant" /\ database \in DatabaseRow
      /\ Len(database.ran) \in Nat
  BY SetupFacts DEF Grant, AtStep
<1>1. UNCHANGED <<server, container, config, exe, secrets, printed, role, store>>
  BY DEF Grant, fileVars
<1>2. database.exists
  BY <1>0 DEF CommandOK
<1>3. /\ database' \in DatabaseRow /\ database'.ran = database.ran /\ database'.exists /\ database'.granted
      /\ database'.seeds \in Nat
  <2>1. database' = [database EXCEPT !.granted = TRUE]
    BY DEF Grant
  <2>2. database.seeds \in Nat
    BY <1>0 DEF DatabaseRow, AllSeeds
  <2>3. database'.seeds = database.seeds
    BY <1>0, <2>1 DEF DatabaseRow
  <2>4. database' \in DatabaseRow /\ database'.ran = database.ran /\ database'.exists = database.exists /\ database'.granted
    BY <1>0, <2>1 DEF DatabaseRow
  <2> QED BY <1>2, <2>2, <2>3, <2>4
<1>4. SharedOK'
  BY <1>0, <1>1, <1>3 DEF SharedOK
<1>5. RanOK' /\ SealedOK'
  BY <1>0, <1>1, <1>3 DEF RanOK, SealedOK, Sealed
<1>6. PICK todo \in SUBSET Nat : todo = 1..AllSeeds
  <2>1. 1..AllSeeds \in SUBSET Nat
    BY DEF AllSeeds
  <2> QED BY <2>1
<1>7. PICK c : c = [command[t] EXCEPT !.pc = "seed", !.todo = todo]
  OBVIOUS
<1>8. /\ c \in CommandRow /\ c.pc = "seed" /\ c.todo = todo /\ c.cmd = command[t].cmd
      /\ c.password = command[t].password /\ c.version = command[t].version
      /\ c.disturbed = command[t].disturbed /\ c.foreign = command[t].foreign
  BY <1>0, <1>6, <1>7 DEF CommandRow, Steps
<1>9. Stepped(t, c)
  BY <1>6, <1>7 DEF Grant
<1>10. command'[t] = c
  BY <1>0, <1>8, <1>9, SteppedIs
<1>11. CommandOK(t)'
  <2>1. 1 \in 1..AllSeeds
    BY DEF AllSeeds
  <2> QED BY <1>3, <1>6, <1>8, <1>10, <2>1 DEF CommandOK
<1>12. ResumeOK(t)'
  <2>1. ASSUME c.cmd = "resume", ~c.disturbed
        PROVE  /\ c.password = FromFile'.password /\ ~RefusesDefault(c.password)'
               /\ c.foreign \/ role'.password = c.password
               /\ role'.exists /\ (1..c.version \subseteq Recorded)'
    <3>1. Recorded' = Recorded
      BY <1>3 DEF Recorded
    <3> QED BY <1>0, <1>1, <1>8, <2>1, <3>1 DEF ResumeOK, Running, FromFile, RefusesDefault
  <2>2. \A k \in 1..AllSeeds : c.todo = k..AllSeeds => database'.seeds >= k - 1
    <3>1. ASSUME NEW k \in 1..3, 1..3 = k..3 PROVE k = 1
      <4>1. 1 \in k..3
        BY <3>1
      <4> QED BY <4>1
    <3>2. ASSUME NEW k \in 1..AllSeeds, c.todo = k..AllSeeds PROVE database'.seeds >= k - 1
      <4>1. 1..AllSeeds = k..AllSeeds
        BY <1>6, <1>8, <3>2
      <4>2. k = 1
        BY <3>1, <4>1 DEF AllSeeds
      <4> QED BY <1>3, <4>2
    <3> QED BY <3>2
  <2> QED BY <1>3, <1>8, <1>10, <2>1, <2>2 DEF ResumeOK
<1>13. Len(database'.ran) >= Len(database.ran)
  BY <1>0, <1>3
<1> QED BY <1>1, <1>3, <1>4, <1>5, <1>8, <1>9, <1>11, <1>12, <1>13, StepKeeps

LEMMA SeedKeeps ==
  ASSUME SetupInv, NEW t \in Terminals, Seed(t)
  PROVE  SetupInv'
<1>0. /\ SharedOK /\ RanOK /\ SealedOK /\ CommandOK(t) /\ ResumeOK(t) /\ command \in [Terminals -> CommandRow]
      /\ command[t] \in CommandRow /\ command[t].pc = "seed" /\ database \in DatabaseRow
      /\ Len(database.ran) \in Nat
  BY SetupFacts DEF Seed, AtStep
<1>1. UNCHANGED <<server, container, config, exe, secrets, printed, role, store>>
  BY DEF Seed, fileVars
<1>2. PICK k \in 1..3 : command[t].todo = k..3
  BY <1>0 DEF CommandOK, AllSeeds
<1>3. /\ (CHOOSE s \in command[t].todo : \A u \in command[t].todo : s <= u) = k
      /\ command[t].todo \ {k} = (k + 1)..3
  <2>1. k..3 # {}
    <3>1. k \in k..3
      BY <1>2
    <3> QED BY <3>1
  <2> QED BY <1>2, <2>1, FirstLeft
<1>4. /\ database' = [database EXCEPT !.seeds = IF @ < k THEN k ELSE @]
      /\ IF k = 3 THEN Ends(t, "ok") ELSE Stepped(t, [command[t] EXCEPT !.todo = @ \ {k}])
  <2>1. /\ database' = [database EXCEPT !.seeds = IF @ < k THEN k ELSE @]
        /\ IF k = AllSeeds THEN Ends(t, "ok") ELSE Stepped(t, [command[t] EXCEPT !.todo = @ \ {k}])
    <3>1. PICK step : step = CHOOSE s \in command[t].todo : \A u \in command[t].todo : s <= u
      OBVIOUS
    <3>2. /\ database' = [database EXCEPT !.seeds = IF @ < step THEN step ELSE @]
          /\ IF step = AllSeeds THEN Ends(t, "ok") ELSE Stepped(t, [command[t] EXCEPT !.todo = @ \ {step}])
      BY <3>1 DEF Seed
    <3>3. step = k
      BY <1>3, <3>1
    <3> QED BY <3>2, <3>3
  <2> QED BY <2>1 DEF AllSeeds
<1>5. /\ database' \in DatabaseRow /\ database'.ran = database.ran /\ database'.exists = database.exists
      /\ database'.granted = database.granted /\ database'.seeds \in Nat /\ database'.seeds >= k
  <2>1. database.seeds \in 0..3
    BY <1>0 DEF DatabaseRow, AllSeeds
  <2>2. PICK seeds \in 0..3 : seeds = (IF database.seeds < k THEN k ELSE database.seeds) /\ seeds >= k
    <3>1. CASE database.seeds < k
      BY <3>1
    <3>2. CASE ~(database.seeds < k)
      BY <2>1, <3>2
    <3> QED BY <3>1, <3>2
  <2>3. database' = [database EXCEPT !.seeds = seeds]
    BY <1>4, <2>2
  <2>4. seeds \in 0..AllSeeds /\ seeds \in Nat
    BY <2>2 DEF AllSeeds
  <2> QED BY <1>0, <2>2, <2>3, <2>4 DEF DatabaseRow
<1>6. SharedOK'
  BY <1>0, <1>1, <1>5 DEF SharedOK
<1>7. RanOK' /\ SealedOK'
  BY <1>0, <1>1, <1>5 DEF RanOK, SealedOK, Sealed
<1>8. Len(database'.ran) >= Len(database.ran)
  BY <1>0, <1>5
<1>9. CASE k = 3
  <2>1. Ends(t, "ok")
    BY <1>4, <1>9
  <2> QED BY <1>1, <1>5, <1>6, <1>7, <1>8, <2>1, EndKeeps DEF Ended
<1>10. CASE k # 3
  <2>1. PICK todo \in SUBSET Nat : todo = (k + 1)..3
    OBVIOUS
  <2>2. PICK c : c = [command[t] EXCEPT !.todo = todo]
    OBVIOUS
  <2>3. /\ c \in CommandRow /\ c.pc = "seed" /\ c.todo = todo /\ c.cmd = command[t].cmd
        /\ c.password = command[t].password /\ c.version = command[t].version
        /\ c.disturbed = command[t].disturbed /\ c.foreign = command[t].foreign
    BY <1>0, <2>1, <2>2 DEF CommandRow
  <2>4. Stepped(t, c)
    BY <1>3, <1>4, <1>10, <2>1, <2>2
  <2>5. command'[t] = c
    BY <1>0, <2>3, <2>4, SteppedIs
  <2>6. CommandOK(t)'
    <3>1. k + 1 \in 1..AllSeeds
      BY <1>2, <1>10 DEF AllSeeds
    <3>2. database'.exists
      BY <1>0, <1>5 DEF CommandOK
    <3>3. command'[t].todo = (k + 1)..AllSeeds
      BY <2>1, <2>3, <2>5 DEF AllSeeds
    <3>4. command'[t].pc = "seed"
      BY <2>3, <2>5
    <3> QED BY <3>1, <3>2, <3>3, <3>4 DEF CommandOK
  <2>7. ResumeOK(t)'
    <3>1. ASSUME c.cmd = "resume", ~c.disturbed
          PROVE  /\ c.password = FromFile'.password /\ ~RefusesDefault(c.password)'
                 /\ c.foreign \/ role'.password = c.password
                 /\ role'.exists /\ (1..c.version \subseteq Recorded)' /\ database'.granted /\ database'.exists
      <4>1. Recorded' = Recorded
        BY <1>5 DEF Recorded
      <4> QED BY <1>0, <1>1, <1>5, <2>3, <3>1, <4>1 DEF ResumeOK, Running, FromFile, RefusesDefault
    <3>2. \A j \in 1..AllSeeds : c.todo = j..AllSeeds => database'.seeds >= j - 1
      <4>1. ASSUME NEW j \in 1..3, (k + 1)..3 = j..3 PROVE database'.seeds >= j - 1
        <5>1. k + 1 \in j..3
          BY <1>2, <1>10, <4>1
        <5> QED BY <1>2, <1>5, <5>1
      <4> QED BY <2>1, <2>3, <4>1 DEF AllSeeds
    <3> QED BY <2>3, <2>5, <3>1, <3>2 DEF ResumeOK
  <2> QED BY <1>1, <1>5, <1>6, <1>7, <1>8, <2>3, <2>4, <2>6, <2>7, StepKeeps
<1> QED BY <1>9, <1>10

LEMMA DropDatabaseKeeps ==
  ASSUME SetupInv, NEW t \in Terminals, DropDatabase(t)
  PROVE  SetupInv'
<1>0. SharedOK /\ command \in [Terminals -> CommandRow] /\ \A u \in Terminals : CommandOK(u)
  BY DEF SetupInv
<1>1. /\ UNCHANGED <<server, container, config, exe, secrets, printed, role>>
      /\ database' = NoDatabase /\ store' = NoBlobs
  BY DEF DropDatabase, fileVars
<1>2. PICK done : done = [Idle EXCEPT !.pc = "ok"]
  OBVIOUS
<1>3. PICK dead : dead = [Idle EXCEPT !.pc = "died"]
  OBVIOUS
<1>4. done \in CommandRow /\ done.pc = "ok" /\ dead \in CommandRow /\ dead.pc = "died"
  BY <1>2, <1>3, IdleIs DEF Ended
<1>5. command' = [u \in Terminals |->
         IF u = t THEN done
         ELSE IF command[u].pc \in {"list", "apply", "grant", "seed", "save"} THEN dead
         ELSE IF Running(u) THEN [command[u] EXCEPT !.disturbed = TRUE] ELSE command[u]]
  BY <1>2, <1>3 DEF DropDatabase
<1>6. ASSUME NEW u \in Terminals
      PROVE  /\ command'[u] \in CommandRow
             /\ \/ command'[u].pc \in {"ok", "died"}
                \/ /\ command'[u].pc = command[u].pc /\ command'[u].key = command[u].key
                   /\ command[u].pc \notin {"list", "apply", "grant", "seed", "save"}
                   /\ Running(u) => command'[u].disturbed
  <2>1. command[u] \in CommandRow
    BY <1>0
  <2>2. CASE u = t
    BY <1>4, <1>5, <2>2
  <2>3. CASE u # t /\ command[u].pc \in {"list", "apply", "grant", "seed", "save"}
    BY <1>4, <1>5, <2>3
  <2>4. CASE u # t /\ command[u].pc \notin {"list", "apply", "grant", "seed", "save"}
    <3>1. command'[u] = IF Running(u) THEN [command[u] EXCEPT !.disturbed = TRUE] ELSE command[u]
      BY <1>5, <2>4
    <3> QED BY <2>1, <2>4, <3>1 DEF CommandRow
  <2> QED BY <2>2, <2>3, <2>4
<1>7. command' \in [Terminals -> CommandRow]
  BY <1>5, <1>6
<1>8. SharedOK' /\ RanOK' /\ SealedOK'
  <2>1. <<>> \in Seq(Nat) /\ 0 \in 0..AllSeeds
    BY DEF AllSeeds
  <2>2. database' \in DatabaseRow
    BY <1>1, <2>1 DEF DatabaseRow, NoDatabase
  <2>3. store' \in [CredentialRows -> Nat]
    BY <1>1 DEF NoBlobs
  <2>4. SharedOK'
    BY <1>0, <1>1, <2>2, <2>3 DEF SharedOK
  <2>5. RanOK' /\ SealedOK'
    BY <1>1 DEF RanOK, SealedOK, Sealed, NoDatabase, NoBlobs
  <2> QED BY <2>4, <2>5
<1>9. ASSUME NEW u \in Terminals PROVE CommandOK(u)' /\ ResumeOK(u)'
  <2>1. CommandOK(u)
    BY <1>0
  <2>2. CommandOK(u)'
    BY <1>1, <1>6, <2>1 DEF CommandOK
  <2>3. ResumeOK(u)'
    BY <1>6 DEF ResumeOK, Running
  <2> QED BY <2>2, <2>3
<1>10. \A u, v \in Terminals : command'[u].pc = "write" /\ command'[v].pc = "write" => u = v
  BY <1>6 DEF SetupInv
<1> QED BY <1>7, <1>8, <1>9, <1>10 DEF SetupInv

LEMMA ImportCheckKeeps ==
  ASSUME SetupInv, NEW t \in Terminals, ImportCheck(t)
  PROVE  SetupInv'
<1>0. /\ SharedOK /\ SealedOK /\ CommandOK(t) /\ ResumeOK(t) /\ command \in [Terminals -> CommandRow]
      /\ command[t] \in CommandRow /\ command[t].pc = "check" /\ SharedSame
  BY SetupFacts DEF ImportCheck, AtStep, fileVars, SharedSame
<1>1. PICK found \in SUBSET CredentialRows :
        IF ~RuntimeConnects(command[t].password) \/ 1 \notin Recorded \/ ~OpensExisting(command[t].key)
        THEN Ends(t, "failed")
        ELSE IF found = {} THEN Ends(t, "ok")
        ELSE Stepped(t, [command[t] EXCEPT !.plan = found, !.pc = "save"])
  BY DEF ImportCheck
<1>2. CASE Ends(t, "failed") \/ Ends(t, "ok")
  BY <1>0, <1>2, SameKeeps DEF Ended
<1>3. CASE /\ RuntimeConnects(command[t].password) /\ OpensExisting(command[t].key)
           /\ Stepped(t, [command[t] EXCEPT !.plan = found, !.pc = "save"])
  <2>1. found \in SUBSET PlanItems
    BY DEF PlanItems, CredentialRows
  <2>2. PICK c : c = [command[t] EXCEPT !.plan = found, !.pc = "save"]
    OBVIOUS
  <2>3. /\ c \in CommandRow /\ c.pc = "save" /\ c.cmd = command[t].cmd /\ c.key = command[t].key
        /\ c.disturbed = command[t].disturbed
    BY <1>0, <2>1, <2>2 DEF CommandRow, Steps
  <2>4. Stepped(t, c)
    BY <1>3, <2>2
  <2>5. command'[t] = c
    BY <1>0, <2>3, <2>4, SteppedIs
  <2>6. \A r \in Sealed : store[r] = command[t].key
    <3>1. CASE "broker" \in Sealed
      BY <1>0, <1>3, <3>1 DEF OpensExisting, SealedOK
    <3>2. CASE "broker" \notin Sealed
      BY <1>0, <1>3, <3>2 DEF OpensExisting, SealedOK, Sealed, CredentialRows
    <3> QED BY <3>1, <3>2
  <2>7. Sealed' = Sealed /\ store' = store /\ config' = config /\ database'.exists
    BY <1>0, <1>3 DEF Sealed, SharedSame, RuntimeConnects
  <2>8. CommandOK(t)'
    BY <1>0, <2>3, <2>5, <2>6, <2>7 DEF CommandOK
  <2>9. ResumeOK(t)'
    BY <1>0, <2>3, <2>5 DEF ResumeOK, Running
  <2> QED BY <1>0, <2>3, <2>4, <2>8, <2>9, SameKeeps
<1> QED BY <1>1, <1>2, <1>3

LEMMA ImportSaveKeeps ==
  ASSUME SetupInv, NEW t \in Terminals, ImportSave(t)
  PROVE  SetupInv'
<1>0. /\ SharedOK /\ RanOK /\ SealedOK /\ CommandOK(t) /\ ResumeOK(t) /\ command \in [Terminals -> CommandRow]
      /\ command[t] \in CommandRow /\ command[t].pc = "save" /\ Len(database.ran) \in Nat
  BY SetupFacts DEF ImportSave, AtStep
<1>1. UNCHANGED <<server, container, config, exe, secrets, printed, role, database>>
  BY DEF ImportSave, fileVars
<1>2. PICK r \in command[t].plan :
        /\ store' = [store EXCEPT ![r] = command[t].key]
        /\ IF command[t].plan = {r} THEN Ends(t, "ok")
           ELSE Stepped(t, [command[t] EXCEPT !.plan = @ \ {r}])
  BY DEF ImportSave
<1>3. store' = store \/ (command[t].pc = "save" /\ \E s \in CredentialRows : store' = [store EXCEPT ![s] = command[t].key])
  <2>1. store \in [CredentialRows -> Nat]
    BY <1>0 DEF SharedOK
  <2> QED BY <1>0, <1>2, <2>1
<1>4. store' \in [CredentialRows -> Nat] /\ \A s \in CredentialRows : store'[s] = IF s = r THEN command[t].key ELSE store[s]
  <2>1. store \in [CredentialRows -> Nat] /\ command[t].key \in Nat
    BY <1>0 DEF SharedOK, CommandRow
  <2> QED BY <1>2, <2>1
<1>5. \A s \in Sealed' : store'[s] = command[t].key
  BY <1>0, <1>4 DEF CommandOK, Sealed
<1>6. SharedOK' /\ RanOK' /\ SealedOK'
  <2>1. SharedOK'
    BY <1>0, <1>1, <1>4 DEF SharedOK
  <2>2. RanOK' /\ SealedOK'
    BY <1>0, <1>1, <1>5 DEF RanOK, SealedOK
  <2> QED BY <2>1, <2>2
<1>7. config' = config /\ (database.exists => database'.exists) /\ Len(database'.ran) >= Len(database.ran)
  BY <1>0, <1>1
<1>8. CASE Ends(t, "ok")
  BY <1>3, <1>6, <1>7, <1>8, EndKeeps DEF Ended
<1>9. CASE Stepped(t, [command[t] EXCEPT !.plan = @ \ {r}])
  <2>1. PICK plan : plan = command[t].plan \ {r}
    OBVIOUS
  <2>2. plan \in SUBSET PlanItems
    BY <1>0, <2>1 DEF CommandRow
  <2>3. PICK c : c = [command[t] EXCEPT !.plan = plan]
    OBVIOUS
  <2>4. /\ c \in CommandRow /\ c.pc = "save" /\ c.cmd = command[t].cmd /\ c.key = command[t].key
        /\ c.disturbed = command[t].disturbed
    BY <1>0, <2>2, <2>3 DEF CommandRow
  <2>5. Stepped(t, c)
    BY <1>9, <2>1, <2>3
  <2>6. command'[t] = c
    BY <1>0, <2>4, <2>5, SteppedIs
  <2>7. CommandOK(t)'
    BY <1>0, <1>1, <1>5, <2>4, <2>6 DEF CommandOK
  <2>8. ResumeOK(t)'
    BY <1>0, <2>4, <2>6 DEF ResumeOK, Running
  <2> QED BY <1>3, <1>6, <1>7, <2>4, <2>5, <2>7, <2>8, StepKeeps
<1> QED BY <1>2, <1>8, <1>9

\* Where no command runs there is nothing to hold of one.
LEMMA QuietKeeps ==
  ASSUME SharedOK', RanOK', SealedOK', command' \in [Terminals -> CommandRow], Quiet'
  PROVE  SetupInv'
<1>1. \A t \in Terminals : command'[t].pc \in {"idle", "ok", "failed", "died"}
  BY DEF Quiet, Running
<1>2. \A t \in Terminals : CommandOK(t)' /\ ResumeOK(t)'
  BY <1>1 DEF CommandOK, ResumeOK, Running
<1> QED BY <1>1, <1>2 DEF SetupInv

LEMMA RotateKeyKeeps ==
  ASSUME SetupInv, NEW t \in Terminals, RotateKey(t)
  PROVE  SetupInv'
<1>0. SharedOK /\ RanOK /\ SealedOK /\ command \in [Terminals -> CommandRow]
  BY DEF SetupInv
<1>1. UNCHANGED <<config, exe, role, database>> /\ secrets' = secrets + 1 /\ printed' = secrets + 1
  BY DEF RotateKey
<1>2. PICK n \in Nat : n = secrets + 1
  BY <1>0 DEF SharedOK
<1>3. store' = [r \in CredentialRows |-> IF r \in Sealed THEN n ELSE 0]
  BY <1>2 DEF RotateKey
<1>4. store' \in [CredentialRows -> Nat] /\ \A r \in Sealed' : store'[r] = n
  BY <1>2, <1>3 DEF Sealed
<1>5. SharedOK'
  BY <1>0, <1>1, <1>2, <1>4 DEF SharedOK
<1>6. RanOK' /\ SealedOK'
  BY <1>0, <1>1, <1>4 DEF RanOK, SealedOK
<1>7. PICK done : done = [Idle EXCEPT !.pc = "ok"]
  OBVIOUS
<1>8. done \in CommandRow /\ done.pc = "ok"
  BY <1>7, IdleIs DEF Ended
<1>9. command' = [command EXCEPT ![t] = done]
  BY <1>7 DEF RotateKey
<1>10. command' \in [Terminals -> CommandRow]
  BY <1>0, <1>8, <1>9
<1>11. \A u \in Terminals : command[u].pc \in {"idle", "ok", "failed", "died"}
  BY DEF RotateKey, Running
<1>12. Quiet'
  BY <1>0, <1>8, <1>9, <1>11 DEF Quiet, Running
<1> QED BY <1>5, <1>6, <1>10, <1>12, QuietKeeps

LEMMA UpdateKeeps ==
  ASSUME SetupInv, NEW t \in Terminals, Download(t) \/ Swap(t)
  PROVE  SetupInv'
<1>0. /\ SharedOK /\ RanOK /\ SealedOK /\ ResumeOK(t) /\ command \in [Terminals -> CommandRow]
      /\ command[t] \in CommandRow /\ Len(database.ran) \in Nat
  BY SetupFacts
<1>1. CASE Download(t)
  <2>1. SharedSame /\ command[t].pc = "download"
    BY <1>1 DEF Download, AtStep, fileVars, SharedSame
  <2>2. PICK v \in 1..Version, release \in {"genuine", "damaged", "mislabelled"} :
          IF v = command[t].version THEN Ends(t, "ok")
          ELSE IF release = "damaged" THEN Ends(t, "failed")
          ELSE Stepped(t, [command[t] EXCEPT !.pc = "staged", !.version = v, !.plan = {release}])
    BY <1>1 DEF Download
  <2>3. CASE Ends(t, "ok") \/ Ends(t, "failed")
    BY <2>1, <2>3, SameKeeps DEF Ended
  <2>4. CASE Stepped(t, [command[t] EXCEPT !.pc = "staged", !.version = v, !.plan = {release}])
    <3>1. v \in Nat /\ {release} \in SUBSET PlanItems
      BY <2>2, SetupAssumption DEF PlanItems
    <3>2. PICK c : c = [command[t] EXCEPT !.pc = "staged", !.version = v, !.plan = {release}]
      OBVIOUS
    <3>3. /\ c \in CommandRow /\ c.pc = "staged" /\ c.cmd = command[t].cmd /\ c.disturbed = command[t].disturbed
      BY <1>0, <3>1, <3>2 DEF CommandRow, Steps
    <3>4. Stepped(t, c)
      BY <2>4, <3>2
    <3>5. command'[t] = c
      BY <1>0, <3>3, <3>4, SteppedIs
    <3>6. CommandOK(t)' /\ ResumeOK(t)'
      BY <1>0, <2>1, <3>3, <3>5 DEF CommandOK, ResumeOK, Running
    <3> QED BY <2>1, <3>3, <3>4, <3>6, SameKeeps
  <2> QED BY <2>2, <2>3, <2>4
<1>2. CASE Swap(t)
  <2>1. UNCHANGED <<server, container, config, secrets, printed, role, database, store>>
    BY <1>2 DEF Swap
  <2>2. exe' = exe \/ exe' = [version |-> command[t].version, release |-> "genuine"]
    BY <1>2 DEF Swap
  <2>3. Ends(t, "ok") \/ Ends(t, "failed")
    BY <1>2 DEF Swap
  <2>4. exe' \in [version : Nat, release : {"genuine"}]
    <3>1. exe \in [version : Nat, release : {"genuine"}] /\ command[t].version \in Nat
      BY <1>0 DEF SharedOK, CommandRow
    <3> QED BY <2>2, <3>1
  <2>5. SharedOK' /\ RanOK' /\ SealedOK'
    BY <1>0, <2>1, <2>4 DEF SharedOK, RanOK, SealedOK, Sealed
  <2>6. Len(database'.ran) >= Len(database.ran) /\ (database.exists => database'.exists)
    BY <1>0, <2>1
  <2> QED BY <2>1, <2>3, <2>5, <2>6, EndKeeps DEF Ended
<1> QED BY <1>1, <1>2

LEMMA OperatorKeeps ==
  ASSUME SetupInv, EditKey \/ DeleteConfig \/ RemoveContainer
  PROVE  SetupInv'
<1>0. SharedOK /\ RanOK /\ SealedOK /\ command \in [Terminals -> CommandRow]
  BY DEF SetupInv
<1>1. command' = command /\ Quiet /\ exe' = exe /\ secrets' = secrets
  BY DEF EditKey, DeleteConfig, RemoveContainer
<1>2. Quiet'
  BY <1>1 DEF Quiet, Running
<1>3. SharedOK' /\ RanOK' /\ SealedOK'
  <2>1. CASE EditKey \/ DeleteConfig
    <3>1. /\ UNCHANGED <<role, database, store>>
          /\ \/ config' = [config EXCEPT !.key = printed] /\ printed' = printed
             \/ config' = NoConfig /\ printed' = 0
      BY <2>1 DEF EditKey, DeleteConfig
    <3>2. config' \in [file : {"absent", "torn", "whole"}, password : Nat, key : Nat] /\ printed' \in Nat
      BY <1>0, <3>1 DEF SharedOK, NoConfig
    <3> QED BY <1>0, <1>1, <3>1, <3>2 DEF SharedOK, RanOK, SealedOK, Sealed
  <2>2. CASE RemoveContainer
    <3>1. UNCHANGED <<config, printed>> /\ role' = NoRole /\ database' = NoDatabase /\ store' = NoBlobs
      BY <2>2 DEF RemoveContainer
    <3>2. <<>> \in Seq(Nat) /\ 0 \in 0..AllSeeds
      BY DEF AllSeeds
    <3>3. database' \in DatabaseRow
      BY <3>1, <3>2 DEF DatabaseRow, NoDatabase
    <3>4. store' \in [CredentialRows -> Nat]
      BY <3>1 DEF NoBlobs
    <3>5. SharedOK'
      BY <1>0, <1>1, <3>1, <3>3, <3>4 DEF SharedOK, NoRole
    <3>6. RanOK' /\ SealedOK'
      BY <3>1 DEF RanOK, SealedOK, Sealed, NoDatabase, NoBlobs
    <3> QED BY <3>5, <3>6
  <2> QED BY <2>1, <2>2
<1> QED BY <1>0, <1>1, <1>2, <1>3, QuietKeeps

LEMMA CrashKeeps ==
  ASSUME SetupInv, NEW t \in Terminals, Crash(t)
  PROVE  SetupInv'
<1>1. SharedSame /\ Ends(t, "died")
  BY DEF Crash, fileVars, SharedSame
<1> QED BY <1>1, SameKeeps DEF Ended

LEMMA SetupInvariant == SetupSpec => []SetupInv
<1>1. SetupInit => SetupInv
  BY SetupInitInv
<1>2. SetupInv /\ [SetupNext]_setupVars => SetupInv'
  <2> SUFFICES ASSUME SetupInv, [SetupNext]_setupVars PROVE SetupInv'
    OBVIOUS
  <2>1. CASE \E t \in Terminals : \E cmd \in {"init", "database init", "resume", "migrate", "import", "update"} :
               BeginCommand(t, cmd)
    BY <2>1, BeginKeeps
  <2>2. CASE \E t \in Terminals : StartDocker(t) \/ CreateConfig(t) \/ WriteConfig(t)
    BY <2>2, InitStepsKeep
  <2>3. CASE \E t \in Terminals : DatabaseStep(t)
    BY <2>3, InspectKeeps, CreateRoleKeeps, CreateDatabaseKeeps, EnsureTrackingKeeps, ListPendingKeeps,
       ApplyOneKeeps, AppliedKeeps, GrantKeeps, SeedKeeps, DropDatabaseKeeps DEF DatabaseStep
  <2>4. CASE \E t \in Terminals : ImportCheck(t) \/ ImportSave(t)
    BY <2>4, ImportCheckKeeps, ImportSaveKeeps
  <2>5. CASE \E t \in Terminals : RotateKey(t) \/ Download(t) \/ Swap(t)
    BY <2>5, RotateKeyKeeps, UpdateKeeps
  <2>6. CASE \E t \in Terminals : Crash(t)
    BY <2>6, CrashKeeps
  <2>7. CASE EditKey \/ DeleteConfig \/ RemoveContainer
    BY <2>7, OperatorKeeps
  <2>8. CASE UNCHANGED setupVars
    <3>1. command' = command /\ SharedSame
      BY <2>8 DEF setupVars, SharedSame
    <3> QED BY <3>1 DEF SetupInv, SharedOK, RanOK, SealedOK, Sealed, CommandOK, ResumeOK, Running, Recorded, FromFile,
                        RefusesDefault, SharedSame
  <2> QED BY <2>1, <2>2, <2>3, <2>4, <2>5, <2>6, <2>7, <2>8 DEF SetupNext
<1> QED BY <1>1, <1>2, PTL DEF SetupSpec

\* However commands overlap, die or are given a wrong key, each migration has
\* run once and in order, one key opens every stored credential, and the
\* installed binary is a whole release (apply_one,
\* refuse_if_key_does_not_match_existing_store, stage_and_swap).
THEOREM SetupSafe == SetupSpec => []NothingHalfDone
<1>1. SetupInv => NothingHalfDone
  BY DEF SetupInv, SharedOK, RanOK, SealedOK, NothingHalfDone
<1> QED BY <1>1, SetupInvariant, PTL

\* A resume that nothing disturbed ends, while its server is there, only with
\* the last of the reference data.
LEMMA OthersLeavePc ==
  ASSUME SetupInv, NEW t \in Terminals, NEW u \in Terminals \ {t}, NEW c, Stepped(u, c)
  PROVE  command'[t].pc = command[t].pc
<1>1. command'[t] = IF Running(t) THEN [command[t] EXCEPT !.disturbed = TRUE] ELSE command[t]
  BY DEF Stepped
<1>2. command[t] \in CommandRow
  BY DEF SetupInv
<1> QED BY <1>1, <1>2 DEF CommandRow

\* Nobody else ends it: another command's step leaves it where it is, or kills it.
LEMMA OnlyItselfEnds ==
  ASSUME SetupInv, SetupNext, NEW t \in Terminals, Running(t), command'[t].pc \in {"ok", "failed"}
  PROVE  \/ StartDocker(t) \/ CreateConfig(t) \/ WriteConfig(t) \/ Inspect(t) \/ CreateRole(t) \/ CreateDatabase(t)
         \/ EnsureTracking(t) \/ ListPending(t) \/ ApplyOne(t) \/ Applied(t) \/ Grant(t) \/ Seed(t)
         \/ ImportCheck(t) \/ ImportSave(t) \/ Download(t) \/ Swap(t)
<1>0. command[t].pc \notin {"ok", "failed"} /\ command[t] \in CommandRow
  BY DEF SetupInv, Running
<1>1. command'[t].pc # command[t].pc
  BY <1>0
<1>2. ASSUME NEW u \in Terminals, NEW c, Stepped(u, c) PROVE u = t
  BY <1>1, <1>2, OthersLeavePc
<1>3. ASSUME NEW u \in Terminals, NEW result, Ends(u, result) PROVE u = t
  BY <1>2, <1>3 DEF Ends
<1>4. ASSUME NEW u \in Terminals, NEW pc, Goes(u, pc) PROVE u = t
  BY <1>2, <1>4 DEF Goes
<1>5. ASSUME NEW u \in Terminals, NEW cmd, BeginCommand(u, cmd) PROVE FALSE
  <2>1. ~Running(u)
    BY <1>5 DEF BeginCommand
  <2>2. (\E result : Ends(u, result)) \/ (\E c : Stepped(u, c))
    <3>1. PICK first : first =
             CASE cmd = "init" -> IF config.file # "absent" THEN "failed"
                                  ELSE IF server = "docker" THEN "docker" ELSE "probe"
               [] cmd \in {"database init", "resume"} ->
                    IF RefusesDefault(FromFile.password) THEN "failed" ELSE "inspect"
               [] cmd = "migrate" -> "connect"
               [] cmd = "import" -> IF FromFile.key = 0 THEN "failed" ELSE "check"
               [] cmd = "update" -> "download"
      OBVIOUS
    <3>2. PICK fresh : IF first = "failed" THEN Ends(u, first) ELSE Stepped(u, [fresh EXCEPT !.pc = first])
      BY <1>5, <3>1 DEF BeginCommand
    <3> QED BY <3>2
  <2> QED BY <1>2, <1>3, <2>1, <2>2
<1>6. ASSUME NEW u \in Terminals, DropDatabase(u) PROVE FALSE
  <2>1. ~Running(u) /\ command' = [v \in Terminals |->
           IF v = u THEN [Idle EXCEPT !.pc = "ok"]
           ELSE IF command[v].pc \in {"list", "apply", "grant", "seed", "save"} THEN [Idle EXCEPT !.pc = "died"]
           ELSE IF Running(v) THEN [command[v] EXCEPT !.disturbed = TRUE] ELSE command[v]]
    BY <1>6 DEF DropDatabase
  <2>2. u # t
    BY <2>1
  <2>3. command'[t] = IF command[t].pc \in {"list", "apply", "grant", "seed", "save"} THEN [Idle EXCEPT !.pc = "died"]
                      ELSE [command[t] EXCEPT !.disturbed = TRUE]
    BY <2>1, <2>2
  <2>4. command'[t].pc \in {"died", command[t].pc}
    BY <1>0, <2>3 DEF Idle, CommandRow
  <2> QED BY <1>0, <2>4
<1>7. ASSUME NEW u \in Terminals, RotateKey(u) PROVE FALSE
  BY <1>7 DEF RotateKey
<1>8. ASSUME NEW u \in Terminals, Crash(u) PROVE FALSE
  <2>1. u = t
    BY <1>3, <1>8 DEF Crash
  <2>2. Stepped(t, [Idle EXCEPT !.pc = "died"])
    BY <1>8, <2>1 DEF Crash, Ends
  <2>3. command'[t] = [Idle EXCEPT !.pc = "died"]
    BY <2>2 DEF Stepped
  <2> QED BY <2>3 DEF Idle
<1>9. ASSUME EditKey \/ DeleteConfig \/ RemoveContainer PROVE FALSE
  BY <1>1, <1>9 DEF EditKey, DeleteConfig, RemoveContainer
<1>10. ASSUME NEW u \in Terminals, StartDocker(u) \/ CreateConfig(u) \/ WriteConfig(u) PROVE u = t
  BY <1>2, <1>3, <1>4, <1>10 DEF StartDocker, CreateConfig, WriteConfig
<1>11. ASSUME NEW u \in Terminals, Inspect(u) PROVE u = t
  BY <1>2, <1>3, <1>11 DEF Inspect
<1>12. ASSUME NEW u \in Terminals, CreateRole(u) \/ CreateDatabase(u) \/ EnsureTracking(u) PROVE u = t
  BY <1>3, <1>4, <1>12 DEF CreateRole, CreateDatabase, EnsureTracking
<1>13. ASSUME NEW u \in Terminals, ListPending(u) \/ ApplyOne(u) \/ Applied(u) \/ Grant(u) \/ Seed(u) PROVE u = t
  BY <1>2, <1>3, <1>4, <1>13 DEF ListPending, ApplyOne, Applied, Grant, Seed
<1>14. ASSUME NEW u \in Terminals, ImportCheck(u) \/ ImportSave(u) PROVE u = t
  BY <1>2, <1>3, <1>14 DEF ImportCheck, ImportSave
<1>15. ASSUME NEW u \in Terminals, Download(u) \/ Swap(u) PROVE u = t
  BY <1>2, <1>3, <1>15 DEF Download, Swap
<1> QED BY <1>5, <1>6, <1>7, <1>8, <1>9, <1>10, <1>11, <1>12, <1>13, <1>14, <1>15 DEF SetupNext, DatabaseStep

LEMMA ResumeEndsSeeded ==
  ASSUME SetupInv, SetupNext, NEW t \in Terminals, Running(t), command'[t].pc \in {"ok", "failed"},
         command[t].cmd = "resume", ~command[t].disturbed, Reachable
  PROVE  Seed(t)
<1>0. /\ ResumeOK(t) /\ SharedOK /\ RanOK /\ command \in [Terminals -> CommandRow] /\ command[t] \in CommandRow
      /\ command[t].pc \in {"inspect", "role", "database", "connect", "list", "apply", "grant", "seed"}
  BY SetupFacts DEF ResumeOK
<1>1. ASSUME NEW pc, Goes(t, pc) PROVE command'[t].pc = pc
  <2>1. command'[t] = [command[t] EXCEPT !.pc = pc]
    BY <1>1 DEF Goes, Stepped
  <2> QED BY <1>0, <2>1 DEF CommandRow
<1>2. ~StartDocker(t) /\ ~CreateConfig(t) /\ ~WriteConfig(t) /\ ~ImportCheck(t) /\ ~ImportSave(t)
      /\ ~Download(t) /\ ~Swap(t)
  BY <1>0 DEF StartDocker, CreateConfig, WriteConfig, ImportCheck, ImportSave, Download, Swap, AtStep
<1>3. ~Inspect(t)
  <2>1. SUFFICES ASSUME Inspect(t) PROVE FALSE
    OBVIOUS
  <2>2. PICK found : found = (IF role.exists THEN {"role"} ELSE {}) \cup (IF database.exists THEN {"database"} ELSE {})
    OBVIOUS
  <2>3. PICK plan : plan = PlanProvisioning(TRUE, found)
    OBVIOUS
  <2>4. plan # {"refuse"} /\ Next1(plan) \in {"role", "database", "connect"}
    <3>1. CASE found = {}
      BY <2>3, <3>1 DEF PlanProvisioning, Next1
    <3>2. CASE found # {}
      <4>1. plan = {"role", "database"} \ found
        BY <2>3, <3>2 DEF PlanProvisioning
      <4> QED BY <4>1 DEF Next1
    <3> QED BY <3>1, <3>2
  <2>5. PICK foreign : Stepped(t, [command[t] EXCEPT !.pc = Next1(plan), !.plan = plan, !.foreign = foreign])
    <3>1. (command[t].cmd = "resume") = TRUE
      OBVIOUS
    <3> QED BY <2>1, <2>2, <2>3, <2>4, <3>1 DEF Inspect
  <2>6. command'[t] = [command[t] EXCEPT !.pc = Next1(plan), !.plan = plan, !.foreign = foreign]
    BY <2>5 DEF Stepped
  <2>7. command'[t].pc = Next1(plan)
    BY <1>0, <2>6 DEF CommandRow
  <2> QED BY <2>4, <2>7
<1>4. ~CreateRole(t)
  <2>1. CreateRole(t) => Goes(t, Next1(command[t].plan \ {"role"}))
    BY <1>0 DEF CreateRole, ResumeOK, AtStep
  <2>2. Next1(command[t].plan \ {"role"}) \in {"role", "database", "connect"}
    BY DEF Next1
  <2> QED BY <1>1, <2>1, <2>2
<1>5. ~CreateDatabase(t)
  <2>1. CreateDatabase(t) => Goes(t, "connect")
    BY <1>0 DEF CreateDatabase, ResumeOK, AtStep
  <2> QED BY <1>1, <2>1
<1>6. ~EnsureTracking(t)
  <2>1. EnsureTracking(t) => Goes(t, "list")
    BY <1>0 DEF EnsureTracking, ResumeOK, AtStep
  <2> QED BY <1>1, <2>1
<1>7. ~ListPending(t) /\ ~Grant(t)
  <2>1. ASSUME NEW pc, NEW todo, Stepped(t, [command[t] EXCEPT !.pc = pc, !.todo = todo]) PROVE command'[t].pc = pc
    <3>1. command'[t] = [command[t] EXCEPT !.pc = pc, !.todo = todo]
      BY <2>1 DEF Stepped
    <3> QED BY <1>0, <3>1 DEF CommandRow
  <2>2. ListPending(t) => command'[t].pc = "apply"
    BY <2>1 DEF ListPending
  <2>3. Grant(t) => command'[t].pc = "seed"
    BY <2>1 DEF Grant
  <2> QED BY <2>2, <2>3
<1>8. ~ApplyOne(t)
  <2>1. SUFFICES ASSUME ApplyOne(t) PROVE FALSE
    OBVIOUS
  <2>2. command'[t].pc = "ok"
    BY <2>1, ApplyOneKeeps
  <2>3. PICK todo : Ends(t, "failed") \/ Stepped(t, [command[t] EXCEPT !.todo = todo])
    BY <2>1 DEF ApplyOne
  <2>4. command'[t] = [Idle EXCEPT !.pc = "failed"] \/ command'[t] = [command[t] EXCEPT !.todo = todo]
    BY <2>3 DEF Ends, Stepped
  <2> QED BY <1>0, <2>2, <2>4 DEF CommandRow, Idle
<1>9. ~Applied(t)
  <2>1. Applied(t) => Goes(t, "grant")
    BY DEF Applied
  <2> QED BY <1>1, <2>1
<1> QED BY <1>2, <1>3, <1>4, <1>5, <1>6, <1>7, <1>8, <1>9, OnlyItselfEnds

\* What the last step of a resume leaves: everything is there and the server
\* starts on it.
LEMMA ResumeLeaves ==
  ASSUME SetupInv, NEW t \in Terminals, Seed(t), command'[t].pc \in {"ok", "failed"},
         command[t].cmd = "resume", ~command[t].disturbed, Running(t), Reachable
  PROVE  /\ command'[t].pc = "ok"
         /\ 1..command[t].version \subseteq Recorded' /\ database'.granted /\ database'.seeds = AllSeeds
         /\ command[t].foreign \/ NothingDecrypted(FromFile.key)' \/ WouldStart'
<1>0. /\ SharedOK /\ CommandOK(t) /\ ResumeOK(t) /\ command[t] \in CommandRow /\ command[t].pc = "seed"
      /\ database \in DatabaseRow
  BY SetupFacts DEF Seed, AtStep
<1>1. UNCHANGED <<server, container, config, exe, secrets, printed, role, store>>
  BY DEF Seed, fileVars
<1>2. PICK k \in 1..3 : command[t].todo = k..3
  BY <1>0 DEF CommandOK, AllSeeds
<1>3. PICK step : step = CHOOSE s \in command[t].todo : \A u \in command[t].todo : s <= u
  OBVIOUS
<1>4. step = k
  <2>1. k..3 # {}
    <3>1. k \in k..3
      BY <1>2
    <3> QED BY <3>1
  <2> QED BY <1>2, <1>3, <2>1, FirstLeft
<1>5. /\ database' = [database EXCEPT !.seeds = IF @ < step THEN step ELSE @]
      /\ IF step = AllSeeds THEN Ends(t, "ok") ELSE Stepped(t, [command[t] EXCEPT !.todo = @ \ {step}])
  BY <1>3 DEF Seed
<1>6. k = 3 /\ Ends(t, "ok")
  <2>1. CASE step = AllSeeds
    BY <1>4, <1>5, <2>1 DEF AllSeeds
  <2>2. CASE step # AllSeeds
    <3>1. command'[t] = [command[t] EXCEPT !.todo = @ \ {step}]
      BY <1>5, <2>2 DEF Stepped
    <3>2. command'[t].pc = "seed"
      BY <1>0, <3>1 DEF CommandRow
    <3> QED BY <3>2
  <2> QED BY <2>1, <2>2
<1>7. command'[t].pc = "ok"
  <2>1. command'[t] = [Idle EXCEPT !.pc = "ok"]
    BY <1>6 DEF Ends, Stepped
  <2> QED BY <2>1 DEF Idle
<1>8. /\ database'.ran = database.ran /\ database'.exists = database.exists /\ database'.granted = database.granted
      /\ database'.seeds = AllSeeds
  <2>1. database.seeds \in 0..3
    BY <1>0 DEF DatabaseRow, AllSeeds
  <2>2. (IF database.seeds < 3 THEN 3 ELSE database.seeds) = 3
    BY <2>1
  <2>3. database' = [database EXCEPT !.seeds = 3]
    BY <1>4, <1>5, <1>6, <2>2
  <2> QED BY <1>0, <2>3 DEF DatabaseRow, AllSeeds
<1>9. Recorded' = Recorded
  BY <1>8 DEF Recorded
<1>10. /\ command[t].password = FromFile.password /\ ~RefusesDefault(command[t].password)
       /\ role.exists /\ (command[t].foreign \/ role.password = command[t].password)
       /\ database.exists /\ 1..command[t].version \subseteq Recorded /\ database.granted
  BY <1>0 DEF ResumeOK
<1>11. ASSUME ~command[t].foreign, ~NothingDecrypted(FromFile.key)' PROVE WouldStart'
  <2>1. FromFile' = FromFile
    BY <1>1 DEF FromFile
  <2>2. ~RefusesDefault(FromFile.password)'
    BY <1>1, <1>10, <2>1 DEF RefusesDefault
  <2>3. RuntimeConnects(FromFile.password)'
    BY <1>1, <1>8, <1>10, <1>11, <2>1 DEF RuntimeConnects, Reachable
  <2>4. CheckCatalog'
    BY <1>8 DEF CheckCatalog, AllSeeds
  <2> QED BY <1>11, <2>2, <2>3, <2>4 DEF WouldStart
<1> QED BY <1>7, <1>8, <1>9, <1>10, <1>11

\* `oms database init --resume` finishes whatever an earlier run left, at any
\* step it died: undisturbed and with the database server there it does not
\* fail, and leaves a database on which the server starts (database::init's
\* comment).
THEOREM ResumeSafe == SetupSpec => ResumeFinishes
<1>1. SetupInv /\ [SetupNext]_setupVars =>
        [\A t \in Terminals :
           LET run == command[t]  result == command'[t].pc IN
           run.cmd = "resume" /\ Running(t) /\ result \in {"ok", "failed"} /\ ~run.disturbed /\ Reachable
           => /\ result = "ok"
              /\ 1..run.version \subseteq Recorded' /\ database'.granted /\ database'.seeds = AllSeeds
              /\ run.foreign \/ NothingDecrypted(FromFile.key)' \/ WouldStart']_setupVars
  BY ResumeEndsSeeded, ResumeLeaves
<1> QED BY <1>1, SetupInvariant, PTL DEF SetupSpec, ResumeFinishes

-----------------------------------------------------------------------------
(* FIX requests                                                               *)

Events == [kind : {"LoggedOn", "LoggedOut", "Request"}, task : Nat]

\* Where a channel holds a logon and a logout, and whether it holds neither.
OnAt(q, i) == i \in DOMAIN q /\ q[i].kind = "LoggedOn"
OutAt(q, i) == i \in DOMAIN q /\ q[i].kind = "LoggedOut"
Sessionless(q) == \A i \in DOMAIN q : q[i].kind = "Request"

\* What the channel of the running acceptor has in it, the session being up or
\* not and the core knowing of it or not.  A session that is up is announced by
\* the last of the events, or known; a logout ends a logon before it, or what
\* is known.
ChannelOK(q, up, known) ==
    /\ up => Sessionless(q) \/ \E i \in DOMAIN q : OnAt(q, i) /\ \A j \in DOMAIN q : j > i => q[j].kind = "Request"
    /\ up /\ Sessionless(q) => known
    /\ \A i, j \in DOMAIN q : i < j /\ OutAt(q, i) /\ OutAt(q, j) => \E k \in DOMAIN q : i < k /\ k < j /\ OnAt(q, k)
    /\ \A j \in DOMAIN q : OutAt(q, j) => known \/ \E k \in DOMAIN q : k < j /\ OnAt(q, k)

Requests == {"NewOrder", "Cancel", "Status", "SecurityList", "BusinessReject"}
TaskSteps == {"inbound", "dropped", "started", "wait", "look", "submit", "route", "check", "done"}
Tasks == [request : Requests, id : ClOrdIds, logon : Nat, pc : TaskSteps, lock : Nat, unknown : BOOLEAN,
          fault : BOOLEAN]
Rows == [by : Nat, status : {"none", "submitted", "routed", "rejected", "canceled"}]

FixTypeOK ==
    /\ line \in [up : BOOLEAN, logons : Nat]
    /\ acceptor \in 1..(MaxRestarts + 1)
    /\ inbound \in [1..(MaxRestarts + 1) -> Seq(Events)]
    /\ \A a \in DOMAIN inbound : a > acceptor => inbound[a] = <<>>
    /\ registered \in BOOLEAN /\ unheard \in BOOLEAN
    /\ tasks \in Seq(Tasks)
    /\ placing \in [ClOrdIds -> Nat]
    /\ rows \in [ClOrdIds -> Rows]
    /\ \A r \in told : r.task \in DOMAIN tasks
    /\ \A a \in DOMAIN inbound : \A i \in DOMAIN inbound[a] :
          inbound[a][i].kind = "Request" => inbound[a][i].task \in DOMAIN tasks

\* An acceptor that was stopped left no logon behind, and of all of them at
\* most one logout, of a session that is down and still known.
StoppedOK ==
    /\ \A a \in DOMAIN inbound : a < acceptor => \A i \in DOMAIN inbound[a] : ~OnAt(inbound[a], i)
    /\ \A a, b \in DOMAIN inbound : a < acceptor /\ b < acceptor =>
          \A i \in DOMAIN inbound[a], j \in DOMAIN inbound[b] : OutAt(inbound[a], i) /\ OutAt(inbound[b], j) => a = b /\ i = j
    /\ \A a \in DOMAIN inbound : a < acceptor => \A i \in DOMAIN inbound[a] :
          OutAt(inbound[a], i) => registered /\ ~line.up /\ Sessionless(inbound[acceptor])

SessionInv == ~unheard => ChannelOK(inbound[acceptor], line.up, registered) /\ StoppedOK

\* What waits in the channels: the requests no loop has read, in the order they
\* were sent, and those of one logon in one channel.
RequestAt(a, i, n) == i \in DOMAIN inbound[a] /\ inbound[a][i].kind = "Request" /\ inbound[a][i].task = n

InboundOK ==
    /\ \A n \in DOMAIN tasks : tasks[n].logon <= line.logons
    /\ \A n \in DOMAIN tasks : tasks[n].pc = "inbound" => \E a \in DOMAIN inbound : \E i \in DOMAIN inbound[a] : RequestAt(a, i, n)
    /\ \A a \in DOMAIN inbound, n \in DOMAIN tasks : \A i \in DOMAIN inbound[a] :
          RequestAt(a, i, n) => tasks[n].pc = "inbound" /\ (a < acceptor /\ line.up => tasks[n].logon < line.logons)
    /\ \A a \in DOMAIN inbound, m, n \in DOMAIN tasks : \A i, j \in DOMAIN inbound[a] :
          RequestAt(a, i, m) /\ RequestAt(a, j, n) /\ i < j => m < n
    /\ \A a, b \in DOMAIN inbound, m, n \in DOMAIN tasks : \A i \in DOMAIN inbound[a], j \in DOMAIN inbound[b] :
          RequestAt(a, i, m) /\ RequestAt(b, j, n) /\ a # b => tasks[m].logon # tasks[n].logon

\* What each kind of request can be doing.
KindOK(n) ==
    /\ tasks[n].pc \in {"submit", "route", "check"} => tasks[n].request = "NewOrder"
    /\ tasks[n].pc \in {"started", "wait"} => tasks[n].request \in Names
    /\ tasks[n].request = "BusinessReject" => tasks[n].pc = "done"
    /\ tasks[n].unknown => tasks[n].request \in Names /\ tasks[n].pc = "done"

KindsOK == \A n \in DOMAIN tasks : KindOK(n) /\ (tasks[n].pc = "wait" => tasks[n].lock \in DOMAIN tasks)

\* A strategy that waits for its answers has one order under way by ClOrdID,
\* and that one holds the lock the ClOrdID maps to.
PlacingOK ==
    /\ \A m, n \in DOMAIN tasks :
          /\ tasks[m].request = "NewOrder" /\ tasks[n].request = "NewOrder" /\ tasks[m].id = tasks[n].id
          /\ tasks[m].pc # "done" /\ tasks[n].pc # "done"
          => m = n
    /\ \A n \in DOMAIN tasks : tasks[n].request = "NewOrder" /\ Held(n) => placing[tasks[n].id] = n
    /\ \A c \in ClOrdIds : placing[c] \in DOMAIN tasks \cup {0}

\* A row is stored once, by the task that is past storing it; who is at it finds
\* no row of another.
StoredOK ==
    /\ \A c \in ClOrdIds : (rows[c].status = "none" <=> rows[c].by = 0) /\ rows[c].by \in DOMAIN tasks \cup {0}
    /\ \A n \in DOMAIN tasks : tasks[n].request = "NewOrder" =>
          /\ rows[tasks[n].id].by = n => tasks[n].pc \in {"route", "check", "done"}
          /\ tasks[n].pc = "submit" => rows[tasks[n].id].by = 0
          /\ tasks[n].pc = "check" => rows[tasks[n].id].by \in {0, n}
          /\ tasks[n].pc = "route" => rows[tasks[n].id].by = n

\* Who has answered what: nothing of a request that is not done, and of one
\* that is and whose session is still up the one report, or the order's own.
QueueAnswers(n) == tasks[n].request = "NewOrder" /\ rows[tasks[n].id].by = n
ToldOK ==
    /\ \A r \in told : tasks[r.task].pc = "done"
    /\ \A n \in DOMAIN tasks :
          tasks[n].pc = "done" /\ line.up /\ line.logons = tasks[n].logon /\ ~tasks[n].fault =>
             /\ QueueAnswers(n) => \A r \in told : r.task # n
             /\ ~QueueAnswers(n) => \E r \in told : r.task = n /\ \A s \in told : s.task = n => s = r

\* A cancel or status request is behind an order it names that was sent before.
BehindOK == \A m, n \in DOMAIN tasks :
    /\ m < n /\ tasks[m].request = "NewOrder" /\ tasks[n].request \in Names
    /\ tasks[m].id = tasks[n].id /\ tasks[m].logon = tasks[n].logon
    => /\ tasks[m].pc = "inbound" => tasks[n].pc = "inbound"
       /\ tasks[n].pc = "wait" => tasks[n].lock = m \/ tasks[m].pc \in {"done", "dropped"}
       /\ tasks[n].pc \in {"look", "done"} => tasks[m].pc \in {"done", "dropped"}
       /\ tasks[n].unknown => rows[tasks[m].id].by # m

RequestsInv ==
    /\ KindsOK /\ InboundOK /\ PlacingOK /\ StoredOK /\ ToldOK /\ BehindOK

LEMMA TailIs ==
  ASSUME NEW q \in Seq(Events), q # <<>>
  PROVE  /\ Tail(q) \in Seq(Events) /\ Len(q) \in Nat /\ Len(q) >= 1 /\ DOMAIN q = 1..Len(q)
         /\ DOMAIN Tail(q) = 1..(Len(q) - 1) /\ Head(q) = q[1] /\ Head(q) \in Events
         /\ \A i \in 1..(Len(q) - 1) : Tail(q)[i] = q[i + 1]
<1>1. Len(q) \in Nat /\ Len(q) >= 1 /\ DOMAIN q = 1..Len(q)
  OBVIOUS
<1>2. Tail(q) \in Seq(Events) /\ Len(Tail(q)) = Len(q) - 1 /\ Head(q) = q[1]
  OBVIOUS
<1>3. DOMAIN Tail(q) = 1..(Len(q) - 1)
  BY <1>2
<1>4. \A i \in 1..(Len(q) - 1) : Tail(q)[i] = q[i + 1]
  BY <1>1, <1>2
<1>5. q[1] \in Events
  BY <1>1
<1> QED BY <1>1, <1>2, <1>3, <1>4, <1>5

LEMMA AppendIs ==
  ASSUME NEW q \in Seq(Events), NEW e \in Events
  PROVE  /\ Append(q, e) \in Seq(Events) /\ Len(q) \in Nat /\ DOMAIN q = 1..Len(q)
         /\ DOMAIN Append(q, e) = 1..(Len(q) + 1) /\ Append(q, e)[Len(q) + 1] = e
         /\ \A i \in 1..Len(q) : Append(q, e)[i] = q[i]
<1>1. Append(q, e) \in Seq(Events) /\ Len(q) \in Nat /\ DOMAIN q = 1..Len(q) /\ Len(Append(q, e)) = Len(q) + 1
  OBVIOUS
<1>2. DOMAIN Append(q, e) = 1..(Len(q) + 1)
  BY <1>1
<1> QED BY <1>1, <1>2

\* The loop takes the first event.
LEMMA ChannelTail ==
  ASSUME NEW q \in Seq(Events), q # <<>>, NEW up \in BOOLEAN, NEW known \in BOOLEAN, NEW known2 \in BOOLEAN,
         ChannelOK(q, up, known),
         q[1].kind = "LoggedOn" => known2, q[1].kind = "LoggedOut" => ~known2, q[1].kind = "Request" => known2 = known
  PROVE  ChannelOK(Tail(q), up, known2)
<1> DEFINE r == Tail(q)
           n == Len(q)
<1>0. /\ n \in Nat /\ n >= 1 /\ DOMAIN q = 1..n /\ DOMAIN r = 1..(n - 1)
      /\ \A i \in 1..(n - 1) : r[i] = q[i + 1]
  BY TailIs
<1>1. \A i \in DOMAIN r : /\ i + 1 \in DOMAIN q /\ i \in Nat /\ r[i] = q[i + 1]
                          /\ (OnAt(r, i) <=> OnAt(q, i + 1)) /\ (OutAt(r, i) <=> OutAt(q, i + 1))
  BY <1>0 DEF OnAt, OutAt
<1>2. \A j \in DOMAIN q : j > 1 => j - 1 \in DOMAIN r /\ j = (j - 1) + 1
  BY <1>0
<1>3. 1 \in DOMAIN q /\ q[1].kind \in {"LoggedOn", "LoggedOut", "Request"}
  <2>1. q[1] \in Events
    BY <1>0
  <2> QED BY <1>0, <2>1 DEF Events
<1> HIDE DEF r, n
<1>4. ASSUME up PROVE Sessionless(r) \/ \E i \in DOMAIN r : OnAt(r, i) /\ \A j \in DOMAIN r : j > i => r[j].kind = "Request"
  <2>1. CASE Sessionless(q)
    BY <1>1, <2>1 DEF Sessionless
  <2>2. CASE \E i \in DOMAIN q : OnAt(q, i) /\ \A j \in DOMAIN q : j > i => q[j].kind = "Request"
    <3>1. PICK i \in DOMAIN q : OnAt(q, i) /\ \A j \in DOMAIN q : j > i => q[j].kind = "Request"
      BY <2>2
    <3>2. CASE i = 1
      <4>1. \A j \in DOMAIN r : r[j].kind = "Request"
        <5>1. \A j \in DOMAIN r : j + 1 > 1
          BY <1>0, <1>1
        <5> QED BY <1>1, <3>1, <3>2, <5>1
      <4> QED BY <4>1 DEF Sessionless
    <3>3. CASE i # 1
      <4>1. i > 1 /\ i - 1 \in DOMAIN r /\ i = (i - 1) + 1
        BY <1>0, <1>2, <3>3
      <4>2. OnAt(r, i - 1)
        BY <1>1, <3>1, <4>1
      <4>3. \A j \in DOMAIN r : j > i - 1 => r[j].kind = "Request"
        <5>1. \A j \in DOMAIN r : j > i - 1 => j + 1 > i
          BY <1>0, <1>1
        <5> QED BY <1>1, <3>1, <5>1
      <4> QED BY <4>1, <4>2, <4>3
    <3> QED BY <3>2, <3>3
  <2> QED BY <1>4, <2>1, <2>2 DEF ChannelOK
<1>5. ASSUME up, Sessionless(r) PROVE known2
  <2>1. \A j \in DOMAIN q : j > 1 => q[j].kind = "Request"
    BY <1>1, <1>2, <1>5 DEF Sessionless
  <2>2. CASE q[1].kind = "LoggedOn"
    BY <2>2
  <2>3. CASE q[1].kind = "LoggedOut"
    <3>1. ~Sessionless(q)
      BY <1>3, <2>3 DEF Sessionless
    <3>2. PICK i \in DOMAIN q : OnAt(q, i)
      BY <1>5, <3>1 DEF ChannelOK
    <3>3. i = 1
      BY <1>0, <2>1, <3>2 DEF OnAt
    <3> QED BY <2>3, <3>2, <3>3 DEF OnAt
  <2>4. CASE q[1].kind = "Request"
    <3>1. Sessionless(q)
      BY <1>0, <2>1, <2>4 DEF Sessionless
    <3> QED BY <1>5, <2>4, <3>1 DEF ChannelOK
  <2> QED BY <1>3, <2>2, <2>3, <2>4
<1>6. ASSUME NEW i \in DOMAIN r, NEW j \in DOMAIN r, i < j, OutAt(r, i), OutAt(r, j)
      PROVE  \E k \in DOMAIN r : i < k /\ k < j /\ OnAt(r, k)
  <2>1. i + 1 < j + 1 /\ OutAt(q, i + 1) /\ OutAt(q, j + 1) /\ i + 1 \in DOMAIN q /\ j + 1 \in DOMAIN q
    BY <1>1, <1>6
  <2>2. PICK k \in DOMAIN q : i + 1 < k /\ k < j + 1 /\ OnAt(q, k)
    BY <2>1 DEF ChannelOK
  <2>3. k - 1 \in DOMAIN r /\ k = (k - 1) + 1 /\ i < k - 1 /\ k - 1 < j
    BY <1>0, <1>1, <1>2, <2>2
  <2> QED BY <1>1, <2>2, <2>3
<1>7. ASSUME NEW j \in DOMAIN r, OutAt(r, j) PROVE known2 \/ \E k \in DOMAIN r : k < j /\ OnAt(r, k)
  <2>1. j + 1 \in DOMAIN q /\ OutAt(q, j + 1) /\ 1 < j + 1
    BY <1>0, <1>1, <1>7
  <2>2. ASSUME NEW k \in DOMAIN q, k > 1, k < j + 1, OnAt(q, k) PROVE \E l \in DOMAIN r : l < j /\ OnAt(r, l)
    <3>1. k - 1 \in DOMAIN r /\ k = (k - 1) + 1 /\ k - 1 < j
      BY <1>0, <1>1, <1>2, <2>2
    <3> QED BY <1>1, <2>2, <3>1
  <2>3. CASE q[1].kind = "LoggedOn"
    BY <2>3
  <2>4. CASE q[1].kind = "LoggedOut"
    <3>1. OutAt(q, 1)
      BY <1>3, <2>4 DEF OutAt
    <3>2. PICK k \in DOMAIN q : 1 < k /\ k < j + 1 /\ OnAt(q, k)
      BY <1>3, <2>1, <3>1 DEF ChannelOK
    <3> QED BY <1>0, <2>2, <3>2
  <2>5. CASE q[1].kind = "Request"
    <3>1. CASE known
      BY <2>5, <3>1
    <3>2. CASE ~known
      <4>1. PICK k \in DOMAIN q : k < j + 1 /\ OnAt(q, k)
        BY <2>1, <3>2 DEF ChannelOK
      <4>2. k > 1
        BY <1>0, <2>5, <4>1 DEF OnAt
      <4> QED BY <2>2, <4>1, <4>2
    <3> QED BY <3>1, <3>2
  <2> QED BY <1>3, <2>3, <2>4, <2>5
<1> QED BY <1>4, <1>5, <1>6, <1>7 DEF ChannelOK, r

\* A channel with one event more: where its logons and logouts are.
LEMMA AppendEvents ==
  ASSUME NEW q \in Seq(Events), NEW e \in Events
  PROVE  /\ DOMAIN Append(q, e) = DOMAIN q \cup {Len(q) + 1} /\ Len(q) \in Nat /\ DOMAIN q = 1..Len(q)
         /\ \A i \in DOMAIN q : i < Len(q) + 1 /\ Append(q, e)[i] = q[i]
         /\ \A i \in DOMAIN q : /\ OnAt(Append(q, e), i) <=> OnAt(q, i)
                                /\ OutAt(Append(q, e), i) <=> OutAt(q, i)
         /\ Append(q, e)[Len(q) + 1] = e
         /\ OnAt(Append(q, e), Len(q) + 1) <=> e.kind = "LoggedOn"
         /\ OutAt(Append(q, e), Len(q) + 1) <=> e.kind = "LoggedOut"
<1>1. /\ Len(q) \in Nat /\ DOMAIN q = 1..Len(q) /\ DOMAIN Append(q, e) = 1..(Len(q) + 1)
      /\ Append(q, e)[Len(q) + 1] = e /\ \A i \in 1..Len(q) : Append(q, e)[i] = q[i]
  BY AppendIs
<1>2. 1..(Len(q) + 1) = (1..Len(q)) \cup {Len(q) + 1}
  BY <1>1
<1>3. \A i \in 1..Len(q) : i < Len(q) + 1 /\ i \in 1..(Len(q) + 1)
  BY <1>1
<1>4. Len(q) + 1 \in 1..(Len(q) + 1)
  BY <1>1
<1> QED BY <1>1, <1>2, <1>3, <1>4 DEF OnAt, OutAt

LEMMA ChannelOn ==
  ASSUME NEW q \in Seq(Events), NEW e \in Events, e.kind = "LoggedOn", NEW known \in BOOLEAN, ChannelOK(q, FALSE, known)
  PROVE  ChannelOK(Append(q, e), TRUE, known)
<1> DEFINE r == Append(q, e)
           n == Len(q) + 1
<1>0. /\ DOMAIN r = DOMAIN q \cup {n} /\ \A i \in DOMAIN q : i < n
      /\ \A i \in DOMAIN q : (OnAt(r, i) <=> OnAt(q, i)) /\ (OutAt(r, i) <=> OutAt(q, i))
      /\ OnAt(r, n) /\ ~OutAt(r, n)
  BY AppendEvents
<1>1. n \in Nat /\ \A i \in DOMAIN q : i \in Nat
  BY AppendEvents
<1> HIDE DEF r, n
<1>2. n \in DOMAIN r /\ OnAt(r, n) /\ \A j \in DOMAIN r : ~(j > n)
  BY <1>0, <1>1
<1>3. ~Sessionless(r)
  BY <1>2 DEF Sessionless, OnAt
<1>4. ASSUME NEW i \in DOMAIN r, NEW j \in DOMAIN r, i < j, OutAt(r, i), OutAt(r, j)
      PROVE  \E k \in DOMAIN r : i < k /\ k < j /\ OnAt(r, k)
  <2>1. i \in DOMAIN q /\ j \in DOMAIN q /\ OutAt(q, i) /\ OutAt(q, j)
    BY <1>0, <1>4
  <2>2. PICK k \in DOMAIN q : i < k /\ k < j /\ OnAt(q, k)
    BY <1>4, <2>1 DEF ChannelOK
  <2> QED BY <1>0, <2>2
<1>5. ASSUME NEW j \in DOMAIN r, OutAt(r, j) PROVE known \/ \E k \in DOMAIN r : k < j /\ OnAt(r, k)
  <2>1. j \in DOMAIN q /\ OutAt(q, j)
    BY <1>0, <1>5
  <2> QED BY <1>0, <2>1 DEF ChannelOK
<1> QED BY <1>2, <1>3, <1>4, <1>5 DEF ChannelOK, r

LEMMA ChannelOut ==
  ASSUME NEW q \in Seq(Events), NEW e \in Events, e.kind = "LoggedOut", NEW known \in BOOLEAN, ChannelOK(q, TRUE, known)
  PROVE  ChannelOK(Append(q, e), FALSE, known)
<1> DEFINE r == Append(q, e)
           n == Len(q) + 1
<1>0. /\ DOMAIN r = DOMAIN q \cup {n} /\ \A i \in DOMAIN q : i < n
      /\ \A i \in DOMAIN q : (OnAt(r, i) <=> OnAt(q, i)) /\ (OutAt(r, i) <=> OutAt(q, i))
      /\ ~OnAt(r, n) /\ OutAt(r, n)
  BY AppendEvents
<1>1. n \in Nat /\ \A i \in DOMAIN q : i \in Nat
  BY AppendEvents
<1> HIDE DEF r, n
<1>2. ASSUME NEW i \in DOMAIN r, NEW j \in DOMAIN r, i < j, OutAt(r, i), OutAt(r, j)
      PROVE  \E k \in DOMAIN r : i < k /\ k < j /\ OnAt(r, k)
  <2>1. i \in DOMAIN q /\ OutAt(q, i)
    BY <1>0, <1>1, <1>2
  <2>2. CASE j = n
    <3>1. ~Sessionless(q)
      BY <2>1 DEF OutAt, Sessionless
    <3>2. PICK k \in DOMAIN q : OnAt(q, k) /\ \A l \in DOMAIN q : l > k => q[l].kind = "Request"
      BY <3>1 DEF ChannelOK
    <3>3. i < k
      BY <1>1, <2>1, <3>2 DEF OnAt, OutAt
    <3> QED BY <1>0, <2>2, <3>2, <3>3
  <2>3. CASE j # n
    <3>1. j \in DOMAIN q /\ OutAt(q, j)
      BY <1>0, <1>2, <2>3
    <3>2. PICK k \in DOMAIN q : i < k /\ k < j /\ OnAt(q, k)
      BY <1>2, <2>1, <3>1 DEF ChannelOK
    <3> QED BY <1>0, <3>2
  <2> QED BY <2>2, <2>3
<1>3. ASSUME NEW j \in DOMAIN r, OutAt(r, j) PROVE known \/ \E k \in DOMAIN r : k < j /\ OnAt(r, k)
  <2>1. CASE j = n
    <3>1. CASE Sessionless(q)
      BY <3>1 DEF ChannelOK
    <3>2. CASE ~Sessionless(q)
      BY <1>0, <2>1, <3>2 DEF ChannelOK
    <3> QED BY <3>1, <3>2
  <2>2. CASE j # n
    <3>1. j \in DOMAIN q /\ OutAt(q, j)
      BY <1>0, <1>3, <2>2
    <3> QED BY <1>0, <3>1 DEF ChannelOK
  <2> QED BY <2>1, <2>2
<1> QED BY <1>2, <1>3 DEF ChannelOK, r

LEMMA ChannelRequest ==
  ASSUME NEW q \in Seq(Events), NEW e \in Events, e.kind = "Request", NEW up \in BOOLEAN, NEW known \in BOOLEAN,
         ChannelOK(q, up, known)
  PROVE  ChannelOK(Append(q, e), up, known) /\ (Sessionless(Append(q, e)) <=> Sessionless(q))
<1> DEFINE r == Append(q, e)
           n == Len(q) + 1
<1>0. /\ DOMAIN r = DOMAIN q \cup {n} /\ \A i \in DOMAIN q : i < n /\ r[i] = q[i]
      /\ \A i \in DOMAIN q : (OnAt(r, i) <=> OnAt(q, i)) /\ (OutAt(r, i) <=> OutAt(q, i))
      /\ ~OnAt(r, n) /\ ~OutAt(r, n) /\ r[n].kind = "Request"
  BY AppendEvents
<1> HIDE DEF r, n
<1>1. Sessionless(r) <=> Sessionless(q)
  BY <1>0 DEF Sessionless
<1>2. ASSUME up, ~Sessionless(r)
      PROVE  \E i \in DOMAIN r : OnAt(r, i) /\ \A j \in DOMAIN r : j > i => r[j].kind = "Request"
  <2>1. PICK i \in DOMAIN q : OnAt(q, i) /\ \A j \in DOMAIN q : j > i => q[j].kind = "Request"
    BY <1>1, <1>2 DEF ChannelOK
  <2> QED BY <1>0, <2>1
<1>3. ASSUME NEW i \in DOMAIN r, NEW j \in DOMAIN r, i < j, OutAt(r, i), OutAt(r, j)
      PROVE  \E k \in DOMAIN r : i < k /\ k < j /\ OnAt(r, k)
  <2>1. i \in DOMAIN q /\ j \in DOMAIN q /\ OutAt(q, i) /\ OutAt(q, j)
    BY <1>0, <1>3
  <2>2. PICK k \in DOMAIN q : i < k /\ k < j /\ OnAt(q, k)
    BY <1>3, <2>1 DEF ChannelOK
  <2> QED BY <1>0, <2>2
<1>4. ASSUME NEW j \in DOMAIN r, OutAt(r, j) PROVE known \/ \E k \in DOMAIN r : k < j /\ OnAt(r, k)
  <2>1. j \in DOMAIN q /\ OutAt(q, j)
    BY <1>0, <1>4
  <2> QED BY <1>0, <2>1 DEF ChannelOK
<1> QED BY <1>1, <1>2, <1>3, <1>4 DEF ChannelOK, r

LEMMA FixInitInv == FixRequestsInit => FixTypeOK /\ SessionInv /\ RequestsInv
<1> SUFFICES ASSUME FixRequestsInit PROVE FixTypeOK /\ SessionInv /\ RequestsInv
  OBVIOUS
<1>1. /\ inbound \in [1..(MaxRestarts + 1) -> Seq(Events)] /\ tasks \in Seq(Tasks) /\ DOMAIN tasks = {}
      /\ acceptor = 1 /\ 1 \in 1..(MaxRestarts + 1)
      /\ \A a \in DOMAIN inbound : inbound[a] = <<>> /\ DOMAIN inbound[a] = {}
  <2>1. <<>> \in Seq(Events) /\ <<>> \in Seq(Tasks) /\ DOMAIN <<>> = {}
    OBVIOUS
  <2>2. MaxRestarts \in Nat
    BY FixRequestsAssumption
  <2> QED BY <2>1, <2>2 DEF FixRequestsInit
<1>2. FixTypeOK
  <2>1. rows \in [ClOrdIds -> Rows] /\ placing \in [ClOrdIds -> Nat]
    BY DEF FixRequestsInit, NoRow, Rows
  <2> QED BY <1>1, <2>1 DEF FixTypeOK, FixRequestsInit
<1>3. SessionInv
  BY <1>1 DEF FixRequestsInit, SessionInv, ChannelOK, StoppedOK
<1>4. InboundOK /\ PlacingOK /\ BehindOK
  BY <1>1 DEF InboundOK, PlacingOK, BehindOK, FixRequestsInit
<1>5. StoredOK /\ ToldOK /\ KindsOK
  BY <1>1 DEF StoredOK, ToldOK, KindsOK, FixRequestsInit, NoRow
<1> QED BY <1>1, <1>2, <1>3, <1>4, <1>5 DEF RequestsInv

\* An event more in the running acceptor's channel.
LEMMA InformIs ==
  ASSUME FixTypeOK, NEW e \in Events, Inform(e)
  PROVE  /\ inbound' \in [1..(MaxRestarts + 1) -> Seq(Events)] /\ DOMAIN inbound' = DOMAIN inbound
         /\ acceptor \in DOMAIN inbound /\ inbound[acceptor] \in Seq(Events)
         /\ inbound'[acceptor] = Append(inbound[acceptor], e)
         /\ \A a \in DOMAIN inbound : a # acceptor => inbound'[a] = inbound[a]
<1>1. /\ inbound \in [1..(MaxRestarts + 1) -> Seq(Events)] /\ acceptor \in 1..(MaxRestarts + 1)
      /\ inbound' = [inbound EXCEPT ![acceptor] = Append(@, e)]
  BY DEF FixTypeOK, Inform
<1>2. inbound[acceptor] \in Seq(Events)
  BY <1>1
<1>3. Append(inbound[acceptor], e) \in Seq(Events)
  BY <1>2
<1> QED BY <1>1, <1>2, <1>3

\* The first event gone from a channel.
LEMMA TakenIs ==
  ASSUME FixTypeOK, NEW a \in DOMAIN inbound, inbound[a] # <<>>, inbound' = [inbound EXCEPT ![a] = Tail(@)]
  PROVE  /\ inbound' \in [1..(MaxRestarts + 1) -> Seq(Events)] /\ DOMAIN inbound' = DOMAIN inbound
         /\ inbound[a] \in Seq(Events) /\ inbound'[a] = Tail(inbound[a]) /\ a \in 1..(MaxRestarts + 1)
         /\ \A b \in DOMAIN inbound : b # a => inbound'[b] = inbound[b]
<1>1. inbound \in [1..(MaxRestarts + 1) -> Seq(Events)]
  BY DEF FixTypeOK
<1>2. inbound[a] \in Seq(Events)
  BY <1>1
<1>3. Tail(inbound[a]) \in Seq(Events)
  BY <1>2
<1> QED BY <1>1, <1>2, <1>3

\* The callbacks of the running acceptor: a logon of a session the core does not
\* know, the end of one, a request.
LEMMA CallbackKeepsSession ==
  ASSUME FixTypeOK, SessionInv, NEW e \in Events, Inform(e), UNCHANGED <<acceptor, registered, unheard>>,
         \/ e.kind = "LoggedOn" /\ ~line.up /\ line'.up /\ ~registered
         \/ e.kind = "LoggedOut" /\ line.up /\ ~line'.up
         \/ e.kind = "Request" /\ line' = line,
         line'.up \in BOOLEAN
  PROVE  SessionInv'
<1> SUFFICES ASSUME ~unheard' PROVE ChannelOK(inbound[acceptor], line.up, registered)' /\ StoppedOK'
  BY DEF SessionInv
<1>0. /\ ChannelOK(inbound[acceptor], line.up, registered) /\ StoppedOK
      /\ registered \in BOOLEAN /\ line.up \in BOOLEAN
  BY DEF SessionInv, FixTypeOK
<1>1. /\ inbound'[acceptor] = Append(inbound[acceptor], e) /\ inbound[acceptor] \in Seq(Events)
      /\ DOMAIN inbound' = DOMAIN inbound /\ acceptor \in DOMAIN inbound
      /\ \A a \in DOMAIN inbound : a # acceptor => inbound'[a] = inbound[a]
  BY InformIs
<1>2. acceptor \in Nat /\ \A a \in DOMAIN inbound : a \in Nat
  BY DEF FixTypeOK
<1>3. ChannelOK(inbound[acceptor], line.up, registered)'
  <2>1. CASE e.kind = "LoggedOn" /\ ~line.up /\ line'.up
    <3>1. line.up = FALSE /\ line'.up = TRUE
      BY <1>0, <2>1
    <3>2. ChannelOK(inbound[acceptor], FALSE, registered)
      BY <1>0, <3>1
    <3>3. ChannelOK(Append(inbound[acceptor], e), TRUE, registered)
      BY <1>0, <1>1, <2>1, <3>2, ChannelOn
    <3> QED BY <1>1, <3>1, <3>3
  <2>2. CASE e.kind = "LoggedOut" /\ line.up /\ ~line'.up
    <3>1. line.up = TRUE /\ line'.up = FALSE
      BY <1>0, <2>2
    <3>2. ChannelOK(inbound[acceptor], TRUE, registered)
      BY <1>0, <3>1
    <3>3. ChannelOK(Append(inbound[acceptor], e), FALSE, registered)
      BY <1>0, <1>1, <2>2, <3>2, ChannelOut
    <3> QED BY <1>1, <3>1, <3>3
  <2>3. CASE e.kind = "Request" /\ line' = line
    <3>1. ChannelOK(Append(inbound[acceptor], e), line.up, registered)
      BY <1>0, <1>1, <2>3, ChannelRequest
    <3> QED BY <1>1, <2>3, <3>1
  <2> QED BY <2>1, <2>2, <2>3
<1>4. ASSUME NEW a \in DOMAIN inbound, a < acceptor, NEW i \in DOMAIN inbound[a], OutAt(inbound[a], i)
      PROVE  ~line'.up /\ Sessionless(inbound'[acceptor])
  <2>1. registered /\ ~line.up /\ Sessionless(inbound[acceptor])
    BY <1>0, <1>4 DEF StoppedOK
  <2>2. e.kind = "Request" /\ line' = line
    BY <2>1
  <2>3. Sessionless(Append(inbound[acceptor], e))
    <3>1. /\ DOMAIN Append(inbound[acceptor], e) = DOMAIN inbound[acceptor] \cup {Len(inbound[acceptor]) + 1}
          /\ \A j \in DOMAIN inbound[acceptor] : Append(inbound[acceptor], e)[j] = inbound[acceptor][j]
          /\ Append(inbound[acceptor], e)[Len(inbound[acceptor]) + 1] = e
      BY <1>1, AppendEvents
    <3> QED BY <2>1, <2>2, <3>1 DEF Sessionless
  <2> QED BY <1>1, <2>1, <2>2, <2>3
<1>5. \A a \in DOMAIN inbound : a < acceptor => inbound'[a] = inbound[a]
  BY <1>1, <1>2
<1>6. StoppedOK'
  <2>1. \A a \in DOMAIN inbound' : a < acceptor' => \A i \in DOMAIN inbound'[a] : ~OnAt(inbound'[a], i)
    BY <1>0, <1>1, <1>5 DEF StoppedOK
  <2>2. \A a, b \in DOMAIN inbound' : a < acceptor' /\ b < acceptor' =>
           \A i \in DOMAIN inbound'[a], j \in DOMAIN inbound'[b] :
              OutAt(inbound'[a], i) /\ OutAt(inbound'[b], j) => a = b /\ i = j
    BY <1>0, <1>1, <1>5 DEF StoppedOK
  <2>3. \A a \in DOMAIN inbound' : a < acceptor' => \A i \in DOMAIN inbound'[a] :
           OutAt(inbound'[a], i) => registered' /\ ~line'.up /\ Sessionless(inbound'[acceptor'])
    BY <1>0, <1>1, <1>4, <1>5 DEF StoppedOK
  <2> QED BY <2>1, <2>2, <2>3 DEF StoppedOK
<1> QED BY <1>3, <1>6

\* The acceptor is stopped; the next one has an empty channel.
LEMMA RestartKeepsSession ==
  ASSUME FixTypeOK, SessionInv, Restart, acceptor' \in 1..(MaxRestarts + 1)
  PROVE  SessionInv'
<1> SUFFICES ASSUME ~unheard' PROVE ChannelOK(inbound[acceptor], line.up, registered)' /\ StoppedOK'
  BY DEF SessionInv
<1>0. /\ ~unheard /\ \A a \in DOMAIN inbound : \A i \in DOMAIN inbound[a] : inbound[a][i].kind # "LoggedOn"
      /\ registered' = registered /\ acceptor' = acceptor + 1 /\ line' = [line EXCEPT !.up = FALSE]
  BY DEF Restart, FixTypeOK
<1>1. /\ ChannelOK(inbound[acceptor], line.up, registered) /\ StoppedOK
      /\ registered \in BOOLEAN /\ line.up \in BOOLEAN /\ line'.up = FALSE
      /\ acceptor \in Nat /\ DOMAIN inbound = 1..(MaxRestarts + 1)
      /\ inbound \in [1..(MaxRestarts + 1) -> Seq(Events)]
      /\ inbound[acceptor + 1] = <<>> /\ acceptor \in DOMAIN inbound /\ acceptor + 1 \in DOMAIN inbound
      /\ \A a \in DOMAIN inbound : a \in Nat
  BY <1>0 DEF SessionInv, FixTypeOK
<1>2. PICK q \in Seq(Events) : q = inbound[acceptor]
  BY <1>1
<1>3. PICK out \in Events : out = [kind |-> "LoggedOut", task |-> 0]
  BY DEF Events
<1>4. /\ inbound' = IF line.up THEN [inbound EXCEPT ![acceptor] = Append(@, out)] ELSE inbound
      /\ DOMAIN inbound' = DOMAIN inbound
      /\ \A a \in DOMAIN inbound : a # acceptor => inbound'[a] = inbound[a]
      /\ inbound'[acceptor] = IF line.up THEN Append(q, out) ELSE q
  BY <1>1, <1>2, <1>3 DEF Restart, Inform
<1>5. inbound'[acceptor'] = <<>>
  BY <1>0, <1>1, <1>4
<1>6. ChannelOK(inbound[acceptor], line.up, registered)' /\ Sessionless(inbound'[acceptor'])
  BY <1>1, <1>5 DEF ChannelOK, Sessionless
<1>7. \A i \in DOMAIN q : q[i].kind # "LoggedOn" /\ ~OnAt(q, i)
  BY <1>0, <1>1, <1>2 DEF OnAt
<1>8. /\ \A i \in DOMAIN q : OutAt(q, i) => registered
      /\ \A i, j \in DOMAIN q : OutAt(q, i) /\ OutAt(q, j) => i = j
  <2>1. \A i, j \in DOMAIN q : i \in Nat /\ j \in Nat /\ ~(i < j /\ OutAt(q, i) /\ OutAt(q, j))
    <3>1. DOMAIN q = 1..Len(q) /\ Len(q) \in Nat
      OBVIOUS
    <3> QED BY <1>1, <1>2, <1>7, <3>1 DEF ChannelOK
  <2>2. \A i \in DOMAIN q : OutAt(q, i) => registered
    BY <1>1, <1>2, <1>7 DEF ChannelOK
  <2>3. \A i, j \in DOMAIN q : OutAt(q, i) /\ OutAt(q, j) => i = j
    BY <2>1
  <2> QED BY <2>2, <2>3
<1>9. PICK r \in Seq(Events) : r = inbound'[acceptor]
  <2>1. Append(q, out) \in Seq(Events)
    BY <1>2, <1>3
  <2>2. inbound'[acceptor] \in Seq(Events)
    BY <1>2, <1>4, <2>1
  <2> QED BY <2>2
<1>10. /\ \A i \in DOMAIN r : ~OnAt(r, i)
       /\ \A i, j \in DOMAIN r : OutAt(r, i) /\ OutAt(r, j) => i = j
       /\ \A i \in DOMAIN r : OutAt(r, i) => registered
       /\ line.up => Sessionless(q)
  <2>1. CASE ~line.up
    BY <1>4, <1>7, <1>8, <1>9, <2>1
  <2>2. CASE line.up
    <3>1. Sessionless(q) /\ registered
      BY <1>1, <1>2, <1>7, <2>2 DEF ChannelOK
    <3>2. \A i \in DOMAIN q : ~OutAt(q, i)
      BY <3>1 DEF Sessionless, OutAt
    <3>3. /\ DOMAIN r = DOMAIN q \cup {Len(q) + 1}
          /\ \A i \in DOMAIN q : (OnAt(r, i) <=> OnAt(q, i)) /\ (OutAt(r, i) <=> OutAt(q, i))
          /\ ~OnAt(r, Len(q) + 1)
      BY <1>3, <1>4, <1>9, <2>2, AppendEvents
    <3> QED BY <1>7, <3>1, <3>2, <3>3
  <2> QED BY <2>1, <2>2
<1>11. ASSUME NEW a \in DOMAIN inbound, a < acceptor, NEW i \in DOMAIN inbound[a], OutAt(inbound[a], i)
       PROVE  registered /\ \A j \in DOMAIN r : ~OutAt(r, j)
  <2>1. registered /\ ~line.up /\ Sessionless(q)
    BY <1>1, <1>2, <1>11 DEF StoppedOK
  <2>2. r = q
    BY <1>4, <1>9, <2>1
  <2> QED BY <2>1, <2>2 DEF Sessionless, OutAt
<1>12. \A a \in DOMAIN inbound : a < acceptor' => a = acceptor \/ (a < acceptor /\ inbound'[a] = inbound[a])
  BY <1>0, <1>1, <1>4
<1>13. StoppedOK'
  <2>1. \A a \in DOMAIN inbound' : a < acceptor' => \A i \in DOMAIN inbound'[a] : ~OnAt(inbound'[a], i)
    BY <1>1, <1>4, <1>9, <1>10, <1>12 DEF StoppedOK
  <2>2. ASSUME NEW a \in DOMAIN inbound, NEW b \in DOMAIN inbound, a < acceptor', b < acceptor',
               NEW i \in DOMAIN inbound'[a], NEW j \in DOMAIN inbound'[b], OutAt(inbound'[a], i), OutAt(inbound'[b], j)
        PROVE  a = b /\ i = j
    <3>1. CASE a = acceptor /\ b = acceptor
      BY <1>9, <1>10, <2>2, <3>1
    <3>2. CASE a = acceptor /\ b # acceptor
      BY <1>9, <1>11, <1>12, <2>2, <3>2
    <3>3. CASE a # acceptor /\ b = acceptor
      BY <1>9, <1>11, <1>12, <2>2, <3>3
    <3>4. CASE a # acceptor /\ b # acceptor
      BY <1>1, <1>12, <2>2, <3>4 DEF StoppedOK
    <3> QED BY <3>1, <3>2, <3>3, <3>4
  <2>3. \A a \in DOMAIN inbound' : a < acceptor' => \A i \in DOMAIN inbound'[a] : OutAt(inbound'[a], i) => registered'
    BY <1>0, <1>4, <1>9, <1>10, <1>11, <1>12
  <2> QED BY <1>1, <1>4, <1>6, <2>1, <2>2, <2>3 DEF StoppedOK
<1> QED BY <1>6, <1>13

\* What the loop makes of the first event of a channel.
LEMMA LoopTakes ==
  ASSUME FixTypeOK, NEW a \in DOMAIN inbound, RunLoop(a)
  PROVE  /\ inbound[a] # <<>> /\ inbound' = [inbound EXCEPT ![a] = Tail(@)] /\ registered' \in BOOLEAN
         /\ inbound[a] \in Seq(Events) /\ inbound[a][1] \in Events /\ 1 \in DOMAIN inbound[a]
         /\ UNCHANGED <<line, acceptor, unheard, rows, told, dbFaults>>
         /\ inbound[a][1].kind = "LoggedOn" => registered' = TRUE
         /\ inbound[a][1].kind = "LoggedOut" => registered' = FALSE
         /\ inbound[a][1].kind = "Request" => registered' = registered
<1>1. inbound[a] # <<>> /\ inbound' = [inbound EXCEPT ![a] = Tail(@)] /\ inbound[a] \in Seq(Events)
  BY DEF RunLoop, FixTypeOK
<1>2. Head(inbound[a]) = inbound[a][1] /\ inbound[a][1] \in Events /\ 1 \in DOMAIN inbound[a]
  <2>1. /\ Head(inbound[a]) = inbound[a][1] /\ Head(inbound[a]) \in Events /\ Len(inbound[a]) \in Nat
        /\ Len(inbound[a]) >= 1 /\ DOMAIN inbound[a] = 1..Len(inbound[a])
    BY <1>1, TailIs
  <2> QED BY <2>1
<1>3. registered \in BOOLEAN
  BY DEF FixTypeOK
<1> QED BY <1>1, <1>2, <1>3 DEF RunLoop

LEMMA LoopKeepsSession ==
  ASSUME FixTypeOK, SessionInv, NEW a \in DOMAIN inbound, RunLoop(a)
  PROVE  SessionInv'
<1>0. /\ inbound[a] # <<>> /\ inbound' = [inbound EXCEPT ![a] = Tail(@)] /\ registered' \in BOOLEAN
      /\ inbound[a] \in Seq(Events) /\ inbound[a][1] \in Events /\ 1 \in DOMAIN inbound[a]
      /\ UNCHANGED <<line, acceptor, unheard>>
      /\ inbound[a][1].kind = "LoggedOn" => registered' = TRUE
      /\ inbound[a][1].kind = "LoggedOut" => registered' = FALSE
      /\ inbound[a][1].kind = "Request" => registered' = registered
  BY LoopTakes
<1> SUFFICES ASSUME ~unheard' PROVE ChannelOK(inbound[acceptor], line.up, registered)' /\ StoppedOK'
  BY DEF SessionInv
<1>1. /\ ChannelOK(inbound[acceptor], line.up, registered) /\ StoppedOK
      /\ registered \in BOOLEAN /\ line.up \in BOOLEAN
      /\ acceptor \in DOMAIN inbound /\ \A b \in DOMAIN inbound : b \in Nat
      /\ \A b \in DOMAIN inbound : b > acceptor => inbound[b] = <<>>
  BY <1>0 DEF SessionInv, FixTypeOK
<1>2. /\ DOMAIN inbound' = DOMAIN inbound /\ inbound'[a] = Tail(inbound[a])
      /\ \A b \in DOMAIN inbound : b # a => inbound'[b] = inbound[b]
  BY <1>0, TakenIs
<1>3. PICK q \in Seq(Events) : q = inbound[a]
  BY <1>0
<1>4. /\ DOMAIN Tail(q) = 1..(Len(q) - 1) /\ DOMAIN q = 1..Len(q) /\ Len(q) \in Nat
      /\ \A i \in 1..(Len(q) - 1) : Tail(q)[i] = q[i + 1]
  BY <1>0, <1>3, TailIs
<1>5. \A i \in DOMAIN Tail(q) : /\ i + 1 \in DOMAIN q /\ i + 1 # 1 /\ Tail(q)[i] = q[i + 1] /\ i \in Nat
                                /\ (OnAt(Tail(q), i) <=> OnAt(q, i + 1)) /\ (OutAt(Tail(q), i) <=> OutAt(q, i + 1))
  BY <1>4 DEF OnAt, OutAt
\* A place in a channel was a place there before, and not that of the event read.
<1> DEFINE Was(b, i) == IF b = a THEN i + 1 ELSE i
<1>6. \A b \in DOMAIN inbound' : \A i \in DOMAIN inbound'[b] :
         /\ Was(b, i) \in DOMAIN inbound[b] /\ ~(b = a /\ Was(b, i) = 1)
         /\ (OnAt(inbound'[b], i) <=> OnAt(inbound[b], Was(b, i)))
         /\ (OutAt(inbound'[b], i) <=> OutAt(inbound[b], Was(b, i)))
  <2>1. ASSUME NEW b \in DOMAIN inbound', NEW i \in DOMAIN inbound'[b]
        PROVE  /\ Was(b, i) \in DOMAIN inbound[b] /\ ~(b = a /\ Was(b, i) = 1)
               /\ (OnAt(inbound'[b], i) <=> OnAt(inbound[b], Was(b, i)))
               /\ (OutAt(inbound'[b], i) <=> OutAt(inbound[b], Was(b, i)))
    <3>1. CASE b = a
      <4>1. inbound'[b] = Tail(q) /\ inbound[b] = q /\ Was(b, i) = i + 1 /\ i \in DOMAIN Tail(q)
        BY <1>2, <1>3, <3>1
      <4> QED BY <1>5, <4>1
    <3>2. CASE b # a
      BY <1>2, <2>1, <3>2
    <3> QED BY <3>1, <3>2
  <2> QED BY <2>1
<1>7. \A b \in DOMAIN inbound' : \A i, j \in DOMAIN inbound'[b] : Was(b, i) = Was(b, j) => i = j
  <2>1. ASSUME NEW b \in DOMAIN inbound', NEW i \in DOMAIN inbound'[b], NEW j \in DOMAIN inbound'[b],
               Was(b, i) = Was(b, j)
        PROVE  i = j
    <3>1. CASE b = a
      <4>1. i \in Nat /\ j \in Nat /\ i + 1 = j + 1
        BY <1>2, <1>3, <1>5, <2>1, <3>1
      <4> QED BY <4>1
    <3>2. CASE b # a
      BY <2>1, <3>2
    <3> QED BY <3>1, <3>2
  <2> QED BY <2>1
<1> HIDE DEF Was
<1>8. /\ \A b \in DOMAIN inbound' : b < acceptor => \A i \in DOMAIN inbound'[b] : ~OnAt(inbound'[b], i)
      /\ \A b, c \in DOMAIN inbound' : b < acceptor /\ c < acceptor =>
            \A i \in DOMAIN inbound'[b], j \in DOMAIN inbound'[c] :
               OutAt(inbound'[b], i) /\ OutAt(inbound'[c], j) => b = c /\ i = j
  BY <1>1, <1>2, <1>6, <1>7 DEF StoppedOK
<1>9. CASE a = acceptor
  <2>1. ChannelOK(Tail(q), line.up, registered')
    BY <1>0, <1>1, <1>3, <1>9, ChannelTail
  <2>2. ASSUME NEW b \in DOMAIN inbound', b < acceptor, NEW i \in DOMAIN inbound'[b], OutAt(inbound'[b], i)
        PROVE  registered' /\ ~line.up /\ Sessionless(inbound'[acceptor])
    <3>1. b # a
      BY <1>1, <1>9, <2>2
    <3>2. OutAt(inbound[b], i) /\ i \in DOMAIN inbound[b]
      BY <1>2, <2>2, <3>1
    <3>3. registered /\ ~line.up /\ Sessionless(q)
      BY <1>1, <1>2, <1>3, <1>9, <2>2, <3>2 DEF StoppedOK
    <3>4. registered' = registered
      BY <1>0, <1>3, <3>3 DEF Sessionless
    <3>5. Sessionless(Tail(q))
      BY <1>5, <3>3 DEF Sessionless
    <3> QED BY <1>2, <1>3, <1>9, <3>3, <3>4, <3>5
  <2> QED BY <1>0, <1>2, <1>3, <1>8, <1>9, <2>1, <2>2 DEF StoppedOK
<1>10. CASE a # acceptor
  <2>1. a < acceptor
    BY <1>0, <1>1, <1>10
  <2>2. inbound'[acceptor] = inbound[acceptor]
    BY <1>1, <1>2, <1>10
  <2>3. CASE inbound[a][1].kind = "Request"
    <3>1. registered' = registered
      BY <1>0, <2>3
    <3>2. ASSUME NEW b \in DOMAIN inbound', b < acceptor, NEW i \in DOMAIN inbound'[b], OutAt(inbound'[b], i)
          PROVE  registered' /\ ~line.up /\ Sessionless(inbound'[acceptor])
      BY <1>1, <1>2, <1>6, <2>2, <3>1, <3>2 DEF StoppedOK
    <3> QED BY <1>0, <1>1, <1>2, <1>8, <2>2, <3>1, <3>2 DEF StoppedOK
  <2>4. CASE inbound[a][1].kind = "LoggedOut"
    <3>1. OutAt(inbound[a], 1)
      BY <1>0, <2>4 DEF OutAt
    <3>2. ~line.up /\ Sessionless(inbound[acceptor])
      BY <1>0, <1>1, <2>1, <3>1 DEF StoppedOK
    <3>3. ChannelOK(inbound[acceptor], line.up, registered')
      BY <3>2 DEF ChannelOK, Sessionless, OutAt
    <3>4. ASSUME NEW b \in DOMAIN inbound', b < acceptor, NEW i \in DOMAIN inbound'[b] PROVE ~OutAt(inbound'[b], i)
      BY <1>0, <1>1, <1>2, <1>6, <2>1, <3>1, <3>4 DEF StoppedOK
    <3> QED BY <1>0, <1>2, <1>8, <2>2, <3>3, <3>4 DEF StoppedOK
  <2>5. CASE inbound[a][1].kind = "LoggedOn"
    <3>1. OnAt(inbound[a], 1)
      BY <1>0, <2>5 DEF OnAt
    <3> QED BY <1>0, <1>1, <2>1, <3>1 DEF StoppedOK
  <2>6. inbound[a][1].kind \in {"LoggedOn", "LoggedOut", "Request"}
    BY <1>0 DEF Events
  <2> QED BY <2>3, <2>4, <2>5, <2>6
<1> QED BY <1>9, <1>10

-----------------------------------------------------------------------------
(* FIX requests: the tasks                                                    *)

TaskStep(n) == \/ Wait(n) \/ Woken(n) \/ LookFails(n) \/ HandleNewOrder(n) \/ Store(n) \/ Route(n)
               \/ CheckStored(n) \/ HandleCancel(n) \/ HandleStatus(n) \/ HandleSecurityList(n)

\* The same request, as step pc of its task leaves it.
SameRequest(t, s) == t.request = s.request /\ t.id = s.id /\ t.logon = s.logon

\* What a step of a task may do: where it goes from where, and what it makes of
\* the locks, the rows and the answers.
GoesOn(n, t) ==
    /\ tasks[n].pc \in {"started", "wait", "look", "submit", "route", "check"}
    /\ t.pc \in {"wait", "look", "submit", "route", "check", "done"}
    /\ t.pc = "wait" => tasks[n].pc = "started" /\ t.lock = placing[t.id] /\ t.lock # 0
    /\ t.pc = "look" => \/ tasks[n].pc = "started" /\ placing[t.id] = 0
                        \/ tasks[n].pc = "wait" /\ ~Held(tasks[n].lock)
    /\ t.pc = "submit" => tasks[n].pc = "look" /\ t.request = "NewOrder" /\ rows[t.id].status = "none" /\ rows' = rows
    /\ t.pc = "route" => tasks[n].pc = "submit" /\ rows'[t.id].by = n
    /\ t.pc = "check" => tasks[n].pc \in {"submit", "route"}
    /\ t.pc = "done" => tasks[n].pc \in {"look", "route", "check"}
    /\ t.unknown => \/ tasks[n].unknown
                    \/ t.pc = "done" /\ t.request \in Names /\ rows[t.id].status = "none" /\ rows' = rows

RowsKept == rows' \in [ClOrdIds -> Rows] /\ \A c \in ClOrdIds :
    rows'[c].by = rows[c].by /\ (rows'[c].status = "none" <=> rows[c].status = "none")
RowStored(n, t) == tasks[n].pc = "submit" /\ rows[t.id].status = "none" /\ t.pc \in {"route", "check"}
                   /\ \E status \in {"rejected", "submitted"} : rows' = [rows EXCEPT ![t.id] = [by |-> n, status |-> status]]

ToldBy(n, t) == /\ told \subseteq told' /\ \A r \in told' \ told : r.task = n
                /\ t.pc # "done" => told' = told

TaskMoved(n, t) ==
    /\ tasks' = [tasks EXCEPT ![n] = t] /\ SameRequest(t, tasks[n]) /\ GoesOn(n, t)
    /\ UNCHANGED <<line, acceptor, inbound, registered, unheard>>
    /\ placing' = IF t.pc = "done" /\ t.request = "NewOrder" THEN [placing EXCEPT ![t.id] = 0] ELSE placing
    /\ RowsKept \/ RowStored(n, t)
    /\ ToldBy(n, t)

LEMMA TasksAre ==
  ASSUME FixTypeOK
  PROVE  /\ tasks \in Seq(Tasks) /\ Len(tasks) \in Nat /\ DOMAIN tasks = 1..Len(tasks)
         /\ \A n \in DOMAIN tasks : tasks[n] \in Tasks /\ n \in Nat /\ n # 0
         /\ placing \in [ClOrdIds -> Nat] /\ rows \in [ClOrdIds -> Rows]
<1>1. tasks \in Seq(Tasks)
  BY DEF FixTypeOK
<1>2. /\ Len(tasks) \in Nat /\ DOMAIN tasks = 1..Len(tasks)
      /\ \A n \in DOMAIN tasks : tasks[n] \in Tasks
  BY <1>1
<1> QED BY <1>1, <1>2 DEF FixTypeOK

\* The ways a step writes its task.
LEMMA MovedIs ==
  ASSUME FixTypeOK, NEW n \in DOMAIN tasks, NEW pc \in TaskSteps, Moved(n, pc)
  PROVE  \E t \in Tasks : /\ tasks' = [tasks EXCEPT ![n] = t] /\ SameRequest(t, tasks[n]) /\ t.pc = pc
                          /\ t.lock = tasks[n].lock /\ t.unknown = tasks[n].unknown /\ t.fault = tasks[n].fault
<1>1. tasks[n] \in Tasks
  BY TasksAre
<1>2. PICK t : t = [tasks[n] EXCEPT !.pc = pc]
  OBVIOUS
<1>3. /\ t \in Tasks /\ SameRequest(t, tasks[n]) /\ t.pc = pc /\ t.lock = tasks[n].lock
      /\ t.unknown = tasks[n].unknown /\ t.fault = tasks[n].fault
  BY <1>1, <1>2 DEF Tasks, SameRequest
<1>4. tasks' = [tasks EXCEPT ![n] = t]
  BY <1>2 DEF Moved
<1> QED BY <1>3, <1>4

LEMMA FaultIs ==
  ASSUME FixTypeOK, NEW n \in DOMAIN tasks, tasks' = [tasks EXCEPT ![n].pc = "done", ![n].fault = TRUE]
  PROVE  \E t \in Tasks : /\ tasks' = [tasks EXCEPT ![n] = t] /\ SameRequest(t, tasks[n]) /\ t.pc = "done"
                          /\ t.unknown = tasks[n].unknown /\ t.fault
<1>1. tasks[n] \in Tasks
  BY TasksAre
<1>2. PICK t : t = [tasks[n] EXCEPT !.pc = "done", !.fault = TRUE]
  OBVIOUS
<1>3. /\ t \in Tasks /\ SameRequest(t, tasks[n]) /\ t.pc = "done" /\ t.unknown = tasks[n].unknown /\ t.fault
  BY <1>1, <1>2 DEF Tasks, SameRequest, TaskSteps
<1>4. tasks' = [tasks EXCEPT ![n] = t]
  <2>1. tasks \in [DOMAIN tasks -> Tasks]
    BY TasksAre
  <2> QED BY <1>1, <1>2, <2>1 DEF Tasks
<1> QED BY <1>3, <1>4

LEMMA UnknownIs ==
  ASSUME FixTypeOK, NEW n \in DOMAIN tasks, NEW unknown \in BOOLEAN,
         tasks' = [tasks EXCEPT ![n].pc = "done", ![n].unknown = unknown]
  PROVE  \E t \in Tasks : /\ tasks' = [tasks EXCEPT ![n] = t] /\ SameRequest(t, tasks[n]) /\ t.pc = "done"
                          /\ t.unknown = unknown
<1>1. tasks[n] \in Tasks
  BY TasksAre
<1>2. PICK t : t = [tasks[n] EXCEPT !.pc = "done", !.unknown = unknown]
  OBVIOUS
<1>3. t \in Tasks /\ SameRequest(t, tasks[n]) /\ t.pc = "done" /\ t.unknown = unknown
  BY <1>1, <1>2 DEF Tasks, SameRequest, TaskSteps
<1>4. tasks' = [tasks EXCEPT ![n] = t]
  <2>1. tasks \in [DOMAIN tasks -> Tasks]
    BY TasksAre
  <2> QED BY <1>1, <1>2, <2>1 DEF Tasks
<1> QED BY <1>3, <1>4

\* What a report adds to what the strategy has been told.
LEMMA SendIs ==
  ASSUME NEW n, NEW report, SendTo(n, report)
  PROVE  /\ told \subseteq told' /\ \A r \in told' \ told : r.task = n
         /\ line.up => \E r : r.task = n /\ told' = told \cup {r}
         /\ ~line.up => told' = told
<1>1. PICK r : r = [task |-> n, type |-> Encode(report)]
  OBVIOUS
<1>2. told' = IF line.up THEN told \cup {r} ELSE told
  BY <1>1 DEF SendTo
<1>3. r.task = n
  BY <1>1
<1> QED BY <1>2, <1>3

LEMMA FinishIs ==
  ASSUME NEW n, NEW reports, Finish(n, reports)
  PROVE  /\ told \subseteq told' /\ \A r \in told' \ told : r.task = n
         /\ reports = {} => told' = told
         /\ reports # {} /\ line.up => \E r : r.task = n /\ told' = told \cup {r}
         /\ placing' = IF tasks[n].request = "NewOrder" THEN [placing EXCEPT ![tasks[n].id] = 0] ELSE placing
<1>1. placing' = IF tasks[n].request = "NewOrder" THEN [placing EXCEPT ![tasks[n].id] = 0] ELSE placing
  BY DEF Finish, End
<1>2. CASE reports = {}
  BY <1>1, <1>2 DEF Finish
<1>3. CASE reports # {}
  <2>1. PICK report \in reports : SendTo(n, report)
    BY <1>3 DEF Finish
  <2>2. /\ told \subseteq told' /\ \A r \in told' \ told : r.task = n
        /\ line.up => \E r : r.task = n /\ told' = told \cup {r}
    BY <2>1, SendIs
  <2> QED BY <1>1, <1>3, <2>2
<1> QED BY <1>2, <1>3

LEMMA RowsStay == FixTypeOK /\ rows' = rows => RowsKept
BY DEF FixTypeOK, RowsKept

LEMMA WaitMoves ==
  ASSUME FixTypeOK, NEW n \in DOMAIN tasks, Wait(n) \/ Woken(n)
  PROVE  \E t \in Tasks : TaskMoved(n, t)
<1>0. /\ UNCHANGED <<line, acceptor, inbound, registered, unheard, placing, rows, told>> /\ RowsKept
  BY RowsStay DEF Wait, Woken
<1>1. CASE Wait(n)
  <2>0. tasks[n] \in Tasks
    BY TasksAre
  <2>1. PICK first \in Nat : first = placing[tasks[n].id]
    BY <2>0, TasksAre DEF Tasks
  <2>2. PICK pc \in TaskSteps : pc = IF first = 0 THEN "look" ELSE "wait"
    BY DEF TaskSteps
  <2>3. tasks[n].pc = "started" /\ tasks' = [tasks EXCEPT ![n].pc = pc, ![n].lock = first]
    BY <1>1, <2>1, <2>2 DEF Wait, At
  <2>3a. PICK t : t = [tasks[n] EXCEPT !.pc = pc, !.lock = first]
    OBVIOUS
  <2>4. /\ t \in Tasks /\ tasks' = [tasks EXCEPT ![n] = t] /\ SameRequest(t, tasks[n]) /\ t.pc = pc
        /\ t.unknown = tasks[n].unknown /\ t.lock = first
    <3>1. /\ t \in Tasks /\ SameRequest(t, tasks[n]) /\ t.pc = pc /\ t.unknown = tasks[n].unknown /\ t.lock = first
      BY <2>0, <2>1, <2>2, <2>3a DEF Tasks, SameRequest
    <3>2. tasks' = [tasks EXCEPT ![n] = t]
      <4>1. tasks \in [DOMAIN tasks -> Tasks]
        BY TasksAre
      <4> QED BY <2>0, <2>3, <2>3a, <4>1 DEF Tasks
    <3> QED BY <3>1, <3>2
  <2>5. GoesOn(n, t)
    BY <2>1, <2>2, <2>3, <2>4 DEF GoesOn, SameRequest
  <2>6. ToldBy(n, t) /\ t.pc # "done"
    BY <1>0, <2>2, <2>4 DEF ToldBy
  <2> QED BY <1>0, <2>4, <2>5, <2>6 DEF TaskMoved
<1>2. CASE Woken(n)
  <2>1. tasks[n].pc = "wait" /\ ~Held(tasks[n].lock) /\ Moved(n, "look") /\ "look" \in TaskSteps
    BY <1>2 DEF Woken, At, TaskSteps
  <2>2. PICK t \in Tasks : /\ tasks' = [tasks EXCEPT ![n] = t] /\ SameRequest(t, tasks[n]) /\ t.pc = "look"
                           /\ t.unknown = tasks[n].unknown
    BY <2>1, MovedIs
  <2>3. GoesOn(n, t) /\ ToldBy(n, t)
    BY <1>0, <2>1, <2>2 DEF GoesOn, ToldBy
  <2> QED BY <1>0, <2>2, <2>3 DEF TaskMoved
<1> QED BY <1>1, <1>2

LEMMA LookMoves ==
  ASSUME FixTypeOK, NEW n \in DOMAIN tasks, LookFails(n) \/ HandleNewOrder(n) \/ HandleStatus(n) \/ HandleSecurityList(n)
  PROVE  \E t \in Tasks : TaskMoved(n, t)
<1>0. /\ UNCHANGED <<line, acceptor, inbound, registered, unheard, rows>> /\ RowsKept /\ rows' = rows
      /\ tasks[n].pc = "look" /\ "done" \in TaskSteps /\ "submit" \in TaskSteps
  BY RowsStay DEF LookFails, HandleNewOrder, HandleStatus, HandleSecurityList, At, TaskSteps
<1>1. ASSUME NEW t \in Tasks, tasks' = [tasks EXCEPT ![n] = t], SameRequest(t, tasks[n]), t.pc = "done",
             NEW reports, Finish(n, reports),
             t.unknown => tasks[n].unknown \/ (tasks[n].request = "Status" /\ rows[tasks[n].id].status = "none")
      PROVE  TaskMoved(n, t)
  <2>1. GoesOn(n, t)
    BY <1>0, <1>1 DEF GoesOn, SameRequest, Names
  <2>2. ToldBy(n, t) /\ placing' = IF t.request = "NewOrder" THEN [placing EXCEPT ![t.id] = 0] ELSE placing
    BY <1>1, FinishIs DEF ToldBy, SameRequest
  <2> QED BY <1>0, <1>1, <2>1, <2>2 DEF TaskMoved
<1>2. CASE LookFails(n)
  <2>1. tasks' = [tasks EXCEPT ![n].pc = "done", ![n].fault = TRUE]
    BY <1>2 DEF LookFails
  <2>2. PICK t \in Tasks : /\ tasks' = [tasks EXCEPT ![n] = t] /\ SameRequest(t, tasks[n]) /\ t.pc = "done"
                           /\ t.unknown = tasks[n].unknown
    BY <2>1, FaultIs
  <2>3. PICK reports : Finish(n, reports)
    BY <1>2 DEF LookFails
  <2> QED BY <1>1, <2>2, <2>3
<1>3. CASE HandleNewOrder(n)
  <2>1. CASE /\ rows[tasks[n].id].status = "none"
             /\ Moved(n, "submit") /\ UNCHANGED <<placing, told>>
    <3>1. PICK t \in Tasks : /\ tasks' = [tasks EXCEPT ![n] = t] /\ SameRequest(t, tasks[n]) /\ t.pc = "submit"
                             /\ t.unknown = tasks[n].unknown
      BY <1>0, <2>1, MovedIs
    <3>2. GoesOn(n, t)
      BY <1>0, <1>3, <2>1, <3>1 DEF GoesOn, SameRequest, HandleNewOrder
    <3>3. ToldBy(n, t)
      BY <2>1, <3>1 DEF ToldBy
    <3> QED BY <1>0, <2>1, <3>1, <3>2, <3>3 DEF TaskMoved
  <2>2. CASE Moved(n, "done") /\ Finish(n, {"Exec"})
    <3>1. PICK t \in Tasks : /\ tasks' = [tasks EXCEPT ![n] = t] /\ SameRequest(t, tasks[n]) /\ t.pc = "done"
                             /\ t.unknown = tasks[n].unknown
      BY <1>0, <2>2, MovedIs
    <3> QED BY <1>1, <2>2, <3>1
  <2> QED BY <1>3, <2>1, <2>2 DEF HandleNewOrder
<1>4. CASE HandleStatus(n)
  <2>1. PICK unknown \in BOOLEAN : unknown = (rows[tasks[n].id].status = "none")
    <3>1. CASE rows[tasks[n].id].status = "none"
      <4>1. (rows[tasks[n].id].status = "none") = TRUE
        BY <3>1
      <4> QED BY <4>1
    <3>2. CASE rows[tasks[n].id].status # "none"
      <4>1. (rows[tasks[n].id].status = "none") = FALSE
        BY <3>2
      <4> QED BY <4>1
    <3> QED BY <3>1, <3>2
  <2>2. tasks' = [tasks EXCEPT ![n].pc = "done", ![n].unknown = unknown] /\ Finish(n, {"Exec"})
        /\ tasks[n].request = "Status"
    BY <1>4, <2>1 DEF HandleStatus
  <2>3. PICK t \in Tasks : /\ tasks' = [tasks EXCEPT ![n] = t] /\ SameRequest(t, tasks[n]) /\ t.pc = "done"
                           /\ t.unknown = unknown
    BY <2>2, UnknownIs
  <2> QED BY <1>1, <2>1, <2>2, <2>3
<1>5. CASE HandleSecurityList(n)
  <2>1. Moved(n, "done") /\ Finish(n, {"SecurityList"})
    BY <1>5 DEF HandleSecurityList
  <2>2. PICK t \in Tasks : /\ tasks' = [tasks EXCEPT ![n] = t] /\ SameRequest(t, tasks[n]) /\ t.pc = "done"
                           /\ t.unknown = tasks[n].unknown
    BY <1>0, <2>1, MovedIs
  <2> QED BY <1>1, <2>1, <2>2
<1> QED BY <1>2, <1>3, <1>4, <1>5

\* A row whose status changes, but not to or from none, is kept.
LEMMA StatusKept ==
  ASSUME FixTypeOK, NEW c \in ClOrdIds, NEW status \in {"routed", "rejected", "canceled", "submitted"},
         rows[c].status # "none", rows' = [rows EXCEPT ![c].status = status]
  PROVE  RowsKept
<1>1. rows \in [ClOrdIds -> Rows]
  BY DEF FixTypeOK
<1>2. rows[c] \in Rows
  BY <1>1
<1>3. PICK row : row = [rows[c] EXCEPT !.status = status]
  OBVIOUS
<1>4. row \in Rows /\ row.by = rows[c].by /\ row.status = status
  BY <1>2, <1>3 DEF Rows
<1>5. rows' = [rows EXCEPT ![c] = row]
  BY <1>3
<1> QED BY <1>1, <1>4, <1>5 DEF RowsKept

LEMMA StoreMoves ==
  ASSUME FixTypeOK, NEW n \in DOMAIN tasks, Store(n)
  PROVE  \E t \in Tasks : TaskMoved(n, t)
<1>0. /\ UNCHANGED <<line, acceptor, inbound, registered, unheard, placing, told>>
      /\ tasks[n].pc = "submit" /\ "check" \in TaskSteps /\ "route" \in TaskSteps
      /\ tasks[n] \in Tasks /\ tasks[n].id \in ClOrdIds /\ rows \in [ClOrdIds -> Rows] /\ n \in Nat
  BY TasksAre DEF Store, At, TaskSteps, Tasks
<1>1. CASE Moved(n, "check") /\ UNCHANGED rows
  <2>1. PICK t \in Tasks : /\ tasks' = [tasks EXCEPT ![n] = t] /\ SameRequest(t, tasks[n]) /\ t.pc = "check"
                           /\ t.unknown = tasks[n].unknown
    BY <1>0, <1>1, MovedIs
  <2>2. GoesOn(n, t) /\ ToldBy(n, t) /\ RowsKept
    BY <1>0, <1>1, <2>1, RowsStay DEF GoesOn, ToldBy
  <2> QED BY <1>0, <2>1, <2>2 DEF TaskMoved
<1>2. ASSUME rows[tasks[n].id].status = "none", NEW status \in {"rejected", "submitted"},
             rows' = [rows EXCEPT ![tasks[n].id] = [by |-> n, status |-> status]],
             Moved(n, IF status = "rejected" THEN "check" ELSE "route")
      PROVE  \E t \in Tasks : TaskMoved(n, t)
  <2>1. PICK pc \in {"check", "route"} : pc = IF status = "rejected" THEN "check" ELSE "route"
    OBVIOUS
  <2>2. pc \in TaskSteps /\ Moved(n, pc)
    BY <1>0, <1>2, <2>1
  <2>3. PICK t \in Tasks : /\ tasks' = [tasks EXCEPT ![n] = t] /\ SameRequest(t, tasks[n]) /\ t.pc = pc
                           /\ t.unknown = tasks[n].unknown
    BY <2>2, MovedIs
  <2>4. rows'[tasks[n].id].by = n
    BY <1>0, <1>2
  <2>5. GoesOn(n, t) /\ ToldBy(n, t)
    BY <1>0, <2>1, <2>3, <2>4 DEF GoesOn, ToldBy, SameRequest
  <2>6. RowStored(n, t)
    BY <1>0, <1>2, <2>1, <2>3 DEF RowStored, SameRequest
  <2>7. t.pc # "done"
    BY <2>1, <2>3
  <2> QED BY <1>0, <2>3, <2>5, <2>6, <2>7 DEF TaskMoved
<1> QED BY <1>1, <1>2 DEF Store

LEMMA RouteMoves ==
  ASSUME FixTypeOK, NEW n \in DOMAIN tasks, Route(n)
  PROVE  \E t \in Tasks : TaskMoved(n, t)
<1>0. /\ UNCHANGED <<line, acceptor, inbound, registered, unheard>>
      /\ tasks[n].pc = "route" /\ "check" \in TaskSteps /\ "done" \in TaskSteps
      /\ tasks[n] \in Tasks /\ tasks[n].id \in ClOrdIds /\ rows \in [ClOrdIds -> Rows]
  BY TasksAre DEF Route, At, TaskSteps, Tasks
<1>1. ASSUME NEW status \in {"routed", "rejected"},
             rows' = [rows EXCEPT ![tasks[n].id].status = IF @ = "submitted" THEN status ELSE @]
      PROVE  RowsKept
  <2>1. rows[tasks[n].id] \in Rows
    BY <1>0
  <2>2. CASE rows[tasks[n].id].status = "submitted"
    <3>1. rows' = [rows EXCEPT ![tasks[n].id].status = status]
      BY <1>1, <2>2
    <3> QED BY <1>0, <2>2, <3>1, StatusKept
  <2>3. CASE rows[tasks[n].id].status # "submitted"
    <3>1. rows' = [rows EXCEPT ![tasks[n].id].status = @]
      BY <1>1, <2>3
    <3>2. rows' = rows
      BY <1>0, <2>1, <3>1 DEF Rows
    <3> QED BY <3>2, RowsStay
  <2> QED BY <2>2, <2>3
<1>2. CASE RowsKept /\ Moved(n, "done") /\ Finish(n, {})
  <2>1. PICK t \in Tasks : /\ tasks' = [tasks EXCEPT ![n] = t] /\ SameRequest(t, tasks[n]) /\ t.pc = "done"
                           /\ t.unknown = tasks[n].unknown
    BY <1>0, <1>2, MovedIs
  <2>2. GoesOn(n, t)
    BY <1>0, <2>1 DEF GoesOn
  <2>3. ToldBy(n, t) /\ placing' = IF t.request = "NewOrder" THEN [placing EXCEPT ![t.id] = 0] ELSE placing
    BY <1>2, <2>1, FinishIs DEF ToldBy, SameRequest
  <2> QED BY <1>0, <1>2, <2>1, <2>2, <2>3 DEF TaskMoved
<1>3. CASE RowsKept /\ Moved(n, "check") /\ UNCHANGED <<placing, told>>
  <2>1. PICK t \in Tasks : /\ tasks' = [tasks EXCEPT ![n] = t] /\ SameRequest(t, tasks[n]) /\ t.pc = "check"
                           /\ t.unknown = tasks[n].unknown
    BY <1>0, <1>3, MovedIs
  <2>2. GoesOn(n, t) /\ ToldBy(n, t)
    BY <1>0, <1>3, <2>1 DEF GoesOn, ToldBy
  <2> QED BY <1>0, <1>3, <2>1, <2>2 DEF TaskMoved
<1> QED BY <1>1, <1>2, <1>3, RowsStay DEF Route

LEMMA CheckMoves ==
  ASSUME FixTypeOK, NEW n \in DOMAIN tasks, CheckStored(n)
  PROVE  \E t \in Tasks : TaskMoved(n, t)
<1>0. /\ UNCHANGED <<line, acceptor, inbound, registered, unheard, rows>> /\ RowsKept
      /\ tasks[n].pc = "check" /\ "done" \in TaskSteps
  BY RowsStay DEF CheckStored, At, TaskSteps
<1>1. PICK reports : Finish(n, reports)
  BY DEF CheckStored
<1>2. PICK t \in Tasks : /\ tasks' = [tasks EXCEPT ![n] = t] /\ SameRequest(t, tasks[n]) /\ t.pc = "done"
                         /\ t.unknown = tasks[n].unknown
  <2>1. CASE Moved(n, "done")
    BY <1>0, <2>1, MovedIs
  <2>2. CASE tasks' = [tasks EXCEPT ![n].pc = "done", ![n].fault = TRUE]
    BY <2>2, FaultIs
  <2> QED BY <2>1, <2>2 DEF CheckStored
<1>3. GoesOn(n, t)
  BY <1>0, <1>2 DEF GoesOn
<1>4. ToldBy(n, t) /\ placing' = IF t.request = "NewOrder" THEN [placing EXCEPT ![t.id] = 0] ELSE placing
  BY <1>1, <1>2, FinishIs DEF ToldBy, SameRequest
<1> QED BY <1>0, <1>2, <1>3, <1>4 DEF TaskMoved

LEMMA CancelMoves ==
  ASSUME FixTypeOK, NEW n \in DOMAIN tasks, HandleCancel(n)
  PROVE  \E t \in Tasks : TaskMoved(n, t)
<1>0. /\ UNCHANGED <<line, acceptor, inbound, registered, unheard>>
      /\ tasks[n].pc = "look" /\ tasks[n].request = "Cancel" /\ "done" \in TaskSteps
      /\ tasks[n] \in Tasks /\ tasks[n].id \in ClOrdIds /\ rows \in [ClOrdIds -> Rows]
  BY TasksAre DEF HandleCancel, At, TaskSteps, Tasks
<1>1. /\ placing' = placing /\ told \subseteq told' /\ \A r \in told' \ told : r.task = n
  <2>1. (\E report : SendTo(n, report) /\ UNCHANGED placing) \/ (\E reports : Finish(n, reports))
    BY DEF HandleCancel
  <2> QED BY <1>0, <2>1, SendIs, FinishIs
<1>2. CASE /\ rows[tasks[n].id].status = "none" /\ UNCHANGED rows
           /\ tasks' = [tasks EXCEPT ![n].pc = "done", ![n].unknown = TRUE]
  <2>1. PICK t \in Tasks : tasks' = [tasks EXCEPT ![n] = t] /\ SameRequest(t, tasks[n]) /\ t.pc = "done"
    BY <1>2, UnknownIs
  <2>2. GoesOn(n, t) /\ ToldBy(n, t) /\ RowsKept
    BY <1>0, <1>1, <1>2, <2>1, RowsStay DEF GoesOn, ToldBy, SameRequest, Names
  <2> QED BY <1>0, <1>1, <2>1, <2>2 DEF TaskMoved, SameRequest
<1>3. CASE RowsKept /\ Moved(n, "done")
  <2>1. PICK t \in Tasks : /\ tasks' = [tasks EXCEPT ![n] = t] /\ SameRequest(t, tasks[n]) /\ t.pc = "done"
                           /\ t.unknown = tasks[n].unknown
    BY <1>0, <1>3, MovedIs
  <2>2. GoesOn(n, t) /\ ToldBy(n, t)
    BY <1>0, <1>1, <2>1 DEF GoesOn, ToldBy
  <2> QED BY <1>0, <1>1, <1>3, <2>1, <2>2 DEF TaskMoved, SameRequest
<1>4. CASE /\ rows[tasks[n].id].status \in {"submitted", "routed"}
           /\ rows' = [rows EXCEPT ![tasks[n].id].status = "canceled"]
           /\ tasks' = [tasks EXCEPT ![n].pc = "done"]
  <2>1. RowsKept
    BY <1>0, <1>4, StatusKept
  <2> QED BY <1>3, <1>4, <2>1 DEF Moved
<1> QED BY <1>2, <1>3, <1>4, RowsStay DEF HandleCancel

LEMMA TaskMoves ==
  ASSUME FixTypeOK, NEW n \in DOMAIN tasks, TaskStep(n)
  PROVE  \E t \in Tasks : TaskMoved(n, t)
BY WaitMoves, LookMoves, StoreMoves, RouteMoves, CheckMoves, CancelMoves DEF TaskStep

\* One task changed: the others are as they were.
LEMMA OneTask ==
  ASSUME FixTypeOK, NEW n \in DOMAIN tasks, NEW t \in Tasks, tasks' = [tasks EXCEPT ![n] = t]
  PROVE  /\ tasks' \in Seq(Tasks) /\ DOMAIN tasks' = DOMAIN tasks /\ tasks'[n] = t
         /\ \A m \in DOMAIN tasks : m # n => tasks'[m] = tasks[m]
<1>1. tasks \in Seq(Tasks) /\ tasks \in [1..Len(tasks) -> Tasks] /\ Len(tasks) \in Nat
  BY TasksAre
<1>2. tasks' \in [1..Len(tasks) -> Tasks] /\ DOMAIN tasks' = DOMAIN tasks /\ tasks'[n] = t
      /\ \A m \in DOMAIN tasks : m # n => tasks'[m] = tasks[m]
  BY <1>1
<1>3. tasks' \in Seq(Tasks)
  BY <1>1, <1>2
<1> QED BY <1>2, <1>3

\* What the loop makes of a request: its task starts, or it is dropped.
LoopMoved(n, t) ==
    /\ tasks' = [tasks EXCEPT ![n] = t] /\ SameRequest(t, tasks[n]) /\ t.unknown = tasks[n].unknown
    /\ \/ t.pc = "dropped" /\ placing' = placing
       \/ /\ t.pc = IF t.request \in Names THEN "started" ELSE "look"
          /\ placing' = IF t.request = "NewOrder" THEN [placing EXCEPT ![t.id] = n] ELSE placing

LEMMA LoopMoves ==
  ASSUME FixTypeOK, NEW a \in DOMAIN inbound, RunLoop(a)
  PROVE  /\ inbound[a][1].kind # "Request" => tasks' = tasks /\ placing' = placing
         /\ inbound[a][1].kind = "Request" => /\ inbound[a][1].task \in DOMAIN tasks
                                              /\ \E t \in Tasks : LoopMoved(inbound[a][1].task, t)
<1>0. inbound[a] # <<>> /\ inbound[a] \in Seq(Events) /\ 1 \in DOMAIN inbound[a]
  BY LoopTakes
<1>1. Head(inbound[a]) = inbound[a][1]
  BY <1>0, TailIs
<1>2. PICK event : event = inbound[a][1]
  OBVIOUS
<1>3. \/ event.kind = "LoggedOn" /\ UNCHANGED <<tasks, placing>>
      \/ event.kind = "LoggedOut" /\ UNCHANGED <<tasks, placing>>
      \/ event.kind = "Request" /\ Dispatch(event.task)
      \/ event.kind = "Request" /\ Moved(event.task, "dropped") /\ UNCHANGED placing
  BY <1>1, <1>2 DEF RunLoop
<1>4. CASE event.kind = "Request"
  <2>1. PICK n \in DOMAIN tasks : n = event.task
    BY <1>0, <1>2, <1>4 DEF FixTypeOK
  <2>2. CASE Moved(n, "dropped") /\ UNCHANGED placing
    <3>1. "dropped" \in TaskSteps
      BY DEF TaskSteps
    <3>2. PICK t \in Tasks : /\ tasks' = [tasks EXCEPT ![n] = t] /\ SameRequest(t, tasks[n]) /\ t.pc = "dropped"
                             /\ t.unknown = tasks[n].unknown
      BY <2>2, <3>1, MovedIs
    <3>3. LoopMoved(n, t)
      BY <2>2, <3>2 DEF LoopMoved
    <3> QED BY <1>2, <1>4, <2>1, <3>2, <3>3
  <2>3. CASE Dispatch(n)
    <3>1. PICK pc \in {"started", "look"} : pc = IF tasks[n].request \in Names THEN "started" ELSE "look"
      OBVIOUS
    <3>2. pc \in TaskSteps /\ Moved(n, pc)
      BY <2>3, <3>1 DEF TaskSteps, Dispatch
    <3>3. PICK t \in Tasks : /\ tasks' = [tasks EXCEPT ![n] = t] /\ SameRequest(t, tasks[n]) /\ t.pc = pc
                             /\ t.unknown = tasks[n].unknown
      BY <3>2, MovedIs
    <3>4. placing' = IF tasks[n].request = "NewOrder" THEN [placing EXCEPT ![tasks[n].id] = n] ELSE placing
      BY <2>3 DEF Dispatch, Begin
    <3>5. LoopMoved(n, t)
      BY <3>1, <3>3, <3>4 DEF LoopMoved, SameRequest
    <3> QED BY <1>2, <1>4, <2>1, <3>3, <3>5
  <2> QED BY <1>3, <1>4, <2>1, <2>2, <2>3
<1>5. CASE event.kind # "Request"
  BY <1>2, <1>3, <1>5
<1> QED BY <1>4, <1>5

\* What a message of the strategy adds: one task, and one event or one answer.
Sent(t, e) ==
    /\ line.up /\ tasks' = Append(tasks, t) /\ t.logon = line.logons /\ ~t.unknown
    /\ t.request = "NewOrder" => Resends \/ ~Unanswered(t.id)
    /\ \/ /\ t.request = "BusinessReject" /\ t.pc = "done" /\ inbound' = inbound
          /\ \E r : r.task = Len(tasks) + 1 /\ told' = told \cup {r}
       \/ /\ t.request # "BusinessReject" /\ t.pc = "inbound" /\ told' = told
          /\ e.kind = "Request" /\ e.task = Len(tasks) + 1 /\ Inform(e)
    /\ UNCHANGED <<line, acceptor, registered, unheard, placing, rows>>

LEMMA SendsOne ==
  ASSUME FixTypeOK, StrategySends
  PROVE  \E t \in Tasks, e \in Events : Sent(t, e)
<1>1. PICK w \in Wire :
        /\ line.up /\ (Decode(w) = "NewOrder" => Resends \/ ~Unanswered(w.id))
        /\ LET n == Len(tasks) + 1
               request == Decode(w)
               task == [request |-> request, id |-> w.id, logon |-> line.logons,
                        pc |-> IF request = "BusinessReject" THEN "done" ELSE "inbound",
                        lock |-> 0, unknown |-> FALSE, fault |-> FALSE]
           IN /\ tasks' = Append(tasks, task)
              /\ IF request = "BusinessReject"
                   THEN SendTo(n, "BusinessReject") /\ UNCHANGED inbound
                   ELSE Inform([kind |-> "Request", task |-> n]) /\ UNCHANGED told
        /\ UNCHANGED <<line, acceptor, registered, unheard, placing, rows>>
  BY DEF StrategySends
<1>2. PICK request \in Requests : request = Decode(w)
  BY DEF Decode, Requests, Wire
<1>3. PICK pc \in TaskSteps : pc = IF request = "BusinessReject" THEN "done" ELSE "inbound"
  BY DEF TaskSteps
<1>4. PICK t : t = [request |-> request, id |-> w.id, logon |-> line.logons, pc |-> pc,
                    lock |-> 0, unknown |-> FALSE, fault |-> FALSE]
  OBVIOUS
<1>5. w.id \in ClOrdIds /\ line.logons \in Nat /\ Len(tasks) \in Nat
  BY TasksAre DEF Wire, FixTypeOK
<1>6. /\ t \in Tasks /\ t.request = request /\ t.id = w.id /\ t.logon = line.logons /\ t.pc = pc /\ ~t.unknown
  BY <1>2, <1>3, <1>4, <1>5 DEF Tasks
<1>7. PICK e : e = [kind |-> "Request", task |-> Len(tasks) + 1]
  OBVIOUS
<1>8. e \in Events /\ e.kind = "Request" /\ e.task = Len(tasks) + 1
  BY <1>5, <1>7 DEF Events
<1>9. tasks' = Append(tasks, t)
  BY <1>1, <1>2, <1>3, <1>4
<1>10. CASE request = "BusinessReject"
  <2>1. SendTo(Len(tasks) + 1, "BusinessReject") /\ inbound' = inbound
    BY <1>1, <1>2, <1>10
  <2>2. \E r : r.task = Len(tasks) + 1 /\ told' = told \cup {r}
    BY <1>1, <2>1, SendIs
  <2>3. Sent(t, e)
    BY <1>1, <1>3, <1>6, <1>9, <1>10, <2>1, <2>2 DEF Sent
  <2> QED BY <1>6, <1>8, <2>3
<1>11. CASE request # "BusinessReject"
  <2>1. Inform(e) /\ told' = told
    BY <1>1, <1>2, <1>7, <1>11
  <2>2. Sent(t, e)
    BY <1>1, <1>2, <1>3, <1>6, <1>8, <1>9, <1>11, <2>1 DEF Sent
  <2> QED BY <1>6, <1>8, <2>2
<1> QED BY <1>10, <1>11

\* One more task: the earlier ones are as they were.
LEMMA NewTask ==
  ASSUME FixTypeOK, NEW t \in Tasks, tasks' = Append(tasks, t)
  PROVE  /\ tasks' \in Seq(Tasks) /\ DOMAIN tasks' = DOMAIN tasks \cup {Len(tasks) + 1}
         /\ tasks'[Len(tasks) + 1] = t /\ Len(tasks) + 1 \notin DOMAIN tasks /\ Len(tasks) + 1 # 0
         /\ \A m \in DOMAIN tasks : tasks'[m] = tasks[m] /\ m < Len(tasks) + 1
<1>1. tasks \in Seq(Tasks) /\ Len(tasks) \in Nat /\ DOMAIN tasks = 1..Len(tasks)
  BY TasksAre
<1>2. /\ Append(tasks, t) \in Seq(Tasks) /\ Len(Append(tasks, t)) = Len(tasks) + 1
      /\ Append(tasks, t)[Len(tasks) + 1] = t /\ \A m \in 1..Len(tasks) : Append(tasks, t)[m] = tasks[m]
  BY <1>1
<1>3. DOMAIN Append(tasks, t) = 1..(Len(tasks) + 1) /\ 1..(Len(tasks) + 1) = (1..Len(tasks)) \cup {Len(tasks) + 1}
  BY <1>1, <1>2
<1> QED BY <1>1, <1>2, <1>3

\* The part of the types that the session's events touch.
ChannelTypeOK ==
    /\ inbound \in [1..(MaxRestarts + 1) -> Seq(Events)]
    /\ \A a \in DOMAIN inbound : a > acceptor => inbound[a] = <<>>
    /\ \A a \in DOMAIN inbound : \A i \in DOMAIN inbound[a] :
          inbound[a][i].kind = "Request" => inbound[a][i].task \in DOMAIN tasks

LEMMA InformKeepsType ==
  ASSUME FixTypeOK, NEW e \in Events, Inform(e), acceptor' \in {acceptor, acceptor + 1}, DOMAIN tasks \subseteq DOMAIN tasks',
         e.kind = "Request" => e.task \in DOMAIN tasks'
  PROVE  ChannelTypeOK'
<1>1. /\ inbound' \in [1..(MaxRestarts + 1) -> Seq(Events)] /\ DOMAIN inbound' = DOMAIN inbound
      /\ acceptor \in DOMAIN inbound /\ inbound[acceptor] \in Seq(Events)
      /\ inbound'[acceptor] = Append(inbound[acceptor], e)
      /\ \A a \in DOMAIN inbound : a # acceptor => inbound'[a] = inbound[a]
  BY InformIs
<1>2. acceptor \in Nat /\ \A a \in DOMAIN inbound : a \in Nat
  BY DEF FixTypeOK
<1>3. \A a \in DOMAIN inbound : a > acceptor' => inbound'[a] = <<>>
  BY <1>1, <1>2 DEF FixTypeOK
<1>4. ASSUME NEW a \in DOMAIN inbound, NEW i \in DOMAIN inbound'[a], inbound'[a][i].kind = "Request"
      PROVE  inbound'[a][i].task \in DOMAIN tasks'
  <2>1. CASE a # acceptor
    BY <1>1, <1>4, <2>1 DEF FixTypeOK
  <2>2. CASE a = acceptor
    <3>1. PICK q \in Seq(Events) : q = inbound[acceptor]
      BY <1>1
    <3>2. /\ DOMAIN Append(q, e) = DOMAIN q \cup {Len(q) + 1} /\ \A j \in DOMAIN q : Append(q, e)[j] = q[j]
          /\ Append(q, e)[Len(q) + 1] = e
      BY AppendEvents
    <3>3. \A j \in DOMAIN q : q[j].kind = "Request" => q[j].task \in DOMAIN tasks
      BY <1>1, <3>1 DEF FixTypeOK
    <3> QED BY <1>1, <1>4, <2>2, <3>1, <3>2, <3>3
  <2> QED BY <2>1, <2>2
<1> QED BY <1>1, <1>3, <1>4 DEF ChannelTypeOK

LEMMA CallbackKeepsType ==
  ASSUME FixTypeOK, Logon \/ SessionDown \/ Restart
  PROVE  FixTypeOK' /\ UNCHANGED <<tasks, placing, rows, told>>
<1>1. UNCHANGED <<registered, tasks, placing, rows, told>> /\ DOMAIN tasks \subseteq DOMAIN tasks'
  BY DEF Logon, SessionDown, Restart
<1>2. line' \in [up : BOOLEAN, logons : Nat] /\ acceptor' \in 1..(MaxRestarts + 1) /\ acceptor' \in {acceptor, acceptor + 1}
  <2>1. line \in [up : BOOLEAN, logons : Nat] /\ acceptor \in 1..(MaxRestarts + 1) /\ MaxRestarts \in Nat
    BY FixRequestsAssumption DEF FixTypeOK
  <2>2. CASE Logon
    <3>1. line' = [line EXCEPT !.up = TRUE, !.logons = @ + 1] /\ acceptor' = acceptor
      BY <2>2 DEF Logon
    <3>2. line.logons + 1 \in Nat
      BY <2>1
    <3> QED BY <2>1, <3>1, <3>2
  <2>3. CASE SessionDown
    BY <2>1, <2>3 DEF SessionDown
  <2>4. CASE Restart
    <3>1. line' = [line EXCEPT !.up = FALSE] /\ acceptor' = acceptor + 1 /\ acceptor <= MaxRestarts
      BY <2>4 DEF Restart
    <3>2. acceptor + 1 \in 1..(MaxRestarts + 1)
      BY <2>1, <3>1
    <3>3. line' \in [up : BOOLEAN, logons : Nat]
      BY <2>1, <3>1
    <3> QED BY <3>1, <3>2, <3>3
  <2> QED BY <2>2, <2>3, <2>4
<1>3. ChannelTypeOK'
  <2>1. CASE inbound' = inbound
    <3>1. \A a \in DOMAIN inbound : a \in Nat /\ acceptor \in Nat /\ (a > acceptor' => a > acceptor)
      BY <1>2 DEF FixTypeOK
    <3> QED BY <1>1, <2>1, <3>1 DEF FixTypeOK, ChannelTypeOK
  <2>2. ASSUME NEW kind \in {"LoggedOn", "LoggedOut"}, Inform([kind |-> kind, task |-> 0]) PROVE ChannelTypeOK'
    <3>1. PICK e \in Events : e = [kind |-> kind, task |-> 0]
      BY DEF Events
    <3>2. e.kind # "Request" /\ Inform(e)
      BY <2>2, <3>1
    <3> QED BY <1>1, <1>2, <3>1, <3>2, InformKeepsType
  <2> QED BY <2>1, <2>2 DEF Logon, SessionDown, Restart
<1>4. unheard' \in BOOLEAN
  <2>1. CASE Logon \/ SessionDown
    BY <2>1 DEF Logon, SessionDown, FixTypeOK
  <2>2. CASE Restart
    BY <2>2 DEF Restart, FixTypeOK
  <2> QED BY <2>1, <2>2
<1> QED BY <1>1, <1>2, <1>3, <1>4 DEF FixTypeOK, ChannelTypeOK

LEMMA SendsKeepType ==
  ASSUME FixTypeOK, NEW t \in Tasks, NEW e \in Events, Sent(t, e)
  PROVE  FixTypeOK'
<1>1. UNCHANGED <<line, acceptor, registered, unheard, placing, rows>> /\ tasks' = Append(tasks, t)
  BY DEF Sent
<1>2. tasks' \in Seq(Tasks) /\ DOMAIN tasks' = DOMAIN tasks \cup {Len(tasks) + 1}
  BY <1>1, NewTask
<1>3. \A r \in told' : r.task \in DOMAIN tasks'
  <2>1. \A r \in told : r.task \in DOMAIN tasks
    BY DEF FixTypeOK
  <2>2. told' = told \/ \E r : r.task = Len(tasks) + 1 /\ told' = told \cup {r}
    BY DEF Sent
  <2> QED BY <1>2, <2>1, <2>2
<1>4. ChannelTypeOK'
  <2>1. CASE inbound' = inbound
    BY <1>1, <1>2, <2>1 DEF FixTypeOK, ChannelTypeOK
  <2>2. CASE Inform(e) /\ e.task = Len(tasks) + 1
    BY <1>1, <1>2, <2>2, InformKeepsType
  <2> QED BY <2>1, <2>2 DEF Sent
<1> QED BY <1>1, <1>2, <1>3, <1>4 DEF FixTypeOK, ChannelTypeOK

LEMMA LoopKeepsType ==
  ASSUME FixTypeOK, NEW a \in DOMAIN inbound, RunLoop(a)
  PROVE  FixTypeOK'
<1>0. /\ inbound[a] # <<>> /\ inbound' = [inbound EXCEPT ![a] = Tail(@)] /\ registered' \in BOOLEAN
      /\ UNCHANGED <<line, acceptor, unheard, rows, told>>
  BY LoopTakes
<1>1. /\ inbound' \in [1..(MaxRestarts + 1) -> Seq(Events)] /\ DOMAIN inbound' = DOMAIN inbound
      /\ inbound[a] \in Seq(Events) /\ inbound'[a] = Tail(inbound[a])
      /\ \A b \in DOMAIN inbound : b # a => inbound'[b] = inbound[b]
  BY <1>0, TakenIs
<1>2. tasks' \in Seq(Tasks) /\ DOMAIN tasks' = DOMAIN tasks /\ placing' \in [ClOrdIds -> Nat]
  <2>1. CASE inbound[a][1].kind # "Request"
    BY <2>1, LoopMoves DEF FixTypeOK
  <2>2. CASE inbound[a][1].kind = "Request"
    <3>1. PICK n \in DOMAIN tasks, t \in Tasks : LoopMoved(n, t)
      BY <2>2, LoopMoves
    <3>2. tasks' \in Seq(Tasks) /\ DOMAIN tasks' = DOMAIN tasks
      BY <3>1, OneTask DEF LoopMoved
    <3>3. placing' = placing \/ placing' = [placing EXCEPT ![t.id] = n]
      BY <3>1 DEF LoopMoved
    <3>4. n \in Nat /\ placing \in [ClOrdIds -> Nat]
      BY <3>1, TasksAre
    <3>5. placing' \in [ClOrdIds -> Nat]
      BY <3>3, <3>4
    <3> QED BY <3>2, <3>5
  <2> QED BY <2>1, <2>2
<1>3. \A b \in DOMAIN inbound' : b > acceptor' => inbound'[b] = <<>>
  BY <1>0, <1>1 DEF FixTypeOK
<1>4. ASSUME NEW b \in DOMAIN inbound', NEW i \in DOMAIN inbound'[b], inbound'[b][i].kind = "Request"
      PROVE  inbound'[b][i].task \in DOMAIN tasks'
  <2>1. CASE b # a
    BY <1>1, <1>2, <1>4, <2>1 DEF FixTypeOK
  <2>2. CASE b = a
    <3>1. PICK q \in Seq(Events) : q = inbound[a]
      BY <1>1
    <3>2. /\ DOMAIN Tail(q) = 1..(Len(q) - 1) /\ DOMAIN q = 1..Len(q) /\ Len(q) \in Nat
          /\ \A j \in 1..(Len(q) - 1) : Tail(q)[j] = q[j + 1]
      BY <1>0, <3>1, TailIs
    <3>3. inbound'[b] = Tail(q)
      BY <1>1, <2>2, <3>1
    <3>4. i \in 1..(Len(q) - 1)
      BY <1>4, <3>2, <3>3
    <3>5. i + 1 \in DOMAIN q
      BY <3>2, <3>4
    <3>6. inbound'[b][i] = q[i + 1]
      BY <3>2, <3>3, <3>4
    <3> QED BY <1>1, <1>2, <1>4, <3>1, <3>5, <3>6 DEF FixTypeOK
  <2> QED BY <2>1, <2>2
<1>5. \A r \in told' : r.task \in DOMAIN tasks'
  BY <1>0, <1>2 DEF FixTypeOK
<1>6. rows' \in [ClOrdIds -> Rows]
  BY <1>0 DEF FixTypeOK
<1> QED BY <1>0, <1>1, <1>2, <1>3, <1>4, <1>5, <1>6 DEF FixTypeOK

LEMMA TaskKeepsType ==
  ASSUME FixTypeOK, NEW n \in DOMAIN tasks, NEW t \in Tasks, TaskMoved(n, t)
  PROVE  FixTypeOK'
<1>1. UNCHANGED <<line, acceptor, inbound, registered, unheard>> /\ tasks' = [tasks EXCEPT ![n] = t]
  BY DEF TaskMoved
<1>2. tasks' \in Seq(Tasks) /\ DOMAIN tasks' = DOMAIN tasks
  BY <1>1, OneTask
<1>3. placing' \in [ClOrdIds -> Nat]
  <2>1. placing \in [ClOrdIds -> Nat]
    BY TasksAre
  <2>2. placing' = placing \/ placing' = [placing EXCEPT ![t.id] = 0]
    BY DEF TaskMoved
  <2> QED BY <2>1, <2>2
<1>4. rows' \in [ClOrdIds -> Rows]
  <2>1. CASE RowsKept
    BY <2>1 DEF RowsKept
  <2>2. CASE RowStored(n, t)
    <3>1. PICK status \in {"rejected", "submitted"} : rows' = [rows EXCEPT ![t.id] = [by |-> n, status |-> status]]
      BY <2>2 DEF RowStored
    <3>2. n \in Nat /\ rows \in [ClOrdIds -> Rows]
      BY TasksAre
    <3>3. [by |-> n, status |-> status] \in Rows
      BY <3>2 DEF Rows
    <3> QED BY <3>1, <3>2, <3>3
  <2> QED BY <2>1, <2>2 DEF TaskMoved
<1>5. \A r \in told' : r.task \in DOMAIN tasks'
  BY <1>2 DEF TaskMoved, ToldBy, FixTypeOK
<1> QED BY <1>1, <1>2, <1>3, <1>4, <1>5 DEF FixTypeOK

LEMMA SettleIs ==
  ASSUME FixTypeOK, NEW c \in ClOrdIds, Settle(c)
  PROVE  RowsKept /\ UNCHANGED <<line, acceptor, inbound, registered, unheard, tasks, placing, told>>
<1>1. PICK status \in {"routed", "rejected"} : rows' = [rows EXCEPT ![c].status = status]
  BY DEF Settle
<1>2. rows[c].status # "none"
  BY DEF Settle
<1> QED BY <1>1, <1>2, StatusKept DEF Settle

\* What no callback of the session and no loop has to do with leaves the
\* session as it was.
LEMMA SessionSame ==
  ASSUME SessionInv, UNCHANGED <<line, acceptor, inbound, registered, unheard>>
  PROVE  SessionInv'
BY DEF SessionInv, ChannelOK, StoppedOK, OnAt, OutAt, Sessionless

LEMMA NextKeepsSession ==
  ASSUME FixTypeOK, SessionInv, FixRequestsNext
  PROVE  FixTypeOK' /\ SessionInv'
<1>1. CASE Logon \/ SessionDown
  <2>1. FixTypeOK'
    BY <1>1, CallbackKeepsType
  <2>2. CASE Logon
    <3>1. PICK e \in Events : e = [kind |-> "LoggedOn", task |-> 0]
      BY DEF Events
    <3>2. line'.up /\ ~line.up /\ ~registered
      BY <2>2 DEF Logon, LogonDecision, FixTypeOK
    <3>3. Inform(e) /\ e.kind = "LoggedOn" /\ UNCHANGED <<acceptor, registered, unheard>>
      BY <2>2, <3>1 DEF Logon
    <3> QED BY <2>1, <3>2, <3>3, CallbackKeepsSession
  <2>3. CASE SessionDown
    <3>1. PICK e \in Events : e = [kind |-> "LoggedOut", task |-> 0]
      BY DEF Events
    <3>2. line.up /\ ~line'.up /\ line'.up \in BOOLEAN
      BY <2>1, <2>3 DEF SessionDown, FixTypeOK
    <3>3. Inform(e) /\ e.kind = "LoggedOut" /\ UNCHANGED <<acceptor, registered, unheard>>
      BY <2>3, <3>1 DEF SessionDown
    <3> QED BY <2>1, <3>2, <3>3, CallbackKeepsSession
  <2> QED BY <1>1, <2>2, <2>3
<1>2. CASE Restart
  <2>1. FixTypeOK'
    BY <1>2, CallbackKeepsType
  <2>2. acceptor' \in 1..(MaxRestarts + 1)
    BY <2>1 DEF FixTypeOK
  <2> QED BY <1>2, <2>1, <2>2, RestartKeepsSession
<1>3. CASE StrategySends
  <2>1. PICK t \in Tasks, e \in Events : Sent(t, e)
    BY <1>3, SendsOne
  <2>2. FixTypeOK'
    BY <2>1, SendsKeepType
  <2>3. UNCHANGED <<line, acceptor, registered, unheard>>
    BY <2>1 DEF Sent
  <2>4. CASE inbound' = inbound
    BY <2>2, <2>3, <2>4, SessionSame
  <2>5. CASE e.kind = "Request" /\ Inform(e)
    <3>1. line'.up \in BOOLEAN
      BY <2>2 DEF FixTypeOK
    <3> QED BY <2>2, <2>3, <2>5, <3>1, CallbackKeepsSession
  <2> QED BY <2>1, <2>4, <2>5 DEF Sent
<1>4. CASE \E a \in DOMAIN inbound : RunLoop(a)
  BY <1>4, LoopKeepsType, LoopKeepsSession
<1>5. CASE \E n \in DOMAIN tasks : TaskStep(n)
  <2>1. PICK n \in DOMAIN tasks, t \in Tasks : TaskMoved(n, t)
    BY <1>5, TaskMoves
  <2>2. UNCHANGED <<line, acceptor, inbound, registered, unheard>>
    BY <2>1 DEF TaskMoved
  <2> QED BY <2>1, <2>2, TaskKeepsType, SessionSame
<1>6. CASE \E c \in ClOrdIds : Settle(c)
  <2>1. RowsKept /\ UNCHANGED <<line, acceptor, inbound, registered, unheard, tasks, placing, told>>
    BY <1>6, SettleIs
  <2>2. FixTypeOK'
    BY <2>1 DEF FixTypeOK, RowsKept
  <2> QED BY <2>1, <2>2, SessionSame
<1>7. \/ Logon \/ SessionDown \/ Restart \/ StrategySends
      \/ \E a \in DOMAIN inbound : RunLoop(a)
      \/ \E n \in DOMAIN tasks : TaskStep(n)
      \/ \E c \in ClOrdIds : Settle(c)
  BY DEF FixRequestsNext, TaskStep
<1> QED BY <1>1, <1>2, <1>3, <1>4, <1>5, <1>6, <1>7

LEMMA SessionInvariant == FixRequestsSpec => [](FixTypeOK /\ SessionInv)
<1>1. FixRequestsInit => FixTypeOK /\ SessionInv
  BY FixInitInv
<1>2. FixTypeOK /\ SessionInv /\ [FixRequestsNext]_fixVars => FixTypeOK' /\ SessionInv'
  <2> SUFFICES ASSUME FixTypeOK, SessionInv, [FixRequestsNext]_fixVars PROVE FixTypeOK' /\ SessionInv'
    OBVIOUS
  <2>1. CASE UNCHANGED fixVars
    <3>1. FixTypeOK'
      BY <2>1 DEF fixVars, FixTypeOK
    <3> QED BY <2>1, <3>1, SessionSame DEF fixVars
  <2> QED BY <2>1, NextKeepsSession
<1> QED BY <1>1, <1>2, PTL DEF FixRequestsSpec

\* A session that is logged on is known to the core once the loops have read
\* their channels, through any number of logons, logouts and restarts of the
\* acceptor, unless one was stopped before its logon was handled
\* (FixSessions::restart, logon_decision, run).
THEOREM LogonServed == FixRequestsSpec => []LoggedOnIsServed
<1>1. FixTypeOK /\ SessionInv => LoggedOnIsServed
  <2> SUFFICES ASSUME FixTypeOK, SessionInv, line.up, \A a \in DOMAIN inbound : inbound[a] = <<>>, ~unheard
               PROVE  registered
    BY DEF LoggedOnIsServed
  <2>1. acceptor \in DOMAIN inbound /\ inbound[acceptor] = <<>>
    BY DEF FixTypeOK
  <2>2. Sessionless(inbound[acceptor])
    BY <2>1 DEF Sessionless
  <2> QED BY <2>2 DEF SessionInv, ChannelOK
<1> QED BY <1>1, SessionInvariant, PTL

-----------------------------------------------------------------------------
(* FIX requests: the answers                                                  *)

\* What no request comes in by leaves the channels' requests as they were.
LEMMA NoRequestMore ==
  ASSUME FixTypeOK, inbound' = inbound \/ \E e \in Events : e.kind # "Request" /\ Inform(e)
  PROVE  /\ DOMAIN inbound' = DOMAIN inbound
         /\ \A a \in DOMAIN inbound : \A i, n : RequestAt(a, i, n)' <=> RequestAt(a, i, n)
         /\ \A a \in DOMAIN inbound : \A i, n : RequestAt(a, i, n) => i \in DOMAIN inbound[a] /\ i \in DOMAIN inbound'[a]
<1>1. CASE inbound' = inbound
  BY <1>1 DEF RequestAt
<1>2. ASSUME NEW e \in Events, e.kind # "Request", Inform(e)
      PROVE  /\ DOMAIN inbound' = DOMAIN inbound
             /\ \A a \in DOMAIN inbound : \A i, n : RequestAt(a, i, n)' <=> RequestAt(a, i, n)
             /\ \A a \in DOMAIN inbound : \A i, n : RequestAt(a, i, n) => i \in DOMAIN inbound[a] /\ i \in DOMAIN inbound'[a]
  <2>1. /\ DOMAIN inbound' = DOMAIN inbound /\ acceptor \in DOMAIN inbound /\ inbound[acceptor] \in Seq(Events)
        /\ inbound'[acceptor] = Append(inbound[acceptor], e)
        /\ \A a \in DOMAIN inbound : a # acceptor => inbound'[a] = inbound[a]
    BY <1>2, InformIs
  <2>2. PICK q \in Seq(Events), b \in DOMAIN inbound : b = acceptor /\ q = inbound[b]
    BY <2>1
  <2>3. PICK r : r = Append(q, e)
    OBVIOUS
  <2>4. DOMAIN r = DOMAIN q \cup {Len(q) + 1} /\ (\A j \in DOMAIN q : r[j] = q[j]) /\ r[Len(q) + 1] = e
    BY <2>3, AppendEvents
  <2>5. /\ \A i, n : RequestAt(b, i, n)' <=> RequestAt(b, i, n)
        /\ \A i, n : RequestAt(b, i, n) => i \in DOMAIN inbound'[b]
    BY <1>2, <2>1, <2>2, <2>3, <2>4 DEF RequestAt
  <2>6. \A a \in DOMAIN inbound : a # b =>
          /\ \A i, n : RequestAt(a, i, n)' <=> RequestAt(a, i, n)
          /\ \A i, n : RequestAt(a, i, n) => i \in DOMAIN inbound'[a]
    BY <2>1, <2>2 DEF RequestAt
  <2>7. \A a \in DOMAIN inbound : \A i, n : RequestAt(a, i, n)' <=> RequestAt(a, i, n)
    BY <2>5, <2>6
  <2>8. \A a \in DOMAIN inbound : \A i, n : RequestAt(a, i, n) => i \in DOMAIN inbound[a] /\ i \in DOMAIN inbound'[a]
    BY <2>5, <2>6 DEF RequestAt
  <2> QED BY <2>1, <2>7, <2>8
<1> QED BY <1>1, <1>2

LEMMA CallbackKeepsRequests ==
  ASSUME FixTypeOK, RequestsInv, Logon \/ SessionDown \/ Restart
  PROVE  RequestsInv'
<1>1. /\ UNCHANGED <<tasks, placing, rows, told>>
      /\ inbound' = inbound \/ \E e \in Events : e.kind # "Request" /\ Inform(e)
  <2>1. UNCHANGED <<tasks, placing, rows, told>>
    BY CallbackKeepsType
  <2>2. \A kind \in {"LoggedOn", "LoggedOut"} :
          [kind |-> kind, task |-> 0] \in Events /\ [kind |-> kind, task |-> 0].kind # "Request"
    BY DEF Events
  <2> QED BY <2>1, <2>2 DEF Logon, SessionDown, Restart
<1>2. line'.up => acceptor' = acceptor /\ line'.logons = line.logons + 1
  BY DEF Logon, SessionDown, Restart, FixTypeOK
<1>3. line'.logons \in {line.logons, line.logons + 1} /\ line.logons \in Nat
  BY DEF Logon, SessionDown, Restart, FixTypeOK
<1>4. /\ DOMAIN inbound' = DOMAIN inbound
      /\ \A a \in DOMAIN inbound : \A i, n : RequestAt(a, i, n)' <=> RequestAt(a, i, n)
      /\ \A a \in DOMAIN inbound : \A i, n : RequestAt(a, i, n) => i \in DOMAIN inbound[a] /\ i \in DOMAIN inbound'[a]
  BY <1>1, NoRequestMore
<1>5. \A n \in DOMAIN tasks : tasks[n].logon <= line.logons /\ tasks[n].logon \in Nat
  BY TasksAre DEF RequestsInv, InboundOK, Tasks
<1>6. InboundOK'
  <2>1. \A n \in DOMAIN tasks' : tasks'[n].logon <= line'.logons
    BY <1>1, <1>3, <1>5
  <2>2. ASSUME NEW n \in DOMAIN tasks', tasks'[n].pc = "inbound"
        PROVE  \E a \in DOMAIN inbound' : \E i \in DOMAIN inbound'[a] : RequestAt(a, i, n)'
    <3>1. PICK a \in DOMAIN inbound : \E i : RequestAt(a, i, n)
      BY <1>1, <2>2 DEF RequestsInv, InboundOK
    <3>2. PICK i : RequestAt(a, i, n)
      BY <3>1
    <3> QED BY <1>4, <3>1, <3>2
  <2>3. ASSUME NEW a \in DOMAIN inbound', NEW n \in DOMAIN tasks', NEW i \in DOMAIN inbound'[a], RequestAt(a, i, n)'
        PROVE  tasks'[n].pc = "inbound" /\ (a < acceptor' /\ line'.up => tasks'[n].logon < line'.logons)
    <3>1. a \in DOMAIN inbound /\ n \in DOMAIN tasks /\ i \in DOMAIN inbound[a] /\ RequestAt(a, i, n)
      BY <1>1, <1>4, <2>3
    <3>2. tasks[n].pc = "inbound"
      BY <3>1 DEF RequestsInv, InboundOK
    <3> QED BY <1>1, <1>2, <1>3, <1>5, <3>1, <3>2
  <2>4. ASSUME NEW a \in DOMAIN inbound', NEW m \in DOMAIN tasks', NEW n \in DOMAIN tasks',
               NEW i \in DOMAIN inbound'[a], NEW j \in DOMAIN inbound'[a], RequestAt(a, i, m)', RequestAt(a, j, n)', i < j
        PROVE  m < n
    <3>1. /\ a \in DOMAIN inbound /\ n \in DOMAIN tasks /\ m \in DOMAIN tasks /\ i \in DOMAIN inbound[a]
          /\ j \in DOMAIN inbound[a] /\ RequestAt(a, i, m) /\ RequestAt(a, j, n)
      BY <1>1, <1>4, <2>4
    <3> QED BY <2>4, <3>1 DEF RequestsInv, InboundOK
  <2>5. ASSUME NEW a \in DOMAIN inbound', NEW b \in DOMAIN inbound', NEW m \in DOMAIN tasks', NEW n \in DOMAIN tasks',
               NEW i \in DOMAIN inbound'[a], NEW j \in DOMAIN inbound'[b], RequestAt(a, i, m)', RequestAt(b, j, n)', a # b
        PROVE  tasks'[m].logon # tasks'[n].logon
    <3>1. /\ a \in DOMAIN inbound /\ b \in DOMAIN inbound /\ n \in DOMAIN tasks /\ m \in DOMAIN tasks
          /\ i \in DOMAIN inbound[a] /\ j \in DOMAIN inbound[b] /\ RequestAt(a, i, m) /\ RequestAt(b, j, n)
      BY <1>1, <1>4, <2>5
    <3> QED BY <1>1, <2>5, <3>1 DEF RequestsInv, InboundOK
  <2> QED BY <2>1, <2>2, <2>3, <2>4, <2>5 DEF InboundOK
<1>7. ToldOK'
  <2>1. \A n \in DOMAIN tasks : ~(line'.up /\ line'.logons = tasks[n].logon)
    BY <1>2, <1>3, <1>5
  <2> QED BY <1>1, <2>1 DEF RequestsInv, ToldOK
<1>8. PlacingOK' /\ StoredOK' /\ BehindOK' /\ KindsOK'
  BY <1>1 DEF RequestsInv, PlacingOK, StoredOK, BehindOK, KindsOK, KindOK, Held
<1> QED BY <1>6, <1>7, <1>8 DEF RequestsInv

\* Where the channels are, and the events in them.
LEMMA InboundIs ==
  ASSUME FixTypeOK
  PROVE  /\ DOMAIN inbound = 1..(MaxRestarts + 1) /\ acceptor \in Nat
         /\ \A a \in DOMAIN inbound : /\ a \in Nat /\ inbound[a] \in Seq(Events)
                                      /\ a < acceptor \/ a = acceptor \/ inbound[a] = <<>>
         /\ \A a \in DOMAIN inbound : \A i \in DOMAIN inbound[a] : i \in Nat /\ i # 0
<1>1. inbound \in [1..(MaxRestarts + 1) -> Seq(Events)] /\ acceptor \in 1..(MaxRestarts + 1)
  BY DEF FixTypeOK
<1>2. \A a \in DOMAIN inbound : a \in Nat /\ inbound[a] \in Seq(Events) /\ DOMAIN inbound[a] = 1..Len(inbound[a])
  BY <1>1
<1>3. \A a \in DOMAIN inbound : a < acceptor \/ a = acceptor \/ inbound[a] = <<>>
  BY <1>1, <1>2 DEF FixTypeOK
<1> QED BY <1>1, <1>2, <1>3

\* A request comes in, behind those that are there.
LEMMA OneRequestMore ==
  ASSUME FixTypeOK, NEW e \in Events, e.kind = "Request", Inform(e)
  PROVE  \E b \in DOMAIN inbound, last \in Nat :
           /\ b = acceptor /\ DOMAIN inbound' = DOMAIN inbound
           /\ last \in DOMAIN inbound'[b] /\ RequestAt(b, last, e.task)'
           /\ \A i \in DOMAIN inbound[b] : i < last
           /\ \A a \in DOMAIN inbound : \A i, n : RequestAt(a, i, n) => RequestAt(a, i, n)' /\ i \in DOMAIN inbound'[a]
           /\ \A a \in DOMAIN inbound : \A i, n : RequestAt(a, i, n)' =>
                 \/ RequestAt(a, i, n) /\ i \in DOMAIN inbound[a]
                 \/ a = b /\ i = last /\ n = e.task
<1>1. /\ DOMAIN inbound' = DOMAIN inbound /\ acceptor \in DOMAIN inbound /\ inbound[acceptor] \in Seq(Events)
      /\ inbound'[acceptor] = Append(inbound[acceptor], e)
      /\ \A a \in DOMAIN inbound : a # acceptor => inbound'[a] = inbound[a]
  BY InformIs
<1>2. PICK q \in Seq(Events), b \in DOMAIN inbound : b = acceptor /\ q = inbound[b]
  BY <1>1
<1>3. PICK r : r = Append(q, e)
  OBVIOUS
<1>4. PICK last \in Nat : last = Len(q) + 1
  OBVIOUS
<1>5. DOMAIN r = DOMAIN q \cup {last} /\ (\A j \in DOMAIN q : r[j] = q[j] /\ j < last) /\ r[last] = e
  BY <1>3, <1>4, AppendEvents
<1>6. inbound[b] = q /\ inbound'[b] = r
  BY <1>1, <1>2, <1>3
<1>7. /\ RequestAt(b, last, e.task)' /\ last \in DOMAIN inbound'[b]
      /\ \A i, n : RequestAt(b, i, n) => RequestAt(b, i, n)' /\ i \in DOMAIN inbound'[b]
  BY <1>5, <1>6 DEF RequestAt
<1>8. ASSUME NEW i, NEW n, RequestAt(b, i, n)'
      PROVE  (RequestAt(b, i, n) /\ i \in DOMAIN inbound[b]) \/ (i = last /\ n = e.task)
  BY <1>5, <1>6, <1>8 DEF RequestAt
<1>9. \A a \in DOMAIN inbound : a # b =>
        /\ \A i, n : RequestAt(a, i, n) => RequestAt(a, i, n)' /\ i \in DOMAIN inbound'[a]
        /\ \A i, n : RequestAt(a, i, n)' => RequestAt(a, i, n) /\ i \in DOMAIN inbound[a]
  BY <1>1, <1>2 DEF RequestAt
<1>10. \A a \in DOMAIN inbound : \A i, n : RequestAt(a, i, n) => RequestAt(a, i, n)' /\ i \in DOMAIN inbound'[a]
  BY <1>7, <1>9
<1>11. \A a \in DOMAIN inbound : \A i, n : RequestAt(a, i, n)' =>
                 \/ RequestAt(a, i, n) /\ i \in DOMAIN inbound[a]
                 \/ a = b /\ i = last /\ n = e.task
  BY <1>8, <1>9
<1>12. \A i \in DOMAIN inbound[b] : i < last
  BY <1>5, <1>6
<1> QED BY <1>1, <1>2, <1>4, <1>7, <1>10, <1>11, <1>12

LEMMA SendsKeepInbound ==
  ASSUME FixTypeOK, RequestsInv, NEW t \in Tasks, NEW e \in Events, Sent(t, e)
  PROVE  InboundOK'
<1>1. /\ line' = line /\ acceptor' = acceptor /\ line.up /\ t.logon = line.logons /\ t.logon \in Nat
      /\ tasks' = Append(tasks, t)
  BY DEF Sent, Tasks
<1>2. PICK new : new = Len(tasks) + 1
  OBVIOUS
<1>3. /\ DOMAIN tasks' = DOMAIN tasks \cup {new} /\ tasks'[new] = t /\ new \notin DOMAIN tasks
      /\ \A m \in DOMAIN tasks : tasks'[m] = tasks[m] /\ m < new
  BY <1>1, <1>2, NewTask
<1>4. \A n \in DOMAIN tasks' : tasks'[n].logon <= line'.logons
  BY <1>1, <1>3 DEF RequestsInv, InboundOK
<1>5. CASE inbound' = inbound /\ t.pc = "done"
  <2>1. \A a, i, n : RequestAt(a, i, n)' <=> RequestAt(a, i, n)
    BY <1>5 DEF RequestAt
  <2>2. \A n : \A a \in DOMAIN inbound : \A i \in DOMAIN inbound[a] : RequestAt(a, i, n) => n \in DOMAIN tasks
    BY DEF RequestAt, FixTypeOK
  <2> QED BY <1>1, <1>3, <1>4, <1>5, <2>1, <2>2 DEF RequestsInv, InboundOK
<1>6. CASE t.pc = "inbound" /\ e.kind = "Request" /\ e.task = new /\ Inform(e)
  <2>1. PICK b \in DOMAIN inbound, last \in Nat :
           /\ b = acceptor /\ DOMAIN inbound' = DOMAIN inbound
           /\ last \in DOMAIN inbound'[b] /\ RequestAt(b, last, e.task)'
           /\ \A i \in DOMAIN inbound[b] : i < last
           /\ \A a \in DOMAIN inbound : \A i, n : RequestAt(a, i, n) => RequestAt(a, i, n)' /\ i \in DOMAIN inbound'[a]
           /\ \A a \in DOMAIN inbound : \A i, n : RequestAt(a, i, n)' =>
                 \/ RequestAt(a, i, n) /\ i \in DOMAIN inbound[a]
                 \/ a = b /\ i = last /\ n = e.task
    BY <1>6, OneRequestMore
  <2>2. \A a \in DOMAIN inbound : \A i \in DOMAIN inbound[a] : \A n : RequestAt(a, i, n) => n \in DOMAIN tasks
    BY DEF RequestAt, FixTypeOK
  <2>3. ASSUME NEW n \in DOMAIN tasks', tasks'[n].pc = "inbound"
        PROVE  \E a \in DOMAIN inbound' : \E i \in DOMAIN inbound'[a] : RequestAt(a, i, n)'
    <3>1. CASE n = new
      BY <1>6, <2>1, <3>1
    <3>2. CASE n # new
      <4>1. PICK a \in DOMAIN inbound : \E i : RequestAt(a, i, n)
        BY <1>3, <2>3, <3>2 DEF RequestsInv, InboundOK
      <4> QED BY <2>1, <4>1
    <3> QED BY <3>1, <3>2
  <2>4. ASSUME NEW a \in DOMAIN inbound', NEW n \in DOMAIN tasks', NEW i \in DOMAIN inbound'[a], RequestAt(a, i, n)'
        PROVE  tasks'[n].pc = "inbound" /\ (a < acceptor' /\ line'.up => tasks'[n].logon < line'.logons)
    <3>1. CASE a = b /\ i = last /\ n = e.task
      <4>1. ~(b < acceptor)
        BY <2>1 DEF FixTypeOK
      <4> QED BY <1>1, <1>3, <1>6, <2>1, <3>1, <4>1
    <3>2. CASE RequestAt(a, i, n) /\ i \in DOMAIN inbound[a]
      <4>1. a \in DOMAIN inbound /\ n \in DOMAIN tasks
        BY <2>1, <2>2, <3>2
      <4>2. tasks[n].pc = "inbound" /\ (a < acceptor /\ line.up => tasks[n].logon < line.logons)
        BY <3>2, <4>1 DEF RequestsInv, InboundOK
      <4> QED BY <1>1, <1>3, <4>1, <4>2
    <3> QED BY <2>1, <2>4, <3>1, <3>2
  <2>5. ASSUME NEW a \in DOMAIN inbound', NEW m \in DOMAIN tasks', NEW n \in DOMAIN tasks',
               NEW i \in DOMAIN inbound'[a], NEW j \in DOMAIN inbound'[a], RequestAt(a, i, m)', RequestAt(a, j, n)', i < j
        PROVE  m < n
    <3>1. CASE RequestAt(a, i, m) /\ i \in DOMAIN inbound[a] /\ RequestAt(a, j, n) /\ j \in DOMAIN inbound[a]
      BY <2>1, <2>2, <2>5, <3>1 DEF RequestsInv, InboundOK
    <3>2. CASE RequestAt(a, i, m) /\ i \in DOMAIN inbound[a] /\ n = new
      BY <1>3, <2>1, <2>2, <3>2
    <3>3. CASE a = b /\ i = last
      <4>1. j \in Nat
        BY <2>1, <2>5, <3>3, InboundIs
      <4>2. j = last \/ j < last
        BY <2>1, <2>5, <3>3
      <4> QED BY <2>1, <2>5, <3>3, <4>1, <4>2
    <3> QED BY <1>6, <2>1, <2>5, <3>1, <3>2, <3>3
  <2>6. ASSUME NEW a \in DOMAIN inbound', NEW c \in DOMAIN inbound', NEW m \in DOMAIN tasks', NEW n \in DOMAIN tasks',
               NEW i \in DOMAIN inbound'[a], NEW j \in DOMAIN inbound'[c], RequestAt(a, i, m)', RequestAt(c, j, n)', a # c
        PROVE  tasks'[m].logon # tasks'[n].logon
    <3>1. \A x \in DOMAIN inbound : \A k, y : RequestAt(x, k, y) /\ k \in DOMAIN inbound[x] /\ x # b =>
             y \in DOMAIN tasks /\ tasks'[y].logon < line.logons
      <4>1. ASSUME NEW x \in DOMAIN inbound, NEW k, NEW y, RequestAt(x, k, y), k \in DOMAIN inbound[x], x # b
            PROVE  y \in DOMAIN tasks /\ tasks'[y].logon < line.logons
        <5>1. x < acceptor
          BY <2>1, <4>1, InboundIs DEF FixTypeOK
        <5>2. y \in DOMAIN tasks
          BY <2>2, <4>1
        <5>3. tasks[y].logon < line.logons
          BY <1>1, <4>1, <5>1, <5>2 DEF RequestsInv, InboundOK
        <5> QED BY <1>3, <5>2, <5>3
      <4> QED BY <4>1
    <3>2. line.logons \in Nat /\ \A y \in DOMAIN tasks : tasks[y].logon \in Nat
      BY TasksAre DEF FixTypeOK, Tasks
    <3>3. CASE RequestAt(a, i, m) /\ i \in DOMAIN inbound[a] /\ RequestAt(c, j, n) /\ j \in DOMAIN inbound[c]
      <4>1. a \in DOMAIN inbound /\ c \in DOMAIN inbound /\ m \in DOMAIN tasks /\ n \in DOMAIN tasks
        BY <2>1, <2>2, <3>3
      <4>2. tasks[m].logon # tasks[n].logon
        BY <2>6, <3>3, <4>1 DEF RequestsInv, InboundOK
      <4> QED BY <1>3, <4>1, <4>2
    <3>4. CASE a = b /\ m = new
      <4>1. RequestAt(c, j, n) /\ j \in DOMAIN inbound[c] /\ c \in DOMAIN inbound
        BY <2>1, <2>6, <3>4
      <4>2. n \in DOMAIN tasks /\ tasks'[n].logon < line.logons
        BY <2>6, <3>1, <3>4, <4>1
      <4> QED BY <1>1, <1>3, <3>2, <3>4, <4>2
    <3>5. CASE c = b /\ n = new
      <4>1. RequestAt(a, i, m) /\ i \in DOMAIN inbound[a] /\ a \in DOMAIN inbound
        BY <2>1, <2>6, <3>5
      <4>2. m \in DOMAIN tasks /\ tasks'[m].logon < line.logons
        BY <2>6, <3>1, <3>5, <4>1
      <4> QED BY <1>1, <1>3, <3>2, <3>5, <4>2
    <3> QED BY <1>6, <2>1, <2>6, <3>3, <3>4, <3>5
  <2> QED BY <1>4, <2>3, <2>4, <2>5, <2>6 DEF InboundOK
<1> QED BY <1>2, <1>5, <1>6 DEF Sent

\* The new task disturbs nobody's place, row or answers.
LEMMA SendsKeepTasks ==
  ASSUME FixTypeOK, RequestsInv, ~Resends, NEW t \in Tasks, NEW e \in Events, Sent(t, e)
  PROVE  KindsOK' /\ PlacingOK' /\ StoredOK' /\ ToldOK' /\ BehindOK'
<1>1. /\ line' = line /\ rows' = rows /\ placing' = placing /\ tasks' = Append(tasks, t) /\ ~t.unknown
      /\ t.id \in ClOrdIds /\ t.pc \in {"inbound", "done"} /\ t.request \in Requests
      /\ t.request = "BusinessReject" <=> t.pc = "done"
      /\ t.request = "NewOrder" => ~Unanswered(t.id)
  BY DEF Sent, Tasks
<1>2. PICK new : new = Len(tasks) + 1
  OBVIOUS
<1>3. /\ DOMAIN tasks' = DOMAIN tasks \cup {new} /\ tasks'[new] = t /\ new \notin DOMAIN tasks /\ new # 0
      /\ \A m \in DOMAIN tasks : tasks'[m] = tasks[m] /\ m < new
  BY <1>1, <1>2, NewTask
<1>4. \A m \in DOMAIN tasks : tasks[m].id \in ClOrdIds /\ m \in Nat
  BY TasksAre DEF Tasks
<1>5. \/ told' = told /\ t.pc # "done"
      \/ t.pc = "done" /\ t.request = "BusinessReject" /\ \E r : r.task = new /\ told' = told \cup {r}
  BY <1>2 DEF Sent
<1>6. KindsOK'
  <2>1. KindOK(new)' /\ tasks'[new].pc # "wait"
    BY <1>1, <1>3 DEF KindOK, Names
  <2>2. \A n \in DOMAIN tasks : KindOK(n)' /\ (tasks'[n].pc = "wait" => tasks'[n].lock \in DOMAIN tasks')
    BY <1>3 DEF RequestsInv, KindsOK, KindOK
  <2> QED BY <1>3, <2>1, <2>2 DEF KindsOK
<1>7. PlacingOK'
  <2>1. ASSUME NEW m \in DOMAIN tasks', NEW n \in DOMAIN tasks', tasks'[m].request = "NewOrder",
               tasks'[n].request = "NewOrder", tasks'[m].id = tasks'[n].id, tasks'[m].pc # "done", tasks'[n].pc # "done"
        PROVE  m = n
    <3>1. CASE m # new /\ n # new
      BY <1>3, <2>1, <3>1 DEF RequestsInv, PlacingOK
    <3>2. CASE m = new /\ n # new
      BY <1>1, <1>3, <2>1, <3>2 DEF Unanswered
    <3>3. CASE n = new /\ m # new
      BY <1>1, <1>3, <2>1, <3>3 DEF Unanswered
    <3> QED BY <3>1, <3>2, <3>3
  <2>2. ASSUME NEW n \in DOMAIN tasks', tasks'[n].request = "NewOrder", Held(n)' PROVE placing'[tasks'[n].id] = n
    <3>1. n # new
      BY <1>1, <1>3, <2>2 DEF Held
    <3> QED BY <1>1, <1>3, <2>2, <3>1 DEF RequestsInv, PlacingOK, Held
  <2>3. \A c \in ClOrdIds : placing'[c] \in DOMAIN tasks' \cup {0}
    BY <1>1, <1>3 DEF RequestsInv, PlacingOK
  <2> QED BY <2>1, <2>2, <2>3 DEF PlacingOK
<1>8. \A c \in ClOrdIds : rows[c].by # new
  BY <1>3 DEF RequestsInv, StoredOK
<1>9. StoredOK'
  <2>1. ASSUME NEW n \in DOMAIN tasks', tasks'[n].request = "NewOrder"
        PROVE  /\ rows'[tasks'[n].id].by = n => tasks'[n].pc \in {"route", "check", "done"}
               /\ tasks'[n].pc = "submit" => rows'[tasks'[n].id].by = 0
               /\ tasks'[n].pc = "check" => rows'[tasks'[n].id].by \in {0, n}
               /\ tasks'[n].pc = "route" => rows'[tasks'[n].id].by = n
    <3>1. CASE n = new
      BY <1>1, <1>3, <1>8, <3>1
    <3>2. CASE n # new
      BY <1>1, <1>3, <2>1, <3>2 DEF RequestsInv, StoredOK
    <3> QED BY <3>1, <3>2
  <2>2. \A c \in ClOrdIds : (rows'[c].status = "none" <=> rows'[c].by = 0) /\ rows'[c].by \in DOMAIN tasks' \cup {0}
    BY <1>1, <1>3 DEF RequestsInv, StoredOK
  <2> QED BY <2>1, <2>2 DEF StoredOK
<1>10. \A r \in told : r.task # new /\ r.task \in DOMAIN tasks /\ tasks[r.task].pc = "done"
  BY <1>3 DEF RequestsInv, ToldOK, FixTypeOK
<1>11. ToldOK'
  <2>1. \A r \in told' : tasks'[r.task].pc = "done"
    BY <1>3, <1>5, <1>10
  <2>2. ASSUME NEW n \in DOMAIN tasks', tasks'[n].pc = "done", line'.up, line'.logons = tasks'[n].logon, ~tasks'[n].fault
        PROVE  /\ QueueAnswers(n)' => \A r \in told' : r.task # n
               /\ ~QueueAnswers(n)' => \E r \in told' : r.task = n /\ \A s \in told' : s.task = n => s = r
    <3>1. CASE n = new
      <4>1. ~QueueAnswers(n)' /\ t.pc = "done"
        BY <1>1, <1>3, <2>2, <3>1 DEF QueueAnswers
      <4>2. PICK r : r.task = new /\ told' = told \cup {r}
        BY <1>5, <4>1
      <4> QED BY <1>10, <3>1, <4>1, <4>2
    <3>2. CASE n # new
      <4>1. QueueAnswers(n)' <=> QueueAnswers(n)
        BY <1>1, <1>3, <3>2 DEF QueueAnswers
      <4>2. n \in DOMAIN tasks /\ tasks'[n] = tasks[n]
        BY <1>3, <3>2
      <4>3. /\ QueueAnswers(n) => \A r \in told : r.task # n
            /\ ~QueueAnswers(n) => \E r \in told : r.task = n /\ \A s \in told : s.task = n => s = r
        BY <1>1, <2>2, <4>2 DEF RequestsInv, ToldOK
      <4>4. told \subseteq told' /\ \A r \in told' : r.task = n => r \in told
        BY <1>5, <3>2
      <4> QED BY <4>1, <4>3, <4>4
    <3> QED BY <3>1, <3>2
  <2> QED BY <2>1, <2>2 DEF ToldOK
<1>12. BehindOK'
  <2> SUFFICES ASSUME NEW m \in DOMAIN tasks', NEW n \in DOMAIN tasks',
                      m < n, tasks'[m].request = "NewOrder", tasks'[n].request \in Names,
                      tasks'[m].id = tasks'[n].id, tasks'[m].logon = tasks'[n].logon
               PROVE  /\ tasks'[m].pc = "inbound" => tasks'[n].pc = "inbound"
                      /\ tasks'[n].pc = "wait" => tasks'[n].lock = m \/ tasks'[m].pc \in {"done", "dropped"}
                      /\ tasks'[n].pc \in {"look", "done"} => tasks'[m].pc \in {"done", "dropped"}
                      /\ tasks'[n].unknown => rows'[tasks'[m].id].by # m
    BY DEF BehindOK
  <2>1. m \in DOMAIN tasks
    <3>1. m # new \/ n = new
      BY <1>2, <1>3, <1>4, TasksAre
    <3> QED BY <1>2, <1>3, <3>1, TasksAre
  <2>2. CASE n = new
    BY <1>1, <1>3, <2>2 DEF Names
  <2>3. CASE n # new
    BY <1>1, <1>3, <2>1, <2>3 DEF RequestsInv, BehindOK
  <2> QED BY <2>2, <2>3
<1> QED BY <1>6, <1>7, <1>9, <1>11, <1>12

\* The first event goes, the others move up.
LEMMA OneEventLess ==
  ASSUME FixTypeOK, NEW a \in DOMAIN inbound, RunLoop(a)
  PROVE  /\ DOMAIN inbound' = DOMAIN inbound /\ 1 \in DOMAIN inbound[a]
         /\ \A i, n : RequestAt(a, i, n)' => i \in Nat /\ i # 0 /\ i + 1 \in DOMAIN inbound[a] /\ RequestAt(a, i + 1, n)
         /\ \A i \in DOMAIN inbound[a] : \A n : RequestAt(a, i, n) => i = 1 \/ \E j \in DOMAIN inbound'[a] : RequestAt(a, j, n)'
         /\ \A b \in DOMAIN inbound : b # a => inbound'[b] = inbound[b] /\ \A i, n : RequestAt(b, i, n)' <=> RequestAt(b, i, n)
<1>1. inbound[a] # <<>> /\ inbound' = [inbound EXCEPT ![a] = Tail(@)] /\ 1 \in DOMAIN inbound[a]
  BY LoopTakes
<1>2. /\ DOMAIN inbound' = DOMAIN inbound
      /\ inbound[a] \in Seq(Events) /\ inbound'[a] = Tail(inbound[a])
      /\ \A b \in DOMAIN inbound : b # a => inbound'[b] = inbound[b]
  BY <1>1, TakenIs
<1>3. PICK q \in Seq(Events) : q = inbound[a]
  BY <1>2
<1>4. PICK r : r = Tail(q)
  OBVIOUS
<1>5. /\ DOMAIN r = 1..(Len(q) - 1) /\ DOMAIN q = 1..Len(q) /\ Len(q) \in Nat
      /\ \A j \in 1..(Len(q) - 1) : r[j] = q[j + 1]
  BY <1>1, <1>3, <1>4, TailIs
<1>6. inbound'[a] = r /\ inbound[a] = q
  BY <1>2, <1>3, <1>4
<1>7. ASSUME NEW i, NEW n, RequestAt(a, i, n)'
      PROVE  i \in Nat /\ i # 0 /\ i + 1 \in DOMAIN inbound[a] /\ RequestAt(a, i + 1, n)
  <2>1. i \in DOMAIN r /\ r[i].kind = "Request" /\ r[i].task = n
    BY <1>6, <1>7 DEF RequestAt
  <2>2. i \in 1..(Len(q) - 1) /\ r[i] = q[i + 1]
    BY <1>5, <2>1
  <2>3. i \in Nat /\ i # 0 /\ i + 1 \in DOMAIN q
    BY <1>5, <2>2
  <2> QED BY <1>6, <2>1, <2>2, <2>3 DEF RequestAt
<1>8. ASSUME NEW i \in DOMAIN inbound[a], NEW n, RequestAt(a, i, n), i # 1
      PROVE  \E j \in DOMAIN inbound'[a] : RequestAt(a, j, n)'
  <2>1. i \in 1..Len(q) /\ q[i].kind = "Request" /\ q[i].task = n
    BY <1>5, <1>6, <1>8 DEF RequestAt
  <2>2. PICK j \in 1..(Len(q) - 1) : j + 1 = i
    <3>1. i - 1 \in 1..(Len(q) - 1) /\ (i - 1) + 1 = i
      BY <1>5, <1>8, <2>1
    <3> QED BY <3>1
  <2>3. j \in DOMAIN r /\ r[j] = q[i]
    BY <1>5, <2>2
  <2> QED BY <1>6, <2>1, <2>3 DEF RequestAt
<1>9. \A b \in DOMAIN inbound : b # a => \A i, n : RequestAt(b, i, n)' <=> RequestAt(b, i, n)
  BY <1>2 DEF RequestAt
<1> QED BY <1>1, <1>2, <1>7, <1>8, <1>9

\* A request that a loop takes is no other's, and no request of its logon sent
\* before it waits any more.
LEMMA FirstIs ==
  ASSUME FixTypeOK, RequestsInv, NEW a \in DOMAIN inbound, 1 \in DOMAIN inbound[a], inbound[a][1].kind = "Request",
         NEW n \in DOMAIN tasks, n = inbound[a][1].task
  PROVE  /\ tasks[n].pc = "inbound" /\ RequestAt(a, 1, n)
         /\ \A b \in DOMAIN inbound : \A i \in DOMAIN inbound[b] : RequestAt(b, i, n) => b = a /\ i = 1
         /\ \A m \in DOMAIN tasks : m < n /\ tasks[m].logon = tasks[n].logon => tasks[m].pc # "inbound"
<1>1. RequestAt(a, 1, n)
  BY DEF RequestAt
<1>2. tasks[n].pc = "inbound"
  BY <1>1 DEF RequestsInv, InboundOK
<1>3. n \in Nat /\ \A i \in DOMAIN inbound[a] : i \in Nat /\ i # 0 /\ (i # 1 => 1 < i)
  BY TasksAre, InboundIs
<1>4. ASSUME NEW b \in DOMAIN inbound, NEW i \in DOMAIN inbound[b], RequestAt(b, i, n) PROVE b = a /\ i = 1
  <2>1. b = a
    BY <1>1, <1>4 DEF RequestsInv, InboundOK
  <2>2. ASSUME i # 1 PROVE FALSE
    <3>1. 1 < i
      BY <1>3, <2>1, <2>2
    <3>2. n < n
      BY <1>1, <1>4, <2>1, <3>1 DEF RequestsInv, InboundOK
    <3> QED BY <1>3, <3>2
  <2> QED BY <2>1, <2>2
<1>5. ASSUME NEW m \in DOMAIN tasks, m < n, tasks[m].logon = tasks[n].logon, tasks[m].pc = "inbound" PROVE FALSE
  <2>0. PICK b \in DOMAIN inbound : \E i \in DOMAIN inbound[b] : RequestAt(b, i, m)
    BY <1>5 DEF RequestsInv, InboundOK
  <2>1. PICK i \in DOMAIN inbound[b] : RequestAt(b, i, m)
    BY <2>0
  <2>2. b = a
    BY <1>1, <1>5, <2>1 DEF RequestsInv, InboundOK
  <2>3. i # 1
    BY <1>1, <1>3, <1>5, <2>1, <2>2 DEF RequestAt
  <2>4. n < m
    BY <1>1, <1>3, <2>1, <2>2, <2>3 DEF RequestsInv, InboundOK
  <2> QED BY <1>3, <1>5, <2>4, TasksAre
<1> QED BY <1>1, <1>2, <1>4, <1>5

LEMMA LoopKeepsInbound ==
  ASSUME FixTypeOK, RequestsInv, NEW a \in DOMAIN inbound, RunLoop(a)
  PROVE  InboundOK'
<1>1. line' = line /\ acceptor' = acceptor
  BY LoopTakes
<1>2. /\ DOMAIN inbound' = DOMAIN inbound /\ 1 \in DOMAIN inbound[a]
      /\ \A i, n : RequestAt(a, i, n)' => i \in Nat /\ i # 0 /\ i + 1 \in DOMAIN inbound[a] /\ RequestAt(a, i + 1, n)
      /\ \A i \in DOMAIN inbound[a] : \A n : RequestAt(a, i, n) => i = 1 \/ \E j \in DOMAIN inbound'[a] : RequestAt(a, j, n)'
      /\ \A b \in DOMAIN inbound : b # a => inbound'[b] = inbound[b] /\ \A i, n : RequestAt(b, i, n)' <=> RequestAt(b, i, n)
  BY OneEventLess
<1>3. /\ DOMAIN tasks' = DOMAIN tasks /\ \A m \in DOMAIN tasks : tasks'[m].logon = tasks[m].logon
      /\ \A m \in DOMAIN tasks : tasks'[m].pc = "inbound" => tasks[m].pc = "inbound" /\ ~RequestAt(a, 1, m)
      /\ \A m \in DOMAIN tasks : tasks[m].pc = "inbound" /\ ~RequestAt(a, 1, m) => tasks'[m].pc = "inbound"
      /\ \A m \in DOMAIN tasks : RequestAt(a, 1, m) =>
           \A b \in DOMAIN inbound : \A i \in DOMAIN inbound[b] : RequestAt(b, i, m) => b = a /\ i = 1
  <2>1. CASE inbound[a][1].kind # "Request"
    <3>1. tasks' = tasks /\ \A m : ~RequestAt(a, 1, m)
      BY <2>1, LoopMoves DEF RequestAt
    <3> QED BY <3>1
  <2>2. CASE inbound[a][1].kind = "Request"
    <3>1. PICK n \in DOMAIN tasks, t \in Tasks : n = inbound[a][1].task /\ LoopMoved(n, t)
      BY <2>2, LoopMoves
    <3>2. DOMAIN tasks' = DOMAIN tasks /\ tasks'[n] = t /\ \A m \in DOMAIN tasks : m # n => tasks'[m] = tasks[m]
      BY <3>1, OneTask DEF LoopMoved
    <3>3. t.logon = tasks[n].logon /\ t.pc # "inbound"
      BY <3>1 DEF LoopMoved, SameRequest
    <3>4. \A m : RequestAt(a, 1, m) <=> m = n
      BY <1>2, <2>2, <3>1 DEF RequestAt
    <3>5. \A b \in DOMAIN inbound : \A i \in DOMAIN inbound[b] : RequestAt(b, i, n) => b = a /\ i = 1
      BY <1>2, <2>2, <3>1, FirstIs
    <3> QED BY <3>2, <3>3, <3>4, <3>5
  <2> QED BY <2>1, <2>2
<1>4. \A n \in DOMAIN tasks' : tasks'[n].logon <= line'.logons
  BY <1>1, <1>3 DEF RequestsInv, InboundOK
<1>5. ASSUME NEW b \in DOMAIN inbound', NEW i \in DOMAIN inbound'[b], NEW n, RequestAt(b, i, n)'
      PROVE  /\ n \in DOMAIN tasks
             /\ \E k \in DOMAIN inbound[b] : RequestAt(b, k, n) /\ (b = a => k = i + 1 /\ k # 1 /\ i \in Nat) /\ (b # a => k = i)
  <2>1. CASE b = a
    <3>1. i \in Nat /\ i # 0 /\ i + 1 \in DOMAIN inbound[a] /\ RequestAt(a, i + 1, n)
      BY <1>2, <1>5, <2>1
    <3>2. n \in DOMAIN tasks /\ i + 1 # 1
      BY <3>1 DEF RequestAt, FixTypeOK
    <3> QED BY <2>1, <3>1, <3>2
  <2>2. CASE b # a
    <3>1. b \in DOMAIN inbound /\ RequestAt(b, i, n) /\ i \in DOMAIN inbound[b]
      BY <1>2, <1>5, <2>2
    <3>2. n \in DOMAIN tasks
      BY <3>1 DEF RequestAt, FixTypeOK
    <3> QED BY <2>2, <3>1, <3>2
  <2> QED BY <2>1, <2>2
<1>6. ASSUME NEW n \in DOMAIN tasks', tasks'[n].pc = "inbound"
      PROVE  \E b \in DOMAIN inbound' : \E i \in DOMAIN inbound'[b] : RequestAt(b, i, n)'
  <2>1. n \in DOMAIN tasks /\ tasks[n].pc = "inbound" /\ ~RequestAt(a, 1, n)
    BY <1>3, <1>6
  <2>2. PICK b \in DOMAIN inbound : \E i \in DOMAIN inbound[b] : RequestAt(b, i, n)
    BY <2>1 DEF RequestsInv, InboundOK
  <2>3. PICK i \in DOMAIN inbound[b] : RequestAt(b, i, n)
    BY <2>2
  <2>4. CASE b = a
    BY <1>2, <2>1, <2>3, <2>4
  <2>5. CASE b # a
    BY <1>2, <2>3, <2>5
  <2> QED BY <2>4, <2>5
<1>7. ASSUME NEW b \in DOMAIN inbound', NEW n \in DOMAIN tasks', NEW i \in DOMAIN inbound'[b], RequestAt(b, i, n)'
      PROVE  tasks'[n].pc = "inbound" /\ (b < acceptor' /\ line'.up => tasks'[n].logon < line'.logons)
  <2>1. n \in DOMAIN tasks /\ b \in DOMAIN inbound
    BY <1>2, <1>3
  <2>2. PICK k \in DOMAIN inbound[b] : RequestAt(b, k, n) /\ (b = a => k # 1)
    BY <1>5, <1>7
  <2>3. tasks[n].pc = "inbound" /\ (b < acceptor /\ line.up => tasks[n].logon < line.logons)
    BY <2>1, <2>2 DEF RequestsInv, InboundOK
  <2>4. ~RequestAt(a, 1, n)
    BY <1>3, <2>1, <2>2
  <2> QED BY <1>1, <1>3, <2>1, <2>3, <2>4
<1>8. ASSUME NEW b \in DOMAIN inbound', NEW m \in DOMAIN tasks', NEW n \in DOMAIN tasks',
             NEW i \in DOMAIN inbound'[b], NEW j \in DOMAIN inbound'[b], RequestAt(b, i, m)', RequestAt(b, j, n)', i < j
      PROVE  m < n
  <2>1. PICK k \in DOMAIN inbound[b] : RequestAt(b, k, m) /\ (b = a => k = i + 1 /\ i \in Nat) /\ (b # a => k = i)
    BY <1>5, <1>8
  <2>2. PICK l \in DOMAIN inbound[b] : RequestAt(b, l, n) /\ (b = a => l = j + 1 /\ j \in Nat) /\ (b # a => l = j)
    BY <1>5, <1>8
  <2>3. k < l
    BY <1>8, <2>1, <2>2
  <2> QED BY <1>2, <1>3, <2>1, <2>2, <2>3 DEF RequestsInv, InboundOK
<1>9. ASSUME NEW b \in DOMAIN inbound', NEW c \in DOMAIN inbound', NEW m \in DOMAIN tasks', NEW n \in DOMAIN tasks',
             NEW i \in DOMAIN inbound'[b], NEW j \in DOMAIN inbound'[c], RequestAt(b, i, m)', RequestAt(c, j, n)', b # c
      PROVE  tasks'[m].logon # tasks'[n].logon
  <2>1. PICK k \in DOMAIN inbound[b] : RequestAt(b, k, m)
    BY <1>5, <1>9
  <2>2. PICK l \in DOMAIN inbound[c] : RequestAt(c, l, n)
    BY <1>5, <1>9
  <2>3. tasks[m].logon # tasks[n].logon
    BY <1>2, <1>3, <1>9, <2>1, <2>2 DEF RequestsInv, InboundOK
  <2> QED BY <1>3, <2>3
<1> QED BY <1>4, <1>6, <1>7, <1>8, <1>9 DEF InboundOK

LEMMA LoopKeepsTasks ==
  ASSUME FixTypeOK, RequestsInv, NEW a \in DOMAIN inbound, RunLoop(a)
  PROVE  KindsOK' /\ PlacingOK' /\ StoredOK' /\ ToldOK' /\ BehindOK'
<1>1. UNCHANGED <<line, rows, told>>
  BY LoopTakes
<1>2. CASE inbound[a][1].kind # "Request"
  <2>1. tasks' = tasks /\ placing' = placing
    BY <1>2, LoopMoves
  <2> QED BY <1>1, <2>1 DEF RequestsInv, KindsOK, KindOK, PlacingOK, StoredOK, ToldOK, QueueAnswers, BehindOK, Held
<1>3. CASE inbound[a][1].kind = "Request"
  <2>1. PICK n \in DOMAIN tasks, t \in Tasks : n = inbound[a][1].task /\ LoopMoved(n, t)
    BY <1>3, LoopMoves
  <2>2. /\ DOMAIN tasks' = DOMAIN tasks /\ tasks'[n] = t /\ n \in Nat /\ n # 0
        /\ \A m \in DOMAIN tasks : m # n => tasks'[m] = tasks[m]
    BY <2>1, OneTask, TasksAre DEF LoopMoved
  <2>3. /\ t.request = tasks[n].request /\ t.id = tasks[n].id /\ t.logon = tasks[n].logon /\ t.unknown = tasks[n].unknown
        /\ t.id \in ClOrdIds
    BY <2>1 DEF LoopMoved, SameRequest, Tasks
  <2>4. /\ tasks[n].pc = "inbound"
        /\ \A m \in DOMAIN tasks : m < n /\ tasks[m].logon = tasks[n].logon => tasks[m].pc # "inbound"
    <3>1. 1 \in DOMAIN inbound[a]
      BY LoopTakes
    <3> QED BY <1>3, <2>1, <3>1, FirstIs
  <2>5. /\ tasks[n].request # "BusinessReject" /\ ~tasks[n].unknown
    BY <2>4 DEF RequestsInv, KindsOK, KindOK
  <2>6. \/ t.pc = "dropped" /\ placing' = placing
        \/ t.pc = "started" /\ t.request \in Names /\ placing' = placing
        \/ t.pc = "look" /\ t.request = "NewOrder" /\ placing' = [placing EXCEPT ![t.id] = n]
        \/ t.pc = "look" /\ t.request \notin Names \cup {"NewOrder"} /\ placing' = placing
    BY <2>1 DEF LoopMoved, Names
  <2>7. placing \in [ClOrdIds -> Nat] /\ \A m \in DOMAIN tasks : tasks[m].id \in ClOrdIds
    BY TasksAre DEF Tasks
  <2>8. KindsOK'
    <3>1. KindOK(n)' /\ t.pc # "wait"
      BY <2>2, <2>3, <2>5, <2>6 DEF KindOK, Names
    <3>2. ASSUME NEW m \in DOMAIN tasks, m # n PROVE KindOK(m)' /\ (tasks'[m].pc = "wait" => tasks'[m].lock \in DOMAIN tasks')
      BY <2>2, <3>2 DEF RequestsInv, KindsOK, KindOK
    <3> QED BY <2>2, <3>1, <3>2 DEF KindsOK
  <2>9. PlacingOK'
    <3>1. ASSUME NEW l \in DOMAIN tasks', NEW m \in DOMAIN tasks', tasks'[l].request = "NewOrder",
                 tasks'[m].request = "NewOrder", tasks'[l].id = tasks'[m].id, tasks'[l].pc # "done", tasks'[m].pc # "done"
          PROVE  l = m
      <4>1. /\ tasks[l].request = "NewOrder" /\ tasks[m].request = "NewOrder" /\ tasks[l].id = tasks[m].id
            /\ tasks[l].pc # "done" /\ tasks[m].pc # "done"
        BY <2>2, <2>3, <2>4, <3>1
      <4> QED BY <2>2, <4>1 DEF RequestsInv, PlacingOK
    <3>2. ASSUME NEW m \in DOMAIN tasks', tasks'[m].request = "NewOrder", Held(m)' PROVE placing'[tasks'[m].id] = m
      <4>1. CASE m = n
        BY <2>2, <2>3, <2>6, <2>7, <3>2, <4>1 DEF Held, Names
      <4>2. CASE m # n
        <5>1. tasks[m] = tasks'[m] /\ Held(m) /\ tasks[m].pc # "done"
          BY <2>2, <3>2, <4>2 DEF Held
        <5>2. placing[tasks[m].id] = m
          BY <2>2, <3>2, <5>1 DEF RequestsInv, PlacingOK
        <5>3. t.request = "NewOrder" => tasks[m].id # t.id
          BY <2>2, <2>3, <2>4, <3>2, <4>2, <5>1 DEF RequestsInv, PlacingOK
        <5>4. placing'[tasks[m].id] = placing[tasks[m].id]
          BY <2>2, <2>6, <2>7, <5>3
        <5> QED BY <5>1, <5>2, <5>4
      <4> QED BY <4>1, <4>2
    <3>3. \A c \in ClOrdIds : placing'[c] \in DOMAIN tasks' \cup {0}
      BY <2>2, <2>6, <2>7 DEF RequestsInv, PlacingOK
    <3> QED BY <3>1, <3>2, <3>3 DEF PlacingOK
  <2>10. StoredOK'
    <3>1. ASSUME NEW m \in DOMAIN tasks', tasks'[m].request = "NewOrder"
          PROVE  /\ rows'[tasks'[m].id].by = m => tasks'[m].pc \in {"route", "check", "done"}
                 /\ tasks'[m].pc = "submit" => rows'[tasks'[m].id].by = 0
                 /\ tasks'[m].pc = "check" => rows'[tasks'[m].id].by \in {0, m}
                 /\ tasks'[m].pc = "route" => rows'[tasks'[m].id].by = m
      <4>1. CASE m = n
        <5>1. rows[t.id].by # n
          BY <2>2, <2>3, <2>4, <3>1, <4>1 DEF RequestsInv, StoredOK
        <5> QED BY <1>1, <2>2, <2>6, <4>1, <5>1
      <4>2. CASE m # n
        BY <1>1, <2>2, <3>1, <4>2 DEF RequestsInv, StoredOK
      <4> QED BY <4>1, <4>2
    <3>2. \A c \in ClOrdIds : (rows'[c].status = "none" <=> rows'[c].by = 0) /\ rows'[c].by \in DOMAIN tasks' \cup {0}
      BY <1>1, <2>2 DEF RequestsInv, StoredOK
    <3> QED BY <3>1, <3>2 DEF StoredOK
  <2>11. ToldOK'
    <3>1. \A r \in told' : tasks'[r.task].pc = "done"
      <4>1. \A r \in told : r.task \in DOMAIN tasks /\ tasks[r.task].pc = "done"
        BY DEF RequestsInv, ToldOK, FixTypeOK
      <4> QED BY <1>1, <2>2, <2>4, <4>1
    <3>2. ASSUME NEW m \in DOMAIN tasks', tasks'[m].pc = "done", line'.up, line'.logons = tasks'[m].logon, ~tasks'[m].fault
          PROVE  /\ QueueAnswers(m)' => \A r \in told' : r.task # m
                 /\ ~QueueAnswers(m)' => \E r \in told' : r.task = m /\ \A s \in told' : s.task = m => s = r
      <4>1. m # n /\ m \in DOMAIN tasks
        BY <2>2, <2>6, <3>2
      <4>2. tasks'[m] = tasks[m] /\ (QueueAnswers(m)' <=> QueueAnswers(m))
        BY <1>1, <2>2, <4>1 DEF QueueAnswers
      <4> QED BY <1>1, <3>2, <4>1, <4>2 DEF RequestsInv, ToldOK
    <3> QED BY <3>1, <3>2 DEF ToldOK
  <2>12. BehindOK'
    <3> SUFFICES ASSUME NEW l \in DOMAIN tasks', NEW m \in DOMAIN tasks',
                        l < m, tasks'[l].request = "NewOrder", tasks'[m].request \in Names,
                        tasks'[l].id = tasks'[m].id, tasks'[l].logon = tasks'[m].logon
                 PROVE  /\ tasks'[l].pc = "inbound" => tasks'[m].pc = "inbound"
                        /\ tasks'[m].pc = "wait" => tasks'[m].lock = l \/ tasks'[l].pc \in {"done", "dropped"}
                        /\ tasks'[m].pc \in {"look", "done"} => tasks'[l].pc \in {"done", "dropped"}
                        /\ tasks'[m].unknown => rows'[tasks'[l].id].by # l
      BY DEF BehindOK
    <3>1. /\ l \in DOMAIN tasks /\ m \in DOMAIN tasks
          /\ tasks[l].request = "NewOrder" /\ tasks[m].request \in Names
          /\ tasks[l].id = tasks[m].id /\ tasks[l].logon = tasks[m].logon
      BY <2>2, <2>3
    <3>2. /\ tasks[l].pc = "inbound" => tasks[m].pc = "inbound"
          /\ tasks[m].pc = "wait" => tasks[m].lock = l \/ tasks[l].pc \in {"done", "dropped"}
          /\ tasks[m].pc \in {"look", "done"} => tasks[l].pc \in {"done", "dropped"}
          /\ tasks[m].unknown => rows[tasks[l].id].by # l
      BY <3>1 DEF RequestsInv, BehindOK
    <3>3. CASE m = n
      <4>1. l # n /\ tasks[l].pc # "inbound" /\ tasks'[l] = tasks[l]
        BY <2>2, <2>4, <3>1, <3>3
      <4>2. t.pc \in {"dropped", "started"} /\ ~t.unknown
        BY <2>3, <2>5, <2>6, <3>1, <3>3 DEF Names
      <4> QED BY <2>2, <3>3, <4>1, <4>2
    <3>4. CASE m # n /\ l = n
      <4>1. tasks[m].pc = "inbound" /\ tasks'[m] = tasks[m]
        BY <2>2, <2>4, <3>1, <3>2, <3>4
      <4>2. ~tasks[m].unknown
        BY <3>1, <4>1 DEF RequestsInv, KindsOK, KindOK
      <4> QED BY <4>1, <4>2
    <3>5. CASE m # n /\ l # n
      BY <1>1, <2>2, <3>1, <3>2, <3>5
    <3> QED BY <3>3, <3>4, <3>5
  <2> QED BY <2>8, <2>9, <2>10, <2>11, <2>12
<1> QED BY <1>2, <1>3

\* A task that ends while the session is up, and not because the database
\* failed, leaves one answer: its order's own, or a report sent now.
Answered(n) ==
    /\ QueueAnswers(n)' => told' = told
    /\ ~QueueAnswers(n)' => \E r : r.task = n /\ told' = told \cup {r}

LEMMA NewOrderAnswered ==
  ASSUME FixTypeOK, RequestsInv, NEW n \in DOMAIN tasks, HandleNewOrder(n), line.up, tasks'[n].pc = "done",
         tasks'[n].request = tasks[n].request, tasks'[n].id = tasks[n].id
  PROVE  Answered(n)
<1>1. tasks[n].request = "NewOrder" /\ tasks[n].pc = "look" /\ rows' = rows
  BY DEF HandleNewOrder, At
<1>2. rows[tasks[n].id].status # "none" /\ Finish(n, {"Exec"})
  <2>1. CASE Moved(n, "submit")
    <3>1. "submit" \in TaskSteps
      BY DEF TaskSteps
    <3>2. PICK t \in Tasks : tasks' = [tasks EXCEPT ![n] = t] /\ t.pc = "submit"
      BY <2>1, <3>1, MovedIs
    <3>3. tasks'[n].pc = "submit"
      BY <3>2, OneTask
    <3> QED BY <3>3
  <2> QED BY <2>1 DEF HandleNewOrder
<1>3. rows[tasks[n].id].by # n
  BY <1>1 DEF RequestsInv, StoredOK
<1>4. ~QueueAnswers(n)'
  BY <1>1, <1>3 DEF QueueAnswers
<1>5. \E r : r.task = n /\ told' = told \cup {r}
  BY <1>2, FinishIs
<1> QED BY <1>4, <1>5 DEF Answered

LEMMA RoutedAnswered ==
  ASSUME FixTypeOK, RequestsInv, NEW n \in DOMAIN tasks, Route(n), line.up, tasks'[n].pc = "done",
         tasks'[n].request = tasks[n].request, tasks'[n].id = tasks[n].id
  PROVE  Answered(n)
<1>1. tasks[n].request = "NewOrder" /\ rows[tasks[n].id].by = n
  BY DEF Route, At, RequestsInv, KindsOK, KindOK, StoredOK
<1>2. Finish(n, {}) /\ rows' = [rows EXCEPT ![tasks[n].id].status = IF @ = "submitted" THEN "routed" ELSE @]
  <2>1. CASE Moved(n, "check")
    <3>1. "check" \in TaskSteps
      BY DEF TaskSteps
    <3>2. PICK t \in Tasks : tasks' = [tasks EXCEPT ![n] = t] /\ t.pc = "check"
      BY <2>1, <3>1, MovedIs
    <3>3. tasks'[n].pc = "check"
      BY <3>2, OneTask
    <3> QED BY <3>3
  <2> QED BY <2>1 DEF Route
<1>3. told' = told
  BY <1>2, FinishIs
<1>4. rows'[tasks[n].id].by = n
  <2>1. tasks[n].id \in ClOrdIds /\ rows \in [ClOrdIds -> Rows] /\ rows[tasks[n].id] \in Rows
    BY TasksAre DEF Tasks
  <2> QED BY <1>1, <1>2, <2>1 DEF Rows
<1>5. QueueAnswers(n)'
  BY <1>1, <1>4 DEF QueueAnswers
<1> QED BY <1>3, <1>5 DEF Answered

LEMMA CheckedAnswered ==
  ASSUME FixTypeOK, RequestsInv, NEW n \in DOMAIN tasks, CheckStored(n), line.up, ~tasks'[n].fault,
         tasks'[n].request = tasks[n].request, tasks'[n].id = tasks[n].id
  PROVE  Answered(n)
<1>1. tasks[n].request = "NewOrder" /\ rows[tasks[n].id].by \in {0, n} /\ rows' = rows /\ n # 0
  BY TasksAre DEF CheckStored, At, RequestsInv, KindsOK, KindOK, StoredOK
<1>2. rows[tasks[n].id].status = "none" <=> rows[tasks[n].id].by = 0
  BY TasksAre DEF RequestsInv, StoredOK, Tasks
<1>3. Finish(n, IF NeedsSyncReject(rows[tasks[n].id].status # "none") THEN {"Exec"} ELSE {})
  <2>1. CASE tasks' = [tasks EXCEPT ![n].pc = "done", ![n].fault = TRUE]
    <3>1. PICK t \in Tasks : tasks' = [tasks EXCEPT ![n] = t] /\ t.fault
      BY <2>1, FaultIs
    <3>2. tasks'[n].fault
      BY <3>1, OneTask
    <3> QED BY <3>2
  <2> QED BY <2>1 DEF CheckStored
<1>4. CASE rows[tasks[n].id].status = "none"
  <2>1. ~QueueAnswers(n)'
    BY <1>1, <1>2, <1>4 DEF QueueAnswers
  <2>2. Finish(n, {"Exec"})
    BY <1>3, <1>4 DEF NeedsSyncReject
  <2>3. \E r : r.task = n /\ told' = told \cup {r}
    BY <2>2, FinishIs
  <2> QED BY <2>1, <2>3 DEF Answered
<1>5. CASE rows[tasks[n].id].status # "none"
  <2>1. QueueAnswers(n)'
    BY <1>1, <1>2, <1>5 DEF QueueAnswers
  <2>2. Finish(n, {})
    BY <1>3, <1>5 DEF NeedsSyncReject
  <2>3. told' = told
    BY <2>2, FinishIs
  <2> QED BY <2>1, <2>3 DEF Answered
<1> QED BY <1>4, <1>5

LEMMA OthersAnswered ==
  ASSUME NEW n \in DOMAIN tasks, HandleCancel(n) \/ HandleStatus(n) \/ HandleSecurityList(n), line.up,
         tasks'[n].request = tasks[n].request
  PROVE  Answered(n)
<1>1. ~QueueAnswers(n)'
  BY DEF HandleCancel, HandleStatus, HandleSecurityList, QueueAnswers
<1>2. Finish(n, {"CancelReject"}) \/ Finish(n, {"Exec"}) \/ Finish(n, {"SecurityList"}) \/ SendTo(n, "Exec")
  BY DEF HandleCancel, HandleStatus, HandleSecurityList
<1>3. \E r : r.task = n /\ told' = told \cup {r}
  BY <1>2, FinishIs, SendIs
<1> QED BY <1>1, <1>3 DEF Answered

LEMMA TaskAnswered ==
  ASSUME FixTypeOK, RequestsInv, NEW n \in DOMAIN tasks, TaskStep(n), line.up, tasks'[n].pc = "done", ~tasks'[n].fault,
         tasks'[n].request = tasks[n].request, tasks'[n].id = tasks[n].id
  PROVE  Answered(n)
<1>1. CASE Woken(n) \/ Store(n)
  <2>1. PICK pc \in {"look", "check", "route"} : Moved(n, pc)
    BY <1>1 DEF Woken, Store
  <2>2. pc \in TaskSteps
    BY DEF TaskSteps
  <2>3. PICK t \in Tasks : tasks' = [tasks EXCEPT ![n] = t] /\ t.pc = pc
    BY <2>1, <2>2, MovedIs
  <2>4. tasks'[n].pc = pc
    BY <2>3, OneTask
  <2> QED BY <2>4
<1>2. CASE Wait(n)
  <2>1. TaskStep(n) /\ tasks[n].pc = "started"
    BY <1>2 DEF Wait, At
  <2>2. PICK t \in Tasks : tasks' = [tasks EXCEPT ![n] = t] /\ GoesOn(n, t)
    BY <2>1, TaskMoves DEF TaskMoved
  <2>3. tasks'[n] = t
    BY <2>2, OneTask
  <2> QED BY <2>1, <2>2, <2>3 DEF GoesOn
<1>3. CASE LookFails(n)
  <2>1. PICK t \in Tasks : tasks' = [tasks EXCEPT ![n] = t] /\ t.fault
    BY <1>3, FaultIs DEF LookFails
  <2>2. tasks'[n].fault
    BY <2>1, OneTask
  <2> QED BY <2>2
<1> QED BY <1>1, <1>2, <1>3, NewOrderAnswered, RoutedAnswered, CheckedAnswered, OthersAnswered DEF TaskStep

\* What a row says of who stored it, after a step of a task.
LEMMA RowsAfter ==
  ASSUME FixTypeOK, StoredOK, NEW n \in DOMAIN tasks, NEW t \in Tasks, TaskMoved(n, t)
  PROVE  /\ \A c \in ClOrdIds : /\ rows'[c].status = "none" <=> rows'[c].by = 0
                                /\ rows'[c].by \in DOMAIN tasks \cup {0}
                                /\ rows'[c].by = rows[c].by \/ (rows[c].by = 0 /\ rows'[c].by = n /\ c = t.id)
         /\ RowsKept \/ (rows'[t.id].by = n /\ RowStored(n, t))
<1>1. n \in Nat /\ n # 0 /\ rows \in [ClOrdIds -> Rows] /\ t.id \in ClOrdIds
  BY TasksAre DEF Tasks
<1>2. CASE RowsKept
  BY <1>2 DEF RowsKept, StoredOK
<1>3. CASE RowStored(n, t)
  <2>1. PICK status \in {"rejected", "submitted"} : rows' = [rows EXCEPT ![t.id] = [by |-> n, status |-> status]]
    BY <1>3 DEF RowStored
  <2>2. PICK row : row = [by |-> n, status |-> status]
    OBVIOUS
  <2>3. row.by = n /\ row.status = status /\ status # "none"
    BY <2>2
  <2>4. rows'[t.id] = row /\ \A c \in ClOrdIds : c # t.id => rows'[c] = rows[c]
    BY <1>1, <2>1, <2>2
  <2>5. rows[t.id].by = 0
    BY <1>1, <1>3 DEF RowStored, StoredOK
  <2> QED BY <1>1, <1>3, <2>3, <2>4, <2>5 DEF StoredOK
<1> QED BY <1>2, <1>3 DEF TaskMoved

LEMMA TaskKeepsRequests ==
  ASSUME FixTypeOK, RequestsInv, NEW n \in DOMAIN tasks, TaskStep(n)
  PROVE  RequestsInv'
<1>1. PICK t \in Tasks : TaskMoved(n, t)
  BY TaskMoves
<1>2. /\ UNCHANGED <<line, acceptor, inbound>> /\ GoesOn(n, t) /\ ToldBy(n, t)
      /\ t.request = tasks[n].request /\ t.id = tasks[n].id /\ t.logon = tasks[n].logon /\ t.id \in ClOrdIds
      /\ placing' = IF t.pc = "done" /\ t.request = "NewOrder" THEN [placing EXCEPT ![t.id] = 0] ELSE placing
  BY <1>1 DEF TaskMoved, SameRequest, Tasks
<1>3. /\ DOMAIN tasks' = DOMAIN tasks /\ tasks'[n] = t /\ n \in Nat /\ n # 0
      /\ \A m \in DOMAIN tasks : m # n => tasks'[m] = tasks[m]
  BY <1>1, OneTask, TasksAre DEF TaskMoved
<1>4. /\ placing \in [ClOrdIds -> Nat] /\ \A m \in DOMAIN tasks : tasks[m].id \in ClOrdIds /\ m \in Nat /\ m # 0
      /\ \A m \in DOMAIN tasks : tasks[m].request \in Requests /\ tasks[m].pc \in TaskSteps
  BY TasksAre DEF Tasks
<1>5. /\ tasks[n].pc \in {"started", "wait", "look", "submit", "route", "check"}
      /\ t.pc \in {"wait", "look", "submit", "route", "check", "done"}
      /\ t.pc = "wait" => tasks[n].pc = "started" /\ t.lock = placing[t.id] /\ t.lock # 0
      /\ t.pc = "look" => \/ tasks[n].pc = "started" /\ placing[t.id] = 0
                          \/ tasks[n].pc = "wait" /\ ~Held(tasks[n].lock)
      /\ t.pc = "submit" => tasks[n].pc = "look" /\ t.request = "NewOrder" /\ rows[t.id].status = "none" /\ rows' = rows
      /\ t.pc = "route" => tasks[n].pc = "submit" /\ rows'[t.id].by = n
      /\ t.pc = "check" => tasks[n].pc \in {"submit", "route"}
      /\ t.pc = "done" => tasks[n].pc \in {"look", "route", "check"}
      /\ t.unknown => \/ tasks[n].unknown
                      \/ t.pc = "done" /\ t.request \in Names /\ rows[t.id].status = "none" /\ rows' = rows
  BY <1>2 DEF GoesOn
<1>6. KindOK(n) /\ ~tasks[n].unknown /\ tasks[n].request # "BusinessReject"
  BY <1>5 DEF RequestsInv, KindsOK, KindOK
<1>7. /\ \A c \in ClOrdIds : /\ rows'[c].status = "none" <=> rows'[c].by = 0
                             /\ rows'[c].by \in DOMAIN tasks \cup {0}
                             /\ rows'[c].by = rows[c].by \/ (rows[c].by = 0 /\ rows'[c].by = n /\ c = t.id)
      /\ RowsKept \/ (rows'[t.id].by = n /\ RowStored(n, t))
  BY <1>1, RowsAfter DEF RequestsInv
<1>8. KindsOK'
  <2>1. KindOK(n)'
    BY <1>2, <1>3, <1>5, <1>6 DEF KindOK
  <2>2. t.pc = "wait" => t.lock \in DOMAIN tasks
    BY <1>2, <1>5 DEF RequestsInv, PlacingOK
  <2>3. ASSUME NEW m \in DOMAIN tasks, m # n PROVE KindOK(m)' /\ (tasks'[m].pc = "wait" => tasks'[m].lock \in DOMAIN tasks')
    BY <1>3, <2>3 DEF RequestsInv, KindsOK, KindOK
  <2> QED BY <1>3, <2>1, <2>2, <2>3 DEF KindsOK
<1>9. InboundOK'
  <2>1. \A a, i, m : RequestAt(a, i, m)' <=> RequestAt(a, i, m)
    BY <1>2 DEF RequestAt
  <2>2. \A m \in DOMAIN tasks : tasks'[m].logon = tasks[m].logon /\ (tasks'[m].pc = "inbound" <=> tasks[m].pc = "inbound")
    BY <1>2, <1>3, <1>5
  <2> QED BY <1>2, <1>3, <2>1, <2>2 DEF RequestsInv, InboundOK
<1>10. ASSUME NEW m \in DOMAIN tasks, m # n, tasks[m].request = "NewOrder", t.request = "NewOrder", tasks[m].id = t.id
       PROVE  tasks[m].pc = "done"
  BY <1>2, <1>5, <1>10 DEF RequestsInv, PlacingOK
<1>11. PlacingOK'
  <2>1. ASSUME NEW l \in DOMAIN tasks', NEW m \in DOMAIN tasks', tasks'[l].request = "NewOrder",
               tasks'[m].request = "NewOrder", tasks'[l].id = tasks'[m].id, tasks'[l].pc # "done", tasks'[m].pc # "done"
        PROVE  l = m
    <3>1. /\ tasks[l].request = "NewOrder" /\ tasks[m].request = "NewOrder" /\ tasks[l].id = tasks[m].id
          /\ tasks[l].pc # "done" /\ tasks[m].pc # "done"
      BY <1>2, <1>3, <1>5, <2>1
    <3> QED BY <1>3, <3>1 DEF RequestsInv, PlacingOK
  <2>2. ASSUME NEW m \in DOMAIN tasks', tasks'[m].request = "NewOrder", Held(m)' PROVE placing'[tasks'[m].id] = m
    <3>1. tasks[m].request = "NewOrder" /\ tasks[m].id = tasks'[m].id /\ m \in DOMAIN tasks
      BY <1>2, <1>3, <2>2
    <3>2. Held(m)
      <4>1. CASE m = n
        BY <1>2, <1>3, <1>5, <1>6, <2>2, <4>1 DEF Held, KindOK, Names
      <4>2. CASE m # n
        BY <1>3, <2>2, <4>2 DEF Held
      <4> QED BY <4>1, <4>2
    <3>3. placing[tasks[m].id] = m
      BY <3>1, <3>2 DEF RequestsInv, PlacingOK
    <3>4. placing'[tasks[m].id] = placing[tasks[m].id]
      <4>1. CASE m = n
        BY <1>2, <1>3, <2>2, <4>1 DEF Held
      <4>2. CASE m # n
        <5>1. tasks[m].pc # "done"
          BY <3>2 DEF Held
        <5>2. t.request = "NewOrder" => tasks[m].id # t.id
          BY <1>10, <3>1, <4>2, <5>1
        <5> QED BY <1>2, <1>4, <3>1, <5>2
      <4> QED BY <4>1, <4>2
    <3> QED BY <3>1, <3>3, <3>4
  <2>3. \A c \in ClOrdIds : placing'[c] \in DOMAIN tasks' \cup {0}
    BY <1>2, <1>3, <1>4 DEF RequestsInv, PlacingOK
  <2> QED BY <2>1, <2>2, <2>3 DEF PlacingOK
<1>12. StoredOK'
  <2>1. ASSUME NEW m \in DOMAIN tasks', tasks'[m].request = "NewOrder"
        PROVE  /\ rows'[tasks'[m].id].by = m => tasks'[m].pc \in {"route", "check", "done"}
               /\ tasks'[m].pc = "submit" => rows'[tasks'[m].id].by = 0
               /\ tasks'[m].pc = "check" => rows'[tasks'[m].id].by \in {0, m}
               /\ tasks'[m].pc = "route" => rows'[tasks'[m].id].by = m
    <3>1. CASE m # n
      <4>1. tasks'[m] = tasks[m] /\ m \in DOMAIN tasks /\ tasks[m].id \in ClOrdIds
        BY <1>3, <1>4, <3>1
      <4>2. /\ rows[tasks[m].id].by = m => tasks[m].pc \in {"route", "check", "done"}
            /\ tasks[m].pc = "submit" => rows[tasks[m].id].by = 0
            /\ tasks[m].pc = "check" => rows[tasks[m].id].by \in {0, m}
            /\ tasks[m].pc = "route" => rows[tasks[m].id].by = m
        BY <2>1, <4>1 DEF RequestsInv, StoredOK
      <4>3. CASE rows'[tasks[m].id].by = rows[tasks[m].id].by
        BY <4>1, <4>2, <4>3
      <4>4. CASE rows'[tasks[m].id].by # rows[tasks[m].id].by
        <5>1. rows'[tasks[m].id].by = n /\ tasks[m].id = t.id /\ ~RowsKept
          BY <1>7, <4>1, <4>4 DEF RowsKept
        <5>2. t.request = "NewOrder"
          BY <1>2, <1>6, <1>7, <5>1 DEF RowStored, KindOK
        <5>3. tasks[m].pc = "done"
          BY <1>10, <2>1, <3>1, <4>1, <5>1, <5>2
        <5> QED BY <4>1, <5>3
      <4> QED BY <4>3, <4>4
    <3>2. CASE m = n
      <4>1. /\ rows[t.id].by = n => tasks[n].pc \in {"route", "check", "done"}
            /\ tasks[n].pc = "submit" => rows[t.id].by = 0
            /\ tasks[n].pc = "check" => rows[t.id].by \in {0, n}
            /\ tasks[n].pc = "route" => rows[t.id].by = n
            /\ rows[t.id].status = "none" => rows[t.id].by = 0
        BY <1>2, <1>3, <2>1, <3>2 DEF RequestsInv, StoredOK
      <4>2. \/ rows'[t.id].by = rows[t.id].by
            \/ tasks[n].pc = "submit" /\ t.pc \in {"route", "check"} /\ rows'[t.id].by = n
        BY <1>2, <1>7 DEF RowsKept, RowStored
      <4> QED BY <1>3, <1>5, <3>2, <4>1, <4>2
    <3> QED BY <3>1, <3>2
  <2>2. \A c \in ClOrdIds : (rows'[c].status = "none" <=> rows'[c].by = 0) /\ rows'[c].by \in DOMAIN tasks' \cup {0}
    BY <1>3, <1>7
  <2> QED BY <2>1, <2>2 DEF StoredOK
<1>13. \A r \in told : r.task \in DOMAIN tasks /\ tasks[r.task].pc = "done" /\ r.task # n
  BY <1>5 DEF RequestsInv, ToldOK, FixTypeOK
<1>14. ToldOK'
  <2>1. \A r \in told' : tasks'[r.task].pc = "done"
    BY <1>2, <1>3, <1>13 DEF ToldBy
  <2>2. ASSUME NEW m \in DOMAIN tasks', tasks'[m].pc = "done", line'.up, line'.logons = tasks'[m].logon, ~tasks'[m].fault
        PROVE  /\ QueueAnswers(m)' => \A r \in told' : r.task # m
               /\ ~QueueAnswers(m)' => \E r \in told' : r.task = m /\ \A s \in told' : s.task = m => s = r
    <3>1. CASE m = n
      <4>1. Answered(n)
        BY <1>2, <1>3, <2>2, <3>1, TaskAnswered
      <4> QED BY <1>13, <3>1, <4>1 DEF Answered
    <3>2. CASE m # n
      <4>1. m \in DOMAIN tasks /\ tasks'[m] = tasks[m] /\ tasks[m].id \in ClOrdIds
        BY <1>3, <1>4, <3>2
      <4>2. /\ QueueAnswers(m) => \A r \in told : r.task # m
            /\ ~QueueAnswers(m) => \E r \in told : r.task = m /\ \A s \in told : s.task = m => s = r
        BY <1>2, <2>2, <4>1 DEF RequestsInv, ToldOK
      <4>3. QueueAnswers(m)' <=> QueueAnswers(m)
        <5>1. rows'[tasks[m].id].by = m <=> rows[tasks[m].id].by = m
          BY <1>4, <1>7, <3>2, <4>1
        <5> QED BY <4>1, <5>1 DEF QueueAnswers
      <4>4. told \subseteq told' /\ \A r \in told' : r.task = m => r \in told
        BY <1>2, <3>2 DEF ToldBy
      <4> QED BY <4>2, <4>3, <4>4
    <3> QED BY <3>1, <3>2
  <2> QED BY <2>1, <2>2 DEF ToldOK
<1>15. BehindOK'
  <2> SUFFICES ASSUME NEW l \in DOMAIN tasks', NEW m \in DOMAIN tasks',
                      l < m, tasks'[l].request = "NewOrder", tasks'[m].request \in Names,
                      tasks'[l].id = tasks'[m].id, tasks'[l].logon = tasks'[m].logon
               PROVE  /\ tasks'[l].pc = "inbound" => tasks'[m].pc = "inbound"
                      /\ tasks'[m].pc = "wait" => tasks'[m].lock = l \/ tasks'[l].pc \in {"done", "dropped"}
                      /\ tasks'[m].pc \in {"look", "done"} => tasks'[l].pc \in {"done", "dropped"}
                      /\ tasks'[m].unknown => rows'[tasks'[l].id].by # l
    BY DEF BehindOK
  <2>1. /\ l \in DOMAIN tasks /\ m \in DOMAIN tasks /\ l # m
        /\ tasks[l].request = "NewOrder" /\ tasks[m].request \in Names
        /\ tasks[l].id = tasks[m].id /\ tasks[l].logon = tasks[m].logon /\ tasks[l].id \in ClOrdIds
        /\ tasks'[l].id = tasks[l].id
    BY <1>2, <1>3, <1>4 DEF Names
  <2>2. /\ tasks[l].pc = "inbound" => tasks[m].pc = "inbound"
        /\ tasks[m].pc = "wait" => tasks[m].lock = l \/ tasks[l].pc \in {"done", "dropped"}
        /\ tasks[m].pc \in {"look", "done"} => tasks[l].pc \in {"done", "dropped"}
        /\ tasks[m].unknown => rows[tasks[l].id].by # l
    BY <2>1 DEF RequestsInv, BehindOK
  <2>3. tasks[l].pc \in {"inbound", "done", "dropped"} \/ (Held(l) /\ placing[tasks[l].id] = l)
    <3>1. tasks[l].pc \notin {"started", "wait"} /\ tasks[l].pc \in TaskSteps
      BY <1>4, <2>1 DEF RequestsInv, KindsOK, KindOK, Names
    <3>2. tasks[l].pc \in {"inbound", "done", "dropped"} \/ Held(l)
      BY <3>1 DEF Held, TaskSteps
    <3> QED BY <2>1, <3>2 DEF RequestsInv, PlacingOK
  <2>4. tasks[m].unknown => tasks[m].pc = "done"
    BY <2>1 DEF RequestsInv, KindsOK, KindOK
  <2>5. CASE m = n
    <3>1. tasks[l].pc # "inbound" /\ tasks'[l] = tasks[l]
      BY <1>3, <1>5, <2>1, <2>2, <2>5
    <3>2. tasks[m].pc \in {"started", "wait", "look"}
      BY <1>5, <1>6, <2>1, <2>5 DEF KindOK, Names
    <3>3. t.pc = "wait" => t.lock = l \/ tasks[l].pc \in {"done", "dropped"}
      BY <1>2, <1>5, <2>1, <2>3, <2>5, <3>1
    <3>4. t.pc = "look" => tasks[l].pc \in {"done", "dropped"}
      <4>1. tasks[n].pc = "started" /\ placing[t.id] = 0 => tasks[l].pc \in {"done", "dropped"}
        BY <1>2, <1>4, <2>1, <2>3, <2>5, <3>1
      <4>2. tasks[n].pc = "wait" /\ ~Held(tasks[n].lock) => tasks[l].pc \in {"done", "dropped"}
        BY <2>2, <2>3, <2>5, <3>1
      <4> QED BY <1>5, <4>1, <4>2
    <3>5. t.pc = "done" => tasks[l].pc \in {"done", "dropped"}
      BY <1>5, <2>2, <2>5, <3>2
    <3>6. t.unknown => rows'[tasks[l].id].by # l
      <4>1. t.unknown => rows[t.id].status = "none" /\ rows' = rows
        BY <1>5, <1>6
      <4>2. t.unknown => rows[t.id].by = 0
        BY <1>2, <4>1 DEF RequestsInv, StoredOK
      <4> QED BY <1>2, <1>4, <2>1, <2>5, <4>1, <4>2
    <3> QED BY <1>3, <2>1, <2>5, <3>1, <3>3, <3>4, <3>5, <3>6
  <2>6. CASE l = n
    <3>1. tasks'[m] = tasks[m] /\ tasks[l].pc \notin {"inbound", "done", "dropped"}
      BY <1>3, <1>5, <2>1, <2>6
    <3>2. tasks[m].pc \notin {"look", "done"} /\ ~tasks[m].unknown
      BY <2>2, <2>4, <3>1
    <3>3. tasks'[l].pc # "inbound"
      BY <1>3, <1>5, <2>6
    <3> QED BY <2>2, <3>1, <3>2, <3>3
  <2>7. CASE m # n /\ l # n
    <3>1. tasks'[m] = tasks[m] /\ tasks'[l] = tasks[l]
      BY <1>3, <2>1, <2>7
    <3>2. tasks[m].unknown => rows'[tasks[l].id].by # l
      BY <1>7, <2>1, <2>2, <2>7
    <3> QED BY <2>2, <3>1, <3>2
  <2> QED BY <2>5, <2>6, <2>7
<1> QED BY <1>8, <1>9, <1>11, <1>12, <1>14, <1>15 DEF RequestsInv

LEMMA SettleKeepsRequests ==
  ASSUME FixTypeOK, RequestsInv, NEW c \in ClOrdIds, Settle(c)
  PROVE  RequestsInv'
<1>1. RowsKept /\ UNCHANGED <<line, acceptor, inbound, registered, unheard, tasks, placing, told>>
  BY SettleIs
<1>2. \A d \in ClOrdIds : rows'[d].by = rows[d].by /\ (rows'[d].status = "none" <=> rows[d].status = "none")
  BY <1>1 DEF RowsKept
<1>3. \A n \in DOMAIN tasks : tasks[n].id \in ClOrdIds
  BY TasksAre DEF Tasks
<1>4. StoredOK' /\ BehindOK'
  BY <1>1, <1>2, <1>3 DEF RequestsInv, StoredOK, BehindOK
<1>5. ToldOK'
  <2>1. \A n \in DOMAIN tasks : QueueAnswers(n)' <=> QueueAnswers(n)
    BY <1>1, <1>2, <1>3 DEF QueueAnswers
  <2> QED BY <1>1, <2>1 DEF RequestsInv, ToldOK
<1>6. InboundOK' /\ PlacingOK' /\ KindsOK'
  BY <1>1 DEF RequestsInv, InboundOK, RequestAt, PlacingOK, KindsOK, KindOK, Held
<1> QED BY <1>4, <1>5, <1>6 DEF RequestsInv

LEMMA RequestsInvariant ==
  ASSUME ~Resends
  PROVE  FixRequestsSpec => [](FixTypeOK /\ RequestsInv)
<1>1. FixRequestsInit => FixTypeOK /\ RequestsInv
  BY FixInitInv
<1>2. FixTypeOK /\ FixTypeOK' /\ RequestsInv /\ [FixRequestsNext]_fixVars => RequestsInv'
  <2> SUFFICES ASSUME FixTypeOK, FixTypeOK', RequestsInv, [FixRequestsNext]_fixVars PROVE RequestsInv'
    OBVIOUS
  <2>1. CASE Logon \/ SessionDown \/ Restart
    BY <2>1, CallbackKeepsRequests
  <2>2. CASE StrategySends
    <3>1. PICK t \in Tasks, e \in Events : Sent(t, e)
      BY <2>2, SendsOne
    <3>2. InboundOK'
      BY <3>1, SendsKeepInbound
    <3>3. KindsOK' /\ PlacingOK' /\ StoredOK' /\ ToldOK' /\ BehindOK'
      BY <3>1, SendsKeepTasks
    <3> QED BY <3>2, <3>3 DEF RequestsInv
  <2>3. ASSUME NEW a \in DOMAIN inbound, RunLoop(a) PROVE RequestsInv'
    <3>1. InboundOK'
      BY <2>3, LoopKeepsInbound
    <3>2. KindsOK' /\ PlacingOK' /\ StoredOK' /\ ToldOK' /\ BehindOK'
      BY <2>3, LoopKeepsTasks
    <3> QED BY <3>1, <3>2 DEF RequestsInv
  <2>4. CASE \E n \in DOMAIN tasks : TaskStep(n)
    BY <2>4, TaskKeepsRequests
  <2>5. CASE \E c \in ClOrdIds : Settle(c)
    BY <2>5, SettleKeepsRequests
  <2>6. CASE UNCHANGED fixVars
    BY <2>6 DEF fixVars, RequestsInv, InboundOK, RequestAt, PlacingOK, StoredOK, ToldOK, QueueAnswers, BehindOK,
                KindsOK, KindOK, Held
  <2>7. \/ Logon \/ SessionDown \/ Restart \/ StrategySends
        \/ \E a \in DOMAIN inbound : RunLoop(a)
        \/ \E n \in DOMAIN tasks : TaskStep(n)
        \/ \E c \in ClOrdIds : Settle(c)
        \/ UNCHANGED fixVars
    BY DEF FixRequestsNext, TaskStep
  <2> QED BY <2>1, <2>2, <2>3, <2>4, <2>5, <2>6, <2>7
<1>3. FixRequestsSpec => [](FixTypeOK /\ SessionInv)
  BY SessionInvariant
<1> QED BY <1>1, <1>2, <1>3, PTL DEF FixRequestsSpec

\* A strategy that does not reuse a ClOrdID before its order was answered gets
\* one answer to each request handled while its session is up, and is not told
\* that an order is unknown which it sent before and which was then stored
\* (InFlight::begin, wait and end, needs_sync_reject, handle, send_to_target).
THEOREM RequestsSafe ==
  ASSUME ~Resends
  PROVE  FixRequestsSpec => []RequestsAnswered
<1>1. FixTypeOK /\ RequestsInv => RequestsAnswered
  <2> SUFFICES ASSUME FixTypeOK, RequestsInv PROVE RequestsAnswered
    OBVIOUS
  <2>1. ASSUME NEW n \in DOMAIN tasks, tasks[n].pc = "done", line.up, line.logons = tasks[n].logon, ~tasks[n].fault
        PROVE  Answers(n) = 1
    <3>1. PICK A : A = {r \in told : r.task = n}
      OBVIOUS
    <3>2. CASE QueueAnswers(n)
      <4>1. A = {}
        BY <2>1, <3>1, <3>2 DEF RequestsInv, ToldOK
      <4>2. Cardinality(A) = 0
        BY <4>1, FS_EmptySet
      <4> QED BY <3>1, <3>2, <4>2 DEF Answers, QueueAnswers
    <3>3. CASE ~QueueAnswers(n)
      <4>1. PICK r \in told : r.task = n /\ \A s \in told : s.task = n => s = r
        BY <2>1, <3>3 DEF RequestsInv, ToldOK
      <4>2. A = {r}
        BY <3>1, <4>1
      <4>3. Cardinality(A) = 1
        BY <4>2, FS_Singleton
      <4> QED BY <3>1, <3>3, <4>3 DEF Answers, QueueAnswers
    <3> QED BY <3>2, <3>3
  <2>2. ASSUME NEW m \in DOMAIN tasks, NEW n \in DOMAIN tasks, m < n, tasks[m].request = "NewOrder",
               tasks[m].id = tasks[n].id, tasks[m].logon = tasks[n].logon, tasks[n].unknown
        PROVE  rows[tasks[m].id].by # m
    <3>1. tasks[n].request \in Names
      BY <2>2 DEF RequestsInv, KindsOK, KindOK
    <3> QED BY <2>2, <3>1 DEF RequestsInv, BehindOK
  <2> QED BY <2>1, <2>2 DEF RequestsAnswered
<1> QED BY <1>1, RequestsInvariant, PTL
=============================================================================

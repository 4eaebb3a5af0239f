------------------------------- MODULE Routing -------------------------------
(***************************************************************************)
(* Where an order goes, while administrators change what decides it.  An   *)
(* order is resolved to an account and an instrument, checked against the  *)
(* account's connection before its transaction, stored, and sent to the    *)
(* adapter of the broker and environment read then                         *)
(* (src/src/order_entry.rs, handlers.rs); a later cancel goes where the    *)
(* order's stored connection points.  Portfolios, accounts, connections,   *)
(* risk limits and a strategy's connections are rows that their endpoints  *)
(* rewrite one at a time (src/src/admin.rs, strategies/admin.rs).  There   *)
(* is one portfolio of a desk and one of a strategy, one order, and one    *)
(* risk limit, on the order's scope.                                       *)
(***************************************************************************)
EXTENDS Naturals, FiniteSets

CONSTANTS
  Connections,  \* codes of broker connections
  Accounts,     \* account ids
  MaxEdits      \* rows that administrators change

ASSUME RoutingAssumption == MaxEdits \in Nat

VARIABLES
  connection,  \* broker_connection by code
  account,     \* account by id: its connection and its portfolio
  default,     \* portfolio.default_account_id of the desk's portfolio
  strategyRow, \* strategy_connection of the strategy: account by broker code
  registry,    \* the strategy's connections as the registry snapshot has them
  catalog,     \* instrument and broker_instrument rows
  limit,       \* the risk_limits row: its trading state, and whether TX1 holds it
  judged,      \* updates of a connection that were judged and not yet written
  order,       \* the order on its way
  edits,       \* changes made so far
  astray,      \* pairs of broker and account whose account moved since it was put
  repointed    \* the order's connection was pointed elsewhere since it was read

routingVars == <<connection, account, default, strategyRow, registry, catalog, limit, judged,
                 order, edits, astray, repointed>>

None == "none"
Brokers == {"BINANCE", "COINBASE"}
Environments == {"PAPER", "LIVE"}
Portfolios == {"desk", "strategy"}
TradingStates == {"ACTIVE", "HALTED"}

\* Two listings of one symbol; each trades on the brokers that map it.
Instruments == {"first", "second"}
Venue(i) == IF i = "first" THEN "V1" ELSE "V2"

\* venues::environment_allowed: Coinbase offers LIVE only.
EnvironmentAllowed(broker, environment) == broker = "COINBASE" => environment = "LIVE"

\* create_broker_connection, create_account, create_portfolio: rows that exist
\* when the run starts, as their endpoints would have let them be written
CreatableConnections ==
  {c \in [broker : Brokers, environment : Environments, active : BOOLEAN] :
     EnvironmentAllowed(c.broker, c.environment)}
CreatableAccounts == [connection : Connections, portfolio : Portfolios \cup {None}]
CreatablePortfolios == Accounts \cup {None}

\* A listing that has expired keeps its mappings; a mapping may be closed.
Catalogs == [active : {{"first"}, Instruments}, mapped : {{"BINANCE"}, Brokers}]

Unplaced == [stage |-> "none", portfolio |-> None, account |-> None, explicit |-> FALSE,
            broker_named |-> None, named |-> {}, instrument |-> None, connection |-> None, broker |-> None,
            environment |-> None, strayed |-> FALSE, limit |-> None, sent |-> None, cancel |-> None]

\* put_connections' check of one entry
CheckConnection(portfolio, broker, a) ==
  /\ account[a].portfolio = portfolio
  /\ connection[account[a].connection].broker = broker

Pointless == [b \in Brokers |-> None]

RoutingInit ==
  /\ connection \in [Connections -> {c \in CreatableConnections : c.active}]
  /\ account \in [Accounts -> CreatableAccounts]
  /\ default \in CreatablePortfolios
  /\ catalog = [active |-> Instruments, mapped |-> Brokers]
  /\ strategyRow = Pointless /\ registry = Pointless
  /\ limit = [state |-> None, held |-> FALSE]
  /\ judged = {}
  /\ order = Unplaced
  /\ edits = 0
  /\ astray = {}
  /\ repointed = FALSE

-----------------------------------------------------------------------------
(* Administration                                                          *)

Edit == edits < MaxEdits /\ edits' = edits + 1

UpdatePortfolio ==
  /\ Edit
  /\ \E a \in Accounts : default' = a
  /\ UNCHANGED <<connection, account, strategyRow, registry, catalog, limit, judged, order, astray, repointed>>

\* The portfolio is left as it is, cleared, or set; the connection is kept or set.
UpdateAccount ==
  /\ Edit
  /\ \E a \in Accounts, c \in Connections, p \in Portfolios \cup {None} :
       /\ <<c, p>> # <<account[a].connection, account[a].portfolio>>
       /\ account' = [account EXCEPT ![a] = [connection |-> c, portfolio |-> p]]
       /\ astray' = astray \cup (Brokers \X {a})
  /\ UNCHANGED <<connection, default, strategyRow, registry, catalog, limit, judged, order, repointed>>

\* update_broker_connection judges the pair the row will end up with, as it
\* reads it, and writes the field it was given in a later statement.
ConnectionPatches == {[field |-> "broker", value |-> b] : b \in Brokers}
                     \cup {[field |-> "environment", value |-> e] : e \in Environments}
                     \cup {[field |-> "active", value |-> on] : on \in BOOLEAN}
Patched(row, patch) == [row EXCEPT ![patch.field] = patch.value]

JudgeUpdate ==
  /\ Edit
  /\ \E c \in Connections, patch \in ConnectionPatches :
       /\ Patched(connection[c], patch) # connection[c]
       /\ EnvironmentAllowed(Patched(connection[c], patch).broker, Patched(connection[c], patch).environment)
       /\ judged' = judged \cup {[code |-> c, patch |-> patch]}
  /\ UNCHANGED <<connection, account, default, strategyRow, registry, catalog, limit, order, astray, repointed>>

WriteUpdate ==
  \E u \in judged :
    /\ judged' = judged \ {u}
    /\ connection' = [connection EXCEPT ![u.code] = Patched(@, u.patch)]
    /\ IF u.patch.field = "active"
         THEN UNCHANGED <<astray, repointed>>
         ELSE /\ astray' = astray \cup (Brokers \X {a \in Accounts : account[a].connection = u.code})
              /\ repointed' = (repointed \/ u.code = order.connection)
    /\ UNCHANGED <<account, default, strategyRow, registry, catalog, limit, order, edits>>

\* put_connections: one account per broker, each checked, all replaced at once
PutConnections ==
  /\ Edit
  /\ \E entries \in [Brokers -> Accounts \cup {None}] :
       /\ \A b \in Brokers : entries[b] # None => CheckConnection("strategy", b, entries[b])
       /\ entries # strategyRow
       /\ strategyRow' = entries
       /\ astray' = astray \ {<<b, entries[b]>> : b \in Brokers}
  /\ UNCHANGED <<connection, account, default, registry, catalog, limit, judged, order, repointed>>

\* The reload that follows it, or any other
ReloadRegistry ==
  /\ registry # strategyRow
  /\ registry' = strategyRow
  /\ UNCHANGED <<connection, account, default, strategyRow, catalog, limit, judged, order, edits, astray, repointed>>

\* Faulty variant: the update does not wait for the lock.
SetLimitAnytime(state) == limit' = [limit EXCEPT !.state = state]

\* create_risk_limit, update_risk_limit and delete_risk_limit wait for the row
\* while a submit holds it; a row that is not there cannot be held.
SetLimit(state) == ~ limit.held /\ limit' = [limit EXCEPT !.state = state]
ChangeLimit ==
  /\ Edit
  /\ \E state \in TradingStates \cup {None} : state # limit.state /\ SetLimit(state)
  /\ UNCHANGED <<connection, account, default, strategyRow, registry, catalog, judged, order, astray, repointed>>

\* A synced mapping or an expiry changes the catalog.
ChangeCatalog ==
  /\ Edit
  /\ \E c \in Catalogs : c # catalog /\ catalog' = c
  /\ UNCHANGED <<connection, account, default, strategyRow, registry, limit, judged, order, astray, repointed>>

-----------------------------------------------------------------------------
(* Order entry                                                             *)

\* SubmitOrderRequest: an instrument by id, by symbol and venue, by symbol
\* alone, or with a venue twice
References == [id : {"second", None}, at : {"V1", None}, field : {"V2", None}]

\* What a reference can mean: the id alone, or the listings that match every
\* part it gives
Named(ref) == IF ref.id # None THEN {ref.id}
              ELSE {i \in catalog.active : {ref.at, ref.field} \subseteq {None, Venue(i)}}

\* resolve_instrument_ref: the id wins; a venue given twice is refused; a
\* symbol alone must name one listing.  Only active listings have a symbol.
ResolveInstrumentRef(ref) ==
  IF ref.id # None THEN {ref.id}
  ELSE IF ref.at # None /\ ref.field # None THEN {}
  ELSE LET venue == IF ref.at # None THEN ref.at ELSE ref.field
           rows == {i \in catalog.active : venue # None => Venue(i) = venue}
       IN IF Cardinality(rows) = 1 THEN rows ELSE {}

\* An order of the desk names an account or takes the portfolio's default.
SubmitDesk ==
  /\ order.stage = "none"
  /\ \E ref \in References, a \in Accounts \cup {None} :
       \E i \in ResolveInstrumentRef(ref) :
         /\ a = None => default # None
         /\ order' = [Unplaced EXCEPT !.stage = "resolved", !.portfolio = "desk", !.named = Named(ref),
                        !.account = IF a = None THEN default ELSE a, !.explicit = a # None,
                        !.instrument = i]
  /\ UNCHANGED <<connection, account, default, strategyRow, registry, catalog, limit, judged, edits, astray, repointed>>

\* An order of the strategy names a broker and that broker's symbol, which
\* pick the strategy's account and the instrument (strategy_route).
SubmitStrategy ==
  /\ order.stage = "none"
  /\ \E b \in Brokers, i \in Instruments :
       /\ registry[b] # None /\ b \in catalog.mapped
       /\ order' = [Unplaced EXCEPT !.stage = "resolved", !.portfolio = "strategy", !.named = {i},
                      !.broker_named = b, !.account = registry[b], !.explicit = TRUE, !.instrument = i]
  /\ UNCHANGED <<connection, account, default, strategyRow, registry, catalog, limit, judged, edits, astray, repointed>>

\* The checks before TX1: an active connection, an account of the portfolio (a
\* default one only must not be another's), an active and mapped instrument.
MayRoute(a, explicit, portfolio, i) ==
  /\ connection[account[a].connection].active
  /\ account[a].portfolio \in IF explicit THEN {portfolio} ELSE {portfolio, None}
  /\ i \in catalog.active
  /\ connection[account[a].connection].broker \in catalog.mapped

\* classify_venue, for a broker that maps the instrument
ClassifyVenue(tradeable, active, has_account) == tradeable /\ active /\ has_account

\* get_portfolio_venues: the rows of a broker's connections and the portfolio's
\* accounts on them
ShownEligible(portfolio, i, a) ==
  \E c \in Connections :
    /\ account[a].connection = c
    /\ ClassifyVenue(connection[c].broker \in catalog.mapped, connection[c].active,
                     account[a].portfolio = portfolio)

Preflight ==
  /\ order.stage = "resolved"
  /\ LET c == account[order.account].connection
     IN order' = IF MayRoute(order.account, order.explicit, order.portfolio, order.instrument)
                   THEN [order EXCEPT !.stage = "ready", !.connection = c,
                           !.broker = connection[c].broker, !.environment = connection[c].environment,
                           !.strayed = <<order.broker_named, order.account>> \in astray]
                   ELSE [order EXCEPT !.stage = "refused"]
  /\ UNCHANGED <<connection, account, default, strategyRow, registry, catalog, limit, judged, edits, astray, repointed>>

\* TX1 reads the limit FOR UPDATE, and refuses while it says halted; a
\* strategy has its own limits (StrategyGate).
CheckLimit ==
  /\ order.stage = "ready"
  /\ IF order.portfolio = "strategy"
       THEN order' = [order EXCEPT !.stage = "checked"] /\ UNCHANGED limit
     ELSE IF limit.state = "HALTED"
       THEN order' = [order EXCEPT !.stage = "refused"] /\ UNCHANGED limit
       ELSE /\ order' = [order EXCEPT !.stage = "checked", !.limit = limit.state]
            /\ limit' = [limit EXCEPT !.held = limit.state # None]
  /\ UNCHANGED <<connection, account, default, strategyRow, registry, catalog, judged, edits, astray, repointed>>

\* insert_order_state keeps the connection's code with the order.
Commit1 ==
  /\ order.stage = "checked"
  /\ order' = [order EXCEPT !.stage = "stored"]
  /\ limit' = [limit EXCEPT !.held = FALSE]
  /\ UNCHANGED <<connection, account, default, strategyRow, registry, catalog, judged, edits, astray, repointed>>

\* The adapter of the broker and environment read before TX1
Send ==
  /\ order.stage = "stored"
  /\ order' = [order EXCEPT !.stage = "routed", !.sent = <<order.broker, order.environment>>]
  /\ UNCHANGED <<connection, account, default, strategyRow, registry, catalog, limit, judged, edits, astray, repointed>>

\* Faulty variant: the connection its account is on now.
CancelTargetByAccount == connection[account[order.account].connection]

\* Where a cancel of the order goes: the connection stored with it, as it is
\* now, active or not
CancelTarget == connection[order.connection]

CancelRouted ==
  /\ order.stage = "routed"
  /\ order' = [order EXCEPT !.stage = "cancelled",
                 !.cancel = <<CancelTarget.broker, CancelTarget.environment>>]
  /\ UNCHANGED <<connection, account, default, strategyRow, registry, catalog, limit, judged, edits, astray, repointed>>

RoutingNext ==
  \/ UpdatePortfolio \/ UpdateAccount \/ JudgeUpdate \/ WriteUpdate \/ PutConnections
  \/ ReloadRegistry \/ ChangeLimit \/ ChangeCatalog
  \/ SubmitDesk \/ SubmitStrategy \/ Preflight \/ CheckLimit \/ Commit1 \/ Send \/ CancelRouted

RoutingSpec == RoutingInit /\ [][RoutingNext]_routingVars

-----------------------------------------------------------------------------
(* Properties                                                              *)

\* An order goes where it says: a symbol stands for the one listing it can
\* mean (handlers.rs resolve_instrument_ref), and a strategy's order goes to
\* the broker it names, unless the account had moved, when the order was routed,
\* since the strategy's connections were put (strategies/admin.rs put_connections).  A cancel goes to
\* the venue that has the order, whatever was done to the account, unless the
\* connection itself was pointed elsewhere meanwhile (order_entry.rs cancel).  And
\* the venues shown for an active instrument are those an order may name.
RoutedAsNamed ==
  /\ order.connection # None =>
       /\ order.named = {order.instrument}
       /\ order.portfolio = "strategy" /\ ~ order.strayed => order.broker = order.broker_named
  /\ order.cancel # None /\ ~ repointed => order.cancel = order.sent
  /\ \A i \in catalog.active, a \in Accounts :
       ShownEligible("desk", i, a) <=> MayRoute(a, TRUE, "desk", i)

\* While an order that was checked against a limit is not yet stored, the limit
\* cannot come to say halted: a halt that was answered is behind no order
\* (risk_engine.rs risk_config FOR UPDATE; admin.rs update_risk_limit).
HaltWaitsForChecked ==
  order.stage = "checked" /\ order.limit # None => limit.state # "HALTED"
==============================================================================

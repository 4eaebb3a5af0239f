----------------------------- MODULE DailyStats -----------------------------
(***************************************************************************)
(* The previous close of the instruments someone looks at, polled from the  *)
(* brokers' own snapshot endpoints (daily_stats_poller.rs).                 *)
(*                                                                         *)
(* A poll works on the sources registered when it starts, whatever a reload *)
(* publishes meanwhile, one environment per broker; a source is asked only  *)
(* for the venues its connector quotes, since a venue refuses a batch with  *)
(* one symbol it does not list.                                             *)
(***************************************************************************)
EXTENDS Naturals, FiniteSets

CONSTANTS
  Quoted,      \* id -> [symbol, venue] of the ACTIVE instruments
  StatSources, \* the <<broker, environment>> pairs that may be registered
  MaxReloads   \* how often a reload publishes other sources

ASSUME DailyStatsAssumption ==
  /\ \A s \in StatSources : s = <<s[1], s[2]>>
  /\ MaxReloads \in Nat

VARIABLES
  registered,  \* the DailyStatsRegistry published
  interesting, \* watchlisted or held
  poll,        \* poll_once: [pc, sources, rows, todo, failed]
  prevClose,   \* DailyStatsStore: the source of each close this poll has set
  reloads

statsVars == <<registered, interesting, poll, prevClose, reloads>>

Unset == <<"none", "none">>

StatsInit ==
  /\ registered \in SUBSET StatSources /\ reloads = 0
  /\ interesting = {}
  /\ poll = [pc |-> "idle", sources |-> {}, rows |-> {}, todo |-> {}, failed |-> {}]
  /\ prevClose = [i \in DOMAIN Quoted |-> Unset]

\* The manifests' QuoteScope.
Quotes(broker) ==
  CASE broker \in {"BINANCE", "BYBIT", "COINBASE", "OKX"} -> "OwnVenue"
    [] broker = "ALPACA" -> "NonCrypto"
    [] OTHER -> "None"

\* broker_serves_venue: a venue's own broker, or one that quotes what no
\* connector claims.
ServesVenue(broker, venue) ==
  \/ Quotes(broker) = "OwnVenue" /\ venue = broker
  \/ Quotes(broker) = "NonCrypto" /\ Quotes(venue) # "OwnVenue"

\* select_one_environment_per_broker: LIVE, else the first by name; the two there
\* are besides LIVE are PAPER and SANDBOX.
Environment(sources, broker) ==
  LET envs == {s[2] : s \in {x \in sources : x[1] = broker}}
  IN  CHOOSE e \in envs : \/ e = "LIVE"
                          \/ "LIVE" \notin envs /\ (e = "PAPER" \/ "PAPER" \notin envs)

Selected(sources) == {<<b, Environment(sources, b)>> : b \in {s[1] : s \in sources}}

\* external: someone watches or trades other instruments; a reload publishes.
Interest ==
  /\ interesting' \in SUBSET DOMAIN Quoted \ {interesting}
  /\ poll.pc # "asking"
  /\ UNCHANGED <<registered, poll, prevClose, reloads>>

PublishSources ==
  /\ reloads < MaxReloads
  /\ registered' \in SUBSET StatSources \ {registered}
  /\ reloads' = reloads + 1
  /\ UNCHANGED <<interesting, poll, prevClose>>

\* run and the head of poll_once: the tick loads the registry; the ids are joined
\* and looked up, and none ends the poll.
PollBegins ==
  /\ poll.pc # "asking" /\ interesting # {}
  /\ poll' = [pc |-> "asking", sources |-> registered, rows |-> interesting,
              todo |-> Selected(registered), failed |-> {}]
  /\ prevClose' = [i \in DOMAIN Quoted |-> Unset]
  /\ UNCHANGED <<registered, interesting, reloads>>

Served(broker) == {i \in poll.rows : ServesVenue(broker, Quoted[i].venue)}

\* build_symbol_to_id: a symbol two rows share is the first row's, in no order.
SymbolIds(ids) == {S \in SUBSET ids : /\ {Quoted[i].symbol : i \in S} = {Quoted[i].symbol : i \in ids}
                                      /\ \A i, j \in S : Quoted[i].symbol = Quoted[j].symbol => i = j}

\* external: Binance refuses a batch with a symbol that is not its own.
Refuses(broker, ids) == broker = "BINANCE" /\ \E i \in ids : Quoted[i].venue # broker

\* A source answers, with a close for every symbol of its own, and what it
\* answers is stored under the rows' ids.
SourceAnswers(s) ==
  /\ s \in poll.todo /\ Served(s[1]) # {} /\ ~ Refuses(s[1], Served(s[1]))
  /\ \E S \in SymbolIds(Served(s[1])) :
       prevClose' = [i \in DOMAIN Quoted |-> IF i \in S THEN s ELSE prevClose[i]]
  /\ poll' = [poll EXCEPT !.todo = @ \ {s}]
  /\ UNCHANGED <<registered, interesting, reloads>>

\* A source that serves none of the rows is passed over; one that fails is
\* warned of, and the others continue.
SourcePassed(s) ==
  /\ s \in poll.todo
  /\ poll' = [poll EXCEPT !.todo = @ \ {s},
                          !.failed = IF Served(s[1]) = {} \/ Refuses(s[1], Served(s[1])) THEN @ ELSE @ \cup {s}]
  /\ UNCHANGED <<registered, interesting, prevClose, reloads>>

PollEnds ==
  /\ poll.pc = "asking" /\ poll.todo = {}
  /\ poll' = [poll EXCEPT !.pc = "done"]
  /\ UNCHANGED <<registered, interesting, prevClose, reloads>>

StatsNext ==
  \/ Interest \/ PublishSources \/ PollBegins \/ PollEnds
  \/ \E s \in StatSources : SourceAnswers(s) \/ SourcePassed(s)

-----------------------------------------------------------------------------
\* A close is the instrument's own: of a broker that quotes its venue and of no
\* other environment when LIVE is there.  And a poll whose source answered leaves
\* every symbol it quotes fresh: no batch is spoilt by a foreign symbol.
ClosesAreOwn ==
  poll.pc = "done" =>
    /\ \A i \in DOMAIN Quoted : prevClose[i] # Unset =>
         LET from == prevClose[i]
         IN  /\ Quoted[i].venue = from[1] \/ Quotes(Quoted[i].venue) # "OwnVenue"
             /\ <<from[1], "LIVE">> \in poll.sources => from[2] = "LIVE"
    /\ \A s \in Selected(poll.sources) \ poll.failed, i \in poll.rows :
         Quoted[i].venue = s[1] =>
           \E j \in poll.rows : Quoted[j].symbol = Quoted[i].symbol /\ prevClose[j] = s
=============================================================================

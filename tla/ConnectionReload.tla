--------------------------- MODULE ConnectionReload ---------------------------
(* The credential store and what the running process makes of it: an          *)
(* administrator saves, deletes or tests a connection's credential or changes  *)
(* its status; `apply_reload` turns the rows into adapters and execution       *)
(* streams; `oms config rotate-key`, a process of its own, re-seals the rows    *)
(* under a new master key while the server still holds the old one.            *)
(*                                                                            *)
(* A credential is a function from its fields to values.  An adapter is the    *)
(* credential it was built from and the number of the pass that built it, so   *)
(* two adapters built from one credential are still two.                       *)
EXTENDS Naturals, FiniteSets

CONSTANTS
    Brokers,        \* broker_connection rows
    Feed,           \* the one credentialed feed_connection row
    SessionBound,   \* brokers whose connector owns a logon: IBKR, Binance
    OnFix,          \* the ones of them on FIX: no execution stream, no way to stop
    Fields,         \* the fields of a credential
    FieldValues,    \* what a field can hold
    Accepted,       \* the credentials the venue lets in
    Stored,         \* the ones stored at first
    Submissions,    \* what an administrator types; Blank keeps the stored field
    Requests,       \* admin requests, each made once
    None, Blank,
    MaxPasses,      \* reloads and boots, a bound
    MaxFailures     \* reloads the store fails, a bound

Rows == Brokers \cup {Feed}
Credentials == [Fields -> FieldValues]
Blobs == [key : {"old", "new"}, cred : Credentials]
Adapters == [cred : Credentials, pass : Nat]

ASSUME ReloadConstants ==
    /\ OnFix \subseteq SessionBound /\ SessionBound \subseteq Brokers /\ Feed \notin Brokers
    /\ None \notin Rows /\ None \notin Blobs /\ None \notin Adapters
    /\ Accepted \subseteq Credentials /\ Stored \subseteq Accepted
    /\ Submissions \subseteq [Fields -> FieldValues \cup {Blank}]
    /\ MaxPasses \in Nat \ {0} /\ MaxFailures \in Nat

VARIABLES
    rows,       \* the table: status and sealed credential of each row
    configKey,  \* oms.master_key in oms.toml
    server,     \* the process: up or not, and the key it read at start
    rotation,   \* rotate-key: its step and the credentials it read
    registry,   \* BrokerRegistry: the adapter orders are routed to
    tasks,      \* the stream tasks and FIX sessions that run
    handles,    \* StreamRegistry: the task each stream code can stop
    request,    \* the admin requests
    pass,       \* the reload that holds the lock: its step and its snapshot
    passes,     \* passes made so far
    failures,
    armed,      \* history: brokers registered and neither disabled nor cleared since
    answered    \* history: rows whose last change was answered with success

storeVars  == <<rows, configKey, rotation>>
memoryVars == <<server, registry, tasks, handles, pass, passes>>
history    == <<armed, answered>>
reloadVars == <<storeVars, memoryVars, request, failures, history>>

-----------------------------------------------------------------------------
(* Decoding and classifying a row                                             *)

\* credentials::decode: a stored credential that its key does not open is an
\* Error, never an absent one.
Decode(row, key) ==
    IF row.cred = None THEN "Unconfigured"
    ELSE IF row.cred.key = key THEN "Configured" ELSE "Error"

\* must_refuse_reload and boot's gate: something is stored and nothing opens.
NothingDecrypted(table, key) ==
    /\ \E c \in Rows : Decode(table[c], key) = "Error"
    /\ \A c \in Rows : Decode(table[c], key) # "Configured"

\* reload::classify
Classify(c, row, key, boot) ==
    IF row.status # "ACTIVE" THEN "Disabled"
    ELSE CASE Decode(row, key) = "Unconfigured" -> "Unconfigured"
           [] Decode(row, key) = "Error" -> "Failed"
           [] OTHER -> IF c \in SessionBound /\ ~boot THEN "RestartRequired" ELSE "Registered"

\* Faulty variant: a stream is restarted for a new credential alone.
FreshIfChanged(table, key, boot) ==
    {c \in Brokers : /\ Classify(c, table[c], key, boot) = "Registered"
                     /\ handles[c] = None \/ handles[c].cred # table[c].cred.cred}

\* The connections a pass builds anew; the others keep what they have or lose it.
Fresh(table, key, boot) == {c \in Brokers : Classify(c, table[c], key, boot) = "Registered"}

\* Faulty variant: an unreadable row drops its adapter.
BuildRegistryDropsFailed(table, key, boot, current, n) ==
    [c \in Brokers |->
        LET outcome == Classify(c, table[c], key, boot)
        IN  IF outcome = "Registered" THEN [cred |-> table[c].cred.cred, pass |-> n]
            ELSE IF outcome = "RestartRequired" THEN current[c] ELSE None]

\* build_registry: fresh adapters, and the running one carried forward where
\* the stored credential is unreadable or the session cannot be swapped.
BuildRegistry(table, key, boot, current, n) ==
    [c \in Brokers |->
        LET outcome == Classify(c, table[c], key, boot)
        IN  IF outcome = "Registered" THEN [cred |-> table[c].cred.cred, pass |-> n]
            ELSE IF outcome \in {"Failed", "RestartRequired"} THEN current[c]
            ELSE None]

\* credentials_api::parse_broker and field: a blank field takes the stored
\* value, and is missing when nothing readable is stored.
Merge(sub, row, key) ==
    IF Decode(row, key) = "Configured"
    THEN [f \in Fields |-> IF sub[f] = Blank THEN row.cred.cred[f] ELSE sub[f]]
    ELSE sub

\* test_broker and persist_gate: a FIX logon cannot be tried before saving.
TestPasses(c, cred) == c \in SessionBound \/ cred \in Accepted

-----------------------------------------------------------------------------
(* The administrator's requests                                               *)

\* One handler: put_, delete_broker_connection_credentials and their feed
\* twins, update_broker_connection, reload_connections.
Idle == [op |-> "none", step |-> "new", row |-> None, cred |-> None]
Ended == [op |-> "none", step |-> "end", row |-> None, cred |-> None]

\* The row is written: its last change is not answered yet.
Written(c) == answered' = answered \ {c}

\* put: the stored credential is read and merged; what was submitted must be
\* complete.
Submit(r, c, sub) ==
    /\ server.up
    /\ request[r].step = "new"
    /\ Merge(sub, rows[c], server.key) \in Credentials
    /\ request' = [request EXCEPT ![r] =
           [op |-> "put", step |-> "test", row |-> c, cred |-> Merge(sub, rows[c], server.key)]]
    /\ UNCHANGED <<storeVars, memoryVars, failures, history>>

PutBroker(r, c, sub) == c \in Brokers /\ Submit(r, c, sub)

PutFeed(r, sub) == Submit(r, Feed, sub)

\* put: the venue refuses the credential; 422, nothing is written.
PutRefused(r) ==
    /\ request[r].step = "test"
    /\ ~TestPasses(request[r].row, request[r].cred)
    /\ request' = [request EXCEPT ![r] = Ended]
    /\ UNCHANGED <<storeVars, memoryVars, failures, history>>

\* put: save_broker, save_feed. Sealed under the key the process holds.
PutSave(r) ==
    LET c == request[r].row IN
    /\ request[r].step = "test"
    /\ TestPasses(c, request[r].cred)
    /\ rows' = [rows EXCEPT ![c].cred = [key |-> server.key, cred |-> request[r].cred]]
    /\ request' = [request EXCEPT ![r].step = "reload"]
    /\ Written(c)
    /\ UNCHANGED <<configKey, rotation, memoryVars, failures, armed>>

\* delete: the row is cleared before the reload, so a retry finds it again.
Clear(r, c) ==
    /\ server.up
    /\ request[r].step = "new"
    /\ rows' = [rows EXCEPT ![c].cred = None]
    /\ request' = [request EXCEPT ![r] = [op |-> "delete", step |-> "reload", row |-> c, cred |-> None]]
    /\ armed' = armed \ {c}
    /\ Written(c)
    /\ UNCHANGED <<configKey, rotation, memoryVars, failures>>

DeleteBroker(r, c) == c \in Brokers /\ Clear(r, c)

DeleteFeed(r) == Clear(r, Feed)

\* update_broker_connection: the status is written, nothing is reloaded.
UpdateStatus(r, c, status) ==
    /\ server.up
    /\ request[r].step = "new"
    /\ rows[c].status # status
    /\ rows' = [rows EXCEPT ![c].status = status]
    /\ request' = [request EXCEPT ![r] = Ended]
    /\ armed' = armed \ {c}
    /\ Written(c)
    /\ UNCHANGED <<configKey, rotation, memoryVars, failures>>

\* reload_connections
ReloadRequest(r) ==
    /\ server.up
    /\ request[r].step = "new"
    /\ request' = [request EXCEPT ![r] = [op |-> "reload", step |-> "reload", row |-> None, cred |-> None]]
    /\ UNCHANGED <<storeVars, memoryVars, failures, history>>

\* test_broker_connection_credentials and its feed twin: the stored credential
\* is decoded and tried at the venue, and whatever comes out nothing changes.
TestStored(r, c) ==
    /\ server.up
    /\ request[r].step = "new"
    /\ request' = [request EXCEPT ![r] = Ended]
    /\ UNCHANGED <<storeVars, memoryVars, failures, history>>

TestBroker(r, c) == c \in Brokers /\ TestStored(r, c)

TestFeed(r) == TestStored(r, Feed)

\* The client goes away and its handler is dropped at the await it stands at.
\* A reload runs on a task of its own (reload_using) and goes on.
Disconnect(r) ==
    /\ request[r].op = "put" /\ request[r].step = "test"
    /\ request' = [request EXCEPT ![r] = Ended]
    /\ UNCHANGED <<storeVars, memoryVars, failures, history>>

-----------------------------------------------------------------------------
(* apply_reload                                                               *)

NoPass == [step |-> "none", of |-> None, table |-> None, restart |-> {}, start |-> {}, stop |-> {}]

\* lock_reload, then one repeatable-read snapshot of both tables.
ReloadSnapshot(r) ==
    /\ pass.step = "none"
    /\ request[r].step = "reload"
    /\ passes < MaxPasses
    /\ pass' = [NoPass EXCEPT !.step = "loaded", !.of = r, !.table = rows]
    /\ request' = [request EXCEPT ![r].step = "reloading"]
    /\ UNCHANGED <<storeVars, server, registry, tasks, handles, passes, failures, history>>

\* The store cannot be read, or nothing in it opens: the request is answered
\* with an error and the running registry is left as it is.
ReloadRefused ==
    /\ pass.step = "loaded"
    /\ \/ NothingDecrypted(pass.table, server.key) /\ UNCHANGED failures
       \/ failures < MaxFailures /\ failures' = failures + 1
    /\ request' = [request EXCEPT ![pass.of] = Ended]
    /\ pass' = NoPass
    /\ UNCHANGED <<storeVars, server, registry, tasks, handles, passes, history>>

\* build_registry and swap_registries.
ReloadSwap ==
    LET built == BuildRegistry(pass.table, server.key, FALSE, registry, passes + 1)
    IN
    /\ pass.step = "loaded"
    /\ ~NothingDecrypted(pass.table, server.key)
    /\ registry' = built
    /\ passes' = passes + 1
    /\ pass' = [pass EXCEPT !.step = "streams",
                            !.restart = Fresh(pass.table, server.key, FALSE),
                            !.stop = {c \in Brokers : built[c] = None}]
    /\ armed' = armed \cup {c \in Brokers : /\ built[c] # None
                                            /\ rows[c].status = "ACTIVE" /\ rows[c].cred # None}
    /\ UNCHANGED <<storeVars, server, tasks, handles, request, failures, answered>>

\* StreamRegistry::abort_and_remove: stop, join and forget the task under c.
Aborted(c) ==
    /\ tasks' = tasks \ {[row |-> c, of |-> handles[c]]}
    /\ handles' = [handles EXCEPT ![c] = None]

\* restart_exec_stream, first half: the old stream is gone before the new one
\* is started.
StreamAbort(c) ==
    /\ pass.step = "streams" /\ c \in pass.restart /\ pass.start = {}
    /\ Aborted(c)
    /\ pass' = [pass EXCEPT !.restart = @ \ {c}, !.start = {c}]
    /\ UNCHANGED <<storeVars, server, registry, passes, request, failures, history>>

\* restart_exec_stream, second half: the task and its handle.
StreamStart(c) ==
    /\ pass.step = "streams" /\ c \in pass.start
    /\ tasks' = tasks \cup {[row |-> c, of |-> registry[c]]}
    /\ handles' = [handles EXCEPT ![c] = registry[c]]
    /\ pass' = [pass EXCEPT !.start = {}]
    /\ UNCHANGED <<storeVars, server, registry, passes, request, failures, history>>

\* stop_execution_stream: no adapter for the connection is left.
StreamStop(c) ==
    /\ pass.step = "streams" /\ pass.restart \cup pass.start = {} /\ c \in pass.stop
    /\ Aborted(c)
    /\ pass' = [pass EXCEPT !.stop = @ \ {c}]
    /\ UNCHANGED <<storeVars, server, registry, passes, request, failures, history>>

\* The feed: classify_feed, then restart_databento_feed, stop_databento_feed or,
\* when the credential is unreadable, nothing. Then the request is answered.
FeedRow == pass.table[Feed]
FeedOutcome == Classify(Feed, FeedRow, server.key, FALSE)
FeedSource == [cred |-> FeedRow.cred.cred, pass |-> passes]

FeedAbort ==
    /\ pass.step = "streams" /\ pass.restart \cup pass.start = {} /\ pass.stop = {}
    /\ IF FeedOutcome = "Failed" THEN UNCHANGED <<tasks, handles>> ELSE Aborted(Feed)
    /\ pass' = [pass EXCEPT !.step = IF FeedOutcome = "Registered" THEN "feed" ELSE "answer"]
    /\ UNCHANGED <<storeVars, server, registry, passes, request, failures, history>>

FeedStart ==
    /\ pass.step = "feed"
    /\ tasks' = tasks \cup {[row |-> Feed, of |-> FeedSource]}
    /\ handles' = [handles EXCEPT ![Feed] = FeedSource]
    /\ pass' = [pass EXCEPT !.step = "answer"]
    /\ UNCHANGED <<storeVars, server, registry, passes, request, failures, history>>

\* The report is returned and the lock released. The row this request wrote
\* has been answered, unless it was written again since the snapshot or the
\* report says that the row could not be applied.
ReloadAnswer ==
    LET r == pass.of
        c == request[r].row
    IN
    /\ pass.step = "answer"
    /\ request' = [request EXCEPT ![r] = Ended]
    /\ pass' = NoPass
    /\ answered' = IF /\ c # None /\ pass.table[c] = rows[c]
                      /\ Classify(c, rows[c], server.key, FALSE) \notin {"Failed", "RestartRequired"}
                   THEN answered \cup {c} ELSE answered
    /\ UNCHANGED <<storeVars, server, registry, tasks, handles, passes, failures, armed>>

-----------------------------------------------------------------------------
(* oms config rotate-key, and the restart that makes the server use its key   *)

\* rotate_table's SELECT: every stored credential, all of which must open under
\* the configured key.
RotateRead ==
    /\ rotation.step = "none"
    /\ \A c \in Rows : Decode(rows[c], configKey) # "Error"
    /\ rotation' = [step |-> "read", copy |-> [c \in Rows |-> rows[c].cred]]
    /\ UNCHANGED <<rows, configKey, memoryVars, request, failures, history>>

\* Its UPDATEs, and the one commit: what was read, under the new key, in every
\* row that had a credential when it was read.
RotateCommit ==
    /\ rotation.step = "read"
    /\ rows' = [c \in Rows |->
           IF rotation.copy[c] = None THEN rows[c]
           ELSE [rows[c] EXCEPT !.cred = [key |-> "new", cred |-> rotation.copy[c].cred]]]
    /\ rotation' = [step |-> "done", copy |-> None]
    /\ answered' = {c \in answered : rotation.copy[c] = None
                        \/ (rows[c].cred # None /\ rows[c].cred.cred = rotation.copy[c].cred)}
    /\ UNCHANGED <<configKey, memoryVars, request, failures, armed>>

\* The operator puts the printed key into oms.toml.
EditKey ==
    /\ rotation.step = "done" /\ configKey = "old"
    /\ configKey' = "new"
    /\ UNCHANGED <<rows, rotation, memoryVars, request, failures, history>>

\* The process is started again: the key is read once (config::load), boot
\* refuses a store nothing of which opens, else builds every adapter fresh and
\* starts its stream, or its FIX session, on a thread that parks for ever and
\* that no handle stops. What was in flight died with the old process.
Boot(table, key, n) ==
    LET built == BuildRegistry(table, key, TRUE, [c \in Brokers |-> None], n)
        fed == Classify(Feed, table[Feed], key, TRUE) = "Registered"
        running == [c \in Rows |-> IF c # Feed THEN built[c]
                                   ELSE IF fed THEN [cred |-> table[Feed].cred.cred, pass |-> n] ELSE None]
    IN  [registry |-> built,
         handles |-> [c \in Rows |-> IF c \in OnFix THEN None ELSE running[c]],
         tasks |-> {[row |-> c, of |-> running[c]] : c \in {d \in Rows : running[d] # None}}]

Restart ==
    LET up == ~NothingDecrypted(rows, configKey)
        booted == Boot(IF up THEN rows ELSE [c \in Rows |-> [status |-> "ACTIVE", cred |-> None]],
                       configKey, passes + 1)
    IN
    /\ passes < MaxPasses
    /\ server' = [up |-> up, key |-> configKey]
    /\ registry' = booted.registry /\ handles' = booted.handles
    /\ tasks' = booted.tasks
    /\ pass' = NoPass /\ passes' = passes + 1
    /\ request' = [r \in Requests |-> IF request[r].step = "new" THEN request[r] ELSE Ended]
    /\ armed' = {c \in Brokers : booted.registry[c] # None}
    /\ answered' = {}
    /\ UNCHANGED <<storeVars, failures>>

-----------------------------------------------------------------------------
(* The specification                                                          *)

\* Boot on a store in which some connections are configured, under one key.
ReloadInit ==
    /\ rows \in [Rows -> [status : {"ACTIVE"}, cred : {None} \cup [key : {"old"}, cred : Stored]]]
    /\ configKey = "old"
    /\ rotation = [step |-> "none", copy |-> None]
    /\ server = [up |-> TRUE, key |-> "old"]
    /\ passes = 1
    /\ LET booted == Boot(rows, "old", 1)
       IN  /\ registry = booted.registry /\ handles = booted.handles
           /\ tasks = booted.tasks
           /\ armed = {c \in Brokers : booted.registry[c] # None}
    /\ request = [r \in Requests |-> Idle]
    /\ pass = NoPass
    /\ failures = 0
    /\ answered = {}

RequestStep(r) ==
    \/ \E c \in Brokers, sub \in Submissions : PutBroker(r, c, sub)
    \/ \E sub \in Submissions : PutFeed(r, sub)
    \/ PutRefused(r) \/ PutSave(r)
    \/ \E c \in Brokers : DeleteBroker(r, c)
    \/ DeleteFeed(r)
    \/ \E c \in Brokers, status \in {"ACTIVE", "DISABLED"} : UpdateStatus(r, c, status)
    \/ \E c \in Brokers : TestBroker(r, c)
    \/ TestFeed(r)
    \/ ReloadRequest(r) \/ Disconnect(r)
    \/ ReloadSnapshot(r)

PassStep ==
    \/ ReloadRefused \/ ReloadSwap
    \/ \E c \in Brokers : StreamAbort(c) \/ StreamStart(c) \/ StreamStop(c)
    \/ FeedAbort \/ FeedStart \/ ReloadAnswer

ReloadNext ==
    \/ \E r \in Requests : RequestStep(r)
    \/ PassStep
    \/ RotateRead \/ RotateCommit \/ EditKey
    \/ Restart

ReloadSpec == ReloadInit /\ [][ReloadNext]_reloadVars

-----------------------------------------------------------------------------
(* Properties                                                                 *)

\* However reloads, restarts of streams and disconnecting clients interleave,
\* every stream task that runs is the one its code can stop: there is never a
\* second session beside one still running. And between passes the fills of a
\* connection arrive on a stream that books against the very adapter its orders
\* are routed to, and a connection that routes nothing has no stream. A connection
\* on FIX is the exception: its session is no stream and nothing ends it, so it
\* still delivers the fills of a connection that is disabled or cleared. Orders
\* are routed to that one session of it, or nowhere.
StreamFollowsAdapter ==
    /\ {t \in tasks : t.row \notin OnFix} = {[row |-> c, of |-> handles[c]] : c \in {d \in Rows : handles[d] # None}}
    /\ pass.step = "none" => \A c \in Brokers \ OnFix : handles[c] = registry[c]
    /\ \A c \in OnFix : registry[c] # None => [row |-> c, of |-> registry[c]] \in tasks
    /\ \A t, u \in tasks : t.row = u.row => t = u

InEffect(c) ==
    IF rows[c].status = "ACTIVE" /\ rows[c].cred # None
    THEN registry[c] # None /\ registry[c].cred = rows[c].cred.cred
    ELSE registry[c] = None

\* What an administrator was told has been applied is what orders are routed
\* with, whatever other saves, reloads and rotations run. A connection that works
\* is not disarmed by a rotated key, an unreadable row, a failing store or another
\* connection's change: as long as nobody disables it or clears its credential,
\* orders can be routed to it. And saves that overlap, with a rotation between
\* them, leave no combination of fields in the store that no test accepted.
AnsweredInEffect ==
    /\ \A c \in answered \cap Brokers : InEffect(c)
    /\ server.up => \A c \in armed : registry[c] # None
    /\ \A c \in Rows \ SessionBound : rows[c].cred # None => rows[c].cred.cred \in Accepted
=============================================================================

-------------------------------- MODULE Setup --------------------------------
(***************************************************************************)
(* The commands an operator runs around the server: `oms init`,            *)
(* `oms database init [--resume] | migrate | drop`, `oms config            *)
(* import-env | rotate-key` and `oms update` (src/src/setup, config.rs and *)
(* the dispatch in main.rs), and whether `oms` would then start (serve and *)
(* preflight.rs).  Two terminals may run commands at once, and a command   *)
(* may die between any two of its steps.                                   *)
(*                                                                         *)
(* Every secret is named by the number of the generator call that made it; *)
(* 0 is the built-in default password, and no key.  A release of version v *)
(* embeds the migrations 1..v.  The two migration targets are one list     *)
(* here.  A fault of the database ends a command as a crash does.          *)
(***************************************************************************)
EXTENDS Naturals, Sequences, FiniteSets

CONSTANTS
  Terminals,       \* where commands are run
  Version,         \* the newest release
  MaxCommands,     \* commands begun
  MaxCrashes       \* commands that die between two steps

ASSUME SetupAssumption ==
  /\ Version \in Nat \ {0} /\ MaxCommands \in Nat /\ MaxCrashes \in Nat

VARIABLES
  server,      \* where PostgreSQL is: in a container of ours, here, elsewhere
  container,   \* the openoms container and its volume exist
  config,      \* oms.toml: absent, torn (created, not written) or whole
  role,        \* the oms role and its password
  database,    \* the database: what was applied to it
  store,       \* the key each stored credential is sealed under, 0 when none
  exe,         \* the installed binary
  command,     \* what each terminal is running
  secrets,     \* secrets generated so far
  printed,     \* the key the last rotate-key printed
  begun,       \* commands begun
  crashes      \* commands that died

setupVars == <<server, container, config, role, database, store, exe, command,
               secrets, printed, begun, crashes>>

CredentialRows == {"broker", "feed"}
NoConfig   == [file |-> "absent", password |-> 0, key |-> 0]
NoDatabase == [exists |-> FALSE, tracked |-> FALSE, ran |-> <<>>, granted |-> FALSE, seeds |-> 0]
NoRole     == [exists |-> FALSE, password |-> 0]
NoBlobs    == [r \in CredentialRows |-> 0]
AllSeeds   == 3   \* currencies, venues, then crypto venues and calendars
Idle       == [cmd |-> "none", pc |-> "idle", password |-> 0, key |-> 0, version |-> 0,
               plan |-> {}, todo |-> {}, disturbed |-> FALSE, foreign |-> FALSE]

SetupInit ==
  /\ server \in {"docker", "local", "remote"}
  /\ container = FALSE
  /\ config = NoConfig /\ role = NoRole /\ database = NoDatabase /\ store = NoBlobs
  /\ exe = [version |-> 1, release |-> "genuine"]
  /\ command = [t \in Terminals |-> Idle]
  /\ secrets = 0 /\ printed = 0 /\ begun = 0 /\ crashes = 0

-----------------------------------------------------------------------------
(* Steps of a command                                                      *)

Reachable == server = "docker" => container
Running(t) == command[t].pc \notin {"idle", "ok", "failed", "died"}
AtStep(t, pc) == command[t].pc = pc

\* A step of one command is a disturbance to the others that are running.
Stepped(t, c) ==
  command' = [u \in Terminals |->
    IF u = t THEN c
    ELSE IF Running(u) THEN [command[u] EXCEPT !.disturbed = TRUE] ELSE command[u]]
Goes(t, pc) == Stepped(t, [command[t] EXCEPT !.pc = pc])
Ends(t, result) == Stepped(t, [Idle EXCEPT !.pc = result])

fileVars == <<server, container, config, exe, secrets, printed>>
countVars == <<begun, crashes>>

\* resolve_role_password and master_key: the file's value, else the default.
FromFile == IF config.file = "whole" THEN config ELSE NoConfig

\* refuses_default_password: only a server on this machine may have it.
RefusesDefault(password) == server = "remote" /\ password = 0

\* main: what a command has when it starts; the file is read once per process.
BeginCommand(t, cmd) ==
  /\ ~Running(t) /\ begun < MaxCommands
  /\ begun' = begun + 1
  /\ LET fresh == [Idle EXCEPT !.cmd = cmd, !.version = exe.version,
                     !.password = FromFile.password, !.key = FromFile.key,
                     !.disturbed = \E u \in Terminals \ {t} : Running(u)]
         first == CASE cmd = "init" -> IF config.file # "absent" THEN "failed"
                                       ELSE IF server = "docker" THEN "docker" ELSE "probe"
                  [] cmd \in {"database init", "resume"} ->
                       IF RefusesDefault(FromFile.password) THEN "failed" ELSE "inspect"
                  [] cmd = "migrate" -> "connect"
                  [] cmd = "import" -> IF FromFile.key = 0 THEN "failed" ELSE "check"
                  [] cmd = "update" -> "download"
     IN IF first = "failed" THEN Ends(t, first) ELSE Stepped(t, [fresh EXCEPT !.pc = first])
  /\ UNCHANGED <<fileVars, role, database, store, crashes>>

-----------------------------------------------------------------------------
(* oms init                                                                *)

\* docker::preflight, start and wait_ready: a container or volume of ours is
\* never reused, and one that did not become ready in time is left behind.
StartDocker(t) ==
  /\ AtStep(t, "docker")
  /\ \/ container /\ Ends(t, "failed") /\ UNCHANGED container
     \/ ~container /\ container' = TRUE /\ (Goes(t, "probe") \/ Ends(t, "failed"))
  /\ UNCHANGED <<server, config, exe, secrets, printed, role, database, store, countVars>>

\* The connection test before anything is written, then build_file_config and
\* write_new's create_new: the check and the create are one step.
CreateConfig(t) ==
  /\ AtStep(t, "probe")
  /\ \/ /\ ~Reachable \/ config.file # "absent"
        /\ Ends(t, "failed") /\ UNCHANGED <<config, secrets>>
     \/ /\ Reachable /\ config.file = "absent"
        /\ config' = [NoConfig EXCEPT !.file = "torn"]
        /\ secrets' = secrets + 1
        /\ Stepped(t, [command[t] EXCEPT !.pc = "write", !.password = secrets + 1,
                                         !.key = secrets + 1])
  /\ UNCHANGED <<server, container, exe, printed, role, database, store, countVars>>

\* write_new's writes: all of the file, or none of it and the file removed.
WriteConfig(t) ==
  /\ AtStep(t, "write")
  /\ \/ /\ config' = [file |-> "whole", password |-> command[t].password, key |-> command[t].key]
        /\ Goes(t, "inspect")
     \/ config' = NoConfig /\ Ends(t, "failed")
  /\ UNCHANGED <<server, container, exe, secrets, printed, role, database, store, countVars>>

-----------------------------------------------------------------------------
(* oms database init                                                       *)

\* Faulty variant: anything found means there is nothing to provision.
PlanAllOrNothing(resume, found) ==
  IF found = {} THEN {"role", "database"} ELSE IF resume THEN {} ELSE {"refuse"}

\* plan_provisioning: everything, only what is missing, or a refusal.
PlanProvisioning(resume, found) ==
  IF found = {} THEN {"role", "database"}
  ELSE IF resume THEN {"role", "database"} \ found
  ELSE {"refuse"}

Next1(plan) == IF "role" \in plan THEN "role" ELSE IF "database" \in plan THEN "database" ELSE "connect"

\* provision::inspect, then the plan made from what it found.
Inspect(t) ==
  /\ AtStep(t, "inspect")
  /\ LET found == (IF role.exists THEN {"role"} ELSE {}) \cup (IF database.exists THEN {"database"} ELSE {})
         plan == PlanProvisioning(command[t].cmd = "resume", found)
     IN IF ~Reachable \/ plan = {"refuse"} THEN Ends(t, "failed")
        ELSE Stepped(t, [command[t] EXCEPT !.pc = Next1(plan), !.plan = plan,
               !.foreign = role.exists /\ role.password # command[t].password])
  /\ UNCHANGED <<fileVars, role, database, store, countVars>>

\* create_role: never ALTER ROLE, so a role that exists is an error.
CreateRole(t) ==
  /\ AtStep(t, "role")
  /\ IF ~Reachable \/ role.exists THEN Ends(t, "failed") /\ UNCHANGED role
     ELSE /\ role' = [exists |-> TRUE, password |-> command[t].password]
          /\ Goes(t, Next1(command[t].plan \ {"role"}))
  /\ UNCHANGED <<fileVars, database, store, countVars>>

\* create_database, owned by the role.
CreateDatabase(t) ==
  /\ AtStep(t, "database")
  /\ IF ~Reachable \/ database.exists \/ ~role.exists
     THEN Ends(t, "failed") /\ UNCHANGED database
     ELSE database' = [NoDatabase EXCEPT !.exists = TRUE] /\ Goes(t, "connect")
  /\ UNCHANGED <<fileVars, role, store, countVars>>

\* PgPool::connect and ensure_tracking.
EnsureTracking(t) ==
  /\ AtStep(t, "connect")
  /\ IF ~Reachable \/ ~database.exists \/ ~role.exists
     THEN Ends(t, "failed") /\ UNCHANGED database
     ELSE database' = [database EXCEPT !.tracked = TRUE] /\ Goes(t, "list")
  /\ UNCHANGED <<fileVars, role, store, countVars>>

Recorded == {database.ran[i] : i \in DOMAIN database.ran}

\* apply_all's applied_set: read once, then the files it does not name.
ListPending(t) ==
  /\ AtStep(t, "list")
  /\ Stepped(t, [command[t] EXCEPT !.pc = "apply", !.todo = 1..command[t].version \ Recorded])
  /\ UNCHANGED <<fileVars, role, database, store, countVars>>

\* apply_one: the file and its tracking row in one transaction.  A file that
\* another run recorded meanwhile fails on what it creates, or on the key of
\* its row, and the command ends there.
ApplyOne(t) ==
  /\ AtStep(t, "apply") /\ command[t].todo # {}
  /\ LET file == CHOOSE f \in command[t].todo : \A g \in command[t].todo : f <= g
     IN IF file \in Recorded THEN Ends(t, "failed") /\ UNCHANGED database
        ELSE /\ database' = [database EXCEPT !.ran = Append(@, file)]
             /\ Stepped(t, [command[t] EXCEPT !.todo = @ \ {file}])
  /\ UNCHANGED <<fileVars, role, store, countVars>>

\* The end of apply_all: `migrate` is done, `init` goes on to the grants.
Applied(t) ==
  /\ AtStep(t, "apply") /\ command[t].todo = {}
  /\ IF command[t].cmd = "migrate" THEN Ends(t, "ok") ELSE Goes(t, "grant")
  /\ UNCHANGED <<fileVars, role, database, store, countVars>>

\* access::apply: plain GRANTs, the same again when repeated.
Grant(t) ==
  /\ AtStep(t, "grant")
  /\ database' = [database EXCEPT !.granted = TRUE]
  /\ Stepped(t, [command[t] EXCEPT !.pc = "seed", !.todo = 1..AllSeeds])
  /\ UNCHANGED <<fileVars, role, store, countVars>>

\* seed_reference_data: in order, each an upsert.
Seed(t) ==
  /\ AtStep(t, "seed")
  /\ LET step == CHOOSE s \in command[t].todo : \A u \in command[t].todo : s <= u
     IN /\ database' = [database EXCEPT !.seeds = IF @ < step THEN step ELSE @]
        /\ IF step = AllSeeds THEN Ends(t, "ok")
           ELSE Stepped(t, [command[t] EXCEPT !.todo = @ \ {step}])
  /\ UNCHANGED <<fileVars, role, store, countVars>>

\* oms database drop: with FORCE, so whoever is connected to it fails; the
\* role is kept.
DropDatabase(t) ==
  /\ ~Running(t) /\ begun < MaxCommands /\ begun' = begun + 1
  /\ database.exists /\ Reachable
  /\ database' = NoDatabase /\ store' = NoBlobs
  /\ command' = [u \in Terminals |->
       IF u = t THEN [Idle EXCEPT !.pc = "ok"]
       ELSE IF command[u].pc \in {"list", "apply", "grant", "seed", "save"}
       THEN [Idle EXCEPT !.pc = "died"]
       ELSE IF Running(u) THEN [command[u] EXCEPT !.disturbed = TRUE] ELSE command[u]]
  /\ UNCHANGED <<fileVars, role, crashes>>

-----------------------------------------------------------------------------
(* oms config import-env and rotate-key                                    *)

\* What connecting as the oms role and reading its tables takes.
RuntimeConnects(password) == Reachable /\ database.exists /\ role.exists /\ role.password = password
Sealed == {r \in CredentialRows : store[r] # 0}

\* Faulty variant: only the broker table is looked at.
OpensExistingBroker(key) == "broker" \in Sealed => store["broker"] = key

\* refuse_if_key_does_not_match_existing_store: one stored blob, the broker
\* table's before the feed table's, must open under the key.
OpensExisting(key) ==
  IF "broker" \in Sealed THEN store["broker"] = key ELSE "feed" \in Sealed => store["feed"] = key

\* import_env::run up to its first write; the environment names some rows.
ImportCheck(t) ==
  /\ AtStep(t, "check")
  /\ \E found \in SUBSET CredentialRows :
       IF ~RuntimeConnects(command[t].password) \/ 1 \notin Recorded \/ ~OpensExisting(command[t].key)
       THEN Ends(t, "failed")
       ELSE IF found = {} THEN Ends(t, "ok")
       ELSE Stepped(t, [command[t] EXCEPT !.plan = found, !.pc = "save"])
  /\ UNCHANGED <<fileVars, role, database, store, countVars>>

\* save_broker and save_feed, one row after the other.
ImportSave(t) ==
  /\ AtStep(t, "save")
  /\ \E r \in command[t].plan :
       /\ r = "feed" => "broker" \notin command[t].plan
       /\ store' = [store EXCEPT ![r] = command[t].key]
       /\ IF command[t].plan = {r} THEN Ends(t, "ok")
          ELSE Stepped(t, [command[t] EXCEPT !.plan = @ \ {r}])
  /\ UNCHANGED <<fileVars, role, database, countVars>>

\* rotate-key: one transaction that needs the configured key to open every
\* row, and prints the new key.  It is run alone here: what it does to a save
\* that overlaps it is in ConnectionReload.
RotateKey(t) ==
  /\ \A u \in Terminals : ~Running(u)
  /\ begun < MaxCommands /\ begun' = begun + 1
  /\ RuntimeConnects(FromFile.password) /\ FromFile.key # 0
  /\ Sealed # {} /\ \A r \in Sealed : store[r] = FromFile.key
  /\ secrets' = secrets + 1 /\ printed' = secrets + 1
  /\ store' = [r \in CredentialRows |-> IF r \in Sealed THEN secrets + 1 ELSE 0]
  /\ command' = [command EXCEPT ![t] = [Idle EXCEPT !.pc = "ok"]]
  /\ UNCHANGED <<server, container, config, exe, role, database, crashes>>

-----------------------------------------------------------------------------
(* oms update                                                              *)

\* latest_tag or --version, then the tarball and its checksum: a release is
\* genuine, was damaged on the way, or reports another version than its tag.
\* The latest release is never older than the installed one; a version that
\* is asked for may be.
Download(t) ==
  /\ AtStep(t, "download")
  /\ \E v \in 1..Version, release \in {"genuine", "damaged", "mislabelled"} :
       IF v = command[t].version THEN Ends(t, "ok")
       ELSE IF release = "damaged" THEN Ends(t, "failed")
       ELSE Stepped(t, [command[t] EXCEPT !.pc = "staged", !.version = v, !.plan = {release}])
  /\ UNCHANGED <<fileVars, role, database, store, countVars>>

\* stage_and_swap: the staged file must run and report the version before it
\* is renamed over the installed one.
Swap(t) ==
  /\ AtStep(t, "staged")
  /\ IF command[t].plan = {"genuine"}
     THEN exe' = [version |-> command[t].version, release |-> "genuine"] /\ Ends(t, "ok")
     ELSE UNCHANGED exe /\ Ends(t, "failed")
  /\ UNCHANGED <<server, container, config, secrets, printed, role, database, store, countVars>>

-----------------------------------------------------------------------------
(* The operator, and faults                                                *)

Quiet == \A t \in Terminals : ~Running(t)

\* The new key put in oms.toml, as rotate-key says.
EditKey ==
  /\ Quiet /\ config.file = "whole" /\ printed # 0 /\ config.key # printed
  /\ config' = [config EXCEPT !.key = printed]
  /\ UNCHANGED <<server, container, exe, secrets, printed, role, database, store, command, countVars>>

\* "delete the file to start over"
DeleteConfig ==
  /\ Quiet /\ config.file # "absent"
  /\ config' = NoConfig /\ printed' = 0
  /\ UNCHANGED <<server, container, exe, secrets, role, database, store, command, countVars>>

\* "docker rm -f ... && docker volume rm ...": the database server is gone.
RemoveContainer ==
  /\ Quiet /\ container
  /\ container' = FALSE
  /\ role' = NoRole /\ database' = NoDatabase /\ store' = NoBlobs
  /\ UNCHANGED <<server, config, exe, secrets, printed, command, countVars>>

\* The command dies, or the database refuses one of its steps.
Crash(t) ==
  /\ Running(t) /\ crashes < MaxCrashes
  /\ crashes' = crashes + 1
  /\ Ends(t, "died")
  /\ UNCHANGED <<fileVars, role, database, store, begun>>

DatabaseStep(t) ==
  \/ Inspect(t) \/ CreateRole(t) \/ CreateDatabase(t) \/ EnsureTracking(t)
  \/ ListPending(t) \/ ApplyOne(t) \/ Applied(t) \/ Grant(t) \/ Seed(t) \/ DropDatabase(t)

SetupNext ==
  \/ \E t \in Terminals :
       \/ \E cmd \in {"init", "database init", "resume", "migrate", "import", "update"} : BeginCommand(t, cmd)
       \/ StartDocker(t) \/ CreateConfig(t) \/ WriteConfig(t) \/ DatabaseStep(t)
       \/ ImportCheck(t) \/ ImportSave(t) \/ RotateKey(t) \/ Download(t) \/ Swap(t) \/ Crash(t)
  \/ EditKey \/ DeleteConfig \/ RemoveContainer

SetupSpec == SetupInit /\ [][SetupNext]_setupVars

-----------------------------------------------------------------------------
(* Starting the server                                                     *)

\* serve up to preflight: the connection, the credentials (nothing_decrypted)
\* and check_catalog's two tables.
NothingDecrypted(key) == Sealed # {} /\ \A r \in Sealed : store[r] # key

CheckCatalog == database.seeds >= 2

WouldStart ==
  /\ ~RefusesDefault(FromFile.password)
  /\ RuntimeConnects(FromFile.password)
  /\ ~NothingDecrypted(FromFile.key)
  /\ CheckCatalog

-----------------------------------------------------------------------------
(* Properties                                                              *)

\* `oms database init --resume` finishes whatever an earlier run left, at any
\* step it died: unless another command or a fault disturbed it, it does not fail
\* while the database server is there, and it leaves a database with every
\* migration, the grants and all reference data, on which the server starts
\* (database::init's comment).  It leaves alone a role an earlier config created,
\* which keeps its password, and credentials already sealed under another key.
ResumeFinishes ==
  [][\A t \in Terminals :
       LET run == command[t]  result == command'[t].pc IN
       run.cmd = "resume" /\ Running(t) /\ result \in {"ok", "failed"} /\ ~run.disturbed /\ Reachable
       => /\ result = "ok"
          /\ 1..run.version \subseteq Recorded' /\ database'.granted /\ database'.seeds = AllSeeds
          /\ run.foreign \/ NothingDecrypted(FromFile.key)' \/ WouldStart']_setupVars

\* No crash, race or mistaken key leaves half of something: each migration has
\* run once and in order, one key opens every stored credential, and what is
\* installed is a whole release that reports its own version (apply_one,
\* refuse_if_key_does_not_match_existing_store, stage_and_swap).
NothingHalfDone ==
  /\ \A i \in DOMAIN database.ran : database.ran[i] = i
  /\ \A r, s \in Sealed : store[r] = store[s]
  /\ exe.release = "genuine"
=============================================================================

-------------------------------- MODULE Jobs --------------------------------
(* Background jobs: the job table, the workers behind it (universe load,       *)
(* enrichment, symbology backfill, expiry sweep), the hourly expiry pass, what  *)
(* a crash of the process leaves of them, and `oms setup sync-broker`, which     *)
(* loads a universe in a process of its own.  A connection's universe is        *)
(* abstracted to one dated contract: listed or not, its expiry instant derived  *)
(* or not, still trading or retired.                                           *)
EXTENDS Naturals, FiniteSets

CONSTANTS
    Jobids,         \* the jobs, in the order they are created
    Subjects,       \* connection codes a universe is loaded for
    NoSubject,      \* NULL: a sweep or a backfill
    MaxCrashes,     \* bounds
    MaxDbErrors     \* statements that fail, or whose answer nobody waits for;
                    \* the first of two tries does not count

ASSUME JobsConstants ==
    /\ Jobids \subseteq Nat /\ NoSubject \notin Subjects
    /\ MaxCrashes \in Nat /\ MaxDbErrors \in Nat

UniverseWriters == {"universe_load", "enrichment"}
Kinds == UniverseWriters \cup {"symbology_backfill", "expiry_sweep"}
Active == {"queued", "running"}

VARIABLES
    job,        \* the job table: kind, subject and status of each row
    starter,    \* what asks for each job: its step in jobs::create
    worker,     \* the thread or task behind each job: its step
    contract,   \* the contract of each connection's universe
    past,       \* connections whose contract's expiry instant has passed
    booting,    \* universes that boot is about to load: no request is served yet
    sweeper,    \* expiry::run: the step of the hourly pass
    sync,       \* oms setup sync-broker: the step of its load of each universe
    jobFaults   \* crashes, failed statements, and the rows they left behind

jobVars == <<job, starter, worker, contract, past, booting, sweeper, sync, jobFaults>>

-----------------------------------------------------------------------------
(* jobs::create                                                               *)

JobsIn(S) == {j \in Jobids : job[j].status \in S}

\* Faulty variant: the index of the first job tables, one active job per kind.
BlocksSameKind(kind, subject, j) ==
    job[j].status \in Active /\ job[j].subject = subject /\ subject # NoSubject /\ job[j].kind = kind

\* The unique indexes of the table: one active writer of a connection's
\* universe, one active job of any other kind and subject; NULL subjects never
\* conflict.
Blocks(kind, subject, j) ==
    /\ job[j].status \in Active
    /\ job[j].subject = subject /\ subject # NoSubject
    /\ job[j].kind = kind \/ (kind \in UniverseWriters /\ job[j].kind \in UniverseWriters)

\* check_loadable: a load that is running is reported at once.
LoadRunning(kind, subject) ==
    kind \in UniverseWriters /\ \E j \in JobsIn(Active) : job[j].kind \in UniverseWriters /\ job[j].subject = subject

\* A starter that is through, with a row or refused.
Through(step) == [step |-> step, kind |-> "none", subject |-> NoSubject, tries |-> 0]

\* The next job in the order of creation.
NextJob(j) == starter[j].step = "none" /\ \A i \in Jobids : i < j => starter[i].step # "none"

\* A request asks for a job.
Ask(j, kind, subject) ==
    /\ NextJob(j) /\ booting = {}
    /\ subject = NoSubject <=> kind \notin UniverseWriters
    /\ starter' = [starter EXCEPT ![j] =
           IF LoadRunning(kind, subject) THEN Through("refused")
           ELSE [step |-> "insert", kind |-> kind, subject |-> subject, tries |-> 0]]
    /\ UNCHANGED <<job, worker, contract, past, booting, sweeper, sync, jobFaults>>

\* latest_universe_job: the newest of a connection's loads and enrichments.
LatestUniverseJob(s) ==
    {j \in Jobids : /\ job[j].kind \in UniverseWriters /\ job[j].subject = s
                    /\ \A i \in Jobids : i > j => job[i].kind \notin UniverseWriters \/ job[i].subject # s}

\* boot_load_needed: nothing is mapped and no load waits for the administrator.
BootLoadNeeded(s) ==
    ~ contract[s].mapped /\ \A j \in LatestUniverseJob(s) : job[j].status \notin {"failed", "interrupted"}

\* pending_boot_loads, of the connections that have credentials (none with
\* OMS_SYNC_ON_BOOT=never; one whose count fails counts as loaded)
PendingBootLoads(synced) == {s \in synced : BootLoadNeeded(s)}

\* serve: each universe that boot found in need is loaded before requests are
\* served. Nobody asked, so a load that is running shows only at the INSERT.
BootLoad(j, s) ==
    /\ NextJob(j) /\ s \in booting
    /\ booting' = booting \ {s}
    /\ starter' = [starter EXCEPT ![j] = [step |-> "insert", kind |-> "universe_load",
                                          subject |-> s, tries |-> 0]]
    /\ UNCHANGED <<job, worker, contract, past, sweeper, sync, jobFaults>>

\* The INSERT; the worker starts as soon as the row is there.
Insert(j) ==
    LET s == starter[j] IN
    /\ s.step = "insert"
    /\ IF \E i \in Jobids : Blocks(s.kind, s.subject, i)
       THEN /\ starter' = [starter EXCEPT ![j].step = "lookup"]
            /\ UNCHANGED <<job, worker>>
       ELSE /\ job' = [job EXCEPT ![j] = [kind |-> s.kind, subject |-> s.subject, status |-> "queued"]]
            /\ worker' = [worker EXCEPT ![j] = "begin"]
            /\ starter' = [starter EXCEPT ![j] = Through("started")]
    /\ UNCHANGED <<contract, past, booting, sweeper, sync, jobFaults>>

\* The row is committed, but the client is gone and its request dropped, or the
\* answer of the database is lost: no worker is started, and the row stays.
InsertUnanswered(j) ==
    LET s == starter[j] IN
    /\ s.step = "insert"
    /\ \A i \in Jobids : ~Blocks(s.kind, s.subject, i)
    /\ jobFaults.errors < MaxDbErrors
    /\ job' = [job EXCEPT ![j] = [kind |-> s.kind, subject |-> s.subject, status |-> "queued"]]
    /\ worker' = [worker EXCEPT ![j] = "gone"]
    /\ starter' = [starter EXCEPT ![j] = Through("started")]
    /\ jobFaults' = [jobFaults EXCEPT !.errors = @ + 1, !.orphans = @ \cup {j}]
    /\ UNCHANGED <<contract, past, booting, sweeper, sync>>

\* Who blocks? When it has finished in between, the INSERT is tried once more.
Lookup(j) ==
    LET s == starter[j] IN
    /\ s.step = "lookup"
    /\ starter' = [starter EXCEPT ![j] =
           IF (\E i \in Jobids : Blocks(s.kind, s.subject, i)) \/ s.tries = 1
           THEN Through("refused") ELSE [@ EXCEPT !.step = "insert", !.tries = 1]]
    /\ UNCHANGED <<job, worker, contract, past, booting, sweeper, sync, jobFaults>>

-----------------------------------------------------------------------------
(* The workers                                                                *)

DbFails == jobFaults.errors < MaxDbErrors /\ jobFaults' = [jobFaults EXCEPT !.errors = @ + 1]

\* JobHandle::start; when the statement fails the work goes on all the same.
Start(j) ==
    /\ worker[j] = "begin"
    /\ \/ job' = [job EXCEPT ![j].status = "running"] /\ UNCHANGED jobFaults
       \/ UNCHANGED job /\ DbFails
    /\ worker' = [worker EXCEPT ![j] = "work"]
    /\ UNCHANGED <<starter, contract, past, booting, sweeper, sync>>

\* provider_for refuses, or the thread gets no runtime: the job ends unstarted.
CannotStart(j) ==
    /\ worker[j] = "begin" /\ job[j].kind \in UniverseWriters
    /\ worker' = [worker EXCEPT ![j] = "fail"]
    /\ UNCHANGED <<job, starter, contract, past, booting, sweeper, sync, jobFaults>>

\* load_universe, upsert_catalog: one transaction for the master. What is new
\* is listed unless it has expired; what is there keeps its status and instant.
Listed(s) == IF contract[s].status = "none" /\ s \notin past
             THEN [contract EXCEPT ![s].status = "ACTIVE"] ELSE contract

LoadMaster(j) ==
    /\ worker[j] = "work" /\ job[j].kind \in UniverseWriters
    /\ contract' = Listed(job[j].subject)
    /\ worker' = [worker EXCEPT ![j] = "dates"]
    /\ UNCHANGED <<job, starter, past, booting, sweeper, sync, jobFaults>>

\* expiry::recompute_expires_at
Recomputed == [s \in Subjects |-> [contract[s] EXCEPT !.dated = contract[s].status # "none"]]

\* expiry::sweep_expired
Swept == [s \in Subjects |-> IF contract[s].status = "ACTIVE" /\ contract[s].dated /\ s \in past
                             THEN [contract[s] EXCEPT !.status = "EXPIRED"] ELSE contract[s]]

\* The end of the load: the instants, then, after any enrichment, the mappings.
LoadDates(j) ==
    /\ worker[j] = "dates"
    /\ contract' = Recomputed
    /\ worker' = [worker EXCEPT ![j] = "map"]
    /\ UNCHANGED <<job, starter, past, booting, sweeper, sync, jobFaults>>

\* bulk_upsert_broker_instrument, the second transaction
Mapped(s) == [contract EXCEPT ![s].mapped = contract[s].status # "none"]

LoadMappings(j) ==
    /\ worker[j] = "map"
    /\ contract' = Mapped(job[j].subject)
    /\ worker' = [worker EXCEPT ![j] = "succeed"]
    /\ UNCHANGED <<job, starter, past, booting, sweeper, sync, jobFaults>>

\* start_expiry_sweep: run_once's two statements.
JobSweep(j) ==
    /\ job[j].kind = "expiry_sweep"
    /\ \/ worker[j] = "work" /\ contract' = Recomputed /\ worker' = [worker EXCEPT ![j] = "sweep"]
       \/ worker[j] = "sweep" /\ contract' = Swept /\ worker' = [worker EXCEPT ![j] = "succeed"]
    /\ UNCHANGED <<job, starter, past, booting, sweeper, sync, jobFaults>>

\* run_backfill stamps identifiers this model does not tell apart.
Backfill(j) ==
    /\ worker[j] = "work" /\ job[j].kind = "symbology_backfill"
    /\ worker' = [worker EXCEPT ![j] = "succeed"]
    /\ UNCHANGED <<job, starter, contract, past, booting, sweeper, sync, jobFaults>>

\* The work fails, times out or panics; a transaction it was in is rolled back.
WorkFails(j) ==
    /\ worker[j] \in {"work", "dates", "map", "sweep"}
    /\ worker' = [worker EXCEPT ![j] = "fail"]
    /\ UNCHANGED <<job, starter, contract, past, booting, sweeper, sync, jobFaults>>

Again(step) == IF step = "succeed" THEN "succeed again" ELSE "fail again"

\* record: the outcome is written. A load tries twice, the others once; a row
\* whose outcome could not be written stays active.
TriesAgain(j) == job[j].kind \in UniverseWriters /\ worker[j] \in {"succeed", "fail"}

Record(j) ==
    /\ worker[j] \in {"succeed", "fail", "succeed again", "fail again"}
    /\ \/ /\ job' = [job EXCEPT ![j].status =
                 IF worker[j] \in {"succeed", "succeed again"} THEN "succeeded" ELSE "failed"]
          /\ worker' = [worker EXCEPT ![j] = "gone"]
          /\ UNCHANGED jobFaults
       \/ /\ TriesAgain(j)
          /\ worker' = [worker EXCEPT ![j] = Again(@)]
          /\ UNCHANGED <<job, jobFaults>>
       \/ /\ ~TriesAgain(j) /\ jobFaults.errors < MaxDbErrors
          /\ worker' = [worker EXCEPT ![j] = "gone"]
          /\ jobFaults' = [jobFaults EXCEPT !.errors = @ + 1, !.orphans = @ \cup {j}]
          /\ UNCHANGED job
    /\ UNCHANGED <<starter, contract, past, booting, sweeper, sync>>

-----------------------------------------------------------------------------
(* The hourly pass, the clock, and the process                                *)

\* Faulty variant: the pass retires what is dated and derives nothing.
HourlyPassSweepsOnly ==
    /\ \/ sweeper = "recompute" /\ sweeper' = "sweep" /\ UNCHANGED <<contract, jobFaults>>
       \/ sweeper = "sweep" /\ contract' = Swept /\ sweeper' = "sleep" /\ UNCHANGED jobFaults
       \/ sweeper = "sleep" /\ sweeper' = "recompute" /\ UNCHANGED <<contract, jobFaults>>
    /\ UNCHANGED <<job, starter, worker, past, booting, sync>>

\* expiry::run: a pass that fails is tried again an interval later; one that
\* retired something is recorded as a finished job.
HourlyPass ==
    /\ \/ sweeper = "recompute" /\ contract' = Recomputed /\ sweeper' = "sweep" /\ UNCHANGED jobFaults
       \/ sweeper = "sweep" /\ contract' = Swept /\ sweeper' = "sleep" /\ UNCHANGED jobFaults
       \/ sweeper \in {"recompute", "sweep"} /\ DbFails /\ sweeper' = "sleep" /\ UNCHANGED contract
       \/ sweeper = "sleep" /\ sweeper' = "recompute" /\ UNCHANGED <<contract, jobFaults>>
    /\ UNCHANGED <<job, starter, worker, past, booting, sync>>

\* oms setup sync-broker: the same load in another process. It takes no job row,
\* so no job refuses it and it refuses none; it may fail or be stopped anywhere.
SyncBroker(s) ==
    /\ \/ sync[s] = "idle" /\ contract' = Listed(s) /\ sync' = [sync EXCEPT ![s] = "dates"]
       \/ sync[s] = "dates" /\ contract' = Recomputed /\ sync' = [sync EXCEPT ![s] = "map"]
       \/ sync[s] = "map" /\ contract' = Mapped(s) /\ sync' = [sync EXCEPT ![s] = "idle"]
       \/ sync[s] # "idle" /\ sync' = [sync EXCEPT ![s] = "idle"] /\ UNCHANGED contract
    /\ UNCHANGED <<job, starter, worker, past, booting, sweeper, jobFaults>>

\* The venue's clock passes the contract's expiry instant.
Expires(s) ==
    /\ s \notin past
    /\ past' = past \cup {s}
    /\ UNCHANGED <<job, starter, worker, contract, booting, sweeper, sync, jobFaults>>

\* The process dies with every worker and request. Before anything new can
\* start, boot marks what it left active (mark_interrupted); when that
\* statement fails, it goes on. Then it works out which universes to load.
CrashAndBoot ==
    /\ jobFaults.crashes < MaxCrashes
    /\ worker' = [j \in Jobids |-> IF worker[j] = "none" THEN "none" ELSE "gone"]
    /\ starter' = [j \in Jobids |-> IF starter[j].step \in {"insert", "lookup"}
                                    THEN Through("refused") ELSE starter[j]]
    /\ sweeper' = "recompute"
    /\ \/ /\ job' = [j \in Jobids |-> IF job[j].status \in Active
                                      THEN [job[j] EXCEPT !.status = "interrupted"] ELSE job[j]]
          /\ jobFaults' = [jobFaults EXCEPT !.crashes = @ + 1, !.orphans = {}]
       \/ /\ UNCHANGED job
          /\ jobFaults.errors < MaxDbErrors
          /\ jobFaults' = [crashes |-> jobFaults.crashes + 1, errors |-> jobFaults.errors + 1,
                           orphans |-> jobFaults.orphans \cup JobsIn(Active)]
    /\ UNCHANGED <<contract, past, sync>>
    /\ \E synced \in SUBSET Subjects : booting' = PendingBootLoads(synced)'

JobInit ==
    /\ job = [j \in Jobids |-> [kind |-> "none", subject |-> NoSubject, status |-> "none"]]
    /\ starter = [j \in Jobids |-> [step |-> "none", kind |-> "none", subject |-> NoSubject, tries |-> 0]]
    /\ worker = [j \in Jobids |-> "none"]
    /\ contract = [s \in Subjects |-> [status |-> "none", dated |-> FALSE, mapped |-> FALSE]]
    /\ past = {}
    /\ booting \in SUBSET Subjects      \* PendingBootLoads of an empty catalog
    /\ sweeper = "recompute"
    /\ sync = [s \in Subjects |-> "idle"]
    /\ jobFaults = [crashes |-> 0, errors |-> 0, orphans |-> {}]

WorkerStep(j) ==
    \/ Start(j) \/ CannotStart(j) \/ LoadMaster(j) \/ LoadDates(j) \/ LoadMappings(j)
    \/ JobSweep(j) \/ Backfill(j) \/ WorkFails(j) \/ Record(j)

JobNext ==
    \/ \E j \in Jobids, kind \in Kinds, s \in Subjects \cup {NoSubject} : Ask(j, kind, s)
    \/ \E j \in Jobids, s \in Subjects : BootLoad(j, s)
    \/ \E j \in Jobids : Insert(j) \/ InsertUnanswered(j) \/ Lookup(j) \/ WorkerStep(j)
    \/ HourlyPass
    \/ \E s \in Subjects : SyncBroker(s) \/ Expires(s)
    \/ CrashAndBoot

JobSpec == JobInit /\ [][JobNext]_jobVars

-----------------------------------------------------------------------------
(* Properties                                                                 *)

Working(j) == worker[j] \in {"begin", "work", "dates", "map"} /\ job[j].kind \in UniverseWriters

\* Jobs that load or enrich one connection's universe never write its rows at
\* once, however their starts interleave and whatever crash, failed statement or
\* dropped request came before; only a sync-broker, which is no job, may write
\* beside one. And the table does not lie about who works: a worker's row is
\* active while it works, and an active row has a worker, save for the rows that
\* a failed statement or a dropped request left behind, which the next boot clears.
JobTableTrue ==
    /\ \A i, j \in Jobids : i # j /\ Working(i) /\ Working(j) => job[i].subject # job[j].subject
    /\ \A j \in Jobids : /\ worker[j] \notin {"none", "gone"} => job[j].status \in Active
                         /\ job[j].status \in Active => worker[j] # "gone" \/ j \in jobFaults.orphans

\* A listed contract is retired after its instant passes, even when the load
\* that listed it, in a job or in a sync-broker, died before deriving the instant.
ExpiredRetired == \A s \in Subjects : (contract[s].status = "ACTIVE" /\ s \in past) ~> contract[s].status = "EXPIRED"
=============================================================================

--------------------------- MODULE OperationsProofs ---------------------------
(* What holds of background jobs, of live reload and of the venue connectors  *)
(* for every number of jobs, connections, requests, crashes and failing       *)
(* statements, and for every quantity, number of outages and late answers.    *)
EXTENDS ConnectionReload, Jobs, MCConnectors, Integers, SequenceTheorems, FiniteSetTheorems,
        WellFoundedInduction, TLAPS

-----------------------------------------------------------------------------
(* Jobs                                                                       *)

JobRow == [kind : Kinds \cup {"none"}, subject : Subjects \cup {NoSubject},
           status : {"none", "queued", "running", "succeeded", "failed", "interrupted"}]
StarterRow == [step : {"none", "insert", "lookup", "started", "refused"}, kind : Kinds \cup {"none"},
               subject : Subjects \cup {NoSubject}, tries : {0, 1}]
WorkerSteps == {"none", "gone", "begin", "work", "dates", "map", "sweep", "succeed", "fail",
                "succeed again", "fail again"}

JobTypeOK ==
    /\ job \in [Jobids -> JobRow]
    /\ starter \in [Jobids -> StarterRow]
    /\ worker \in [Jobids -> WorkerSteps]

\* A row is written once, by the starter of its job, and a writer of a universe
\* names its connection.
StarterOK == \A j \in Jobids :
    /\ starter[j].step \in {"none", "insert", "lookup"} => job[j].status = "none" /\ worker[j] = "none"
    /\ starter[j].step \in {"insert", "lookup"} /\ starter[j].kind \in UniverseWriters => starter[j].subject \in Subjects
    /\ job[j].kind \in UniverseWriters => job[j].subject \in Subjects

\* The row and the worker agree.
WorkerOK == \A j \in Jobids :
    /\ worker[j] \notin {"none", "gone"} => job[j].status \in Active
    /\ job[j].status \in Active => worker[j] # "gone" \/ j \in jobFaults.orphans

\* What the unique index keeps, orphans included.
OneWriter == \A i, j \in Jobids :
    /\ i # j /\ job[i].status \in Active /\ job[j].status \in Active
    /\ job[i].kind \in UniverseWriters /\ job[j].kind \in UniverseWriters
    => job[i].subject # job[j].subject

JobInv == JobTypeOK /\ StarterOK /\ WorkerOK /\ OneWriter

LEMMA JobInitInv == JobInit => JobInv
<1> SUFFICES ASSUME JobInit PROVE JobInv
  OBVIOUS
<1>1. JobTypeOK
  BY DEF JobInit, JobTypeOK, JobRow, StarterRow, WorkerSteps
<1>2. StarterOK /\ WorkerOK /\ OneWriter
  BY DEF JobInit, StarterOK, WorkerOK, OneWriter, Active, UniverseWriters
<1> QED BY <1>1, <1>2 DEF JobInv

\* A step of the starter that writes no row.
LEMMA StarterKeeps ==
  ASSUME JobInv, NEW j \in Jobids, NEW s \in StarterRow, starter' = [starter EXCEPT ![j] = s],
         starter[j].step \in {"none", "insert", "lookup"},
         s.step \in {"insert", "lookup"} /\ s.kind \in UniverseWriters => s.subject \in Subjects,
         UNCHANGED <<job, worker, jobFaults>>
  PROVE  JobInv'
<1>1. JobTypeOK'
  BY DEF JobInv, JobTypeOK
<1>2. StarterOK'
  <2> SUFFICES ASSUME NEW k \in Jobids PROVE
        /\ starter'[k].step \in {"none", "insert", "lookup"} => job'[k].status = "none" /\ worker'[k] = "none"
        /\ starter'[k].step \in {"insert", "lookup"} /\ starter'[k].kind \in UniverseWriters
              => starter'[k].subject \in Subjects
        /\ job'[k].kind \in UniverseWriters => job'[k].subject \in Subjects
    BY DEF StarterOK
  <2>1. CASE k = j
    <3>1. starter'[k] = s
      BY <2>1 DEF JobInv, JobTypeOK
    <3> QED BY <2>1, <3>1 DEF JobInv, StarterOK
  <2>2. CASE k # j
    <3>1. starter'[k] = starter[k]
      BY <2>2 DEF JobInv, JobTypeOK
    <3> QED BY <3>1 DEF JobInv, StarterOK
  <2> QED BY <2>1, <2>2
<1>3. WorkerOK' /\ OneWriter'
  BY DEF JobInv, WorkerOK, OneWriter
<1> QED BY <1>1, <1>2, <1>3 DEF JobInv

\* The bookkeeping of the faults: a record with these three fields.
Faults == [crashes : Nat, errors : Nat, orphans : SUBSET Jobids]

LEMMA FaultsCount ==
  ASSUME jobFaults \in Faults, NEW S
  PROVE  /\ [jobFaults EXCEPT !.errors = @ + 1, !.orphans = S].orphans = S
         /\ S \in SUBSET Jobids => [jobFaults EXCEPT !.errors = @ + 1, !.orphans = S] \in Faults
         /\ jobFaults.orphans \in SUBSET Jobids
         /\ \A j \in Jobids : jobFaults.orphans \cup {j} \in SUBSET Jobids
<1>1. jobFaults.orphans \in SUBSET Jobids
  BY DEF Faults
<1>2. \A j \in Jobids : jobFaults.orphans \cup {j} \in SUBSET Jobids
  BY <1>1
<1>3. [jobFaults EXCEPT !.errors = @ + 1, !.orphans = S].orphans = S
  BY DEF Faults
<1>4. ASSUME S \in SUBSET Jobids PROVE [jobFaults EXCEPT !.errors = @ + 1, !.orphans = S] \in Faults
  <2>1. jobFaults.errors + 1 \in Nat
    BY DEF Faults
  <2> QED BY <1>4, <2>1 DEF Faults
<1> QED BY <1>1, <1>2, <1>3, <1>4

LEMMA InsertKeeps ==
  ASSUME JobInv, jobFaults \in Faults, NEW j \in Jobids, Insert(j) \/ InsertUnanswered(j)
  PROVE  JobInv' /\ jobFaults' \in Faults
<1>0. JobTypeOK /\ StarterOK /\ WorkerOK /\ OneWriter /\ starter[j] \in StarterRow /\ starter[j].step = "insert"
  BY DEF JobInv, JobTypeOK, Insert, InsertUnanswered
<1>1. CASE \E i \in Jobids : Blocks(starter[j].kind, starter[j].subject, i)
  <2>1. PICK s : s = [starter[j] EXCEPT !.step = "lookup"]
    OBVIOUS
  <2>2. s \in StarterRow /\ s.kind = starter[j].kind /\ s.subject = starter[j].subject
    BY <1>0, <2>1 DEF StarterRow
  <2>3. starter' = [starter EXCEPT ![j] = s] /\ UNCHANGED <<job, worker, jobFaults>>
    BY <1>1, <2>1 DEF Insert, InsertUnanswered
  <2> QED BY <1>0, <2>2, <2>3, StarterKeeps DEF StarterOK
<1>2. CASE ~ \E i \in Jobids : Blocks(starter[j].kind, starter[j].subject, i)
  <2> DEFINE kind == starter[j].kind
             subject == starter[j].subject
             new == [kind |-> kind, subject |-> subject, status |-> "queued"]
  <2>a. PICK w \in {"begin", "gone"} :
          /\ job' = [job EXCEPT ![j] = new] /\ worker' = [worker EXCEPT ![j] = w]
          /\ starter' = [starter EXCEPT ![j] = Through("started")]
          /\ IF w = "begin" THEN UNCHANGED jobFaults
             ELSE jobFaults' = [jobFaults EXCEPT !.errors = @ + 1, !.orphans = jobFaults.orphans \cup {j}]
    BY <1>2 DEF Insert, InsertUnanswered
  <2>b. /\ jobFaults' \in Faults /\ jobFaults.orphans \subseteq jobFaults'.orphans
        /\ w = "gone" => j \in jobFaults'.orphans
    <3>1. CASE w = "begin"
      BY <2>a, <3>1
    <3>2. CASE w = "gone"
      <4> DEFINE S == jobFaults.orphans \cup {j}
      <4>1. S \in SUBSET Jobids
        BY FaultsCount
      <4>2. jobFaults' = [jobFaults EXCEPT !.errors = @ + 1, !.orphans = S]
        BY <2>a, <3>2
      <4> HIDE DEF S
      <4>3. jobFaults' \in Faults /\ jobFaults'.orphans = S
        BY <4>1, <4>2, FaultsCount
      <4> QED
        BY <3>2, <4>3 DEF S
    <3> QED
      BY <2>a, <3>1, <3>2
  <2>c. Through("started") \in StarterRow /\ Through("started").step = "started"
    BY DEF Through, StarterRow
  <2>1. /\ job' = [job EXCEPT ![j] = new] /\ worker' = [worker EXCEPT ![j] = w]
        /\ starter' = [starter EXCEPT ![j] = Through("started")]
    BY <2>a
  <2>2. new \in JobRow /\ new.kind = kind /\ new.subject = subject /\ new.status \in Active
    BY <1>0 DEF StarterRow, JobRow, Active
  <2> HIDE DEF new
  <2>3. /\ job' \in [Jobids -> JobRow] /\ job'[j] = new /\ \A k \in Jobids \ {j} : job'[k] = job[k]
        /\ worker' \in [Jobids -> WorkerSteps] /\ worker'[j] = w /\ \A k \in Jobids \ {j} : worker'[k] = worker[k]
    BY <1>0, <2>1, <2>2 DEF JobTypeOK, WorkerSteps
  <2>4. /\ starter' \in [Jobids -> StarterRow] /\ starter'[j].step = "started"
        /\ \A k \in Jobids \ {j} : starter'[k] = starter[k]
    BY <1>0, <2>1, <2>c DEF JobTypeOK
  <2>5. kind \in UniverseWriters => subject \in Subjects
    BY <1>0 DEF StarterOK
  <2>6. \A i \in Jobids : job[i].status \in Active /\ job[i].kind \in UniverseWriters /\ kind \in UniverseWriters
                          => job[i].subject # subject
    <3> TAKE i \in Jobids
    <3>1. NoSubject \notin Subjects
      BY JobsConstants
    <3>2. ~Blocks(kind, subject, i)
      BY <1>2
    <3> HIDE DEF kind, subject
    <3> QED BY <2>5, <3>1, <3>2 DEF Blocks
  <2>7. StarterOK'
    BY <1>0, <2>2, <2>3, <2>4, <2>5 DEF StarterOK
  <2>8. WorkerOK'
    BY <1>0, <2>b, <2>2, <2>3 DEF WorkerOK
  <2>9. OneWriter'
    <3> HIDE DEF kind, subject
    <3> SUFFICES ASSUME NEW a \in Jobids, NEW b \in Jobids, a # b, job'[a].status \in Active, job'[b].status \in Active,
                        job'[a].kind \in UniverseWriters, job'[b].kind \in UniverseWriters
                 PROVE  job'[a].subject # job'[b].subject
      BY DEF OneWriter
    <3>1. CASE a = j
      BY <2>2, <2>3, <2>6, <3>1
    <3>2. CASE b = j
      BY <2>2, <2>3, <2>6, <3>2
    <3>3. CASE a # j /\ b # j
      BY <1>0, <2>3, <3>3 DEF OneWriter
    <3> QED BY <3>1, <3>2, <3>3
  <2> QED BY <2>b, <2>3, <2>4, <2>7, <2>8, <2>9 DEF JobInv, JobTypeOK
<1> QED BY <1>1, <1>2

\* What a step of a worker makes of its row: it goes on with the row active, it
\* ends the row, or it goes away and leaves the row behind.
WorkerMoves(j) ==
    /\ worker[j] \notin {"none", "gone"} /\ UNCHANGED starter
    /\ job' \in [Jobids -> JobRow] /\ worker' \in [Jobids -> WorkerSteps]
    /\ \A k \in Jobids \ {j} : job'[k] = job[k] /\ worker'[k] = worker[k]
    /\ job'[j].kind = job[j].kind /\ job'[j].subject = job[j].subject
    /\ \/ worker'[j] \notin {"none", "gone"} /\ job'[j].status \in Active /\ jobFaults'.orphans = jobFaults.orphans
       \/ worker'[j] = "gone" /\ job'[j].status \in {"succeeded", "failed"} /\ jobFaults'.orphans = jobFaults.orphans
       \/ worker'[j] = "gone" /\ job'[j] = job[j] /\ jobFaults'.orphans = jobFaults.orphans \cup {j}

LEMMA WorkerStepMoves ==
  ASSUME JobInv, jobFaults \in Faults, NEW j \in Jobids, WorkerStep(j)
  PROVE  WorkerMoves(j) /\ jobFaults' \in Faults
<1>0. /\ JobTypeOK /\ job[j] \in JobRow
      /\ worker[j] \notin {"none", "gone"} => job[j].status \in Active
  BY DEF JobInv, JobTypeOK, WorkerOK
<1>1. ASSUME NEW w \in WorkerSteps \ {"none", "gone"}, worker' = [worker EXCEPT ![j] = w],
             worker[j] \notin {"none", "gone"}, UNCHANGED <<job, starter>>,
             jobFaults' = jobFaults \/ DbFails
      PROVE  WorkerMoves(j) /\ jobFaults' \in Faults
  <2>1. jobFaults' \in Faults /\ jobFaults'.orphans = jobFaults.orphans
    BY <1>1 DEF DbFails, Faults
  <2> QED BY <1>0, <1>1, <2>1 DEF WorkerMoves, JobTypeOK
<1>2. ASSUME NEW st \in {"running", "succeeded", "failed"}, job' = [job EXCEPT ![j].status = st],
             UNCHANGED <<starter, jobFaults>>, NEW w \in WorkerSteps, worker' = [worker EXCEPT ![j] = w],
             worker[j] \notin {"none", "gone"},
             \/ st = "running" /\ w \notin {"none", "gone"}
             \/ st # "running" /\ w = "gone"
      PROVE  WorkerMoves(j) /\ jobFaults' \in Faults
  <2>1. /\ job' \in [Jobids -> JobRow] /\ job'[j].kind = job[j].kind /\ job'[j].subject = job[j].subject
        /\ job'[j].status = st /\ \A k \in Jobids \ {j} : job'[k] = job[k]
    BY <1>0, <1>2 DEF JobTypeOK, JobRow
  <2>2. /\ worker' \in [Jobids -> WorkerSteps] /\ worker'[j] = w
        /\ \A k \in Jobids \ {j} : worker'[k] = worker[k]
    BY <1>0, <1>2 DEF JobTypeOK
  <2> QED BY <1>2, <2>1, <2>2 DEF WorkerMoves, Active
<1>3. CASE Start(j)
  <2>1. CASE job' = [job EXCEPT ![j].status = "running"] /\ UNCHANGED jobFaults
    BY <1>2, <1>3, <2>1 DEF Start, WorkerSteps
  <2>2. CASE UNCHANGED job /\ DbFails
    BY <1>1, <1>3, <2>2 DEF Start, WorkerSteps
  <2> QED BY <1>3, <2>1, <2>2 DEF Start
<1>4. CASE CannotStart(j) \/ LoadMaster(j) \/ LoadDates(j) \/ LoadMappings(j)
  BY <1>1, <1>4 DEF CannotStart, LoadMaster, LoadDates, LoadMappings, WorkerSteps
<1>5. CASE JobSweep(j) \/ Backfill(j) \/ WorkFails(j)
  BY <1>1, <1>5 DEF JobSweep, Backfill, WorkFails, WorkerSteps
<1>6. CASE Record(j)
  <2>0. worker[j] \in {"succeed", "fail", "succeed again", "fail again"} /\ UNCHANGED starter
    BY <1>6 DEF Record
  <2>1. CASE /\ job' = [job EXCEPT ![j].status =
                   IF worker[j] \in {"succeed", "succeed again"} THEN "succeeded" ELSE "failed"]
             /\ worker' = [worker EXCEPT ![j] = "gone"]
             /\ UNCHANGED jobFaults
    BY <1>2, <2>0, <2>1 DEF WorkerSteps
  <2>2. CASE /\ UNCHANGED job
             /\ worker' = [worker EXCEPT ![j] = Again(worker[j])]
             /\ UNCHANGED jobFaults
    <3>1. PICK w \in WorkerSteps \ {"none", "gone"} : w = Again(worker[j])
      BY <2>0 DEF Again, WorkerSteps
    <3>2. jobFaults' \in Faults /\ jobFaults'.orphans = jobFaults.orphans
      BY <2>2
    <3>3. worker' \in [Jobids -> WorkerSteps] /\ worker'[j] = w /\ \A k \in Jobids \ {j} : worker'[k] = worker[k]
      BY <1>0, <2>2, <3>1 DEF JobTypeOK
    <3> QED BY <1>0, <2>0, <2>2, <3>2, <3>3 DEF WorkerMoves, JobTypeOK
  <2>3. CASE /\ UNCHANGED job
             /\ worker' = [worker EXCEPT ![j] = "gone"]
             /\ jobFaults' = [jobFaults EXCEPT !.errors = @ + 1, !.orphans = jobFaults.orphans \cup {j}]
    <3>2. jobFaults' \in Faults /\ jobFaults'.orphans = jobFaults.orphans \cup {j}
      BY <2>3, FaultsCount
    <3>3. worker' \in [Jobids -> WorkerSteps] /\ worker'[j] = "gone" /\ \A k \in Jobids \ {j} : worker'[k] = worker[k]
      BY <1>0, <2>3 DEF JobTypeOK, WorkerSteps
    <3> QED BY <1>0, <2>0, <2>3, <3>2, <3>3 DEF WorkerMoves, JobTypeOK
  <2> QED BY <1>6, <2>1, <2>2, <2>3 DEF Record
<1> QED BY <1>3, <1>4, <1>5, <1>6 DEF WorkerStep

LEMMA WorkerStepKeeps ==
  ASSUME JobInv, NEW j \in Jobids, WorkerMoves(j)
  PROVE  JobInv'
<1>0. JobTypeOK /\ StarterOK /\ WorkerOK /\ OneWriter /\ job[j].status \in Active
  BY DEF JobInv, WorkerOK, WorkerMoves
<1>1. JobTypeOK'
  BY <1>0 DEF WorkerMoves, JobTypeOK
<1>2. StarterOK'
  BY <1>0 DEF WorkerMoves, StarterOK, Active
<1>3. WorkerOK'
  BY <1>0 DEF WorkerMoves, WorkerOK, Active
<1>4. OneWriter'
  <2>1. \A k \in Jobids : /\ job'[k].kind = job[k].kind /\ job'[k].subject = job[k].subject
                          /\ (job'[k].status \in Active => job[k].status \in Active)
    BY <1>0 DEF WorkerMoves
  <2> QED BY <1>0, <2>1 DEF OneWriter
<1> QED BY <1>1, <1>2, <1>3, <1>4 DEF JobInv

LEMMA CrashKeeps ==
  ASSUME JobInv, jobFaults \in Faults, CrashAndBoot
  PROVE  JobInv' /\ jobFaults' \in Faults
<1>0. JobTypeOK /\ StarterOK /\ WorkerOK /\ OneWriter
  BY DEF JobInv
<1>1. /\ worker' = [j \in Jobids |-> IF worker[j] = "none" THEN "none" ELSE "gone"]
      /\ starter' = [j \in Jobids |-> IF starter[j].step \in {"insert", "lookup"}
                                      THEN Through("refused") ELSE starter[j]]
      /\ \/ /\ job' = [j \in Jobids |-> IF job[j].status \in Active
                                        THEN [job[j] EXCEPT !.status = "interrupted"] ELSE job[j]]
            /\ jobFaults' = [jobFaults EXCEPT !.crashes = @ + 1, !.orphans = {}]
         \/ /\ UNCHANGED job
            /\ jobFaults' = [crashes |-> jobFaults.crashes + 1, errors |-> jobFaults.errors + 1,
                             orphans |-> jobFaults.orphans \cup JobsIn(Active)]
  BY DEF CrashAndBoot
<1>2. worker' \in [Jobids -> WorkerSteps] /\ starter' \in [Jobids -> StarterRow]
  BY <1>0, <1>1 DEF JobTypeOK, WorkerSteps, StarterRow, Through
<1>3. jobFaults' \in Faults
  <2>1. JobsIn(Active) \in SUBSET Jobids
    BY DEF JobsIn
  <2>2. jobFaults.crashes + 1 \in Nat /\ jobFaults.errors + 1 \in Nat
        /\ jobFaults.orphans \cup JobsIn(Active) \in SUBSET Jobids /\ {} \in SUBSET Jobids
    BY <2>1 DEF Faults
  <2>3. CASE jobFaults' = [jobFaults EXCEPT !.crashes = @ + 1, !.orphans = {}]
    BY <2>2, <2>3 DEF Faults
  <2>4. CASE jobFaults' = [crashes |-> jobFaults.crashes + 1, errors |-> jobFaults.errors + 1,
                           orphans |-> jobFaults.orphans \cup JobsIn(Active)]
    BY <2>2, <2>4 DEF Faults
  <2> QED BY <1>1, <2>3, <2>4
<1>4. \A j \in Jobids : job'[j] \in JobRow /\ job'[j].kind = job[j].kind /\ job'[j].subject = job[j].subject
                        /\ (job'[j].status \in Active => job[j].status \in Active /\ j \in jobFaults'.orphans)
                        /\ (job[j].status = "none" => job'[j].status = "none")
  <2> TAKE j \in Jobids
  <2>1. job[j] \in JobRow
    BY <1>0 DEF JobTypeOK
  <2>2. CASE /\ job' = [k \in Jobids |-> IF job[k].status \in Active
                                        THEN [job[k] EXCEPT !.status = "interrupted"] ELSE job[k]]
             /\ jobFaults' = [jobFaults EXCEPT !.crashes = @ + 1, !.orphans = {}]
    BY <2>1, <2>2 DEF JobRow, Active
  <2>3. CASE UNCHANGED job /\ jobFaults' = [crashes |-> jobFaults.crashes + 1, errors |-> jobFaults.errors + 1,
                                            orphans |-> jobFaults.orphans \cup JobsIn(Active)]
    BY <2>1, <2>3 DEF JobsIn
  <2> QED BY <1>1, <2>2, <2>3
<1>5. job' \in [Jobids -> JobRow]
  <2>1. job' = [j \in Jobids |-> job'[j]]
    BY <1>0, <1>1 DEF JobTypeOK
  <2> QED BY <1>4, <2>1
<1>6. \A j \in Jobids : worker'[j] = (IF worker[j] = "none" THEN "none" ELSE "gone")
                        /\ (starter'[j].step \in {"none", "insert", "lookup"} => starter[j].step = "none" /\ starter'[j] = starter[j])
  BY <1>0, <1>1 DEF JobTypeOK, StarterRow, Through
<1>7. StarterOK'
  BY <1>0, <1>4, <1>6 DEF StarterOK
<1>8. WorkerOK'
  BY <1>4, <1>6 DEF WorkerOK
<1>9. OneWriter'
  BY <1>0, <1>4 DEF OneWriter
<1> QED BY <1>2, <1>3, <1>5, <1>7, <1>8, <1>9 DEF JobInv, JobTypeOK

JobsInv == JobInv /\ jobFaults \in Faults

LEMMA JobInvariant == JobSpec => []JobsInv
<1>1. JobInit => JobsInv
  BY JobInitInv DEF JobInit, Faults, JobsInv
<1>2. JobsInv /\ [JobNext]_jobVars => JobsInv'
  <2> SUFFICES ASSUME JobInv, jobFaults \in Faults, [JobNext]_jobVars PROVE JobInv' /\ jobFaults' \in Faults
    BY DEF JobsInv
  <2>0. JobTypeOK /\ StarterOK
    BY DEF JobInv
  <2>1. ASSUME NEW j \in Jobids, NEW kind \in Kinds, NEW s \in Subjects \cup {NoSubject}, Ask(j, kind, s)
        PROVE  JobInv' /\ jobFaults' \in Faults
    <3>2. PICK row : row = IF LoadRunning(kind, s) THEN Through("refused")
                           ELSE [step |-> "insert", kind |-> kind, subject |-> s, tries |-> 0]
      OBVIOUS
    <3>3. row \in StarterRow /\ (row.step = "insert" => row.kind = kind /\ row.subject = s) /\ row.step # "lookup"
      BY <3>2 DEF StarterRow, Through
    <3>4. kind \in UniverseWriters => s \in Subjects
      BY <2>1 DEF Ask
    <3>5. starter' = [starter EXCEPT ![j] = row] /\ starter[j].step = "none" /\ UNCHANGED <<job, worker, jobFaults>>
      BY <2>1, <3>2 DEF Ask, NextJob
    <3> QED BY <3>3, <3>4, <3>5, StarterKeeps
  <2>2. ASSUME NEW j \in Jobids, NEW s \in Subjects, BootLoad(j, s)
        PROVE  JobInv' /\ jobFaults' \in Faults
    <3>2. PICK row : row = [step |-> "insert", kind |-> "universe_load", subject |-> s, tries |-> 0]
      OBVIOUS
    <3>3. row \in StarterRow /\ row.subject \in Subjects
      BY <3>2 DEF StarterRow, Kinds, UniverseWriters
    <3>5. starter' = [starter EXCEPT ![j] = row] /\ starter[j].step = "none" /\ UNCHANGED <<job, worker, jobFaults>>
      BY <2>2, <3>2 DEF BootLoad, NextJob
    <3> QED BY <3>3, <3>5, StarterKeeps
  <2>3. ASSUME NEW j \in Jobids, Insert(j) \/ InsertUnanswered(j)
        PROVE  JobInv' /\ jobFaults' \in Faults
    BY <2>3, InsertKeeps
  <2>4. ASSUME NEW j \in Jobids, Lookup(j)
        PROVE  JobInv' /\ jobFaults' \in Faults
    <3>1. starter[j] \in StarterRow
      BY <2>0 DEF JobTypeOK
    <3>2. PICK row : row = IF (\E i \in Jobids : Blocks(starter[j].kind, starter[j].subject, i)) \/ starter[j].tries = 1
                           THEN Through("refused")
                           ELSE [starter[j] EXCEPT !.step = "insert", !.tries = 1]
      OBVIOUS
    <3>3. row \in StarterRow /\ row.step # "lookup"
          /\ (row.step = "insert" => row.kind = starter[j].kind /\ row.subject = starter[j].subject)
      BY <3>1, <3>2 DEF StarterRow, Through
    <3>4. starter' = [starter EXCEPT ![j] = row] /\ starter[j].step = "lookup" /\ UNCHANGED <<job, worker, jobFaults>>
      BY <2>4, <3>2 DEF Lookup
    <3>5. starter[j].kind \in UniverseWriters => starter[j].subject \in Subjects
      BY <2>0, <3>4 DEF StarterOK
    <3> QED BY <3>3, <3>4, <3>5, StarterKeeps
  <2>5. ASSUME NEW j \in Jobids, WorkerStep(j)
        PROVE  JobInv' /\ jobFaults' \in Faults
    BY <2>5, WorkerStepMoves, WorkerStepKeeps
  <2>6. ASSUME UNCHANGED <<job, starter, worker>>, jobFaults' = jobFaults \/ DbFails
        PROVE  JobInv' /\ jobFaults' \in Faults
    <3>1. jobFaults' \in Faults /\ jobFaults'.orphans = jobFaults.orphans
      BY <2>6 DEF DbFails, Faults
    <3> QED BY <2>6, <3>1 DEF JobInv, JobTypeOK, StarterOK, WorkerOK, OneWriter
  <2>7. CASE HourlyPass \/ UNCHANGED jobVars
    BY <2>6, <2>7 DEF HourlyPass, jobVars
  <2>8. ASSUME NEW s \in Subjects, SyncBroker(s) \/ Expires(s)
        PROVE  JobInv' /\ jobFaults' \in Faults
    BY <2>6, <2>8 DEF SyncBroker, Expires
  <2> QED BY <2>1, <2>2, <2>3, <2>4, <2>5, <2>7, <2>8, CrashKeeps DEF JobNext
<1> QED BY <1>1, <1>2, PTL DEF JobSpec

\* jobs.rs create, JobHandle, mark_interrupted: the unique index and the order
\* of boot keep two jobs off one universe and the job table true to who works,
\* for any number of jobs, connections, crashes, failing statements, dropped
\* requests and universes loaded without a job.
THEOREM JobTableSafe == JobSpec => []JobTableTrue
<1>1. JobsInv => JobTableTrue
  <2> SUFFICES ASSUME JobInv PROVE JobTableTrue
    BY DEF JobsInv
  <2>1. ASSUME NEW i \in Jobids, NEW j \in Jobids, i # j, Working(i), Working(j)
        PROVE  job[i].subject # job[j].subject
    BY <2>1 DEF JobInv, WorkerOK, OneWriter, Working
  <2>2. \A j \in Jobids : /\ worker[j] \notin {"none", "gone"} => job[j].status \in Active
                          /\ job[j].status \in Active => worker[j] # "gone" \/ j \in jobFaults.orphans
    BY DEF JobInv, WorkerOK
  <2> QED BY <2>1, <2>2 DEF JobTableTrue
<1> QED BY JobInvariant, <1>1, PTL

-----------------------------------------------------------------------------
(* ConnectionReload                                                           *)

TableRow == [status : {"ACTIVE", "DISABLED"}, cred : {None} \cup Blobs]
Tables == [Rows -> TableRow]
PassSteps == {"none", "loaded", "streams", "feed", "answer"}
RequestRow == [op : {"none", "put", "delete", "status", "reload", "test"},
               step : {"new", "test", "reload", "reloading", "end"},
               row : Rows \cup {None}, cred : {None} \cup Credentials]

ReloadTypeOK ==
    /\ rows \in Tables
    /\ configKey \in {"old", "new"} /\ server.key \in {"old", "new"}
    /\ rotation \in [step : {"none"}, copy : {None}]
                    \cup [step : {"read"}, copy : [Rows -> {None} \cup Blobs]]
                    \cup [step : {"done"}, copy : {None}]
    /\ registry \in [Brokers -> {None} \cup Adapters]
    /\ handles \in [Rows -> {None} \cup Adapters]
    /\ pass \in [step : PassSteps, of : Requests \cup {None}, table : {None} \cup Tables,
                 restart : SUBSET Brokers, start : SUBSET Brokers, stop : SUBSET Brokers]
    /\ pass.step # "none" => pass.of \in Requests /\ pass.table \in Tables
    /\ passes \in Nat
    /\ request \in [Requests -> RequestRow]
    /\ \A r \in Requests : request[r].step = "test" => request[r].row \in Rows /\ request[r].cred \in Credentials
    /\ answered \subseteq Rows /\ armed \subseteq Brokers

\* Every stream task that runs is the one its code can stop. A FIX session has no
\* handle, and orders are routed to the one that runs or nowhere.
TasksAre(running, handle, routed) ==
    /\ \A t \in running : \E c \in Rows, a \in Adapters : t = [row |-> c, of |-> a] /\ (c \notin OnFix => handle[c] = a)
    /\ \A c \in Rows : handle[c] # None => c \notin OnFix /\ [row |-> c, of |-> handle[c]] \in running
    /\ \A c \in OnFix : routed[c] # None => [row |-> c, of |-> routed[c]] \in running
    /\ \A t, u \in running : t.row = u.row => t = u

TasksOK == TasksAre(tasks, handles, registry)

\* How far the streams have followed the registry: those a pass still has to
\* restart, has stopped, or has to stop.
FollowOK ==
    /\ pass.step # "streams" => pass.restart = {} /\ pass.start = {} /\ pass.stop = {}
    /\ \A c \in Brokers :
          /\ c \notin pass.restart \cup pass.start \cup pass.stop \cup OnFix => handles[c] = registry[c]
          /\ c \in pass.restart \cup pass.start => c \notin OnFix
          /\ c \in pass.restart => registry[c] # None
          /\ c \in pass.start => registry[c] # None /\ handles[c] = None
          /\ c \in pass.stop => registry[c] = None
    /\ \A c, d \in pass.start : c = d
    /\ pass.step = "feed" => handles[Feed] = None /\ pass.table[Feed].cred \in Blobs

\* The registry is the one the pass built from its snapshot.
BuiltOK == pass.step \in {"streams", "feed", "answer"} => \A c \in Brokers :
    LET outcome == Classify(c, pass.table[c], server.key, FALSE) IN
    /\ outcome = "Registered" => registry[c] # None /\ registry[c].cred = pass.table[c].cred.cred
    /\ outcome \in {"Disabled", "Unconfigured"} => registry[c] = None

\* A snapshot says of a row that was answered what the row says, under
\* whichever key, and of one that is armed that it may be registered.
SnapshotOK ==
    /\ pass.step = "loaded" => \A c \in answered \cap Brokers :
          /\ pass.table[c].status = rows[c].status
          /\ pass.table[c].cred = None <=> rows[c].cred = None
          /\ rows[c].cred # None => pass.table[c].cred.cred = rows[c].cred.cred
    /\ pass.step = "loaded" => \A c \in armed : pass.table[c].status = "ACTIVE" /\ pass.table[c].cred # None

ArmedOK == \A c \in armed : rows[c].status = "ACTIVE" /\ rows[c].cred # None /\ registry[c] # None

EffectOK == \A c \in answered \cap Brokers : InEffect(c)

AcceptedOK == \A c \in Rows \ SessionBound :
    /\ rows[c].cred # None => rows[c].cred.cred \in Accepted
    /\ rotation.step = "read" /\ rotation.copy[c] # None => rotation.copy[c].cred \in Accepted

ReloadInv ==
    ReloadTypeOK /\ TasksOK /\ FollowOK /\ BuiltOK /\ SnapshotOK /\ ArmedOK /\ EffectOK /\ AcceptedOK

LEMMA ClassifyIs ==
  ASSUME NEW c \in Rows, NEW row \in TableRow, NEW key, NEW boot
  PROVE  LET outcome == Classify(c, row, key, boot) IN
         /\ outcome \in {"Disabled", "Unconfigured", "Failed", "RestartRequired", "Registered"}
         /\ outcome = "Disabled" <=> row.status # "ACTIVE"
         /\ outcome = "Unconfigured" <=> row.status = "ACTIVE" /\ row.cred = None
         /\ outcome = "Registered" => row.cred \in Blobs /\ (c \in SessionBound => boot)
<1>1. row.cred \in {None} \cup Blobs /\ None \notin Blobs
  BY ReloadConstants DEF TableRow
<1>2. Decode(row, key) \in {"Unconfigured", "Configured", "Error"}
      /\ (Decode(row, key) = "Unconfigured" <=> row.cred = None)
  BY DEF Decode
<1> QED BY <1>1, <1>2 DEF Classify

\* What the registry that a pass or a boot builds holds for each broker.
LEMMA BuildRegistryIs ==
  ASSUME NEW table \in Tables, NEW key, NEW boot, NEW current \in [Brokers -> {None} \cup Adapters], NEW n \in Nat,
         NEW built, built = BuildRegistry(table, key, boot, current, n)
  PROVE  /\ built \in [Brokers -> {None} \cup Adapters]
         /\ \A c \in Brokers :
               LET outcome == Classify(c, table[c], key, boot) IN
               /\ outcome = "Registered" => built[c] \in Adapters /\ built[c].cred = table[c].cred.cred
               /\ outcome \in {"Failed", "RestartRequired"} => built[c] = current[c]
               /\ outcome \in {"Disabled", "Unconfigured"} => built[c] = None
<1>1. ASSUME NEW c \in Brokers, Classify(c, table[c], key, boot) = "Registered"
      PROVE  [cred |-> table[c].cred.cred, pass |-> n] \in Adapters
  <2>1. c \in Rows /\ table[c] \in TableRow
    BY DEF Rows, Tables
  <2>2. table[c].cred \in Blobs
    BY <1>1, <2>1, ClassifyIs
  <2> QED BY <2>2 DEF Blobs, Adapters
<1>2. built = [c \in Brokers |->
        IF Classify(c, table[c], key, boot) = "Registered" THEN [cred |-> table[c].cred.cred, pass |-> n]
        ELSE IF Classify(c, table[c], key, boot) \in {"Failed", "RestartRequired"} THEN current[c]
        ELSE None]
  BY DEF BuildRegistry
<1> HIDE DEF Classify
<1>3. ASSUME NEW c \in Brokers PROVE built[c] \in {None} \cup Adapters
  BY <1>1, <1>2
<1>4. built \in [Brokers -> {None} \cup Adapters]
  BY <1>2, <1>3
<1>5. \A c \in Brokers :
         LET outcome == Classify(c, table[c], key, boot) IN
         /\ outcome = "Registered" => built[c] \in Adapters /\ built[c].cred = table[c].cred.cred
         /\ outcome \in {"Failed", "RestartRequired"} => built[c] = current[c]
         /\ outcome \in {"Disabled", "Unconfigured"} => built[c] = None
  BY <1>1, <1>2
<1> QED BY <1>4, <1>5

\* What boot makes of a store: every stream runs for the adapter that is
\* registered, and only an active, configured row has one.
LEMMA BootIs ==
  ASSUME NEW table \in Tables, NEW key, NEW n \in Nat
  PROVE  LET booted == Boot(table, key, n) IN
         /\ booted.registry \in [Brokers -> {None} \cup Adapters]
         /\ booted.handles \in [Rows -> {None} \cup Adapters]
         /\ TasksAre(booted.tasks, booted.handles, booted.registry)
         /\ \A c \in Brokers \ OnFix : booted.handles[c] = booted.registry[c]
         /\ \A c \in Brokers : booted.registry[c] # None => table[c].status = "ACTIVE" /\ table[c].cred # None
<1> DEFINE built == BuildRegistry(table, key, TRUE, [c \in Brokers |-> None], n)
           fed == Classify(Feed, table[Feed], key, TRUE) = "Registered"
           running == [c \in Rows |-> IF c # Feed THEN built[c]
                                      ELSE IF fed THEN [cred |-> table[Feed].cred.cred, pass |-> n] ELSE None]
<1>1. /\ built \in [Brokers -> {None} \cup Adapters]
      /\ \A c \in Brokers :
               LET outcome == Classify(c, table[c], key, TRUE) IN
               /\ outcome = "Registered" => built[c] \in Adapters /\ built[c].cred = table[c].cred.cred
               /\ outcome # "Registered" => built[c] = None
  <2>1. PICK none \in [Brokers -> {None} \cup Adapters] : none = [c \in Brokers |-> None]
    OBVIOUS
  <2>2. PICK boot \in BOOLEAN : boot = TRUE
    OBVIOUS
  <2>3. PICK reg : reg = BuildRegistry(table, key, boot, none, n)
    OBVIOUS
  <2>4. /\ reg \in [Brokers -> {None} \cup Adapters]
        /\ \A c \in Brokers :
               LET outcome == Classify(c, table[c], key, boot) IN
               /\ outcome = "Registered" => reg[c] \in Adapters /\ reg[c].cred = table[c].cred.cred
               /\ outcome \in {"Failed", "RestartRequired"} => reg[c] = none[c]
               /\ outcome \in {"Disabled", "Unconfigured"} => reg[c] = None
    BY <2>1, <2>3, BuildRegistryIs
  <2>5. \A c \in Brokers : c \in Rows /\ table[c] \in TableRow /\ none[c] = None
    BY <2>1 DEF Rows, Tables
  <2>6. built = reg /\ \A c \in Brokers : Classify(c, table[c], key, TRUE) = Classify(c, table[c], key, boot)
    BY <2>1, <2>2, <2>3
  <2>7. \A c \in Brokers : Classify(c, table[c], key, boot)
                           \in {"Disabled", "Unconfigured", "Failed", "RestartRequired", "Registered"}
    BY <2>5, ClassifyIs
  <2> HIDE DEF built
  <2> QED BY <2>4, <2>5, <2>6, <2>7
<1>2. fed => [cred |-> table[Feed].cred.cred, pass |-> n] \in Adapters
  <2>1. Feed \in Rows /\ table[Feed] \in TableRow
    BY DEF Rows, Tables
  <2>2. fed => table[Feed].cred \in Blobs
    BY <2>1, ClassifyIs
  <2> QED BY <2>2 DEF Blobs, Adapters
<1>3. \A c \in Brokers : built[c] # None => table[c].status = "ACTIVE" /\ table[c].cred # None
  <2> TAKE c \in Brokers
  <2>1. c \in Rows /\ table[c] \in TableRow
    BY DEF Rows, Tables
  <2> HIDE DEF built
  <2> QED BY <1>1, <2>1, ClassifyIs
<1>4. Boot(table, key, n) = [registry |-> built,
                             handles |-> [c \in Rows |-> IF c \in OnFix THEN None ELSE running[c]],
                             tasks |-> {[row |-> c, of |-> running[c]] : c \in {d \in Rows : running[d] # None}}]
  BY DEF Boot
<1> HIDE DEF built, fed
<1>5. running \in [Rows -> {None} \cup Adapters] /\ \A c \in Brokers : running[c] = built[c]
  BY <1>1, <1>2, ReloadConstants DEF Rows
<1> HIDE DEF running
<1>6. PICK handle \in [Rows -> {None} \cup Adapters] : handle = [c \in Rows |-> IF c \in OnFix THEN None ELSE running[c]]
  BY <1>5
<1>7. OnFix \subseteq Brokers /\ OnFix \subseteq Rows
  BY ReloadConstants DEF Rows
<1>8. TasksAre({[row |-> c, of |-> running[c]] : c \in {d \in Rows : running[d] # None}}, handle, built)
  BY <1>5, <1>6, <1>7 DEF TasksAre
<1>9. \A c \in Brokers \ OnFix : handle[c] = built[c]
  BY <1>5, <1>6 DEF Rows
<1> QED BY <1>1, <1>3, <1>4, <1>6, <1>8, <1>9

LEMMA ReloadInitInv == ReloadInit => ReloadInv
<1> SUFFICES ASSUME ReloadInit PROVE ReloadInv
  OBVIOUS
<1> DEFINE booted == Boot(rows, "old", 1)
<1>1. rows \in [Rows -> [status : {"ACTIVE"}, cred : {None} \cup [key : {"old"}, cred : Stored]]]
      /\ Stored \subseteq Credentials /\ Stored \subseteq Accepted
  BY ReloadConstants DEF ReloadInit
<1>2. rows \in Tables
  BY <1>1 DEF Tables, TableRow, Blobs
<1>3. /\ registry = booted.registry /\ handles = booted.handles /\ tasks = booted.tasks
      /\ armed = {c \in Brokers : booted.registry[c] # None}
      /\ configKey = "old" /\ rotation = [step |-> "none", copy |-> None] /\ server = [up |-> TRUE, key |-> "old"]
      /\ passes = 1 /\ request = [r \in Requests |-> Idle] /\ pass = NoPass /\ answered = {}
  BY DEF ReloadInit
<1>4. /\ registry \in [Brokers -> {None} \cup Adapters]
      /\ handles \in [Rows -> {None} \cup Adapters]
      /\ TasksOK
      /\ \A c \in Brokers \ OnFix : handles[c] = registry[c]
      /\ \A c \in Brokers : registry[c] # None => rows[c].status = "ACTIVE" /\ rows[c].cred # None
  BY <1>2, <1>3, BootIs DEF TasksOK
<1> HIDE DEF booted
<1>5. armed = {c \in Brokers : registry[c] # None}
  BY <1>3
<1>6. Idle \in RequestRow /\ Idle.step = "new"
  BY DEF Idle, RequestRow
<1>7. ReloadTypeOK
  BY <1>2, <1>3, <1>4, <1>5, <1>6 DEF ReloadTypeOK, NoPass, PassSteps
<1>8. FollowOK /\ BuiltOK /\ SnapshotOK /\ EffectOK
  BY <1>3, <1>4 DEF FollowOK, BuiltOK, SnapshotOK, EffectOK, NoPass
<1>9. ArmedOK
  BY <1>4, <1>5 DEF ArmedOK
<1>10. AcceptedOK
  BY <1>1, <1>3 DEF AcceptedOK
<1> QED BY <1>4, <1>7, <1>8, <1>9, <1>10 DEF ReloadInv

\* A step of one request that leaves the store and the process alone.
LEMMA RequestKeeps ==
  ASSUME ReloadInv, NEW r \in Requests, NEW q \in RequestRow, request' = [request EXCEPT ![r] = q],
         q.step = "test" => q.row \in Rows /\ q.cred \in Credentials,
         UNCHANGED <<storeVars, memoryVars, failures, history>>
  PROVE  ReloadInv'
<1> USE DEF storeVars, memoryVars, history
<1>1. ReloadTypeOK'
  BY DEF ReloadInv, ReloadTypeOK
<1>2. TasksOK' /\ FollowOK' /\ BuiltOK'
  BY DEF ReloadInv, TasksOK, FollowOK, BuiltOK
<1>3. SnapshotOK' /\ ArmedOK' /\ EffectOK' /\ AcceptedOK'
  BY DEF ReloadInv, SnapshotOK, ArmedOK, EffectOK, InEffect, AcceptedOK
<1> QED BY <1>1, <1>2, <1>3 DEF ReloadInv

LEMMA EndedIs == Ended \in RequestRow /\ Ended.step = "end"
  BY DEF Ended, RequestRow

\* What a request asks and the step it goes to, as a row of `request`.
LEMMA StepOfRequest ==
  ASSUME ReloadInv, NEW r \in Requests, NEW step \in {"test", "reload", "reloading"},
         request' = [request EXCEPT ![r].step = step], step = "test" => request[r].step = "test"
  PROVE  \E q \in RequestRow : /\ request' = [request EXCEPT ![r] = q] /\ q.row = request[r].row
                               /\ q.step = step /\ (q.step = "test" => q.row \in Rows /\ q.cred \in Credentials)
<1>1. request[r] \in RequestRow
      /\ (request[r].step = "test" => request[r].row \in Rows /\ request[r].cred \in Credentials)
  BY DEF ReloadInv, ReloadTypeOK
<1>2. PICK q : q = [request[r] EXCEPT !.step = step]
  OBVIOUS
<1>3. q \in RequestRow /\ q.step = step /\ q.row = request[r].row /\ q.cred = request[r].cred
  BY <1>1, <1>2 DEF RequestRow
<1>4. request' = [request EXCEPT ![r] = q]
  BY <1>2
<1> QED BY <1>1, <1>3, <1>4

LEMMA RequestStepKeeps ==
  ASSUME ReloadInv, NEW r \in Requests,
         \/ \E c \in Rows, sub \in Submissions : Submit(r, c, sub)
         \/ PutRefused(r) \/ ReloadRequest(r) \/ Disconnect(r)
         \/ \E c \in Rows : TestStored(r, c)
  PROVE  ReloadInv'
<1>1. ASSUME NEW c \in Rows, NEW sub \in Submissions, Submit(r, c, sub) PROVE ReloadInv'
  <2>1. PICK cred \in Credentials : cred = Merge(sub, rows[c], server.key)
    BY <1>1 DEF Submit
  <2>2. PICK q : q = [op |-> "put", step |-> "test", row |-> c, cred |-> cred]
    OBVIOUS
  <2>3. q \in RequestRow /\ q.row \in Rows /\ q.cred \in Credentials
    BY <2>1, <2>2 DEF RequestRow
  <2> QED BY <1>1, <2>1, <2>2, <2>3, RequestKeeps DEF Submit
<1>2. ASSUME NEW c \in Rows, TestStored(r, c) PROVE ReloadInv'
  BY <1>2, RequestKeeps, EndedIs DEF TestStored
<1>3. ASSUME ReloadRequest(r) PROVE ReloadInv'
  <2>2. PICK q : q = [op |-> "reload", step |-> "reload", row |-> None, cred |-> None]
    OBVIOUS
  <2>3. q \in RequestRow /\ q.step = "reload"
    BY <2>2 DEF RequestRow
  <2> QED BY <1>3, <2>2, <2>3, RequestKeeps DEF ReloadRequest
<1>4. ASSUME PutRefused(r) \/ Disconnect(r) PROVE ReloadInv'
  BY <1>4, RequestKeeps, EndedIs DEF PutRefused, Disconnect
<1> QED BY <1>1, <1>2, <1>3, <1>4

\* A step of one request that writes one row: its status is kept, or the
\* row is no longer armed; whatever it was, it is not answered.
LEMMA WriteKeeps ==
  ASSUME ReloadInv, NEW r \in Requests, NEW q \in RequestRow, request' = [request EXCEPT ![r] = q], q.step # "test",
         NEW c \in Rows, NEW new \in TableRow, rows' = [rows EXCEPT ![c] = new],
         new.cred # None => c \in SessionBound \/ new.cred.cred \in Accepted,
         answered' = answered \ {c},
         armed' = armed \ {c} \/ (armed' = armed /\ new.status = rows[c].status /\ new.cred # None),
         UNCHANGED <<configKey, rotation, memoryVars, failures>>
  PROVE  ReloadInv'
<1> USE DEF memoryVars
<1>0. /\ ReloadTypeOK /\ TasksOK /\ FollowOK /\ BuiltOK /\ SnapshotOK /\ ArmedOK /\ EffectOK /\ AcceptedOK
      /\ rows'[c] = new /\ \A d \in Rows \ {c} : rows'[d] = rows[d]
      /\ rows' \in Tables
  BY DEF ReloadInv, ReloadTypeOK, Tables
<1>1. ReloadTypeOK'
  BY <1>0 DEF ReloadTypeOK
<1>2. TasksOK' /\ FollowOK' /\ BuiltOK'
  BY <1>0, ZenonT(40) DEF TasksOK, FollowOK, BuiltOK
<1>3. SnapshotOK'
  <2>1. \A d \in answered' : d \in answered /\ rows'[d] = rows[d]
    BY <1>0 DEF ReloadTypeOK
  <2>2. armed' \subseteq armed
    OBVIOUS
  <2> QED BY <1>0, <2>1, <2>2 DEF SnapshotOK
<1>4. ArmedOK'
  <2> SUFFICES ASSUME NEW d \in armed' PROVE rows'[d].status = "ACTIVE" /\ rows'[d].cred # None /\ registry'[d] # None
    BY DEF ArmedOK
  <2>1. d \in armed /\ d \in Rows
    BY <1>0 DEF ReloadTypeOK, Rows
  <2> QED BY <1>0, <2>1 DEF ArmedOK
<1>5. EffectOK'
  <2>1. \A d \in answered' : d \in answered /\ rows'[d] = rows[d]
    BY <1>0 DEF ReloadTypeOK
  <2> QED BY <1>0, <2>1 DEF EffectOK, InEffect
<1>6. AcceptedOK'
  BY <1>0 DEF AcceptedOK
<1> QED BY <1>0, <1>1, <1>2, <1>3, <1>4, <1>5, <1>6 DEF ReloadInv

LEMMA WriteStepKeeps ==
  ASSUME ReloadInv, NEW r \in Requests,
         \/ PutSave(r)
         \/ \E c \in Rows : Clear(r, c)
         \/ \E c \in Brokers, status \in {"ACTIVE", "DISABLED"} : UpdateStatus(r, c, status)
  PROVE  ReloadInv'
<1>0. ReloadTypeOK /\ AcceptedOK /\ \A c \in Rows : rows[c] \in TableRow
  BY DEF ReloadInv, ReloadTypeOK, Tables
<1>1. ASSUME PutSave(r) PROVE ReloadInv'
  <2>1. PICK c \in Rows : c = request[r].row
    BY <1>0, <1>1 DEF PutSave, ReloadTypeOK
  <2>2. PICK cred \in Credentials : cred = request[r].cred
    BY <1>0, <1>1 DEF PutSave, ReloadTypeOK
  <2>3. PICK blob : blob = [key |-> server.key, cred |-> cred]
    OBVIOUS
  <2>4. blob \in Blobs /\ blob.cred = cred /\ blob # None
    BY <1>0, <2>3, ReloadConstants DEF Blobs, ReloadTypeOK
  <2>5. PICK new : new = [rows[c] EXCEPT !.cred = blob]
    OBVIOUS
  <2>6. new \in TableRow /\ new.status = rows[c].status /\ new.cred = blob
    BY <1>0, <2>4, <2>5 DEF TableRow
  <2>8. /\ rows' = [rows EXCEPT ![c] = new] /\ (c \in SessionBound \/ cred \in Accepted)
        /\ request' = [request EXCEPT ![r].step = "reload"] /\ answered' = answered \ {c}
        /\ UNCHANGED <<configKey, rotation, memoryVars, failures, armed>>
    BY <1>1, <2>1, <2>2, <2>3, <2>5 DEF PutSave, TestPasses, Written
  <2>9. PICK q \in RequestRow : request' = [request EXCEPT ![r] = q] /\ q.step = "reload"
    BY <2>8, StepOfRequest
  <2> QED BY <2>4, <2>6, <2>8, <2>9, WriteKeeps
<1>2. ASSUME NEW c \in Rows, Clear(r, c) PROVE ReloadInv'
  <2>1. PICK new : new = [rows[c] EXCEPT !.cred = None]
    OBVIOUS
  <2>2. new \in TableRow /\ new.cred = None
    BY <1>0, <2>1 DEF TableRow
  <2>3. PICK q : q = [op |-> "delete", step |-> "reload", row |-> c, cred |-> None]
    OBVIOUS
  <2>4. q \in RequestRow /\ q.step = "reload"
    BY <2>3 DEF RequestRow
  <2> QED BY <1>2, <2>1, <2>2, <2>3, <2>4, WriteKeeps DEF Clear, Written
<1>3. ASSUME NEW c \in Brokers, NEW status \in {"ACTIVE", "DISABLED"}, UpdateStatus(r, c, status) PROVE ReloadInv'
  <2>0. c \in Rows
    BY DEF Rows
  <2>1. PICK new : new = [rows[c] EXCEPT !.status = status]
    OBVIOUS
  <2>2. new \in TableRow /\ new.cred = rows[c].cred
    BY <1>0, <2>0, <2>1 DEF TableRow
  <2>5. new.cred # None => c \in SessionBound \/ new.cred.cred \in Accepted
    BY <1>0, <2>0, <2>2 DEF AcceptedOK
  <2> QED BY <1>3, <2>0, <2>1, <2>2, <2>5, WriteKeeps, EndedIs DEF UpdateStatus, Written
<1> QED BY <1>1, <1>2, <1>3

LEMMA RotationKeeps ==
  ASSUME ReloadInv, RotateRead \/ RotateCommit \/ EditKey
  PROVE  ReloadInv'
<1> USE DEF memoryVars, history
<1>0. /\ ReloadTypeOK /\ TasksOK /\ FollowOK /\ BuiltOK /\ SnapshotOK /\ ArmedOK /\ EffectOK /\ AcceptedOK
      /\ \A c \in Rows : rows[c] \in TableRow
  BY DEF ReloadInv, ReloadTypeOK, Tables
<1>1. ASSUME RotateRead PROVE ReloadInv'
  <2>1. PICK copy : copy = [c \in Rows |-> rows[c].cred]
    OBVIOUS
  <2>2. copy \in [Rows -> {None} \cup Blobs] /\ \A c \in Rows : copy[c] = rows[c].cred
    BY <1>0, <2>1 DEF TableRow
  <2>3. /\ rotation' = [step |-> "read", copy |-> copy]
        /\ UNCHANGED <<rows, configKey, memoryVars, request, failures, history>>
    BY <1>1, <2>1 DEF RotateRead
  <2>4. ReloadTypeOK'
    BY <1>0, <2>2, <2>3 DEF ReloadTypeOK
  <2>5. TasksOK' /\ FollowOK' /\ BuiltOK'
    BY <1>0, <2>3 DEF TasksOK, FollowOK, BuiltOK
  <2>6. SnapshotOK' /\ ArmedOK' /\ EffectOK'
    BY <1>0, <2>3 DEF SnapshotOK, ArmedOK, EffectOK, InEffect
  <2>7. AcceptedOK'
    BY <1>0, <2>2, <2>3 DEF AcceptedOK
  <2> QED BY <2>4, <2>5, <2>6, <2>7 DEF ReloadInv
<1>2. ASSUME RotateCommit PROVE ReloadInv'
  <2> DEFINE copy == rotation.copy
  <2>1. /\ rotation.step = "read" /\ copy \in [Rows -> {None} \cup Blobs]
        /\ rotation' = [step |-> "done", copy |-> None]
        /\ UNCHANGED <<configKey, memoryVars, request, failures, armed>>
    BY <1>0, <1>2 DEF RotateCommit, ReloadTypeOK
  <2>2. rows' = [c \in Rows |-> IF copy[c] = None THEN rows[c]
                                ELSE [rows[c] EXCEPT !.cred = [key |-> "new", cred |-> copy[c].cred]]]
    BY <1>2 DEF RotateCommit
  <2>3. answered' = {c \in answered : copy[c] = None \/ (rows[c].cred # None /\ rows[c].cred.cred = copy[c].cred)}
    BY <1>2 DEF RotateCommit
  <2> HIDE DEF copy
  <2>4. ASSUME NEW c \in Rows
        PROVE  /\ rows'[c] \in TableRow /\ rows'[c].status = rows[c].status
               /\ copy[c] = None => rows'[c] = rows[c]
               /\ copy[c] # None => rows'[c].cred # None /\ rows'[c].cred.cred = copy[c].cred
    <3>1. CASE copy[c] = None
      BY <1>0, <2>2, <3>1
    <3>2. CASE copy[c] # None
      <4>1. PICK blob : blob = [key |-> "new", cred |-> copy[c].cred]
        OBVIOUS
      <4>2. blob \in Blobs /\ blob # None /\ blob.cred = copy[c].cred
        BY <2>1, <3>2, <4>1, ReloadConstants DEF Blobs
      <4>3. rows'[c] = [rows[c] EXCEPT !.cred = blob]
        BY <2>2, <3>2, <4>1
      <4> QED BY <1>0, <3>2, <4>2, <4>3 DEF TableRow
    <3> QED BY <3>1, <3>2
  <2>5. rows' \in Tables
    <3>1. rows' = [c \in Rows |-> rows'[c]]
      BY <2>2
    <3> QED BY <2>4, <3>1 DEF Tables
  <2>6. answered' \subseteq answered
    BY <2>3
  <2>7. \A c \in answered' : /\ rows'[c].status = rows[c].status /\ (rows'[c].cred = None <=> rows[c].cred = None)
                             /\ rows[c].cred # None => rows'[c].cred.cred = rows[c].cred.cred
    BY <1>0, <2>3, <2>4 DEF ReloadTypeOK
  <2>8. \A c \in armed : rows'[c].status = "ACTIVE" /\ rows'[c].cred # None
    BY <1>0, <2>4 DEF ArmedOK, ReloadTypeOK, Rows
  <2>9. ReloadTypeOK'
    BY <1>0, <2>1, <2>5, <2>6 DEF ReloadTypeOK
  <2>10. TasksOK' /\ FollowOK' /\ BuiltOK'
    BY <1>0, <2>1, ZenonT(40) DEF TasksOK, FollowOK, BuiltOK
  <2>11. SnapshotOK'
    BY <1>0, <2>1, <2>6, <2>7 DEF SnapshotOK
  <2>12. ArmedOK'
    BY <1>0, <2>1, <2>8 DEF ArmedOK
  <2>13. EffectOK'
    BY <1>0, <2>1, <2>6, <2>7 DEF EffectOK, InEffect
  <2>14. AcceptedOK'
    BY <1>0, <2>1, <2>4 DEF AcceptedOK, copy
  <2> QED BY <2>9, <2>10, <2>11, <2>12, <2>13, <2>14 DEF ReloadInv
<1>3. ASSUME EditKey PROVE ReloadInv'
  <2>1. configKey' = "new" /\ UNCHANGED <<rows, rotation, memoryVars, request, failures, history>>
    BY <1>3 DEF EditKey
  <2>2. ReloadTypeOK'
    BY <1>0, <2>1 DEF ReloadTypeOK
  <2>3. TasksOK' /\ FollowOK' /\ BuiltOK'
    BY <1>0, <2>1 DEF TasksOK, FollowOK, BuiltOK
  <2>4. SnapshotOK' /\ ArmedOK' /\ EffectOK' /\ AcceptedOK'
    BY <1>0, <2>1 DEF SnapshotOK, ArmedOK, EffectOK, InEffect, AcceptedOK
  <2> QED BY <2>2, <2>3, <2>4 DEF ReloadInv
<1> QED BY <1>1, <1>2, <1>3

\* The lock is taken, and one snapshot of the table is read.
LEMMA SnapshotKeeps ==
  ASSUME ReloadInv, NEW r \in Requests, ReloadSnapshot(r)
  PROVE  ReloadInv'
<1> USE DEF storeVars, history
<1>0. ReloadTypeOK /\ TasksOK /\ FollowOK /\ BuiltOK /\ SnapshotOK /\ ArmedOK /\ EffectOK /\ AcceptedOK
  BY DEF ReloadInv
<1>1. /\ pass.step = "none" /\ request' = [request EXCEPT ![r].step = "reloading"]
      /\ UNCHANGED <<storeVars, server, registry, tasks, handles, passes, failures, history>>
  BY DEF ReloadSnapshot
<1>2. pass' = [step |-> "loaded", of |-> r, table |-> rows, restart |-> {}, start |-> {}, stop |-> {}]
  BY DEF ReloadSnapshot, NoPass
<1>3. PICK q \in RequestRow : request' = [request EXCEPT ![r] = q] /\ q.step = "reloading"
  BY <1>1, StepOfRequest
<1>4. ReloadTypeOK'
  BY <1>0, <1>1, <1>2, <1>3 DEF ReloadTypeOK, PassSteps
<1>5. TasksOK' /\ FollowOK' /\ BuiltOK'
  BY <1>0, <1>1, <1>2 DEF TasksOK, FollowOK, BuiltOK
<1>6. SnapshotOK' /\ ArmedOK' /\ EffectOK' /\ AcceptedOK'
  BY <1>0, <1>1, <1>2 DEF SnapshotOK, ArmedOK, EffectOK, InEffect, AcceptedOK
<1> QED BY <1>4, <1>5, <1>6 DEF ReloadInv

LEMMA RefusedKeeps ==
  ASSUME ReloadInv, ReloadRefused
  PROVE  ReloadInv'
<1> USE DEF storeVars, history
<1>0. ReloadTypeOK /\ TasksOK /\ FollowOK /\ BuiltOK /\ SnapshotOK /\ ArmedOK /\ EffectOK /\ AcceptedOK
  BY DEF ReloadInv
<1>1. PICK r \in Requests : r = pass.of
  BY <1>0 DEF ReloadRefused, ReloadTypeOK
<1>2. /\ pass.step = "loaded" /\ request' = [request EXCEPT ![r] = Ended]
      /\ UNCHANGED <<storeVars, server, registry, tasks, handles, passes, history>>
  BY <1>1 DEF ReloadRefused
<1>3. pass' = [step |-> "none", of |-> None, table |-> None, restart |-> {}, start |-> {}, stop |-> {}]
  BY DEF ReloadRefused, NoPass
<1>4. PICK q \in RequestRow : request' = [request EXCEPT ![r] = q] /\ q.step = "end"
  BY <1>2, EndedIs
<1>5. ReloadTypeOK'
  BY <1>0, <1>2, <1>3, <1>4 DEF ReloadTypeOK, PassSteps
<1>6. TasksOK' /\ FollowOK' /\ BuiltOK'
  BY <1>0, <1>2, <1>3 DEF TasksOK, FollowOK, BuiltOK
<1>7. SnapshotOK' /\ ArmedOK' /\ EffectOK' /\ AcceptedOK'
  BY <1>0, <1>2, <1>3 DEF SnapshotOK, ArmedOK, EffectOK, InEffect, AcceptedOK
<1> QED BY <1>5, <1>6, <1>7 DEF ReloadInv

\* The registry of the pass takes the place of the old one.
LEMMA SwapKeeps ==
  ASSUME ReloadInv, ReloadSwap
  PROVE  ReloadInv'
<1> USE DEF storeVars
<1>0. /\ ReloadTypeOK /\ TasksOK /\ FollowOK /\ BuiltOK /\ SnapshotOK /\ ArmedOK /\ EffectOK /\ AcceptedOK
      /\ pass.step = "loaded" /\ pass.table \in Tables
  BY DEF ReloadInv, ReloadTypeOK, ReloadSwap
<1>1. PICK boot \in BOOLEAN : boot = FALSE
  OBVIOUS
<1>2. PICK table \in Tables : table = pass.table
  BY <1>0
<1>3. PICK built : built = BuildRegistry(table, server.key, boot, registry, passes + 1)
  OBVIOUS
<1> DEFINE outcome(c) == Classify(c, table[c], server.key, boot)
<1>4. /\ built \in [Brokers -> {None} \cup Adapters]
      /\ \A c \in Brokers :
            /\ outcome(c) = "Registered" => built[c] \in Adapters /\ built[c].cred = table[c].cred.cred
            /\ outcome(c) \in {"Failed", "RestartRequired"} => built[c] = registry[c]
            /\ outcome(c) \in {"Disabled", "Unconfigured"} => built[c] = None
  <2>1. passes + 1 \in Nat /\ registry \in [Brokers -> {None} \cup Adapters]
    BY <1>0 DEF ReloadTypeOK
  <2> QED BY <1>3, <2>1, BuildRegistryIs
<1>5. \A c \in Brokers :
            /\ c \in Rows /\ outcome(c) \in {"Disabled", "Unconfigured", "Failed", "RestartRequired", "Registered"}
            /\ outcome(c) = "Disabled" <=> table[c].status # "ACTIVE"
            /\ outcome(c) = "Unconfigured" <=> table[c].status = "ACTIVE" /\ table[c].cred = None
            /\ outcome(c) = "Registered" => c \notin OnFix
  <2> TAKE c \in Brokers
  <2>1. c \in Rows /\ table[c] \in TableRow
    BY DEF Rows, Tables
  <2> QED BY <1>1, <2>1, ClassifyIs, ReloadConstants
<1>6. /\ registry' = built /\ passes' = passes + 1
      /\ armed' = armed \cup {c \in Brokers : built[c] # None /\ rows[c].status = "ACTIVE" /\ rows[c].cred # None}
      /\ UNCHANGED <<storeVars, server, tasks, handles, request, failures, answered>>
  BY <1>1, <1>2, <1>3 DEF ReloadSwap
<1>7. \A c \in Brokers : Classify(c, table[c], server.key, FALSE) = outcome(c)
  BY <1>1
<1>8. PICK fresh \in SUBSET Brokers : fresh = {c \in Brokers : outcome(c) = "Registered"}
  OBVIOUS
<1>9. PICK stop \in SUBSET Brokers : stop = {c \in Brokers : built[c] = None}
  OBVIOUS
<1>10. Fresh(pass.table, server.key, FALSE) = fresh
  BY <1>2, <1>7, <1>8 DEF Fresh
<1>11. pass' = [pass EXCEPT !.step = "streams", !.restart = fresh, !.stop = stop]
  BY <1>1, <1>2, <1>3, <1>9, <1>10 DEF ReloadSwap
<1> HIDE DEF outcome
<1>12. /\ pass'.step = "streams" /\ pass'.of = pass.of /\ pass'.table = table
       /\ pass'.restart = fresh /\ pass'.start = {} /\ pass'.stop = stop
       /\ pass' \in [step : PassSteps, of : Requests \cup {None}, table : {None} \cup Tables,
                     restart : SUBSET Brokers, start : SUBSET Brokers, stop : SUBSET Brokers]
  BY <1>0, <1>2, <1>11 DEF ReloadTypeOK, FollowOK, PassSteps
<1>13. ReloadTypeOK'
  <2>1. armed' \subseteq Brokers /\ passes' \in Nat
    BY <1>0, <1>6 DEF ReloadTypeOK
  <2> QED BY <1>0, <1>4, <1>6, <1>12, <2>1 DEF ReloadTypeOK
<1>14. TasksOK' /\ AcceptedOK'
  <2>1. \A c \in OnFix : built[c] # None => built[c] = registry[c]
    BY <1>4, <1>5, ReloadConstants
  <2>2. TasksAre(tasks, handles, built)
    BY <1>0, <2>1 DEF TasksOK, TasksAre
  <2> QED BY <1>0, <1>6, <2>2 DEF TasksOK, AcceptedOK
<1>15. FollowOK'
  <2>1. \A c \in Brokers \ OnFix : handles[c] = registry[c]
    BY <1>0 DEF FollowOK
  <2>4. fresh \cap OnFix = {}
    BY <1>5, <1>8
  <2>2. \A c \in fresh : built[c] # None
    BY <1>4, <1>8, ReloadConstants
  <2>3. \A c \in Brokers : c \notin fresh \cup stop => built[c] = registry[c]
    BY <1>4, <1>5, <1>8, <1>9
  <2> QED BY <1>6, <1>9, <1>12, <2>1, <2>2, <2>3, <2>4 DEF FollowOK
<1>16. BuiltOK'
  <2> SUFFICES ASSUME NEW c \in Brokers
               PROVE  /\ outcome(c) = "Registered" => built[c] # None /\ built[c].cred = table[c].cred.cred
                      /\ outcome(c) \in {"Disabled", "Unconfigured"} => built[c] = None
    BY <1>6, <1>7, <1>12 DEF BuiltOK
  <2> QED BY <1>4, ReloadConstants
<1>17. SnapshotOK'
  BY <1>12 DEF SnapshotOK
<1>18. ArmedOK'
  <2> SUFFICES ASSUME NEW c \in armed' PROVE rows[c].status = "ACTIVE" /\ rows[c].cred # None /\ built[c] # None
    BY <1>6 DEF ArmedOK
  <2>1. CASE c \in armed
    <3>1. rows[c].status = "ACTIVE" /\ rows[c].cred # None /\ registry[c] # None /\ c \in Brokers
      BY <1>0, <2>1 DEF ArmedOK, ReloadTypeOK
    <3>2. table[c].status = "ACTIVE" /\ table[c].cred # None
      BY <1>0, <1>2, <2>1 DEF SnapshotOK
    <3> QED BY <1>4, <1>5, <3>1, <3>2, ReloadConstants
  <2> QED BY <1>6, <2>1
<1>19. EffectOK'
  <2> SUFFICES ASSUME NEW c \in answered \cap Brokers PROVE InEffect(c)'
    BY <1>6 DEF EffectOK
  <2>1. /\ table[c].status = rows[c].status /\ (table[c].cred = None <=> rows[c].cred = None)
        /\ rows[c].cred # None => table[c].cred.cred = rows[c].cred.cred
    BY <1>0, <1>2 DEF SnapshotOK
  <2>2. InEffect(c)
    BY <1>0 DEF EffectOK
  <2>3. CASE rows[c].status = "ACTIVE" /\ rows[c].cred # None
    <3>1. outcome(c) \in {"Failed", "RestartRequired", "Registered"}
      BY <1>5, <2>1, <2>3
    <3>2. built[c] # None /\ built[c].cred = rows[c].cred.cred
      BY <1>4, <2>1, <2>2, <2>3, <3>1, ReloadConstants DEF InEffect
    <3> QED BY <1>6, <2>3, <3>2 DEF InEffect
  <2>4. CASE ~(rows[c].status = "ACTIVE" /\ rows[c].cred # None)
    <3>1. outcome(c) \in {"Disabled", "Unconfigured"}
      BY <1>5, <2>1, <2>4
    <3>2. built[c] = None
      BY <1>4, <3>1
    <3> QED BY <1>6, <2>4, <3>2 DEF InEffect
  <2> QED BY <2>3, <2>4
<1> QED BY <1>13, <1>14, <1>15, <1>16, <1>17, <1>18, <1>19 DEF ReloadInv

\* The task under a code is stopped, joined and forgotten.
LEMMA AbortedIs ==
  ASSUME ReloadInv, NEW c \in Rows, Aborted(c), UNCHANGED registry
  PROVE  /\ TasksOK' /\ handles' \in [Rows -> {None} \cup Adapters] /\ handles'[c] = None
         /\ \A d \in Rows \ {c} : handles'[d] = handles[d]
<1>0. TasksOK /\ handles \in [Rows -> {None} \cup Adapters]
  BY DEF ReloadInv, ReloadTypeOK
<1>1. /\ handles' \in [Rows -> {None} \cup Adapters] /\ handles'[c] = None
      /\ \A d \in Rows \ {c} : handles'[d] = handles[d]
  BY <1>0 DEF Aborted
<1>2. tasks' = tasks \ {[row |-> c, of |-> handles[c]]}
  BY DEF Aborted
<1>3. TasksOK'
  <2>1. ASSUME NEW d \in Rows, NEW a \in Adapters, [row |-> d, of |-> a] \in tasks'
        PROVE  [row |-> d, of |-> a] \in tasks /\ (d \notin OnFix => d # c)
    BY <1>0, <1>2, <2>1 DEF TasksOK, TasksAre
  <2>2. \A d \in OnFix : registry[d] # None => [row |-> d, of |-> registry[d]] # [row |-> c, of |-> handles[c]]
    BY <1>0, ReloadConstants DEF TasksOK, TasksAre, Rows
  <2>3. \A d \in Rows : handles'[d] # None => d \notin OnFix /\ [row |-> d, of |-> handles'[d]] \in tasks'
    BY <1>0, <1>1, <1>2 DEF TasksOK, TasksAre
  <2>4. \A t \in tasks' : \E d \in Rows, a \in Adapters : t = [row |-> d, of |-> a] /\ (d \notin OnFix => handles'[d] = a)
    BY <1>0, <1>1, <1>2, <2>1 DEF TasksOK, TasksAre
  <2>5. \A d \in OnFix : registry[d] # None => [row |-> d, of |-> registry[d]] \in tasks'
    BY <1>0, <1>2, <2>2 DEF TasksOK, TasksAre
  <2>6. \A t, u \in tasks' : t.row = u.row => t = u
    BY <1>0, <1>2 DEF TasksOK, TasksAre
  <2> QED BY <2>3, <2>4, <2>5, <2>6 DEF TasksOK, TasksAre
<1> QED BY <1>1, <1>3

\* A task is started under a code that has none.
LEMMA StartedIs ==
  ASSUME ReloadInv, NEW c \in Rows \ OnFix, NEW a \in Adapters, handles[c] = None, UNCHANGED registry,
         tasks' = tasks \cup {[row |-> c, of |-> a]}, handles' = [handles EXCEPT ![c] = a]
  PROVE  /\ TasksOK' /\ handles' \in [Rows -> {None} \cup Adapters] /\ handles'[c] = a
         /\ \A d \in Rows \ {c} : handles'[d] = handles[d]
<1>0. TasksOK /\ handles \in [Rows -> {None} \cup Adapters] /\ a # None
  BY ReloadConstants DEF ReloadInv, ReloadTypeOK
<1>1. /\ handles' \in [Rows -> {None} \cup Adapters] /\ handles'[c] = a
      /\ \A d \in Rows \ {c} : handles'[d] = handles[d]
  BY <1>0
<1>3. TasksOK'
  <2>1. \A t \in tasks : t.row # c
    BY <1>0, ReloadConstants DEF TasksOK, TasksAre
  <2>2. \A d \in Rows : handles'[d] # None => d \notin OnFix /\ [row |-> d, of |-> handles'[d]] \in tasks'
    BY <1>0, <1>1 DEF TasksOK, TasksAre
  <2>3. \A t \in tasks' : \E d \in Rows, b \in Adapters : t = [row |-> d, of |-> b] /\ (d \notin OnFix => handles'[d] = b)
    BY <1>0, <1>1, <2>1 DEF TasksOK, TasksAre
  <2>4. \A t, u \in tasks' : t.row = u.row => t = u
    BY <1>0, <2>1 DEF TasksOK, TasksAre
  <2> QED BY <1>0, <2>2, <2>3, <2>4 DEF TasksOK, TasksAre
<1> QED BY <1>1, <1>3

\* What no step of a pass after the swap disturbs.
LEMMA StreamsKeep ==
  ASSUME ReloadInv, pass.step \in {"streams", "feed"},
         pass'.step \in {"streams", "feed", "answer"}, pass'.of = pass.of, pass'.table = pass.table,
         pass' \in [step : PassSteps, of : Requests \cup {None}, table : {None} \cup Tables,
                    restart : SUBSET Brokers, start : SUBSET Brokers, stop : SUBSET Brokers],
         handles' \in [Rows -> {None} \cup Adapters],
         UNCHANGED <<storeVars, server, registry, passes, request, failures, history>>
  PROVE  ReloadTypeOK' /\ BuiltOK' /\ SnapshotOK' /\ ArmedOK' /\ EffectOK' /\ AcceptedOK'
<1> USE DEF storeVars, history
<1>0. ReloadTypeOK /\ BuiltOK /\ SnapshotOK /\ ArmedOK /\ EffectOK /\ AcceptedOK
  BY DEF ReloadInv
<1>1. ReloadTypeOK'
  BY <1>0 DEF ReloadTypeOK
<1>2. BuiltOK' /\ SnapshotOK'
  BY <1>0 DEF BuiltOK, SnapshotOK
<1>3. ArmedOK' /\ EffectOK' /\ AcceptedOK'
  BY <1>0 DEF ArmedOK, EffectOK, InEffect, AcceptedOK
<1> QED BY <1>1, <1>2, <1>3

LEMMA BrokerStreamKeeps ==
  ASSUME ReloadInv, NEW c \in Brokers, StreamAbort(c) \/ StreamStart(c) \/ StreamStop(c)
  PROVE  ReloadInv'
<1>0. /\ ReloadTypeOK /\ TasksOK /\ FollowOK /\ c \in Rows /\ Feed \in Rows /\ pass.step = "streams"
      /\ pass \in [step : PassSteps, of : Requests \cup {None}, table : {None} \cup Tables,
                   restart : SUBSET Brokers, start : SUBSET Brokers, stop : SUBSET Brokers]
      /\ Brokers \subseteq Rows
  BY DEF ReloadInv, ReloadTypeOK, StreamAbort, StreamStart, StreamStop, Rows
<1>1. ASSUME StreamAbort(c) PROVE ReloadInv'
  <2>1. c \in pass.restart /\ pass.start = {} /\ Aborted(c)
        /\ UNCHANGED <<storeVars, server, registry, passes, request, failures, history>>
    BY <1>1 DEF StreamAbort
  <2>2. /\ pass'.step = "streams" /\ pass'.of = pass.of /\ pass'.table = pass.table
        /\ pass'.restart = pass.restart \ {c} /\ pass'.start = {c} /\ pass'.stop = pass.stop
        /\ pass' \in [step : PassSteps, of : Requests \cup {None}, table : {None} \cup Tables,
                      restart : SUBSET Brokers, start : SUBSET Brokers, stop : SUBSET Brokers]
    BY <1>0, <1>1 DEF StreamAbort
  <2>3. /\ TasksOK' /\ handles' \in [Rows -> {None} \cup Adapters] /\ handles'[c] = None
        /\ \A d \in Rows \ {c} : handles'[d] = handles[d]
    BY <1>0, <2>1, AbortedIs
  <2>4. FollowOK'
    BY <1>0, <2>1, <2>2, <2>3 DEF FollowOK
  <2> QED BY <1>0, <2>1, <2>2, <2>3, <2>4, StreamsKeep DEF ReloadInv
<1>2. ASSUME StreamStart(c) PROVE ReloadInv'
  <2>0. /\ c \in pass.start /\ c \notin OnFix /\ handles[c] = None /\ registry[c] \in Adapters
    BY <1>0, <1>2 DEF StreamStart, FollowOK, ReloadTypeOK
  <2>1. /\ tasks' = tasks \cup {[row |-> c, of |-> registry[c]]} /\ handles' = [handles EXCEPT ![c] = registry[c]]
        /\ UNCHANGED <<storeVars, server, registry, passes, request, failures, history>>
    BY <1>2 DEF StreamStart
  <2>2. /\ pass'.step = "streams" /\ pass'.of = pass.of /\ pass'.table = pass.table
        /\ pass'.restart = pass.restart /\ pass'.start = {} /\ pass'.stop = pass.stop
        /\ pass' \in [step : PassSteps, of : Requests \cup {None}, table : {None} \cup Tables,
                      restart : SUBSET Brokers, start : SUBSET Brokers, stop : SUBSET Brokers]
    BY <1>0, <1>2 DEF StreamStart
  <2>3. /\ TasksOK' /\ handles' \in [Rows -> {None} \cup Adapters] /\ handles'[c] = registry[c]
        /\ \A d \in Rows \ {c} : handles'[d] = handles[d]
    BY <1>0, <2>0, <2>1, StartedIs
  <2>4. FollowOK'
    BY <1>0, <2>0, <2>1, <2>2, <2>3 DEF FollowOK
  <2> QED BY <1>0, <2>1, <2>2, <2>3, <2>4, StreamsKeep DEF ReloadInv
<1>3. ASSUME StreamStop(c) PROVE ReloadInv'
  <2>1. c \in pass.stop /\ pass.restart \cup pass.start = {} /\ Aborted(c)
        /\ UNCHANGED <<storeVars, server, registry, passes, request, failures, history>>
    BY <1>3 DEF StreamStop
  <2>2. /\ pass'.step = "streams" /\ pass'.of = pass.of /\ pass'.table = pass.table
        /\ pass'.restart = pass.restart /\ pass'.start = pass.start /\ pass'.stop = pass.stop \ {c}
        /\ pass' \in [step : PassSteps, of : Requests \cup {None}, table : {None} \cup Tables,
                      restart : SUBSET Brokers, start : SUBSET Brokers, stop : SUBSET Brokers]
    BY <1>0, <1>3 DEF StreamStop
  <2>3. /\ TasksOK' /\ handles' \in [Rows -> {None} \cup Adapters] /\ handles'[c] = None
        /\ \A d \in Rows \ {c} : handles'[d] = handles[d]
    BY <1>0, <2>1, AbortedIs
  <2>4. FollowOK'
    BY <1>0, <2>1, <2>2, <2>3 DEF FollowOK
  <2> QED BY <1>0, <2>1, <2>2, <2>3, <2>4, StreamsKeep DEF ReloadInv
<1> QED BY <1>1, <1>2, <1>3

LEMMA FeedKeeps ==
  ASSUME ReloadInv, FeedAbort \/ FeedStart
  PROVE  ReloadInv'
<1>0. /\ ReloadTypeOK /\ TasksOK /\ FollowOK /\ Feed \in Rows /\ Brokers \subseteq Rows \ {Feed}
      /\ pass \in [step : PassSteps, of : Requests \cup {None}, table : {None} \cup Tables,
                   restart : SUBSET Brokers, start : SUBSET Brokers, stop : SUBSET Brokers]
      /\ handles \in [Rows -> {None} \cup Adapters]
      /\ pass.step \in {"streams", "feed"} /\ pass.table \in Tables
  BY ReloadConstants DEF ReloadInv, ReloadTypeOK, FeedAbort, FeedStart, Rows
<1>1. ASSUME FeedAbort PROVE ReloadInv'
  <2>0. /\ pass.restart = {} /\ pass.start = {} /\ pass.stop = {} /\ pass.step = "streams"
        /\ UNCHANGED <<storeVars, server, registry, passes, request, failures, history>>
    BY <1>1 DEF FeedAbort
  <2>1. PICK step \in {"feed", "answer"} : step = IF FeedOutcome = "Registered" THEN "feed" ELSE "answer"
    OBVIOUS
  <2>2. pass' = [pass EXCEPT !.step = step]
    BY <1>1, <2>1 DEF FeedAbort
  <2>3. /\ pass'.step = step /\ pass'.of = pass.of /\ pass'.table = pass.table
        /\ pass'.restart = {} /\ pass'.start = {} /\ pass'.stop = {}
        /\ pass' \in [step : PassSteps, of : Requests \cup {None}, table : {None} \cup Tables,
                      restart : SUBSET Brokers, start : SUBSET Brokers, stop : SUBSET Brokers]
    BY <1>0, <2>0, <2>2 DEF PassSteps
  <2>4. /\ TasksOK' /\ handles' \in [Rows -> {None} \cup Adapters]
        /\ \A d \in Rows \ {Feed} : handles'[d] = handles[d]
        /\ step = "feed" => handles'[Feed] = None
    <3>1. CASE FeedOutcome = "Failed"
      <4>1. UNCHANGED <<tasks, handles>> /\ step = "answer"
        BY <1>1, <2>1, <3>1 DEF FeedAbort
      <4>2. UNCHANGED registry
        BY <2>0
      <4> QED BY <1>0, <4>1, <4>2 DEF TasksOK
    <3>2. CASE FeedOutcome # "Failed"
      <4>1. Aborted(Feed)
        BY <1>1, <3>2 DEF FeedAbort
      <4>2. UNCHANGED registry
        BY <2>0
      <4> QED BY <1>0, <4>1, <4>2, AbortedIs
    <3> QED BY <3>1, <3>2
  <2>5. step = "feed" => pass.table[Feed].cred \in Blobs
    <3>1. PICK boot \in BOOLEAN : boot = FALSE
      OBVIOUS
    <3>2. pass.table[Feed] \in TableRow
      BY <1>0 DEF Tables
    <3>3. step = "feed" => Classify(Feed, pass.table[Feed], server.key, boot) = "Registered"
      BY <2>1, <3>1 DEF FeedOutcome, FeedRow
    <3> QED BY <1>0, <3>2, <3>3, ClassifyIs
  <2>6. FollowOK'
    BY <1>0, <2>0, <2>3, <2>4, <2>5 DEF FollowOK
  <2> QED BY <1>0, <2>0, <2>3, <2>4, <2>6, StreamsKeep DEF ReloadInv
<1>2. ASSUME FeedStart PROVE ReloadInv'
  <2>0. /\ pass.step = "feed" /\ pass.restart = {} /\ pass.start = {} /\ pass.stop = {}
        /\ handles[Feed] = None /\ pass.table[Feed].cred \in Blobs /\ Feed \notin OnFix
        /\ UNCHANGED <<storeVars, server, registry, passes, request, failures, history>>
    BY <1>0, <1>2, ReloadConstants DEF FeedStart, FollowOK
  <2>1. PICK a \in Adapters : a = FeedSource
    <3>1. passes \in Nat
      BY <1>0 DEF ReloadTypeOK
    <3>2. FeedSource \in Adapters
      BY <2>0, <3>1 DEF FeedSource, FeedRow, Blobs, Adapters
    <3> QED BY <3>2
  <2>2. /\ tasks' = tasks \cup {[row |-> Feed, of |-> a]} /\ handles' = [handles EXCEPT ![Feed] = a]
    BY <1>2, <2>1 DEF FeedStart
  <2>3. /\ pass'.step = "answer" /\ pass'.of = pass.of /\ pass'.table = pass.table
        /\ pass'.restart = {} /\ pass'.start = {} /\ pass'.stop = {}
        /\ pass' \in [step : PassSteps, of : Requests \cup {None}, table : {None} \cup Tables,
                      restart : SUBSET Brokers, start : SUBSET Brokers, stop : SUBSET Brokers]
    BY <1>0, <1>2, <2>0 DEF FeedStart, PassSteps
  <2>4. /\ TasksOK' /\ handles' \in [Rows -> {None} \cup Adapters]
        /\ \A d \in Rows \ {Feed} : handles'[d] = handles[d]
    BY <1>0, <2>0, <2>2, StartedIs
  <2>5. FollowOK'
    BY <1>0, <2>0, <2>3, <2>4 DEF FollowOK
  <2> QED BY <1>0, <2>0, <2>3, <2>4, <2>5, StreamsKeep DEF ReloadInv
<1> QED BY <1>1, <1>2

\* The request is answered: what the pass built is what its row says.
LEMMA AnswerKeeps ==
  ASSUME ReloadInv, ReloadAnswer
  PROVE  ReloadInv'
<1> USE DEF storeVars
<1>0. /\ ReloadTypeOK /\ TasksOK /\ FollowOK /\ BuiltOK /\ SnapshotOK /\ ArmedOK /\ EffectOK /\ AcceptedOK
      /\ pass.step = "answer" /\ pass.of \in Requests
  BY DEF ReloadInv, ReloadTypeOK, ReloadAnswer
<1>1. PICK r \in Requests : r = pass.of
  BY <1>0
<1>2. PICK c \in Rows \cup {None} : c = request[r].row
  BY <1>0 DEF ReloadTypeOK, RequestRow
<1>3. /\ request' = [request EXCEPT ![r] = Ended]
      /\ UNCHANGED <<storeVars, server, registry, tasks, handles, passes, failures, armed>>
  BY <1>1 DEF ReloadAnswer
<1>4. \/ answered' = answered
      \/ /\ c \in Rows /\ answered' = answered \cup {c} /\ pass.table[c] = rows[c]
         /\ Classify(c, rows[c], server.key, FALSE) \notin {"Failed", "RestartRequired"}
  BY <1>1, <1>2 DEF ReloadAnswer
<1>5. pass' = [step |-> "none", of |-> None, table |-> None, restart |-> {}, start |-> {}, stop |-> {}]
  BY DEF ReloadAnswer, NoPass
<1>6. PICK q \in RequestRow : request' = [request EXCEPT ![r] = q] /\ q.step = "end"
  BY <1>3, EndedIs
<1>7. ReloadTypeOK'
  <2>1. pass' \in [step : PassSteps, of : Requests \cup {None}, table : {None} \cup Tables,
                    restart : SUBSET Brokers, start : SUBSET Brokers, stop : SUBSET Brokers]
    BY <1>5 DEF PassSteps
  <2>2. answered' \subseteq Rows
    BY <1>0, <1>4 DEF ReloadTypeOK
  <2> QED BY <1>0, <1>3, <1>5, <1>6, <2>1, <2>2 DEF ReloadTypeOK
<1>8. TasksOK' /\ FollowOK' /\ BuiltOK'
  BY <1>0, <1>3, <1>5 DEF TasksOK, FollowOK, BuiltOK
<1>9. SnapshotOK' /\ ArmedOK' /\ AcceptedOK'
  BY <1>0, <1>3, <1>5 DEF SnapshotOK, ArmedOK, AcceptedOK
<1>10. EffectOK'
  <2> SUFFICES ASSUME NEW d \in answered' \cap Brokers PROVE InEffect(d)'
    BY DEF EffectOK
  <2>1. CASE d \in answered
    BY <1>0, <1>3, <2>1 DEF EffectOK, InEffect
  <2>2. CASE d \notin answered
    <3>1. PICK boot \in BOOLEAN : boot = FALSE
      OBVIOUS
    <3>2. /\ d \in Rows /\ pass.table[d] = rows[d] /\ rows[d] \in TableRow
          /\ Classify(d, rows[d], server.key, boot) \notin {"Failed", "RestartRequired"}
      BY <1>0, <1>4, <2>2, <3>1 DEF ReloadTypeOK, Tables
    <3>3. LET outcome == Classify(d, rows[d], server.key, boot) IN
          /\ outcome = "Registered" => registry[d] # None /\ registry[d].cred = rows[d].cred.cred
          /\ outcome \in {"Disabled", "Unconfigured"} => registry[d] = None
      BY <1>0, <3>1, <3>2 DEF BuiltOK
    <3>4. InEffect(d)
      <4>1. LET outcome == Classify(d, rows[d], server.key, boot) IN
            /\ outcome \in {"Disabled", "Unconfigured", "Failed", "RestartRequired", "Registered"}
            /\ outcome = "Disabled" <=> rows[d].status # "ACTIVE"
            /\ outcome = "Unconfigured" <=> rows[d].status = "ACTIVE" /\ rows[d].cred = None
        BY <3>2, ClassifyIs
      <4> HIDE DEF Classify
      <4> QED BY <3>2, <3>3, <4>1 DEF InEffect
    <3> QED BY <1>3, <3>4 DEF InEffect
  <2> QED BY <2>1, <2>2
<1> QED BY <1>7, <1>8, <1>9, <1>10 DEF ReloadInv

\* The process starts again on the store, or refuses it and runs nothing.
LEMMA RestartKeeps ==
  ASSUME ReloadInv, Restart
  PROVE  ReloadInv'
<1> USE DEF storeVars
<1>0. /\ ReloadTypeOK /\ AcceptedOK
  BY DEF ReloadInv
<1>1. PICK empty \in Tables : empty = [c \in Rows |-> [status |-> "ACTIVE", cred |-> None]]
  BY DEF Tables, TableRow
<1>2. PICK up \in BOOLEAN : up = ~NothingDecrypted(rows, configKey)
  OBVIOUS
<1>3. PICK table \in Tables : table = IF up THEN rows ELSE empty
  BY <1>0 DEF ReloadTypeOK
<1>4. PICK n \in Nat : n = passes + 1
  BY <1>0 DEF ReloadTypeOK
<1>5. PICK booted : booted = Boot(table, configKey, n)
  OBVIOUS
<1>6. /\ server' = [up |-> up, key |-> configKey]
      /\ registry' = booted.registry /\ handles' = booted.handles /\ tasks' = booted.tasks
      /\ passes' = n /\ armed' = {c \in Brokers : booted.registry[c] # None} /\ answered' = {}
      /\ UNCHANGED <<storeVars, failures>>
  BY <1>1, <1>2, <1>3, <1>4, <1>5 DEF Restart
<1>7. pass' = [step |-> "none", of |-> None, table |-> None, restart |-> {}, start |-> {}, stop |-> {}]
  BY DEF Restart, NoPass
<1>8. /\ request' \in [Requests -> RequestRow]
      /\ \A r \in Requests : request'[r].step # "test"
  <2>1. request' = [r \in Requests |-> IF request[r].step = "new" THEN request[r]
                                       ELSE Ended]
    BY DEF Restart
  <2>2. request \in [Requests -> RequestRow]
    BY <1>0 DEF ReloadTypeOK
  <2> QED BY <2>1, <2>2, EndedIs
<1>9. /\ booted.registry \in [Brokers -> {None} \cup Adapters]
      /\ booted.handles \in [Rows -> {None} \cup Adapters]
      /\ TasksAre(booted.tasks, booted.handles, booted.registry)
      /\ \A c \in Brokers \ OnFix : booted.handles[c] = booted.registry[c]
      /\ \A c \in Brokers : booted.registry[c] # None => table[c].status = "ACTIVE" /\ table[c].cred # None
  BY <1>5, BootIs
<1>10. \A c \in Brokers : registry'[c] # None => rows[c].status = "ACTIVE" /\ rows[c].cred # None
  BY <1>1, <1>3, <1>6, <1>9 DEF Rows
<1>11. ReloadTypeOK'
  BY <1>0, <1>6, <1>7, <1>8, <1>9 DEF ReloadTypeOK, PassSteps
<1>12. TasksOK' /\ FollowOK' /\ BuiltOK'
  BY <1>6, <1>7, <1>9 DEF TasksOK, FollowOK, BuiltOK
<1>13. SnapshotOK' /\ ArmedOK' /\ EffectOK' /\ AcceptedOK'
  BY <1>0, <1>6, <1>7, <1>10 DEF SnapshotOK, ArmedOK, EffectOK, AcceptedOK
<1> QED BY <1>11, <1>12, <1>13 DEF ReloadInv

LEMMA ReloadInvariant == ReloadSpec => []ReloadInv
<1>1. ReloadInit => ReloadInv
  BY ReloadInitInv
<1>2. ReloadInv /\ [ReloadNext]_reloadVars => ReloadInv'
  <2> SUFFICES ASSUME ReloadInv, [ReloadNext]_reloadVars PROVE ReloadInv'
    OBVIOUS
  <2>1. ASSUME NEW r \in Requests, RequestStep(r) PROVE ReloadInv'
    <3>1. Feed \in Rows /\ Brokers \subseteq Rows
      BY DEF Rows
    <3>2. \/ \E c \in Rows, sub \in Submissions : Submit(r, c, sub)
          \/ PutRefused(r) \/ ReloadRequest(r) \/ Disconnect(r)
          \/ \E c \in Rows : TestStored(r, c)
          \/ PutSave(r)
          \/ \E c \in Rows : Clear(r, c)
          \/ \E c \in Brokers, status \in {"ACTIVE", "DISABLED"} : UpdateStatus(r, c, status)
          \/ ReloadSnapshot(r)
      BY <2>1, <3>1 DEF RequestStep, PutBroker, PutFeed, DeleteBroker, DeleteFeed, TestBroker, TestFeed
    <3> QED BY <2>1, <3>2, RequestStepKeeps, WriteStepKeeps, SnapshotKeeps
  <2>2. ASSUME PassStep PROVE ReloadInv'
    BY <2>2, RefusedKeeps, SwapKeeps, BrokerStreamKeeps, FeedKeeps, AnswerKeeps DEF PassStep
  <2>3. ASSUME UNCHANGED reloadVars PROVE ReloadInv'
    <3> USE <2>3 DEF reloadVars, storeVars, memoryVars, history
    <3>1. ReloadTypeOK' /\ TasksOK' /\ FollowOK'
      BY DEF ReloadInv, ReloadTypeOK, TasksOK, FollowOK
    <3>2. BuiltOK' /\ SnapshotOK'
      BY DEF ReloadInv, BuiltOK, SnapshotOK
    <3>3. ArmedOK' /\ EffectOK' /\ AcceptedOK'
      BY DEF ReloadInv, ArmedOK, EffectOK, InEffect, AcceptedOK
    <3> QED BY <3>1, <3>2, <3>3 DEF ReloadInv
  <2> QED BY <2>1, <2>2, <2>3, RotationKeeps, RestartKeeps DEF ReloadNext
<1> QED BY <1>1, <1>2, PTL DEF ReloadSpec

\* reload.rs StreamRegistry, restart_exec_stream and stop_execution_stream: one
\* task for every code, and between passes the one of the adapter orders go to;
\* over FIX one session, and orders go to it or nowhere.
THEOREM StreamsSafe == ReloadSpec => []StreamFollowsAdapter
<1>1. ASSUME ReloadInv PROVE StreamFollowsAdapter
  <2>0. TasksAre(tasks, handles, registry) /\ FollowOK
    BY <1>1 DEF ReloadInv, TasksOK
  <2>1. {t \in tasks : t.row \notin OnFix} = {[row |-> c, of |-> handles[c]] : c \in {d \in Rows : handles[d] # None}}
    <3>1. ASSUME NEW t \in tasks, t.row \notin OnFix
          PROVE  \E c \in {d \in Rows : handles[d] # None} : t = [row |-> c, of |-> handles[c]]
      BY <2>0, <3>1, ReloadConstants DEF TasksAre
    <3>2. \A c \in {d \in Rows : handles[d] # None} :
             [row |-> c, of |-> handles[c]] \in tasks /\ [row |-> c, of |-> handles[c]].row \notin OnFix
      BY <2>0 DEF TasksAre
    <3> QED BY <3>1, <3>2
  <2>2. pass.step = "none" => \A c \in Brokers \ OnFix : handles[c] = registry[c]
    BY <2>0 DEF FollowOK
  <2> QED BY <2>0, <2>1, <2>2 DEF TasksAre, StreamFollowsAdapter
<1> QED BY ReloadInvariant, <1>1, PTL

\* reload.rs apply_reload, build_registry and the store's writers: what was
\* answered is in effect, what was armed stays armed, what is stored was tried.
THEOREM AnswersSafe == ReloadSpec => []AnsweredInEffect
<1>1. ReloadInv => AnsweredInEffect
  BY DEF ReloadInv, ArmedOK, EffectOK, AcceptedOK, AnsweredInEffect
<1> QED BY ReloadInvariant, <1>1, PTL

-----------------------------------------------------------------------------
(* Quantities that add up                                                  *)

(* Every set of natural numbers with 0 and, with n, n + 1 has them all.    *)
LEMMA Induction ==
  ASSUME NEW P, 0 \in P, \A n \in Nat : n \in P => n + 1 \in P
  PROVE  \A n \in Nat : n \in P
<1> DEFINE R == OpToRel(<, Nat)
           T == Nat \ P
<1>1. \A x, y \in Nat : x < y => <<x, y>> \in R
  BY DEF OpToRel
<1>2. IsWellFoundedOn(R, Nat)
  BY NatLessThanWellFounded
<1> HIDE DEF R
<1> SUFFICES ASSUME T # {} PROVE FALSE
  OBVIOUS
<1>3. PICK m \in T : \A y \in T : ~ (<<y, m>> \in R)
  BY <1>2, WFMin
<1>4. \A k \in T : ~ (k < m)
  BY <1>1, <1>3
<1>5. m # 0
  OBVIOUS
<1>6. m - 1 \in Nat /\ m - 1 \in P
  BY <1>4, <1>5
<1> QED
  BY <1>6

\* The running totals of the quantities v go from a to b.
Running(p, v, a, b) ==
  /\ p \in [0..Len(v) -> Int] /\ p[0] = a /\ p[Len(v)] = b
  /\ \A i \in 1..Len(v) : p[i] = p[i - 1] + v[i]

AddUp(v, a, b) == \E p : Running(p, v, a, b)

LEMMA NothingAddsUp ==
  ASSUME NEW v, Len(v) = 0, NEW a \in Int
  PROVE  AddUp(v, a, a)
<1> DEFINE p == [i \in 0..0 |-> a]
<1>1. p \in [0..0 -> Int] /\ p[0] = a
  OBVIOUS
<1>2. 1..0 = {}
  OBVIOUS
<1> QED
  BY <1>1, <1>2 DEF AddUp, Running

\* Of quantities that are not negative a is at most b; zeros leave it.
LEMMA AddUpBounds ==
  ASSUME NEW v \in Seq(Int), NEW a, NEW b, AddUp(v, a, b), \A i \in 1..Len(v) : v[i] >= 0
  PROVE  a \in Int /\ b \in Int /\ a <= b /\ ((\A i \in 1..Len(v) : v[i] = 0) => a = b)
<1>1. PICK p : Running(p, v, a, b)
  BY DEF AddUp
<1> DEFINE n == Len(v)
           zeros == \A i \in 1..n : v[i] = 0
           P == {k \in Nat : k <= n => a <= p[k] /\ (zeros => a = p[k])}
<1>2. n \in Nat /\ \A k \in 0..n : p[k] \in Int
  BY <1>1, SMTT(30) DEF Running
<1>3. a \in Int /\ b \in Int /\ p[0] = a /\ p[n] = b /\ \A i \in 1..n : p[i] = p[i - 1] + v[i]
  <2>1. 0 \in 0..n /\ n \in 0..n
    BY <1>2
  <2> QED
    BY <1>1, <1>2, <2>1 DEF Running
<1>4. 0 \in P
  BY <1>3
<1>5. ASSUME NEW k \in Nat, k \in P PROVE k + 1 \in P
  <2> SUFFICES ASSUME k + 1 <= n PROVE a <= p[k + 1] /\ (zeros => a = p[k + 1])
    OBVIOUS
  <2>1. k + 1 \in 1..n /\ (k + 1) - 1 = k /\ k \in 0..n
    BY <1>2
  <2>2. p[k + 1] = p[k] + v[k + 1] /\ v[k + 1] \in Int /\ v[k + 1] >= 0 /\ p[k] \in Int
    BY <1>2, <1>3, <2>1
  <2>3. a <= p[k] /\ (zeros => a = p[k])
    BY <1>2, <1>5, <2>1
  <2>4. zeros => v[k + 1] = 0
    BY <2>1
  <2> QED
    BY <1>3, <2>2, <2>3, <2>4, SMTT(30)
<1>6. \A k \in Nat : k \in P
  <2> HIDE DEF P
  <2> QED
    BY <1>4, <1>5, Induction
<1>7. n \in P /\ n <= n
  BY <1>2, <1>6
<1> QED
  BY <1>3, <1>7

\* One more at the end, and zeros after it.
LEMMA AddUpLonger ==
  ASSUME NEW v \in Seq(Int), NEW w \in Seq(Int), NEW a, NEW b, AddUp(v, a, b), NEW m \in Nat,
         m = Len(v) + 1, Len(w) >= m, \A i \in 1..Len(v) : w[i] = v[i],
         \A i \in (m + 1)..Len(w) : w[i] = 0
  PROVE  AddUp(w, a, b + w[m])
<1>1. PICK p : Running(p, v, a, b)
  BY DEF AddUp
<1> DEFINE n == Len(v)
           r == [k \in 0..Len(w) |-> IF k <= n THEN p[k] ELSE b + w[m]]
<1>2. n \in Nat /\ Len(w) \in Nat /\ m = n + 1 /\ m <= Len(w)
  OBVIOUS
<1>3. /\ p \in [0..n -> Int] /\ p[0] = a /\ p[n] = b
      /\ \A i \in 1..n : p[i] = p[i - 1] + v[i]
  BY <1>1 DEF Running
<1>4. w[m] \in Int /\ b \in Int
  <2>1. m \in 1..Len(w) /\ n \in 0..n
    BY <1>2
  <2>2. w[m] \in Int
    BY <2>1
  <2>3. p[n] \in Int
    BY <1>3, <2>1
  <2> QED
    BY <1>3, <2>2, <2>3
<1>5. r \in [0..Len(w) -> Int] /\ r[0] = a /\ r[Len(w)] = b + w[m]
  <2>1. \A k \in 0..Len(w) : k <= n => p[k] \in Int
    <3>1. \A k \in 0..Len(w) : k <= n => k \in 0..n
      BY <1>2
    <3> QED
      BY <1>3, <3>1
  <2>2. r \in [0..Len(w) -> Int]
    BY <1>4, <2>1
  <2>3. 0 \in 0..Len(w) /\ 0 <= n /\ Len(w) \in 0..Len(w) /\ ~ (Len(w) <= n)
    BY <1>2
  <2> QED
    BY <1>3, <2>2, <2>3
<1>6. ASSUME NEW i \in 1..Len(w) PROVE r[i] = r[i - 1] + w[i]
  <2>1. CASE i <= n
    <3>1. i \in 1..n /\ i - 1 \in 0..n /\ i \in 0..Len(w) /\ i - 1 \in 0..Len(w)
      BY <1>2, <2>1
    <3> QED
      BY <1>3, <2>1, <3>1
  <2>2. CASE i = m
    <3>1. i - 1 = n /\ n \in 0..Len(w) /\ i \in 0..Len(w) /\ ~ (i <= n)
      BY <1>2, <2>2
    <3> QED
      BY <1>3, <2>2, <3>1
  <2>3. CASE i > m
    <3>1. i \in (m + 1)..Len(w) /\ i \in 0..Len(w) /\ i - 1 \in 0..Len(w) /\ ~ (i <= n) /\ ~ (i - 1 <= n)
      BY <1>2, <2>3
    <3>2. w[i] = 0
      BY <3>1
    <3> QED
      BY <1>4, <3>1, <3>2
  <2> QED
    BY <1>2, <2>1, <2>2, <2>3
<1> QED
  BY <1>5, <1>6 DEF AddUp, Running

\* Whichever is taken out, the others go on from a with it.
LEMMA AddUpWithout ==
  ASSUME NEW v \in Seq(Int), NEW w \in Seq(Int), NEW a, NEW b, AddUp(v, a, b), NEW j \in 1..Len(v),
         Len(w) = Len(v) - 1, \A i \in 1..Len(w) : w[i] = IF i < j THEN v[i] ELSE v[i + 1]
  PROVE  AddUp(w, a + v[j], b)
<1>1. PICK p : Running(p, v, a, b)
  BY DEF AddUp
<1> DEFINE n == Len(v)
           r == [k \in 0..Len(w) |-> IF k < j THEN p[k] + v[j] ELSE p[k + 1]]
<1>2. n \in Nat /\ Len(w) = n - 1 /\ Len(w) \in Nat /\ 1 <= j /\ j <= n /\ j \in Nat
  OBVIOUS
<1>3. /\ p \in [0..n -> Int] /\ p[0] = a /\ p[n] = b
      /\ \A i \in 1..n : p[i] = p[i - 1] + v[i] /\ v[i] \in Int
  BY <1>1 DEF Running
<1>4. \A k \in 0..n : p[k] \in Int
  BY <1>3
<1>5. r \in [0..Len(w) -> Int]
  <2>1. \A k \in 0..Len(w) : k \in 0..n /\ k + 1 \in 0..n
    BY <1>2
  <2>2. v[j] \in Int
    BY <1>2, <1>3
  <2>3. \A k \in 0..Len(w) : p[k] + v[j] \in Int /\ p[k + 1] \in Int
    BY <1>4, <2>1, <2>2
  <2> QED
    BY <2>3
<1>6. r[0] = a + v[j]
  BY <1>2, <1>3
<1>7. r[Len(w)] = b
  <2>1. CASE j = n
    <3>1. p[n] = p[n - 1] + v[n]
      BY <1>2, <1>3
    <3>2. n - 1 \in 0..Len(w) /\ n - 1 < j
      BY <1>2, <2>1
    <3> QED
      BY <1>2, <1>3, <2>1, <3>1, <3>2
  <2>2. CASE j # n
    <3>1. Len(w) \in 0..Len(w) /\ ~ (Len(w) < j) /\ Len(w) + 1 = n
      BY <1>2, <2>2
    <3> QED
      BY <1>3, <3>1
  <2> QED
    BY <2>1, <2>2
<1>8. ASSUME NEW i \in 1..Len(w) PROVE r[i] = r[i - 1] + w[i]
  <2>1. /\ i \in 1..n /\ i + 1 \in 1..n /\ (i + 1) - 1 = i /\ i \in 0..Len(w) /\ i - 1 \in 0..Len(w)
        /\ i - 1 \in 0..n /\ i \in 0..n /\ (i - 1) + 1 = i /\ i + 1 \in 0..n
    <3>1. i \in Int /\ 1 <= i /\ i <= n - 1 /\ n \in Int /\ Len(w) = n - 1
      BY <1>2
    <3>2. \A k, m \in Int : 1 <= k /\ k <= m - 1 =>
            /\ k \in 1..m /\ k + 1 \in 1..m /\ (k + 1) - 1 = k /\ k \in 0..(m - 1) /\ k - 1 \in 0..(m - 1)
            /\ k - 1 \in 0..m /\ k \in 0..m /\ (k - 1) + 1 = k /\ k + 1 \in 0..m
      OBVIOUS
    <3> HIDE DEF n
    <3> QED
      BY <3>1, <3>2
  <2>2. /\ p[i] = p[i - 1] + v[i] /\ p[i + 1] = p[i] + v[i + 1]
        /\ p[i] \in Int /\ p[i - 1] \in Int /\ p[i + 1] \in Int
        /\ v[i] \in Int /\ v[i + 1] \in Int /\ v[j] \in Int
    BY <1>2, <1>3, <1>4, <2>1
  <2>3. CASE i < j
    <3>1. i - 1 < j
      BY <1>2, <2>3
    <3>2. r[i] = p[i] + v[j] /\ r[i - 1] = p[i - 1] + v[j] /\ w[i] = v[i]
      BY <2>1, <2>3, <3>1
    <3>3. \A x, y, z \in Int : (x + y) + z = (x + z) + y
      OBVIOUS
    <3>4. (p[i - 1] + v[i]) + v[j] = (p[i - 1] + v[j]) + v[i]
      BY <2>2, <3>3, SMTT(30)
    <3> HIDE DEF r
    <3> QED
      BY <2>2, <3>2, <3>4
  <2>4. CASE i = j
    <3>1. ~ (i < j) /\ i - 1 < j
      BY <1>2, <2>4
    <3>2. r[i] = p[i + 1] /\ r[i - 1] = p[i - 1] + v[j] /\ w[i] = v[i + 1]
      BY <2>1, <3>1
    <3>3. v[j] = v[i]
      BY <2>4
    <3> HIDE DEF r
    <3> QED
      BY <2>2, <3>2, <3>3
  <2>5. CASE i > j
    <3>1. ~ (i < j) /\ ~ (i - 1 < j)
      BY <1>2, <2>5, SMTT(30)
    <3>2. r[i] = p[i + 1] /\ r[i - 1] = p[i] /\ w[i] = v[i + 1]
      BY <2>1, <3>1
    <3> HIDE DEF r
    <3> QED
      BY <2>2, <3>2
  <2> QED
    BY <1>2, <2>3, <2>4, <2>5
<1> QED
  BY <1>5, <1>6, <1>7, <1>8 DEF AddUp, Running

-----------------------------------------------------------------------------
(* RestConnectors                                                          *)

Statuses == {"absent", "new", "partial"} \cup Closed

PushRecord == [topic : {"order", "execution"}, status : Statuses, qty : Nat, cum : Nat]

\* The order at the venue.
HeldOK ==
  /\ broker \in {"ALPACA", "BINANCE", "BYBIT", "COINBASE", "OKX"}
  /\ held \in [status : Statuses, exec : 0..Lots, tif : {"none", "day", "ioc", "gtc"}]
  /\ held.status = "absent" => held.exec = 0
  /\ held.status = "filled" <=> held.exec = Lots
  /\ held.status = "forgotten" => held.exec = 0

\* What submit_order makes of the answer.
SubmitOK ==
  /\ submit.pc \in {"idle", "sent", "answered", "done"}
  /\ DOMAIN submit = {"pc", "answer", "verdict"}
  /\ submit.verdict \in {"none", "named", "accepted", "rejected", "unknown"}
  /\ submit.pc # "done" => submit.verdict = "none"
  /\ submit.verdict = "rejected" => held.status = "absent" \/ Misread(submit.answer)
  /\ submit.pc = "answered" /\ Verdict(submit.answer) = "rejected" =>
       held.status = "absent" \/ Misread(submit.answer)
  /\ held.status # "absent" => submit.pc \in {"answered", "done"}

\* A push says what was so; one that says "over" is the last with a trade.
PushesOK ==
  /\ pushes \in Seq(PushRecord)
  /\ \A i \in 1..Len(pushes) :
       /\ pushes[i].qty <= pushes[i].cum /\ pushes[i].cum <= held.exec
       /\ pushes[i].status \in Closed => held.status \in Closed /\ pushes[i].cum = held.exec
       /\ broker = "BYBIT" /\ pushes[i].topic = "order" => pushes[i].qty = 0
       /\ pushes[i].status \in Closed => \A j \in (i + 1)..Len(pushes) : pushes[j].qty = 0

\* The quantities of pushes not yet read.
Unread(s) == [i \in 1..Len(s) |-> s[i].qty]

\* The connectors that tell fills, and not how much was executed in all.
TellsFills == broker \in {"ALPACA", "BINANCE", "BYBIT"}

\* What the engine was told is so.  Until a close, fills told or lost and fills
\* on their way are what was executed.
ToldOK ==
  /\ told \in [fills : Nat, cum : Nat, lost : Nat,
               close : {"none", "filled", "never", "bare", "terminal"}]
  /\ told.fills <= held.exec /\ told.cum <= held.exec
  /\ told.close = "filled" => held.status = "filled"
  /\ told.close = "never" => held.status \in {"absent", "forgotten"} /\ submit.pc = "done"
  /\ told.close = "terminal" => held.status \in Closed /\ told.cum = held.exec
  /\ told.close = "bare" => /\ held.status \in Closed /\ told.fills + told.lost = held.exec
                            /\ \A i \in 1..Len(pushes) : pushes[i].qty = 0
  /\ TellsFills /\ told.close = "none" => AddUp(Unread(pushes), told.fills + told.lost, held.exec)
  /\ ~ TellsFills => told.close \notin {"filled", "bare"} /\ told.fills = 0

RestInv == HeldOK /\ SubmitOK /\ PushesOK /\ ToldOK

LEMMA RestInvIs == RestInv => RestVerdictsTrue
  BY DEF RestInv, HeldOK, SubmitOK, PushesOK, ToldOK, RestVerdictsTrue

LEMMA UnreadType ==
  ASSUME NEW s \in Seq(PushRecord)
  PROVE  /\ Unread(s) \in Seq(Int) /\ Len(Unread(s)) = Len(s) /\ Len(s) \in Nat
         /\ \A i \in 1..Len(s) : Unread(s)[i] = s[i].qty /\ s[i] \in PushRecord /\ s[i].qty \in Nat
<1>1. \A i \in 1..Len(s) : s[i] \in PushRecord /\ s[i].qty \in Nat
  <2>1. \A i \in 1..Len(s) : s[i] \in PushRecord
    OBVIOUS
  <2> QED
    BY <2>1 DEF PushRecord
<1>2. Len(s) \in Nat
  OBVIOUS
<1>3. Unread(s) \in [1..Len(s) -> Int]
  BY <1>1 DEF Unread
<1>4. Unread(s) \in Seq(Int)
  BY <1>2, <1>3
<1>5. Len(Unread(s)) = Len(s)
  BY <1>2, <1>3
<1> QED
  BY <1>1, <1>2, <1>4, <1>5 DEF Unread

LEMMA RestInvInit == RestInit => RestInv
<1> SUFFICES ASSUME RestInit PROVE RestInv
  OBVIOUS
<1>1. Lots \in Nat \ {0} /\ broker \in {"ALPACA", "BINANCE", "BYBIT", "COINBASE", "OKX"}
  BY RestAssumption DEF RestInit
<1>2. HeldOK
  BY <1>1 DEF RestInit, HeldOK, Statuses, Closed
<1>3. SubmitOK
  BY DEF RestInit, SubmitOK
<1>4. PushesOK
  BY DEF RestInit, PushesOK
<1>5. AddUp(Unread(pushes), 0, 0)
  <2>1. pushes = <<>> /\ pushes \in Seq(PushRecord) /\ Len(pushes) = 0
    BY DEF RestInit
  <2>2. Len(Unread(pushes)) = 0
    BY <2>1, UnreadType
  <2> QED
    BY <2>2, NothingAddsUp
<1>6. ToldOK
  BY <1>1, <1>5 DEF RestInit, ToldOK, NothingTold, HeldOK
<1> QED
  BY <1>2, <1>3, <1>4, <1>6 DEF RestInv

\* Of the order the stream and the sweep's listing change nothing.
LEMMA RestInvStays ==
  RestInv /\ UNCHANGED <<broker, held, pushes, submit, told>> => RestInv'
<1> SUFFICES ASSUME RestInv, UNCHANGED <<broker, held, pushes, submit, told>> PROVE RestInv'
  OBVIOUS
<1>1. \A a : Verdict(a)' = Verdict(a) /\ Misread(a)' = Misread(a)
  BY DEF Misread, Verdict, AlpacaVerdict, BinanceVerdict, BybitVerdict, CoinbaseVerdict, OkxVerdict
<1> QED
  BY <1>1 DEF RestInv, HeldOK, SubmitOK, PushesOK, ToldOK, TellsFills

\* What submit_order does, and the venue's taking of the order.
LEMMA SubmitKeeps ==
  RestInv /\ (VenueTakes \/ SubmitAnswered \/ \E r : SubmitOrder(r) /\ r.tif \in {"day", "ioc"})
    => RestInv'
<1> SUFFICES ASSUME RestInv,
                    VenueTakes \/ SubmitAnswered \/ \E r : SubmitOrder(r) /\ r.tif \in {"day", "ioc"}
             PROVE  RestInv'
  OBVIOUS
<1>1. HeldOK /\ SubmitOK /\ PushesOK /\ ToldOK
  BY DEF RestInv
<1>2. broker' = broker /\ pushes' = pushes /\ told' = told
  BY DEF VenueTakes, SubmitAnswered, SubmitOrder
<1>3. \A a : Verdict(a)' = Verdict(a) /\ Misread(a)' = Misread(a)
  BY <1>2 DEF Misread, Verdict, AlpacaVerdict, BinanceVerdict, BybitVerdict, CoinbaseVerdict, OkxVerdict
<1>4. CASE \E r : SubmitOrder(r) /\ r.tif \in {"day", "ioc"}
  <2>1. PICK r : SubmitOrder(r) /\ r.tif \in {"day", "ioc"}
    BY <1>4
  <2>2. /\ submit.pc = "idle" /\ held.status = "absent" /\ submit.verdict = "none"
        /\ held'.status = held.status /\ held'.exec = held.exec
        /\ held' = [held EXCEPT !.tif = Life(r)]
    BY <1>1, <2>1 DEF SubmitOrder, HeldOK, SubmitOK
  <2>3. Life(r) \in {"none", "day", "ioc", "gtc"}
    BY <2>1 DEF Life, AlpacaLife, CryptoLife
  <2>4. HeldOK'
    BY <1>1, <1>2, <2>2, <2>3 DEF HeldOK
  <2>5. SubmitOK'
    BY <1>1, <2>1, <2>2 DEF SubmitOrder, SubmitOK
  <2>6. PushesOK'
    BY <1>1, <1>2, <2>2 DEF PushesOK
  <2>7. ToldOK'
    BY <1>1, <1>2, <2>1, <2>2, <2>5 DEF ToldOK, TellsFills
  <2> QED
    BY <2>4, <2>5, <2>6, <2>7 DEF RestInv
<1>5. CASE VenueTakes
  <2>1. submit.pc = "sent" /\ held.status = "absent" /\ submit.verdict = "none"
    BY <1>1, <1>5 DEF VenueTakes, SubmitOK
  <2>2. PICK a : /\ submit' = [submit EXCEPT !.pc = "answered", !.answer = a]
                 /\ \/ a \in TakenAnswers /\ held' = [held EXCEPT !.status = "new"]
                    \/ held' = held
    BY <1>5 DEF VenueTakes
  <2>3. submit'.pc = "answered" /\ submit'.answer = a /\ submit'.verdict = "none" /\ DOMAIN submit' = DOMAIN submit
    BY <1>1, <2>1, <2>2 DEF SubmitOK
  <2>4. a \in TakenAnswers => Verdict(a) # "rejected" \/ Misread(a)
    <3> SUFFICES ASSUME a \in TakenAnswers PROVE Verdict(a) # "rejected" \/ Misread(a)
      OBVIOUS
    <3>1. broker = "ALPACA" => AlpacaVerdict(a) # "rejected"
      BY DEF TakenAnswers, Undecided, AlpacaVerdict, HttpFailure
    <3>2. broker = "BINANCE" => BinanceVerdict(a) # "rejected"
      BY DEF TakenAnswers, Undecided, BinanceVerdict, HttpFailure
    <3>3. broker = "BYBIT" => BybitVerdict(a) # "rejected" \/ Misread(a)
      BY DEF TakenAnswers, Undecided, BybitVerdict, Misread
    <3>4. broker = "COINBASE" => CoinbaseVerdict(a) # "rejected" \/ Misread(a)
      BY DEF TakenAnswers, Undecided, CoinbaseVerdict, HttpFailure, Misread
    <3>5. broker = "OKX" => OkxVerdict(a) # "rejected" \/ Misread(a)
      BY DEF TakenAnswers, Undecided, OkxVerdict, Misread
    <3> QED
      BY <1>1, <3>1, <3>2, <3>3, <3>4, <3>5 DEF Verdict, HeldOK
  <2>5. /\ held'.exec = held.exec /\ held'.tif = held.tif /\ held.exec = 0 /\ held'.exec # Lots
        /\ held'.status \in {"absent", "new"} /\ (held'.status = "new" => a \in TakenAnswers)
        /\ held' \in [status : Statuses, exec : 0..Lots, tif : {"none", "day", "ioc", "gtc"}]
    BY <1>1, <2>1, <2>2, RestAssumption DEF HeldOK, Statuses
  <2>6. HeldOK'
    BY <1>1, <1>2, <2>5 DEF HeldOK
  <2>7. SubmitOK'
    BY <1>1, <1>3, <2>1, <2>3, <2>4, <2>5 DEF SubmitOK
  <2>8. \A i \in 1..Len(pushes) : pushes[i].status \notin Closed
    BY <1>1, <2>1 DEF PushesOK, Closed
  <2>9. PushesOK'
    BY <1>1, <1>2, <2>5, <2>8 DEF PushesOK
  <2>10. told.close = "none" \/ told.close = "filled"
    BY <1>1, <2>1 DEF ToldOK, Closed
  <2>11. told.close = "none"
    BY <1>1, <2>1, <2>10 DEF ToldOK
  <2>12. ToldOK'
    BY <1>1, <1>2, <2>1, <2>5, <2>11 DEF ToldOK, TellsFills
  <2> QED
    BY <2>6, <2>7, <2>9, <2>12 DEF RestInv
<1>6. CASE SubmitAnswered
  <2>1. held' = held /\ submit.pc = "answered" /\ submit'.pc = "done" /\ DOMAIN submit' = DOMAIN submit
        /\ submit'.verdict \in {"named", Verdict(submit.answer)} /\ submit'.answer = submit.answer
    BY <1>1, <1>6 DEF SubmitAnswered, SubmitOK
  <2>2. Verdict(submit.answer) \in {"accepted", "rejected", "unknown"}
    BY DEF Verdict, AlpacaVerdict, BinanceVerdict, BybitVerdict, CoinbaseVerdict, OkxVerdict, HttpFailure
  <2>3. SubmitOK'
    BY <1>1, <1>3, <2>1, <2>2 DEF SubmitOK
  <2>4. HeldOK' /\ PushesOK'
    BY <1>1, <1>2, <2>1 DEF HeldOK, PushesOK
  <2>5. ToldOK'
    BY <1>1, <1>2, <2>1 DEF ToldOK, TellsFills
  <2> QED
    BY <2>3, <2>4, <2>5 DEF RestInv
<1> QED
  BY <1>4, <1>5, <1>6

\* What the venue pushes: the first may be a trade, the others are not.
LEMMA PushedKeeps ==
  ASSUME RestInv, HeldOK', held.status \in Open, UNCHANGED <<broker, submit, told>>,
         NEW more \in Seq(PushRecord), pushes' = pushes \o more, Len(more) >= 1,
         held'.status # "absent", NEW q \in Nat, held'.exec = held.exec + q,
         \A i \in 1..Len(more) : /\ more[i].status = held'.status /\ more[i].cum = held'.exec
                                 /\ more[i].qty = IF i = 1 THEN q ELSE 0
                                 /\ broker = "BYBIT" /\ more[i].topic = "order" => more[i].qty = 0
  PROVE  RestInv'
<1>1. HeldOK /\ SubmitOK /\ PushesOK /\ ToldOK
  BY DEF RestInv
<1>2. /\ held.exec \in Nat /\ held'.exec \in Nat /\ held.exec <= held'.exec
      /\ held.status \notin Closed /\ held.status # "absent" /\ held.status # "forgotten"
  BY <1>1 DEF HeldOK, Open, Closed
<1> DEFINE n == Len(pushes)
<1>3. /\ n \in Nat /\ Len(more) \in Nat /\ Len(pushes') = n + Len(more) /\ pushes' \in Seq(PushRecord)
      /\ \A i \in 1..n : i \in 1..Len(pushes') /\ pushes'[i] = pushes[i]
      /\ \A i \in 1..Len(pushes') : i \notin 1..n => i - n \in 1..Len(more) /\ pushes'[i] = more[i - n]
  BY <1>1 DEF PushesOK
<1> HIDE DEF n
<1>4. SubmitOK'
  <2>1. \A a : Verdict(a)' = Verdict(a) /\ Misread(a)' = Misread(a)
    BY DEF Misread, Verdict, AlpacaVerdict, BinanceVerdict, BybitVerdict, CoinbaseVerdict, OkxVerdict
  <2> QED
    BY <1>1, <1>2, <2>1 DEF SubmitOK
<1>5. \A i \in 1..n : pushes[i].status \notin Closed
  BY <1>1, <1>2 DEF PushesOK, n
<1>6. ASSUME NEW i \in 1..Len(pushes')
      PROVE  /\ pushes'[i].qty <= pushes'[i].cum /\ pushes'[i].cum <= held'.exec
             /\ pushes'[i].status \in Closed => held'.status \in Closed /\ pushes'[i].cum = held'.exec
             /\ broker' = "BYBIT" /\ pushes'[i].topic = "order" => pushes'[i].qty = 0
             /\ pushes'[i].status \in Closed => \A j \in (i + 1)..Len(pushes') : pushes'[j].qty = 0
  <2>1. CASE i \in 1..n
    <3>1. pushes'[i] = pushes[i] /\ pushes[i].status \notin Closed
      BY <1>3, <1>5, <2>1
    <3>2. /\ pushes[i].qty <= pushes[i].cum /\ pushes[i].cum <= held.exec
          /\ pushes[i].cum \in Nat
          /\ broker = "BYBIT" /\ pushes[i].topic = "order" => pushes[i].qty = 0
      BY <1>1, <2>1, UnreadType DEF PushesOK, PushRecord, n
    <3> QED
      BY <1>2, <3>1, <3>2
  <2>2. CASE i \notin 1..n
    <3>1. i - n \in 1..Len(more) /\ pushes'[i] = more[i - n]
      BY <1>3, <2>2
    <3>2. /\ pushes'[i].status = held'.status /\ pushes'[i].cum = held'.exec
          /\ pushes'[i].qty <= held'.exec
          /\ broker' = "BYBIT" /\ pushes'[i].topic = "order" => pushes'[i].qty = 0
      BY <1>2, <3>1, SMTT(30)
    <3>3. ASSUME NEW j \in (i + 1)..Len(pushes') PROVE pushes'[j].qty = 0
      <4>1. j \notin 1..n /\ j \in 1..Len(pushes') /\ j - n # 1 /\ j - n \in 1..Len(more)
        BY <1>3, <3>1
      <4> QED
        BY <1>3, <4>1
    <3> QED
      BY <1>2, <3>2, <3>3
  <2> QED
    BY <2>1, <2>2
<1>7. PushesOK'
  BY <1>3, <1>6 DEF PushesOK
<1>8. told.close \in {"none", "filled"}
  BY <1>1, <1>2 DEF ToldOK
<1>9. told.close = "none"
  BY <1>1, <1>2, <1>8 DEF ToldOK, Closed
<1>10. ASSUME TellsFills PROVE AddUp(Unread(pushes'), told.fills + told.lost, held'.exec)
  <2>1. AddUp(Unread(pushes), told.fills + told.lost, held.exec)
    BY <1>1, <1>9, <1>10 DEF ToldOK
  <2> DEFINE v == Unread(pushes)
             w == Unread(pushes')
  <2>2. v \in Seq(Int) /\ Len(v) = n /\ \A i \in 1..n : v[i] = pushes[i].qty
    BY <1>1, UnreadType DEF PushesOK, n
  <2>3. /\ w \in Seq(Int) /\ Len(w) = Len(pushes')
        /\ \A i \in 1..Len(pushes') : w[i] = pushes'[i].qty
    BY <1>3, UnreadType
  <2> HIDE DEF v, w
  <2>4. n + 1 \in 1..Len(pushes') /\ n + 1 \notin 1..n /\ (n + 1) - n = 1 /\ n + 1 \in Nat
        /\ 1 \in 1..Len(more)
    BY <1>3
  <2>5. w[n + 1] = q
    <3>1. pushes'[n + 1] = more[(n + 1) - n]
      BY <1>3, <2>4
    <3>2. pushes'[n + 1].qty = q
      BY <2>4, <3>1
    <3> QED
      BY <2>3, <2>4, <3>2
  <2>6. ASSUME NEW i \in 1..n PROVE w[i] = v[i]
    <3>1. i \in 1..Len(pushes') /\ pushes'[i] = pushes[i]
      BY <1>3
    <3>2. w[i] = pushes'[i].qty
      BY <2>3, <3>1
    <3> QED
      BY <2>2, <3>1, <3>2
  <2>7. ASSUME NEW i \in ((n + 1) + 1)..Len(pushes') PROVE w[i] = 0
    <3>1. i \in 1..Len(pushes') /\ i \notin 1..n /\ i - n # 1
      BY <1>3
    <3>2. i - n \in 1..Len(more) /\ pushes'[i] = more[i - n]
      BY <1>3, <3>1
    <3>3. more[i - n].qty = 0
      BY <3>1, <3>2
    <3> QED
      BY <2>3, <3>1, <3>2, <3>3
  <2>8. Len(w) >= n + 1
    BY <1>3, <2>3, <2>4
  <2>9. AddUp(v, told.fills + told.lost, held.exec)
    BY <2>1 DEF v
  <2>10. AddUp(w, told.fills + told.lost, held.exec + w[n + 1])
    BY <2>2, <2>3, <2>4, <2>6, <2>7, <2>8, <2>9, AddUpLonger, ZenonT(40)
  <2> QED
    BY <2>5, <2>10 DEF w
<1>11. ToldOK'
  <2>1. /\ told' = told /\ broker' = broker /\ told.fills \in Nat /\ told.cum \in Nat
        /\ told.fills <= held'.exec /\ told.cum <= held'.exec
    BY <1>1, <1>2 DEF ToldOK
  <2> QED
    BY <1>1, <1>9, <1>10, <2>1 DEF ToldOK, TellsFills
<1> QED
  BY <1>4, <1>7, <1>11 DEF RestInv

\* The venue trades, closes the order, or forgets it.
LEMMA VenueKeeps ==
  RestInv /\ (VenueTradesLots \/ VenueEnds \/ VenueForgets) => RestInv'
<1> SUFFICES ASSUME RestInv, VenueTradesLots \/ VenueEnds \/ VenueForgets PROVE RestInv'
  OBVIOUS
<1>1. HeldOK /\ SubmitOK /\ PushesOK /\ ToldOK
  BY DEF RestInv
<1>2. UNCHANGED <<broker, submit, told>> /\ Lots \in Nat \ {0} /\ held.exec \in 0..Lots
  <2>1. UNCHANGED <<broker, submit, told>>
    BY DEF VenueTradesLots, VenueEnds, VenueForgets
  <2> QED
    BY <1>1, <2>1, RestAssumption DEF HeldOK
<1>3. CASE VenueTradesLots
  <2>1. PICK q \in 1..(Lots - held.exec) :
          /\ held' = [held EXCEPT !.exec = @ + q,
                                  !.status = IF held.exec + q = Lots THEN "filled" ELSE "partial"]
          /\ pushes' = pushes \o PushTrade(q)
    BY <1>3 DEF VenueTradesLots
  <2>2. held.status \in Open /\ q \in Nat /\ held.exec + q \in 0..Lots /\ held.exec + q # 0
    <3>1. held.status \in Open
      BY <1>3 DEF VenueTradesLots
    <3>2. q \in Nat /\ held.exec + q \in 0..Lots /\ held.exec + q # 0
      BY <1>2
    <3> QED
      BY <3>1, <3>2
  <2>3. /\ held'.exec = held.exec + q /\ held'.tif = held.tif
        /\ held'.status = IF held.exec + q = Lots THEN "filled" ELSE "partial"
        /\ held' \in [status : Statuses, exec : 0..Lots, tif : {"none", "day", "ioc", "gtc"}]
    BY <1>1, <2>1, <2>2 DEF HeldOK, Statuses, Closed
  <2>4. HeldOK'
    BY <1>1, <1>2, <2>2, <2>3 DEF HeldOK
  <2> DEFINE more == PushTrade(q)
  <2>5. /\ more \in Seq(PushRecord) /\ Len(more) >= 1
        /\ \A i \in 1..Len(more) : /\ more[i].status = held'.status /\ more[i].cum = held'.exec
                                   /\ more[i].qty = IF i = 1 THEN q ELSE 0
                                   /\ broker = "BYBIT" /\ more[i].topic = "order" => more[i].qty = 0
    <3> DEFINE a == Push("execution", q)
               b == Push("order", 0)
               c == Push("order", q)
    <3>1. held'.status \in Statuses /\ held'.exec \in Nat
      BY <2>3
    <3>2. /\ a \in PushRecord /\ b \in PushRecord /\ c \in PushRecord
          /\ a.status = held'.status /\ b.status = held'.status /\ c.status = held'.status
          /\ a.cum = held'.exec /\ b.cum = held'.exec /\ c.cum = held'.exec
          /\ a.qty = q /\ b.qty = 0 /\ c.qty = q /\ a.topic = "execution"
      BY <2>2, <3>1 DEF Push, PushRecord
    <3> HIDE DEF a, b, c
    <3>3. CASE broker = "BYBIT"
      <4>1. more = <<a, b>>
        BY <3>3 DEF PushTrade, a, b
      <4> QED
        BY <3>2, <4>1
    <3>4. CASE broker # "BYBIT"
      <4>1. more = <<c>>
        BY <3>4 DEF PushTrade, c
      <4> QED
        BY <3>2, <3>4, <4>1
    <3> QED
      BY <3>3, <3>4
  <2>6. held'.status # "absent"
    BY <2>3
  <2> HIDE DEF more
  <2> QED
    BY <1>2, <2>1, <2>2, <2>3, <2>4, <2>5, <2>6, PushedKeeps DEF more
<1>4. CASE VenueEnds
  <2>1. PICK s \in Endings : held' = [held EXCEPT !.status = s]
    BY <1>4 DEF VenueEnds
  <2>2. s \in {"canceled", "rejected", "expired"}
    BY <2>1 DEF Endings
  <2>3. held.status \in Open /\ pushes' = Append(pushes, Push("order", 0))
    BY <1>4 DEF VenueEnds
  <2>4. /\ held'.exec = held.exec /\ held'.tif = held.tif /\ held'.status = s
        /\ held' \in [status : Statuses, exec : 0..Lots, tif : {"none", "day", "ioc", "gtc"}]
    BY <1>1, <2>1, <2>2 DEF HeldOK, Statuses, Closed
  <2>5. HeldOK'
    BY <1>1, <1>2, <2>2, <2>3, <2>4 DEF HeldOK, Open
  <2> DEFINE more == <<Push("order", 0)>>
  <2>6. Push("order", 0) \in PushRecord
    BY <2>4 DEF Push, PushRecord
  <2>7. /\ more \in Seq(PushRecord) /\ Len(more) >= 1
        /\ \A i \in 1..Len(more) : /\ more[i].status = held'.status /\ more[i].cum = held'.exec
                                   /\ more[i].qty = IF i = 1 THEN 0 ELSE 0
                                   /\ broker = "BYBIT" /\ more[i].topic = "order" => more[i].qty = 0
    BY <2>6 DEF Push
  <2>8. pushes' = pushes \o more
    BY <1>1, <2>3, <2>6 DEF PushesOK
  <2>9. held'.status # "absent" /\ held'.exec = held.exec + 0 /\ 0 \in Nat
    BY <1>2, <2>2, <2>4
  <2> HIDE DEF more
  <2> QED
    BY <1>2, <2>3, <2>5, <2>7, <2>8, <2>9, PushedKeeps
<1>5. CASE VenueForgets
  <2>1. /\ held.status = "canceled" /\ held.exec = 0 /\ held'.status = "forgotten" /\ held'.exec = 0
        /\ held' \in [status : Statuses, exec : 0..Lots, tif : {"none", "day", "ioc", "gtc"}]
        /\ pushes' = pushes
    BY <1>1, <1>5 DEF VenueForgets, HeldOK, Statuses, Closed
  <2>2. HeldOK'
    BY <1>1, <1>2, <2>1 DEF HeldOK
  <2>3. SubmitOK'
    <3>1. \A a : Verdict(a)' = Verdict(a) /\ Misread(a)' = Misread(a)
      BY <1>2 DEF Misread, Verdict, AlpacaVerdict, BinanceVerdict, BybitVerdict, CoinbaseVerdict, OkxVerdict
    <3> QED
      BY <1>1, <1>2, <2>1, <3>1 DEF SubmitOK
  <2>4. PushesOK'
    BY <1>1, <1>2, <2>1 DEF PushesOK, Closed
  <2>5. ToldOK'
    BY <1>1, <1>2, <2>1 DEF ToldOK, TellsFills, Closed
  <2> QED
    BY <2>2, <2>3, <2>4, <2>5 DEF RestInv
<1> QED
  BY <1>3, <1>4, <1>5

\* What is left of the pushes when one of them is out.
LEMMA PushOut ==
  ASSUME PushesOK, NEW j \in 1..Len(pushes), UNCHANGED <<broker, held>>,
         pushes' = RemoveAt(pushes, j)
  PROVE  /\ PushesOK'
         /\ \A a, b : AddUp(Unread(pushes), a, b) => AddUp(Unread(pushes'), a + pushes[j].qty, b)
         /\ \A i \in 1..Len(pushes') : \E k \in 1..Len(pushes) : k # j /\ pushes'[i] = pushes[k]
         /\ j = 1 => \A i \in 1..Len(pushes') : pushes'[i] = pushes[i + 1] /\ i + 1 \in 2..Len(pushes)
<1> DEFINE n == Len(pushes)
<1>1. n \in Nat /\ j \in Nat /\ 1 <= j /\ j <= n /\ pushes \in Seq(PushRecord)
  BY DEF PushesOK
<1>2. /\ pushes' \in Seq(PushRecord) /\ Len(pushes') = n - 1
      /\ \A i \in 1..(n - 1) : pushes'[i] = IF i < j THEN pushes[i] ELSE pushes[i + 1]
  <2>1. /\ SubSeq(pushes, 1, j - 1) \in Seq(PushRecord) /\ Len(SubSeq(pushes, 1, j - 1)) = j - 1
        /\ \A i \in 1..(j - 1) : SubSeq(pushes, 1, j - 1)[i] = pushes[i]
    BY <1>1
  <2>2. /\ SubSeq(pushes, j + 1, n) \in Seq(PushRecord) /\ Len(SubSeq(pushes, j + 1, n)) = n - j
        /\ \A i \in 1..(n - j) : SubSeq(pushes, j + 1, n)[i] = pushes[j + i]
    BY <1>1
  <2>3. pushes' = SubSeq(pushes, 1, j - 1) \o SubSeq(pushes, j + 1, n)
    BY DEF RemoveAt
  <2> DEFINE s == SubSeq(pushes, 1, j - 1)
             t == SubSeq(pushes, j + 1, n)
  <2> HIDE DEF s, t, n
  <2>4. /\ s \o t \in Seq(PushRecord) /\ Len(s \o t) = n - 1
        /\ \A i \in 1..(n - 1) : (s \o t)[i] = IF i <= j - 1 THEN s[i] ELSE t[i - (j - 1)]
    BY <1>1, <2>1, <2>2 DEF s, t
  <2>5. ASSUME NEW i \in 1..(n - 1) PROVE (s \o t)[i] = IF i < j THEN pushes[i] ELSE pushes[i + 1]
    <3>1. CASE i < j
      <4>1. i \in 1..(j - 1) /\ i <= j - 1
        BY <1>1, <3>1
      <4> QED
        BY <2>1, <2>4, <3>1, <4>1 DEF s
    <3>2. CASE ~ (i < j)
      <4>1. i - (j - 1) \in 1..(n - j) /\ j + (i - (j - 1)) = i + 1 /\ ~ (i <= j - 1)
        BY <1>1, <3>2
      <4> QED
        BY <2>2, <2>4, <3>2, <4>1 DEF t
    <3> QED
      BY <3>1, <3>2
  <2> QED
    BY <2>3, <2>4, <2>5 DEF s, t
<1> HIDE DEF n
<1>3. ASSUME NEW i \in 1..Len(pushes')
      PROVE  \E k \in 1..n : /\ k # j /\ pushes'[i] = pushes[k]
                             /\ \A h \in (i + 1)..Len(pushes') :
                                  \E m \in (k + 1)..n : pushes'[h] = pushes[m]
  <2>1. i \in Nat /\ 1 <= i /\ i <= n - 1 /\ i \in 1..(n - 1)
    BY <1>1, <1>2
  <2> DEFINE k == IF i < j THEN i ELSE i + 1
  <2>2. k \in 1..n /\ k # j /\ pushes'[i] = pushes[k]
    BY <1>1, <1>2, <2>1
  <2>3. ASSUME NEW h \in (i + 1)..Len(pushes') PROVE \E m \in (k + 1)..n : pushes'[h] = pushes[m]
    <3> DEFINE m == IF h < j THEN h ELSE h + 1
    <3>1. h \in 1..(n - 1) /\ m \in (k + 1)..n
      BY <1>1, <1>2, <2>1
    <3>2. pushes'[h] = pushes[m]
      BY <1>2, <3>1
    <3> QED
      BY <3>1, <3>2
  <2> HIDE DEF k
  <2> QED
    BY <2>2, <2>3
<1>4. PushesOK'
  <2> SUFFICES ASSUME NEW i \in 1..Len(pushes')
               PROVE  /\ pushes'[i].qty <= pushes'[i].cum /\ pushes'[i].cum <= held'.exec
                      /\ pushes'[i].status \in Closed => held'.status \in Closed /\ pushes'[i].cum = held'.exec
                      /\ broker' = "BYBIT" /\ pushes'[i].topic = "order" => pushes'[i].qty = 0
                      /\ pushes'[i].status \in Closed => \A h \in (i + 1)..Len(pushes') : pushes'[h].qty = 0
    BY <1>2 DEF PushesOK
  <2>1. PICK k \in 1..n : /\ pushes'[i] = pushes[k]
                          /\ \A h \in (i + 1)..Len(pushes') :
                               \E m \in (k + 1)..n : pushes'[h] = pushes[m]
    BY <1>3
  <2>2. /\ pushes[k].qty <= pushes[k].cum /\ pushes[k].cum <= held.exec
        /\ pushes[k].status \in Closed => held.status \in Closed /\ pushes[k].cum = held.exec
        /\ broker = "BYBIT" /\ pushes[k].topic = "order" => pushes[k].qty = 0
        /\ pushes[k].status \in Closed => \A m \in (k + 1)..n : pushes[m].qty = 0
    BY DEF PushesOK, n
  <2> QED
    BY <2>1, <2>2
<1>5. ASSUME NEW a, NEW b, AddUp(Unread(pushes), a, b)
      PROVE  AddUp(Unread(pushes'), a + pushes[j].qty, b)
  <2> DEFINE v == Unread(pushes)
             w == Unread(pushes')
  <2>1. v \in Seq(Int) /\ Len(v) = n /\ \A i \in 1..n : v[i] = pushes[i].qty
    BY <1>1, UnreadType DEF n
  <2>2. w \in Seq(Int) /\ Len(w) = n - 1 /\ \A i \in 1..(n - 1) : w[i] = pushes'[i].qty
    BY <1>2, UnreadType
  <2>3. AddUp(v, a, b)
    BY <1>5
  <2> HIDE DEF v, w
  <2>4. ASSUME NEW i \in 1..(n - 1) PROVE w[i] = IF i < j THEN v[i] ELSE v[i + 1]
    <3>1. i \in 1..n /\ i + 1 \in 1..n
      BY <1>1
    <3>2. w[i] = pushes'[i].qty /\ v[i] = pushes[i].qty /\ v[i + 1] = pushes[i + 1].qty
      BY <2>1, <2>2, <3>1
    <3> QED
      BY <1>2, <3>2
  <2>5. j \in 1..Len(v) /\ v[j] = pushes[j].qty /\ Len(w) = Len(v) - 1
    BY <1>1, <2>1, <2>2
  <2>6. \A i \in 1..Len(w) : w[i] = IF i < j THEN v[i] ELSE v[i + 1]
    BY <2>2, <2>4
  <2>7. AddUp(w, a + v[j], b)
    BY <2>1, <2>2, <2>3, <2>5, <2>6, AddUpWithout
  <2> QED
    BY <2>5, <2>7 DEF w
<1>6. ASSUME j = 1, NEW i \in 1..Len(pushes')
      PROVE  pushes'[i] = pushes[i + 1] /\ i + 1 \in 2..Len(pushes)
  <2>1. i \in 1..(n - 1) /\ ~ (i < j) /\ i + 1 \in 2..n
    BY <1>1, <1>2, <1>6
  <2> QED
    BY <1>2, <2>1 DEF n
<1> QED
  BY <1>3, <1>4, <1>5, <1>6 DEF n

\* A push that goes to no stream.
LEMMA PushLostKeeps == RestInv /\ PushLost => RestInv'
<1> SUFFICES ASSUME RestInv, PushLost PROVE RestInv'
  OBVIOUS
<1>1. HeldOK /\ SubmitOK /\ PushesOK /\ ToldOK
  BY DEF RestInv
<1>2. /\ pushes # <<>> /\ pushes' = Tail(pushes) /\ pushes \in Seq(PushRecord)
      /\ told' = [told EXCEPT !.lost = @ + Head(pushes).qty] /\ UNCHANGED <<broker, held, submit>>
  BY <1>1 DEF PushLost, PushesOK
<1>3. Len(pushes) \in Nat /\ 1 \in 1..Len(pushes) /\ Head(pushes) = pushes[1]
  BY <1>2
<1>4. pushes' = RemoveAt(pushes, 1)
  <2>1. SubSeq(pushes, 1, 0) = <<>>
    BY <1>2
  <2>2. SubSeq(pushes, 2, Len(pushes)) = Tail(pushes)
    BY <1>2, <1>3
  <2>3. Tail(pushes) \in Seq(PushRecord)
    BY <1>2
  <2>4. <<>> \o Tail(pushes) = Tail(pushes)
    BY <2>3
  <2> QED
    BY <1>2, <2>1, <2>2, <2>4 DEF RemoveAt
<1>5. /\ PushesOK'
      /\ \A a, b : AddUp(Unread(pushes), a, b) => AddUp(Unread(pushes'), a + pushes[1].qty, b)
      /\ \A i \in 1..Len(pushes') : \E k \in 1..Len(pushes) : pushes'[i] = pushes[k]
  BY <1>1, <1>2, <1>3, <1>4, PushOut
<1>6. HeldOK' /\ SubmitOK'
  <2>1. \A a : Verdict(a)' = Verdict(a) /\ Misread(a)' = Misread(a)
    BY <1>2 DEF Misread, Verdict, AlpacaVerdict, BinanceVerdict, BybitVerdict, CoinbaseVerdict, OkxVerdict
  <2> QED
    BY <1>1, <1>2, <2>1 DEF HeldOK, SubmitOK
<1>7. pushes[1].qty \in Nat
  BY <1>2, <1>3, UnreadType
<1>8. /\ told'.fills = told.fills /\ told'.cum = told.cum /\ told'.close = told.close
      /\ told'.lost = told.lost + pushes[1].qty /\ told.lost \in Nat /\ told.fills \in Nat
      /\ told' \in [fills : Nat, cum : Nat, lost : Nat,
                    close : {"none", "filled", "never", "bare", "terminal"}]
  <2>1. told \in [fills : Nat, cum : Nat, lost : Nat,
                  close : {"none", "filled", "never", "bare", "terminal"}]
    BY <1>1 DEF ToldOK
  <2>2. told' = [told EXCEPT !.lost = @ + pushes[1].qty]
    BY <1>2, <1>3
  <2>3. told.lost \in Nat /\ told.fills \in Nat /\ told.lost + pushes[1].qty \in Nat
    BY <1>7, <2>1
  <2> QED
    BY <2>1, <2>2, <2>3
<1>9. ToldOK'
  <2>1. told.close = "bare" => /\ pushes[1].qty = 0
                               /\ \A i \in 1..Len(pushes') : pushes'[i].qty = 0
    BY <1>1, <1>3, <1>5 DEF ToldOK
  <2>2. TellsFills /\ told.close = "none"
          => AddUp(Unread(pushes'), (told.fills + told.lost) + pushes[1].qty, held.exec)
    BY <1>1, <1>5 DEF ToldOK
  <2>3. (told.fills + told.lost) + pushes[1].qty = told'.fills + told'.lost
    BY <1>7, <1>8
  <2>4. told.close = "bare" => told'.lost = told.lost
    BY <1>8, <2>1
  <2> QED
    BY <1>1, <1>2, <1>8, <2>1, <2>2, <2>3, <2>4 DEF ToldOK, TellsFills
<1> QED
  BY <1>5, <1>6, <1>9 DEF RestInv

\* The stream tells the engine of one push.
LEMMA ReadPushKeeps == RestInv /\ ReadPush => RestInv'
<1> SUFFICES ASSUME RestInv, ReadPush PROVE RestInv'
  OBVIOUS
<1>1. HeldOK /\ SubmitOK /\ PushesOK /\ ToldOK
  BY DEF RestInv
<1>2. PICK j \in Readable : TellAll(Reads(pushes[j])) /\ pushes' = RemoveAt(pushes, j)
  BY DEF ReadPush
<1>3. UNCHANGED <<broker, held, submit>>
  BY DEF ReadPush
<1> DEFINE p == pushes[j]
<1>4. /\ pushes \in Seq(PushRecord) /\ Len(pushes) \in Nat /\ j \in 1..Len(pushes)
      /\ broker # "BYBIT" => j = 1
  <2>1. pushes \in Seq(PushRecord) /\ DOMAIN pushes = 1..Len(pushes) /\ Len(pushes) \in Nat
    BY <1>1 DEF PushesOK
  <2>2. j \in 1..Len(pushes) /\ \A h \in 1..(j - 1) : broker = "BYBIT"
    BY <2>1 DEF Readable
  <2> QED
    BY <2>1, <2>2
<1>5. /\ PushesOK'
      /\ \A a, b : AddUp(Unread(pushes), a, b) => AddUp(Unread(pushes'), a + p.qty, b)
      /\ \A i \in 1..Len(pushes') : \E k \in 1..Len(pushes) : pushes'[i] = pushes[k]
      /\ j = 1 => \A i \in 1..Len(pushes') : pushes'[i] = pushes[i + 1] /\ i + 1 \in 2..Len(pushes)
  BY <1>1, <1>2, <1>3, <1>4, PushOut
<1>6. /\ p \in PushRecord /\ p.qty \in Nat /\ p.cum \in Nat /\ p.topic \in {"order", "execution"}
      /\ p.qty <= p.cum /\ p.cum <= held.exec
      /\ p.status \in Closed => held.status \in Closed /\ p.cum = held.exec
      /\ broker = "BYBIT" /\ p.topic = "order" => p.qty = 0
      /\ p.status \in Closed => \A i \in (j + 1)..Len(pushes) : pushes[i].qty = 0
  <2>1. p \in PushRecord
    BY <1>4
  <2> QED
    BY <1>1, <1>4, <2>1 DEF PushesOK, PushRecord
<1>7. HeldOK' /\ SubmitOK'
  <2>1. \A a : Verdict(a)' = Verdict(a) /\ Misread(a)' = Misread(a)
    BY <1>3 DEF Misread, Verdict, AlpacaVerdict, BinanceVerdict, BybitVerdict, CoinbaseVerdict, OkxVerdict
  <2> QED
    BY <1>1, <1>3, <2>1 DEF HeldOK, SubmitOK
<1>8. /\ held.exec \in Nat /\ held.exec <= Lots /\ Lots \in Nat
      /\ told.fills \in Nat /\ told.lost \in Nat /\ told.cum \in Nat
      /\ DOMAIN told = {"fills", "cum", "lost", "close"}
  BY <1>1, RestAssumption DEF HeldOK, ToldOK
<1>9. \/ told' = told /\ Reads(p) = {}
      \/ \E e \in Reads(p) : told' = Tell(told, e)
  BY <1>2 DEF TellAll
<1>10. (\A i \in 1..Len(pushes) : pushes[i].qty = 0) => \A i \in 1..Len(pushes') : pushes'[i].qty = 0
  BY <1>5
<1> HIDE DEF p
<1>11. CASE told.close # "none"
  <2>0. \A e : Tell(told, e) = told
    BY <1>11 DEF Tell
  <2>1. told' = told
    BY <1>9, <2>0
  <2>2. ToldOK'
    BY <1>1, <1>3, <1>10, <1>11, <2>1 DEF ToldOK, TellsFills
  <2> QED
    BY <1>5, <1>7, <2>2 DEF RestInv
<1>12. CASE told.close = "none" /\ TellsFills
  <2>1. AddUp(Unread(pushes'), (told.fills + told.lost) + p.qty, held.exec)
    BY <1>1, <1>5, <1>12 DEF ToldOK
  <2>2. (told.fills + told.lost) + p.qty <= held.exec
    <3>1. pushes' \in Seq(PushRecord)
      BY <1>5 DEF PushesOK
    <3>2. /\ Unread(pushes') \in Seq(Int)
          /\ \A i \in 1..Len(Unread(pushes')) : Unread(pushes')[i] >= 0
      BY <3>1, UnreadType
    <3> QED
      BY <2>1, <3>2, AddUpBounds
  <2>3. \/ Reads(p) = {Fill(p)}
        \/ Reads(p) = {} /\ p.qty = 0
        \/ /\ Reads(p) = {BareClose} /\ p.qty = 0 /\ p.status \in Closed
           /\ broker = "BYBIT" => p.cum = 0
        \/ Reads(p) = {Terminal(p)} /\ p.qty = 0 /\ p.status \in Closed
    <3>0. p.qty > 0 \/ p.qty = 0
      BY <1>6
    <3>1. CASE broker = "ALPACA"
      <4>1. Reads(p) = AlpacaReads(p)
        BY <3>1 DEF Reads
      <4>2. CASE p.qty > 0
        BY <4>1, <4>2 DEF AlpacaReads
      <4>3. CASE ~ (p.qty > 0) /\ p.status \in {"rejected", "canceled"}
        BY <3>0, <3>1, <4>1, <4>3 DEF AlpacaReads, Closed
      <4>4. CASE ~ (p.qty > 0) /\ p.status \notin {"rejected", "canceled"}
        BY <3>0, <4>1, <4>4 DEF AlpacaReads
      <4> QED
        BY <4>2, <4>3, <4>4
    <3>2. CASE broker = "BINANCE"
      <4>1. Reads(p) = BinanceReads(p)
        BY <3>2 DEF Reads
      <4>2. CASE p.qty > 0
        BY <4>1, <4>2 DEF BinanceReads
      <4>3. CASE ~ (p.qty > 0) /\ p.status \in {"canceled", "rejected", "expired"}
        BY <3>0, <3>2, <4>1, <4>3 DEF BinanceReads, Closed
      <4>4. CASE ~ (p.qty > 0) /\ p.status \notin {"canceled", "rejected", "expired"}
        BY <3>0, <4>1, <4>4 DEF BinanceReads
      <4> QED
        BY <4>2, <4>3, <4>4
    <3>3. CASE broker = "BYBIT"
      <4>1. Reads(p) = BybitReads(p)
        BY <3>3 DEF Reads
      <4>2. CASE p.topic = "execution"
        BY <4>1, <4>2 DEF BybitReads
      <4>3. CASE p.topic # "execution" /\ p.status \in {"canceled", "rejected"}
        <5>1. p.qty = 0 /\ p.status \in Closed
          BY <1>6, <3>3, <4>3 DEF Closed
        <5>2. Reads(p) = {IF p.cum > 0 THEN Terminal(p) ELSE BareClose}
          BY <4>1, <4>3 DEF BybitReads
        <5>3. CASE p.cum > 0
          BY <5>1, <5>2, <5>3
        <5>4. CASE ~ (p.cum > 0)
          <6>1. p.cum = 0
            BY <1>6, <5>4
          <6> QED
            BY <5>1, <5>2, <5>4, <6>1
        <5> QED
          BY <5>3, <5>4
      <4>4. CASE p.topic # "execution" /\ p.status \notin {"canceled", "rejected"}
        <5>1. p.qty = 0
          BY <1>6, <3>3, <4>4
        <5> QED
          BY <4>1, <4>4, <5>1 DEF BybitReads
      <4> QED
        BY <4>2, <4>3, <4>4
    <3> QED
      BY <1>12, <3>1, <3>2, <3>3 DEF TellsFills
  <2>4. CASE told' = told /\ p.qty = 0
    <3>1. (told.fills + told.lost) + p.qty = told'.fills + told'.lost
      BY <1>8, <2>4
    <3>2. ToldOK'
      BY <1>1, <1>3, <1>12, <2>1, <2>4, <3>1 DEF ToldOK, TellsFills
    <3> QED
      BY <1>5, <1>7, <3>2 DEF RestInv
  <2>5. CASE told' = Tell(told, Fill(p))
    <3>1. told' = [told EXCEPT !.fills = @ + p.qty,
                               !.close = IF told.fills + p.qty = Lots THEN "filled" ELSE @]
      BY <1>12, <2>5 DEF Tell, Fill
    <3>2. told.fills + p.qty \in Nat /\ told.close = "none"
      BY <1>6, <1>8, <1>12
    <3>3. /\ told'.fills = told.fills + p.qty /\ told'.lost = told.lost /\ told'.cum = told.cum
          /\ told'.close = IF told.fills + p.qty = Lots THEN "filled" ELSE "none"
      BY <1>8, <3>1, <3>2
    <3>4. told' \in [fills : Nat, cum : Nat, lost : Nat,
                    close : {"none", "filled", "never", "bare", "terminal"}]
      BY <1>1, <3>1, <3>2 DEF ToldOK
    <3>5. (told.fills + told.lost) + p.qty = told'.fills + told'.lost /\ told'.fills <= held.exec
      BY <1>6, <1>8, <2>2, <3>3
    <3>6. told'.close = "filled" => held.exec = Lots
      BY <1>6, <1>8, <3>3, <3>5
    <3>7. ToldOK'
      BY <1>1, <1>3, <1>12, <2>1, <3>3, <3>4, <3>5, <3>6 DEF ToldOK, TellsFills, HeldOK
    <3> QED
      BY <1>5, <1>7, <3>7 DEF RestInv
  <2>6. CASE told' = Tell(told, BareClose) /\ Reads(p) = {BareClose}
    <3>1. p.qty = 0 /\ p.status \in Closed /\ (broker = "BYBIT" => p.cum = 0)
      BY <2>3, <2>6 DEF BareClose, Fill, Terminal
    <3>2. \A i \in 1..Len(pushes') : pushes'[i].qty = 0
      <4>1. CASE broker = "BYBIT"
        <5>1. held.exec = 0
          BY <1>6, <3>1, <4>1
        <5>2. \A i \in 1..Len(pushes) : pushes[i].qty = 0
          <6> SUFFICES ASSUME NEW i \in 1..Len(pushes) PROVE pushes[i].qty = 0
            OBVIOUS
          <6>1. pushes[i] \in PushRecord
            BY <1>4
          <6>2. pushes[i].qty \in Nat /\ pushes[i].cum \in Nat
            BY <6>1 DEF PushRecord
          <6>3. pushes[i].qty <= pushes[i].cum /\ pushes[i].cum <= held.exec
            BY <1>1 DEF PushesOK
          <6> QED
            BY <5>1, <6>2, <6>3
        <5> QED
          BY <1>10, <5>2
      <4>2. CASE broker # "BYBIT"
        <5>1. j = 1 /\ \A i \in 2..Len(pushes) : pushes[i].qty = 0
          BY <1>4, <1>6, <3>1, <4>2
        <5> QED
          BY <1>5, <5>1
      <4> QED
        BY <4>1, <4>2
    <3>3. told.fills + told.lost = held.exec
      <4>1. pushes' \in Seq(PushRecord)
        BY <1>5 DEF PushesOK
      <4>2. /\ Unread(pushes') \in Seq(Int)
            /\ \A i \in 1..Len(Unread(pushes')) : Unread(pushes')[i] = 0 /\ Unread(pushes')[i] >= 0
        BY <3>2, <4>1, UnreadType
      <4>3. (told.fills + told.lost) + p.qty = held.exec
        BY <2>1, <4>2, AddUpBounds
      <4> QED
        BY <1>8, <3>1, <4>3
    <3>4. told' = [told EXCEPT !.close = "bare"]
      BY <1>12, <2>6 DEF Tell, BareClose
    <3>5. /\ told'.fills = told.fills /\ told'.lost = told.lost /\ told'.cum = told.cum /\ told'.close = "bare"
          /\ told' \in [fills : Nat, cum : Nat, lost : Nat,
                        close : {"none", "filled", "never", "bare", "terminal"}]
      BY <1>1, <3>4 DEF ToldOK
    <3>6. ToldOK'
      BY <1>1, <1>3, <1>6, <1>12, <3>1, <3>2, <3>3, <3>5 DEF ToldOK, TellsFills
    <3> QED
      BY <1>5, <1>7, <3>6 DEF RestInv
  <2>7. CASE told' = Tell(told, Terminal(p)) /\ Reads(p) = {Terminal(p)}
    <3>1. p.status \in Closed
      BY <2>3, <2>7 DEF Terminal, Fill, BareClose
    <3>2. told' = [told EXCEPT !.cum = p.cum, !.close = "terminal"]
      BY <1>12, <2>7 DEF Tell, Terminal
    <3>3. /\ told'.fills = told.fills /\ told'.cum = p.cum /\ told'.close = "terminal"
          /\ told' \in [fills : Nat, cum : Nat, lost : Nat,
                        close : {"none", "filled", "never", "bare", "terminal"}]
      BY <1>1, <1>6, <3>2 DEF ToldOK
    <3>4. ToldOK'
      BY <1>1, <1>3, <1>6, <1>12, <3>1, <3>3 DEF ToldOK, TellsFills
    <3> QED
      BY <1>5, <1>7, <3>4 DEF RestInv
  <2> QED
    BY <1>9, <2>3, <2>4, <2>5, <2>6, <2>7
<1>13. CASE told.close = "none" /\ ~ TellsFills
  <2>1. told.fills = 0
    BY <1>1, <1>13 DEF ToldOK
  <2>2. Reads(p) = StateReads(p)
    BY <1>13 DEF Reads, TellsFills
  <2>3. \/ told' = told
        \/ told' = Tell(told, Terminal(p)) /\ p.status \in Closed
        \/ told' = Tell(told, Cumulative(p))
    BY <1>9, <2>2 DEF StateReads
  <2>4. CASE told' = told
    <3>1. ToldOK'
      BY <1>1, <1>3, <1>13, <2>4 DEF ToldOK, TellsFills
    <3> QED
      BY <1>5, <1>7, <3>1 DEF RestInv
  <2>5. CASE told' = Tell(told, Terminal(p)) /\ p.status \in Closed
    <3>1. told' = [told EXCEPT !.cum = p.cum, !.close = "terminal"]
      BY <1>13, <2>5 DEF Tell, Terminal
    <3>2. /\ told'.fills = told.fills /\ told'.cum = p.cum /\ told'.close = "terminal"
          /\ told' \in [fills : Nat, cum : Nat, lost : Nat,
                        close : {"none", "filled", "never", "bare", "terminal"}]
      BY <1>1, <1>6, <3>1 DEF ToldOK
    <3>3. ToldOK'
      BY <1>1, <1>3, <1>6, <1>13, <2>1, <2>5, <3>2 DEF ToldOK, TellsFills
    <3> QED
      BY <1>5, <1>7, <3>3 DEF RestInv
  <2>6. CASE told' = Tell(told, Cumulative(p))
    <3>1. told' = [told EXCEPT !.cum = IF @ < p.cum THEN p.cum ELSE @]
      BY <1>13, <2>6 DEF Tell, Cumulative
    <3>2. /\ told'.fills = told.fills /\ told'.cum \in {p.cum, told.cum} /\ told'.close = "none"
          /\ told' \in [fills : Nat, cum : Nat, lost : Nat,
                        close : {"none", "filled", "never", "bare", "terminal"}]
      BY <1>1, <1>6, <1>13, <3>1 DEF ToldOK
    <3>3. ToldOK'
      BY <1>1, <1>3, <1>6, <1>13, <2>1, <3>2 DEF ToldOK, TellsFills
    <3> QED
      BY <1>5, <1>7, <3>3 DEF RestInv
  <2> QED
    BY <2>3, <2>4, <2>5, <2>6
<1> QED
  BY <1>11, <1>12, <1>13

\* The sweep asks about the order and tells what the venue says of it.
LEMMA OrderStatusKeeps == RestInv /\ OrderStatus => RestInv'
<1> SUFFICES ASSUME RestInv, OrderStatus PROVE RestInv'
  OBVIOUS
<1>1. HeldOK /\ SubmitOK /\ PushesOK /\ ToldOK
  BY DEF RestInv
<1>2. /\ UNCHANGED <<broker, held, pushes>>
      /\ IF ~ sweep.open /\ (RestWorking \/ Stuck) THEN TellAll(StatusTells) ELSE UNCHANGED told
      /\ submit' = IF sweep.open /\ Stuck THEN [submit EXCEPT !.verdict = "named"] ELSE submit
  BY DEF OrderStatus
<1>3. /\ held.exec \in Nat /\ told.fills \in Nat /\ told.lost \in Nat /\ told.cum \in Nat
  BY <1>1, RestAssumption DEF HeldOK, ToldOK
<1>4. submit'.pc = submit.pc /\ SubmitOK'
  <2>1. \A a : Verdict(a)' = Verdict(a) /\ Misread(a)' = Misread(a)
    BY <1>2 DEF Misread, Verdict, AlpacaVerdict, BinanceVerdict, BybitVerdict, CoinbaseVerdict, OkxVerdict
  <2>2. CASE sweep.open /\ Stuck
    <3>1. submit' = [submit EXCEPT !.verdict = "named"] /\ submit.verdict = "unknown" /\ submit.pc = "done"
      BY <1>1, <1>2, <2>2 DEF Stuck, SubmitOK
    <3> QED
      BY <1>1, <1>2, <2>1, <3>1 DEF SubmitOK
  <2>3. CASE ~ (sweep.open /\ Stuck)
    BY <1>1, <1>2, <2>1, <2>3 DEF SubmitOK
  <2> QED
    BY <2>2, <2>3
<1>5. HeldOK' /\ PushesOK'
  BY <1>1, <1>2 DEF HeldOK, PushesOK
<1>6. CASE told' = told
  <2>1. ToldOK'
    BY <1>1, <1>2, <1>4, <1>6 DEF ToldOK, TellsFills
  <2> QED
    BY <1>4, <1>5, <2>1 DEF RestInv
<1>7. CASE told' # told
  <2>1. RestWorking \/ Stuck
    BY <1>2, <1>7
  <2>2. told.close = "none"
    BY <2>1 DEF RestWorking, Stuck, NothingTold
  <2>3. PICK e \in StatusTells : told' = Tell(told, e)
    BY <1>2, <1>7 DEF TellAll
  <2>4. \/ e = [kind |-> "never", qty |-> 0] /\ NoSuchOrder /\ Stuck
        \/ e = OrderState
    BY <2>3 DEF StatusTells
  <2>5. CASE e = [kind |-> "never", qty |-> 0] /\ NoSuchOrder /\ Stuck
    <3>1. told' = [told EXCEPT !.close = "never"]
      BY <2>2, <2>3, <2>5 DEF Tell
    <3>2. held.status \in {"absent", "forgotten"} /\ submit.pc = "done"
      BY <1>1, <2>5 DEF NoSuchOrder, Stuck, SubmitOK
    <3>3. /\ told'.fills = told.fills /\ told'.cum = told.cum /\ told'.close = "never"
          /\ told' \in [fills : Nat, cum : Nat, lost : Nat,
                        close : {"none", "filled", "never", "bare", "terminal"}]
      BY <1>1, <3>1 DEF ToldOK
    <3>4. ToldOK'
      BY <1>1, <1>2, <1>4, <2>2, <3>2, <3>3 DEF ToldOK, TellsFills
    <3> QED
      BY <1>4, <1>5, <3>4 DEF RestInv
  <2>6. CASE e = OrderState /\ held.status \in Closed
    <3>1. told' = [told EXCEPT !.cum = held.exec, !.close = "terminal"]
      BY <2>2, <2>3, <2>6 DEF Tell, OrderState
    <3>2. /\ told'.fills = told.fills /\ told'.cum = held.exec /\ told'.close = "terminal"
          /\ told' \in [fills : Nat, cum : Nat, lost : Nat,
                        close : {"none", "filled", "never", "bare", "terminal"}]
      BY <1>1, <1>3, <3>1 DEF ToldOK
    <3>3. ToldOK'
      BY <1>1, <1>2, <1>3, <2>2, <2>6, <3>2 DEF ToldOK, TellsFills
    <3> QED
      BY <1>4, <1>5, <3>3 DEF RestInv
  <2>7. CASE e = OrderState /\ held.status \notin Closed
    <3>1. told' = [told EXCEPT !.cum = IF @ < held.exec THEN held.exec ELSE @]
      BY <2>2, <2>3, <2>7 DEF Tell, OrderState
    <3>2. /\ told'.fills = told.fills /\ told'.cum \in {held.exec, told.cum} /\ told'.close = "none"
          /\ told'.lost = told.lost
          /\ told' \in [fills : Nat, cum : Nat, lost : Nat,
                        close : {"none", "filled", "never", "bare", "terminal"}]
      BY <1>1, <1>3, <2>2, <3>1 DEF ToldOK
    <3>3. ToldOK'
      BY <1>1, <1>2, <1>3, <2>2, <3>2 DEF ToldOK, TellsFills
    <3> QED
      BY <1>4, <1>5, <3>3 DEF RestInv
  <2> QED
    BY <2>4, <2>5, <2>6, <2>7
<1> QED
  BY <1>6, <1>7

LEMMA RestInvStep == RestInv /\ [RestNext]_restVars => RestInv'
<1> SUFFICES ASSUME RestInv, [RestNext]_restVars PROVE RestInv'
  OBVIOUS
<1>1. CASE VenueTakes \/ SubmitAnswered \/ \E r \in [type : {"market", "limit", "unpriced"}, tif : {"day", "ioc"}] : SubmitOrder(r)
  BY <1>1, SubmitKeeps
<1>2. CASE VenueTradesLots \/ VenueEnds \/ VenueForgets
  BY <1>2, VenueKeeps
<1>3. CASE PushLost \/ ReadPush \/ OrderStatus
  BY <1>3, PushLostKeeps, ReadPushKeeps, OrderStatusKeeps
<1>4. CASE Dial \/ Authenticated \/ GoLive \/ Beat \/ StreamEnds \/ OpenOrders \/ SweepFails \/ UNCHANGED restVars
  <2>1. UNCHANGED <<broker, held, pushes, submit, told>>
    BY <1>4 DEF Dial, Authenticated, GoLive, Beat, StreamEnds, OpenOrders, SweepFails, restVars
  <2> QED
    BY <2>1, RestInvStays
<1> QED
  BY <1>1, <1>2, <1>3, <1>4 DEF RestNext

-----------------------------------------------------------------------------
(* OpenOrderPages                                                          *)

\* A set of ids has an oldest, and if it is bounded a newest.
LEMMA OldestIs ==
  ASSUME NEW S, S \subseteq Nat, S # {}
  PROVE  Oldest(S) \in S /\ \A j \in S : Oldest(S) <= j
<1> DEFINE R == OpToRel(<, Nat)
<1>1. \A x, y \in Nat : x < y => <<x, y>> \in R
  BY DEF OpToRel
<1>2. IsWellFoundedOn(R, Nat)
  BY NatLessThanWellFounded
<1> HIDE DEF R
<1>3. PICK m \in S : \A y \in S : ~ (<<y, m>> \in R)
  BY <1>2, WFMin
<1>4. \A j \in S : m <= j
  <2> SUFFICES ASSUME NEW j \in S PROVE m <= j
    OBVIOUS
  <2>1. j \in Nat /\ m \in Nat
    OBVIOUS
  <2>2. ~ (j < m)
    BY <1>1, <1>3, <2>1
  <2> QED
    BY <2>1, <2>2
<1> QED
  BY <1>4 DEF Oldest

LEMMA NewestExists ==
  ASSUME NEW n \in Nat, NEW S, S \subseteq 1..n, S # {}
  PROVE  \E m \in S : \A j \in S : j <= m
<1> DEFINE T == {n - i : i \in S}
<1>1. T \subseteq Nat /\ T # {}
  <2>1. \A i \in S : i \in 1..n
    OBVIOUS
  <2>2. \A i \in S : n - i \in Nat
    BY <2>1
  <2> QED
    BY <2>2
<1>2. Oldest(T) \in T /\ \A j \in T : Oldest(T) <= j
  BY <1>1, OldestIs
<1>3. PICK m \in S : Oldest(T) = n - m
  BY <1>2
<1>4. ASSUME NEW j \in S PROVE j <= m
  <2>1. n - m <= n - j
    BY <1>2, <1>3
  <2> QED
    BY <2>1
<1> QED
  BY <1>4

\* The ids of a set above one of them.
Above(ids, i) == {j \in ids : j > i}

LEMMA AboveShrinks ==
  ASSUME NEW n \in Nat, NEW ids, ids \subseteq 1..n, NEW i \in ids
  PROVE  /\ IsFiniteSet(ids) /\ Cardinality(ids) \in Nat
         /\ IsFiniteSet(Above(ids, i)) /\ Cardinality(Above(ids, i)) \in Nat
         /\ Cardinality(Above(ids, i)) < Cardinality(ids)
         /\ \A k \in ids : k <= i => Cardinality(Above(ids, i)) <= Cardinality(Above(ids, k))
<1>1. IsFiniteSet(1..n)
  BY FS_Interval
<1>2. IsFiniteSet(ids)
  BY <1>1, FS_Subset
<1>3. \A k \in ids : IsFiniteSet(Above(ids, k)) /\ Cardinality(Above(ids, k)) \in Nat
  BY <1>2, FS_Subset, FS_CardinalityType DEF Above
<1>4. Cardinality(ids) \in Nat /\ Cardinality(Above(ids, i)) <= Cardinality(ids)
  BY <1>2, FS_Subset, FS_CardinalityType DEF Above
<1>5. Cardinality(Above(ids, i)) # Cardinality(ids)
  <2>1. i \notin Above(ids, i) /\ Above(ids, i) \subseteq ids
    BY DEF Above
  <2> QED
    BY <1>2, <2>1, FS_Subset
<1>6. ASSUME NEW k \in ids, k <= i PROVE Cardinality(Above(ids, i)) <= Cardinality(Above(ids, k))
  <2>1. Above(ids, i) \subseteq Above(ids, k)
    <3>1. i \in 1..n /\ k \in 1..n /\ \A j \in ids : j \in 1..n
      OBVIOUS
    <3>2. \A j \in ids : j > i => j > k
      BY <1>6, <3>1
    <3> QED
      BY <3>2 DEF Above
  <2> QED
    BY <1>3, <2>1, FS_Subset
<1> QED
  BY <1>2, <1>3, <1>4, <1>5, <1>6

\* A page that is not all there is left is full, and everything left out is
\* older than its oldest.
LEMMA PageIs ==
  ASSUME NEW n \in Nat, NEW ids, ids \subseteq 1..n, NEW page, page = PageOf(ids, PageLimit)
  PROVE  /\ page \subseteq ids
         /\ Cardinality(ids) <= PageLimit => page = ids
         /\ page # ids => /\ Cardinality(page) = PageLimit
                          /\ Oldest(page) \in page /\ Oldest(page) # 0
                          /\ \A i \in ids \ page : i < Oldest(page)
<1>1. PageLimit \in Nat /\ PageLimit > 0
  BY PagesAssumption
<1>2. page \subseteq ids /\ \A i \in ids : i \in page <=> Cardinality(Above(ids, i)) < PageLimit
  BY DEF PageOf, Above
<1>3. ASSUME Cardinality(ids) <= PageLimit PROVE page = ids
  <2>1. \A i \in ids : Cardinality(Above(ids, i)) < PageLimit
    <3> SUFFICES ASSUME NEW i \in ids PROVE Cardinality(Above(ids, i)) < PageLimit
      OBVIOUS
    <3>1. /\ Cardinality(ids) \in Nat /\ Cardinality(Above(ids, i)) \in Nat
          /\ Cardinality(Above(ids, i)) < Cardinality(ids)
      BY AboveShrinks
    <3> QED
      BY <1>1, <1>3, <3>1
  <2> QED
    BY <1>2, <2>1
<1>4. ASSUME page # ids
      PROVE  /\ Cardinality(page) = PageLimit
             /\ Oldest(page) \in page /\ Oldest(page) # 0
             /\ \A i \in ids \ page : i < Oldest(page)
  <2>1. \A i \in ids \ page : \A j \in page : i < j
    <3> SUFFICES ASSUME NEW i \in ids \ page, NEW j \in page, ~ (i < j) PROVE FALSE
      OBVIOUS
    <3>1. j \in ids /\ j <= i
      BY <1>2
    <3>2. Cardinality(Above(ids, i)) <= Cardinality(Above(ids, j)) /\ Cardinality(Above(ids, i)) \in Nat
          /\ Cardinality(Above(ids, j)) \in Nat
      BY <3>1, AboveShrinks
    <3> QED
      BY <1>1, <1>2, <3>1, <3>2
  <2>2. ids \ page # {} /\ ids \ page \subseteq 1..n
    BY <1>2, <1>4
  <2>3. PICK i \in ids \ page : \A j \in ids \ page : j <= i
    BY <2>2, NewestExists
  <2>4. Above(ids, i) = page
    <3>1. \A j \in ids : j \in 1..n
      OBVIOUS
    <3>2. \A j \in ids : j > i <=> j \in page
      BY <1>2, <2>1, <2>3, <3>1
    <3> QED
      BY <1>2, <3>2 DEF Above
  <2>5. Cardinality(page) \in Nat /\ IsFiniteSet(page) /\ Cardinality(page) >= PageLimit
    <3>1. Cardinality(Above(ids, i)) \in Nat /\ IsFiniteSet(Above(ids, i))
      BY AboveShrinks
    <3>2. ~ (Cardinality(Above(ids, i)) < PageLimit)
      BY <1>2
    <3> QED
      BY <1>1, <2>4, <3>1, <3>2
  <2>6. page # {} /\ page \subseteq Nat /\ page \subseteq 1..n
    <3>1. page # {}
      BY <1>1, <2>5, FS_EmptySet
    <3>2. page \subseteq 1..n
      BY <1>2
    <3> QED
      BY <3>1, <3>2
  <2>7. Oldest(page) \in page /\ \A j \in page : Oldest(page) <= j
    BY <2>6, OldestIs
  <2>8. Above(ids, Oldest(page)) = page \ {Oldest(page)}
    <3>1. \A j \in ids : j \in 1..n
      OBVIOUS
    <3>2. \A j \in ids : j > Oldest(page) <=> j \in page \ {Oldest(page)}
      BY <1>2, <2>1, <2>6, <2>7, <3>1
    <3> QED
      BY <1>2, <3>2 DEF Above
  <2>9. Cardinality(page \ {Oldest(page)}) = Cardinality(page) - 1
    BY <2>5, <2>7, FS_RemoveElement
  <2>10. Cardinality(Above(ids, Oldest(page))) < PageLimit
    BY <1>2, <2>7
  <2>11. Cardinality(page) = PageLimit
    BY <1>1, <2>5, <2>8, <2>9, <2>10
  <2> QED
    BY <2>1, <2>6, <2>7, <2>11
<1> QED
  BY <1>2, <1>3, <1>4

\* The open orders that the pages to come may hold.
Ahead == Below(listing.after)

\* What is still to be read: an order open all along is in the list so far or
\* lies below the position the next page starts from.
PagesInv ==
  /\ book.newest \in Nat /\ book.open \subseteq 1..book.newest
  /\ pager \in {"ALPACA", "BINANCE", "BYBIT", "COINBASE", "OKX"}
  /\ listing.pc \in {"idle", "paging", "done"}
  /\ DOMAIN listing = {"pc", "after", "out", "throughout", "small"}
  /\ listing.after \in Nat /\ listing.small \in BOOLEAN
  /\ listing.pc = "paging" =>
       /\ listing.throughout \subseteq book.open
       /\ \A i \in listing.throughout : i \in listing.out \/ i \in Ahead
       /\ pager \in {"ALPACA", "BINANCE"} => listing.after = 0
       /\ listing.small => Cardinality(book.open) <= PageLimit
  /\ PagesComplete
  /\ DOMAIN book = {"open", "newest"}

LEMMA PagesInvInit == PagesInit => PagesInv
<1> SUFFICES ASSUME PagesInit PROVE PagesInv
  OBVIOUS
<1>1. pager \in {"ALPACA", "BINANCE", "BYBIT", "COINBASE", "OKX"}
  BY PagesAssumption DEF PagesInit
<1> QED
  BY <1>1 DEF PagesInit, PagesInv, PagesComplete

LEMMA ReadPageKeeps == PagesInv /\ ReadPage => PagesInv'
<1> SUFFICES ASSUME PagesInv, ReadPage PROVE PagesInv'
  OBVIOUS
<1> DEFINE page == PageAsked
           next == Onward(page)
           below == Below(listing.after)
<1>1. /\ listing.pc = "paging" /\ UNCHANGED <<pager, book>>
      /\ listing' = [listing EXCEPT !.out = @ \cup page, !.after = next,
                                    !.pc = IF next = 0 THEN "done" ELSE @]
  BY DEF ReadPage
<1>2. /\ listing'.out = listing.out \cup page /\ listing'.after = next
      /\ listing'.pc = IF next = 0 THEN "done" ELSE "paging"
      /\ listing'.throughout = listing.throughout /\ listing'.small = listing.small
      /\ DOMAIN listing' = DOMAIN listing
  BY <1>1 DEF PagesInv
<1>3. /\ below \subseteq 1..book.newest /\ book.newest \in Nat
      /\ \A i \in listing.throughout : i \in listing.out \/ i \in below
  BY <1>1 DEF PagesInv, Below, Ahead
<1>4. CASE pager \in {"ALPACA", "BINANCE"}
  <2>1. next = 0 /\ below = book.open
    BY <1>1, <1>4 DEF Onward, PagesInv, Below, Ahead
  <2>2. pager = "ALPACA" => page = PageOf(below, PageLimit)
    BY DEF PageAsked
  <2>3. pager = "BINANCE" => page = book.open
    BY DEF PageAsked, Below
  <2>4. pager = "ALPACA" /\ listing.small => page = below
    BY <1>1, <1>3, <2>1, <2>2, PageIs DEF PagesInv
  <2>5. (pager = "ALPACA" => listing.small) => listing.throughout \subseteq listing.out \cup page
    BY <1>3, <1>4, <2>1, <2>3, <2>4
  <2> QED
    BY <1>1, <1>2, <2>1, <2>5 DEF PagesInv, PagesComplete
<1>5. CASE pager \in {"BYBIT", "COINBASE", "OKX"}
  <2>1. page = PageOf(below, PageLimit)
    BY <1>5 DEF PageAsked
  <2>2. /\ page \subseteq below
        /\ page # below => /\ Cardinality(page) = PageLimit
                           /\ Oldest(page) \in page /\ Oldest(page) # 0
                           /\ \A i \in below \ page : i < Oldest(page)
    BY <1>3, <2>1, PageIs
  <2>3. /\ next = 0 => page = below
        /\ next # 0 => next = Oldest(page)
    BY <1>5, <2>1, <2>2 DEF Onward, NextCursor, OkxAfter
  <2>4. CASE next = 0
    <3>1. listing.throughout \subseteq listing.out \cup page
      BY <1>3, <2>3, <2>4
    <3> QED
      BY <1>1, <1>2, <2>4, <3>1 DEF PagesInv, PagesComplete
  <2>5. CASE next # 0
    <3>1. next = Oldest(page) /\ next \in Nat
      <4>1. CASE page = below
        <5>1. pager = "OKX" /\ Cardinality(page) = PageLimit
          BY <1>5, <2>5, <2>1, <4>1 DEF Onward, NextCursor, OkxAfter
        <5>2. page # {} /\ page \subseteq Nat
          BY <1>3, <2>2, <5>1, FS_EmptySet, PagesAssumption
        <5> QED
          BY <2>3, <2>5, <5>2, OldestIs
      <4>2. CASE page # below
        BY <1>3, <2>2, <2>3, <2>5, <4>2
      <4> QED
        BY <4>1, <4>2
    <3>2. \A i \in listing.throughout : i \in listing.out \cup page \/ i < next
      BY <1>3, <2>2, <3>1
    <3>3. listing'.throughout \subseteq book.open
      BY <1>1, <1>2 DEF PagesInv
    <3>4. \A i \in listing'.throughout : i \in listing'.out \/ i \in Below(next)
      BY <1>2, <3>2, <3>3 DEF Below, Ahead
    <3>5. Ahead' = Below(next)
      BY <1>1, <1>2 DEF Below, Ahead
    <3>6. listing'.pc = "paging"
      BY <1>2, <2>5
    <3>7. book' = book /\ pager' = pager
      BY <1>1
    <3>8. listing'.small => Cardinality(book'.open) <= PageLimit
      BY <1>1, <1>2, <3>7 DEF PagesInv
    <3> QED
      BY <1>2, <1>5, <3>1, <3>3, <3>4, <3>5, <3>6, <3>7, <3>8 DEF PagesInv, PagesComplete
  <2> QED
    BY <2>4, <2>5
<1> QED
  BY <1>4, <1>5 DEF PagesInv

LEMMA BookMoves == PagesInv /\ (OrderOpens \/ OrderCloses) => PagesInv'
<1> SUFFICES ASSUME PagesInv, OrderOpens \/ OrderCloses PROVE PagesInv'
  OBVIOUS
<1>1. pager' = pager
  BY DEF OrderOpens, OrderCloses
<1>2. IsFiniteSet(book.open)
  <2>1. IsFiniteSet(1..book.newest)
    BY FS_Interval DEF PagesInv
  <2> QED
    BY <2>1, FS_Subset DEF PagesInv
<1>3. CASE OrderOpens
  <2>1. /\ book'.newest = book.newest + 1 /\ book'.open = book.open \cup {book.newest + 1}
        /\ DOMAIN book' = {"open", "newest"}
    BY <1>3 DEF OrderOpens
  <2>2. book'.newest \in Nat /\ book'.open \subseteq 1..book'.newest
    BY <2>1 DEF PagesInv
  <2>3. CASE listing.pc = "paging"
    <3>1. listing' = [listing EXCEPT !.small = @ /\ Cardinality(book'.open) <= PageLimit]
      BY <1>3, <2>3 DEF OrderOpens
    <3>2. \A x : Below(x) \subseteq Below(x)'
      BY <2>1 DEF Below, Ahead
    <3>3. /\ listing'.pc = "paging" /\ listing'.throughout = listing.throughout /\ listing'.out = listing.out
          /\ listing'.after = listing.after /\ DOMAIN listing' = DOMAIN listing
          /\ listing'.small = (listing.small /\ Cardinality(book'.open) <= PageLimit)
      BY <2>3, <3>1 DEF PagesInv
    <3>4. Ahead \subseteq Ahead'
      BY <2>1, <3>3 DEF Ahead, Below
    <3>5. listing'.small \in BOOLEAN /\ (listing'.small => Cardinality(book'.open) <= PageLimit)
      BY <3>3
    <3>6. listing'.throughout \subseteq book'.open
      BY <2>1, <2>3, <3>3 DEF PagesInv
    <3>7. \A i \in listing'.throughout : i \in listing'.out \/ i \in Ahead'
      BY <2>3, <3>3, <3>4 DEF PagesInv
    <3> QED
      BY <1>1, <2>1, <2>2, <2>3, <3>3, <3>5, <3>6, <3>7 DEF PagesInv, PagesComplete
  <2>4. CASE listing.pc # "paging"
    <3>1. listing' = listing
      BY <1>3, <2>4 DEF OrderOpens
    <3> QED
      BY <1>1, <2>1, <2>2, <2>4, <3>1 DEF PagesInv, PagesComplete
  <2> QED
    BY <2>3, <2>4
<1>4. CASE OrderCloses
  <2>1. PICK x \in book.open :
          /\ book' = [book EXCEPT !.open = @ \ {x}]
          /\ listing' = IF listing.pc = "paging"
                          THEN [listing EXCEPT !.throughout = @ \ {x}] ELSE listing
    BY <1>4 DEF OrderCloses
  <2>2. book'.newest = book.newest /\ book'.open = book.open \ {x} /\ DOMAIN book' = DOMAIN book
    BY <2>1 DEF PagesInv
  <2>3. Cardinality(book'.open) <= Cardinality(book.open) /\ Cardinality(book'.open) \in Nat
        /\ Cardinality(book.open) \in Nat
    BY <1>2, <2>2, FS_Subset, FS_CardinalityType
  <2>4. CASE listing.pc = "paging"
    <3>1. /\ listing'.pc = "paging" /\ listing'.throughout = listing.throughout \ {x}
          /\ listing'.out = listing.out /\ listing'.after = listing.after
          /\ listing'.small = listing.small /\ DOMAIN listing' = DOMAIN listing
      BY <2>1, <2>4 DEF PagesInv
    <3>2. Ahead' = Ahead \ {x}
      BY <2>2, <3>1 DEF Below, Ahead
    <3>3. listing'.small => Cardinality(book'.open) <= PageLimit
      BY <2>3, <2>4, <3>1, PagesAssumption DEF PagesInv
    <3>4. listing'.throughout \subseteq book'.open
      BY <2>2, <2>4, <3>1 DEF PagesInv
    <3>5. \A i \in listing'.throughout : i \in listing'.out \/ i \in Ahead'
      BY <2>4, <3>1, <3>2 DEF PagesInv
    <3> QED
      BY <1>1, <2>2, <2>4, <3>1, <3>3, <3>4, <3>5 DEF PagesInv, PagesComplete
  <2>5. CASE listing.pc # "paging"
    <3>1. listing' = listing
      BY <2>1, <2>5
    <3> QED
      BY <1>1, <2>2, <2>5, <3>1 DEF PagesInv, PagesComplete
  <2> QED
    BY <2>4, <2>5
<1> QED
  BY <1>3, <1>4

LEMMA PagesInvStep == PagesInv /\ [PagesNext]_pagesVars => PagesInv'
<1> SUFFICES ASSUME PagesInv, [PagesNext]_pagesVars PROVE PagesInv'
  OBVIOUS
<1>1. CASE ListOpenOrders
  <2>1. /\ listing' = [pc |-> "paging", after |-> 0, out |-> {}, throughout |-> book.open,
                       small |-> Cardinality(book.open) <= PageLimit]
        /\ book' = book /\ pager' = pager
    BY <1>1 DEF ListOpenOrders
  <2>2. Ahead' = book.open
    BY <2>1 DEF Below, Ahead
  <2>3. /\ listing'.pc = "paging" /\ listing'.after = 0 /\ listing'.throughout = book.open
        /\ listing'.small \in BOOLEAN /\ (listing'.small => Cardinality(book.open) <= PageLimit)
        /\ DOMAIN listing' = {"pc", "after", "out", "throughout", "small"}
    <3> DEFINE small == Cardinality(book.open) <= PageLimit
    <3>1. small \in BOOLEAN
      OBVIOUS
    <3> HIDE DEF small
    <3>2. listing' = [pc |-> "paging", after |-> 0, out |-> {}, throughout |-> book.open, small |-> small]
      BY <2>1 DEF small
    <3> QED
      BY <3>1, <3>2 DEF small
  <2> QED
    BY <2>1, <2>2, <2>3 DEF PagesInv, PagesComplete
<1>2. CASE ListingUsed
  BY <1>2 DEF ListingUsed, PagesInv, PagesComplete
<1>3. CASE UNCHANGED pagesVars
  BY <1>3 DEF pagesVars, PagesInv, PagesComplete, Below, Ahead
<1> QED
  BY <1>1, <1>2, <1>3, ReadPageKeeps, BookMoves DEF PagesNext

-----------------------------------------------------------------------------
(* FixSession                                                              *)

FixStatuses == {"absent", "new", "partial"} \cup FixClosed

\* What goes to the venue, and what comes back.
Request == [kind : {"D", "F", "H"}] \cup [kind : {"AF"}, id : Nat]

Reply ==
  [kind : {"exec"}, type : {"0", "4", "8", "F", "C"}, qty : Nat]
    \cup [kind : {"status"}, id : Nat, order : {"ours", "other"}, status : FixStatuses,
          exec : Nat, last : BOOLEAN]

LinkOK ==
  /\ link \in [up : BOOLEAN, nudged : BOOLEAN, toVenue : Seq(Request), toOms : Seq(Reply)]
  /\ ~ link.up => link.toOms = <<>>

AtVenueOK ==
  /\ atVenue \in [status : FixStatuses, exec : 0..FixLots]
  /\ atVenue.status \in {"absent", "refused"} => atVenue.exec = 0
  /\ atVenue.status = "filled" <=> atVenue.exec = FixLots

\* The venue took our order; it will not change any more.
Taken == atVenue.status \notin {"absent", "refused"}

Settled ==
  \/ atVenue.status \in FixClosed
  \/ /\ atVenue.status = "absent" /\ ack.pc # "idle"
     /\ \A i \in 1..Len(link.toVenue) : link.toVenue[i].kind # "D"

AckOK ==
  /\ ack \in [pc : {"idle", "waiting", "done"}, verdict : {"none", "accepted", "rejected", "unknown"}]
  /\ ack.verdict # "none" => ack.pc = "done"
  /\ ack.pc = "idle" => atVenue.status = "absent"
  /\ ack.verdict = "rejected" => atVenue.status = "refused"
  /\ ack.verdict = "accepted" => Taken

\* The order goes out once, and nothing is asked about it before.
RequestsOK ==
  \A i \in 1..Len(link.toVenue) :
    /\ link.toVenue[i].kind = "D" => atVenue.status = "absent"
    /\ link.toVenue[i].kind \in {"D", "H"} =>
         ack.pc # "idle" /\ \A j \in (i + 1)..Len(link.toVenue) : link.toVenue[j].kind # "D"

FixQty(m) == IF m.kind = "exec" THEN m.qty ELSE 0

\* What a message says is so, and stays so while it is under way.
ExecTrue(m) ==
  /\ m.type = "0" => Taken
  /\ m.type = "8" => atVenue.status = "refused"
  /\ m.type = "4" => atVenue.status = "canceled"
  /\ m.type # "F" => m.qty = 0

StatusTrue(m) ==
  /\ m.id # 0 /\ m.order = "ours" => Taken
  /\ m.id = 0 => /\ m.exec <= atVenue.exec
                 /\ m.status \in FixClosed => m.exec = atVenue.exec /\ Settled

ReplyTrue(m) == IF m.kind = "exec" THEN ExecTrue(m) ELSE StatusTrue(m)

\* Nothing executed is reported after the order was canceled.
CancelLast(s) ==
  \A i \in 1..Len(s) : s[i].kind = "exec" /\ s[i].type = "4" => \A j \in (i + 1)..Len(s) : FixQty(s[j]) = 0

RepliesOK ==
  /\ \A i \in 1..Len(link.toOms) : ReplyTrue(link.toOms[i])
  /\ CancelLast(link.toOms)

ListsOK ==
  /\ waiters \in [ack : BOOLEAN, status : BOOLEAN, snap : [id : Nat, acc : SUBSET {"ours", "other"}]]
  /\ driver \in [pc : {"idle", "listing", "listed", "asking"}, list : SUBSET {"ours", "other"}, wasOpen : BOOLEAN]
  /\ "ours" \in waiters.snap.acc \/ "ours" \in driver.list => Taken
  /\ driver.wasOpen => Taken

Unreported(s) == [i \in 1..Len(s) |-> FixQty(s[i])]

HeardOK ==
  /\ heard \in [fills : Nat, cum : Nat, lost : Nat, close : {"none", "filled", "refused", "bare", "terminal"}]
  /\ heard.fills <= atVenue.exec /\ heard.cum <= atVenue.exec
  /\ heard.close \in {"refused", "filled"} => atVenue.status = heard.close
  /\ heard.close = "bare" => /\ atVenue.status = "canceled" /\ heard.fills + heard.lost = atVenue.exec
                             /\ \A i \in 1..Len(link.toOms) : FixQty(link.toOms[i]) = 0
  /\ heard.close = "terminal" => heard.cum = atVenue.exec /\ Settled

\* Executions told, lost and under way are what was executed.
ExecutionsAddUp ==
  \E a \in Nat : /\ AddUp(Unreported(link.toOms), a, atVenue.exec)
                 /\ heard.close = "none" => a = heard.fills + heard.lost

\* Our order is in the batch by the report that ends it.
WholeBatches ==
  driver.pc = "listing" /\ driver.wasOpen /\ OursOpen =>
    \A i \in 1..Len(link.toOms) :
      link.toOms[i].kind = "status" /\ link.toOms[i].id = waiters.snap.id /\ link.toOms[i].last =>
        \/ "ours" \in waiters.snap.acc
        \/ \E j \in 1..i : /\ link.toOms[j].kind = "status" /\ link.toOms[j].id = waiters.snap.id
                           /\ link.toOms[j].order = "ours"

FixInv ==
  /\ LinkOK /\ AtVenueOK /\ AckOK /\ RequestsOK /\ RepliesOK /\ ListsOK /\ HeardOK
  /\ ExecutionsAddUp /\ WholeBatches /\ FixListComplete

-----------------------------------------------------------------------------
LEMMA RequestIs ==
  ASSUME NEW m \in Request
  PROVE  m.kind \in {"D", "F", "H", "AF"} /\ (m.kind = "AF" => m.id \in Nat)
BY DEF Request

LEMMA ReplyIs ==
  ASSUME NEW m \in Reply
  PROVE  /\ m.kind \in {"exec", "status"} /\ FixQty(m) \in Nat
         /\ m.kind = "exec" => m.type \in {"0", "4", "8", "F", "C"} /\ m.qty \in Nat /\ FixQty(m) = m.qty
         /\ m.kind = "status" => /\ m.id \in Nat /\ m.order \in {"ours", "other"} /\ m.status \in FixStatuses
                                 /\ m.exec \in Nat /\ m.last \in BOOLEAN /\ FixQty(m) = 0
<1>1. CASE m \in [kind : {"exec"}, type : {"0", "4", "8", "F", "C"}, qty : Nat]
  BY <1>1 DEF FixQty
<1>2. CASE m \in [kind : {"status"}, id : Nat, order : {"ours", "other"}, status : FixStatuses,
                  exec : Nat, last : BOOLEAN]
  BY <1>2 DEF FixQty
<1> QED
  BY <1>1, <1>2 DEF Reply

LEMMA UnreportedType ==
  ASSUME NEW s \in Seq(Reply)
  PROVE  /\ Unreported(s) \in Seq(Int) /\ Len(Unreported(s)) = Len(s) /\ Len(s) \in Nat
         /\ \A i \in 1..Len(s) : Unreported(s)[i] = FixQty(s[i]) /\ s[i] \in Reply /\ FixQty(s[i]) \in Nat
<1>1. \A i \in 1..Len(s) : s[i] \in Reply /\ FixQty(s[i]) \in Nat
  <2>1. \A i \in 1..Len(s) : s[i] \in Reply
    OBVIOUS
  <2> QED
    BY <2>1, ReplyIs
<1>2. Len(s) \in Nat
  OBVIOUS
<1>3. Unreported(s) \in [1..Len(s) -> Int]
  BY <1>1 DEF Unreported
<1>4. Unreported(s) \in Seq(Int)
  BY <1>2, <1>3
<1>5. Len(Unreported(s)) = Len(s)
  BY <1>2, <1>3
<1> QED
  BY <1>1, <1>2, <1>4, <1>5 DEF Unreported

\* The first message is read: the rest goes on from what it reports.
LEMMA UnreportedTail ==
  ASSUME NEW s \in Seq(Reply), s # <<>>, NEW a, NEW b, AddUp(Unreported(s), a, b)
  PROVE  /\ AddUp(Unreported(Tail(s)), a + FixQty(Head(s)), b)
         /\ Tail(s) \in Seq(Reply) /\ Head(s) \in Reply /\ Head(s) = s[1] /\ 1 \in 1..Len(s)
         /\ Len(Tail(s)) = Len(s) - 1 /\ \A i \in 1..Len(Tail(s)) : Tail(s)[i] = s[i + 1] /\ i + 1 \in 2..Len(s)
<1>1. /\ Tail(s) \in Seq(Reply) /\ Head(s) = s[1] /\ 1 \in 1..Len(s) /\ Len(s) \in Nat
      /\ Len(Tail(s)) = Len(s) - 1
      /\ \A i \in 1..Len(Tail(s)) : Tail(s)[i] = s[i + 1] /\ i + 1 \in 2..Len(s)
  OBVIOUS
<1> DEFINE v == Unreported(s)
           w == Unreported(Tail(s))
<1>2. /\ v \in Seq(Int) /\ Len(v) = Len(s)
      /\ \A i \in 1..Len(s) : v[i] = FixQty(s[i]) /\ s[i] \in Reply
  BY UnreportedType
<1>3. /\ w \in Seq(Int) /\ Len(w) = Len(s) - 1
      /\ \A i \in 1..Len(w) : w[i] = FixQty(Tail(s)[i])
  BY <1>1, UnreportedType
<1>4. \A i \in 1..Len(w) : w[i] = IF i < 1 THEN v[i] ELSE v[i + 1]
  BY <1>1, <1>2, <1>3
<1>5. AddUp(w, a + v[1], b)
  <2>1. AddUp(v, a, b)
    OBVIOUS
  <2> HIDE DEF v, w
  <2> QED
    BY <1>1, <1>2, <1>3, <1>4, <2>1, AddUpWithout
<1> QED
  BY <1>1, <1>2, <1>5

\* The venue reports: of what is sent, only the first message says of a trade.
LEMMA UnreportedMore ==
  ASSUME NEW s \in Seq(Reply), NEW t \in Seq(Reply), Len(t) >= 1, NEW a, NEW b, AddUp(Unreported(s), a, b),
         \A i \in 2..Len(t) : FixQty(t[i]) = 0
  PROVE  AddUp(Unreported(s \o t), a, b + FixQty(t[1]))
<1> DEFINE u == s \o t
           v == Unreported(s)
           w == Unreported(u)
           m == Len(s) + 1
<1>1. /\ u \in Seq(Reply) /\ Len(u) = Len(s) + Len(t) /\ Len(s) \in Nat /\ Len(t) \in Nat
      /\ \A i \in 1..Len(s) : u[i] = s[i]
      /\ \A i \in 1..Len(t) : u[Len(s) + i] = t[i]
  OBVIOUS
<1>2. v \in Seq(Int) /\ Len(v) = Len(s) /\ \A i \in 1..Len(s) : v[i] = FixQty(s[i])
  BY UnreportedType
<1> HIDE DEF u
<1>3. w \in Seq(Int) /\ Len(w) = Len(u) /\ \A i \in 1..Len(u) : w[i] = FixQty(u[i])
  BY <1>1, UnreportedType
<1>4. \A i \in 1..Len(v) : w[i] = v[i]
  BY <1>1, <1>2, <1>3
<1>5. w[m] = FixQty(t[1])
  <2>1. m \in 1..Len(u) /\ 1 \in 1..Len(t)
    BY <1>1
  <2> QED
    BY <1>1, <1>3, <2>1
<1>6. ASSUME NEW i \in (m + 1)..Len(w) PROVE w[i] = 0
  <2>1. i \in 1..Len(u) /\ i - Len(s) \in 2..Len(t) /\ i - Len(s) \in 1..Len(t) /\ Len(s) + (i - Len(s)) = i
    BY <1>1, <1>3
  <2> QED
    BY <1>1, <1>3, <2>1
<1>7. AddUp(w, a, b + w[m])
  <2>1. AddUp(v, a, b) /\ m \in Nat /\ m = Len(v) + 1 /\ Len(w) >= m
    BY <1>1, <1>2, <1>3
  <2> HIDE DEF v, w, m
  <2> QED
    BY <1>2, <1>3, <1>4, <1>6, <2>1, AddUpLonger
<1> QED
  BY <1>5, <1>7 DEF u

\* What an outage loses is what was under way.
LEMMA LostQtyIs ==
  ASSUME NEW s \in Seq(Reply), NEW a \in Int, NEW b \in Int, AddUp(Unreported(s), a, b)
  PROVE  LostQty(s) = b - a
<1> DEFINE n == Len(s)
           step(f) == [i \in 0..n |-> IF i = 0 THEN 0 ELSE f[i - 1] + IF s[i].kind = "exec" THEN s[i].qty ELSE 0]
           lost == CHOOSE f : f = step(f)
<1>1. PICK p : Running(p, Unreported(s), a, b)
  BY DEF AddUp
<1>2. /\ Len(Unreported(s)) = n /\ n \in Nat
      /\ \A i \in 1..n : Unreported(s)[i] = FixQty(s[i]) /\ FixQty(s[i]) \in Nat
  BY UnreportedType
<1>3. /\ p \in [0..n -> Int] /\ p[0] = a /\ p[n] = b
      /\ \A i \in 1..n : p[i] = p[i - 1] + FixQty(s[i])
  BY <1>1, <1>2 DEF Running
<1> DEFINE g == [i \in 0..n |-> p[i] - a]
<1>4. g = step(g)
  <2>1. ASSUME NEW i \in 0..n PROVE g[i] = step(g)[i]
    <3>1. CASE i = 0
      BY <1>2, <1>3, <3>1
    <3>2. CASE i # 0
      <4>1. i \in 1..n /\ i - 1 \in 0..n
        BY <1>2, <3>2
      <4>2. p[i] = p[i - 1] + FixQty(s[i]) /\ p[i - 1] \in Int /\ p[i] \in Int /\ FixQty(s[i]) \in Nat
        BY <1>2, <1>3, <4>1
      <4>3. g[i] = p[i] - a /\ g[i - 1] = p[i - 1] - a
        BY <4>1
      <4>4. step(g)[i] = g[i - 1] + FixQty(s[i])
        BY <3>2, <4>1 DEF FixQty
      <4> HIDE DEF g, step
      <4> QED
        BY <4>2, <4>3, <4>4
    <3> QED
      BY <3>1, <3>2
  <2> QED
    BY <2>1
<1>5. lost = step(lost)
  BY <1>4
<1> HIDE DEF lost, g
<1>6. lost = [i \in 0..n |-> IF i = 0 THEN 0 ELSE lost[i - 1] + IF s[i].kind = "exec" THEN s[i].qty ELSE 0]
  BY <1>5
<1> HIDE DEF step
<1> DEFINE P == {k \in Nat : k <= n => lost[k] = p[k] - a}
<1>7. 0 \in P
  BY <1>2, <1>3, <1>6
<1>8. ASSUME NEW k \in Nat, k \in P PROVE k + 1 \in P
  <2> SUFFICES ASSUME k + 1 <= n PROVE lost[k + 1] = p[k + 1] - a
    OBVIOUS
  <2>1. k + 1 \in 1..n /\ k \in 0..n /\ k + 1 \in 0..n /\ (k + 1) - 1 = k /\ k + 1 # 0
    BY <1>2
  <2>2. lost[k] = p[k] - a
    BY <1>2, <1>8, <2>1
  <2>3. p[k + 1] = p[k] + FixQty(s[k + 1]) /\ p[k] \in Int /\ FixQty(s[k + 1]) \in Nat
    BY <1>2, <1>3, <2>1
  <2>4. lost[k + 1] = lost[k] + FixQty(s[k + 1])
    BY <1>6, <2>1 DEF FixQty
  <2> QED
    BY <2>2, <2>3, <2>4
<1>9. n \in P
  <2> HIDE DEF P
  <2> QED
    BY <1>2, <1>7, <1>8, Induction
<1>10. lost[n] = b - a
  BY <1>2, <1>3, <1>9
<1>11. LostQty(s) = lost[n]
  BY DEF LostQty, lost, step
<1> QED
  BY <1>10, <1>11

\* Of one more number than ids are in use, one is free.
LEMMA FreshReqIdIs ==
  ASSUME LinkOK
  PROVE  /\ FreshReqId \in Nat \ {0} /\ FreshReqId # waiters.snap.id
         /\ \A i \in 1..Len(link.toOms) : link.toOms[i].kind = "status" => link.toOms[i].id # FreshReqId
<1> DEFINE out == link.toVenue
           inn == link.toOms
           n == Len(out) + Len(inn)
           f == [k \in 1..(n + 1) |-> IF k <= Len(out) THEN out[k].id
                                      ELSE IF k <= n THEN inn[k - Len(out)].id ELSE waiters.snap.id]
           ids == {f[k] : k \in 1..(n + 1)}
           NewIds(k) == /\ k # waiters.snap.id
                       /\ ~ \E m \in UnderWay : m.kind \in {"AF", "status"} /\ m.id = k
<1>1. /\ Len(out) \in Nat /\ Len(inn) \in Nat /\ DOMAIN out = 1..Len(out) /\ DOMAIN inn = 1..Len(inn)
      /\ n = Len(out) + Len(inn)
  BY DEF LinkOK
<1> HIDE DEF out, inn, n
<1>2. n \in Nat /\ \A k \in 1..Len(out) : k \in 1..(n + 1) /\ k <= Len(out)
  BY <1>1
<1>3. ASSUME NEW k \in 1..Len(inn)
      PROVE  /\ k + Len(out) \in 1..(n + 1) /\ ~ (k + Len(out) <= Len(out))
             /\ k + Len(out) <= n /\ (k + Len(out)) - Len(out) = k
  BY <1>1
<1>4. n + 1 \in 1..(n + 1) /\ ~ (n + 1 <= Len(out)) /\ ~ (n + 1 <= n)
  BY <1>1
<1>5. /\ IsFiniteSet(1..(n + 1)) /\ Cardinality(1..(n + 1)) = n + 1
      /\ IsFiniteSet(1..(n + 2)) /\ Cardinality(1..(n + 2)) = n + 2
  <2>1. n + 1 \in Int /\ n + 2 \in Int /\ 1 \in Int /\ ~ (1 > n + 1) /\ ~ (1 > n + 2)
        /\ (n + 1) - 1 + 1 = n + 1 /\ (n + 2) - 1 + 1 = n + 2
    BY <1>2
  <2> QED
    BY <2>1, FS_Interval
<1>6. f \in Surjection(1..(n + 1), ids)
  BY DEF Surjection
<1>7. IsFiniteSet(ids) /\ Cardinality(ids) <= n + 1
  <2> HIDE DEF ids, f
  <2> QED
    BY <1>5, <1>6, FS_Surjection
<1>8. ~ (1..(n + 2) \subseteq ids)
  <2> SUFFICES ASSUME 1..(n + 2) \subseteq ids PROVE FALSE
    OBVIOUS
  <2> HIDE DEF ids
  <2>1. 1..(n + 2) \in SUBSET ids
    OBVIOUS
  <2>2. Cardinality(1..(n + 2)) <= Cardinality(ids)
    BY <1>7, <2>1, FS_Subset
  <2>3. Cardinality(ids) \in Nat
    BY <1>7, FS_CardinalityType
  <2>4. n + 2 <= Cardinality(ids) /\ Cardinality(ids) <= n + 1
    BY <1>5, <1>7, <2>2
  <2> QED
    BY <1>2, <2>3, <2>4
<1>9. PICK k \in 1..(n + 2) : k \notin ids
  BY <1>8
<1>10. NewIds(k)
  <2>1. \A j \in 1..Len(out) : out[j].id \in ids
    <3> SUFFICES ASSUME NEW j \in 1..Len(out) PROVE out[j].id \in ids
      OBVIOUS
    <3>1. j \in 1..(n + 1) /\ f[j] = out[j].id
      BY <1>2
    <3> QED
      BY <3>1
  <2>2. \A j \in 1..Len(inn) : inn[j].id \in ids
    <3> SUFFICES ASSUME NEW j \in 1..Len(inn) PROVE inn[j].id \in ids
      OBVIOUS
    <3>1. j + Len(out) \in 1..(n + 1) /\ f[j + Len(out)] = inn[j].id
      BY <1>3
    <3> QED
      BY <3>1
  <2>3. waiters.snap.id \in ids
    <3>1. f[n + 1] = waiters.snap.id
      BY <1>4
    <3> QED
      BY <1>4, <3>1
  <2>4. k # waiters.snap.id
    BY <1>9, <2>3
  <2>5. ASSUME NEW m \in UnderWay PROVE m.id # k
    <3> HIDE DEF ids
    <3>1. \/ \E i \in 1..Len(out) : m = out[i]
          \/ \E i \in 1..Len(inn) : m = inn[i]
      BY <1>1 DEF UnderWay, out, inn
    <3> QED
      BY <1>9, <2>1, <2>2, <3>1
  <2> QED
    BY <2>4, <2>5
<1>11. n + 2 = Len(link.toVenue) + Len(link.toOms) + 2
  BY <1>1 DEF out, inn
<1>12. FreshReqId \in 1..(n + 2) /\ NewIds(FreshReqId)
  <2> HIDE DEF f, ids
  <2> QED
    BY <1>9, <1>10, <1>11 DEF FreshReqId
<1>13. \A i \in 1..Len(inn) : inn[i] \in UnderWay
  BY <1>1 DEF UnderWay, inn
<1>14. FreshReqId \in Nat \ {0}
  BY <1>2, <1>12
<1>15. \A i \in 1..Len(inn) : inn[i].kind = "status" => inn[i].id # FreshReqId
  BY <1>12, <1>13
<1> QED
  BY <1>12, <1>14, <1>15 DEF inn

NoOrderOut(s) == \A i \in 1..Len(s) : s[i].kind # "D"

\* What a step may do to the order at the venue.
NoStepBack ==
  /\ atVenue.exec <= atVenue'.exec
  /\ Taken => Taken'
  /\ Settled => Settled' /\ atVenue' = atVenue

\* What was so of a message stays so.
LEMMA RepliesStay ==
  ASSUME NEW m \in Reply, AtVenueOK, AtVenueOK', NoStepBack, ReplyTrue(m)
  PROVE  ReplyTrue(m)'
<1>1. atVenue.exec \in Nat /\ atVenue'.exec \in Nat /\ atVenue.exec <= atVenue'.exec
  BY FixAssumption DEF AtVenueOK, NoStepBack
<1>2. atVenue.status \in FixClosed => atVenue' = atVenue
  BY DEF NoStepBack, Settled
<1>3. CASE m.kind = "exec"
  <2>1. ExecTrue(m)'
    BY <1>2, <1>3 DEF ReplyTrue, ExecTrue, NoStepBack, FixClosed
  <2> QED
    BY <1>3, <2>1 DEF ReplyTrue
<1>4. CASE m.kind # "exec"
  <2>1. m.exec \in Nat
    BY <1>4, ReplyIs
  <2>2. StatusTrue(m)
    BY <1>4 DEF ReplyTrue
  <2>3. m.id = 0 => m.exec <= atVenue'.exec
    BY <1>1, <2>1, <2>2 DEF StatusTrue
  <2>4. StatusTrue(m)'
    BY <2>2, <2>3 DEF StatusTrue, NoStepBack
  <2> QED
    BY <1>4, <2>4 DEF ReplyTrue
<1> QED
  BY <1>3, <1>4

\* A message is sent, or none.
LEMMA SendKeeps ==
  ASSUME LinkOK, AtVenueOK, AckOK, RequestsOK, UNCHANGED atVenue, NEW msg, msg \in Request,
         link'.toVenue = link.toVenue \/ link'.toVenue = Append(link.toVenue, msg),
         ack.pc # "idle" => ack'.pc # "idle",
         link'.toVenue # link.toVenue /\ msg.kind = "D" => ack.pc = "idle" /\ ack'.pc # "idle",
         msg.kind = "H" => ack'.pc # "idle"
  PROVE  RequestsOK' /\ NoStepBack /\ link'.toVenue \in Seq(Request)
<1>1. link.toVenue \in Seq(Request) /\ Len(link.toVenue) \in Nat
  BY DEF LinkOK
<1>2. atVenue.exec \in Nat /\ atVenue.exec <= atVenue'.exec
  BY FixAssumption DEF AtVenueOK
<1>3. CASE link'.toVenue = link.toVenue
  <2>1. RequestsOK'
    BY <1>3 DEF RequestsOK
  <2>2. NoStepBack
    BY <1>2, <1>3 DEF NoStepBack, Taken, Settled
  <2> QED
    BY <1>1, <1>3, <2>1, <2>2
<1>4. CASE link'.toVenue # link.toVenue
  <2> DEFINE s == link.toVenue
             t == link'.toVenue
             n == Len(s)
  <2>1. /\ t = Append(s, msg) /\ t \in Seq(Request) /\ Len(t) = n + 1 /\ t[n + 1] = msg
        /\ \A i \in 1..n : t[i] = s[i]
        /\ \A i \in 1..(n + 1) : i \in 1..n \/ i = n + 1
    BY <1>1, <1>4
  <2>2. ASSUME NEW i \in 1..Len(t)
        PROVE  /\ t[i].kind = "D" => atVenue'.status = "absent"
               /\ t[i].kind \in {"D", "H"} => ack'.pc # "idle" /\ \A j \in (i + 1)..Len(t) : t[j].kind # "D"
    <3>1. CASE i \in 1..n
      <4>1. t[i] = s[i]
        BY <2>1, <3>1
      <4>2. t[i].kind = "D" => atVenue'.status = "absent"
        BY <3>1, <4>1 DEF RequestsOK
      <4>3. ASSUME t[i].kind \in {"D", "H"}
            PROVE  ack'.pc # "idle" /\ \A j \in (i + 1)..Len(t) : t[j].kind # "D"
        <5>1. ack.pc # "idle" /\ \A j \in (i + 1)..n : s[j].kind # "D"
          BY <3>1, <4>1, <4>3 DEF RequestsOK
        <5>2. \A j \in (i + 1)..Len(t) : (j \in (i + 1)..n /\ j \in 1..n) \/ j = n + 1
          BY <1>1, <2>1, <3>1
        <5>3. msg.kind # "D"
          BY <1>4, <5>1
        <5> QED
          BY <2>1, <5>1, <5>2, <5>3
      <4> QED
        BY <4>2, <4>3
    <3>2. CASE i = n + 1
      <4>1. t[i] = msg /\ (i + 1)..Len(t) = {}
        BY <1>1, <2>1, <3>2
      <4>2. msg.kind = "D" => atVenue'.status = "absent" /\ ack'.pc # "idle"
        BY <1>4 DEF AckOK
      <4> QED
        BY <4>1, <4>2
    <3> QED
      BY <2>1, <3>1, <3>2
  <2>3. RequestsOK'
    BY <2>2 DEF RequestsOK
  <2>4. Settled => Settled'
    <3> SUFFICES ASSUME atVenue.status = "absent", ack.pc # "idle", NoOrderOut(s)
                 PROVE  NoOrderOut(t)
      BY DEF Settled, NoOrderOut
    <3>1. msg.kind # "D"
      BY <1>4
    <3> QED
      BY <2>1, <3>1 DEF NoOrderOut
  <2>5. NoStepBack
    BY <1>2, <2>4 DEF NoStepBack, Taken
  <2> QED
    BY <2>1, <2>3, <2>5
<1> QED
  BY <1>3, <1>4

\* Steps of the adapter that read nothing.
LEMMA QuietKeeps ==
  ASSUME FixInv, UNCHANGED <<atVenue, heard>>, RequestsOK', NoStepBack,
         link' \in [up : BOOLEAN, nudged : BOOLEAN, toVenue : Seq(Request), toOms : Seq(Reply)],
         link'.toOms = link.toOms, link.up => link'.up
  PROVE  LinkOK' /\ AtVenueOK' /\ RequestsOK' /\ RepliesOK' /\ HeardOK' /\ ExecutionsAddUp'
<1>1. LinkOK /\ AtVenueOK /\ RepliesOK /\ HeardOK /\ ExecutionsAddUp
  BY DEF FixInv
<1>2. LinkOK'
  BY <1>1 DEF LinkOK
<1>3. AtVenueOK'
  BY <1>1 DEF AtVenueOK
<1>4. RepliesOK'
  <2>0. \A m \in Reply : ReplyTrue(m) => ReplyTrue(m)'
    BY <1>1, <1>3, RepliesStay
  <2>1. ASSUME NEW i \in 1..Len(link.toOms) PROVE ReplyTrue(link.toOms[i])'
    <3>1. PICK m \in Reply : m = link.toOms[i] /\ ReplyTrue(m)
      BY <1>1 DEF LinkOK, RepliesOK
    <3>2. link'.toOms[i] = m /\ ReplyTrue(m)'
      BY <2>0, <3>1
    <3> QED
      BY <3>2 DEF ReplyTrue, ExecTrue, StatusTrue
  <2> QED
    BY <1>1, <2>1 DEF RepliesOK, CancelLast
<1>5. HeardOK'
  BY <1>1 DEF HeardOK, NoStepBack
<1>6. ExecutionsAddUp'
  BY <1>1 DEF ExecutionsAddUp
<1> QED
  BY <1>2, <1>3, <1>4, <1>5, <1>6

LEMMA RequestsAre ==
  /\ [kind |-> "D"] \in Request /\ [kind |-> "F"] \in Request /\ [kind |-> "H"] \in Request
  /\ \A n \in Nat : [kind |-> "AF", id |-> n] \in Request
BY DEF Request

\* The listing under way and the one delivered are as they were.
LEMMA ListStays ==
  ASSUME FixInv, UNCHANGED <<atVenue, driver>>, link'.toOms = link.toOms, waiters'.snap = waiters.snap
  PROVE  WholeBatches' /\ FixListComplete'
<1>1. WholeBatches /\ FixListComplete
  BY DEF FixInv
<1> QED
  BY <1>1 DEF WholeBatches, FixListComplete, OursOpen

LEMMA FixSubmitKeeps == FixInv /\ FixSubmit => FixInv'
<1> SUFFICES ASSUME FixInv, FixSubmit PROVE FixInv'
  OBVIOUS
<1>1. LinkOK /\ AtVenueOK /\ AckOK /\ RequestsOK /\ ListsOK
  BY DEF FixInv
<1>2. /\ UNCHANGED <<atVenue, driver, heard>> /\ ack.pc = "idle" /\ ack'.pc = "waiting" /\ ack' = [ack EXCEPT !.pc = "waiting"]
      /\ waiters' = [waiters EXCEPT !.ack = TRUE] /\ link' = Send(link, [kind |-> "D"])
  BY <1>1 DEF FixSubmit, AckOK
<1> DEFINE msg == [kind |-> "D"]
<1>3. msg \in Request
  BY RequestsAre
<1> HIDE DEF msg
<1>4. /\ link'.toVenue = link.toVenue \/ link'.toVenue = Append(link.toVenue, msg)
      /\ link'.toOms = link.toOms /\ link'.up = link.up
      /\ link' = [link EXCEPT !.toVenue = link'.toVenue]
  BY <1>1, <1>2 DEF Send, LinkOK, msg
<1>5. RequestsOK' /\ NoStepBack /\ link'.toVenue \in Seq(Request)
  BY <1>1, <1>2, <1>3, <1>4, SendKeeps
<1>6. LinkOK' /\ AtVenueOK' /\ RequestsOK' /\ RepliesOK' /\ HeardOK' /\ ExecutionsAddUp'
  <2>1. link' \in [up : BOOLEAN, nudged : BOOLEAN, toVenue : Seq(Request), toOms : Seq(Reply)]
    BY <1>1, <1>4, <1>5 DEF LinkOK
  <2> QED
    BY <1>2, <1>4, <1>5, <2>1, QuietKeeps
<1>7. AckOK'
  BY <1>1, <1>2 DEF AckOK, Taken
<1>8. ListsOK' /\ waiters'.snap = waiters.snap
  BY <1>1, <1>2 DEF ListsOK, Taken
<1>9. WholeBatches' /\ FixListComplete'
  BY <1>2, <1>4, <1>8, ListStays
<1> QED
  BY <1>6, <1>7, <1>8, <1>9 DEF FixInv

LEMMA AckTimeoutKeeps == FixInv /\ (AckTimeout \/ Logon) => FixInv'
<1> SUFFICES ASSUME FixInv, AckTimeout \/ Logon PROVE FixInv'
  OBVIOUS
<1>1. LinkOK /\ AtVenueOK /\ AckOK /\ RequestsOK /\ ListsOK
  BY DEF FixInv
<1>2. /\ UNCHANGED <<atVenue, driver, heard>> /\ waiters'.snap = waiters.snap
      /\ ack' = ack \/ ack' = [pc |-> "done", verdict |-> "unknown"]
      /\ waiters' = waiters \/ waiters' = [waiters EXCEPT !.ack = FALSE]
      /\ link' = link \/ link' = [link EXCEPT !.up = TRUE, !.nudged = TRUE]
  BY <1>1 DEF AckTimeout, Logon, ListsOK
<1>3. ack.pc = "idle" => ack' = ack
  BY DEF AckTimeout, Logon
<1>4. /\ link'.toVenue = link.toVenue /\ link'.toOms = link.toOms /\ link.up => link'.up
      /\ link' \in [up : BOOLEAN, nudged : BOOLEAN, toVenue : Seq(Request), toOms : Seq(Reply)]
  BY <1>1, <1>2 DEF LinkOK
<1>5. RequestsOK' /\ NoStepBack
  <2>1. ack.pc # "idle" => ack'.pc # "idle"
    BY <1>2
  <2>2. [kind |-> "F"] \in Request /\ [kind |-> "F"].kind = "F"
    BY RequestsAre
  <2> QED
    BY <1>1, <1>2, <1>4, <2>1, <2>2, SendKeeps
<1>6. LinkOK' /\ AtVenueOK' /\ RequestsOK' /\ RepliesOK' /\ HeardOK' /\ ExecutionsAddUp'
  BY <1>2, <1>4, <1>5, QuietKeeps
<1>7. AckOK'
  BY <1>1, <1>2, <1>3 DEF AckOK, Taken
<1>8. ListsOK'
  BY <1>1, <1>2 DEF ListsOK, Taken
<1>9. WholeBatches' /\ FixListComplete'
  BY <1>2, <1>4, ListStays
<1> QED
  BY <1>6, <1>7, <1>8, <1>9 DEF FixInv

LEMMA FixCancelKeeps == FixInv /\ FixCancel => FixInv'
<1> SUFFICES ASSUME FixInv, FixCancel PROVE FixInv'
  OBVIOUS
<1>1. LinkOK /\ AtVenueOK /\ AckOK /\ RequestsOK /\ ListsOK
  BY DEF FixInv
<1>2. UNCHANGED <<atVenue, waiters, ack, driver, heard>> /\ link' = Send(link, [kind |-> "F"])
  BY DEF FixCancel
<1> DEFINE msg == [kind |-> "F"]
<1>3. msg \in Request /\ msg.kind = "F"
  BY RequestsAre
<1> HIDE DEF msg
<1>4. /\ link'.toVenue = link.toVenue \/ link'.toVenue = Append(link.toVenue, msg)
      /\ link'.toOms = link.toOms /\ link'.up = link.up
      /\ link' = [link EXCEPT !.toVenue = link'.toVenue]
  BY <1>1, <1>2 DEF Send, LinkOK, msg
<1>5. RequestsOK' /\ NoStepBack /\ link'.toVenue \in Seq(Request)
  BY <1>1, <1>2, <1>3, <1>4, SendKeeps
<1>6. LinkOK' /\ AtVenueOK' /\ RequestsOK' /\ RepliesOK' /\ HeardOK' /\ ExecutionsAddUp'
  <2>1. link' \in [up : BOOLEAN, nudged : BOOLEAN, toVenue : Seq(Request), toOms : Seq(Reply)]
    BY <1>1, <1>4, <1>5 DEF LinkOK
  <2> QED
    BY <1>2, <1>4, <1>5, <2>1, QuietKeeps
<1>7. AckOK' /\ ListsOK'
  BY <1>1, <1>2 DEF AckOK, ListsOK, Taken
<1>8. WholeBatches' /\ FixListComplete'
  BY <1>2, <1>4, ListStays
<1> QED
  BY <1>6, <1>7, <1>8 DEF FixInv

\* A new id: no report under way is taken for the batch asked for.
LEMMA AskSnapshotKeeps == FixInv /\ AskSnapshot => FixInv'
<1> SUFFICES ASSUME FixInv, AskSnapshot PROVE FixInv'
  OBVIOUS
<1>1. LinkOK /\ AtVenueOK /\ AckOK /\ RequestsOK /\ ListsOK
  BY DEF FixInv
<1>2. PICK n : /\ n = FreshReqId /\ UNCHANGED <<atVenue, ack, heard>>
               /\ waiters' = [waiters EXCEPT !.snap = [id |-> n, acc |-> {}]]
               /\ link' = [Send(link, [kind |-> "AF", id |-> n]) EXCEPT !.nudged = FALSE]
               /\ driver' = [driver EXCEPT !.pc = "listing", !.wasOpen = OursOpen]
  BY DEF AskSnapshot
<1>3. /\ n \in Nat
      /\ \A i \in 1..Len(link.toOms) : link.toOms[i].kind = "status" => link.toOms[i].id # n
  BY <1>1, <1>2, FreshReqIdIs
<1> DEFINE msg == [kind |-> "AF", id |-> n]
<1>4. msg \in Request /\ msg.kind = "AF"
  BY <1>3, RequestsAre
<1> HIDE DEF msg
<1>5. /\ link'.toVenue = link.toVenue \/ link'.toVenue = Append(link.toVenue, msg)
      /\ link'.toOms = link.toOms /\ link'.up = link.up
      /\ link' = [link EXCEPT !.toVenue = link'.toVenue, !.nudged = FALSE]
  BY <1>1, <1>2 DEF Send, LinkOK, msg
<1>6. RequestsOK' /\ NoStepBack /\ link'.toVenue \in Seq(Request)
  BY <1>1, <1>2, <1>4, <1>5, SendKeeps
<1>7. LinkOK' /\ AtVenueOK' /\ RequestsOK' /\ RepliesOK' /\ HeardOK' /\ ExecutionsAddUp'
  <2>1. link' \in [up : BOOLEAN, nudged : BOOLEAN, toVenue : Seq(Request), toOms : Seq(Reply)]
    BY <1>1, <1>5, <1>6 DEF LinkOK
  <2> QED
    BY <1>2, <1>5, <1>6, <2>1, QuietKeeps
<1>8. AckOK'
  BY <1>1, <1>2 DEF AckOK, Taken
<1>9. /\ waiters'.snap.id = n /\ waiters'.snap.acc = {} /\ driver'.pc = "listing"
      /\ driver'.list = driver.list /\ driver'.wasOpen = OursOpen
  BY <1>1, <1>2 DEF ListsOK
<1>10. ListsOK'
  <2>1. /\ waiters' \in [ack : BOOLEAN, status : BOOLEAN, snap : [id : Nat, acc : SUBSET {"ours", "other"}]]
        /\ driver' \in [pc : {"idle", "listing", "listed", "asking"}, list : SUBSET {"ours", "other"}, wasOpen : BOOLEAN]
    <3>1. OursOpen \in BOOLEAN
      BY DEF OursOpen
    <3>2. [id |-> n, acc |-> {}] \in [id : Nat, acc : SUBSET {"ours", "other"}]
      BY <1>3
    <3> QED
      BY <1>1, <1>2, <3>1, <3>2 DEF ListsOK
  <2> QED
    BY <1>1, <1>2, <1>9, <2>1 DEF ListsOK, Taken, OursOpen
<1>11. WholeBatches' /\ FixListComplete'
  BY <1>3, <1>5, <1>9 DEF WholeBatches, FixListComplete
<1> QED
  BY <1>7, <1>8, <1>10, <1>11 DEF FixInv

\* The list is used, and the order asked about when it should work and is not in it.
LEMMA UseSnapshotKeeps == FixInv /\ UseSnapshot => FixInv'
<1> SUFFICES ASSUME FixInv, UseSnapshot PROVE FixInv'
  OBVIOUS
<1>1. LinkOK /\ AtVenueOK /\ AckOK /\ RequestsOK /\ ListsOK
  BY DEF FixInv
<1>2. PICK ask \in BOOLEAN :
        /\ UNCHANGED <<atVenue, heard>> /\ (ask => FixWorking \/ FixStuck)
        /\ waiters' = [waiters EXCEPT !.status = ask]
        /\ link' = IF ask THEN Send(link, [kind |-> "H"]) ELSE link
        /\ driver' = [driver EXCEPT !.pc = IF ask THEN "asking" ELSE "idle", !.list = {}]
        /\ ack' = IF "ours" \in driver.list /\ FixStuck THEN [ack EXCEPT !.verdict = "accepted"] ELSE ack
  BY DEF UseSnapshot
<1> DEFINE msg == [kind |-> "H"]
<1>3. msg \in Request /\ msg.kind = "H"
  BY RequestsAre
<1> HIDE DEF msg
<1>4. /\ link'.toVenue = link.toVenue \/ link'.toVenue = Append(link.toVenue, msg)
      /\ ~ ask => link'.toVenue = link.toVenue
      /\ link'.toOms = link.toOms /\ link'.up = link.up
      /\ link' = [link EXCEPT !.toVenue = link'.toVenue]
  BY <1>1, <1>2 DEF Send, LinkOK, msg
<1>5. ack'.pc = ack.pc /\ (ask => ack.pc = "done")
  BY <1>1, <1>2 DEF AckOK, FixWorking, FixStuck
<1>6. RequestsOK' /\ NoStepBack /\ link'.toVenue \in Seq(Request)
  <2>1. CASE ask
    BY <1>1, <1>2, <1>3, <1>4, <1>5, <2>1, SendKeeps
  <2>2. CASE ~ ask
    BY <1>1, <1>2, <1>4, <1>5, <2>2, RequestsAre, SendKeeps
  <2> QED
    BY <2>1, <2>2
<1>7. LinkOK' /\ AtVenueOK' /\ RequestsOK' /\ RepliesOK' /\ HeardOK' /\ ExecutionsAddUp'
  <2>1. link' \in [up : BOOLEAN, nudged : BOOLEAN, toVenue : Seq(Request), toOms : Seq(Reply)]
    BY <1>1, <1>4, <1>6 DEF LinkOK
  <2> QED
    BY <1>2, <1>4, <1>6, <2>1, QuietKeeps
<1>8. AckOK'
  <2>1. CASE "ours" \in driver.list /\ FixStuck
    <3>1. ack' = [ack EXCEPT !.verdict = "accepted"] /\ ack.pc = "done" /\ Taken
      BY <1>1, <1>2, <2>1 DEF AckOK, ListsOK, FixStuck
    <3> QED
      BY <1>1, <1>2, <3>1 DEF AckOK, Taken
  <2>2. CASE ~ ("ours" \in driver.list /\ FixStuck)
    BY <1>1, <1>2, <2>2 DEF AckOK, Taken
  <2> QED
    BY <2>1, <2>2
<1>9. /\ waiters'.snap = waiters.snap /\ driver'.pc \in {"asking", "idle"} /\ driver'.list = {}
      /\ driver'.wasOpen = driver.wasOpen
      /\ waiters' \in [ack : BOOLEAN, status : BOOLEAN, snap : [id : Nat, acc : SUBSET {"ours", "other"}]]
      /\ driver' \in [pc : {"idle", "listing", "listed", "asking"}, list : SUBSET {"ours", "other"}, wasOpen : BOOLEAN]
  BY <1>1, <1>2 DEF ListsOK
<1>10. ListsOK'
  BY <1>1, <1>2, <1>9 DEF ListsOK, Taken
<1>11. WholeBatches' /\ FixListComplete'
  BY <1>9 DEF WholeBatches, FixListComplete
<1> QED
  BY <1>7, <1>8, <1>10, <1>11 DEF FixInv

LEMMA ReplyTimeoutKeeps == FixInv /\ ReplyTimeout => FixInv'
<1> SUFFICES ASSUME FixInv, ReplyTimeout PROVE FixInv'
  OBVIOUS
<1>1. LinkOK /\ AtVenueOK /\ AckOK /\ RequestsOK /\ ListsOK
  BY DEF FixInv
<1>2. /\ UNCHANGED <<atVenue, link, ack, heard>>
      /\ waiters' = [waiters EXCEPT !.snap = NoSnap, !.status = FALSE]
      /\ driver' = [driver EXCEPT !.pc = "idle", !.list = {}]
  BY DEF ReplyTimeout
<1>3. RequestsOK' /\ NoStepBack
  BY <1>1, <1>2, SendKeeps, RequestsAre
<1>4. LinkOK' /\ AtVenueOK' /\ RequestsOK' /\ RepliesOK' /\ HeardOK' /\ ExecutionsAddUp'
  <2>1. link' \in [up : BOOLEAN, nudged : BOOLEAN, toVenue : Seq(Request), toOms : Seq(Reply)]
    BY <1>1, <1>2 DEF LinkOK
  <2> QED
    BY <1>2, <1>3, <2>1, QuietKeeps
<1>5. AckOK'
  BY <1>1, <1>2 DEF AckOK, Taken
<1>6. /\ waiters'.snap = NoSnap /\ driver'.pc = "idle" /\ driver'.list = {}
      /\ driver'.wasOpen = driver.wasOpen
      /\ waiters' \in [ack : BOOLEAN, status : BOOLEAN, snap : [id : Nat, acc : SUBSET {"ours", "other"}]]
      /\ driver' \in [pc : {"idle", "listing", "listed", "asking"}, list : SUBSET {"ours", "other"}, wasOpen : BOOLEAN]
  BY <1>1, <1>2 DEF ListsOK, NoSnap
<1>7. ListsOK'
  BY <1>1, <1>2, <1>6 DEF ListsOK, Taken, NoSnap
<1>8. WholeBatches' /\ FixListComplete'
  BY <1>6 DEF WholeBatches, FixListComplete
<1> QED
  BY <1>4, <1>5, <1>7, <1>8 DEF FixInv

\* Nothing is under way any more; what was is lost.
LEMMA LogoutKeeps == FixInv /\ Logout => FixInv'
<1> SUFFICES ASSUME FixInv, Logout PROVE FixInv'
  OBVIOUS
<1>1. /\ LinkOK /\ AtVenueOK /\ AckOK /\ RequestsOK /\ ListsOK /\ RepliesOK /\ HeardOK /\ ExecutionsAddUp
      /\ FixListComplete
  BY DEF FixInv
<1>2. PICK l : /\ l = LostQty(link.toOms) /\ UNCHANGED <<atVenue, waiters, ack, driver>>
               /\ heard' = [heard EXCEPT !.lost = @ + l]
               /\ link' = [link EXCEPT !.up = FALSE, !.toVenue = <<>>, !.toOms = <<>>]
  BY DEF Logout
<1>3. PICK a \in Nat : /\ AddUp(Unreported(link.toOms), a, atVenue.exec)
                       /\ heard.close = "none" => a = heard.fills + heard.lost
  BY <1>1 DEF ExecutionsAddUp
<1>4. atVenue.exec \in Nat /\ link.toOms \in Seq(Reply)
  BY <1>1, FixAssumption DEF AtVenueOK, LinkOK
<1>5. /\ l = atVenue.exec - a /\ a <= atVenue.exec
      /\ (\A i \in 1..Len(link.toOms) : FixQty(link.toOms[i]) = 0) => a = atVenue.exec
  <2>1. /\ Unreported(link.toOms) \in Seq(Int) /\ Len(Unreported(link.toOms)) = Len(link.toOms)
        /\ \A i \in 1..Len(link.toOms) :
             Unreported(link.toOms)[i] = FixQty(link.toOms[i]) /\ FixQty(link.toOms[i]) \in Nat
    BY <1>4, UnreportedType
  <2>2. \A i \in 1..Len(Unreported(link.toOms)) : Unreported(link.toOms)[i] >= 0
    BY <2>1
  <2>3. a <= atVenue.exec /\ ((\A i \in 1..Len(Unreported(link.toOms)) : Unreported(link.toOms)[i] = 0) => a = atVenue.exec)
    BY <1>3, <2>1, <2>2, AddUpBounds
  <2>4. a \in Int /\ atVenue.exec \in Int
    BY <1>4
  <2>5. LostQty(link.toOms) = atVenue.exec - a
    BY <1>3, <1>4, <2>4, LostQtyIs
  <2> QED
    BY <1>2, <2>1, <2>3, <2>5
<1>6. l \in Nat
  BY <1>4, <1>5
<1>7. LinkOK'
  <2>1. <<>> \in Seq(Request) /\ <<>> \in Seq(Reply)
    OBVIOUS
  <2> QED
    BY <1>1, <1>2, <2>1 DEF LinkOK
<1>8. link'.toVenue = <<>> /\ link'.toOms = <<>> /\ Len(link'.toVenue) = 0 /\ Len(link'.toOms) = 0
  BY <1>1, <1>2 DEF LinkOK
<1>9. RequestsOK' /\ RepliesOK'
  BY <1>8 DEF RequestsOK, RepliesOK, CancelLast
<1>10. Settled => Settled'
  BY <1>2, <1>8 DEF Settled
<1>11. AtVenueOK' /\ AckOK' /\ ListsOK' /\ FixListComplete'
  BY <1>1, <1>2 DEF AtVenueOK, AckOK, ListsOK, FixListComplete, Taken, OursOpen
<1>12. WholeBatches'
  BY <1>8 DEF WholeBatches
<1>13. /\ heard' \in [fills : Nat, cum : Nat, lost : Nat, close : {"none", "filled", "refused", "bare", "terminal"}]
       /\ heard'.fills = heard.fills /\ heard'.cum = heard.cum /\ heard'.close = heard.close
       /\ heard'.lost = heard.lost + l
       /\ heard.fills \in Nat /\ heard.lost \in Nat
  BY <1>1, <1>2, <1>6 DEF HeardOK
<1>14. HeardOK'
  <2>1. heard.close = "bare" => heard'.fills + heard'.lost = atVenue.exec
    <3> SUFFICES ASSUME heard.close = "bare" PROVE heard'.fills + heard'.lost = atVenue.exec
      OBVIOUS
    <3>1. heard.fills + heard.lost = atVenue.exec /\ a = atVenue.exec
      BY <1>1, <1>5 DEF HeardOK
    <3>2. l = 0
      BY <1>4, <1>5, <3>1
    <3> QED
      BY <1>13, <3>1, <3>2
  <2> QED
    BY <1>1, <1>2, <1>8, <1>10, <1>13, <2>1 DEF HeardOK
<1>15. ExecutionsAddUp'
  <2>1. AddUp(Unreported(link'.toOms), atVenue.exec, atVenue.exec)
    <3>1. link'.toOms \in Seq(Reply)
      BY <1>8
    <3>2. Len(Unreported(link'.toOms)) = 0
      BY <1>8, <3>1, UnreportedType
    <3> QED
      BY <1>4, <3>2, NothingAddsUp
  <2>2. heard'.close = "none" => atVenue.exec = heard'.fills + heard'.lost
    <3>1. heard.close = "none" => a = heard.fills + heard.lost
      BY <1>3
    <3>2. l = atVenue.exec - a
      BY <1>5
    <3>3. \A f, x, e \in Nat : e = f + (x + (e - (f + x)))
      OBVIOUS
    <3> QED
      BY <1>4, <1>13, <3>1, <3>2, <3>3, SMTT(30)
  <2> QED
    BY <1>2, <1>4, <2>1, <2>2 DEF ExecutionsAddUp
<1> QED
  BY <1>7, <1>9, <1>11, <1>12, <1>14, <1>15 DEF FixInv

\* The venue sends something: a trade, or something else.
LEMMA ReportKeeps ==
  ASSUME FixInv, AtVenueOK', NoStepBack, NEW msgs, msgs \in Seq(Reply), Len(msgs) >= 1,
         link'.toOms = IF link.up THEN link.toOms \o msgs ELSE link.toOms,
         \A i \in 1..Len(msgs) : ReplyTrue(msgs[i])',
         \A i \in 2..Len(msgs) : FixQty(msgs[i]) = 0,
         atVenue'.exec = atVenue.exec + FixQty(msgs[1]),
         FixQty(msgs[1]) # 0 => atVenue.status \in {"new", "partial"},
         heard' = [heard EXCEPT !.lost = IF link.up THEN @ ELSE @ + FixQty(msgs[1])]
  PROVE  RepliesOK' /\ HeardOK' /\ ExecutionsAddUp' /\ link'.toOms \in Seq(Reply)
<1>1. /\ LinkOK /\ AtVenueOK /\ RepliesOK /\ HeardOK /\ ExecutionsAddUp
  BY DEF FixInv
<1> DEFINE s == link.toOms
           t == link'.toOms
           q == FixQty(msgs[1])
<1>2. s \in Seq(Reply) /\ Len(s) \in Nat /\ Len(msgs) \in Nat /\ (~ link.up => s = <<>>)
      /\ (\A i \in 1..Len(s) : s[i] \in Reply) /\ (\A i \in 1..Len(msgs) : msgs[i] \in Reply)
  BY <1>1 DEF LinkOK
<1>3. q \in Nat /\ atVenue.exec \in Nat
  <2>1. msgs[1] \in Reply
    BY <1>2
  <2> QED
    BY <1>1, <2>1, FixAssumption, ReplyIs DEF AtVenueOK
<1>4. t \in Seq(Reply)
  BY <1>2
<1>5. \A i \in 1..Len(t) : \/ i \in 1..Len(s) /\ t[i] = s[i]
                           \/ \E k \in 1..Len(msgs) : i = Len(s) + k /\ t[i] = msgs[k]
  <2>1. CASE link.up
    <3> SUFFICES ASSUME NEW i \in 1..Len(t), i \notin 1..Len(s)
                 PROVE  \E k \in 1..Len(msgs) : i = Len(s) + k /\ t[i] = msgs[k]
      BY <1>2, <2>1
    <3>1. i - Len(s) \in 1..Len(msgs) /\ i = Len(s) + (i - Len(s))
      BY <1>2, <2>1
    <3>2. t[i] = msgs[i - Len(s)]
      BY <1>2, <2>1, <3>1
    <3> QED
      BY <3>1, <3>2
  <2>2. CASE ~ link.up
    BY <2>2
  <2> QED
    BY <2>1, <2>2
<1>6. Len(t) >= Len(s) /\ \A i \in 1..Len(s) : t[i] = s[i]
  BY <1>2
<1>7. \A m \in Reply : ReplyTrue(m) => ReplyTrue(m)'
  BY <1>1, RepliesStay
<1>8. ASSUME NEW i \in 1..Len(t) PROVE ReplyTrue(link.toOms[i])'
  <2>1. CASE i \in 1..Len(s) /\ t[i] = s[i]
    <3>1. PICK m \in Reply : m = s[i] /\ ReplyTrue(m)
      BY <1>1, <1>2, <2>1 DEF RepliesOK
    <3>2. t[i] = m /\ ReplyTrue(m)'
      BY <1>7, <2>1, <3>1
    <3> HIDE DEF t
    <3> QED
      BY <3>2 DEF ReplyTrue, ExecTrue, StatusTrue, t
  <2>2. CASE \E k \in 1..Len(msgs) : t[i] = msgs[k]
    <3>1. PICK k \in 1..Len(msgs) : t[i] = msgs[k]
      BY <2>2
    <3>2. ReplyTrue(msgs[k])'
      OBVIOUS
    <3> QED
      BY <3>1, <3>2 DEF ReplyTrue, ExecTrue, StatusTrue
  <2> QED
    BY <1>5, <2>1, <2>2
<1>9. q # 0 => \A i \in 1..Len(s) : ~ (s[i].kind = "exec" /\ s[i].type = "4")
  BY <1>1 DEF RepliesOK, ReplyTrue, ExecTrue
<1>10. CancelLast(t)
  <2> SUFFICES ASSUME NEW i \in 1..Len(t), t[i].kind = "exec", t[i].type = "4", NEW j \in (i + 1)..Len(t)
               PROVE  FixQty(t[j]) = 0
    BY DEF CancelLast
  <2>1. Len(t) \in Nat /\ i \in Nat /\ j \in Nat /\ i < j /\ j \in 1..Len(t)
    BY <1>4
  <2> HIDE DEF t, s, q
  <2>2. CASE j \in 1..Len(s) /\ t[j] = s[j]
    <3>1. i \in 1..Len(s) /\ t[i] = s[i] /\ j \in (i + 1)..Len(s)
      BY <1>2, <1>6, <2>1, <2>2
    <3>2. CancelLast(s)
      BY <1>1 DEF RepliesOK, s
    <3> QED
      BY <2>2, <3>1, <3>2 DEF CancelLast
  <2>3. ASSUME NEW k \in 1..Len(msgs), j = Len(s) + k, t[j] = msgs[k] PROVE FixQty(t[j]) = 0
    <3>1. CASE k \in 2..Len(msgs)
      BY <2>3, <3>1
    <3>2. CASE k = 1
      <4>1. i \in 1..Len(s)
        BY <1>2, <2>1, <2>3, <3>2
      <4>2. q = 0
        BY <1>6, <1>9, <4>1
      <4> QED
        BY <2>3, <3>2, <4>2 DEF q
    <3> QED
      BY <1>2, <2>3, <3>1, <3>2
  <2> QED
    BY <1>5, <2>1, <2>2, <2>3
<1>11. RepliesOK'
  BY <1>8, <1>10 DEF RepliesOK, CancelLast
<1>12. PICK a \in Nat : /\ AddUp(Unreported(s), a, atVenue.exec)
                        /\ heard.close = "none" => a = heard.fills + heard.lost
  BY <1>1 DEF ExecutionsAddUp
<1>13. /\ heard'.fills = heard.fills /\ heard'.cum = heard.cum /\ heard'.close = heard.close
       /\ heard'.lost = (IF link.up THEN heard.lost ELSE heard.lost + q)
       /\ heard.fills \in Nat /\ heard.lost \in Nat /\ heard.cum \in Nat
       /\ heard' \in [fills : Nat, cum : Nat, lost : Nat, close : {"none", "filled", "refused", "bare", "terminal"}]
  BY <1>1, <1>3 DEF HeardOK
<1>14. ExecutionsAddUp'
  <2>1. CASE link.up
    <3>1. AddUp(Unreported(s \o msgs), a, atVenue.exec + q)
      <4> HIDE DEF s
      <4> QED
        BY <1>2, <1>12, UnreportedMore
    <3> QED
      BY <1>12, <1>13, <2>1, <3>1 DEF ExecutionsAddUp
  <2>2. CASE ~ link.up
    <3>1. Len(Unreported(t)) = 0
      BY <1>2, <1>4, <2>2, UnreportedType
    <3>2. AddUp(Unreported(t), a + q, a + q)
      BY <1>3, <1>12, <3>1, NothingAddsUp
    <3>3. a = atVenue.exec
      <4>1. /\ Unreported(s) \in Seq(Int) /\ Len(Unreported(s)) = 0
        BY <1>2, <2>2, UnreportedType
      <4>2. \A i \in 1..Len(Unreported(s)) : Unreported(s)[i] >= 0 /\ Unreported(s)[i] = 0
        BY <4>1
      <4> HIDE DEF s
      <4> QED
        BY <1>12, <4>1, <4>2, AddUpBounds
    <3>4. a + q \in Nat /\ atVenue'.exec = a + q
      BY <1>3, <1>12, <3>3
    <3>5. heard'.close = "none" => a + q = heard'.fills + heard'.lost
      <4> HIDE DEF q
      <4> QED
        BY <1>3, <1>12, <1>13, <2>2
    <3> QED
      BY <3>2, <3>4, <3>5 DEF ExecutionsAddUp
  <2> QED
    BY <2>1, <2>2
<1>15. HeardOK'
  <2>1. heard'.fills <= atVenue'.exec /\ heard'.cum <= atVenue'.exec
    <3>1. heard.fills <= atVenue.exec /\ heard.cum <= atVenue.exec /\ atVenue'.exec = atVenue.exec + q
      BY <1>1 DEF HeardOK
    <3> HIDE DEF q
    <3> QED
      BY <1>3, <1>13, <3>1
  <2>2. atVenue.status \in FixClosed => atVenue' = atVenue
    BY DEF NoStepBack, Settled
  <2>3. heard'.close \in {"refused", "filled"} => atVenue'.status = heard'.close
    BY <1>1, <1>13, <2>2 DEF HeardOK, FixClosed
  <2>4. heard'.close = "terminal" => heard'.cum = atVenue'.exec /\ Settled'
    BY <1>1, <1>13 DEF HeardOK, NoStepBack
  <2>5. ASSUME heard'.close = "bare"
        PROVE  /\ atVenue'.status = "canceled" /\ heard'.fills + heard'.lost = atVenue'.exec
               /\ \A i \in 1..Len(t) : FixQty(t[i]) = 0
    <3>1. atVenue.status = "canceled" /\ heard.fills + heard.lost = atVenue.exec
          /\ \A i \in 1..Len(s) : FixQty(s[i]) = 0
      BY <1>1, <1>13, <2>5 DEF HeardOK
    <3>2. atVenue' = atVenue /\ q = 0
      BY <2>2, <3>1 DEF FixClosed
    <3>3. \A k \in 1..Len(msgs) : FixQty(msgs[k]) = 0
      <4>1. \A k \in 1..Len(msgs) : k = 1 \/ k \in 2..Len(msgs)
        BY <1>2
      <4> QED
        BY <3>2, <4>1
    <3>4. \A i \in 1..Len(t) : FixQty(t[i]) = 0
      <4> HIDE DEF t, s
      <4> QED
        BY <1>5, <3>1, <3>3
    <3>5. heard'.lost = heard.lost
      <4> HIDE DEF q
      <4> QED
        BY <1>13, <3>2
    <3> QED
      BY <1>13, <3>1, <3>2, <3>4, <3>5
  <2> QED
    BY <1>13, <2>1, <2>3, <2>4, <2>5 DEF HeardOK
<1> QED
  BY <1>4, <1>11, <1>14, <1>15

\* A batch that comes while our order is open has it.
LEMMA BatchesGrow ==
  ASSUME FixInv, NoStepBack, UNCHANGED <<waiters, driver>>, NEW msgs, msgs \in Seq(Reply),
         link'.toOms = IF link.up THEN link.toOms \o msgs ELSE link.toOms,
         \A i \in 1..Len(msgs) : msgs[i].kind = "status" /\ msgs[i].last /\ OursOpen' =>
           \E j \in 1..i : msgs[j].kind = "status" /\ msgs[j].id = msgs[i].id /\ msgs[j].order = "ours"
  PROVE  WholeBatches' /\ FixListComplete'
<1>1. LinkOK /\ ListsOK /\ WholeBatches /\ FixListComplete /\ AtVenueOK
  BY DEF FixInv
<1>2. driver.wasOpen /\ OursOpen' => OursOpen
  <2>1. driver.wasOpen => Taken
    BY <1>1 DEF ListsOK
  <2>2. Taken /\ ~ OursOpen => atVenue.status \in FixClosed
    BY <1>1 DEF Taken, OursOpen, AtVenueOK, FixStatuses
  <2>3. atVenue.status \in FixClosed => atVenue' = atVenue
    BY DEF NoStepBack, Settled
  <2> QED
    BY <2>1, <2>2, <2>3 DEF OursOpen
<1>3. FixListComplete'
  BY <1>1, <1>2 DEF FixListComplete
<1> DEFINE s == link.toOms
           t == link'.toOms
<1>4. s \in Seq(Reply) /\ Len(s) \in Nat /\ Len(msgs) \in Nat
  BY <1>1 DEF LinkOK
<1>5. ASSUME driver.pc = "listing", driver.wasOpen, OursOpen', NEW i \in 1..Len(t),
             t[i].kind = "status", t[i].id = waiters.snap.id, t[i].last
      PROVE  \/ "ours" \in waiters.snap.acc
             \/ \E j \in 1..i : /\ t[j].kind = "status" /\ t[j].id = waiters.snap.id /\ t[j].order = "ours"
  <2>1. CASE i \in 1..Len(s)
    <3>1. \A j \in 1..i : j \in 1..Len(s) /\ t[j] = s[j]
      BY <1>4, <2>1
    <3>2. i \in 1..i
      BY <1>4, <2>1
    <3>3. \/ "ours" \in waiters.snap.acc
          \/ \E j \in 1..i : /\ s[j].kind = "status" /\ s[j].id = waiters.snap.id /\ s[j].order = "ours"
      <4>1. t[i] = s[i]
        BY <3>1, <3>2
      <4> HIDE DEF t
      <4> QED
        BY <1>1, <1>2, <1>5, <2>1, <4>1 DEF WholeBatches
    <3> HIDE DEF s, t
    <3> QED
      BY <3>1, <3>3
  <2>2. CASE i \notin 1..Len(s)
    <3>1. link.up
      BY <2>2
    <3>2. i - Len(s) \in 1..Len(msgs) /\ i = Len(s) + (i - Len(s))
      BY <1>4, <2>2, <3>1
    <3>7. t[i] = msgs[i - Len(s)]
      BY <1>4, <2>2, <3>1, <3>2
    <3>3. PICK k \in 1..Len(msgs) : i = Len(s) + k /\ t[i] = msgs[k]
      <4> HIDE DEF s, t
      <4> QED
        BY <3>2, <3>7
    <3>4. PICK j \in 1..k : msgs[j].kind = "status" /\ msgs[j].id = msgs[k].id /\ msgs[j].order = "ours"
      BY <1>5, <3>3
    <3>5. j \in 1..Len(msgs) /\ Len(s) + j \in 1..i
      BY <1>4, <3>3
    <3>6. t[Len(s) + j] = msgs[j]
      BY <1>4, <3>1, <3>5
    <3> HIDE DEF s, t
    <3> QED
      BY <1>5, <3>3, <3>4, <3>5, <3>6
  <2> QED
    BY <2>1, <2>2
<1>6. WholeBatches'
  BY <1>5 DEF WholeBatches
<1> QED
  BY <1>3, <1>6

LEMMA RepliesAre ==
  /\ \A q \in Nat, k \in {"0", "4", "8", "F", "C"} : ExecReport(k, q) \in Reply
  /\ \A id \in Nat, o \in {"ours", "other"}, st \in FixStatuses, l \in BOOLEAN :
       AtVenueOK => StatusReply(id, o, st, l) \in Reply
<1>1. AtVenueOK => atVenue.exec \in Nat
  BY FixAssumption DEF AtVenueOK
<1> QED
  BY <1>1 DEF ExecReport, StatusReply, Reply

\* A report of the order itself, alone.
LEMMA OneReport ==
  ASSUME NEW m, m \in Reply
  PROVE  /\ <<m>> \in Seq(Reply) /\ Len(<<m>>) = 1 /\ <<m>>[1] = m
         /\ \A i \in 1..Len(<<m>>) : i = 1
         /\ \A i \in 2..Len(<<m>>) : FixQty(<<m>>[i]) = 0
OBVIOUS

LEMMA VenueMovesKeeps == FixInv /\ VenueMoves => FixInv'
<1> SUFFICES ASSUME FixInv, VenueMoves PROVE FixInv'
  OBVIOUS
<1>1. LinkOK /\ AtVenueOK /\ AckOK /\ RequestsOK /\ ListsOK /\ HeardOK
  BY DEF FixInv
<1>2. /\ atVenue.status \in {"new", "partial"} /\ UNCHANGED <<waiters, ack, driver>>
      /\ atVenue.exec \in Nat /\ FixLots \in Nat /\ atVenue.exec < FixLots
  BY <1>1, FixAssumption DEF VenueMoves, AtVenueOK
<1>3. PICK q \in Nat, k \in {"F", "C"}, st \in {"partial", "filled", "expired"} :
        /\ k = "C" => q = 0
        /\ q <= FixLots - atVenue.exec
        /\ st = "filled" <=> atVenue.exec + q = FixLots
        /\ atVenue' = [status |-> st, exec |-> atVenue.exec + q]
        /\ link' = Report(link, <<ExecReport(k, q)>>)
        /\ heard' = [heard EXCEPT !.lost = IF link.up THEN @ ELSE @ + q]
  <2>1. ASSUME NEW q \in 1..(FixLots - atVenue.exec),
               atVenue' = [exec |-> atVenue.exec + q,
                           status |-> IF atVenue.exec + q = FixLots THEN "filled" ELSE "partial"],
               link' = Report(link, <<ExecReport("F", q)>>),
               heard' = [heard EXCEPT !.lost = IF link.up THEN @ ELSE @ + q]
        PROVE  \E r \in Nat, k \in {"F", "C"}, st \in {"partial", "filled", "expired"} :
                 /\ k = "C" => r = 0
                 /\ r <= FixLots - atVenue.exec
                 /\ st = "filled" <=> atVenue.exec + r = FixLots
                 /\ atVenue' = [status |-> st, exec |-> atVenue.exec + r]
                 /\ link' = Report(link, <<ExecReport(k, r)>>)
                 /\ heard' = [heard EXCEPT !.lost = IF link.up THEN @ ELSE @ + r]
    <3>1. q \in Nat /\ q <= FixLots - atVenue.exec
      BY <1>2
    <3> DEFINE st == IF atVenue.exec + q = FixLots THEN "filled" ELSE "partial"
    <3>2. st \in {"partial", "filled", "expired"} /\ (st = "filled" <=> atVenue.exec + q = FixLots)
          /\ atVenue' = [status |-> st, exec |-> atVenue.exec + q]
      BY <2>1
    <3> HIDE DEF st
    <3> QED
      BY <2>1, <3>1, <3>2
  <2>2. ASSUME atVenue' = [atVenue EXCEPT !.status = "expired"],
               link' = Report(link, <<ExecReport("C", 0)>>), UNCHANGED heard
        PROVE  \E r \in Nat, k \in {"F", "C"}, st \in {"partial", "filled", "expired"} :
                 /\ k = "C" => r = 0
                 /\ r <= FixLots - atVenue.exec
                 /\ st = "filled" <=> atVenue.exec + r = FixLots
                 /\ atVenue' = [status |-> st, exec |-> atVenue.exec + r]
                 /\ link' = Report(link, <<ExecReport(k, r)>>)
                 /\ heard' = [heard EXCEPT !.lost = IF link.up THEN @ ELSE @ + r]
    <3>1. atVenue' = [status |-> "expired", exec |-> atVenue.exec + 0] /\ atVenue.exec + 0 # FixLots
          /\ 0 <= FixLots - atVenue.exec /\ 0 \in Nat
      BY <1>1, <1>2, <2>2 DEF AtVenueOK
    <3>2. heard' = [heard EXCEPT !.lost = IF link.up THEN @ ELSE @ + 0]
      BY <1>1, <2>2 DEF HeardOK
    <3> QED
      BY <2>2, <3>1, <3>2
  <2> QED
    BY <2>1, <2>2 DEF VenueMoves
<1> DEFINE m == ExecReport(k, q)
           msgs == <<m>>
<1>4. m \in Reply /\ m.kind = "exec" /\ m.type = k /\ m.qty = q /\ FixQty(m) = q
  BY RepliesAre DEF ExecReport, FixQty
<1> HIDE DEF m
<1>5. /\ msgs \in Seq(Reply) /\ Len(msgs) = 1 /\ msgs[1] = m /\ (\A i \in 1..Len(msgs) : i = 1)
      /\ \A i \in 2..Len(msgs) : FixQty(msgs[i]) = 0
  BY <1>4, OneReport
<1> HIDE DEF msgs
<1>6. /\ link'.toOms = (IF link.up THEN link.toOms \o msgs ELSE link.toOms)
      /\ link' = [link EXCEPT !.toOms = link'.toOms]
      /\ link'.toVenue = link.toVenue /\ link'.up = link.up /\ link'.nudged = link.nudged
  BY <1>1, <1>3 DEF Report, LinkOK, msgs, m
<1>7. AtVenueOK'
  <2>1. atVenue.exec + q \in 0..FixLots
    BY <1>2, <1>3
  <2> QED
    BY <1>3, <2>1 DEF AtVenueOK, FixStatuses, FixClosed
<1>8. NoStepBack
  BY <1>2, <1>3 DEF NoStepBack, Taken, Settled, FixClosed
<1>9. ReplyTrue(m)'
  BY <1>3, <1>4 DEF ReplyTrue, ExecTrue
<1>10. RepliesOK' /\ HeardOK' /\ ExecutionsAddUp' /\ link'.toOms \in Seq(Reply)
  <2>1. \A i \in 1..Len(msgs) : ReplyTrue(msgs[i])'
    BY <1>5, <1>9 DEF ReplyTrue, ExecTrue, StatusTrue
  <2>2. /\ atVenue'.exec = atVenue.exec + FixQty(msgs[1])
        /\ heard' = [heard EXCEPT !.lost = IF link.up THEN @ ELSE @ + FixQty(msgs[1])]
        /\ Len(msgs) >= 1
    BY <1>3, <1>4, <1>5
  <2> QED
    BY <1>2, <1>5, <1>6, <1>7, <1>8, <2>1, <2>2, ReportKeeps
<1>11. LinkOK'
  BY <1>1, <1>6, <1>10 DEF LinkOK
<1>12. RequestsOK'
  BY <1>1, <1>2, <1>6 DEF RequestsOK
<1>13. AckOK' /\ ListsOK'
  BY <1>1, <1>2, <1>3 DEF AckOK, ListsOK, Taken
<1>14. WholeBatches' /\ FixListComplete'
  <2>1. \A i \in 1..Len(msgs) : msgs[i].kind # "status"
    BY <1>4, <1>5
  <2> QED
    BY <1>2, <1>5, <1>6, <1>8, <2>1, BatchesGrow
<1> QED
  BY <1>7, <1>10, <1>11, <1>12, <1>13, <1>14 DEF FixInv

\* The head of what goes to the venue is taken; the rest is as it was.
LEMMA RequestTaken ==
  ASSUME LinkOK, RequestsOK, link.toVenue # <<>>, UNCHANGED ack, link'.toVenue = Tail(link.toVenue),
         atVenue.status = "absent" /\ Head(link.toVenue).kind # "D" => atVenue'.status = "absent"
  PROVE  /\ RequestsOK' /\ link'.toVenue \in Seq(Request) /\ Head(link.toVenue) \in Request
         /\ Head(link.toVenue).kind = "D" => atVenue.status = "absent" /\ ack.pc # "idle"
         /\ Head(link.toVenue).kind \in {"D", "H"} => ack.pc # "idle" /\ NoOrderOut(link'.toVenue)
         /\ NoOrderOut(link.toVenue) => NoOrderOut(link'.toVenue)
<1> DEFINE s == link.toVenue
           t == link'.toVenue
<1>1. /\ s \in Seq(Request) /\ t \in Seq(Request) /\ Head(s) = s[1] /\ Head(s) \in Request
      /\ Len(s) \in Nat /\ 1 \in 1..Len(s)
      /\ Len(t) = Len(s) - 1 /\ \A i \in 1..Len(t) : t[i] = s[i + 1] /\ i + 1 \in 2..Len(s) /\ i + 1 \in 1..Len(s)
  BY DEF LinkOK
<1>2. Len(t) \in Nat /\ \A i \in 1..Len(t) : \A j \in (i + 1)..Len(t) : j + 1 \in ((i + 1) + 1)..Len(s) /\ t[j] = s[j + 1]
  <2>1. Len(t) \in Nat
    BY <1>1
  <2> SUFFICES ASSUME NEW i \in 1..Len(t), NEW j \in (i + 1)..Len(t)
               PROVE  j + 1 \in ((i + 1) + 1)..Len(s) /\ t[j] = s[j + 1]
    BY <2>1
  <2>2. j \in 1..Len(t) /\ j + 1 \in ((i + 1) + 1)..Len(s)
    BY <1>1, <2>1
  <2> QED
    BY <1>1, <2>2
<1>3. /\ \A i \in 1..Len(s) : s[i].kind = "D" => atVenue.status = "absent"
      /\ \A i \in 1..Len(s) : s[i].kind \in {"D", "H"} =>
           ack.pc # "idle" /\ \A j \in (i + 1)..Len(s) : s[j].kind # "D"
  BY DEF RequestsOK
<1> HIDE DEF s, t
<1>4. s[1].kind \in {"D", "H"} => ack.pc # "idle" /\ NoOrderOut(t)
  <2>1. s[1].kind \in {"D", "H"} => \A j \in 2..Len(s) : s[j].kind # "D"
    BY <1>1, <1>3
  <2> QED
    BY <1>1, <1>3, <2>1 DEF NoOrderOut
<1>5. NoOrderOut(s) => NoOrderOut(t)
  BY <1>1 DEF NoOrderOut
<1>6. ASSUME NEW i \in 1..Len(t)
      PROVE  /\ t[i].kind = "D" => atVenue'.status = "absent"
             /\ t[i].kind \in {"D", "H"} => ack'.pc # "idle" /\ \A j \in (i + 1)..Len(t) : t[j].kind # "D"
  <2>1. t[i] = s[i + 1] /\ i + 1 \in 1..Len(s)
    BY <1>1
  <2>2. t[i].kind = "D" => s[1].kind # "D" /\ atVenue.status = "absent"
    BY <1>3, <1>4, <2>1 DEF NoOrderOut
  <2>3. t[i].kind \in {"D", "H"} => \A j \in (i + 1)..Len(t) : t[j].kind # "D"
    BY <1>2, <1>3, <2>1
  <2> QED
    BY <1>1, <1>3, <2>1, <2>2, <2>3 DEF s
<1>7. RequestsOK'
  BY <1>6 DEF RequestsOK, t
<1> QED
  BY <1>1, <1>3, <1>4, <1>5, <1>7 DEF s, t

\* The venue takes a request and answers.
LEMMA RepliedKeeps ==
  ASSUME FixInv, link.up, link.toVenue # <<>>, UNCHANGED <<waiters, ack, driver, heard>>,
         NEW msgs, msgs \in Seq(Reply), Len(msgs) >= 1, \A i \in 1..Len(msgs) : FixQty(msgs[i]) = 0,
         link' = Report([link EXCEPT !.toVenue = Tail(@)], msgs),
         AtVenueOK', AckOK', NoStepBack, atVenue'.exec = atVenue.exec,
         atVenue.status = "absent" /\ Head(link.toVenue).kind # "D" => atVenue'.status = "absent",
         \A i \in 1..Len(msgs) : ReplyTrue(msgs[i])',
         \A i \in 1..Len(msgs) : msgs[i].kind = "status" /\ msgs[i].last /\ OursOpen' =>
           \E j \in 1..i : msgs[j].kind = "status" /\ msgs[j].id = msgs[i].id /\ msgs[j].order = "ours"
  PROVE  FixInv'
<1>1. LinkOK /\ AtVenueOK /\ AckOK /\ RequestsOK /\ ListsOK /\ HeardOK
  BY DEF FixInv
<1>2. /\ link'.toOms = (IF link.up THEN link.toOms \o msgs ELSE link.toOms)
      /\ link'.toVenue = Tail(link.toVenue) /\ link'.up = link.up
      /\ link' = [link EXCEPT !.toVenue = link'.toVenue, !.toOms = link'.toOms]
  BY <1>1 DEF Report, LinkOK
<1>3. RequestsOK' /\ link'.toVenue \in Seq(Request)
  BY <1>1, <1>2, RequestTaken
<1>4. 1 \in 1..Len(msgs) /\ \A i \in 2..Len(msgs) : i \in 1..Len(msgs)
  OBVIOUS
<1>5. RepliesOK' /\ HeardOK' /\ ExecutionsAddUp' /\ link'.toOms \in Seq(Reply)
  <2>1. \A i \in 2..Len(msgs) : FixQty(msgs[i]) = 0
    BY <1>4
  <2>2. FixQty(msgs[1]) = 0 /\ atVenue.exec \in Nat
    BY <1>1, <1>4, FixAssumption DEF AtVenueOK
  <2>3. atVenue'.exec = atVenue.exec + FixQty(msgs[1])
    BY <2>2
  <2>4. heard' = [heard EXCEPT !.lost = IF link.up THEN @ ELSE @ + FixQty(msgs[1])]
    BY <1>1 DEF HeardOK
  <2> QED
    BY <1>2, <2>1, <2>2, <2>3, <2>4, ReportKeeps
<1>6. LinkOK'
  BY <1>1, <1>2, <1>3, <1>5, ZenonT(40) DEF LinkOK
<1>7. ListsOK'
  BY <1>1 DEF ListsOK, NoStepBack
<1>8. WholeBatches' /\ FixListComplete'
  BY <1>2, BatchesGrow
<1> QED
  BY <1>3, <1>5, <1>6, <1>7, <1>8 DEF FixInv

LEMMA TwoReports ==
  ASSUME NEW m, m \in Reply, NEW n, n \in Reply
  PROVE  /\ <<m, n>> \in Seq(Reply) /\ Len(<<m, n>>) = 2 /\ <<m, n>>[1] = m /\ <<m, n>>[2] = n
         /\ \A i \in 1..Len(<<m, n>>) : i = 1 \/ i = 2
OBVIOUS

\* A mass status batch: our order is in it if it is open, by the last report.
LEMMA BatchIs ==
  ASSUME AtVenueOK, NEW id, id \in Nat, NEW msgs, msgs \in MassStatusReplies(id)
  PROVE  /\ msgs \in Seq(Reply) /\ Len(msgs) >= 1
         /\ \A i \in 1..Len(msgs) :
              /\ msgs[i] \in Reply /\ msgs[i].kind = "status" /\ msgs[i].id = id /\ msgs[i].exec = atVenue.exec
              /\ msgs[i].status \in {"new", "partial"} /\ FixQty(msgs[i]) = 0
              /\ msgs[i].order = "ours" => OursOpen
              /\ msgs[i].last /\ OursOpen => \E j \in 1..i : j \in 1..Len(msgs) /\ msgs[j].order = "ours"
<1> DEFINE Says(m, o, x, l) == /\ m \in Reply /\ m.kind = "status" /\ m.id = id /\ m.exec = atVenue.exec
                               /\ m.status = x /\ FixQty(m) = 0 /\ m.order = o /\ m.last = l
<1>1. atVenue.status \in FixStatuses /\ "new" \in FixStatuses
  BY DEF AtVenueOK, FixStatuses
<1>2. ASSUME NEW o \in {"ours", "other"}, NEW x \in FixStatuses, NEW l \in BOOLEAN
      PROVE  Says(StatusReply(id, o, x, l), o, x, l)
  <2>1. StatusReply(id, o, x, l) \in Reply
    BY RepliesAre
  <2> QED
    BY <2>1 DEF StatusReply, FixQty
<1>3. ASSUME OursOpen, NEW m, Says(m, "ours", atVenue.status, FALSE), NEW n, Says(n, "other", "new", TRUE), msgs = <<m, n>>
      PROVE  \A i \in 1..Len(msgs) :
               /\ msgs[i] \in Reply /\ msgs[i].kind = "status" /\ msgs[i].id = id /\ msgs[i].exec = atVenue.exec
               /\ msgs[i].status \in {"new", "partial"} /\ FixQty(msgs[i]) = 0
               /\ msgs[i].last /\ OursOpen => \E j \in 1..i : j \in 1..Len(msgs) /\ msgs[j].order = "ours"
  <2>1. Len(msgs) = 2 /\ msgs[1] = m /\ msgs[2] = n /\ \A i \in 1..Len(msgs) : i = 1 \/ i = 2
    BY <1>3, TwoReports
  <2>2. m.status \in {"new", "partial"} /\ n.status \in {"new", "partial"}
    BY <1>3 DEF OursOpen
  <2>3. \A i \in 1..Len(msgs) : \E j \in 1..i : j \in 1..Len(msgs) /\ msgs[j].order = "ours"
    <3>1. \A i \in 1..Len(msgs) : 1 \in 1..i /\ 1 \in 1..Len(msgs)
      BY <2>1
    <3> QED
      BY <1>3, <2>1, <3>1
  <2>4. \A i \in 1..Len(msgs) : msgs[i] = m \/ msgs[i] = n
    BY <2>1
  <2> QED
    BY <1>3, <2>2, <2>3, <2>4
<1>4. ASSUME OursOpen, NEW m, Says(m, "other", "new", FALSE), NEW n, Says(n, "ours", atVenue.status, TRUE), msgs = <<m, n>>
      PROVE  \A i \in 1..Len(msgs) :
               /\ msgs[i] \in Reply /\ msgs[i].kind = "status" /\ msgs[i].id = id /\ msgs[i].exec = atVenue.exec
               /\ msgs[i].status \in {"new", "partial"} /\ FixQty(msgs[i]) = 0
               /\ msgs[i].last /\ OursOpen => \E j \in 1..i : j \in 1..Len(msgs) /\ msgs[j].order = "ours"
  <2>1. Len(msgs) = 2 /\ msgs[1] = m /\ msgs[2] = n /\ \A i \in 1..Len(msgs) : i = 1 \/ i = 2
    BY <1>4, TwoReports
  <2>2. m.status \in {"new", "partial"} /\ n.status \in {"new", "partial"}
    BY <1>4 DEF OursOpen
  <2>3. ASSUME NEW i \in 1..Len(msgs), msgs[i].last
        PROVE  \E j \in 1..i : j \in 1..Len(msgs) /\ msgs[j].order = "ours"
    <3>1. i = 2
      BY <1>4, <2>1, <2>3
    <3>2. 2 \in 1..i /\ 2 \in 1..Len(msgs)
      BY <2>1, <3>1
    <3> QED
      BY <1>4, <2>1, <3>2
  <2>4. \A i \in 1..Len(msgs) : msgs[i] = m \/ msgs[i] = n
    BY <2>1
  <2> QED
    BY <1>4, <2>2, <2>3, <2>4
<1>5. CASE OursOpen
  <2>1. \/ msgs = <<StatusReply(id, "ours", atVenue.status, FALSE), StatusReply(id, "other", "new", TRUE)>>
        \/ msgs = <<StatusReply(id, "other", "new", FALSE), StatusReply(id, "ours", atVenue.status, TRUE)>>
    BY <1>5 DEF MassStatusReplies, OursOpen
  <2> DEFINE m(l) == StatusReply(id, "ours", atVenue.status, l)
             n(l) == StatusReply(id, "other", "new", l)
  <2> HIDE DEF Says
  <2>2. ASSUME NEW l \in BOOLEAN PROVE Says(m(l), "ours", atVenue.status, l) /\ Says(n(l), "other", "new", l)
    BY <1>1, <1>2
  <2>3. /\ Says(m(FALSE), "ours", atVenue.status, FALSE) /\ Says(m(TRUE), "ours", atVenue.status, TRUE)
        /\ Says(n(FALSE), "other", "new", FALSE) /\ Says(n(TRUE), "other", "new", TRUE)
    <3> HIDE DEF m, n
    <3> QED
      BY <2>2
  <2>4. m(FALSE) \in Reply /\ m(TRUE) \in Reply /\ n(FALSE) \in Reply /\ n(TRUE) \in Reply
    <3> HIDE DEF m, n
    <3> QED
      BY <2>3 DEF Says
  <2>5. msgs = <<m(FALSE), n(TRUE)>> \/ msgs = <<n(FALSE), m(TRUE)>>
    BY <2>1
  <2> HIDE DEF m, n
  <2>6. msgs \in Seq(Reply) /\ Len(msgs) >= 1
    <3>1. \A x, y \in Reply : <<x, y>> \in Seq(Reply) /\ Len(<<x, y>>) = 2
      BY TwoReports
    <3>2. /\ <<m(FALSE), n(TRUE)>> \in Seq(Reply) /\ Len(<<m(FALSE), n(TRUE)>>) = 2
          /\ <<n(FALSE), m(TRUE)>> \in Seq(Reply) /\ Len(<<n(FALSE), m(TRUE)>>) = 2
      BY <2>4, <3>1
    <3>3. msgs \in Seq(Reply) /\ Len(msgs) = 2
      BY <2>5, <3>2, Zenon
    <3> QED
      BY <3>3
  <2> QED
    BY <1>3, <1>4, <1>5, <2>3, <2>5, <2>6
<1>6. CASE ~ OursOpen
  <2>1. msgs = <<StatusReply(id, "other", "new", TRUE)>>
    BY <1>6 DEF MassStatusReplies, OursOpen
  <2>2. Says(StatusReply(id, "other", "new", TRUE), "other", "new", TRUE)
    BY <1>1, <1>2
  <2> DEFINE m == StatusReply(id, "other", "new", TRUE)
  <2> HIDE DEF m
  <2>3. Says(m, "other", "new", TRUE) /\ msgs = <<m>>
    BY <2>1, <2>2 DEF m
  <2>4. msgs \in Seq(Reply) /\ Len(msgs) = 1 /\ msgs[1] = m /\ \A i \in 1..Len(msgs) : i = 1
    BY <2>3, OneReport
  <2> QED
    BY <1>6, <2>3, <2>4
<1> QED
  BY <1>5, <1>6

LEMMA VenueAnswersKeeps == FixInv /\ VenueAnswers => FixInv'
<1> SUFFICES ASSUME FixInv, VenueAnswers PROVE FixInv'
  OBVIOUS
<1>1. LinkOK /\ AtVenueOK /\ AckOK /\ RequestsOK /\ ListsOK /\ HeardOK
  BY DEF FixInv
<1>2. link.up /\ link.toVenue # <<>> /\ UNCHANGED <<waiters, ack, driver, heard>>
  BY DEF VenueAnswers
<1> DEFINE msg == Head(link.toVenue)
           rest == [link EXCEPT !.toVenue = Tail(@)]
<1>3. /\ msg \in Request /\ msg.kind \in {"D", "F", "H", "AF"} /\ (msg.kind = "AF" => msg.id \in Nat)
  <2>1. msg \in Request
    BY <1>1, <1>2 DEF LinkOK
  <2> HIDE DEF msg
  <2> QED
    BY <2>1, RequestIs
<1>4. atVenue.exec \in Nat /\ atVenue.status \in FixStatuses /\ DOMAIN atVenue = {"status", "exec"}
      /\ atVenue.exec <= atVenue.exec
  BY <1>1, FixAssumption DEF AtVenueOK
<1>5. rest.toVenue = Tail(link.toVenue) /\ rest.toOms = link.toOms /\ rest.up = link.up
  BY <1>1 DEF LinkOK
<1>6. CASE msg.kind = "D"
  <2>1. PICK v \in {<<"new", "0">>, <<"refused", "8">>} :
          /\ atVenue' = [atVenue EXCEPT !.status = v[1]]
          /\ link' = Report(rest, <<ExecReport(v[2], 0)>>)
    <3>1. \/ /\ atVenue' = [atVenue EXCEPT !.status = "new"]
             /\ link' = Report(rest, <<ExecReport("0", 0)>>)
          \/ /\ atVenue' = [atVenue EXCEPT !.status = "refused"]
             /\ link' = Report(rest, <<ExecReport("8", 0)>>)
      BY <1>6 DEF VenueAnswers
    <3> DEFINE a == <<"new", "0">>
               b == <<"refused", "8">>
    <3>2. a[1] = "new" /\ a[2] = "0" /\ b[1] = "refused" /\ b[2] = "8"
      OBVIOUS
    <3> HIDE DEF a, b
    <3>3. \/ /\ atVenue' = [atVenue EXCEPT !.status = a[1]]
             /\ link' = Report(rest, <<ExecReport(a[2], 0)>>)
          \/ /\ atVenue' = [atVenue EXCEPT !.status = b[1]]
             /\ link' = Report(rest, <<ExecReport(b[2], 0)>>)
      BY <3>1, <3>2
    <3> QED
      BY <3>3 DEF a, b
  <2>2. (v[1] = "new" /\ v[2] = "0") \/ (v[1] = "refused" /\ v[2] = "8")
    OBVIOUS
  <2> DEFINE m == ExecReport(v[2], 0)
             msgs == <<m>>
  <2>3. m \in Reply /\ m.kind = "exec" /\ m.type = v[2] /\ m.qty = 0 /\ FixQty(m) = 0
    BY <2>2, RepliesAre DEF ExecReport, FixQty
  <2> HIDE DEF m
  <2>4. /\ msgs \in Seq(Reply) /\ Len(msgs) = 1 /\ msgs[1] = m /\ \A i \in 1..Len(msgs) : i = 1
    BY <2>3, OneReport
  <2> HIDE DEF msgs
  <2>5. /\ atVenue.status = "absent" /\ ack.pc # "idle" /\ atVenue.exec = 0
    <3>1. 1 \in 1..Len(link.toVenue) /\ link.toVenue[1] = msg
      BY <1>1, <1>2 DEF LinkOK
    <3>2. atVenue.status = "absent" /\ ack.pc # "idle"
      BY <1>1, <1>6, <3>1 DEF RequestsOK
    <3> QED
      BY <1>1, <3>2 DEF AtVenueOK
  <2>6. atVenue'.status = v[1] /\ atVenue'.exec = 0 /\ atVenue' = [status |-> v[1], exec |-> 0]
    BY <1>1, <2>1, <2>5 DEF AtVenueOK
  <2>7. AtVenueOK'
    <3>1. 0 \in 0..FixLots /\ FixLots # 0
      BY FixAssumption
    <3> QED
      BY <2>2, <2>6, <3>1 DEF AtVenueOK, FixStatuses, FixClosed
  <2>8. ~ Settled
    <3>1. 1 \in 1..Len(link.toVenue) /\ link.toVenue[1] = msg
      BY <1>1, <1>2 DEF LinkOK
    <3> QED
      BY <1>6, <2>5, <3>1 DEF Settled, FixClosed
  <2>9. NoStepBack
    BY <1>4, <2>5, <2>6, <2>8 DEF NoStepBack, Taken
  <2>10. AckOK'
    BY <1>1, <1>2, <2>5 DEF AckOK, Taken
  <2>11. ReplyTrue(m)'
    BY <2>2, <2>3, <2>6 DEF ReplyTrue, ExecTrue, Taken
  <2>12. \A i \in 1..Len(msgs) : ReplyTrue(msgs[i])' /\ FixQty(msgs[i]) = 0 /\ msgs[i].kind # "status"
    BY <2>3, <2>4, <2>11 DEF ReplyTrue, ExecTrue, StatusTrue
  <2>13. link' = Report(rest, msgs)
    BY <2>1 DEF msgs, m
  <2>14. Len(msgs) >= 1 /\ (\A i \in 1..Len(msgs) : FixQty(msgs[i]) = 0) /\ \A i \in 1..Len(msgs) : ReplyTrue(msgs[i])'
    BY <2>4, <2>12
  <2>15. \A i \in 1..Len(msgs) : msgs[i].kind = "status" /\ msgs[i].last /\ OursOpen' =>
           \E j \in 1..i : msgs[j].kind = "status" /\ msgs[j].id = msgs[i].id /\ msgs[j].order = "ours"
    BY <2>12
  <2>16. atVenue'.exec = atVenue.exec
    BY <2>5, <2>6
  <2>17. link' = Report([link EXCEPT !.toVenue = Tail(@)], msgs)
    BY <2>13
  <2>18. atVenue.status = "absent" /\ Head(link.toVenue).kind # "D" => atVenue'.status = "absent"
    BY <1>6
  <2> QED
    BY <1>2, <2>4, <2>7, <2>9, <2>10, <2>14, <2>15, <2>16, <2>17, <2>18, RepliedKeeps
<1>7. CASE msg.kind = "F" /\ atVenue.status \in {"new", "partial"}
  <2>1. /\ atVenue' = [atVenue EXCEPT !.status = "canceled"]
        /\ link' = Report(rest, <<ExecReport("4", 0)>>)
    BY <1>7 DEF VenueAnswers
  <2> DEFINE m == ExecReport("4", 0)
             msgs == <<m>>
  <2>2. m \in Reply /\ m.kind = "exec" /\ m.type = "4" /\ m.qty = 0 /\ FixQty(m) = 0
    BY RepliesAre DEF ExecReport, FixQty
  <2> HIDE DEF m
  <2>3. /\ msgs \in Seq(Reply) /\ Len(msgs) = 1 /\ msgs[1] = m /\ \A i \in 1..Len(msgs) : i = 1
    BY <2>2, OneReport
  <2> HIDE DEF msgs
  <2>4. atVenue'.status = "canceled" /\ atVenue'.exec = atVenue.exec
    BY <1>4, <2>1
  <2>5. AtVenueOK'
    BY <1>1, <1>7, <2>1 DEF AtVenueOK, FixStatuses, FixClosed
  <2>6. NoStepBack
    BY <1>4, <1>7, <2>4 DEF NoStepBack, Taken, Settled, FixClosed
  <2>7. AckOK'
    BY <1>1, <1>2, <1>7, <2>4 DEF AckOK, Taken
  <2>8. ReplyTrue(m)'
    BY <2>2, <2>4 DEF ReplyTrue, ExecTrue, Taken
  <2>9. \A i \in 1..Len(msgs) : ReplyTrue(msgs[i])' /\ FixQty(msgs[i]) = 0 /\ msgs[i].kind # "status"
    BY <2>2, <2>3, <2>8 DEF ReplyTrue, ExecTrue, StatusTrue
  <2>10. link' = Report(rest, msgs)
    BY <2>1 DEF msgs, m
  <2>11. Len(msgs) >= 1 /\ (\A i \in 1..Len(msgs) : FixQty(msgs[i]) = 0) /\ \A i \in 1..Len(msgs) : ReplyTrue(msgs[i])'
    BY <2>3, <2>9
  <2>12. \A i \in 1..Len(msgs) : msgs[i].kind = "status" /\ msgs[i].last /\ OursOpen' =>
           \E j \in 1..i : msgs[j].kind = "status" /\ msgs[j].id = msgs[i].id /\ msgs[j].order = "ours"
    BY <2>9
  <2>13. link' = Report([link EXCEPT !.toVenue = Tail(@)], msgs)
    BY <2>10
  <2>14. atVenue.status = "absent" /\ Head(link.toVenue).kind # "D" => atVenue'.status = "absent"
    BY <1>7
  <2> QED
    BY <1>2, <2>3, <2>4, <2>5, <2>6, <2>7, <2>11, <2>12, <2>13, <2>14, RepliedKeeps
<1>8. ASSUME UNCHANGED atVenue, msg.kind # "D"
      PROVE  /\ AtVenueOK' /\ AckOK' /\ (link'.toVenue = Tail(link.toVenue) => NoStepBack)
             /\ atVenue'.exec = atVenue.exec
             /\ msg.kind = "H" /\ link'.toVenue = Tail(link.toVenue) => ack.pc # "idle" /\ NoOrderOut(link'.toVenue)
  <2>1. AtVenueOK' /\ AckOK'
    BY <1>1, <1>2, <1>8 DEF AtVenueOK, AckOK, Taken
  <2>2. link'.toVenue = Tail(link.toVenue) =>
          /\ NoOrderOut(link.toVenue) => NoOrderOut(link'.toVenue)
          /\ msg.kind = "H" => ack.pc # "idle" /\ NoOrderOut(link'.toVenue)
    BY <1>1, <1>2, <1>8, RequestTaken
  <2>3. link'.toVenue = Tail(link.toVenue) => NoStepBack
    BY <1>2, <1>4, <1>8, <2>2 DEF NoStepBack, Taken, Settled, NoOrderOut
  <2> QED
    BY <1>8, <2>1, <2>2, <2>3
<1>9. CASE msg.kind = "F" /\ atVenue.status \notin {"new", "partial"}
  <2>1. link' = rest /\ UNCHANGED atVenue
    BY <1>9 DEF VenueAnswers
  <2>2. /\ link'.toVenue = Tail(link.toVenue) /\ link'.toOms = link.toOms /\ link'.up = link.up
        /\ link' = [link EXCEPT !.toVenue = link'.toVenue]
    BY <1>5, <2>1
  <2>3. NoStepBack /\ AckOK'
    BY <1>8, <1>9, <2>1, <2>2
  <2>4. RequestsOK' /\ link'.toVenue \in Seq(Request)
    BY <1>1, <1>2, <2>1, <2>2, RequestTaken
  <2>5. LinkOK' /\ AtVenueOK' /\ RepliesOK' /\ HeardOK' /\ ExecutionsAddUp'
    <3>1. link' \in [up : BOOLEAN, nudged : BOOLEAN, toVenue : Seq(Request), toOms : Seq(Reply)]
      BY <1>1, <2>2, <2>4 DEF LinkOK
    <3> QED
      BY <1>2, <2>1, <2>2, <2>3, <2>4, <3>1, QuietKeeps
  <2>6. ListsOK'
    BY <1>1, <1>2, <2>3 DEF ListsOK, NoStepBack
  <2>7. WholeBatches' /\ FixListComplete'
    BY <1>2, <2>1, <2>2, ListStays
  <2> QED
    BY <2>3, <2>4, <2>5, <2>6, <2>7 DEF FixInv
<1>10. CASE msg.kind = "AF"
  <2>1. PICK msgs \in MassStatusReplies(msg.id) : link' = Report(rest, msgs) /\ UNCHANGED atVenue
    BY <1>10 DEF VenueAnswers
  <2>2. PICK id, e : id = msg.id /\ e = atVenue.exec
    OBVIOUS
  <2>3. /\ msgs \in Seq(Reply) /\ Len(msgs) >= 1
        /\ \A i \in 1..Len(msgs) :
             /\ msgs[i] \in Reply /\ msgs[i].kind = "status" /\ msgs[i].id = id /\ msgs[i].exec = e
             /\ msgs[i].status \in {"new", "partial"} /\ FixQty(msgs[i]) = 0
             /\ msgs[i].order = "ours" => OursOpen
             /\ msgs[i].last /\ OursOpen => \E j \in 1..i : j \in 1..Len(msgs) /\ msgs[j].order = "ours"
    BY <1>1, <1>3, <1>10, <2>1, <2>2, BatchIs
  <2>4. /\ link'.toVenue = Tail(link.toVenue)
        /\ link' = Report([link EXCEPT !.toVenue = Tail(@)], msgs)
    BY <1>1, <1>5, <2>1 DEF Report, LinkOK
  <2>5. AtVenueOK' /\ AckOK' /\ NoStepBack /\ atVenue'.exec = atVenue.exec
    BY <1>8, <1>10, <2>1, <2>4
  <2>6. (OursOpen' <=> OursOpen) /\ (OursOpen => Taken')
    BY <2>1 DEF OursOpen, Taken
  <2>7. ASSUME NEW m \in Reply, m.kind = "status", m.exec = e, m.order = "ours" => OursOpen, m.status \in {"new", "partial"}
        PROVE  ReplyTrue(m)'
    <3>1. e <= atVenue'.exec
      BY <1>4, <2>2, <2>5
    <3>2. m.status \notin FixClosed
      BY <2>7 DEF FixClosed
    <3> QED
      BY <2>6, <2>7, <3>1, <3>2 DEF ReplyTrue, StatusTrue
  <2>8. \A i \in 1..Len(msgs) : ReplyTrue(msgs[i])'
    BY <2>3, <2>7
  <2>9. \A i \in 1..Len(msgs) : msgs[i].kind = "status" /\ msgs[i].last /\ OursOpen' =>
           \E j \in 1..i : msgs[j].kind = "status" /\ msgs[j].id = msgs[i].id /\ msgs[j].order = "ours"
    BY <2>3, <2>6
  <2>10. atVenue.status = "absent" /\ Head(link.toVenue).kind # "D" => atVenue'.status = "absent"
    BY <2>1
  <2>11. \A i \in 1..Len(msgs) : FixQty(msgs[i]) = 0
    BY <2>3
  <2> QED
    BY <1>2, <2>3, <2>4, <2>5, <2>8, <2>9, <2>10, <2>11, RepliedKeeps
<1>11. CASE msg.kind = "H"
  <2>1. PICK st, e : st = (IF atVenue.status = "absent" THEN "refused" ELSE atVenue.status) /\ e = atVenue.exec
    OBVIOUS
  <2>2. /\ link' = Report(rest, <<StatusReply(0, "ours", st, TRUE)>>) /\ UNCHANGED atVenue
    BY <1>11, <2>1 DEF VenueAnswers
  <2>3. PICK m : m = [kind |-> "status", id |-> 0, order |-> "ours", status |-> st, exec |-> e, last |-> TRUE]
    OBVIOUS
  <2>4. m = StatusReply(0, "ours", st, TRUE)
    BY <2>1, <2>3 DEF StatusReply
  <2>5. st \in FixStatuses
    BY <1>4, <2>1 DEF FixStatuses, FixClosed
  <2>6. m \in Reply
    BY <1>1, <2>4, <2>5, RepliesAre
  <2>7. m.kind = "status" /\ m.id = 0 /\ m.order = "ours" /\ m.status = st /\ m.exec = e /\ FixQty(m) = 0
    BY <2>3 DEF FixQty
  <2> DEFINE msgs == <<m>>
  <2>8. /\ msgs \in Seq(Reply) /\ Len(msgs) = 1 /\ msgs[1] = m /\ \A i \in 1..Len(msgs) : i = 1
    BY <2>6, OneReport
  <2>9. link' = Report([link EXCEPT !.toVenue = Tail(@)], msgs)
    BY <2>2, <2>4
  <2> HIDE DEF msgs
  <2>10. link'.toVenue = Tail(link.toVenue)
    BY <1>1, <1>5, <2>9 DEF Report, LinkOK
  <2>11. /\ AtVenueOK' /\ AckOK' /\ NoStepBack /\ atVenue'.exec = atVenue.exec
         /\ ack.pc # "idle" /\ NoOrderOut(link'.toVenue)
    BY <1>8, <1>11, <2>2, <2>10
  <2>12. st \in FixClosed => Settled'
    <3>1. atVenue.status \in {"absent", "refused"} \cup FixClosed => Settled'
      BY <1>2, <2>2, <2>11 DEF Settled, NoOrderOut, FixClosed
    <3> QED
      BY <2>1, <3>1 DEF FixClosed
  <2>13. ReplyTrue(m)'
    BY <1>4, <2>1, <2>2, <2>7, <2>12 DEF ReplyTrue, StatusTrue
  <2>14. (\A i \in 1..Len(msgs) : FixQty(msgs[i]) = 0) /\ (\A i \in 1..Len(msgs) : ReplyTrue(msgs[i])') /\ Len(msgs) >= 1
    BY <2>7, <2>8, <2>13
  <2>15. \A i \in 1..Len(msgs) : msgs[i].kind = "status" /\ msgs[i].last /\ OursOpen' =>
           \E j \in 1..i : msgs[j].kind = "status" /\ msgs[j].id = msgs[i].id /\ msgs[j].order = "ours"
    <3>1. 1 \in 1..1
      OBVIOUS
    <3> QED
      BY <2>7, <2>8, <3>1
  <2>16. atVenue.status = "absent" /\ Head(link.toVenue).kind # "D" => atVenue'.status = "absent"
    BY <2>2
  <2> QED
    BY <1>2, <2>8, <2>9, <2>11, <2>14, <2>15, <2>16, RepliedKeeps
<1> QED
  BY <1>3, <1>6, <1>7, <1>9, <1>10, <1>11

\* A message is read, and the others stay under way.
LEMMA ReadKeeps ==
  ASSUME FixInv, link.toOms # <<>>, UNCHANGED atVenue, link' = [link EXCEPT !.toOms = Tail(@)],
         ack.pc # "idle" => ack'.pc # "idle"
  PROVE  /\ LinkOK' /\ AtVenueOK' /\ RequestsOK' /\ RepliesOK' /\ NoStepBack
         /\ Head(link.toOms) \in Reply /\ ReplyTrue(Head(link.toOms))
         /\ link'.toOms \in Seq(Reply) /\ Head(link.toOms) = link.toOms[1] /\ 1 \in 1..Len(link.toOms)
         /\ Len(link'.toOms) = Len(link.toOms) - 1
         /\ \A i \in 1..Len(link'.toOms) : link'.toOms[i] = link.toOms[i + 1] /\ i + 1 \in 2..Len(link.toOms)
<1>1. LinkOK /\ AtVenueOK /\ AckOK /\ RequestsOK /\ RepliesOK
  BY DEF FixInv
<1>2. /\ link'.toVenue = link.toVenue /\ link'.toOms = Tail(link.toOms) /\ link'.up = link.up
      /\ link.toOms \in Seq(Reply)
  BY <1>1 DEF LinkOK
<1> DEFINE s == link.toOms
           t == link'.toOms
<1>3. /\ s \in Seq(Reply) /\ s # <<>> /\ t = Tail(s)
  BY <1>2
<1>4. /\ t \in Seq(Reply) /\ Head(s) \in Reply /\ Head(s) = s[1] /\ 1 \in 1..Len(s) /\ Len(s) \in Nat
      /\ Len(t) = Len(s) - 1 /\ \A i \in 1..Len(t) : t[i] = s[i + 1] /\ i + 1 \in 2..Len(s) /\ i + 1 \in 1..Len(s)
  <2> HIDE DEF s, t
  <2> QED
    BY <1>3
<1>5. RequestsOK' /\ NoStepBack
  <2>1. [kind |-> "F"] \in Request /\ [kind |-> "F"].kind = "F"
    BY RequestsAre
  <2> QED
    BY <1>1, <1>2, <2>1, SendKeeps
<1>6. LinkOK' /\ AtVenueOK'
  <2>1. link'.up => link.up
    BY <1>2
  <2>2. ~ link'.up => FALSE
    BY <1>1, <1>2 DEF LinkOK
  <2> QED
    BY <1>1, <1>4, <2>2 DEF LinkOK, AtVenueOK
<1>7. \A m \in Reply : ReplyTrue(m) => ReplyTrue(m)'
  BY <1>1, <1>5, <1>6, RepliesStay
<1>8. ASSUME NEW i \in 1..Len(t) PROVE ReplyTrue(link.toOms[i])'
  <2>1. PICK m \in Reply : m = s[i + 1] /\ ReplyTrue(m)
    BY <1>1, <1>4 DEF RepliesOK
  <2>2. t[i] = m /\ ReplyTrue(m)'
    BY <1>4, <1>7, <2>1
  <2> HIDE DEF t
  <2> QED
    BY <2>2 DEF ReplyTrue, ExecTrue, StatusTrue, t
<1>9. CancelLast(t)
  <2> SUFFICES ASSUME NEW i \in 1..Len(t), t[i].kind = "exec", t[i].type = "4", NEW j \in (i + 1)..Len(t)
               PROVE  FixQty(t[j]) = 0
    BY DEF CancelLast
  <2>1. CancelLast(s)
    BY <1>1 DEF RepliesOK
  <2> HIDE DEF s, t
  <2>2. Len(t) \in Nat /\ j \in 1..Len(t) /\ j + 1 \in ((i + 1) + 1)..Len(s)
    BY <1>4
  <2>3. t[i] = s[i + 1] /\ t[j] = s[j + 1] /\ i + 1 \in 1..Len(s)
    BY <1>4, <2>2
  <2> QED
    BY <2>1, <2>2, <2>3 DEF CancelLast
<1>10. RepliesOK'
  BY <1>8, <1>9 DEF RepliesOK, CancelLast
<1>11. ReplyTrue(Head(s))
  BY <1>1, <1>4 DEF RepliesOK
<1> QED
  BY <1>4, <1>5, <1>6, <1>10, <1>11

\* What is said of the executions, and of what is still under way.
LEMMA ReadAddsUp ==
  ASSUME FixInv, link.toOms # <<>>, UNCHANGED atVenue, link' = [link EXCEPT !.toOms = Tail(@)]
  PROVE  \E a \in Nat :
           LET q == FixQty(Head(link.toOms)) IN
           /\ q \in Nat /\ a + q <= atVenue.exec
           /\ heard.close = "none" => a = heard.fills + heard.lost
           /\ AddUp(Unreported(link'.toOms), a + q, atVenue.exec)
           /\ (\A i \in 1..Len(link'.toOms) : FixQty(link'.toOms[i]) = 0) => a + q = atVenue.exec
<1>1. LinkOK /\ AtVenueOK /\ ExecutionsAddUp
  BY DEF FixInv
<1>2. PICK a \in Nat : /\ AddUp(Unreported(link.toOms), a, atVenue.exec)
                       /\ heard.close = "none" => a = heard.fills + heard.lost
  BY <1>1 DEF ExecutionsAddUp
<1> DEFINE s == link.toOms
           t == link'.toOms
           q == FixQty(Head(s))
<1>3. /\ s \in Seq(Reply) /\ s # <<>> /\ t = Tail(s) /\ AddUp(Unreported(s), a, atVenue.exec)
  BY <1>1, <1>2 DEF LinkOK
<1> HIDE DEF s, t
<1>4. /\ AddUp(Unreported(t), a + q, atVenue.exec)
      /\ t \in Seq(Reply) /\ Head(s) \in Reply
  BY <1>3, UnreportedTail
<1>5. q \in Nat
  BY <1>4, ReplyIs
<1>6. a + q <= atVenue.exec /\ ((\A i \in 1..Len(t) : FixQty(t[i]) = 0) => a + q = atVenue.exec)
  <2>1. /\ Unreported(t) \in Seq(Int) /\ Len(Unreported(t)) = Len(t)
        /\ \A i \in 1..Len(t) : Unreported(t)[i] = FixQty(t[i]) /\ FixQty(t[i]) \in Nat
    BY <1>4, UnreportedType
  <2>2. \A i \in 1..Len(Unreported(t)) : Unreported(t)[i] >= 0
    BY <2>1
  <2>3. a + q <= atVenue.exec /\ ((\A i \in 1..Len(Unreported(t)) : Unreported(t)[i] = 0) => a + q = atVenue.exec)
    <3> HIDE DEF q
    <3> QED
      BY <1>4, <2>1, <2>2, AddUpBounds
  <2> QED
    BY <2>1, <2>3
<1> QED
  BY <1>2, <1>4, <1>5, <1>6 DEF s, t

\* A report that is not of the batch asked for, or does not end it.
LEMMA BatchesShrink ==
  ASSUME FixInv, UNCHANGED <<atVenue, driver>>, link.toOms # <<>>, link' = [link EXCEPT !.toOms = Tail(@)],
         NEW m, m = Head(link.toOms), waiters'.snap.id = waiters.snap.id,
         waiters.snap.acc \subseteq waiters'.snap.acc,
         m.kind = "status" /\ m.id = waiters.snap.id /\ m.order = "ours" => "ours" \in waiters'.snap.acc
  PROVE  WholeBatches'
<1>1. LinkOK /\ WholeBatches
  BY DEF FixInv
<1> DEFINE s == link.toOms
           t == link'.toOms
<1>2. /\ s \in Seq(Reply) /\ s # <<>> /\ t = Tail(s) /\ m = Head(s)
  BY <1>1 DEF LinkOK
<1> HIDE DEF s, t
<1>3. /\ m = s[1] /\ Len(s) \in Nat
      /\ Len(t) = Len(s) - 1 /\ \A i \in 1..Len(t) : t[i] = s[i + 1] /\ i + 1 \in 1..Len(s)
  BY <1>2
<1>4. ASSUME driver.pc = "listing", driver.wasOpen, OursOpen, NEW i \in 1..Len(t),
             t[i].kind = "status", t[i].id = waiters.snap.id, t[i].last
      PROVE  \/ "ours" \in waiters'.snap.acc
             \/ \E j \in 1..i : /\ t[j].kind = "status" /\ t[j].id = waiters.snap.id /\ t[j].order = "ours"
  <2>1. \/ "ours" \in waiters.snap.acc
        \/ \E j \in 1..(i + 1) : /\ s[j].kind = "status" /\ s[j].id = waiters.snap.id /\ s[j].order = "ours"
    <3>1. i + 1 \in 1..Len(s) /\ s[i + 1] = t[i]
      BY <1>3
    <3> QED
      BY <1>1, <1>4, <3>1 DEF WholeBatches, s
  <2>2. ASSUME NEW j \in 1..(i + 1), s[j].kind = "status", s[j].id = waiters.snap.id, s[j].order = "ours"
        PROVE  \/ "ours" \in waiters'.snap.acc
               \/ \E k \in 1..i : /\ t[k].kind = "status" /\ t[k].id = waiters.snap.id /\ t[k].order = "ours"
    <3>1. CASE j = 1
      BY <1>3, <2>2, <3>1
    <3>2. CASE j # 1
      <4>1. j - 1 \in 1..i /\ j - 1 \in 1..Len(t) /\ (j - 1) + 1 = j
        BY <1>3, <3>2
      <4>2. t[j - 1] = s[j]
        BY <1>3, <4>1
      <4> QED
        BY <2>2, <4>1, <4>2
    <3> QED
      BY <3>1, <3>2
  <2> QED
    BY <2>1, <2>2
<1> QED
  BY <1>4 DEF WholeBatches, OursOpen, t

\* An execution report.
LEMMA ReadExecKeeps ==
  ASSUME FixInv, FixReceive, Head(link.toOms).kind = "exec"
  PROVE  FixInv'
<1>1. LinkOK /\ AtVenueOK /\ AckOK /\ RequestsOK /\ RepliesOK /\ ListsOK /\ HeardOK /\ WholeBatches /\ FixListComplete
  BY DEF FixInv
<1>2. PICK m : /\ m = Head(link.toOms) /\ link.up /\ link.toOms # <<>>
               /\ ResolveAck(m) /\ heard' = ParsedReport(m)
               /\ UNCHANGED <<atVenue, driver>> /\ link' = [link EXCEPT !.toOms = Tail(@)]
  BY DEF FixReceive
<1>3. /\ waiters'.snap = waiters.snap
      /\ \/ UNCHANGED <<waiters, ack>>
         \/ /\ m.type \in {"0", "8"} /\ waiters' = [waiters EXCEPT !.ack = FALSE]
            /\ ack' = [pc |-> "done", verdict |-> IF m.type = "0" THEN "accepted" ELSE "rejected"]
  BY <1>1, <1>2 DEF ResolveAck, ListsOK
<1>4. /\ LinkOK' /\ AtVenueOK' /\ RequestsOK' /\ RepliesOK' /\ NoStepBack
      /\ m \in Reply /\ ReplyTrue(m)
      /\ link'.toOms \in Seq(Reply) /\ m = link.toOms[1] /\ 1 \in 1..Len(link.toOms)
      /\ Len(link'.toOms) = Len(link.toOms) - 1
      /\ \A i \in 1..Len(link'.toOms) : link'.toOms[i] = link.toOms[i + 1] /\ i + 1 \in 2..Len(link.toOms)
  <2>1. ack.pc # "idle" => ack'.pc # "idle"
    BY <1>3
  <2> QED
    BY <1>2, <2>1, ReadKeeps
<1>5. /\ m.kind = "exec" /\ ExecTrue(m) /\ m.type \in {"0", "4", "8", "F", "C"} /\ m.qty \in Nat /\ FixQty(m) = m.qty
  BY <1>2, <1>4, ReplyIs DEF ReplyTrue
<1>6. AckOK'
  BY <1>1, <1>2, <1>3, <1>5 DEF AckOK, ExecTrue, Taken
<1>7. ListsOK'
  BY <1>1, <1>2, <1>3 DEF ListsOK, Taken
<1>8. PICK a \in Nat :
        /\ a + m.qty <= atVenue.exec
        /\ heard.close = "none" => a = heard.fills + heard.lost
        /\ AddUp(Unreported(link'.toOms), a + m.qty, atVenue.exec)
        /\ (\A i \in 1..Len(link'.toOms) : FixQty(link'.toOms[i]) = 0) => a + m.qty = atVenue.exec
  BY <1>2, <1>5, ReadAddsUp
<1>9. /\ heard.fills \in Nat /\ heard.lost \in Nat /\ heard.cum \in Nat /\ atVenue.exec \in Nat /\ FixLots \in Nat
      /\ atVenue.exec <= FixLots /\ (atVenue.exec = FixLots => atVenue.status = "filled") /\ a + m.qty \in Nat
  BY <1>1, <1>5, FixAssumption DEF HeardOK, AtVenueOK
<1>10. HeardOK' /\ ExecutionsAddUp'
  <2>1. CASE heard' = heard /\ (heard.close = "none" => m.qty = 0)
    <3>1. HeardOK'
      <4>1. (\A i \in 1..Len(link.toOms) : FixQty(link.toOms[i]) = 0) => \A i \in 1..Len(link'.toOms) : FixQty(link'.toOms[i]) = 0
        <5>1. \A i \in 1..Len(link'.toOms) : i + 1 \in 1..Len(link.toOms)
          BY <1>4
        <5> QED
          BY <1>4, <5>1
      <4> QED
        BY <1>1, <1>2, <1>4, <2>1, <4>1 DEF HeardOK, NoStepBack
    <3>2. ExecutionsAddUp'
      <4>1. heard'.close = "none" => a + m.qty = heard'.fills + heard'.lost
        BY <1>8, <1>9, <2>1
      <4> QED
        BY <1>2, <1>8, <1>9, <4>1 DEF ExecutionsAddUp
    <3> QED
      BY <3>1, <3>2
  <2>2. CASE heard.close = "none" /\ m.type = "F"
    <3>1. heard' = [heard EXCEPT !.fills = @ + m.qty,
                                 !.close = IF heard.fills + m.qty = FixLots THEN "filled" ELSE @]
      BY <1>2, <2>2 DEF ParsedReport, Hear
    <3>2. heard.fills + m.qty \in Nat
      BY <1>5, <1>9
    <3>3. /\ heard'.fills = heard.fills + m.qty /\ heard'.lost = heard.lost /\ heard'.cum = heard.cum
          /\ heard'.close = IF heard.fills + m.qty = FixLots THEN "filled" ELSE "none"
          /\ heard' \in [fills : Nat, cum : Nat, lost : Nat, close : {"none", "filled", "refused", "bare", "terminal"}]
      BY <1>1, <2>2, <3>1, <3>2 DEF HeardOK
    <3>4. /\ heard.fills + m.qty <= atVenue.exec
          /\ a + m.qty = heard'.fills + heard'.lost
      <4>1. a = heard.fills + heard.lost /\ a + m.qty <= atVenue.exec
        BY <1>8, <2>2
      <4>2. \A f, x, q, e \in Nat : (f + x) + q <= e => f + q <= e /\ (f + x) + q = (f + q) + x
        OBVIOUS
      <4> QED
        BY <1>5, <1>9, <3>3, <4>1, <4>2
    <3>5. heard'.close = "filled" => atVenue.status = "filled"
      BY <1>5, <1>9, <3>3, <3>4
    <3>6. HeardOK'
      BY <1>1, <1>2, <3>3, <3>4, <3>5 DEF HeardOK
    <3>7. ExecutionsAddUp'
      BY <1>2, <1>8, <1>9, <3>4 DEF ExecutionsAddUp
    <3> QED
      BY <3>6, <3>7
  <2>3. CASE heard.close = "none" /\ m.type = "4"
    <3>1. heard' = [heard EXCEPT !.close = "bare"]
      BY <1>2, <2>3 DEF ParsedReport, Hear
    <3>2. /\ heard'.fills = heard.fills /\ heard'.lost = heard.lost /\ heard'.cum = heard.cum /\ heard'.close = "bare"
          /\ heard' \in [fills : Nat, cum : Nat, lost : Nat, close : {"none", "filled", "refused", "bare", "terminal"}]
      BY <1>1, <3>1 DEF HeardOK
    <3>3. m.qty = 0 /\ atVenue.status = "canceled"
      BY <1>5, <2>3 DEF ExecTrue
    <3>4. \A i \in 1..Len(link'.toOms) : FixQty(link'.toOms[i]) = 0
      <4>1. CancelLast(link.toOms) /\ link.toOms[1].kind = "exec" /\ link.toOms[1].type = "4"
        BY <1>1, <1>4, <1>5, <2>3 DEF RepliesOK
      <4>2. \A j \in (1 + 1)..Len(link.toOms) : FixQty(link.toOms[j]) = 0
        BY <1>4, <4>1 DEF CancelLast
      <4>3. 1 + 1 = 2
        OBVIOUS
      <4>4. \A j \in 2..Len(link.toOms) : FixQty(link.toOms[j]) = 0
        BY <4>2, <4>3
      <4> QED
        BY <1>4, <4>4
    <3>5. heard.fills + heard.lost = atVenue.exec
      BY <1>8, <1>9, <2>3, <3>3, <3>4
    <3>6. HeardOK'
      BY <1>1, <1>2, <3>2, <3>3, <3>4, <3>5 DEF HeardOK
    <3>7. ExecutionsAddUp'
      BY <1>2, <1>8, <1>9, <3>2 DEF ExecutionsAddUp
    <3> QED
      BY <3>6, <3>7
  <2>4. CASE heard.close = "none" /\ m.type = "8"
    <3>1. heard' = [heard EXCEPT !.close = "refused"]
      BY <1>2, <2>4 DEF ParsedReport, Hear
    <3>2. /\ heard'.fills = heard.fills /\ heard'.lost = heard.lost /\ heard'.cum = heard.cum /\ heard'.close = "refused"
          /\ heard' \in [fills : Nat, cum : Nat, lost : Nat, close : {"none", "filled", "refused", "bare", "terminal"}]
      BY <1>1, <3>1 DEF HeardOK
    <3>3. atVenue.status = "refused"
      BY <1>5, <2>4 DEF ExecTrue
    <3>4. HeardOK'
      BY <1>1, <1>2, <3>2, <3>3 DEF HeardOK
    <3>5. ExecutionsAddUp'
      BY <1>2, <1>8, <1>9, <3>2 DEF ExecutionsAddUp
    <3> QED
      BY <3>4, <3>5
  <2>5. CASE heard.close # "none" \/ m.type \in {"0", "C"}
    <3>1. heard' = heard
      BY <1>2, <1>5, <2>5 DEF ParsedReport, Hear
    <3>2. heard.close = "none" => m.qty = 0
      BY <1>5, <2>5 DEF ExecTrue
    <3> QED
      BY <2>1, <3>1, <3>2
  <2> QED
    BY <1>5, <2>2, <2>3, <2>4, <2>5
<1>11. FixListComplete'
  BY <1>1, <1>2 DEF FixListComplete, OursOpen
<1>12. WholeBatches'
  BY <1>1, <1>2, <1>3, <1>4, <1>5, BatchesShrink
<1> QED
  BY <1>4, <1>6, <1>7, <1>10, <1>11, <1>12 DEF FixInv

\* Whoever waits at the session is the driver, in the state it waits in.
WaitsOK ==
  /\ waiters.snap.id # 0 <=> driver.pc = "listing"
  /\ waiters.status => driver.pc = "asking"

LEMMA WaitsStep == FixInv /\ WaitsOK /\ [FixNext]_fixVars => WaitsOK'
<1> SUFFICES ASSUME FixInv, WaitsOK, [FixNext]_fixVars PROVE WaitsOK'
  OBVIOUS
<1>1. ListsOK /\ waiters.status \in BOOLEAN
  BY DEF FixInv, ListsOK
<1>2. CASE waiters'.snap = waiters.snap /\ waiters'.status = waiters.status /\ UNCHANGED driver
  BY <1>2 DEF WaitsOK
<1>3. CASE FixSubmit \/ AckTimeout
  BY <1>1, <1>2, <1>3 DEF FixSubmit, AckTimeout, ListsOK
<1>4. CASE FixCancel \/ VenueAnswers \/ VenueMoves \/ Logout \/ Logon
  BY <1>2, <1>4 DEF FixCancel, VenueAnswers, VenueMoves, Logout, Logon
<1>5. CASE FixReceive
  <2> DEFINE m == Head(link.toOms)
  <2>1. CASE m.kind = "exec"
    <3>1. ResolveAck(m) /\ UNCHANGED driver
      BY <1>5, <2>1 DEF FixReceive
    <3> HIDE DEF m
    <3> QED
      BY <1>1, <1>2, <3>1 DEF ResolveAck, ListsOK
  <2>2. CASE m.kind # "exec" /\ m.id # 0
    <3>1. CollectSnapshot(m)
      BY <1>5, <2>2 DEF FixReceive
    <3> HIDE DEF m
    <3>2. CASE waiters.snap.id # m.id
      BY <1>2, <3>1, <3>2 DEF CollectSnapshot
    <3>3. CASE waiters.snap.id = m.id
      <4>1. driver.pc = "listing" /\ waiters.status = FALSE
        BY <1>1, <2>2, <3>3 DEF WaitsOK
      <4>2. CASE m.last
        <5>1. waiters' = [waiters EXCEPT !.snap = NoSnap] /\ driver'.pc = "listed"
          BY <1>1, <3>1, <3>3, <4>2 DEF CollectSnapshot, ListsOK
        <5> QED
          BY <1>1, <4>1, <5>1 DEF ListsOK, WaitsOK, NoSnap
      <4>3. CASE ~ m.last
        <5>1. waiters'.snap.id = waiters.snap.id /\ waiters'.status = waiters.status /\ UNCHANGED driver
          BY <1>1, <3>1, <3>3, <4>3 DEF CollectSnapshot, ListsOK
        <5> QED
          BY <4>1, <5>1 DEF WaitsOK
      <4> QED
        BY <4>2, <4>3
    <3> QED
      BY <3>2, <3>3
  <2>3. CASE m.kind # "exec" /\ m.id = 0
    <3>1. ResolveStatus(m)
      BY <1>5, <2>3 DEF FixReceive
    <3> HIDE DEF m
    <3>2. CASE ~ waiters.status
      BY <1>2, <3>1, <3>2 DEF ResolveStatus
    <3>3. CASE waiters.status
      <4>1. waiters.snap.id = 0
        BY <1>1, <3>3 DEF WaitsOK
      <4> QED
        BY <1>1, <3>1, <3>3, <4>1 DEF ResolveStatus, ListsOK, WaitsOK
    <3> QED
      BY <3>2, <3>3
  <2> QED
    BY <2>1, <2>2, <2>3
<1>6. CASE AskSnapshot
  <2>1. FreshReqId # 0
    BY <1>1, FreshReqIdIs DEF FixInv
  <2>2. /\ driver'.pc = "listing" /\ waiters'.status = waiters.status
        /\ driver.pc = "idle" /\ waiters'.snap.id = FreshReqId
    BY <1>1, <1>6 DEF AskSnapshot, ListsOK
  <2> QED
    BY <1>1, <2>1, <2>2 DEF WaitsOK
<1>7. CASE UseSnapshot
  <2>1. PICK ask \in BOOLEAN : /\ driver.pc = "listed" /\ waiters' = [waiters EXCEPT !.status = ask]
                               /\ driver' = [driver EXCEPT !.pc = IF ask THEN "asking" ELSE "idle", !.list = {}]
    BY <1>7 DEF UseSnapshot
  <2>2. /\ waiters'.snap = waiters.snap /\ waiters'.status = ask
        /\ driver'.pc = IF ask THEN "asking" ELSE "idle"
    BY <1>1, <2>1 DEF ListsOK
  <2> QED
    BY <2>1, <2>2 DEF WaitsOK
<1>8. CASE ReplyTimeout
  BY <1>1, <1>8 DEF ReplyTimeout, ListsOK, WaitsOK, NoSnap
<1>9. CASE UNCHANGED fixVars
  BY <1>9 DEF fixVars, WaitsOK
<1> QED
  BY <1>3, <1>4, <1>5, <1>6, <1>7, <1>8, <1>9 DEF FixNext

\* A report of a batch: kept by the waiter with its id, delivered with the last.
LEMMA ReadListKeeps ==
  ASSUME FixInv, WaitsOK, FixReceive, Head(link.toOms).kind # "exec", Head(link.toOms).id # 0
  PROVE  FixInv'
<1>1. LinkOK /\ AtVenueOK /\ AckOK /\ RequestsOK /\ RepliesOK /\ ListsOK /\ HeardOK /\ WholeBatches /\ FixListComplete
  BY DEF FixInv
<1>2. PICK m : /\ m = Head(link.toOms) /\ link.up /\ link.toOms # <<>>
               /\ CollectSnapshot(m) /\ UNCHANGED <<ack, heard, atVenue>>
               /\ link' = [link EXCEPT !.toOms = Tail(@)]
  BY DEF FixReceive
<1>3. /\ LinkOK' /\ AtVenueOK' /\ RequestsOK' /\ RepliesOK' /\ NoStepBack
      /\ m \in Reply /\ ReplyTrue(m)
      /\ link'.toOms \in Seq(Reply) /\ m = link.toOms[1] /\ 1 \in 1..Len(link.toOms)
      /\ Len(link'.toOms) = Len(link.toOms) - 1
      /\ \A i \in 1..Len(link'.toOms) : link'.toOms[i] = link.toOms[i + 1] /\ i + 1 \in 2..Len(link.toOms)
  BY <1>2, ReadKeeps
<1>4. /\ m.kind = "status" /\ m.id # 0 /\ m.order \in {"ours", "other"} /\ m.last \in BOOLEAN /\ FixQty(m) = 0
      /\ m.order = "ours" => Taken
  BY <1>2, <1>3, ReplyIs DEF ReplyTrue, StatusTrue
<1>5. HeardOK' /\ ExecutionsAddUp'
  <2>1. PICK a \in Nat :
          /\ heard.close = "none" => a = heard.fills + heard.lost
          /\ AddUp(Unreported(link'.toOms), a + 0, atVenue.exec)
    BY <1>2, <1>4, ReadAddsUp
  <2>2. a + 0 = a
    OBVIOUS
  <2>3. ExecutionsAddUp'
    BY <1>2, <2>1, <2>2 DEF ExecutionsAddUp
  <2>4. (\A i \in 1..Len(link.toOms) : FixQty(link.toOms[i]) = 0) => \A i \in 1..Len(link'.toOms) : FixQty(link'.toOms[i]) = 0
    <3>1. \A i \in 1..Len(link'.toOms) : i + 1 \in 1..Len(link.toOms)
      BY <1>3
    <3> QED
      BY <1>3, <3>1
  <2>5. HeardOK'
    BY <1>1, <1>2, <1>3, <2>4 DEF HeardOK, NoStepBack
  <2> QED
    BY <2>3, <2>5
<1>6. AckOK'
  BY <1>1, <1>2 DEF AckOK, Taken
<1>7. CASE waiters.snap.id # m.id
  <2>1. UNCHANGED <<waiters, driver>>
    BY <1>2, <1>7 DEF CollectSnapshot
  <2>2. ListsOK'
    BY <1>1, <1>2, <2>1 DEF ListsOK, Taken
  <2>3. FixListComplete'
    BY <1>1, <1>2, <2>1 DEF FixListComplete, OursOpen
  <2>4. waiters'.snap.id = waiters.snap.id /\ waiters'.snap.acc = waiters.snap.acc
    BY <2>1
  <2>5. WholeBatches'
    BY <1>2, <1>7, <2>1, <2>4, BatchesShrink
  <2> QED
    BY <1>3, <1>5, <1>6, <2>2, <2>3, <2>5 DEF FixInv
<1>8. CASE waiters.snap.id = m.id
  <2> DEFINE acc == waiters.snap.acc \cup {m.order}
  <2>1. driver.pc = "listing" /\ acc \in SUBSET {"ours", "other"} /\ ("ours" \in acc => Taken)
    BY <1>1, <1>4, <1>8 DEF WaitsOK, ListsOK
  <2>2. CASE ~ m.last
    <3>1. waiters' = [waiters EXCEPT !.snap = [waiters.snap EXCEPT !.acc = acc]] /\ UNCHANGED driver
      BY <1>2, <1>8, <2>2 DEF CollectSnapshot
    <3>2. waiters'.snap.id = waiters.snap.id /\ waiters'.snap.acc = acc
      BY <1>1, <3>1 DEF ListsOK
    <3>3. ListsOK'
      <4> HIDE DEF acc
      <4> QED
        BY <1>1, <1>2, <2>1, <3>1, <3>2 DEF ListsOK, Taken
    <3>4. FixListComplete'
      BY <2>1, <3>1 DEF FixListComplete
    <3>5. WholeBatches'
      <4>1. waiters.snap.acc \subseteq waiters'.snap.acc
        BY <3>2
      <4>2. m.order = "ours" => "ours" \in waiters'.snap.acc
        BY <3>2
      <4> QED
        BY <1>2, <3>1, <3>2, <4>1, <4>2, BatchesShrink
    <3> QED
      BY <1>3, <1>5, <1>6, <3>3, <3>4, <3>5 DEF FixInv
  <2>3. CASE m.last
    <3>1. /\ waiters' = [waiters EXCEPT !.snap = NoSnap]
          /\ driver' = [driver EXCEPT !.pc = "listed", !.list = acc]
      BY <1>2, <1>8, <2>3 DEF CollectSnapshot
    <3>2. waiters'.snap = NoSnap /\ driver'.pc = "listed" /\ driver'.list = acc /\ driver'.wasOpen = driver.wasOpen
      BY <1>1, <3>1 DEF ListsOK
    <3>3. ListsOK'
      <4> HIDE DEF acc
      <4> QED
        BY <1>1, <1>2, <2>1, <3>1, <3>2 DEF ListsOK, Taken, NoSnap
    <3>4. driver.wasOpen /\ OursOpen => "ours" \in acc
      <4> SUFFICES ASSUME driver.wasOpen, OursOpen PROVE "ours" \in acc
        OBVIOUS
      <4>1. \/ "ours" \in waiters.snap.acc
            \/ \E j \in 1..1 : link.toOms[j].order = "ours"
        BY <1>1, <1>3, <1>4, <1>8, <2>1, <2>3 DEF WholeBatches
      <4>2. (\E j \in 1..1 : link.toOms[j].order = "ours") => m.order = "ours"
        BY <1>3
      <4> QED
        BY <4>1, <4>2
    <3>5. FixListComplete'
      <4> HIDE DEF acc
      <4> QED
        BY <1>2, <3>2, <3>4 DEF FixListComplete, OursOpen
    <3>6. WholeBatches'
      BY <3>2 DEF WholeBatches
    <3> QED
      BY <1>3, <1>5, <1>6, <3>3, <3>5, <3>6 DEF FixInv
  <2> QED
    BY <1>4, <2>2, <2>3
<1> QED
  BY <1>7, <1>8

\* One order's status: its close only when the venue's is told in full.
LEMMA ReadStatusKeeps ==
  ASSUME FixInv, WaitsOK, FixReceive, Head(link.toOms).kind # "exec", Head(link.toOms).id = 0
  PROVE  FixInv'
<1>1. LinkOK /\ AtVenueOK /\ AckOK /\ RequestsOK /\ RepliesOK /\ ListsOK /\ HeardOK /\ WholeBatches /\ FixListComplete
  BY DEF FixInv
<1>2. PICK m : /\ m = Head(link.toOms) /\ link.up /\ link.toOms # <<>>
               /\ ResolveStatus(m) /\ UNCHANGED <<ack, atVenue>>
               /\ link' = [link EXCEPT !.toOms = Tail(@)]
  BY DEF FixReceive
<1>3. /\ LinkOK' /\ AtVenueOK' /\ RequestsOK' /\ RepliesOK' /\ NoStepBack
      /\ m \in Reply /\ ReplyTrue(m)
      /\ link'.toOms \in Seq(Reply) /\ m = link.toOms[1] /\ 1 \in 1..Len(link.toOms)
      /\ Len(link'.toOms) = Len(link.toOms) - 1
      /\ \A i \in 1..Len(link'.toOms) : link'.toOms[i] = link.toOms[i + 1] /\ i + 1 \in 2..Len(link.toOms)
  BY <1>2, ReadKeeps
<1>4. /\ m.kind = "status" /\ m.id = 0 /\ m.exec \in Nat /\ m.exec <= atVenue.exec /\ FixQty(m) = 0
      /\ m.status \in FixClosed => m.exec = atVenue.exec /\ Settled
  BY <1>2, <1>3, ReplyIs DEF ReplyTrue, StatusTrue
<1>5. AckOK'
  BY <1>1, <1>2 DEF AckOK, Taken
<1>6. (\A i \in 1..Len(link.toOms) : FixQty(link.toOms[i]) = 0) => \A i \in 1..Len(link'.toOms) : FixQty(link'.toOms[i]) = 0
  <2>1. \A i \in 1..Len(link'.toOms) : i + 1 \in 1..Len(link.toOms)
    BY <1>3
  <2> QED
    BY <1>3, <2>1
<1>7. PICK a \in Nat :
        /\ heard.close = "none" => a = heard.fills + heard.lost
        /\ AddUp(Unreported(link'.toOms), a, atVenue.exec)
  <2>1. PICK a \in Nat :
          /\ heard.close = "none" => a = heard.fills + heard.lost
          /\ AddUp(Unreported(link'.toOms), a + 0, atVenue.exec)
    BY <1>2, <1>4, ReadAddsUp
  <2>2. a + 0 = a
    OBVIOUS
  <2> QED
    BY <2>1, <2>2
<1>8. CASE ~ waiters.status
  <2>1. UNCHANGED <<waiters, driver, heard>>
    BY <1>2, <1>8 DEF ResolveStatus
  <2>2. ListsOK'
    BY <1>1, <1>2, <2>1 DEF ListsOK, Taken
  <2>3. FixListComplete'
    BY <1>1, <1>2, <2>1 DEF FixListComplete, OursOpen
  <2>4. waiters'.snap.id = waiters.snap.id /\ waiters'.snap.acc = waiters.snap.acc
    BY <2>1
  <2>5. WholeBatches'
    <3>1. CASE driver.pc = "listing"
      <4>1. m.id # waiters.snap.id
        BY <1>4, <3>1 DEF WaitsOK
      <4> QED
        BY <1>2, <2>1, <2>4, <4>1, BatchesShrink
    <3>2. CASE driver.pc # "listing"
      BY <2>1, <3>2 DEF WholeBatches
    <3> QED
      BY <3>1, <3>2
  <2>6. HeardOK'
    BY <1>1, <1>2, <1>3, <1>6, <2>1 DEF HeardOK, NoStepBack
  <2>7. ExecutionsAddUp'
    BY <1>2, <1>7, <2>1 DEF ExecutionsAddUp
  <2> QED
    BY <1>3, <1>5, <2>2, <2>3, <2>5, <2>6, <2>7 DEF FixInv
<1>9. CASE waiters.status
  <2>1. /\ waiters' = [waiters EXCEPT !.status = FALSE]
        /\ driver' = [driver EXCEPT !.pc = "idle", !.list = {}]
        /\ heard' = IF m.status \in FixClosed THEN Hear(heard, "terminal", m.exec)
                    ELSE IF FixStuck THEN heard ELSE Hear(heard, "cumulative", m.exec)
    BY <1>2, <1>9 DEF ResolveStatus
  <2>2. ListsOK'
    BY <1>1, <1>2, <2>1 DEF ListsOK, Taken
  <2>3. driver'.pc = "idle"
    BY <1>1, <2>1 DEF ListsOK
  <2>4. FixListComplete' /\ WholeBatches'
    BY <2>3 DEF FixListComplete, WholeBatches
  <2>5. HeardOK' /\ heard'.fills = heard.fills /\ heard'.lost = heard.lost /\ (heard'.close = "none" => heard.close = "none")
    <3>1. CASE heard' = heard
      BY <1>1, <1>2, <1>3, <1>6, <3>1 DEF HeardOK, NoStepBack
    <3>2. CASE heard.close = "none" /\ m.status \in FixClosed
      <4>1. heard' = [heard EXCEPT !.cum = m.exec, !.close = "terminal"]
        BY <2>1, <3>2 DEF Hear
      <4>2. /\ heard'.fills = heard.fills /\ heard'.lost = heard.lost /\ heard'.cum = m.exec /\ heard'.close = "terminal"
            /\ heard' \in [fills : Nat, cum : Nat, lost : Nat, close : {"none", "filled", "refused", "bare", "terminal"}]
        BY <1>1, <1>4, <4>1 DEF HeardOK
      <4>3. m.exec = atVenue.exec /\ Settled'
        BY <1>3, <1>4, <3>2 DEF NoStepBack
      <4> QED
        BY <1>1, <1>2, <1>4, <4>2, <4>3 DEF HeardOK
    <3>3. CASE heard.close = "none" /\ m.status \notin FixClosed /\ ~ FixStuck
      <4>1. heard' = [heard EXCEPT !.cum = IF heard.cum < m.exec THEN m.exec ELSE heard.cum]
        BY <2>1, <3>3 DEF Hear
      <4>2. /\ heard'.fills = heard.fills /\ heard'.lost = heard.lost /\ heard'.cum \in {m.exec, heard.cum}
            /\ heard'.close = "none"
            /\ heard' \in [fills : Nat, cum : Nat, lost : Nat, close : {"none", "filled", "refused", "bare", "terminal"}]
        BY <1>1, <1>4, <3>3, <4>1 DEF HeardOK
      <4> QED
        BY <1>1, <1>2, <1>4, <3>3, <4>2 DEF HeardOK
    <3>4. heard.close # "none" => heard' = heard
      BY <2>1 DEF Hear
    <3>5. m.status \notin FixClosed /\ FixStuck => heard' = heard
      BY <2>1
    <3> QED
      BY <3>1, <3>2, <3>3, <3>4, <3>5
  <2>6. ExecutionsAddUp'
    BY <1>2, <1>7, <2>5 DEF ExecutionsAddUp
  <2> QED
    BY <1>3, <1>5, <2>2, <2>4, <2>5, <2>6 DEF FixInv
<1> QED
  BY <1>8, <1>9

LEMMA FixInvStep == FixInv /\ WaitsOK /\ [FixNext]_fixVars => FixInv' /\ WaitsOK'
<1> SUFFICES ASSUME FixInv, WaitsOK, [FixNext]_fixVars PROVE FixInv'
  BY WaitsStep
<1>1. CASE FixSubmit \/ AckTimeout \/ FixCancel \/ Logon
  BY <1>1, FixSubmitKeeps, AckTimeoutKeeps, FixCancelKeeps
<1>2. CASE VenueAnswers \/ VenueMoves \/ Logout
  BY <1>2, VenueAnswersKeeps, VenueMovesKeeps, LogoutKeeps
<1>3. CASE FixReceive
  BY <1>3, ReadExecKeeps, ReadListKeeps, ReadStatusKeeps
<1>4. CASE AskSnapshot \/ UseSnapshot \/ ReplyTimeout
  BY <1>4, AskSnapshotKeeps, UseSnapshotKeeps, ReplyTimeoutKeeps
<1>5. CASE UNCHANGED fixVars
  <2>1. UNCHANGED <<atVenue, link, waiters, ack, driver, heard>>
    BY <1>5 DEF fixVars
  <2>2. LinkOK' /\ AtVenueOK' /\ AckOK' /\ RequestsOK' /\ ListsOK'
    BY <2>1 DEF FixInv, LinkOK, AtVenueOK, AckOK, RequestsOK, ListsOK, Taken
  <2>3. RepliesOK'
    BY <2>1 DEF FixInv, RepliesOK, CancelLast, ReplyTrue, ExecTrue, StatusTrue, Taken, Settled
  <2>4. HeardOK' /\ ExecutionsAddUp'
    BY <2>1 DEF FixInv, HeardOK, ExecutionsAddUp, Settled
  <2>5. WholeBatches' /\ FixListComplete'
    BY <2>1 DEF FixInv, WholeBatches, FixListComplete, OursOpen
  <2> QED
    BY <2>2, <2>3, <2>4, <2>5 DEF FixInv
<1> QED
  BY <1>1, <1>2, <1>3, <1>4, <1>5 DEF FixNext

LEMMA FixInvInit == FixInit => FixInv /\ WaitsOK
<1> SUFFICES ASSUME FixInit PROVE FixInv /\ WaitsOK
  OBVIOUS
<1>1. /\ atVenue = [status |-> "absent", exec |-> 0]
      /\ link = [up |-> FALSE, nudged |-> FALSE, toVenue |-> <<>>, toOms |-> <<>>]
      /\ waiters = [ack |-> FALSE, snap |-> [id |-> 0, acc |-> {}], status |-> FALSE]
      /\ ack = [pc |-> "idle", verdict |-> "none"]
      /\ driver = [pc |-> "idle", list |-> {}, wasOpen |-> FALSE]
      /\ heard = [fills |-> 0, cum |-> 0, close |-> "none", lost |-> 0]
  BY DEF FixInit, NoSnap
<1>2. Len(link.toVenue) = 0 /\ Len(link.toOms) = 0 /\ link.toVenue \in Seq(Request) /\ link.toOms \in Seq(Reply)
  BY <1>1
<1>3. LinkOK
  BY <1>1, <1>2 DEF LinkOK
<1>4. AtVenueOK
  BY <1>1, FixAssumption DEF AtVenueOK, FixStatuses
<1>5. AckOK /\ ListsOK /\ WaitsOK
  BY <1>1 DEF AckOK, ListsOK, WaitsOK
<1>6. RequestsOK /\ RepliesOK
  BY <1>2 DEF RequestsOK, RepliesOK, CancelLast
<1>7. HeardOK
  BY <1>1, <1>2 DEF HeardOK
<1>8. ExecutionsAddUp
  <2>1. /\ Unreported(link.toOms) \in Seq(Int) /\ Len(Unreported(link.toOms)) = 0
    BY <1>2, UnreportedType
  <2>2. AddUp(Unreported(link.toOms), 0, 0)
    BY <2>1, NothingAddsUp
  <2> QED
    BY <1>1, <2>2 DEF ExecutionsAddUp
<1>9. WholeBatches /\ FixListComplete
  BY <1>1 DEF WholeBatches, FixListComplete
<1> QED
  BY <1>3, <1>4, <1>5, <1>6, <1>7, <1>8, <1>9 DEF FixInv

LEMMA FixInvIs == FixInv => FixVerdictsTrue /\ FixListComplete
<1> SUFFICES ASSUME FixInv PROVE FixVerdictsTrue /\ FixListComplete
  OBVIOUS
<1>1. LinkOK /\ AckOK /\ HeardOK /\ FixListComplete
  BY DEF FixInv
<1>2. \A i \in 1..Len(link.toOms) : link.toOms[i].kind # "D"
  <2>1. link.toOms \in Seq(Reply)
    BY <1>1 DEF LinkOK
  <2>2. ASSUME NEW i \in 1..Len(link.toOms) PROVE link.toOms[i] \in Reply
    BY <2>1
  <2> QED
    BY <2>2, ReplyIs
<1>3. link.toVenue \in Seq(Request) /\ link.toOms \in Seq(Reply)
  BY <1>1 DEF LinkOK
<1>4. Settled => \/ atVenue.status \in FixClosed
                 \/ atVenue.status = "absent" /\ ~ \E m \in UnderWay : m.kind = "D"
  BY <1>2, <1>3 DEF Settled, UnderWay
<1>5. FixVerdictsTrue
  BY <1>1, <1>4 DEF AckOK, HeardOK, FixVerdictsTrue, Taken
<1> QED
  BY <1>1, <1>5

-----------------------------------------------------------------------------
(* MCConnectors                                                               *)

LEMMA RestHolds == Spec => []RestInv
<1>1. Init => RestInv
  BY RestInvInit DEF Init
<1>2. RestInv /\ [Next]_vars => RestInv'
  <2> SUFFICES ASSUME RestInv, [Next]_vars PROVE RestInv'
    OBVIOUS
  <2>1. [RestNext]_restVars
    BY DEF Next, vars, Rest, Pages, Fix
  <2> QED
    BY <2>1, RestInvStep
<1> QED
  BY <1>1, <1>2, PTL DEF Spec

LEMMA PagesHold == Spec => []PagesInv
<1>1. Init => PagesInv
  BY PagesInvInit DEF Init
<1>2. PagesInv /\ [Next]_vars => PagesInv'
  <2> SUFFICES ASSUME PagesInv, [Next]_vars PROVE PagesInv'
    OBVIOUS
  <2>1. [PagesNext]_pagesVars
    BY DEF Next, vars, Rest, Pages, Fix
  <2> QED
    BY <2>1, PagesInvStep
<1> QED
  BY <1>1, <1>2, PTL DEF Spec

LEMMA FixHolds == Spec => [](FixInv /\ WaitsOK)
<1>1. Init => FixInv /\ WaitsOK
  BY FixInvInit DEF Init
<1>2. FixInv /\ WaitsOK /\ [Next]_vars => FixInv' /\ WaitsOK'
  <2> SUFFICES ASSUME FixInv, WaitsOK, [Next]_vars PROVE FixInv' /\ WaitsOK'
    OBVIOUS
  <2>1. [FixNext]_fixVars
    BY DEF Next, vars, Rest, Pages, Fix
  <2> QED
    BY <2>1, FixInvStep
<1> QED
  BY <1>1, <1>2, PTL DEF Spec

\* What the connectors' submit_order, order_status, execution_stream and
\* FixApplication tell the engine is so at the venue, for any quantity and any
\* number of outages, lost pushes, timeouts and late answers, but for an order the
\* venue took with one of the answers Bybit, Coinbase and OKX misread as a refusal.
THEOREM VerdictsSafe == Spec => []VerdictsTrue
<1>1. RestInv /\ FixInv => VerdictsTrue
  BY RestInvIs, FixInvIs DEF VerdictsTrue
<1> QED
  BY <1>1, RestHolds, FixHolds, PTL

\* The pages of open_orders and the batches of collect_snapshot: an order open
\* from the request to the last page or report is listed, for books and pages of
\* any size and whatever opens and closes meanwhile.
THEOREM ListsSafe == Spec => []OpenListsComplete
<1>1. PagesInv /\ FixInv => OpenListsComplete
  BY FixInvIs DEF PagesInv, OpenListsComplete
<1> QED
  BY <1>1, PagesHold, FixHolds, PTL
=============================================================================

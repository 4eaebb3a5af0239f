----------------------------- MODULE MCOperations -----------------------------
(***************************************************************************)
(* Reloading connections and running jobs in one run: each behaviour runs  *)
(* one of the two, while the other stays as it started.  They share no     *)
(* state but the credentials a load is refused without.                    *)
(***************************************************************************)
EXTENDS ConnectionReload, Jobs

CONSTANTS id

VARIABLE part

MCStored == {[f \in Fields |-> 0]}
MCAccepted == {[f \in Fields |-> 0], [f \in Fields |-> 1]}

\* a whole new credential, and one that changes its secret alone
MCSubmissions == {[f \in Fields |-> 1], [f \in Fields |-> IF f = id THEN Blank ELSE 0]}

vars == <<part, reloadVars, jobVars>>

Init == /\ part \in {"reload", "jobs"}
        /\ ReloadInit
        /\ \A c \in Rows : (part = "jobs" => rows[c].cred = None)
                          /\ (part = "reload" /\ c \in Brokers => rows[c].cred # None)
        /\ JobInit /\ (part # "jobs" => booting = {})

Job(A) == part = "jobs" /\ A /\ UNCHANGED <<part, reloadVars>>

Next == \/ part = "reload" /\ ReloadNext /\ UNCHANGED <<part, jobVars>>
        \/ part = "jobs" /\ JobNext /\ UNCHANGED <<part, reloadVars>>

\* The hourly loop comes round. Nobody has to ask for a job, no worker has to get
\* anywhere, no contract has to expire and the process does not have to die.
Spec == Init /\ [][Next]_vars /\ WF_vars(Job(HourlyPass))
=============================================================================

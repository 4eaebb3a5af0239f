---------------------------- MODULE ReconcileSlot ----------------------------
(* Coalescing of reconcile requests (order_engine::run): one connection's      *)
(* requests, the slot that says a pass is running and whether to run again,     *)
(* and the tasks that make the passes.  The engine, each task's loop and the    *)
(* guard that frees the slot when a task is dropped all take one lock, and      *)
(* between any two of those steps the others may run.                          *)
EXTENDS Naturals, FiniteSets

CONSTANTS
    Requests,   \* the reconcile requests of one connection, numbered
    MaxPanics   \* passes that panic, a bound

VARIABLES
    slot,       \* reconciling[key]: "free", "once" or "again"
    asked,      \* requests taken from the engine's inbox
    task,       \* the task each request started: its step
    served,     \* requests some pass began after
    panics

vars == <<slot, asked, task, served, panics>>

\* The engine takes a request: it starts a task, or asks the one that holds the
\* slot to run once more.
Take(r) ==
    /\ r \notin asked /\ \A q \in Requests : q < r => q \in asked
    /\ asked' = asked \cup {r}
    /\ IF slot = "free"
       THEN slot' = "once" /\ task' = [task EXCEPT ![r] = "spawned"]
       ELSE slot' = "again" /\ UNCHANGED task
    /\ UNCHANGED <<served, panics>>

\* run_order_reconcile begins: it reads the broker and the orders from here on.
Begin(t) ==
    /\ task[t] \in {"spawned", "rerun"}
    /\ task' = [task EXCEPT ![t] = "running"]
    /\ served' = asked
    /\ UNCHANGED <<slot, asked, panics>>

\* The pass has ended: under the lock, run once more or free the slot and leave
\* the loop.
Finish(t) ==
    /\ task[t] = "running"
    /\ IF slot = "again"
       THEN slot' = "once" /\ task' = [task EXCEPT ![t] = "rerun"]
       ELSE slot' = "free" /\ task' = [task EXCEPT ![t] = "left"]
    /\ UNCHANGED <<asked, served, panics>>

\* The pass panics: the task unwinds.
Panic(t) ==
    /\ task[t] = "running" /\ panics < MaxPanics
    /\ panics' = panics + 1
    /\ task' = [task EXCEPT ![t] = "left"]
    /\ UNCHANGED <<slot, asked, served>>

\* Reconciling::drop: the guard frees the slot once more, whoever holds it now.
Drop(t) ==
    /\ task[t] = "left"
    /\ slot' = "free"
    /\ task' = [task EXCEPT ![t] = "gone"]
    /\ UNCHANGED <<asked, served, panics>>

Init ==
    /\ slot = "free" /\ asked = {} /\ served = {} /\ panics = 0
    /\ task = [r \in Requests |-> "none"]

TaskStep(t) == Begin(t) \/ Finish(t) \/ Panic(t) \/ Drop(t)

Next == \E r \in Requests : Take(r) \/ TaskStep(r)

\* A spawned task runs on; nobody has to ask.
Spec == Init /\ [][Next]_vars /\ \A t \in Requests : WF_vars(Begin(t) \/ Finish(t) \/ Drop(t))

-----------------------------------------------------------------------------

\* Every reconcile request is followed by a pass that begins after it: "may be
\* a reconnect's snapshot: run once more when this one ends".
EveryRequestServed == \A r \in Requests : r \in asked ~> r \in served
=============================================================================

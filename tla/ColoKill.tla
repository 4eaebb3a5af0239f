------------------------------- MODULE ColoKill -------------------------------
(***************************************************************************)
(* Killing a co-located strategy at its venue (colo/control.rs): the OMS   *)
(* cancels with its own key whether or not the strategy cooperates.  Kill  *)
(* cancels what is open, an order seen on the follow stream of a killed    *)
(* strategy is cancelled on sight, and a sweep every two seconds cancels   *)
(* what both missed, the last two within one cancel budget.  All three     *)
(* need the adapter on the strategy's account, and the last two what the   *)
(* registry snapshot says.  The strategy places orders whenever it likes,  *)
(* finitely many of them, and cancels none.                                *)
(***************************************************************************)
EXTENDS Naturals, FiniteSets

CONSTANTS
  Orders,        \* venue orders the strategy may place, each once
  Budget,        \* FIGHT_CANCELS_PER_SEC (10 in the code)
  MaxRequests,   \* Kill and Enable requests
  MaxFailures    \* failed calls and requests, stream drops, adapters removed, stale reloads

ASSUME KillAssumption ==
  Budget \in Nat \ {0} /\ {MaxRequests, MaxFailures} \subseteq Nat

VARIABLES
  state,      \* strategy.state in the database
  halted,     \* whether the registry snapshot says HALTED
  loaded,     \* what another admin write's reload has read and not stored
  keyed,      \* whether the hub has an adapter on the account
  request,    \* the Kill or Enable under way: [op, pc, todo]
  placed,     \* per order: "none", "open", "gone"
  up,         \* the follow stream is up
  opened,     \* Opened events the worker has not handled
  fights,     \* cancels spawned on sight
  rate,       \* cancels of the last second
  sweep,      \* sweep_loop: [pc, todo]
  requests, failures

killVars == <<state, halted, loaded, keyed, request, placed, up, opened, fights, rate, sweep,
              requests, failures>>

NoRequest == [op |-> "none", pc |-> "idle", todo |-> {}]
NoSweep == [pc |-> "idle", todo |-> {}]

KillInit ==
  /\ state = "ACTIVE" /\ halted = FALSE /\ loaded = "none" /\ keyed = TRUE
  /\ request = NoRequest
  /\ placed = [o \in Orders |-> "none"] /\ up = TRUE /\ opened = {}
  /\ fights = {} /\ rate = 0 /\ sweep = NoSweep
  /\ requests = 0 /\ failures = 0

Failure == failures < MaxFailures /\ failures' = failures + 1

OpenOrders == {o \in Orders : placed[o] = "open"}

-----------------------------------------------------------------------------
(* The account and the follow stream                                       *)

StrategyPlaces(o) ==
  /\ placed[o] = "none"
  /\ placed' = [placed EXCEPT ![o] = "open"]
  /\ opened' = IF up THEN opened \cup {o} ELSE opened
  /\ UNCHANGED <<state, halted, loaded, keyed, request, up, fights, rate, sweep, requests,
                 failures>>

StreamDrops ==
  /\ up /\ up' = FALSE /\ Failure
  /\ UNCHANGED <<state, halted, loaded, keyed, request, placed, opened, fights, rate,
                 sweep, requests>>

StreamBack ==
  /\ ~ up /\ keyed /\ up' = TRUE
  /\ UNCHANGED <<state, halted, loaded, keyed, request, placed, opened, fights, rate,
                 sweep, requests, failures>>

\* sync_follows: the follow key is taken away, or one is set that can be used.
AdapterRemoved ==
  /\ keyed /\ keyed' = FALSE /\ up' = FALSE /\ Failure
  /\ UNCHANGED <<state, halted, loaded, request, placed, opened, fights, rate, sweep,
                 requests>>

AdapterSet ==
  /\ ~ keyed /\ keyed' = TRUE
  /\ UNCHANGED <<state, halted, loaded, request, placed, up, opened, fights, rate, sweep, requests,
                 failures>>

\* cancel_outcome: done, already gone, or failed and left to a sweep
Cancel(o) ==
  \/ placed' = [placed EXCEPT ![o] = "gone"] /\ UNCHANGED failures
  \/ UNCHANGED placed /\ Failure

-----------------------------------------------------------------------------
(* Kill and Enable (strategies/control.rs)                                 *)

Request(op) ==
  /\ request = NoRequest /\ requests < MaxRequests /\ requests' = requests + 1
  /\ op = "enable" => state = "HALTED"
  /\ request' = [NoRequest EXCEPT !.op = op, !.pc = "set"]
  /\ UNCHANGED <<state, halted, loaded, keyed, placed, up, opened, fights, rate, sweep,
                 failures>>

\* set_state: the UPDATE, then the reload of the snapshot
KillSetState ==
  /\ request.pc = "set"
  /\ state' = IF request.op = "kill" THEN "HALTED" ELSE "ACTIVE"
  /\ request' = [request EXCEPT !.pc = "reload"]
  /\ UNCHANGED <<halted, loaded, keyed, placed, up, opened, fights, rate, sweep, requests,
                 failures>>

\* Only a request changes the state: what its reload reads is what it set.
KillReload ==
  /\ request.pc = "reload"
  /\ halted' = (state = "HALTED")
  /\ request' = IF request.op = "kill" THEN [request EXCEPT !.pc = "list"] ELSE NoRequest
  /\ UNCHANGED <<state, loaded, keyed, placed, up, opened, fights, rate, sweep, requests,
                 failures>>

\* set_state's reload fails, or the client hangs up: the row stays set, and
\* nothing more is done.
KillAbandoned ==
  /\ request.pc \in {"reload", "list", "cancel"}
  /\ request' = NoRequest /\ Failure
  /\ UNCHANGED <<state, halted, loaded, keyed, placed, up, opened, fights, rate, sweep,
                 requests>>

\* RegistrySnapshot::reload by another admin write: a query, later a store.
ReloadRead ==
  /\ loaded = "none" /\ loaded' = state /\ Failure
  /\ UNCHANGED <<state, halted, keyed, request, placed, up, opened, fights, rate, sweep,
                 requests>>

ReloadStored ==
  /\ loaded # "none"
  /\ halted' = (loaded = "HALTED") /\ loaded' = "none"
  /\ UNCHANGED <<state, keyed, request, placed, up, opened, fights, rate, sweep, requests,
                 failures>>

\* kill: what is open at the venue; without an adapter or an answer nothing is
\* cancelled
KillList ==
  /\ request.pc = "list"
  /\ \/ /\ keyed /\ UNCHANGED failures
        /\ request' = [request EXCEPT !.pc = "cancel", !.todo = OpenOrders]
     \/ ~ keyed /\ request' = NoRequest /\ UNCHANGED failures
     \/ request' = NoRequest /\ Failure
  /\ UNCHANGED <<state, halted, loaded, keyed, placed, up, opened, fights, rate, sweep,
                 requests>>

KillCancel ==
  /\ request.pc = "cancel"
  /\ \/ request.todo = {} /\ request' = NoRequest /\ UNCHANGED <<placed, failures>>
     \/ \E o \in request.todo : request' = [request EXCEPT !.todo = @ \ {o}] /\ Cancel(o)
  /\ UNCHANGED <<state, halted, loaded, keyed, up, opened, fights, rate, sweep, requests>>

-----------------------------------------------------------------------------
(* The fight and the sweep                                                 *)

\* CancelRate::allow
Allow == rate < Budget

SecondPasses ==
  /\ rate > 0 /\ rate' = rate - 1
  /\ UNCHANGED <<state, halted, loaded, keyed, request, placed, up, opened, fights, sweep,
                 requests, failures>>

\* on_event and fight: a killed strategy's order is cancelled on sight, or
\* left to the next sweep when the budget is spent or there is no adapter
OnOpened(o) ==
  /\ o \in opened /\ opened' = opened \ {o}
  /\ IF halted /\ keyed /\ Allow THEN fights' = fights \cup {o} /\ rate' = rate + 1
                        ELSE UNCHANGED <<fights, rate>>
  /\ UNCHANGED <<state, halted, loaded, keyed, request, placed, up, sweep, requests,
                 failures>>

FightCancel(o) ==
  /\ o \in fights /\ fights' = fights \ {o}
  /\ Cancel(o)
  /\ UNCHANGED <<state, halted, loaded, keyed, request, up, opened, rate, sweep, requests>>

\* sweep_loop: to_sweep from the snapshot, then the venue is asked
SweepBegin ==
  /\ sweep = NoSweep /\ halted /\ keyed
  /\ sweep' = [NoSweep EXCEPT !.pc = "list"]
  /\ UNCHANGED <<state, halted, loaded, keyed, request, placed, up, opened, fights, rate,
                 requests, failures>>

\* Faulty variant: what the follow events said is open.
SweepListOpened ==
  /\ sweep.pc = "list"
  /\ sweep' = [pc |-> "cancel", todo |-> opened]
  /\ UNCHANGED <<state, halted, loaded, keyed, request, placed, up, opened, fights, rate,
                 requests, failures>>

SweepList ==
  /\ sweep.pc = "list"
  /\ \/ sweep' = [pc |-> "cancel", todo |-> OpenOrders] /\ UNCHANGED failures
     \/ sweep' = NoSweep /\ Failure
  /\ UNCHANGED <<state, halted, loaded, keyed, request, placed, up, opened, fights, rate,
                 requests>>

\* Out of budget, the rest waits for the next sweep.
SweepCancel ==
  /\ sweep.pc = "cancel"
  /\ \/ /\ sweep.todo = {} \/ ~ Allow
        /\ sweep' = NoSweep /\ UNCHANGED <<placed, rate, failures>>
     \/ /\ Allow
        /\ \E o \in sweep.todo : sweep' = [sweep EXCEPT !.todo = @ \ {o}] /\ Cancel(o)
        /\ rate' = rate + 1
  /\ UNCHANGED <<state, halted, loaded, keyed, request, up, opened, fights, requests>>

-----------------------------------------------------------------------------
RequestStep == KillSetState \/ KillReload \/ KillList \/ KillCancel
SweepStep == SweepBegin \/ SweepList \/ SweepCancel

KillNext ==
  \/ \E o \in Orders : StrategyPlaces(o) \/ OnOpened(o) \/ FightCancel(o)
  \/ StreamDrops \/ StreamBack \/ AdapterRemoved \/ AdapterSet \/ SecondPasses
  \/ KillAbandoned \/ ReloadRead \/ ReloadStored
  \/ \E op \in {"kill", "enable"} : Request(op)
  \/ RequestStep \/ SweepStep

\* The sweep is a loop of its own on a timer, a request runs to its end, and a
\* second passes.  Two seconds lie between sweeps, so the budget the last one
\* spent is back; the fight may have spent it again.
KillFairness ==
  /\ WF_killVars(RequestStep) /\ WF_killVars(SweepStep) /\ WF_killVars(SecondPasses)

KillSpec == KillInit /\ [][KillNext]_killVars /\ KillFairness

-----------------------------------------------------------------------------
\* A killed strategy's account is emptied at the venue without its help, whether
\* its orders were seen on the follow stream or not, however often the cancel
\* budget was spent and whichever venue calls failed: as long as the snapshot has
\* the strategy halted and there is an adapter, an open order goes.  The strategy
\* places finitely many orders here.  One that never stops can spend the budget on
\* its fights for ever, and a Kill whose reload failed, or was overtaken by an
\* older one, halts nobody in the snapshot.
KillClears ==
  \A o \in Orders :
    (halted /\ keyed /\ placed[o] = "open") ~> (placed[o] = "gone" \/ ~ halted \/ ~ keyed)
=============================================================================

----------------------------- MODULE FixRequests -----------------------------
(***************************************************************************)
(* A strategy's requests over its FIX session: the acceptor's callbacks    *)
(* (crates/gateway/src/fix_acceptor), the loop that hands each request to  *)
(* a task of its own, the InFlight map that keeps a cancel or a status     *)
(* request behind the new order it names, and the answer of each task      *)
(* (src/src/strategies/session.rs).  One strategy and one session; the     *)
(* acceptor may be restarted, and each acceptor has its own channel and    *)
(* its own loop.  What order_entry does with an order is in OrderPath;     *)
(* here it is what the session can tell apart: refused before anything was *)
(* stored, stored and refused, or stored and sent on.                      *)
(***************************************************************************)
EXTENDS Naturals, Sequences, FiniteSets

CONSTANTS
  ClOrdIds,     \* the ClOrdIDs the strategy uses
  MaxRestarts,  \* restarts of the acceptor
  MaxTraffic,   \* logons, restarts and messages of the strategy, together
  MaxDbFaults,  \* database reads that fail
  Resends       \* whether a ClOrdID is reused before its order was answered

ASSUME FixRequestsAssumption ==
  /\ MaxRestarts \in Nat /\ MaxTraffic \in Nat /\ MaxDbFaults \in Nat
  /\ Resends \in BOOLEAN

VARIABLES
  line,        \* the session as QuickFIX has it: logged on, which logon
  acceptor,    \* which acceptor is running
  inbound,     \* what each acceptor's channel holds, oldest first
  registered,  \* FixSessions.live and .sessions: the core knows the session
  unheard,     \* an acceptor was stopped before its LoggedOn was handled
  tasks,       \* every message sent, in order, and how far its task is
  placing,     \* InFlight: the task whose lock a ClOrdID maps to, 0 when none
  rows,        \* order_state by ClOrdID: the task that stored it, its status
  told,        \* the answers that reached the strategy: task and message type
  dbFaults

fixVars == <<line, acceptor, inbound, registered, unheard, tasks, placing, rows, told, dbFaults>>

NoRow == [by |-> 0, status |-> "none"]

FixRequestsInit ==
  /\ line = [up |-> FALSE, logons |-> 0]
  /\ acceptor = 1
  /\ inbound = [a \in 1..(MaxRestarts + 1) |-> <<>>]
  /\ registered = FALSE
  /\ unheard = FALSE
  /\ tasks = <<>>
  /\ placing = [c \in ClOrdIds |-> 0]
  /\ rows = [c \in ClOrdIds |-> NoRow]
  /\ told = {}
  /\ dbFaults = 0

Traffic == line.logons + (acceptor - 1) + Len(tasks)
At(n, pc) == n \in DOMAIN tasks /\ tasks[n].pc = pc
Moved(n, pc) == tasks' = [tasks EXCEPT ![n].pc = pc]

-----------------------------------------------------------------------------
(* The acceptor                                                            *)

\* Faulty variant: a second session is let in.
LogonDecisionAnyone == TRUE

\* The check of a Logon whose CompIDs and password are right, and whose
\* strategy may trade.
LogonDecision == ~ registered

Inform(event) == inbound' = [inbound EXCEPT ![acceptor] = Append(@, event)]

\* on_msg_from_admin and on_logon: checked, then told to the core
Logon ==
  /\ ~ line.up /\ Traffic < MaxTraffic
  /\ LogonDecision
  /\ line' = [line EXCEPT !.up = TRUE, !.logons = @ + 1]
  /\ Inform([kind |-> "LoggedOn", task |-> 0])
  /\ UNCHANGED <<acceptor, registered, unheard, tasks, placing, rows, told, dbFaults>>

\* on_logout: the socket ended, or QuickFIX's thread saw the flag `logout` set,
\* which Kill sets and Enable clears (StrategyGate).
SessionDown ==
  /\ line.up
  /\ line' = [line EXCEPT !.up = FALSE]
  /\ Inform([kind |-> "LoggedOut", task |-> 0])
  /\ UNCHANGED <<acceptor, registered, unheard, tasks, placing, rows, told, dbFaults>>

\* restart: the old acceptor logs its session out while it stops, and its loop
\* drains its own channel while the new one's runs.
Restart ==
  /\ acceptor <= MaxRestarts /\ Traffic < MaxTraffic
  /\ acceptor' = acceptor + 1
  /\ IF line.up THEN Inform([kind |-> "LoggedOut", task |-> 0]) ELSE UNCHANGED inbound
  /\ unheard' = (unheard \/ \E a \in DOMAIN inbound :
                              \E i \in DOMAIN inbound[a] : inbound[a][i].kind = "LoggedOn")
  /\ line' = [line EXCEPT !.up = FALSE]
  /\ UNCHANGED <<registered, tasks, placing, rows, told, dbFaults>>

\* A message as it comes off the wire: its type, the order it names, and
\* whether its required tags are there and readable (an unsupported type is
\* answered like an unreadable one).
Wire == {w \in [type : {"D", "F", "H", "x"}, id : ClOrdIds, complete : BOOLEAN] :
           /\ w.type = "x" => w.id = CHOOSE c \in ClOrdIds : TRUE
           /\ w.type # "D" => w.complete}

\* codec::decode: a request, or the business reject that answers it
Decode(w) == IF w.complete THEN CASE w.type = "D" -> "NewOrder"
                                  [] w.type = "F" -> "Cancel"
                                  [] w.type = "H" -> "Status"
                                  [] w.type = "x" -> "SecurityList"
             ELSE "BusinessReject"

\* codec::encode: the message type a report goes out as
Encode(report) == CASE report = "Exec" -> "8"
                    [] report = "CancelReject" -> "9"
                    [] report = "SecurityList" -> "y"
                    [] report = "BusinessReject" -> "j"

\* send_to_target: a report goes out on the session when it is logged on,
\* whichever logon that is; otherwise nobody hears it.
SendTo(n, report) == told' = IF line.up THEN told \cup {[task |-> n, type |-> Encode(report)]} ELSE told

\* An order whose answer the strategy still waits for.
Unanswered(c) == \E n \in DOMAIN tasks :
                   /\ tasks[n].request = "NewOrder" /\ tasks[n].id = c
                   /\ tasks[n].pc # "done" \/ rows[c].status = "submitted"

\* on_msg_from_app: a readable request goes to the core, any other is answered
\* at once on QuickFIX's thread.
StrategySends == \E w \in Wire :
  /\ line.up /\ Traffic < MaxTraffic
  /\ Decode(w) = "NewOrder" => Resends \/ ~ Unanswered(w.id)
  /\ LET n == Len(tasks) + 1
         request == Decode(w)
         task == [request |-> request, id |-> w.id, logon |-> line.logons,
                  pc |-> IF request = "BusinessReject" THEN "done" ELSE "inbound",
                  lock |-> 0, unknown |-> FALSE, fault |-> FALSE]
     IN /\ tasks' = Append(tasks, task)
        /\ IF request = "BusinessReject"
             THEN SendTo(n, "BusinessReject") /\ UNCHANGED inbound
             ELSE Inform([kind |-> "Request", task |-> n]) /\ UNCHANGED told
  /\ UNCHANGED <<line, acceptor, registered, unheard, placing, rows, dbFaults>>

-----------------------------------------------------------------------------
(* The loop of each acceptor: `run`                                        *)

\* InFlight::begin: a fresh lock, held, replaces what the ClOrdID mapped to.
Begin(n) == placing' = [placing EXCEPT ![tasks[n].id] = n]

\* InFlight::end: the ClOrdID is forgotten, whosever lock it maps to.
End(n) == placing' = [placing EXCEPT ![tasks[n].id] = 0]

Names == {"Cancel", "Status"}

\* Faulty variant: a new order is not marked as in flight.
DispatchUnmarked(n) == Moved(n, IF tasks[n].request \in Names THEN "started" ELSE "look")
                       /\ UNCHANGED placing

\* A cancel or status request takes the lock its ClOrdID maps to when its task
\* starts, which may be later than the request was handed to it; the other
\* requests wait for nobody.
Dispatch(n) == /\ Moved(n, IF tasks[n].request \in Names THEN "started" ELSE "look")
               /\ IF tasks[n].request = "NewOrder" THEN Begin(n) ELSE UNCHANGED placing

RunLoop(a) ==
  /\ inbound[a] # <<>>
  /\ inbound' = [inbound EXCEPT ![a] = Tail(@)]
  /\ LET event == Head(inbound[a])
     IN \/ /\ event.kind = "LoggedOn" /\ registered' = TRUE
           /\ UNCHANGED <<tasks, placing>>
        \/ /\ event.kind = "LoggedOut" /\ registered' = FALSE
           /\ UNCHANGED <<tasks, placing>>
        \/ /\ event.kind = "Request" /\ registered /\ Dispatch(event.task)
           /\ UNCHANGED registered
        \/ /\ event.kind = "Request" /\ ~ registered /\ Moved(event.task, "dropped")
           /\ UNCHANGED <<registered, placing>>
  /\ UNCHANGED <<line, acceptor, unheard, rows, told, dbFaults>>

-----------------------------------------------------------------------------
(* One task per request                                                    *)

\* The guard of a new order's lock is held until its task has handled it.
Held(n) == tasks[n].pc \in {"look", "submit", "route", "check"}

\* InFlight::wait: the lock found at the start is waited for, found or not
\* again later.
Wait(n) ==
  /\ At(n, "started")
  /\ LET first == placing[tasks[n].id]
     IN tasks' = [tasks EXCEPT ![n].pc = IF first = 0 THEN "look" ELSE "wait", ![n].lock = first]
  /\ UNCHANGED <<line, acceptor, inbound, registered, unheard, placing, rows, told, dbFaults>>

Woken(n) ==
  /\ At(n, "wait") /\ ~ Held(tasks[n].lock)
  /\ Moved(n, "look")
  /\ UNCHANGED <<line, acceptor, inbound, registered, unheard, placing, rows, told, dbFaults>>

\* Drop the guard, forget the order, then send the report if there is one.
Finish(n, reports) ==
  /\ IF tasks[n].request = "NewOrder" THEN End(n) ELSE UNCHANGED placing
  /\ IF reports = {} THEN UNCHANGED told ELSE \E r \in reports : SendTo(n, r)

\* order_by_cl_ord_id, the database failing
LookFails(n) ==
  /\ At(n, "look") /\ tasks[n].request # "SecurityList"
  /\ dbFaults < MaxDbFaults /\ dbFaults' = dbFaults + 1
  /\ tasks' = [tasks EXCEPT ![n].pc = "done", ![n].fault = TRUE]
  /\ Finish(n, {IF tasks[n].request = "Cancel" THEN "CancelReject" ELSE "Exec"})
  /\ UNCHANGED <<line, acceptor, inbound, registered, unheard, rows>>

\* NewOrder: a ClOrdID that is stored is a duplicate.
HandleNewOrder(n) ==
  /\ At(n, "look") /\ tasks[n].request = "NewOrder"
  /\ IF rows[tasks[n].id].status = "none"
       THEN Moved(n, "submit") /\ UNCHANGED <<placing, told>>
       ELSE Moved(n, "done") /\ Finish(n, {"Exec"})
  /\ UNCHANGED <<line, acceptor, inbound, registered, unheard, rows, dbFaults>>

\* submit: refused before anything is stored (a bad request, no grant, or a
\* ClOrdID that another order took since), refused and the refusal stored, or
\* stored and then sent to the venue.
Store(n) ==
  /\ At(n, "submit")
  /\ \/ Moved(n, "check") /\ UNCHANGED rows
     \/ /\ rows[tasks[n].id].status = "none"
        /\ \E status \in {"rejected", "submitted"} :
             /\ rows' = [rows EXCEPT ![tasks[n].id] = [by |-> n, status |-> status]]
             /\ Moved(n, IF status = "rejected" THEN "check" ELSE "route")
  /\ UNCHANGED <<line, acceptor, inbound, registered, unheard, placing, told, dbFaults>>

\* The venue takes it, refuses it, or does not say: the order stays submitted.
Route(n) ==
  /\ At(n, "route")
  /\ LET c == tasks[n].id
     IN \/ rows' = [rows EXCEPT ![c].status = IF @ = "submitted" THEN "routed" ELSE @]
           /\ Moved(n, "done") /\ Finish(n, {})
        \/ rows' = [rows EXCEPT ![c].status = IF @ = "submitted" THEN "rejected" ELSE @]
           /\ Moved(n, "check") /\ UNCHANGED <<placing, told>>
        \/ Moved(n, "check") /\ UNCHANGED <<rows, placing, told>>
  /\ UNCHANGED <<line, acceptor, inbound, registered, unheard, dbFaults>>

\* After a failed submit: a stored order answers from the report queue
\* (needs_sync_reject), anything else is refused now.
NeedsSyncReject(stored) == ~ stored

CheckStored(n) ==
  /\ At(n, "check")
  /\ \/ /\ Moved(n, "done") /\ UNCHANGED dbFaults
        /\ Finish(n, IF NeedsSyncReject(rows[tasks[n].id].status # "none") THEN {"Exec"} ELSE {})
     \/ /\ dbFaults < MaxDbFaults /\ dbFaults' = dbFaults + 1
        /\ tasks' = [tasks EXCEPT ![n].pc = "done", ![n].fault = TRUE]
        /\ Finish(n, IF NeedsSyncReject(FALSE) THEN {"Exec"} ELSE {})
  /\ UNCHANGED <<line, acceptor, inbound, registered, unheard, rows>>

\* A cancel of an order that is not there, or that is over, is refused now.
\* Otherwise its answer comes from the queue, counted here as sent: cancelled
\* here when the venue never took it, asked of the venue when it did, which
\* agrees or refuses.
HandleCancel(n) ==
  /\ At(n, "look") /\ tasks[n].request = "Cancel"
  /\ LET c == tasks[n].id
         status == rows[c].status
     IN \/ /\ status = "none"
           /\ tasks' = [tasks EXCEPT ![n].pc = "done", ![n].unknown = TRUE]
           /\ Finish(n, {"CancelReject"}) /\ UNCHANGED rows
        \/ /\ status \in {"rejected", "canceled"}
           /\ Moved(n, "done") /\ Finish(n, {"CancelReject"}) /\ UNCHANGED rows
        \/ /\ status \in {"submitted", "routed"}
           /\ rows' = [rows EXCEPT ![c].status = "canceled"]
           /\ tasks' = [tasks EXCEPT ![n].pc = "done"]
           /\ SendTo(n, "Exec") /\ UNCHANGED placing
        \/ /\ status = "routed"
           /\ Moved(n, "done") /\ Finish(n, {"CancelReject"}) /\ UNCHANGED rows
  /\ UNCHANGED <<line, acceptor, inbound, registered, unheard, dbFaults>>

\* status_report of the order as it stands; an unknown one reads as rejected
HandleStatus(n) ==
  /\ At(n, "look") /\ tasks[n].request = "Status"
  /\ tasks' = [tasks EXCEPT ![n].pc = "done", ![n].unknown = rows[tasks[n].id].status = "none"]
  /\ Finish(n, {"Exec"})
  /\ UNCHANGED <<line, acceptor, inbound, registered, unheard, rows, dbFaults>>

\* The list of tradeable instruments, empty when it cannot be read.
HandleSecurityList(n) ==
  /\ At(n, "look") /\ tasks[n].request = "SecurityList"
  /\ Moved(n, "done")
  /\ Finish(n, {"SecurityList"})
  /\ UNCHANGED <<line, acceptor, inbound, registered, unheard, rows, dbFaults>>

\* Reconciliation settles an order the venue never answered for.
Settle(c) ==
  /\ rows[c].status = "submitted" /\ At(rows[c].by, "done")
  /\ \E status \in {"routed", "rejected"} : rows' = [rows EXCEPT ![c].status = status]
  /\ UNCHANGED <<line, acceptor, inbound, registered, unheard, tasks, placing, told, dbFaults>>

FixRequestsNext ==
  \/ Logon \/ SessionDown \/ Restart \/ StrategySends
  \/ \E a \in DOMAIN inbound : RunLoop(a)
  \/ \E n \in DOMAIN tasks :
       \/ Wait(n) \/ Woken(n) \/ LookFails(n) \/ HandleNewOrder(n) \/ Store(n) \/ Route(n)
       \/ CheckStored(n) \/ HandleCancel(n) \/ HandleStatus(n) \/ HandleSecurityList(n)
  \/ \E c \in ClOrdIds : Settle(c)

FixRequestsSpec == FixRequestsInit /\ [][FixRequestsNext]_fixVars

-----------------------------------------------------------------------------
(* Properties                                                              *)

\* What answers a request: the reports sent for it and, for a new order that
\* was stored, the reports of its events, which leave through the queue.
Answers(n) == Cardinality({t \in told : t.task = n})
              + (IF tasks[n].request = "NewOrder" /\ rows[tasks[n].id].by = n THEN 1 ELSE 0)

\* A request handled with its session still up is answered once: a stored
\* order from the queue only, anything else at once, unless the database
\* failed under it (session.rs needs_sync_reject, handle; codec.rs decode).  And
\* no answer says that an order is unknown which the strategy sent before on the
\* same logon and which is then stored: a cancel or status request waits for the
\* order it names (session.rs InFlight).
RequestsAnswered ==
  /\ \A n \in DOMAIN tasks :
       tasks[n].pc = "done" /\ line.up /\ line.logons = tasks[n].logon /\ ~ tasks[n].fault
       => Answers(n) = 1
  /\ \A m, n \in DOMAIN tasks :
       /\ m < n /\ tasks[m].request = "NewOrder" /\ tasks[m].id = tasks[n].id
       /\ tasks[m].logon = tasks[n].logon /\ tasks[n].unknown
       => rows[tasks[m].id].by # m

\* Once the loops have read their channels, a session that is logged on is
\* known to the core, which would otherwise drop every request on it, unless
\* an acceptor was stopped before its logon was handled (session.rs restart,
\* logon_decision refusing a second session).
LoggedOnIsServed ==
  line.up /\ (\A a \in DOMAIN inbound : inbound[a] = <<>>) /\ ~ unheard => registered
==============================================================================

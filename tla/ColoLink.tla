------------------------------- MODULE ColoLink -------------------------------
(***************************************************************************)
(* The control link of a co-located strategy (colo/mod.rs,                 *)
(* colo/link_server.rs, crates/colo-link, crates/colo-example): what the   *)
(* strategy is told of Kill, Enable and its limits, across connections     *)
(* that break on either side.  Each connection starts with a State, read   *)
(* from the registry after the slot that receives pushes is in place.      *)
(* Booked positions follow on the same connection.  What Kill does at the  *)
(* venue is ColoKill.                                                      *)
(*                                                                         *)
(* One strategy, which quotes one instrument while its dead man's switch   *)
(* and its own limits allow it (without --ignore-kill).  Kill and Enable   *)
(* requests do not overlap one another, nor do limits changes; a limits    *)
(* change may overlap a Kill or an Enable, and each reload is a query and  *)
(* a later store, so that the older of two may win.                        *)
(***************************************************************************)
EXTENDS Integers, Sequences

CONSTANTS
  MaxConns,      \* connections of the control link
  MaxChanges     \* Kill and Enable requests, the automatic kill included, limits
                 \* changes, fills and transfers booked for the strategy, and
                 \* statements of any of these that fail

ASSUME LinkAssumption == {MaxConns, MaxChanges} \subseteq Nat

VARIABLES
  registry,  \* strategy row: [state, version, strict]; strict is its
             \* kill_when_unmonitored
  snapshot,  \* RegistrySnapshot: the row as last loaded
  behind,    \* which of "state" and "version" the snapshot lacks because a
             \* reload failed or was overtaken, or an update was refused late
  control,   \* the Kill or Enable under way: [op, pc, row], with the row its
             \* reload has read
  limits,    \* update_strategy under way: [pc, row]
  slot,      \* ColoHub::links: [conn, out, acked] or NoSlot
  graced,    \* the link has been down longer than no_link_grace
  link,      \* the newest connection: its number, whether it is open and its
             \* State is out, and the messages on the way to the strategy;
             \* untold: what it was told of from a snapshot that is behind, or
             \* not at all, as the request failed in between
  booked,    \* the position in the database
  feed,      \* positions_loop: the changes it has not received, and the list it
             \* read and is about to push, if any
  dead,      \* DeadMan: [active, killed, late]
  book,      \* RiskBook: [the limits version it enforces, the position]
  quotes,    \* the market maker: [trading, working]
  asked      \* how many connections and changes there were

oms == <<registry, snapshot, behind, control, limits>>
maker == <<dead, book, quotes>>
positions == <<booked, feed>>
linkVars == <<oms, slot, graced, link, positions, maker, asked>>

NoSlot == [conn |-> 0, out |-> <<>>, acked |-> 0]
NotRead == [state |-> "none", version |-> 0]
NoControl == [op |-> "none", pc |-> "idle", row |-> NotRead]
NoLimits == [pc |-> "idle", row |-> NotRead]
Empty == <<>>   \* the list positions() returns when its query fails

LinkInit ==
  /\ registry \in [state : {"ACTIVE"}, version : {1}, strict : BOOLEAN] /\ snapshot = registry
  /\ behind = {} /\ control = NoControl /\ limits = NoLimits
  /\ slot = NoSlot /\ graced = FALSE
  /\ link = [conn |-> 0, open |-> FALSE, stated |-> FALSE, untold |-> {}, msgs |-> <<>>]
  /\ booked = 0 /\ feed = [changes |-> 0, read |-> <<>>]
  /\ dead = [active |-> FALSE, killed |-> FALSE, late |-> TRUE]
  /\ book = [version |-> 0, position |-> Empty]
  /\ quotes = [trading |-> FALSE, working |-> FALSE]
  /\ asked = [conns |-> 0, changes |-> 0]

Ask(what, max) == asked[what] < max /\ asked' = [asked EXCEPT ![what] = @ + 1]

-----------------------------------------------------------------------------
(* The connection                                                          *)

\* ColoHub::push: handed to the connection, if there is one
Push(m) == slot' = IF slot = NoSlot THEN slot ELSE [slot EXCEPT !.out = Append(@, m)]

\* Link::spawn and handle: the strategy reconnects, and its new connection
\* replaces any older one in the slot
LinkConnect ==
  /\ Ask("conns", MaxConns) /\ ~ link.open
  /\ slot' = [conn |-> asked.conns + 1, out |-> <<>>, acked |-> 0]
  /\ graced' = FALSE
  /\ link' = [conn |-> asked.conns + 1, open |-> TRUE, stated |-> FALSE, untold |-> {},
              msgs |-> <<>>]
  /\ UNCHANGED <<oms, positions, maker>>

\* positions: the booked positions, or none at all if the query fails
ReadsList(list) == IF list = Empty THEN Ask("changes", MaxChanges) ELSE UNCHANGED asked

\* A State that says ACTIVE between a Kill's announcement and its reload lifts
\* the kill.
LiftsKill == control.op = "kill" /\ snapshot.state # "HALTED"

\* initial_state: always the first message on a connection
SendState ==
  /\ link.open /\ ~ link.stated
  /\ \E list \in {<<booked>>, Empty} :
     /\ ReadsList(list)
     /\ link' = [link EXCEPT !.stated = TRUE,
           !.untold = @ \cup behind \cup (IF LiftsKill THEN {"state"} ELSE {}),
           !.msgs = <<[type |-> "state", active |-> snapshot.state # "HALTED",
                       version |-> snapshot.version, position |-> list]>>]
  /\ UNCHANGED <<oms, slot, graced, positions, maker>>

\* handle: a push goes out.  One message at a time is on the wire: what waits
\* for it in the slot is lost with the connection as well.
SendPush ==
  /\ link.open /\ link.stated /\ link.msgs = <<>> /\ slot.conn = link.conn /\ slot.out # <<>>
  /\ link' = [link EXCEPT !.msgs = Append(@, Head(slot.out))]
  /\ slot' = [slot EXCEPT !.out = Tail(@)]
  /\ UNCHANGED <<oms, graced, positions, maker, asked>>

\* The connection breaks: the strategy sees it at once, the OMS when it has
\* not heard the strategy for three heartbeats.
LinkBreaks ==
  /\ link.open
  /\ link' = [link EXCEPT !.open = FALSE, !.msgs = <<>>]
  /\ UNCHANGED <<oms, slot, graced, positions, maker, asked>>

\* silent, then disconnect: of the connection that still holds the slot
Disconnect ==
  /\ slot # NoSlot /\ ~ link.open
  /\ slot' = NoSlot
  /\ UNCHANGED <<oms, graced, link, positions, maker, asked>>

\* link_down_for passes no_link_grace, which is longer than the strategy's
\* own timeout
GracePasses ==
  /\ slot = NoSlot /\ ~ link.open /\ ~ graced /\ dead.late
  /\ graced' = TRUE
  /\ UNCHANGED <<oms, slot, link, positions, maker, asked>>

-----------------------------------------------------------------------------
(* The strategy                                                            *)

MayTrade == dead.active /\ ~ dead.killed /\ ~ dead.late

\* on_control and DeadMan::apply.  The acknowledgement of the limits reaches
\* ColoHub::heard, which counts it if the connection still holds the slot.
OnControl ==
  /\ link.open /\ link.msgs # <<>>
  /\ LET m == Head(link.msgs) IN
     /\ dead' = [late |-> FALSE,
                 active |-> CASE m.type = "state" -> m.active
                              [] m.type = "resume" -> TRUE
                              [] OTHER -> dead.active,
                 killed |-> CASE m.type = "state" -> ~ m.active
                              [] m.type = "kill" -> TRUE
                              [] m.type = "resume" -> FALSE
                              [] OTHER -> dead.killed]
     /\ book' = [version |-> IF "version" \in DOMAIN m THEN m.version ELSE book.version,
                 position |-> IF "position" \in DOMAIN m THEN m.position ELSE book.position]
     /\ slot' = IF slot.conn = link.conn THEN [slot EXCEPT !.acked = book'.version] ELSE slot
     /\ quotes' = IF m.type = "kill" THEN [quotes EXCEPT !.working = FALSE] ELSE quotes
  /\ link' = [link EXCEPT !.msgs = Tail(@)]
  /\ UNCHANGED <<oms, graced, positions, asked>>

\* The dead man's timeout runs out: while the link is open the heartbeats
\* reset it.
Timeout ==
  /\ ~ dead.late /\ ~ link.open
  /\ dead' = [dead EXCEPT !.late = TRUE]
  /\ UNCHANGED <<oms, slot, graced, link, positions, book, quotes, asked>>

\* watch_switch: quotes come down when the switch opens
WatchSwitch ==
  /\ quotes.trading # MayTrade
  /\ quotes' = [trading |-> MayTrade, working |-> quotes.working /\ MayTrade]
  /\ UNCHANGED <<oms, slot, graced, link, positions, dead, book, asked>>

\* RiskBook::check of an order of one lot: the position it leads to stays
\* within the limit of the version in force, which a change lowers.  The limits
\* on one order, the price band and the rate refuse an order or do not,
\* whatever came before.
MaxPosition == IF book.version > 1 THEN 1 ELSE 2
Held == IF book.position = Empty THEN 0 ELSE Head(book.position)
Check(buy) == IF buy THEN Held + 1 <= MaxPosition ELSE Held - 1 >= - MaxPosition

\* quote: one order, placed if the limits allow it and the venue takes it
Quote(buy) == Check(buy)

\* requote: the quotes come down and go up again, each if the switch, read
\* anew, allows it
Requote ==
  /\ quotes.trading
  /\ \E up \in BOOLEAN :
     /\ up => MayTrade /\ \E buy \in BOOLEAN : Quote(buy)
     /\ quotes' = [quotes EXCEPT !.working = up]
  /\ UNCHANGED <<oms, slot, graced, link, positions, dead, book, asked>>

-----------------------------------------------------------------------------
(* Kill, Enable and a change of limits                                     *)

\* What of the row a reload would bring that is still under way, and what of it
\* a snapshot lacks
UnderWay == {x \in {"state", "version"} : IF x = "state" THEN control.pc \in {"query", "store"}
                                                         ELSE limits.pc \in {"written", "read"}}
Lacks(row) == {x \in {"state", "version"} : row[x] # registry[x]}

Row == [state |-> registry.state, version |-> registry.version]

\* RegistrySnapshot::replace: with what the reload's query read, now or a while
\* ago, when another reload may have stored something newer
Replace(row) ==
  /\ snapshot' = [snapshot EXCEPT !.state = row.state, !.version = row.version]
  /\ behind' = Lacks(row) \ UnderWay

Untold(x) == link' = [link EXCEPT !.untold = @ \cup {x}]
Told(x) == link' = [link EXCEPT !.untold = @ \ {x}]

\* Faulty variant: the strategy is to learn of it from the next State.
KillBeginUntold ==
  /\ control = NoControl /\ Ask("changes", MaxChanges)
  /\ control' = [NoControl EXCEPT !.op = "kill", !.pc = "set"]
  /\ UNCHANGED <<registry, snapshot, behind, limits, slot, graced, link, positions, maker>>

\* announce_kill: before any database work
KillBegin ==
  /\ control = NoControl /\ Ask("changes", MaxChanges)
  /\ control' = [NoControl EXCEPT !.op = "kill", !.pc = "set"]
  /\ Push([type |-> "kill"]) /\ Told("state")
  /\ UNCHANGED <<registry, snapshot, behind, limits, graced, positions, maker>>

\* unmonitored: no link for longer than the grace, or limits that were not
\* acknowledged, for which ten seconds may have passed
Unmonitored == IF slot = NoSlot THEN graced ELSE slot.acked < snapshot.version

\* on_event: an order or fill of a strategy that trades unmonitored
KillWhenUnmonitored ==
  /\ quotes.working /\ Unmonitored /\ snapshot.state # "HALTED" /\ snapshot.strict
  /\ KillBegin

EnableBegin ==
  /\ control = NoControl /\ Ask("changes", MaxChanges)
  /\ control' = [NoControl EXCEPT !.op = "enable", !.pc = "set"]
  /\ UNCHANGED <<registry, snapshot, behind, limits, slot, graced, link, positions, maker>>

\* set_state: the UPDATE
SetState ==
  /\ control.pc = "set"
  /\ registry' = [registry EXCEPT !.state = IF control.op = "kill" THEN "HALTED" ELSE "ACTIVE"]
  /\ control' = [control EXCEPT !.pc = "query"]
  /\ UNCHANGED <<snapshot, behind, limits, slot, graced, link, positions, maker, asked>>

\* The UPDATE fails: the strategy may have been told of a Kill that is not.
SetFails ==
  /\ control.pc = "set" /\ Ask("changes", MaxChanges)
  /\ control' = NoControl
  /\ IF control.op = "kill" /\ registry.state # "HALTED" THEN Untold("state") ELSE UNCHANGED link
  /\ UNCHANGED <<registry, snapshot, behind, limits, slot, graced, positions, maker>>

\* set_state: the reload's query
ReloadReads ==
  /\ control.pc = "query"
  /\ control' = [control EXCEPT !.pc = "store", !.row = Row]
  /\ UNCHANGED <<registry, snapshot, behind, limits, slot, graced, link, positions, maker, asked>>

\* It fails, and the request with it: Enable sends no Resume.
ReloadFails ==
  /\ control.pc = "query" /\ Ask("changes", MaxChanges)
  /\ control' = NoControl
  /\ behind' = behind \cup (Lacks(snapshot) \cap {"state"})
  /\ IF control.op = "enable" THEN Untold("state") ELSE UNCHANGED link
  /\ UNCHANGED <<registry, snapshot, limits, slot, graced, positions, maker>>

\* set_state: the store; Enable then sends Resume
Reload ==
  /\ control.pc = "store"
  /\ Replace(control.row)
  /\ control' = NoControl
  /\ IF control.op = "kill" THEN UNCHANGED <<slot, link>>
                            ELSE Push([type |-> "resume"]) /\ Told("state")
  /\ UNCHANGED <<registry, limits, graced, positions, maker, asked>>

\* update_strategy: the row, then the snapshot, then the push
LimitsWrite ==
  /\ limits = NoLimits /\ Ask("changes", MaxChanges)
  /\ registry' = [registry EXCEPT !.version = @ + 1]
  /\ limits' = [NoLimits EXCEPT !.pc = "written"]
  /\ UNCHANGED <<snapshot, behind, control, slot, graced, link, positions, maker>>

\* validate_comp_ids: refused when the row is written already; no reload, no push
LimitsRefused ==
  /\ limits.pc = "written" /\ Ask("changes", MaxChanges)
  /\ limits' = NoLimits /\ Untold("version")
  /\ behind' = behind \cup (Lacks(snapshot) \cap {"version"})
  /\ UNCHANGED <<registry, snapshot, control, slot, graced, positions, maker>>

LimitsRead ==
  /\ limits.pc = "written"
  /\ limits' = [pc |-> "read", row |-> Row]
  /\ UNCHANGED <<registry, snapshot, behind, control, slot, graced, link, positions, maker, asked>>

\* reload: the failure is logged, and what the snapshot has goes out
LimitsReadFails ==
  /\ limits.pc = "written" /\ Ask("changes", MaxChanges)
  /\ limits' = [NoLimits EXCEPT !.pc = "loaded"]
  /\ behind' = behind \cup (Lacks(snapshot) \cap {"version"})
  /\ UNCHANGED <<registry, snapshot, control, slot, graced, link, positions, maker>>

LimitsReload ==
  /\ limits.pc = "read"
  /\ Replace(limits.row) /\ limits' = [NoLimits EXCEPT !.pc = "loaded"]
  /\ UNCHANGED <<registry, control, slot, graced, link, positions, maker, asked>>

LimitsPush ==
  /\ limits.pc = "loaded" /\ limits' = NoLimits
  /\ Push([type |-> "limits", version |-> snapshot.version])
  /\ IF "version" \in behind THEN Untold("version") ELSE Told("version")
  /\ UNCHANGED <<registry, snapshot, behind, control, graced, positions, maker, asked>>

-----------------------------------------------------------------------------
(* Positions                                                               *)

\* apply_execution_report and publish_transfer: the commit, whose
\* PositionChanged reaches positions_loop at some later moment
BookPosition ==
  /\ Ask("changes", MaxChanges)
  /\ booked' = booked + 1
  /\ feed' = [feed EXCEPT !.changes = @ + 1]
  /\ UNCHANGED <<oms, slot, graced, link, maker>>

\* positions_loop: an event, or the notice that the lane lagged and events are
\* lost; either way the positions are read
LoopReads ==
  /\ feed.read = <<>>
  /\ \E left \in 0 .. (feed.changes - 1), list \in {<<booked>>, Empty} :
     /\ ReadsList(list)
     /\ feed' = [changes |-> left, read |-> <<list>>]
  /\ UNCHANGED <<oms, slot, graced, link, booked, maker>>

\* push_positions: the answer of the query goes down the link
LoopPushes ==
  /\ feed.read # <<>>
  /\ Push([type |-> "positions", position |-> Head(feed.read)])
  /\ feed' = [feed EXCEPT !.read = <<>>]
  /\ UNCHANGED <<oms, graced, link, booked, maker, asked>>

-----------------------------------------------------------------------------
LinkNext ==
  \/ LinkConnect \/ SendState \/ SendPush \/ LinkBreaks \/ Disconnect \/ GracePasses
  \/ OnControl \/ Timeout \/ WatchSwitch \/ Requote
  \/ KillBegin \/ KillWhenUnmonitored \/ EnableBegin \/ SetState \/ SetFails
  \/ ReloadReads \/ ReloadFails \/ Reload
  \/ LimitsWrite \/ LimitsRefused \/ LimitsRead \/ LimitsReadFails \/ LimitsReload \/ LimitsPush
  \/ BookPosition \/ LoopReads \/ LoopPushes

LinkSpec == LinkInit /\ [][LinkNext]_linkVars

\* Everything the OMS sent has arrived on an open connection.
Settled == /\ control = NoControl /\ limits = NoLimits /\ feed = [changes |-> 0, read |-> <<>>]
           /\ link.open /\ link.stated /\ slot.out = <<>> /\ link.msgs = <<>>

\* A strategy that has heard everything enforces the limits the registry holds,
\* against the booked position (or none, where its last read failed), across
\* reconnects, lagged lanes and reloads that overlap, and is killed exactly while
\* the registry says so, on whichever connection the Kill, the Resume or the State
\* came.  The exceptions, each until it is told of the same thing again (by a
\* push, or by the State of its next connection from a snapshot that is right): a
\* request that failed half-way and so told it nothing, or of a Kill that is not;
\* a State or limits from a snapshot that lacks the change, because a reload
\* failed or an older one was stored over it; and a State that says ACTIVE
\* between a Kill's announcement and its reload, which lifts the kill.
ControlsArrive ==
  Settled =>
    /\ "version" \in link.untold \/ book.version = registry.version
    /\ book.position \in {<<booked>>, Empty}
    /\ "state" \in link.untold \/ (dead.killed <=> registry.state = "HALTED")
    /\ dead.active \/ dead.killed
=============================================================================

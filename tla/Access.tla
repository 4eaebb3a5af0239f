-------------------------------- MODULE Access --------------------------------
(* Who may act: browser sessions and API keys, the middleware that turns one    *)
(* into a principal, the grant a handler asks for, the administrator's changes   *)
(* to all of them, and the socket of an open screen that keeps a session alive.  *)
(* Every database statement is a step of its own, and the clock may pass between *)
(* any two.                                                                     *)
EXTENDS Naturals, FiniteSets

CONSTANTS
    Sessions,       \* user_session rows, each used for one login
    Keys,           \* api_key rows
    Principals,
    Owner,          \* the principal a session or a key belongs to
    Requests,       \* HTTP requests of the trading router
    Idle, Absolute, \* SessionTtl
    TouchEvery,     \* TOUCH_INTERVAL_SECONDS
    KeepAliveEvery, \* KEEPALIVE_SECS
    MaxTime,        \* the clock stops here, a bound
    MaxHiccups      \* keepalive lookups the database fails, a bound

Creds == Sessions \cup Keys

ASSUME AccessConstants ==
    /\ Owner \in [Creds -> Principals] /\ Sessions \cap Keys = {}
    /\ Idle \in Nat /\ Absolute \in Nat /\ TouchEvery \in Nat /\ TouchEvery < Idle
    /\ KeepAliveEvery \in Nat \ {0} /\ KeepAliveEvery < Idle
    /\ MaxTime \in Nat /\ MaxHiccups \in Nat

VARIABLES
    now,
    principal,  \* status and principal_type of each principal
    canTrade,   \* principals whose grant says can_trade
    session,    \* the user_session rows
    key,        \* "none", "live" or "revoked"
    req,        \* the requests and what they have read
    socket,     \* the socket each session opened: open, when it next ticks
    hiccups,
    used,       \* history: when each session last authenticated a request
    cut         \* history: what has cut each request off ever since it arrived

accessVars == <<now, principal, canTrade, session, key, req, socket, hiccups, used, cut>>

NoRequest == [step |-> "idle", cred |-> "none", seen |-> 0]
NoSession == [status |-> "none", seen |-> 0, expires |-> 0, ended |-> 0]
NoSocket  == [open |-> FALSE, opened |-> 0, tick |-> 0]

-----------------------------------------------------------------------------
(* What a credential is worth                                                 *)

\* lookup_session, verify_key: the row that resolves a credential.
Resolves(c) ==
    /\ principal[Owner[c]].status = "ACTIVE"
    /\ IF c \in Sessions
       THEN session[c].status = "live" /\ principal[Owner[c]].type = "HUMAN"
       ELSE key[c] = "live"

\* sessions::is_expired
IsExpired(seen, expires) == now >= expires \/ now >= seen + Idle

\* sessions::needs_touch
NeedsTouch(seen) == now > seen + TouchEvery

\* Why a request with this credential must not act now.
CutOffBy(c) ==
    {why \in {"unresolved", "ungranted", "expired"} :
        /\ c \in Creds
        /\ \/ why = "unresolved" /\ ~Resolves(c)
           \/ why = "ungranted" /\ Owner[c] \notin canTrade
           \/ why = "expired" /\ c \in Sessions /\ IsExpired(session[c].seen, session[c].expires)}

\* What cut a request off when it arrived, and has not been lifted since.
WatchCut ==
    cut' = [r \in Requests |-> IF req[r].step = "idle" THEN CutOffBy(req[r].cred)'
                               ELSE cut[r] \cap CutOffBy(req[r].cred)']

-----------------------------------------------------------------------------
(* A request through authenticate, auth_middleware and its handler            *)

Arrive(r, c) ==
    /\ req[r].step = "idle"
    /\ IF c \in Sessions THEN session[c].status # "none" ELSE key[c] # "none"
    /\ req' = [req EXCEPT ![r] = [NoRequest EXCEPT !.step = "lookup", !.cred = c]]
    /\ UNCHANGED <<now, principal, canTrade, session, key, socket, hiccups, used>>

Refused(r) == req' = [req EXCEPT ![r] = NoRequest]

\* Faulty variant: the row alone decides, whoever it belongs to.
LookupAnyStatus(r) ==
    LET c == req[r].cred IN
    /\ req[r].step = "lookup"
    /\ IF ~(IF c \in Sessions THEN session[c].status = "live" ELSE key[c] = "live") THEN Refused(r)
       ELSE req' = [req EXCEPT ![r] = IF c \in Keys THEN [@ EXCEPT !.step = "hash"]
                        ELSE [@ EXCEPT !.step = "check", !.seen = session[c].seen]]
    /\ UNCHANGED <<now, principal, canTrade, session, key, socket, hiccups, used>>

\* The one read that resolves the credential.
Lookup(r) ==
    LET c == req[r].cred IN
    /\ req[r].step = "lookup"
    /\ IF ~Resolves(c) THEN Refused(r)
       ELSE req' = [req EXCEPT ![r] = IF c \in Keys THEN [@ EXCEPT !.step = "hash"]
                        ELSE [@ EXCEPT !.step = "check", !.seen = session[c].seen]]
    /\ UNCHANGED <<now, principal, canTrade, session, key, socket, hiccups, used>>

\* verify_key: bcrypt off the thread, on the hash that was read.
VerifyKey(r) ==
    /\ req[r].step = "hash"
    /\ req' = [req EXCEPT ![r].step = "handler"]
    /\ UNCHANGED <<now, principal, canTrade, session, key, socket, hiccups, used>>

\* The expiry of what was read, at the clock of now; a touch when it is due.
CheckExpiry(r) ==
    LET s == req[r].cred IN
    /\ req[r].step = "check"
    /\ IF IsExpired(req[r].seen, session[s].expires) THEN Refused(r) /\ UNCHANGED used
       ELSE IF NeedsTouch(req[r].seen)
       THEN req' = [req EXCEPT ![r].step = "touch"] /\ UNCHANGED used
       ELSE req' = [req EXCEPT ![r].step = "handler"] /\ used' = [used EXCEPT ![s] = now]
    /\ UNCHANGED <<now, principal, canTrade, session, key, socket, hiccups>>

\* touch_session: by id, so a row deleted meanwhile is not brought back.
Touched(s) == session' = IF session[s].status \in {"live", "revoked"}
                         THEN [session EXCEPT ![s].seen = now] ELSE session

Touch(r) ==
    LET s == req[r].cred IN
    /\ req[r].step = "touch"
    /\ Touched(s)
    /\ used' = [used EXCEPT ![s] = now]
    /\ req' = [req EXCEPT ![r].step = "handler"]
    /\ UNCHANGED <<now, principal, canTrade, key, socket, hiccups>>

\* A request that came from another origin, a stopped strategy's, or one whose
\* statement the database failed.
Refuse(r) ==
    /\ req[r].step \in {"lookup", "touch", "handler"}
    /\ Refused(r)
    /\ UNCHANGED <<now, principal, canTrade, session, key, socket, hiccups, used>>

\* require_order_grant, and the same query in place_order: then the handler acts.
AskGrant(r) ==
    /\ req[r].step = "handler"
    /\ IF Owner[req[r].cred] \in canTrade THEN req' = [req EXCEPT ![r].step = "acts"] ELSE Refused(r)
    /\ UNCHANGED <<now, principal, canTrade, session, key, socket, hiccups, used>>

Answer(r) ==
    /\ req[r].step = "acts"
    /\ Refused(r)
    /\ UNCHANGED <<now, principal, canTrade, session, key, socket, hiccups, used>>

-----------------------------------------------------------------------------
(* Sessions                                                                   *)

\* create_session, at the end of a login.
CreateSession(s) ==
    /\ session[s].status = "none"
    /\ principal[Owner[s]] = [status |-> "ACTIVE", type |-> "HUMAN"]
    /\ session' = [session EXCEPT ![s] = [status |-> "live", seen |-> now,
                                             expires |-> now + Absolute, ended |-> now + Absolute]]
    /\ used' = [used EXCEPT ![s] = now]
    /\ UNCHANGED <<now, principal, canTrade, key, req, socket, hiccups>>

Earlier(a, b) == IF a < b THEN a ELSE b

\* revoke_session
Revoked(s) == [session[s] EXCEPT !.status = "revoked", !.ended = Earlier(@, now)]

\* logout: a session that still resolves is revoked.
Logout(s) ==
    /\ session[s].status = "live" /\ Resolves(s)
    /\ session' = [session EXCEPT ![s] = Revoked(s)]
    /\ UNCHANGED <<now, principal, canTrade, key, req, socket, hiccups, used>>

\* sessions::sweep_expired, hourly.
SweepSessions ==
    /\ \E s \in Sessions : session[s].status \in {"live", "revoked"} /\ session[s].expires < now
    /\ session' = [s \in Sessions |->
           IF session[s].status # "none" /\ session[s].expires < now THEN [session[s] EXCEPT !.status = "deleted"]
           ELSE session[s]]
    /\ UNCHANGED <<now, principal, canTrade, key, req, socket, hiccups, used>>

\* ws_updates, serve_socket: a screen that authenticated opens its socket.
OpenSocket(r) ==
    LET s == req[r].cred IN
    /\ req[r].step = "handler" /\ s \in Sessions /\ ~socket[s].open
    /\ socket' = [socket EXCEPT ![s] = [open |-> TRUE, opened |-> now, tick |-> now + KeepAliveEvery]]
    /\ Refused(r)
    /\ UNCHANGED <<now, principal, canTrade, session, key, hiccups, used>>

\* Faulty variant: the cap is for requests; a session that resolves is touched.
KeepAliveTickUncapped(s) ==
    /\ socket[s].open /\ now >= socket[s].tick
    /\ IF Resolves(s)
       THEN Touched(s) /\ socket' = [socket EXCEPT ![s].tick = now + KeepAliveEvery]
       ELSE socket' = [socket EXCEPT ![s] = NoSocket] /\ UNCHANGED session
    /\ UNCHANGED <<now, principal, canTrade, key, req, hiccups, used>>

\* keepalive_step: a socket counts as activity until the cap or a revocation.
KeepAliveTick(s) ==
    /\ socket[s].open /\ now >= socket[s].tick
    /\ IF Resolves(s) /\ now < session[s].expires
       THEN Touched(s) /\ socket' = [socket EXCEPT ![s].tick = now + KeepAliveEvery]
       ELSE socket' = [socket EXCEPT ![s] = NoSocket] /\ UNCHANGED session
    /\ UNCHANGED <<now, principal, canTrade, key, req, hiccups, used>>

\* "a DB hiccup is not a reason to drop the trader: try again next tick".
KeepAliveHiccup(s) ==
    /\ socket[s].open /\ now >= socket[s].tick
    /\ hiccups < MaxHiccups /\ hiccups' = hiccups + 1
    /\ socket' = [socket EXCEPT ![s].tick = now + KeepAliveEvery]
    /\ UNCHANGED <<now, principal, canTrade, session, key, req, used>>

CloseSocket(s) ==
    /\ socket[s].open
    /\ socket' = [socket EXCEPT ![s] = NoSocket]
    /\ UNCHANGED <<now, principal, canTrade, session, key, req, hiccups, used>>

-----------------------------------------------------------------------------
(* The administrator                                                          *)

\* update_principal: nothing is revoked; whoever is disabled stops resolving.
UpdatePrincipal(p, status, type) ==
    /\ principal[p] # [status |-> status, type |-> type]
    /\ principal' = [principal EXCEPT ![p] = [status |-> status, type |-> type]]
    /\ UNCHANGED <<now, canTrade, session, key, req, socket, hiccups, used>>

\* revoke_all_for_principal: one statement over the live rows
AllRevoked(p) == [s \in Sessions |-> IF Owner[s] = p /\ session[s].status = "live"
                                     THEN Revoked(s) ELSE session[s]]

\* revoke_principal_sessions
RevokeSessions(p) ==
    /\ session' = AllRevoked(p) /\ session' # session
    /\ UNCHANGED <<now, principal, canTrade, key, req, socket, hiccups, used>>

\* register_principal_key
RegisterKey(k) ==
    /\ key[k] = "none"
    /\ key' = [key EXCEPT ![k] = "live"]
    /\ UNCHANGED <<now, principal, canTrade, session, req, socket, hiccups, used>>

\* create_trading_token: the key, and the grant when there is none yet.
CreateTradingToken(k, grant) ==
    /\ key[k] = "none"
    /\ key' = [key EXCEPT ![k] = "live"]
    /\ canTrade' = IF grant THEN canTrade \cup {Owner[k]} ELSE canTrade
    /\ UNCHANGED <<now, principal, session, req, socket, hiccups, used>>

\* revoke_principal_key: the principal's key, once
RevokeKey(k) ==
    /\ key[k] = "live"
    /\ key' = [key EXCEPT ![k] = "revoked"]
    /\ UNCHANGED <<now, principal, canTrade, session, req, socket, hiccups, used>>

\* revoke_trading_token: the same by key id alone; the grant stays
RevokeTradingToken(k) == RevokeKey(k)

\* create_grant, update_grant
Grant(p) ==
    /\ p \notin canTrade
    /\ canTrade' = canTrade \cup {p}
    /\ UNCHANGED <<now, principal, session, key, req, socket, hiccups, used>>

\* update_grant, delete_grant
Ungrant(p) ==
    /\ p \in canTrade
    /\ canTrade' = canTrade \ {p}
    /\ UNCHANGED <<now, principal, session, key, req, socket, hiccups, used>>

\* Time passes, but not past a keepalive that is due.
Clock ==
    /\ now < MaxTime
    /\ \A s \in Sessions : socket[s].open => now < socket[s].tick
    /\ now' = now + 1
    /\ UNCHANGED <<principal, canTrade, session, key, req, socket, hiccups, used>>

-----------------------------------------------------------------------------

AccessInit ==
    /\ now = 0
    /\ principal = [p \in Principals |-> [status |-> "ACTIVE", type |-> "HUMAN"]]
    /\ canTrade = Principals
    /\ session = [s \in Sessions |-> NoSession]
    /\ key = [k \in Keys |-> "none"]
    /\ req = [r \in Requests |-> NoRequest]
    /\ socket = [s \in Sessions |-> NoSocket]
    /\ hiccups = 0
    /\ used = [s \in Sessions |-> 0]
    /\ cut = [r \in Requests |-> {}]

RequestNext(r) ==
    \/ \E c \in Creds : Arrive(r, c)
    \/ Lookup(r) \/ VerifyKey(r) \/ CheckExpiry(r) \/ Touch(r) \/ Refuse(r) \/ AskGrant(r) \/ Answer(r)
    \/ OpenSocket(r)

AccessStep ==
    \/ \E r \in Requests : RequestNext(r)
    \/ \E s \in Sessions : CreateSession(s) \/ Logout(s) \/ KeepAliveTick(s) \/ KeepAliveHiccup(s) \/ CloseSocket(s)
    \/ SweepSessions
    \/ \E p \in Principals, status \in {"ACTIVE", "DISABLED"}, type \in {"HUMAN", "SERVICE"} :
          UpdatePrincipal(p, status, type)
    \/ \E p \in Principals : RevokeSessions(p) \/ Grant(p) \/ Ungrant(p)
    \/ \E k \in Keys : RegisterKey(k) \/ RevokeKey(k) \/ RevokeTradingToken(k) \/ (\E g \in BOOLEAN : CreateTradingToken(k, g))
    \/ Clock

AccessNext == AccessStep /\ WatchCut

AccessSpec == AccessInit /\ [][AccessNext]_accessVars

-----------------------------------------------------------------------------
(* Properties                                                                 *)

\* Cutting somebody off works on the very next request: one that arrives when
\* its session or key is revoked or its principal disabled, its grant withdrawn,
\* or its session expired never acts while that lasts, whatever statements of it
\* are still to come, and whatever else is given back or taken away meanwhile.
CutOffHolds == \A r \in Requests : req[r].step = "acts" => cut[r] = {}

\* Touches are throttled, yet nobody who works is logged out for idleness: a
\* session that let a request in less than Idle - TouchEvery ago has not idled
\* out. And a socket, which counts as work, never outlives its login by more
\* than the tick that finds out, and one for each tick the database did not
\* answer: that long after the session is revoked or past its cap it is gone,
\* even when a request that was let in before opens it afterwards.
SessionLifetime ==
    \A s \in Sessions :
        /\ session[s].status \in {"live", "deleted"} /\ now < session[s].expires /\ now < used[s] + Idle - TouchEvery
               => session[s].status = "live" /\ now < session[s].seen + Idle
        /\ socket[s].open =>
               \/ now <= session[s].ended + KeepAliveEvery * (1 + hiccups)
               \/ now <= socket[s].opened + KeepAliveEvery * (1 + hiccups)
=============================================================================

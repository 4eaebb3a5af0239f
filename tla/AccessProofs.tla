----------------------------- MODULE AccessProofs -----------------------------
(* What Access, SignIn and ColoLink promise, proved for any number of sessions,  *)
(* keys, requests, principals, logins and browsers, any time limits and any      *)
(* length of a run.                                                             *)
EXTENDS Access, SignIn, ColoLink, FiniteSetTheorems, TLAPS

-----------------------------------------------------------------------------
(* Access: types                                                              *)

Reasons == {"unresolved", "ungranted", "expired"}

SessionRow == [status : {"none", "live", "revoked", "deleted"}, seen : Nat, expires : Nat, ended : Nat]
Request == [step : {"idle", "lookup", "hash", "check", "touch", "handler", "acts"},
            cred : Creds \cup {"none"}, seen : Nat]
Socket == [open : BOOLEAN, opened : Nat, tick : Nat]

AccessTypeOK ==
    /\ now \in Nat
    /\ principal \in [Principals -> [status : {"ACTIVE", "DISABLED"}, type : {"HUMAN", "SERVICE"}]]
    /\ canTrade \subseteq Principals
    /\ session \in [Sessions -> SessionRow]
    /\ key \in [Keys -> {"none", "live", "revoked"}]
    /\ req \in [Requests -> Request]
    /\ socket \in [Sessions -> Socket]
    /\ hiccups \in Nat
    /\ used \in [Sessions -> Nat]
    /\ cut \in [Requests -> SUBSET Reasons]

\* A request past its arrival has a credential whose row was once there; what
\* it read of a session is no newer than the row.
ReqOK ==
    \A r \in Requests :
        /\ req[r].step # "idle" => req[r].cred \in Creds
        /\ req[r].step # "idle" /\ req[r].cred \in Sessions => session[req[r].cred].status # "none"
        /\ req[r].step = "hash" => req[r].cred \in Keys
        /\ req[r].step \in {"check", "touch"} => req[r].cred \in Sessions
        /\ req[r].step = "check" => req[r].seen <= session[req[r].cred].seen

\* What cut a request off is still so, and is not what it has been checked for.
CutOK ==
    \A r \in Requests :
        /\ cut[r] \subseteq CutOffBy(req[r].cred)
        /\ req[r].step \notin {"idle", "lookup"} => "unresolved" \notin cut[r]
        /\ req[r].step \notin {"idle", "lookup", "check"} => "expired" \notin cut[r]
        /\ req[r].step = "acts" => "ungranted" \notin cut[r]

\* A live session was seen no longer before its last use than a touch is
\* spared; a deleted one is past its cap.
SessionOK ==
    \A s \in Sessions :
        /\ session[s].seen <= now
        /\ session[s].status = "live" => used[s] <= session[s].seen + TouchEvery
        /\ session[s].status = "live" => session[s].ended = session[s].expires
        /\ session[s].status = "deleted" => session[s].expires < now

\* What a socket is given beyond the end of its login, or beyond its opening.
Grace == KeepAliveEvery * (1 + hiccups)

\* An open socket's next tick is near, and not far beyond its login.
SocketOK ==
    \A s \in Sessions : socket[s].open =>
        /\ session[s].status # "none"
        /\ now <= socket[s].tick
        /\ socket[s].tick <= now + KeepAliveEvery
        /\ \/ socket[s].tick <= session[s].ended + Grace
           \/ socket[s].tick <= socket[s].opened + Grace

AccessInv == AccessTypeOK /\ ReqOK /\ CutOK /\ SessionOK /\ SocketOK


-----------------------------------------------------------------------------
(* Access: initially                                                          *)

LEMMA AccessInitInv == AccessInit => AccessInv
<1> SUFFICES ASSUME AccessInit PROVE AccessInv
  OBVIOUS
<1> USE DEF AccessInit, NoRequest, NoSession, NoSocket
<1>1. AccessTypeOK
  BY DEF AccessTypeOK, Reasons, SessionRow, Request, Socket
<1>2. ReqOK /\ CutOK /\ SessionOK /\ SocketOK
  BY AccessConstants DEF ReqOK, CutOK, SessionOK, SocketOK
<1> QED BY <1>1, <1>2 DEF AccessInv

-----------------------------------------------------------------------------
(* Access: what a step makes of a session, of a request and of a socket       *)

\* What can have become of a session's row.
SessionMoves(s) ==
    \/ session'[s] = session[s]
    \/ /\ session[s].status = "none" /\ used'[s] = now
       /\ session'[s] = [status |-> "live", seen |-> now, expires |-> now + Absolute, ended |-> now + Absolute]
    \/ session[s].status \in {"live", "revoked"} /\ session'[s] = [session[s] EXCEPT !.seen = now]
    \/ session[s].status = "live" /\ session'[s] = [session[s] EXCEPT !.status = "revoked", !.ended = Earlier(session[s].ended, now)]
    \/ session[s].status # "none" /\ session[s].expires < now /\ session'[s] = [session[s] EXCEPT !.status = "deleted"]

SessionsMove == session' = [s \in Sessions |-> session'[s]] /\ \A s \in Sessions : SessionMoves(s)

LEMMA SessionStep ==
  ASSUME AccessInv, AccessStep
  PROVE  SessionsMove
<1> USE DEF SessionsMove, SessionMoves
<1>0. /\ session \in [Sessions -> SessionRow] /\ used \in [Sessions -> Nat]
  BY DEF AccessInv, AccessTypeOK
<1>1. ASSUME UNCHANGED session PROVE SessionsMove
  BY <1>0, <1>1
<1>2. ASSUME NEW r \in Requests, Touch(r) PROVE SessionsMove
  BY <1>0, <1>2 DEF Touch, Touched
<1>3. ASSUME NEW t \in Sessions, CreateSession(t) PROVE SessionsMove
  BY <1>0, <1>3 DEF CreateSession
<1>4. ASSUME NEW t \in Sessions, Logout(t) PROVE SessionsMove
  BY <1>0, <1>4 DEF Logout, Revoked
<1>5. ASSUME NEW t \in Sessions, KeepAliveTick(t) PROVE SessionsMove
  BY <1>0, <1>5 DEF KeepAliveTick, Touched
<1>6. ASSUME SweepSessions PROVE SessionsMove
  BY <1>0, <1>6 DEF SweepSessions
<1>7. ASSUME NEW p \in Principals, RevokeSessions(p) PROVE SessionsMove
  BY <1>0, <1>7 DEF RevokeSessions, AllRevoked, Revoked
<1> HIDE DEF SessionsMove
<1> QED
  BY <1>1, <1>2, <1>3, <1>4, <1>5, <1>6, <1>7 DEF AccessStep, RequestNext, Arrive, Lookup, VerifyKey,
     CheckExpiry, Refuse, AskGrant, Answer, OpenSocket, KeepAliveHiccup, CloseSocket, UpdatePrincipal,
     Grant, Ungrant, RegisterKey, RevokeKey, RevokeTradingToken, CreateTradingToken, Clock

LEMMA SessionRowStep ==
  ASSUME AccessInv, SessionsMove, NEW s \in Sessions
  PROVE  /\ session'[s] \in SessionRow
         /\ session[s].seen <= session'[s].seen /\ session'[s].seen <= now
         /\ session[s].status # "none" => session'[s].status # "none"
<1>0. session[s] \in SessionRow /\ now \in Nat /\ Absolute \in Nat /\ session[s].seen <= now
  BY AccessConstants DEF AccessInv, AccessTypeOK, SessionOK
<1>1. SessionMoves(s)
  BY DEF SessionsMove
<1>2. Earlier(session[s].ended, now) \in Nat /\ session[s].seen \in Nat
  BY <1>0 DEF Earlier, SessionRow
<1>3. CASE session'[s] = session[s]
  BY <1>0, <1>2, <1>3
<1>4. CASE session'[s] = [status |-> "live", seen |-> now, expires |-> now + Absolute, ended |-> now + Absolute]
  BY <1>0, <1>4 DEF SessionRow
<1>5. CASE session'[s] = [session[s] EXCEPT !.seen = now]
  BY <1>0, <1>2, <1>5 DEF SessionRow
<1>6. CASE session'[s] = [session[s] EXCEPT !.status = "revoked", !.ended = Earlier(session[s].ended, now)]
  <2>1. PICK n \in Nat : n = Earlier(session[s].ended, now)
    BY <1>2
  <2>2. session'[s] = [session[s] EXCEPT !.status = "revoked", !.ended = n]
    BY <1>6, <2>1
  <2>3. session'[s] = [status |-> "revoked", seen |-> session[s].seen, expires |-> session[s].expires, ended |-> n]
    BY <1>0, <2>2 DEF SessionRow
  <2>4. session[s].expires \in Nat
    BY <1>0 DEF SessionRow
  <2>5. session'[s] \in SessionRow
    BY <1>2, <2>1, <2>3, <2>4 DEF SessionRow
  <2> QED BY <1>0, <1>2, <2>3, <2>5
<1>7. CASE session'[s] = [session[s] EXCEPT !.status = "deleted"]
  BY <1>0, <1>2, <1>7 DEF SessionRow
<1> QED BY <1>1, <1>3, <1>4, <1>5, <1>6, <1>7 DEF SessionMoves

\* What can have become of a request: it stays, ends, arrives or goes on.
RequestMoves(r) ==
    \/ req'[r] = req[r]
    \/ req'[r] = NoRequest
    \/ /\ req[r].step = "idle"
       /\ \E c \in Creds :
             /\ req'[r] = [NoRequest EXCEPT !.step = "lookup", !.cred = c]
             /\ c \in Sessions => session[c].status # "none"
    \/ /\ req[r].step = "lookup" /\ Resolves(req[r].cred)
       /\ \/ req[r].cred \in Keys /\ req'[r] = [req[r] EXCEPT !.step = "hash"]
          \/ /\ req[r].cred \in Sessions
             /\ req'[r] = [req[r] EXCEPT !.step = "check", !.seen = session[req[r].cred].seen]
    \/ req[r].step = "hash" /\ req'[r] = [req[r] EXCEPT !.step = "handler"]
    \/ /\ req[r].step = "check" /\ ~IsExpired(req[r].seen, session[req[r].cred].expires)
       /\ req'[r] \in {[req[r] EXCEPT !.step = "touch"], [req[r] EXCEPT !.step = "handler"]}
    \/ req[r].step = "touch" /\ req'[r] = [req[r] EXCEPT !.step = "handler"]
    \/ req[r].step = "handler" /\ Owner[req[r].cred] \in canTrade /\ req'[r] = [req[r] EXCEPT !.step = "acts"]

RequestsMove == req' = [r \in Requests |-> req'[r]] /\ \A r \in Requests : RequestMoves(r)

LEMMA RequestStep ==
  ASSUME AccessInv, AccessStep
  PROVE  RequestsMove
<1> USE DEF RequestsMove, RequestMoves
<1>0. req \in [Requests -> Request] /\ ReqOK
  BY DEF AccessInv, AccessTypeOK
<1>1. ASSUME UNCHANGED req PROVE RequestsMove
  BY <1>0, <1>1
<1>2. ASSUME NEW q \in Requests, NEW c \in Creds, Arrive(q, c) PROVE RequestsMove
  BY <1>0, <1>2 DEF Arrive
<1>3. ASSUME NEW q \in Requests, Lookup(q) PROVE RequestsMove
  BY <1>0, <1>3, ZenonT(40) DEF Lookup, Refused, ReqOK, Creds
<1>4. ASSUME NEW q \in Requests, VerifyKey(q) PROVE RequestsMove
  <2>1. req[q].step = "hash" /\ req' = [req EXCEPT ![q].step = "handler"]
    BY <1>4 DEF VerifyKey
  <2> QED BY <1>0, <2>1
<1>5. ASSUME NEW q \in Requests, CheckExpiry(q) PROVE RequestsMove
  BY <1>0, <1>5 DEF CheckExpiry, Refused
<1>6. ASSUME NEW q \in Requests, Touch(q) PROVE RequestsMove
  BY <1>0, <1>6 DEF Touch
<1>7. ASSUME NEW q \in Requests, AskGrant(q) PROVE RequestsMove
  BY <1>0, <1>7 DEF AskGrant, Refused
<1>8. ASSUME NEW q \in Requests, Refused(q) PROVE RequestsMove
  BY <1>0, <1>8 DEF Refused
<1> HIDE DEF RequestsMove
<1> QED
  BY <1>1, <1>2, <1>3, <1>4, <1>5, <1>6, <1>7, <1>8 DEF AccessStep, RequestNext, Refuse, Answer,
     OpenSocket, CreateSession, Logout, KeepAliveTick, KeepAliveHiccup, CloseSocket, SweepSessions,
     UpdatePrincipal, RevokeSessions, Grant, Ungrant, RegisterKey, RevokeKey, RevokeTradingToken,
     CreateTradingToken, Clock

LEMMA RequestRowStep ==
  ASSUME AccessInv, AccessStep, NEW r \in Requests
  PROVE  req'[r] \in Request
<1>0. req[r] \in Request /\ session \in [Sessions -> SessionRow]
  BY DEF AccessInv, AccessTypeOK
<1>1. \A s \in Sessions : session[s].seen \in Nat
  BY <1>0 DEF SessionRow
<1>2. RequestMoves(r)
  BY RequestStep DEF RequestsMove
<1>3. NoRequest \in Request
  BY DEF NoRequest, Request
<1>4. ASSUME NEW x \in {"hash", "touch", "handler", "acts"}, req'[r] = [req[r] EXCEPT !.step = x]
      PROVE  req'[r] \in Request
  BY <1>0, <1>4 DEF Request
<1>5. ASSUME NEW c \in Creds, req'[r] = [NoRequest EXCEPT !.step = "lookup", !.cred = c]
      PROVE  req'[r] \in Request
  BY <1>3, <1>5 DEF Request, NoRequest
<1>6. ASSUME NEW s \in Sessions, req'[r] = [req[r] EXCEPT !.step = "check", !.seen = session[s].seen]
      PROVE  req'[r] \in Request
  BY <1>0, <1>1, <1>6 DEF Request
<1> QED BY <1>0, <1>2, <1>3, <1>4, <1>5, <1>6 DEF RequestMoves

\* What can have become of a socket; the clock passes no tick that is due.
SocketMoves(s) ==
    /\ hiccups' >= hiccups
    /\ \/ socket'[s] = socket[s] /\ now' \in {now, now + 1} /\ (socket[s].open => now' = now \/ now < socket[s].tick)
       \/ socket'[s] = NoSocket
       \/ /\ socket'[s] = [open |-> TRUE, opened |-> now, tick |-> now + KeepAliveEvery]
          /\ session[s].status # "none" /\ UNCHANGED <<now, hiccups>>
       \/ /\ socket[s].open /\ now < session[s].expires /\ session[s].status = "live"
          /\ socket'[s] = [socket[s] EXCEPT !.tick = now + KeepAliveEvery] /\ UNCHANGED <<now, hiccups>>
       \/ /\ socket[s].open /\ now >= socket[s].tick /\ hiccups' = hiccups + 1
          /\ socket'[s] = [socket[s] EXCEPT !.tick = now + KeepAliveEvery] /\ UNCHANGED <<now, session>>

SocketsMove == socket' = [s \in Sessions |-> socket'[s]] /\ \A s \in Sessions : SocketMoves(s)

LEMMA SocketStep ==
  ASSUME AccessInv, AccessStep
  PROVE  SocketsMove
<1> USE DEF SocketsMove, SocketMoves
<1>0. socket \in [Sessions -> Socket] /\ ReqOK /\ hiccups \in Nat /\ now \in Nat
  BY DEF AccessInv, AccessTypeOK
<1>1. ASSUME UNCHANGED <<now, socket, hiccups>> PROVE SocketsMove
  BY <1>0, <1>1
<1>2. ASSUME NEW r \in Requests, OpenSocket(r) PROVE SocketsMove
  <2>1. /\ req[r].cred \in Sessions /\ session[req[r].cred].status # "none" /\ UNCHANGED <<now, hiccups>>
        /\ socket' = [socket EXCEPT ![req[r].cred] =
                        [open |-> TRUE, opened |-> now, tick |-> now + KeepAliveEvery]]
    BY <1>0, <1>2 DEF OpenSocket, ReqOK
  <2>2. PICK t \in Sessions : t = req[r].cred
    BY <2>1
  <2>3. \A s \in Sessions : SocketMoves(s)
    <3> TAKE s \in Sessions
    <3>1. CASE s = t
      BY <1>0, <2>1, <2>2, <3>1
    <3>2. CASE s # t
      BY <1>0, <2>1, <2>2, <3>2
    <3> QED BY <3>1, <3>2
  <2> QED BY <1>0, <2>1, <2>3
<1>3. ASSUME NEW t \in Sessions, KeepAliveTick(t) PROVE SocketsMove
  BY <1>0, <1>3 DEF KeepAliveTick, Resolves
<1>4. ASSUME NEW t \in Sessions, KeepAliveHiccup(t) PROVE SocketsMove
  <2>1. /\ socket[t].open /\ now >= socket[t].tick /\ hiccups' = hiccups + 1 /\ UNCHANGED <<now, session>>
        /\ socket' = [socket EXCEPT ![t] = [socket[t] EXCEPT !.tick = now + KeepAliveEvery]]
    BY <1>0, <1>4 DEF KeepAliveHiccup
  <2>2. \A s \in Sessions : SocketMoves(s)
    <3> TAKE s \in Sessions
    <3>1. CASE s = t
      BY <1>0, <2>1, <3>1
    <3>2. CASE s # t
      BY <1>0, <2>1, <3>2
    <3> QED BY <3>1, <3>2
  <2> QED BY <1>0, <2>1, <2>2
<1>5. ASSUME NEW t \in Sessions, CloseSocket(t) PROVE SocketsMove
  <2>1. UNCHANGED <<now, hiccups>> /\ socket' = [socket EXCEPT ![t] = NoSocket]
    BY <1>5 DEF CloseSocket
  <2>2. \A s \in Sessions : SocketMoves(s)
    <3> TAKE s \in Sessions
    <3>1. CASE s = t
      BY <1>0, <2>1, <3>1
    <3>2. CASE s # t
      BY <1>0, <2>1, <3>2
    <3> QED BY <3>1, <3>2
  <2> QED BY <1>0, <2>1, <2>2
<1>6. ASSUME Clock PROVE SocketsMove
  BY <1>0, <1>6 DEF Clock
<1> HIDE DEF SocketsMove
<1> QED
  BY <1>1, <1>2, <1>3, <1>4, <1>5, <1>6 DEF AccessStep, RequestNext, Arrive, Lookup, VerifyKey,
     CheckExpiry, Touch, Refuse, AskGrant, Answer, CreateSession, Logout, SweepSessions, UpdatePrincipal,
     RevokeSessions, Grant, Ungrant, RegisterKey, RevokeKey, RevokeTradingToken, CreateTradingToken

LEMMA AccessTypeStep ==
  ASSUME AccessInv, AccessNext
  PROVE  AccessTypeOK'
<1>0. AccessTypeOK /\ AccessStep /\ WatchCut
  BY DEF AccessInv, AccessNext
<1>1. session' \in [Sessions -> SessionRow]
  <2>1. \A s \in Sessions : session'[s] \in SessionRow
    BY <1>0, SessionStep, SessionRowStep
  <2> QED BY <1>0, <2>1, SessionStep DEF SessionsMove
<1>2. req' \in [Requests -> Request]
  <2>1. \A r \in Requests : req'[r] \in Request
    BY <1>0, RequestRowStep
  <2> QED BY <1>0, <2>1, RequestStep DEF RequestsMove
<1>3. socket' \in [Sessions -> Socket]
  <2>1. ASSUME NEW s \in Sessions PROVE socket'[s] \in Socket
    <3>1. SocketMoves(s) /\ socket[s] \in Socket /\ now + KeepAliveEvery \in Nat /\ now \in Nat
      BY <1>0, SocketStep, AccessConstants DEF SocketsMove, AccessTypeOK
    <3>2. NoSocket \in Socket
      BY DEF NoSocket, Socket
    <3>3. ASSUME NEW n \in Nat
          PROVE  /\ [socket[s] EXCEPT !.tick = n] \in Socket
                 /\ [open |-> TRUE, opened |-> now, tick |-> n] \in Socket
      BY <3>1 DEF Socket
    <3> QED BY <3>1, <3>2, <3>3 DEF SocketMoves
  <2> QED BY <1>0, <2>1, SocketStep DEF SocketsMove
<1>4. cut' \in [Requests -> SUBSET Reasons]
  <2>1. ASSUME NEW r \in Requests PROVE cut'[r] \subseteq Reasons
    BY <1>0, <2>1 DEF WatchCut, CutOffBy, Reasons
  <2> QED BY <1>0, <2>1 DEF WatchCut
<1>5. /\ now' \in Nat /\ hiccups' \in Nat
      /\ used' \in [Sessions -> Nat]
  <2> USE <1>0 DEF AccessTypeOK
  <2>1. ASSUME NEW r \in Requests, CheckExpiry(r) \/ Touch(r)
        PROVE  UNCHANGED <<now, hiccups>> /\ used' \in [Sessions -> Nat]
    BY <2>1 DEF CheckExpiry, Touch
  <2>2. ASSUME NEW s \in Sessions, CreateSession(s)
        PROVE  UNCHANGED <<now, hiccups>> /\ used' \in [Sessions -> Nat]
    BY <2>2 DEF CreateSession
  <2>3. ASSUME NEW s \in Sessions, KeepAliveHiccup(s)
        PROVE  hiccups' \in Nat /\ UNCHANGED <<now, used>>
    BY <2>3 DEF KeepAliveHiccup
  <2>4. ASSUME Clock
        PROVE  now' \in Nat /\ UNCHANGED <<hiccups, used>>
    BY <2>4 DEF Clock
  <2> QED
    BY <2>1, <2>2, <2>3, <2>4 DEF AccessStep, RequestNext, Arrive, Lookup, VerifyKey, Refuse, AskGrant,
       Answer, OpenSocket, Logout, KeepAliveTick, CloseSocket, SweepSessions, UpdatePrincipal,
       RevokeSessions, Grant, Ungrant, RegisterKey, RevokeKey, RevokeTradingToken, CreateTradingToken
<1>6. /\ principal' \in [Principals -> [status : {"ACTIVE", "DISABLED"}, type : {"HUMAN", "SERVICE"}]]
      /\ canTrade' \subseteq Principals
      /\ key' \in [Keys -> {"none", "live", "revoked"}]
  <2> USE <1>0 DEF AccessTypeOK
  <2>1. ASSUME NEW p \in Principals, NEW status \in {"ACTIVE", "DISABLED"}, NEW type \in {"HUMAN", "SERVICE"},
               UpdatePrincipal(p, status, type)
        PROVE  /\ principal' \in [Principals -> [status : {"ACTIVE", "DISABLED"}, type : {"HUMAN", "SERVICE"}]]
               /\ UNCHANGED <<canTrade, key>>
    BY <2>1 DEF UpdatePrincipal
  <2>2. ASSUME NEW k \in Keys,
               RegisterKey(k) \/ RevokeKey(k) \/ RevokeTradingToken(k) \/ \E g \in BOOLEAN : CreateTradingToken(k, g)
        PROVE  /\ key' \in [Keys -> {"none", "live", "revoked"}] /\ canTrade' \subseteq Principals
               /\ UNCHANGED principal
    BY <2>2, AccessConstants DEF RegisterKey, RevokeKey, RevokeTradingToken, CreateTradingToken, Creds
  <2>3. ASSUME NEW p \in Principals, Grant(p) \/ Ungrant(p)
        PROVE  canTrade' \subseteq Principals /\ UNCHANGED <<principal, key>>
    BY <2>3 DEF Grant, Ungrant
  <2> QED
    BY <2>1, <2>2, <2>3 DEF AccessStep, RequestNext, Arrive, Lookup, VerifyKey, CheckExpiry, Touch, Refuse,
       AskGrant, Answer, OpenSocket, CreateSession, Logout, KeepAliveTick, KeepAliveHiccup, CloseSocket,
       SweepSessions, RevokeSessions, Clock
<1> QED BY <1>1, <1>2, <1>3, <1>4, <1>5, <1>6 DEF AccessTypeOK

\* A key that is registered stays so, whatever becomes of it; time never goes back.
LEMMA KeptStep ==
  ASSUME AccessInv, AccessStep
  PROVE  /\ now' \in {now, now + 1}
         /\ now' # now => UNCHANGED <<session, used, req>>
         /\ \A s \in Sessions : used'[s] \in {used[s], now}
<1>0. now \in Nat /\ used \in [Sessions -> Nat]
  BY DEF AccessInv, AccessTypeOK
<1> QED
  BY <1>0 DEF AccessStep, RequestNext, Arrive, Lookup, VerifyKey, CheckExpiry, Touch, Refuse, AskGrant,
     Answer, OpenSocket, CreateSession, Logout, KeepAliveTick, KeepAliveHiccup, CloseSocket, SweepSessions,
     UpdatePrincipal, RevokeSessions, Grant, Ungrant, RegisterKey, RevokeKey, RevokeTradingToken,
     CreateTradingToken, Clock

LEMMA ReqStep ==
  ASSUME AccessInv, AccessNext
  PROVE  ReqOK'
<1>0. AccessTypeOK /\ ReqOK /\ AccessStep /\ SessionsMove
  BY SessionStep DEF AccessInv, AccessNext
<1> SUFFICES ASSUME NEW r \in Requests
             PROVE  /\ req'[r].step # "idle" => req'[r].cred \in Creds
                    /\ req'[r].step # "idle" /\ req'[r].cred \in Sessions => session'[req'[r].cred].status # "none"
                    /\ req'[r].step = "hash" => req'[r].cred \in Keys
                    /\ req'[r].step \in {"check", "touch"} => req'[r].cred \in Sessions
                    /\ req'[r].step = "check" => req'[r].seen <= session'[req'[r].cred].seen
  BY DEF ReqOK
<1>1. req[r] \in Request /\ RequestMoves(r)
  BY <1>0, RequestStep DEF AccessTypeOK, RequestsMove
<1>2. \A s \in Sessions : /\ session[s].seen \in Nat /\ session'[s].seen \in Nat
                          /\ session[s].seen <= session'[s].seen
                          /\ session[s].status # "none" => session'[s].status # "none"
  BY <1>0, SessionRowStep DEF SessionRow, AccessTypeOK
<1>3. /\ req[r].step # "idle" => req[r].cred \in Creds
      /\ req[r].step # "idle" /\ req[r].cred \in Sessions => session[req[r].cred].status # "none"
      /\ req[r].step = "hash" => req[r].cred \in Keys
      /\ req[r].step \in {"check", "touch"} => req[r].cred \in Sessions
      /\ req[r].step = "check" => req[r].seen <= session[req[r].cred].seen /\ req[r].seen \in Nat
  BY <1>0, <1>1 DEF ReqOK, Request
<1>4. CASE req'[r] = req[r]
  BY <1>2, <1>3, <1>4
<1>5. CASE req'[r] = NoRequest
  BY <1>5 DEF NoRequest
<1>6. ASSUME NEW c \in Creds, req'[r] = [NoRequest EXCEPT !.step = "lookup", !.cred = c],
             c \in Sessions => session[c].status # "none"
      PROVE  req'[r].step = "lookup" /\ req'[r].cred = c
  BY <1>6 DEF NoRequest
<1>7. ASSUME NEW x \in {"hash", "touch", "handler", "acts"}, req'[r] = [req[r] EXCEPT !.step = x]
      PROVE  req'[r].step = x /\ req'[r].cred = req[r].cred
  BY <1>1, <1>7 DEF Request
<1>8. ASSUME NEW n \in Nat, req'[r] = [req[r] EXCEPT !.step = "check", !.seen = n]
      PROVE  req'[r].step = "check" /\ req'[r].cred = req[r].cred /\ req'[r].seen = n
  BY <1>1, <1>8 DEF Request
<1> QED
  BY <1>1, <1>2, <1>3, <1>4, <1>5, <1>6, <1>7, <1>8, AccessConstants DEF RequestMoves, Creds

LEMMA CutStep ==
  ASSUME AccessInv, AccessNext
  PROVE  CutOK'
<1>0. AccessTypeOK /\ ReqOK /\ CutOK /\ AccessStep /\ WatchCut
  BY DEF AccessInv, AccessNext
<1> SUFFICES ASSUME NEW r \in Requests
             PROVE  /\ cut'[r] \subseteq CutOffBy(req[r].cred)'
                    /\ req'[r].step \notin {"idle", "lookup"} => "unresolved" \notin cut'[r]
                    /\ req'[r].step \notin {"idle", "lookup", "check"} => "expired" \notin cut'[r]
                    /\ req'[r].step = "acts" => "ungranted" \notin cut'[r]
  BY DEF CutOK
<1>1. /\ cut'[r] \subseteq CutOffBy(req[r].cred)'
      /\ req[r].step # "idle" => cut'[r] \subseteq cut[r]
  BY <1>0 DEF WatchCut
<1>2. req[r] \in Request /\ RequestMoves(r)
  BY <1>0, RequestStep DEF AccessTypeOK, RequestsMove
<1>3. /\ cut[r] \subseteq CutOffBy(req[r].cred)
      /\ req[r].step \notin {"idle", "lookup"} => "unresolved" \notin cut[r]
      /\ req[r].step \notin {"idle", "lookup", "check"} => "expired" \notin cut[r]
      /\ req[r].step = "acts" => "ungranted" \notin cut[r]
  BY <1>0 DEF CutOK
<1>4. CASE req'[r] = req[r]
  BY <1>1, <1>3, <1>4
<1>5. CASE req'[r] = NoRequest
  BY <1>1, <1>5 DEF NoRequest
<1>6. CASE \E c \in Creds : req'[r] = [NoRequest EXCEPT !.step = "lookup", !.cred = c]
  BY <1>1, <1>6 DEF NoRequest
<1>7. ASSUME req[r].step = "lookup", Resolves(req[r].cred),
             \/ req[r].cred \in Keys /\ req'[r] = [req[r] EXCEPT !.step = "hash"]
             \/ /\ req[r].cred \in Sessions
                /\ req'[r] = [req[r] EXCEPT !.step = "check", !.seen = session[req[r].cred].seen]
      PROVE  /\ req'[r].step \in {"hash", "check"} /\ "unresolved" \notin cut'[r]
             /\ req'[r].step = "hash" => "expired" \notin cut'[r]
  <2>1. "unresolved" \notin CutOffBy(req[r].cred)
    BY <1>7 DEF CutOffBy
  <2>2. req[r].cred \in Keys => "expired" \notin CutOffBy(req[r].cred)
    BY AccessConstants DEF CutOffBy
  <2>3. \/ req[r].cred \in Keys /\ req'[r].step = "hash"
        \/ req[r].cred \in Sessions /\ req'[r].step = "check"
    BY <1>2, <1>7 DEF Request
  <2> QED BY <1>1, <1>3, <1>7, <2>1, <2>2, <2>3
<1>8. ASSUME req[r].step = "hash", req'[r] = [req[r] EXCEPT !.step = "handler"]
      PROVE  req'[r].step = "handler" /\ "unresolved" \notin cut'[r] /\ "expired" \notin cut'[r]
  BY <1>1, <1>2, <1>3, <1>8 DEF Request
<1>9. ASSUME req[r].step = "check", ~IsExpired(req[r].seen, session[req[r].cred].expires),
             req'[r] \in {[req[r] EXCEPT !.step = "touch"], [req[r] EXCEPT !.step = "handler"]}
      PROVE  req'[r].step \in {"touch", "handler"} /\ "unresolved" \notin cut'[r] /\ "expired" \notin cut'[r]
  <2>1. PICK s \in Sessions : s = req[r].cred
    BY <1>0, <1>9 DEF ReqOK
  <2>2. req[r].seen \in Nat /\ session[s].seen \in Nat /\ req[r].seen <= session[s].seen
    BY <1>0, <1>2, <1>9, <2>1 DEF ReqOK, AccessTypeOK, Request, SessionRow
  <2>3. ~IsExpired(session[s].seen, session[s].expires)
    BY <1>0, <1>9, <2>1, <2>2, AccessConstants DEF IsExpired, AccessTypeOK
  <2>4. "expired" \notin CutOffBy(req[r].cred)
    BY <2>1, <2>3 DEF CutOffBy
  <2>5. req'[r].step \in {"touch", "handler"}
    BY <1>2, <1>9 DEF Request
  <2> QED BY <1>1, <1>3, <1>9, <2>4, <2>5
<1>10. ASSUME req[r].step = "touch", req'[r] = [req[r] EXCEPT !.step = "handler"]
       PROVE  req'[r].step = "handler" /\ "unresolved" \notin cut'[r] /\ "expired" \notin cut'[r]
  BY <1>1, <1>2, <1>3, <1>10 DEF Request
<1>11. ASSUME req[r].step = "handler", Owner[req[r].cred] \in canTrade, req'[r] = [req[r] EXCEPT !.step = "acts"]
       PROVE  /\ req'[r].step = "acts" /\ "unresolved" \notin cut'[r] /\ "expired" \notin cut'[r]
              /\ "ungranted" \notin cut'[r]
  <2>1. "ungranted" \notin CutOffBy(req[r].cred)
    BY <1>11 DEF CutOffBy
  <2> QED BY <1>1, <1>2, <1>3, <1>11, <2>1 DEF Request
<1> QED
  BY <1>1, <1>2, <1>4, <1>5, <1>6, <1>7, <1>8, <1>9, <1>10, <1>11 DEF RequestMoves

LEMMA SessionOKStep ==
  ASSUME AccessInv, AccessNext
  PROVE  SessionOK'
<1>0. AccessTypeOK /\ ReqOK /\ SessionOK /\ AccessStep /\ SessionsMove
  BY SessionStep DEF AccessInv, AccessNext
<1> SUFFICES ASSUME NEW s \in Sessions
             PROVE  /\ session'[s].seen <= now'
                    /\ session'[s].status = "live" => used'[s] <= session'[s].seen + TouchEvery
                    /\ session'[s].status = "live" => session'[s].ended = session'[s].expires
                    /\ session'[s].status = "deleted" => session'[s].expires < now'
  BY DEF SessionOK
<1>1. session[s] \in SessionRow /\ SessionMoves(s) /\ TouchEvery \in Nat /\ now \in Nat /\ used[s] \in Nat
  BY <1>0, AccessConstants DEF SessionsMove, AccessTypeOK
<1>2. /\ session[s].seen <= now
      /\ session[s].status = "live" => used[s] <= session[s].seen + TouchEvery
      /\ session[s].status = "live" => session[s].ended = session[s].expires
      /\ session[s].status = "deleted" => session[s].expires < now
  BY <1>0 DEF SessionOK
<1>3. now' \in Nat /\ now' >= now /\ used'[s] \in {used[s], now} /\ (now' # now => session' = session /\ used' = used)
  BY <1>0, <1>1, KeptStep
<1>4. session[s].seen \in Nat /\ session[s].expires \in Nat /\ session[s].ended \in Nat
  BY <1>1 DEF SessionRow
<1>5. CASE session'[s] = session[s]
  <2>1. used'[s] <= session[s].seen + TouchEvery \/ session[s].status # "live"
    <3>1. ASSUME NEW r \in Requests, CheckExpiry(r), used'[s] # used[s]
          PROVE  now <= session[s].seen + TouchEvery
      <4>1. req[r].cred = s /\ req[r].step = "check" /\ ~NeedsTouch(req[r].seen)
        BY <1>0, <3>1 DEF CheckExpiry, AccessTypeOK
      <4>2. req[r].seen <= session[s].seen /\ req[r].seen \in Nat
        BY <1>0, <4>1 DEF ReqOK, AccessTypeOK, Request
      <4> QED BY <1>1, <1>4, <4>1, <4>2 DEF NeedsTouch
    <3>2. ASSUME NEW r \in Requests, Touch(r), used'[s] # used[s], session[s].status = "live"
          PROVE  now <= session[s].seen + TouchEvery
      <4>1. req[r].cred = s
        BY <1>0, <3>2 DEF Touch, AccessTypeOK
      <4>2. session'[s].seen = now
        BY <1>0, <1>1, <3>2, <4>1 DEF Touch, Touched, AccessTypeOK, SessionRow
      <4> QED BY <1>1, <1>4, <1>5, <4>2
    <3>3. ASSUME NEW t \in Sessions, CreateSession(t), used'[s] # used[s]
          PROVE  session[s].status # "live"
      BY <1>0, <3>3 DEF CreateSession, AccessTypeOK
    <3>4. ASSUME UNCHANGED used
          PROVE  used'[s] = used[s]
      BY <3>4
    <3>5. used'[s] = used[s] \/ session[s].status # "live" \/ now <= session[s].seen + TouchEvery
      BY <1>0, <3>1, <3>2, <3>3, <3>4 DEF AccessStep, RequestNext, Arrive, Lookup, VerifyKey, Refuse,
         AskGrant, Answer, OpenSocket, Logout, KeepAliveTick, KeepAliveHiccup, CloseSocket, SweepSessions,
         UpdatePrincipal, RevokeSessions, Grant, Ungrant, RegisterKey, RevokeKey, RevokeTradingToken,
         CreateTradingToken, Clock
    <3> QED BY <1>2, <1>3, <3>5
  <2> QED BY <1>1, <1>2, <1>3, <1>4, <1>5, <2>1
<1>6. CASE session'[s] = [status |-> "live", seen |-> now, expires |-> now + Absolute, ended |-> now + Absolute]
           /\ used'[s] = now
  BY <1>1, <1>3, <1>6
<1>7. CASE session'[s] = [session[s] EXCEPT !.seen = now]
  <2>1. /\ session'[s].seen = now /\ session'[s].status = session[s].status
        /\ session'[s].ended = session[s].ended /\ session'[s].expires = session[s].expires
    BY <1>1, <1>7 DEF SessionRow
  <2> QED BY <1>1, <1>2, <1>3, <1>4, <2>1
<1>8. CASE session'[s] = [session[s] EXCEPT !.status = "revoked", !.ended = Earlier(session[s].ended, now)]
  <2>1. session'[s].status = "revoked" /\ session'[s].seen = session[s].seen
    BY <1>1, <1>8 DEF SessionRow
  <2> QED BY <1>1, <1>2, <1>3, <1>4, <2>1
<1>9. CASE session'[s] = [session[s] EXCEPT !.status = "deleted"] /\ session[s].expires < now
  <2>1. /\ session'[s].status = "deleted" /\ session'[s].seen = session[s].seen
        /\ session'[s].expires = session[s].expires
    BY <1>1, <1>9 DEF SessionRow
  <2> QED BY <1>1, <1>2, <1>3, <1>4, <1>9, <2>1
<1> QED BY <1>1, <1>5, <1>6, <1>7, <1>8, <1>9 DEF SessionMoves

LEMMA GraceGrows ==
  ASSUME NEW k \in Nat, NEW h \in Nat, NEW i \in Nat, i >= h
  PROVE  /\ k * (1 + h) \in Nat /\ k <= k * (1 + h)
         /\ k * (1 + h) <= k * (1 + i)
         /\ k * (1 + (h + 1)) = k * (1 + h) + k
<1>1. k * h \in Nat /\ k * (1 + h) = k + k * h
  OBVIOUS
<1>2. PICK d \in Nat : i = h + d
  <2>1. i - h \in Nat /\ i = h + (i - h)
    OBVIOUS
  <2> QED BY <2>1
<1>3. k * d \in Nat /\ k * (1 + (h + d)) = k * (1 + h) + k * d
  OBVIOUS
<1>4. k * (1 + (h + 1)) = k * (1 + h) + k
  OBVIOUS
<1> QED BY <1>1, <1>2, <1>3, <1>4

LEMMA SocketOKStep ==
  ASSUME AccessInv, AccessNext
  PROVE  SocketOK'
<1>0. AccessTypeOK /\ SocketOK /\ SessionOK /\ SessionsMove /\ SocketsMove /\ AccessStep /\ AccessTypeOK'
  BY SessionStep, SocketStep, AccessTypeStep DEF AccessInv, AccessNext
<1> SUFFICES ASSUME NEW s \in Sessions, socket'[s].open
             PROVE  /\ session'[s].status # "none"
                    /\ now' <= socket'[s].tick
                    /\ socket'[s].tick <= now' + KeepAliveEvery
                    /\ \/ socket'[s].tick <= session'[s].ended + Grace'
                       \/ socket'[s].tick <= socket'[s].opened + Grace'
  BY DEF SocketOK
<1>1. /\ session[s] \in SessionRow /\ SessionMoves(s) /\ session'[s] \in SessionRow
      /\ socket[s] \in Socket /\ SocketMoves(s) /\ now \in Nat /\ now' \in Nat
      /\ hiccups \in Nat /\ hiccups' \in Nat /\ KeepAliveEvery \in Nat /\ Absolute \in Nat
  BY <1>0, AccessConstants DEF SessionsMove, SocketsMove, AccessTypeOK
<1>2. /\ session[s].ended \in Nat /\ session'[s].ended \in Nat /\ session[s].expires \in Nat
      /\ socket[s].tick \in Nat /\ socket[s].opened \in Nat
  BY <1>1 DEF SessionRow, Socket
<1>3. /\ Grace \in Nat /\ Grace' \in Nat /\ KeepAliveEvery <= Grace /\ Grace <= Grace'
      /\ hiccups' = hiccups + 1 => Grace' = Grace + KeepAliveEvery
  <2>1. hiccups' >= hiccups
    BY <1>1 DEF SocketMoves
  <2>2. Grace' = KeepAliveEvery * (1 + hiccups')
    BY DEF Grace
  <2> QED BY <1>1, <2>1, <2>2, GraceGrows DEF Grace
<1>4. session[s].status # "none" =>
        /\ session'[s].status # "none"
        /\ session'[s].ended = session[s].ended
           \/ session'[s].ended = now \/ session'[s].ended >= session[s].ended
  <2>1. CASE session'[s] = [session[s] EXCEPT !.status = "revoked", !.ended = Earlier(session[s].ended, now)]
    <3>1. session'[s].ended = Earlier(session[s].ended, now) /\ session'[s].status = "revoked"
      BY <1>1, <2>1 DEF SessionRow
    <3> QED BY <3>1 DEF Earlier
  <2>2. CASE session'[s] = [session[s] EXCEPT !.seen = now]
    BY <1>1, <2>2 DEF SessionRow
  <2>3. CASE session'[s] = [session[s] EXCEPT !.status = "deleted"]
    BY <1>1, <2>3 DEF SessionRow
  <2> QED BY <1>1, <2>1, <2>2, <2>3 DEF SessionMoves
<1>5. socket[s].open =>
        /\ session[s].status # "none" /\ now <= socket[s].tick /\ socket[s].tick <= now + KeepAliveEvery
        /\ socket[s].tick <= session[s].ended + Grace \/ socket[s].tick <= socket[s].opened + Grace
  BY <1>0 DEF SocketOK
<1>6. CASE /\ socket'[s] = socket[s] /\ now' \in {now, now + 1}
           /\ (socket[s].open => now' = now \/ now < socket[s].tick)
  BY <1>1, <1>2, <1>3, <1>4, <1>5, <1>6
<1>7. CASE socket'[s] = NoSocket
  BY <1>7 DEF NoSocket
<1>8. CASE /\ socket'[s] = [open |-> TRUE, opened |-> now, tick |-> now + KeepAliveEvery]
           /\ session[s].status # "none" /\ UNCHANGED <<now, hiccups>>
  <2>1. now' = now /\ socket'[s].tick = now + KeepAliveEvery /\ socket'[s].opened = now
    BY <1>8
  <2> QED BY <1>1, <1>3, <1>4, <1>8, <2>1
<1>9. CASE /\ socket[s].open /\ now < session[s].expires /\ session[s].status = "live"
           /\ socket'[s] = [socket[s] EXCEPT !.tick = now + KeepAliveEvery] /\ UNCHANGED <<now, hiccups>>
  <2>1. now' = now /\ socket'[s].tick = now + KeepAliveEvery
    BY <1>1, <1>9 DEF Socket
  <2>2. session[s].ended = session[s].expires
    BY <1>0, <1>9 DEF SessionOK
  <2>3. now <= session'[s].ended
    BY <1>1, <1>2, <1>4, <1>9, <2>2
  <2> QED BY <1>1, <1>2, <1>3, <1>4, <1>9, <2>1, <2>3
<1>10. CASE /\ socket[s].open /\ now >= socket[s].tick /\ hiccups' = hiccups + 1
            /\ socket'[s] = [socket[s] EXCEPT !.tick = now + KeepAliveEvery] /\ UNCHANGED <<now, session>>
  <2>1. /\ now' = now /\ socket'[s].tick = now + KeepAliveEvery /\ socket'[s].opened = socket[s].opened
        /\ session'[s] = session[s]
    BY <1>1, <1>10 DEF Socket
  <2>2. now = socket[s].tick
    BY <1>1, <1>2, <1>5, <1>10
  <2> QED BY <1>1, <1>2, <1>3, <1>5, <1>10, <2>1, <2>2
<1> QED BY <1>1, <1>6, <1>7, <1>8, <1>9, <1>10 DEF SocketMoves

LEMMA AccessStutter ==
  ASSUME AccessInv, UNCHANGED accessVars
  PROVE  AccessInv'
<1> USE DEF accessVars
<1>1. AccessTypeOK'
  BY DEF AccessInv, AccessTypeOK
<1>2. ReqOK' /\ SessionOK' /\ SocketOK'
  BY DEF AccessInv, ReqOK, SessionOK, SocketOK, Grace
<1>3. CutOK'
  BY DEF AccessInv, CutOK, CutOffBy, Resolves, IsExpired
<1> QED BY <1>1, <1>2, <1>3 DEF AccessInv

LEMMA AccessInvariant == AccessSpec => []AccessInv
<1>1. AccessInv /\ [AccessNext]_accessVars => AccessInv'
  BY AccessTypeStep, ReqStep, CutStep, SessionOKStep, SocketOKStep, AccessStutter DEF AccessInv
<1> QED BY AccessInitInv, <1>1, PTL DEF AccessSpec

\* sessions.rs lookup_session, auth.rs authenticate, handlers.rs
\* require_order_grant: a request whose credential was worthless when it
\* arrived, and stayed so in that respect, never acts, for any number of
\* requests, credentials and administrators' changes in flight together.
THEOREM CutOffSafe == AccessSpec => []CutOffHolds
<1>1. AccessInv => CutOffHolds
  <2> SUFFICES ASSUME AccessInv, NEW r \in Requests, req[r].step = "acts" PROVE cut[r] = {}
    BY DEF CutOffHolds
  <2>1. "unresolved" \notin cut[r] /\ "ungranted" \notin cut[r] /\ "expired" \notin cut[r]
    BY DEF AccessInv, CutOK
  <2>2. cut[r] \subseteq Reasons
    BY DEF AccessInv, AccessTypeOK
  <2> QED BY <2>1, <2>2 DEF Reasons
<1> QED BY AccessInvariant, <1>1, PTL

\* sessions.rs needs_touch, is_expired, sweep_expired, live_updates.rs
\* keepalive_step: the throttled touch never costs a working session its idle
\* time, and no socket outlives its login, or its opening, by more than a tick
\* and one for each the database missed, whatever the limits are.
THEOREM SessionSafe == AccessSpec => []SessionLifetime
<1>1. AccessInv => SessionLifetime
  <2> SUFFICES ASSUME AccessInv, NEW s \in Sessions
               PROVE  /\ session[s].status \in {"live", "deleted"} /\ now < session[s].expires
                         /\ now < used[s] + Idle - TouchEvery
                           => session[s].status = "live" /\ now < session[s].seen + Idle
                      /\ socket[s].open =>
                           \/ now <= session[s].ended + KeepAliveEvery * (1 + hiccups)
                           \/ now <= socket[s].opened + KeepAliveEvery * (1 + hiccups)
    BY DEF SessionLifetime
  <2>1. /\ session[s] \in SessionRow /\ socket[s] \in Socket /\ now \in Nat /\ used[s] \in Nat
        /\ hiccups \in Nat /\ Idle \in Nat /\ TouchEvery \in Nat /\ KeepAliveEvery \in Nat
    BY AccessConstants DEF AccessInv, AccessTypeOK
  <2>2. /\ session[s].seen \in Nat /\ session[s].expires \in Nat /\ session[s].ended \in Nat
        /\ socket[s].tick \in Nat /\ socket[s].opened \in Nat
    BY <2>1 DEF SessionRow, Socket
  <2>3. /\ session[s].status = "live" => used[s] <= session[s].seen + TouchEvery
        /\ session[s].status = "deleted" => session[s].expires < now
    BY DEF AccessInv, SessionOK
  <2>4. socket[s].open => /\ now <= socket[s].tick
                          /\ socket[s].tick <= session[s].ended + Grace \/ socket[s].tick <= socket[s].opened + Grace
    BY DEF AccessInv, SocketOK
  <2>5. Grace \in Nat /\ Grace = KeepAliveEvery * (1 + hiccups)
    BY <2>1, GraceGrows DEF Grace
  <2>6. session[s].status \in {"live", "deleted"} /\ now < session[s].expires /\ now < used[s] + Idle - TouchEvery
          => session[s].status = "live" /\ now < session[s].seen + Idle
    BY <2>1, <2>2, <2>3
  <2>7. socket[s].open => now <= session[s].ended + Grace \/ now <= socket[s].opened + Grace
    BY <2>1, <2>2, <2>4, <2>5
  <2> QED BY <2>5, <2>6, <2>7
<1> QED BY AccessInvariant, <1>1, PTL

-----------------------------------------------------------------------------
(* SignIn                                                                     *)

Codes == {<<>>} \cup ((Subjects \cup {Seed[s] : s \in Subjects}) \X Nat)
PrincipalRow == [type : {"none", "HUMAN", "SERVICE"}, status : {"none", "ACTIVE", "DISABLED"}, code : Codes]
LoginSteps == {"new", "idp", "exchange", "keys", "refresh", "fetch", "verify", "resolve", "code", "insert",
               "session", "in", "refused"}
LoginRow == [step : LoginSteps, at : Browsers \cup {0}, subject : Subjects \cup {0}, kid : Nat,
             code : Codes, given : PrincipalRow]

SignInTypeOK ==
    /\ login \in [Logins -> LoginRow]
    /\ row \in [Subjects -> PrincipalRow]
    /\ idpKey \in Nat

\* A login under way has a subject, and the row it was given is still there
\* under the same code, whatever an administrator made of it since.
LoginOK ==
    \A l \in Logins :
        /\ login[l].step \notin {"new", "refused"} => login[l].subject \in Subjects
        /\ login[l].step \in {"session", "in"} =>
              /\ Human(login[l].given)
              /\ row[login[l].subject].type # "none"
              /\ login[l].given.code = row[login[l].subject].code

SignInInv == SignInTypeOK /\ LoginOK

LEMMA SignInInitInv == SignInInit => SignInInv
  BY DEF SignInInit, SignInInv, SignInTypeOK, LoginOK, LoginRow, LoginSteps, PrincipalRow, Codes, NoLogin, NoRow

LEMMA LeastNat ==
  ASSUME NEW T \in SUBSET Nat, T # {}
  PROVE  \E m \in T : \A k \in T : m <= k
<1> DEFINE R == OpToRel(<, Nat)
<1>1. \A x, y \in Nat : x < y => <<x, y>> \in R
  BY DEF OpToRel
<1>2. IsWellFoundedOn(R, Nat)
  BY NatLessThanWellFounded
<1> HIDE DEF R
<1>3. PICK m \in T : \A y \in T : ~ (<<y, m>> \in R)
  BY <1>2, WFMin
<1>4. \A k \in T : ~ (k < m)
  BY <1>1, <1>3
<1> QED BY <1>4

\* generate_unique_code finds a suffix: there are more of them than subjects.
LEMMA FreeSuffix ==
  ASSUME row \in [Subjects -> PrincipalRow], NEW seed,
         NEW free, free = {n \in 1..(Cardinality(Subjects) + 1) : <<seed, n>> \notin Taken}
  PROVE  (CHOOSE n \in free : \A k \in free : n <= k) \in free
<1>1. IsFiniteSet(Subjects) /\ Cardinality(Subjects) \in Nat
  BY SignInConstants, FS_CardinalityType
<1> DEFINE top == Cardinality(Subjects) + 1
           codes == [s \in Subjects |-> row[s].code]
           taken == [n \in 1..top |-> <<seed, n>>]
<1>2. codes \in Surjection(Subjects, Taken)
  BY DEF Surjection, Taken
<1>3. IsFiniteSet(Taken) /\ Cardinality(Taken) <= Cardinality(Subjects)
  BY <1>1, <1>2, FS_Surjection
<1>4. IsFiniteSet(1..top) /\ Cardinality(1..top) = top
  BY <1>1, FS_Interval
<1>5. Cardinality(Taken) \in Nat
  BY <1>3, FS_CardinalityType
<1>6. free # {}
  <2> SUFFICES ASSUME free = {} PROVE FALSE
    OBVIOUS
  <2>1. PICK N, f : N = 1..top /\ f = taken
    OBVIOUS
  <2>2. f \in [N -> Taken]
    BY <2>1
  <2>3. IsFiniteSet(N) /\ Cardinality(Taken) < Cardinality(N)
    BY <1>1, <1>3, <1>4, <1>5, <2>1
  <2>4. \E x, y \in N : x # y /\ f[x] = f[y]
    BY <1>3, <2>2, <2>3, FS_PigeonHole
  <2> QED BY <2>1, <2>4
<1>7. free \in SUBSET Nat
  BY <1>1
<1>8. \E n \in free : \A k \in free : n <= k
  BY <1>6, <1>7, LeastNat
<1> QED BY <1>8

\* A login that stays where its row is typed, and moves on in step alone.
LEMMA StepToTyped ==
  ASSUME SignInTypeOK, NEW l \in Logins, NEW x \in LoginSteps, login' = [login EXCEPT ![l].step = x]
  PROVE  /\ login' \in [Logins -> LoginRow]
         /\ login'[l].step = x /\ login'[l].subject = login[l].subject /\ login'[l].given = login[l].given
  BY DEF SignInTypeOK, LoginRow

LEMMA DeniedTyped ==
  ASSUME SignInTypeOK, NEW l \in Logins, Denied(l)
  PROVE  login' \in [Logins -> LoginRow] /\ login'[l].step = "refused"
<1>1. [NoLogin EXCEPT !.step = "refused"] \in LoginRow
  BY DEF NoLogin, NoRow, LoginRow, LoginSteps, PrincipalRow, Codes
<1> QED BY <1>1 DEF Denied, SignInTypeOK, NoLogin

LEMMA GivenTyped ==
  ASSUME SignInTypeOK, NEW l \in Logins, NEW p \in PrincipalRow, Given(l, p)
  PROVE  /\ login' \in [Logins -> LoginRow]
         /\ login'[l].step = "session" /\ login'[l].subject = login[l].subject /\ login'[l].given = p
  BY ZenonT(40) DEF Given, SignInTypeOK, LoginRow, LoginSteps

\* What a step of one login makes of it and of the rows.
LoginMoves(l) ==
    /\ login' \in [Logins -> LoginRow]
    /\ \A k \in Logins \ {l} : login'[k] = login[k]
    /\ idpKey' = idpKey
    /\ login'[l].step \notin {"new", "refused"} => login'[l].subject \in Subjects
    /\ row' \in [Subjects -> PrincipalRow]
    /\ \A s \in Subjects : row[s].type # "none" => row'[s] = row[s]
    /\ login'[l].step \in {"session", "in"} =>
          \/ UNCHANGED row /\ login[l].step = "session" /\ login'[l].given = login[l].given
                           /\ login'[l].subject = login[l].subject
          \/ Human(login'[l].given) /\ login'[l].given = row'[login'[l].subject]

LEMMA LoginStepMoves ==
  ASSUME SignInInv, NEW l \in Logins, LoginStep(l)
  PROVE  LoginMoves(l)
<1> USE DEF LoginMoves
<1>0. /\ SignInTypeOK /\ LoginOK
      /\ login[l].step \notin {"new", "refused"} => login[l].subject \in Subjects
      /\ login \in [Logins -> LoginRow] /\ row \in [Subjects -> PrincipalRow] /\ idpKey \in Nat
  BY DEF SignInInv, SignInTypeOK, LoginOK
<1>1. ASSUME Denied(l), UNCHANGED <<row, idpKey>>
      PROVE  LoginMoves(l)
  BY <1>0, <1>1, DeniedTyped DEF Denied
<1>2. ASSUME NEW x \in LoginSteps \ {"session", "in"}, StepTo(l, x), UNCHANGED <<row, idpKey>>,
             login[l].step \notin {"new", "refused"}
      PROVE  LoginMoves(l)
  <2>1. login' = [login EXCEPT ![l].step = x]
    BY <1>2 DEF StepTo
  <2> QED BY <1>0, <1>2, <2>1, StepToTyped
<1>3. ASSUME NEW b \in Browsers, NEW s \in Subjects, BeginLogin(l, b, s)
      PROVE  LoginMoves(l)
  <2>1. /\ login' \in [Logins -> LoginRow] /\ login'[l].step = "idp" /\ login'[l].subject = s
        /\ \A k \in Logins \ {l} : login'[k] = login[k]
    <3>1. [login[l] EXCEPT !.step = "idp", !.at = b, !.subject = s] \in LoginRow
      BY <1>0 DEF LoginRow, LoginSteps
    <3>2. /\ [login[l] EXCEPT !.step = "idp", !.at = b, !.subject = s].step = "idp"
          /\ [login[l] EXCEPT !.step = "idp", !.at = b, !.subject = s].subject = s
      BY <1>0 DEF LoginRow
    <3>3. login' = [login EXCEPT ![l] = [login[l] EXCEPT !.step = "idp", !.at = b, !.subject = s]]
      BY <1>0, <1>3 DEF BeginLogin
    <3> QED BY <1>0, <3>1, <3>2, <3>3
  <2> QED BY <1>0, <1>3, <2>1 DEF BeginLogin
<1>4. ASSUME Exchange(l)
      PROVE  LoginMoves(l)
  <2>1. /\ login' \in [Logins -> LoginRow] /\ login'[l].step = "keys"
        /\ login'[l].subject = login[l].subject
        /\ \A k \in Logins \ {l} : login'[k] = login[k]
    BY <1>0, <1>4, ZenonT(40) DEF Exchange, LoginRow, LoginSteps
  <2> QED BY <1>0, <1>4, <2>1 DEF Exchange
<1>5. ASSUME NEW p \in PrincipalRow, Given(l, p), login[l].step \in {"resolve", "insert"},
             Human(p), row'[login[l].subject] = p, idpKey' = idpKey, row' \in [Subjects -> PrincipalRow],
             \A s \in Subjects : row[s].type # "none" => row'[s] = row[s]
      PROVE  LoginMoves(l)
  BY <1>0, <1>5, GivenTyped DEF Given
<1>6. ASSUME Resolve(l)
      PROVE  LoginMoves(l)
  <2>1. login[l].subject \in Subjects /\ row[login[l].subject] \in PrincipalRow
    BY <1>0, <1>6 DEF Resolve
  <2>2. CASE Human(row[login[l].subject])
    BY <1>0, <1>5, <1>6, <2>1, <2>2 DEF Resolve
  <2>3. CASE ~Human(row[login[l].subject])
    BY <1>0, <1>1, <1>2, <1>6, <2>1, <2>3 DEF Resolve, LoginSteps
  <2> QED BY <2>2, <2>3
<1>7. ASSUME GenerateUniqueCode(l)
      PROVE  LoginMoves(l)
  <2> DEFINE seed == Seed[login[l].subject]
             free == {n \in 1..(Cardinality(Subjects) + 1) : <<seed, n>> \notin Taken}
  <2>1. (CHOOSE n \in free : \A k \in free : n <= k) \in free
    BY <1>0, FreeSuffix
  <2>2. IsFiniteSet(Subjects) /\ Cardinality(Subjects) \in Nat
    BY SignInConstants, FS_CardinalityType
  <2>3. free \subseteq Nat
    BY <2>2
  <2> HIDE DEF free
  <2>8. PICK m \in Nat : m = CHOOSE n \in free : \A k \in free : n <= k
    BY <2>1, <2>3
  <2>4. login' = [login EXCEPT ![l].step = "insert", ![l].code = <<seed, m>>] /\ UNCHANGED <<row, idpKey>>
        /\ login[l].step = "code"
    BY <1>7, <2>8 DEF GenerateUniqueCode, free
  <2>5. <<seed, m>> \in Codes
    BY <1>0, <2>4 DEF Codes
  <2> HIDE DEF seed
  <2>6. /\ login' \in [Logins -> LoginRow] /\ login'[l].step = "insert"
        /\ login'[l].subject = login[l].subject
        /\ \A k \in Logins \ {l} : login'[k] = login[k]
    BY <1>0, <2>4, <2>5, ZenonT(40) DEF LoginRow, LoginSteps
  <2> QED BY <1>0, <2>4, <2>6
<1>8. ASSUME Insert(l)
      PROVE  LoginMoves(l)
  <2> DEFINE s == login[l].subject
             new == [type |-> "HUMAN", status |-> "ACTIVE", code |-> login[l].code]
  <2>1. s \in Subjects /\ row[s] \in PrincipalRow /\ idpKey' = idpKey /\ login[l].step = "insert"
    BY <1>0, <1>8 DEF Insert
  <2>2. new \in PrincipalRow /\ Human(new)
    BY <1>0 DEF LoginRow, PrincipalRow, Human
  <2>3. row[s] = NoRow => row[s].type = "none"
    BY DEF NoRow
  <2>4. CASE Denied(l) /\ UNCHANGED row
    BY <1>1, <2>1, <2>4
  <2>5. CASE Human(row[s]) /\ Given(l, row[s]) /\ UNCHANGED row
    BY <1>0, <1>5, <2>1, <2>5
  <2>6. CASE row[s] = NoRow /\ row' = [row EXCEPT ![s] = new] /\ Given(l, new)
    <3>1. row' \in [Subjects -> PrincipalRow] /\ row'[s] = new
          /\ \A t \in Subjects : row[t].type # "none" => row'[t] = row[t]
      BY <1>0, <2>1, <2>2, <2>3, <2>6
    <3> QED BY <1>5, <2>1, <2>2, <2>6, <3>1
  <2> QED BY <1>8, <2>4, <2>5, <2>6 DEF Insert
<1>9. ASSUME FinishLogin(l)
      PROVE  LoginMoves(l)
  <2>1. /\ login' = [login EXCEPT ![l].step = "in"] /\ UNCHANGED <<row, idpKey>>
        /\ login[l].step = "session" /\ "in" \in LoginSteps
    BY <1>9 DEF FinishLogin, StepTo, LoginSteps
  <2> QED BY <1>0, <2>1, StepToTyped
<1> HIDE DEF LoginMoves
<1>10. CASE Callback(l) \/ HasKey(l) \/ RefreshKeys(l)
  BY <1>1, <1>2, <1>10 DEF Callback, HasKey, RefreshKeys, LoginSteps
<1>11. CASE Fetched(l) \/ VerifyToken(l) \/ ExchangeFails(l)
  BY <1>1, <1>2, <1>11 DEF Fetched, VerifyToken, ExchangeFails, LoginSteps
<1> QED
  BY <1>3, <1>4, <1>6, <1>7, <1>8, <1>9, <1>10, <1>11 DEF LoginStep

LEMMA LoginStepKeeps ==
  ASSUME SignInInv, NEW l \in Logins, LoginStep(l)
  PROVE  SignInInv'
<1>1. LoginMoves(l) /\ SignInTypeOK /\ LoginOK
  BY LoginStepMoves DEF SignInInv
<1>2. SignInTypeOK'
  BY <1>1 DEF LoginMoves, SignInTypeOK
<1>3. \A s \in Subjects : row[s].type # "none" => row'[s] = row[s]
  BY <1>1 DEF LoginMoves
<1>4. ASSUME NEW k \in Logins
      PROVE  /\ login'[k].step \notin {"new", "refused"} => login'[k].subject \in Subjects
             /\ login'[k].step \in {"session", "in"} =>
                   /\ Human(login'[k].given)
                   /\ row'[login'[k].subject].type # "none"
                   /\ login'[k].given.code = row'[login'[k].subject].code
  <2>1. /\ login[k].step \notin {"new", "refused"} => login[k].subject \in Subjects
        /\ login[k].step \in {"session", "in"} =>
              /\ Human(login[k].given)
              /\ row[login[k].subject].type # "none"
              /\ login[k].given.code = row[login[k].subject].code
    BY <1>1 DEF LoginOK
  <2>2. CASE k # l
    BY <1>1, <1>3, <2>1, <2>2 DEF LoginMoves
  <2>3. CASE k = l
    <3>1. \A p : Human(p) => p.type # "none"
      BY DEF Human
    <3> QED BY <1>1, <1>3, <2>1, <2>3, <3>1 DEF LoginMoves
  <2> QED BY <2>2, <2>3
<1>5. LoginOK'
  BY <1>4 DEF LoginOK, Human
<1> QED BY <1>2, <1>5 DEF SignInInv

LEMMA AdminRowKeeps ==
  ASSUME SignInInv, NEW s \in Subjects, NEW type \in {"HUMAN", "SERVICE"}, NEW status \in {"ACTIVE", "DISABLED"},
         AdminRow(s, [type |-> type, status |-> status, code |-> IF row[s] = NoRow THEN <<s, 1>> ELSE row[s].code])
  PROVE  SignInInv'
<1>1. SignInTypeOK /\ LoginOK /\ row[s] \in PrincipalRow
  BY DEF SignInInv, SignInTypeOK
<1>2. PICK c \in Codes : c = IF row[s] = NoRow THEN <<s, 1>> ELSE row[s].code
  BY <1>1 DEF Codes, PrincipalRow
<1>3. row' = [row EXCEPT ![s] = [type |-> type, status |-> status, code |-> c]] /\ UNCHANGED <<login, idpKey>>
  BY <1>2 DEF AdminRow
<1>4. row[s].type # "none" => c = row[s].code
  BY <1>2 DEF NoRow
<1>5. SignInTypeOK'
  BY <1>1, <1>3 DEF SignInTypeOK, PrincipalRow
<1>6. \A t \in Subjects : row[t].type # "none" => row'[t].type # "none" /\ row'[t].code = row[t].code
  BY <1>1, <1>3, <1>4 DEF SignInTypeOK
<1>7. LoginOK'
  BY <1>1, <1>3, <1>6 DEF LoginOK, Human
<1> QED BY <1>5, <1>7 DEF SignInInv

LEMMA SignInInvariant == SignInSpec => []SignInInv
<1>1. SignInInv /\ [SignInNext]_signInVars => SignInInv'
  <2> SUFFICES ASSUME SignInInv, [SignInNext]_signInVars PROVE SignInInv'
    OBVIOUS
  <2>1. CASE RotateKey
    BY <2>1 DEF RotateKey, SignInInv, SignInTypeOK, LoginOK, Human
  <2>2. CASE SignInClock \/ UNCHANGED signInVars
    BY <2>2 DEF SignInClock, signInVars, SignInInv, SignInTypeOK, LoginOK, Human
  <2> QED BY <2>1, <2>2, LoginStepKeeps, AdminRowKeeps DEF SignInNext
<1> QED BY SignInInitInv, <1>1, PTL DEF SignInSpec

\* auth_api.rs resolve_or_provision: whoever is let in is let in as the active
\* human principal of the subject, and under the one code that row keeps, for
\* any number of logins racing with each other and with an administrator.
THEOREM SignInSafe == SignInSpec => []RightPrincipal
<1>1. SignInInv => RightPrincipal
  BY DEF SignInInv, LoginOK, RightPrincipal
<1> QED BY SignInInvariant, <1>1, PTL

-----------------------------------------------------------------------------
(* ColoLink                                                                   *)

Positions == {<<n>> : n \in Nat} \cup {Empty}
Pushes == {[type |-> "kill"], [type |-> "resume"]} \cup [type : {"limits"}, version : Nat]
          \cup [type : {"positions"}, position : Positions]
States == [type : {"state"}, active : BOOLEAN, version : Nat, position : Positions]
RegistryRow == [state : {"ACTIVE", "HALTED"}, version : Nat, strict : BOOLEAN]
ReadRow == [state : {"ACTIVE", "HALTED"}, version : Nat]
Controls == [op : {"kill", "enable"}, pc : {"set", "query", "store"}, row : ReadRow \cup {NotRead}]
Changes == [pc : {"written", "read", "loaded"}, row : ReadRow \cup {NotRead}]
Slots == [conn : Nat, out : Seq(Pushes), acked : Nat]
Links == [conn : Nat, open : BOOLEAN, stated : BOOLEAN, untold : SUBSET {"state", "version"},
          msgs : {<<>>} \cup {<<m>> : m \in Pushes \cup States}]

LinkTypeOK ==
    /\ registry \in RegistryRow /\ snapshot \in RegistryRow
    /\ behind \in SUBSET {"state", "version"}
    /\ control \in {NoControl} \cup Controls /\ limits \in {NoLimits} \cup Changes
    /\ slot \in Slots /\ link \in Links
    /\ booked \in Nat
    /\ feed \in [changes : Nat, read : {<<>>} \cup {<<p>> : p \in Positions}]
    /\ dead \in [active : BOOLEAN, killed : BOOLEAN, late : BOOLEAN]
    /\ book \in [version : Nat, position : Positions]
    /\ asked \in [conns : Nat, changes : Nat]

\* What each step of a change has already made of the row and of the snapshot:
\* what the snapshot lacks, it is known to lack or a reload is to bring.  And whom
\* an open connection has.
StepsOK ==
    /\ "version" \in behind \/ limits.pc \in {"written", "read"} \/ registry.version = snapshot.version
    /\ "state" \in behind \/ control.pc \in {"query", "store"} \/ registry.state = snapshot.state
    /\ control.pc \in {"query", "store"} => registry.state = IF control.op = "kill" THEN "HALTED" ELSE "ACTIVE"
    /\ control.pc = "store" => control.row \in ReadRow /\ control.row.state = registry.state
    /\ limits.pc = "read" => limits.row \in ReadRow /\ limits.row.version = registry.version
    /\ link.open => slot.conn = link.conn /\ slot.conn > 0
    /\ ~link.stated => link.msgs = <<>>
    /\ feed.changes = 0 /\ feed.read # <<>> => Head(feed.read) \in {<<booked>>, Empty}

\* What the strategy will have once it has read the message on its way.
VersionNext == IF link.msgs # <<>> /\ Head(link.msgs).type \in {"state", "limits"}
               THEN Head(link.msgs).version ELSE book.version
PositionNext == IF link.msgs # <<>> /\ Head(link.msgs).type \in {"state", "positions"}
                THEN Head(link.msgs).position ELSE book.position
KilledNext == IF link.msgs # <<>> /\ Head(link.msgs).type \in {"state", "kill", "resume"}
              THEN Head(link.msgs).type = "kill" \/ (Head(link.msgs).type = "state" /\ ~Head(link.msgs).active)
              ELSE dead.killed
StateNext == IF KilledNext THEN "HALTED" ELSE "ACTIVE"
SwitchSet == dead.active \/ dead.killed \/ (link.msgs # <<>> /\ Head(link.msgs).type \in {"state", "kill", "resume"})

\* Of the messages in q of the types B the last one is in M; when there is none,
\* d is in G.
Ends(q, B, M, d, G) ==
    \/ d \in G /\ \A j \in 1..Len(q) : q[j].type \notin B
    \/ \E i \in 1..Len(q) : q[i] \in M /\ \A j \in (i + 1)..Len(q) : q[j].type \notin B

\* The state the strategy is to end in.
Target == IF control.op = "kill" THEN "HALTED" ELSE registry.state

\* An Enable has written the row and is to send its Resume.
Enabling == control.op = "enable" /\ control.pc \in {"query", "store"}

VersionArrives ==
    link.open /\ limits = NoLimits /\ "version" \notin link.untold =>
        Ends(slot.out, {"limits"}, {[type |-> "limits", version |-> registry.version]},
             IF link.stated THEN VersionNext ELSE registry.version, {registry.version})
PositionArrives ==
    link.open /\ feed.changes = 0 /\ feed.read = <<>> =>
        Ends(slot.out, {"positions"}, {[type |-> "positions", position |-> p] : p \in {<<booked>>, Empty}},
             IF link.stated THEN PositionNext ELSE Empty, {<<booked>>, Empty})
StateArrives ==
    link.open /\ ~Enabling /\ "state" \notin link.untold =>
        Ends(slot.out, {"kill", "resume"}, {[type |-> IF Target = "HALTED" THEN "kill" ELSE "resume"]},
             IF link.stated THEN StateNext ELSE Target, {Target})
SwitchArrives == link.open /\ link.stated => SwitchSet

LinkInv == LinkTypeOK /\ StepsOK /\ VersionArrives /\ PositionArrives /\ StateArrives /\ SwitchArrives

LEMMA EndsAppendGood ==
  ASSUME NEW S, NEW q \in Seq(S), NEW m \in S, NEW B, NEW M, m \in M, NEW d, NEW G
  PROVE  Ends(Append(q, m), B, M, d, G)
<1>1. Len(Append(q, m)) = Len(q) + 1 /\ Append(q, m)[Len(q) + 1] = m /\ Len(q) \in Nat
  OBVIOUS
<1>2. Len(q) + 1 \in 1..Len(Append(q, m)) /\ (Len(q) + 1 + 1)..Len(Append(q, m)) = {}
  BY <1>1
<1> QED BY <1>1, <1>2 DEF Ends

LEMMA EndsAppendOther ==
  ASSUME NEW S, NEW q \in Seq(S), NEW m \in S, NEW B, m.type \notin B, NEW M, NEW d, NEW G, Ends(q, B, M, d, G)
  PROVE  Ends(Append(q, m), B, M, d, G)
<1>1. /\ Len(Append(q, m)) = Len(q) + 1 /\ Append(q, m)[Len(q) + 1] = m /\ Len(q) \in Nat
      /\ \A j \in 1..Len(q) : Append(q, m)[j] = q[j]
  OBVIOUS
<1>2. ASSUME NEW i \in 0..Len(q), \A j \in (i + 1)..Len(q) : q[j].type \notin B
      PROVE  \A j \in (i + 1)..Len(Append(q, m)) : Append(q, m)[j].type \notin B
  <2> TAKE j \in (i + 1)..Len(Append(q, m))
  <2>1. CASE j = Len(q) + 1
    BY <1>1, <2>1
  <2>2. CASE j # Len(q) + 1
    <3>1. j \in (i + 1)..Len(q) /\ j \in 1..Len(q)
      BY <1>1, <2>2
    <3> QED BY <1>1, <1>2, <3>1
  <2> QED BY <2>1, <2>2
<1>3. CASE d \in G /\ \A j \in 1..Len(q) : q[j].type \notin B
  <2>1. \A j \in (0 + 1)..Len(Append(q, m)) : Append(q, m)[j].type \notin B
    BY <1>1, <1>2, <1>3
  <2> QED BY <1>3, <2>1 DEF Ends
<1>4. ASSUME NEW i \in 1..Len(q), q[i] \in M, \A j \in (i + 1)..Len(q) : q[j].type \notin B
      PROVE  Ends(Append(q, m), B, M, d, G)
  <2>1. i \in 1..Len(Append(q, m)) /\ Append(q, m)[i] \in M
    BY <1>1, <1>4
  <2>2. \A j \in (i + 1)..Len(Append(q, m)) : Append(q, m)[j].type \notin B
    BY <1>1, <1>2, <1>4
  <2> QED BY <2>1, <2>2 DEF Ends
<1> QED BY <1>3, <1>4 DEF Ends

LEMMA EndsTail ==
  ASSUME NEW S, NEW q \in Seq(S), q # <<>>, NEW B, NEW M, NEW d, NEW e, NEW G, Ends(q, B, M, d, G),
         Head(q) \in M => e \in G,
         Head(q).type \notin B /\ d \in G => e \in G
  PROVE  Ends(Tail(q), B, M, e, G)
<1>1. /\ Len(Tail(q)) = Len(q) - 1 /\ Head(q) = q[1] /\ Len(q) \in Nat \ {0}
      /\ \A j \in 1..(Len(q) - 1) : Tail(q)[j] = q[j + 1]
  OBVIOUS
<1>2. ASSUME NEW i \in 1..Len(q), \A j \in (i + 1)..Len(q) : q[j].type \notin B
      PROVE  \A j \in i..Len(Tail(q)) : Tail(q)[j].type \notin B
  <2> TAKE j \in i..Len(Tail(q))
  <2>1. j + 1 \in (i + 1)..Len(q) /\ j \in 1..(Len(q) - 1)
    BY <1>1
  <2> QED BY <1>1, <1>2, <2>1
<1>3. CASE d \in G /\ \A j \in 1..Len(q) : q[j].type \notin B
  <2>1. e \in G
    BY <1>1, <1>3
  <2>2. \A j \in 1..Len(Tail(q)) : Tail(q)[j].type \notin B
    BY <1>1, <1>2, <1>3
  <2> QED BY <2>1, <2>2 DEF Ends
<1>4. ASSUME NEW i \in 1..Len(q), q[i] \in M, \A j \in (i + 1)..Len(q) : q[j].type \notin B
      PROVE  Ends(Tail(q), B, M, e, G)
  <2>1. \A j \in i..Len(Tail(q)) : Tail(q)[j].type \notin B
    BY <1>2, <1>4
  <2>2. CASE i = 1
    BY <1>1, <1>4, <2>1, <2>2 DEF Ends
  <2>3. CASE i # 1
    <3>1. i - 1 \in 1..Len(Tail(q)) /\ Tail(q)[i - 1] \in M /\ (i - 1) + 1 = i
      BY <1>1, <1>4, <2>3
    <3> QED BY <2>1, <3>1 DEF Ends
  <2> QED BY <2>2, <2>3
<1> QED BY <1>3, <1>4 DEF Ends

LEMMA EndsDefault ==
  ASSUME NEW q, NEW B, NEW M, NEW d, NEW e, NEW G, Ends(q, B, M, d, G), d \in G => e \in G
  PROVE  Ends(q, B, M, e, G)
  BY DEF Ends

LEMMA EndsEmpty ==
  ASSUME NEW B, NEW M, NEW d, NEW G
  PROVE  Ends(<<>>, B, M, d, G) <=> d \in G
  BY DEF Ends

LEMMA LinkInitInv == LinkInit => LinkInv
<1> SUFFICES ASSUME LinkInit PROVE LinkInv
  OBVIOUS
<1> USE DEF LinkInit, NoSlot, NoControl, NoLimits
<1>1. LinkTypeOK
  BY DEF LinkTypeOK, RegistryRow, Slots, Links, Positions, Empty
<1>2. StepsOK
  BY DEF StepsOK
<1>3. VersionArrives /\ PositionArrives /\ StateArrives /\ SwitchArrives
  BY DEF VersionArrives, PositionArrives, StateArrives, SwitchArrives
<1> QED BY <1>1, <1>2, <1>3 DEF LinkInv

LEMMA PushIs ==
  ASSUME slot \in Slots, NEW m \in Pushes, Push(m)
  PROVE  /\ slot' \in Slots /\ slot'.conn = slot.conn
         /\ slot.conn > 0 => slot'.out = Append(slot.out, m)
<1>1. CASE slot = NoSlot
  BY <1>1 DEF Push, NoSlot
<1>2. CASE slot # NoSlot
  <2>1. slot' = [slot EXCEPT !.out = Append(slot.out, m)]
    BY <1>2 DEF Push
  <2>2. Append(slot.out, m) \in Seq(Pushes)
    BY DEF Slots
  <2> QED BY <2>1, <2>2 DEF Slots
<1> QED BY <1>1, <1>2

LEMMA PushKinds ==
  /\ [type |-> "kill"] \in Pushes /\ [type |-> "resume"] \in Pushes
  /\ \A v \in Nat : [type |-> "limits", version |-> v] \in Pushes
  /\ \A p \in Positions : [type |-> "positions", position |-> p] \in Pushes
  BY DEF Pushes

LEMMA MessageFields ==
  ASSUME NEW m \in Pushes \cup States
  PROVE  /\ m.type \in {"kill", "resume", "limits", "positions", "state"}
         /\ m.type \in {"state", "limits"} => m.version \in Nat
         /\ m.type \in {"state", "positions"} => m.position \in Positions
         /\ m.type = "state" => m.active \in BOOLEAN
         /\ "version" \in DOMAIN m <=> m.type \in {"state", "limits"}
         /\ "position" \in DOMAIN m <=> m.type \in {"state", "positions"}
  BY DEF Pushes, States

LEMMA AskIs ==
  ASSUME asked \in [conns : Nat, changes : Nat], NEW what \in {"conns", "changes"}, NEW max, Ask(what, max)
  PROVE  asked' \in [conns : Nat, changes : Nat]
  BY DEF Ask

\* What a request changes of the connection is what it was told.
LEMMA ToldIs ==
  ASSUME link \in Links, NEW x \in {"state", "version"}, Untold(x) \/ Told(x) \/ UNCHANGED link
  PROVE  /\ link' \in Links
         /\ link'.conn = link.conn /\ link'.open = link.open /\ link'.stated = link.stated /\ link'.msgs = link.msgs
         /\ Untold(x) => link'.untold = link.untold \cup {x}
         /\ Told(x) => link'.untold = link.untold \ {x}
<1>1. ASSUME NEW u \in SUBSET {"state", "version"}, link' = [link EXCEPT !.untold = u]
      PROVE  /\ link' \in Links /\ link'.untold = u
             /\ link'.conn = link.conn /\ link'.open = link.open /\ link'.stated = link.stated /\ link'.msgs = link.msgs
  BY <1>1 DEF Links
<1>2. link.untold \cup {x} \in SUBSET {"state", "version"} /\ link.untold \ {x} \in SUBSET {"state", "version"}
  BY DEF Links
<1>3. Untold(x) => link' = [link EXCEPT !.untold = link.untold \cup {x}]
  BY DEF Untold
<1>4. Told(x) => link' = [link EXCEPT !.untold = link.untold \ {x}]
  BY DEF Told
<1> QED BY <1>1, <1>2, <1>3, <1>4

\* Of the snapshot and what it lacks once a row has been stored.
LEMMA ReplaceIs ==
  ASSUME LinkTypeOK, NEW r \in ReadRow, Replace(r)
  PROVE  /\ snapshot' \in RegistryRow /\ snapshot'.state = r.state /\ snapshot'.version = r.version
         /\ behind' \in SUBSET {"state", "version"}
         /\ "state" \in behind' \/ control.pc \in {"query", "store"} \/ r.state = registry.state
         /\ "version" \in behind' \/ limits.pc \in {"written", "read"} \/ r.version = registry.version
<1>1. snapshot' = [snapshot EXCEPT !.state = r.state, !.version = r.version]
  BY DEF Replace
<1>2. snapshot' \in RegistryRow /\ snapshot'.state = r.state /\ snapshot'.version = r.version
  BY <1>1 DEF LinkTypeOK, RegistryRow, ReadRow
<1>3. behind' = Lacks(r) \ UnderWay
  BY DEF Replace
<1>4. r["state"] = r.state /\ registry["state"] = registry.state
      /\ r["version"] = r.version /\ registry["version"] = registry.version
  OBVIOUS
<1> QED BY <1>2, <1>3, <1>4 DEF Lacks, UnderWay

\* What the strategy has once it has read the message: what was to come.
LEMMA OnControlIs ==
  ASSUME LinkInv, OnControl
  PROVE  /\ link.msgs # <<>> /\ link.open /\ link' = [link EXCEPT !.msgs = <<>>]
         /\ UNCHANGED <<oms, graced, positions, asked>>
         /\ slot' \in Slots /\ slot'.out = slot.out /\ slot'.conn = slot.conn
         /\ book' = [version |-> VersionNext, position |-> PositionNext]
         /\ book' \in [version : Nat, position : Positions]
         /\ dead' \in [active : BOOLEAN, killed : BOOLEAN, late : BOOLEAN]
         /\ dead'.killed <=> KilledNext
         /\ SwitchSet => dead'.active \/ dead'.killed
<1>0. LinkTypeOK
  BY DEF LinkInv
<1>1. PICK m \in Pushes \cup States : link.msgs = <<m>>
  BY <1>0 DEF LinkTypeOK, Links, OnControl
<1>2. link.msgs # <<>> /\ Head(link.msgs) = m /\ Tail(link.msgs) = <<>>
  BY <1>1
<1>3. /\ link.open /\ link' = [link EXCEPT !.msgs = Tail(link.msgs)] /\ UNCHANGED <<oms, graced, positions, asked>>
      /\ dead' = [late |-> FALSE,
                  active |-> CASE m.type = "state" -> m.active
                               [] m.type = "resume" -> TRUE
                               [] OTHER -> dead.active,
                  killed |-> CASE m.type = "state" -> ~ m.active
                               [] m.type = "kill" -> TRUE
                               [] m.type = "resume" -> FALSE
                               [] OTHER -> dead.killed]
      /\ book' = [version |-> IF "version" \in DOMAIN m THEN m.version ELSE book.version,
                  position |-> IF "position" \in DOMAIN m THEN m.position ELSE book.position]
      /\ slot' = IF slot.conn = link.conn THEN [slot EXCEPT !.acked = book'.version] ELSE slot
  BY <1>2 DEF OnControl
<1>4. book' = [version |-> VersionNext, position |-> PositionNext]
  BY <1>2, <1>3, MessageFields DEF VersionNext, PositionNext
<1>5. VersionNext \in Nat /\ PositionNext \in Positions
  BY <1>0, <1>2, MessageFields DEF VersionNext, PositionNext, LinkTypeOK
<1>6. slot' \in Slots /\ slot'.out = slot.out /\ slot'.conn = slot.conn
  BY <1>0, <1>3, <1>4, <1>5 DEF LinkTypeOK, Slots
<1>7. /\ m.type = "state" => m.active \in BOOLEAN
      /\ dead.active \in BOOLEAN /\ dead.killed \in BOOLEAN
  BY <1>0, MessageFields DEF LinkTypeOK
<1>8. /\ m.type = "state" => dead' = [late |-> FALSE, active |-> m.active, killed |-> ~ m.active]
      /\ m.type = "resume" => dead' = [late |-> FALSE, active |-> TRUE, killed |-> FALSE]
      /\ m.type = "kill" => dead' = [late |-> FALSE, active |-> dead.active, killed |-> TRUE]
      /\ m.type \notin {"state", "resume", "kill"} =>
            dead' = [late |-> FALSE, active |-> dead.active, killed |-> dead.killed]
  <2>1. CASE m.type = "state"
    BY <1>3, <2>1
  <2>2. CASE m.type = "resume"
    BY <1>3, <2>2
  <2>3. CASE m.type = "kill"
    BY <1>3, <2>3
  <2>4. CASE m.type \notin {"state", "resume", "kill"}
    BY <1>3, <2>4
  <2> QED BY <2>1, <2>2, <2>3, <2>4
<1>9. /\ m.type = "state" => (m.active = TRUE \/ m.active = FALSE)
      /\ m.type = "state" /\ m.active = TRUE => dead' = [late |-> FALSE, active |-> TRUE, killed |-> FALSE]
      /\ m.type = "state" /\ m.active = FALSE => dead' = [late |-> FALSE, active |-> FALSE, killed |-> TRUE]
  BY <1>7, <1>8
<1>10. /\ m.type = "kill" => KilledNext
       /\ m.type = "resume" => ~KilledNext
       /\ m.type = "state" /\ m.active = TRUE => ~KilledNext
       /\ m.type = "state" /\ m.active = FALSE => KilledNext
       /\ m.type \notin {"state", "kill", "resume"} => KilledNext = dead.killed
  BY <1>2 DEF KilledNext
<1>11. SwitchSet => dead.active \/ dead.killed \/ m.type \in {"state", "kill", "resume"}
  BY <1>2 DEF SwitchSet
<1>12. dead = [active |-> dead.active, killed |-> dead.killed, late |-> dead.late]
  BY <1>0 DEF LinkTypeOK
<1>13. /\ dead' \in [active : BOOLEAN, killed : BOOLEAN, late : BOOLEAN]
       /\ dead'.killed <=> KilledNext
       /\ SwitchSet => dead'.active \/ dead'.killed
  <2> HIDE DEF KilledNext, SwitchSet
  <2>1. CASE m.type = "state" /\ m.active = TRUE
    <3>1. dead' = [late |-> FALSE, active |-> TRUE, killed |-> FALSE]
      BY <1>9, <2>1
    <3>2. dead'.active = TRUE /\ dead'.killed = FALSE /\ dead' \in [active : BOOLEAN, killed : BOOLEAN, late : BOOLEAN]
      BY <3>1
    <3>3. ~KilledNext
      BY <1>10, <2>1
    <3> QED BY <3>2, <3>3
  <2>2. CASE m.type = "state" /\ m.active = FALSE
    <3>1. dead' = [late |-> FALSE, active |-> FALSE, killed |-> TRUE]
      BY <1>9, <2>2
    <3>2. dead'.active = FALSE /\ dead'.killed = TRUE /\ dead' \in [active : BOOLEAN, killed : BOOLEAN, late : BOOLEAN]
      BY <3>1
    <3>3. KilledNext
      BY <1>10, <2>2
    <3> QED BY <3>2, <3>3
  <2>3. CASE m.type = "resume"
    <3>1. dead' = [late |-> FALSE, active |-> TRUE, killed |-> FALSE]
      BY <1>8, <2>3
    <3>2. dead'.active = TRUE /\ dead'.killed = FALSE /\ dead' \in [active : BOOLEAN, killed : BOOLEAN, late : BOOLEAN]
      BY <3>1
    <3>3. ~KilledNext
      BY <1>10, <2>3
    <3> QED BY <3>2, <3>3
  <2>4. CASE m.type = "kill"
    <3>1. PICK a \in BOOLEAN : a = dead.active
      BY <1>7
    <3>2. dead' = [late |-> FALSE, active |-> a, killed |-> TRUE]
      BY <1>8, <2>4, <3>1
    <3>3. dead'.killed = TRUE /\ dead' \in [active : BOOLEAN, killed : BOOLEAN, late : BOOLEAN]
      BY <3>2
    <3>4. KilledNext
      BY <1>10, <2>4
    <3> QED BY <3>3, <3>4
  <2>5. CASE m.type \notin {"state", "resume", "kill"}
    <3>1. PICK a, k : a \in BOOLEAN /\ k \in BOOLEAN /\ a = dead.active /\ k = dead.killed
      BY <1>7
    <3>2. dead' = [late |-> FALSE, active |-> a, killed |-> k]
      BY <1>8, <2>5, <3>1
    <3>3. dead'.active = a /\ dead'.killed = k /\ dead' \in [active : BOOLEAN, killed : BOOLEAN, late : BOOLEAN]
      BY <3>1, <3>2
    <3>4. KilledNext = dead.killed
      BY <1>10, <2>5
    <3>5. SwitchSet => dead.active \/ dead.killed
      BY <1>11, <2>5
    <3> QED BY <3>1, <3>3, <3>4, <3>5
  <2> QED BY <1>9, <2>1, <2>2, <2>3, <2>4, <2>5
<1>14. link' = [link EXCEPT !.msgs = <<>>]
  BY <1>2, <1>3
<1>15. book' \in [version : Nat, position : Positions]
  BY <1>4, <1>5
<1>16. link.open /\ UNCHANGED <<oms, graced, positions, asked>>
  BY <1>3
<1> HIDE DEF VersionNext, PositionNext, KilledNext, SwitchSet, oms, positions
<1> QED BY <1>2, <1>4, <1>6, <1>13, <1>14, <1>15, <1>16

LEMMA LinkTypeStep ==
  ASSUME LinkInv, LinkNext
  PROVE  LinkTypeOK'
<1> USE DEF LinkTypeOK
<1>0. LinkTypeOK
  BY DEF LinkInv
<1>1. ASSUME LinkConnect PROVE LinkTypeOK'
  <2>1. link' \in Links /\ slot' \in Slots
    BY <1>0, <1>1 DEF LinkConnect, Links, Slots
  <2> QED BY <1>0, <1>1, <2>1, AskIs DEF LinkConnect, oms, positions, maker
<1>2. ASSUME SendState PROVE LinkTypeOK'
  <2>1. PICK list \in {<<booked>>, Empty} :
          /\ ReadsList(list)
          /\ link' = [link EXCEPT !.stated = TRUE,
                !.untold = link.untold \cup behind \cup (IF LiftsKill THEN {"state"} ELSE {}),
                !.msgs = <<[type |-> "state", active |-> snapshot.state # "HALTED",
                            version |-> snapshot.version, position |-> list]>>]
    BY <1>2 DEF SendState
  <2>2. PICK u \in SUBSET {"state", "version"} : u = link.untold \cup behind \cup (IF LiftsKill THEN {"state"} ELSE {})
    BY <1>0 DEF Links
  <2>3. PICK a \in BOOLEAN : a = (snapshot.state # "HALTED")
    OBVIOUS
  <2>4. list \in Positions
    BY <1>0 DEF Positions
  <2>5. [type |-> "state", active |-> a, version |-> snapshot.version, position |-> list] \in States
    BY <1>0, <2>4 DEF States, RegistryRow
  <2>6. PICK m \in States : m = [type |-> "state", active |-> a, version |-> snapshot.version, position |-> list]
    BY <2>5
  <2>7. link' = [link EXCEPT !.stated = TRUE, !.untold = u, !.msgs = <<m>>]
    BY <2>1, <2>2, <2>3, <2>6
  <2>8. link' \in Links
    BY <1>0, <2>7 DEF Links
  <2>9. asked' \in [conns : Nat, changes : Nat]
    BY <1>0, <2>1, AskIs DEF ReadsList
  <2> QED BY <1>0, <1>2, <2>8, <2>9 DEF SendState, oms, positions, maker
<1>3. ASSUME SendPush PROVE LinkTypeOK'
  <2>1. slot.out \in Seq(Pushes) /\ slot.out # <<>> /\ link.msgs = <<>>
    BY <1>0, <1>3 DEF SendPush, Slots
  <2>2. Head(slot.out) \in Pushes /\ Tail(slot.out) \in Seq(Pushes) /\ Append(link.msgs, Head(slot.out)) = <<Head(slot.out)>>
    BY <2>1
  <2>3. slot' = [slot EXCEPT !.out = Tail(slot.out)] /\ link' = [link EXCEPT !.msgs = <<Head(slot.out)>>]
    BY <1>3, <2>2 DEF SendPush
  <2>4. slot' \in Slots
    BY <1>0, <2>2, <2>3 DEF Slots
  <2>5. link' \in Links
    BY <1>0, <2>2, <2>3 DEF Links
  <2> QED BY <1>0, <1>3, <2>4, <2>5 DEF SendPush, oms, positions, maker
<1>4. ASSUME LinkBreaks PROVE LinkTypeOK'
  <2>1. link' \in Links
    BY <1>0, <1>4 DEF LinkBreaks, Links
  <2> QED BY <1>0, <1>4, <2>1 DEF LinkBreaks, oms, positions, maker
<1>5. ASSUME Disconnect PROVE LinkTypeOK'
  <2>1. slot' \in Slots
    BY <1>5 DEF Disconnect, NoSlot, Slots
  <2> QED BY <1>0, <1>5, <2>1 DEF Disconnect, oms, positions, maker
<1>6. ASSUME OnControl PROVE LinkTypeOK'
  <2>1. link' \in Links
    BY <1>0, <1>6, OnControlIs DEF Links
  <2> QED BY <1>0, <1>6, <2>1, OnControlIs DEF oms, positions
<1>7. ASSUME Timeout PROVE LinkTypeOK'
  BY <1>0, <1>7 DEF Timeout, oms, positions
<1>8. ASSUME GracePasses \/ WatchSwitch \/ Requote PROVE LinkTypeOK'
  BY <1>0, <1>8 DEF GracePasses, WatchSwitch, Requote, oms, positions, maker
<1>9. ASSUME KillBegin PROVE LinkTypeOK'
  <2>1. control' \in Controls
    BY <1>9 DEF KillBegin, NoControl, Controls
  <2>2. slot' \in Slots /\ link' \in Links
    BY <1>0, <1>9, PushIs, PushKinds, ToldIs DEF KillBegin
  <2> QED BY <1>0, <1>9, <2>1, <2>2, AskIs DEF KillBegin, positions, maker
<1>10. ASSUME EnableBegin PROVE LinkTypeOK'
  <2>1. control' \in Controls
    BY <1>10 DEF EnableBegin, NoControl, Controls
  <2> QED BY <1>0, <1>10, <2>1, AskIs DEF EnableBegin, positions, maker
<1>11. ASSUME SetState PROVE LinkTypeOK'
  <2>1. control \in Controls
    BY <1>0, <1>11 DEF SetState, NoControl
  <2>2. control' \in Controls /\ registry' \in RegistryRow
    BY <1>0, <1>11, <2>1 DEF SetState, RegistryRow, Controls
  <2> QED BY <1>0, <1>11, <2>2 DEF SetState, positions, maker
<1>12. ASSUME SetFails PROVE LinkTypeOK'
  <2>1. link' \in Links
    BY <1>0, <1>12, ToldIs DEF SetFails
  <2> QED BY <1>0, <1>12, <2>1, AskIs DEF SetFails, positions, maker
<1>13. ASSUME ReloadReads PROVE LinkTypeOK'
  <2>1. control \in Controls /\ Row \in ReadRow
    BY <1>0, <1>13 DEF ReloadReads, NoControl, Row, ReadRow, RegistryRow
  <2>2. control' \in Controls
    BY <1>13, <2>1 DEF ReloadReads, Controls
  <2> QED BY <1>0, <1>13, <2>2 DEF ReloadReads, positions, maker
<1>14. ASSUME ReloadFails PROVE LinkTypeOK'
  <2>1. link' \in Links
    BY <1>0, <1>14, ToldIs DEF ReloadFails
  <2> QED BY <1>0, <1>14, <2>1, AskIs DEF ReloadFails, positions, maker
<1>19. ASSUME Reload PROVE LinkTypeOK'
  <2>1. control.row \in ReadRow
    BY <1>19 DEF Reload, LinkInv, StepsOK
  <2>2. snapshot' \in RegistryRow /\ behind' \in SUBSET {"state", "version"}
    BY <1>0, <1>19, <2>1, ReplaceIs DEF Reload
  <2>3. slot' \in Slots /\ link' \in Links
    BY <1>0, <1>19, PushIs, PushKinds, ToldIs DEF Reload
  <2> QED BY <1>0, <1>19, <2>2, <2>3 DEF Reload, positions, maker
<1>20. ASSUME LimitsWrite PROVE LinkTypeOK'
  <2>1. registry' \in RegistryRow /\ limits' \in Changes
    BY <1>0, <1>20 DEF LimitsWrite, RegistryRow, NoLimits, Changes
  <2> QED BY <1>0, <1>20, <2>1, AskIs DEF LimitsWrite, positions, maker
<1>21. ASSUME LimitsRefused PROVE LinkTypeOK'
  <2>1. link' \in Links
    BY <1>0, <1>21, ToldIs DEF LimitsRefused
  <2> QED BY <1>0, <1>21, <2>1, AskIs DEF LimitsRefused, positions, maker
<1>22. ASSUME LimitsRead PROVE LinkTypeOK'
  <2>1. limits' \in Changes
    BY <1>0, <1>22 DEF LimitsRead, Changes, Row, ReadRow, RegistryRow
  <2> QED BY <1>0, <1>22, <2>1 DEF LimitsRead, positions, maker
<1>23. ASSUME LimitsReadFails PROVE LinkTypeOK'
  <2>1. limits' \in Changes
    BY <1>23 DEF LimitsReadFails, NoLimits, Changes
  <2> QED BY <1>0, <1>23, <2>1, AskIs DEF LimitsReadFails, positions, maker
<1>24. ASSUME LimitsReload PROVE LinkTypeOK'
  <2>1. limits.row \in ReadRow
    BY <1>24 DEF LimitsReload, LinkInv, StepsOK
  <2>2. snapshot' \in RegistryRow /\ behind' \in SUBSET {"state", "version"}
    BY <1>0, <1>24, <2>1, ReplaceIs DEF LimitsReload
  <2>3. limits' \in Changes
    BY <1>24 DEF LimitsReload, NoLimits, Changes
  <2> QED BY <1>0, <1>24, <2>2, <2>3 DEF LimitsReload, positions, maker
<1>15. ASSUME LimitsPush PROVE LinkTypeOK'
  <2>1. [type |-> "limits", version |-> snapshot.version] \in Pushes
    BY <1>0, PushKinds DEF RegistryRow
  <2>2. link' \in Links /\ slot' \in Slots
    BY <1>0, <1>15, <2>1, PushIs, ToldIs DEF LimitsPush
  <2> QED BY <1>0, <1>15, <2>2 DEF LimitsPush, positions, maker
<1>16. ASSUME BookPosition PROVE LinkTypeOK'
  BY <1>0, <1>16, AskIs DEF BookPosition, oms, maker
<1>17. ASSUME LoopReads PROVE LinkTypeOK'
  <2>1. PICK left \in 0 .. (feed.changes - 1), list \in {<<booked>>, Empty} :
          ReadsList(list) /\ feed' = [changes |-> left, read |-> <<list>>]
    BY <1>17 DEF LoopReads
  <2>2. list \in Positions /\ left \in Nat
    BY <1>0 DEF Positions
  <2>3. asked' \in [conns : Nat, changes : Nat]
    BY <1>0, <2>1, AskIs DEF ReadsList
  <2>4. feed' \in [changes : Nat, read : {<<>>} \cup {<<p>> : p \in Positions}]
    BY <2>1, <2>2
  <2> QED BY <1>0, <1>17, <2>3, <2>4 DEF LoopReads, oms, maker
<1>18. ASSUME LoopPushes PROVE LinkTypeOK'
  <2>1. PICK p \in Positions : Head(feed.read) = p
    BY <1>0, <1>18 DEF LoopPushes
  <2>2. slot' \in Slots
    BY <1>0, <1>18, <2>1, PushIs, PushKinds DEF LoopPushes
  <2> QED BY <1>0, <1>18, <2>2 DEF LoopPushes, oms, maker
<1> QED
  BY <1>1, <1>2, <1>3, <1>4, <1>5, <1>6, <1>7, <1>8, <1>9, <1>10, <1>11, <1>12, <1>13, <1>14, <1>15, <1>16,
     <1>17, <1>18, <1>19, <1>20, <1>21, <1>22, <1>23, <1>24 DEF LinkNext, KillWhenUnmonitored

LEMMA LinkStepsStep ==
  ASSUME LinkInv, LinkNext
  PROVE  StepsOK'
<1>0. LinkTypeOK /\ StepsOK
  BY DEF LinkInv
<1>1. ASSUME NEW m \in Pushes, Push(m) PROVE slot'.conn = slot.conn
  BY <1>0, <1>1, PushIs DEF LinkTypeOK
<1>2. CASE LinkConnect
  <2>1. asked.conns + 1 > 0 /\ link'.conn = slot'.conn /\ slot'.conn = asked.conns + 1
        /\ link'.msgs = <<>>
    BY <1>0, <1>2 DEF LinkConnect, LinkTypeOK
  <2> QED BY <1>0, <1>2, <2>1 DEF LinkConnect, StepsOK, oms, positions
<1>3. CASE SendState
  <2>1. link'.stated = TRUE /\ link'.open = link.open /\ link'.conn = link.conn
    BY <1>0, <1>3 DEF SendState, LinkTypeOK, Links
  <2> QED BY <1>0, <1>3, <2>1 DEF SendState, StepsOK, oms, positions
<1>4. CASE SendPush
  <2>1. link'.stated = TRUE /\ link'.open = link.open /\ link'.conn = link.conn /\ slot'.conn = slot.conn
    BY <1>0, <1>4 DEF SendPush, LinkTypeOK, Links, Slots
  <2> QED BY <1>0, <1>4, <2>1 DEF SendPush, StepsOK, oms, positions
<1>5. CASE LinkBreaks
  <2>1. link'.open = FALSE /\ link'.msgs = <<>> /\ link'.stated = link.stated
    BY <1>0, <1>5 DEF LinkBreaks, LinkTypeOK, Links
  <2> QED BY <1>0, <1>5, <2>1 DEF LinkBreaks, StepsOK, oms, positions
<1>6. CASE Disconnect
  BY <1>0, <1>6 DEF Disconnect, StepsOK, oms, positions
<1>7. CASE OnControl
  <2>1. /\ link'.open = link.open /\ link'.conn = link.conn /\ link'.stated = link.stated
        /\ link'.msgs = <<>> /\ slot'.conn = slot.conn
    BY <1>0, <1>7, OnControlIs DEF LinkTypeOK, Links
  <2> QED BY <1>0, <1>7, <2>1, OnControlIs DEF StepsOK, oms, positions
<1>8. CASE Timeout \/ GracePasses \/ WatchSwitch \/ Requote
  BY <1>0, <1>8 DEF Timeout, GracePasses, WatchSwitch, Requote, StepsOK, oms, positions
<1>9. CASE KillBegin
  <2>1. control'.pc = "set" /\ control = NoControl
    BY <1>9 DEF KillBegin, NoControl
  <2> QED BY <1>0, <1>1, <1>9, <2>1, PushKinds, ToldIs DEF KillBegin, StepsOK, NoControl, positions, LinkTypeOK
<1>10. CASE EnableBegin
  <2>1. control'.pc = "set" /\ control = NoControl
    BY <1>10 DEF EnableBegin, NoControl
  <2> QED BY <1>0, <1>10, <2>1 DEF EnableBegin, StepsOK, NoControl, positions
<1>11. CASE SetState
  <2>1. registry'.version = registry.version
        /\ registry'.state = (IF control.op = "kill" THEN "HALTED" ELSE "ACTIVE")
    BY <1>0, <1>11 DEF SetState, LinkTypeOK, RegistryRow
  <2>2. control'.op = control.op /\ control'.pc = "query"
    BY <1>0, <1>11 DEF SetState, LinkTypeOK, NoControl, Controls
  <2> QED BY <1>0, <1>11, <2>1, <2>2 DEF SetState, StepsOK, positions
<1>12. CASE SetFails
  BY <1>0, <1>12, ToldIs DEF SetFails, StepsOK, NoControl, positions, LinkTypeOK
<1>13. CASE ReloadReads
  <2>1. control' = [control EXCEPT !.pc = "store", !.row = Row] /\ control \in Controls
    BY <1>0, <1>13 DEF ReloadReads, LinkTypeOK, NoControl
  <2>2. control'.pc = "store" /\ control'.op = control.op /\ control'.row = Row
    BY <2>1 DEF Controls
  <2>3. Row \in ReadRow /\ Row.state = registry.state
    BY <1>0 DEF LinkTypeOK, RegistryRow, ReadRow, Row
  <2> QED BY <1>0, <1>13, <2>2, <2>3 DEF ReloadReads, StepsOK, positions
<1>14. CASE ReloadFails
  <2>1. behind' = behind \cup (Lacks(snapshot) \cap {"state"}) /\ control' = NoControl
    BY <1>14 DEF ReloadFails
  <2>2. snapshot["state"] = snapshot.state /\ registry["state"] = registry.state
    OBVIOUS
  <2>3. "state" \in behind' \/ registry.state = snapshot.state
    BY <2>1, <2>2 DEF Lacks
  <2>4. /\ link'.conn = link.conn /\ link'.open = link.open /\ link'.stated = link.stated /\ link'.msgs = link.msgs
    BY <1>0, <1>14, ToldIs DEF ReloadFails, LinkTypeOK
  <2> QED BY <1>0, <1>14, <2>1, <2>3, <2>4 DEF ReloadFails, StepsOK, NoControl, positions
<1>19. CASE Reload
  <2>1. slot'.conn = slot.conn
    BY <1>1, <1>19, PushKinds DEF Reload
  <2>2. control.row \in ReadRow /\ control.row.state = registry.state
    BY <1>0, <1>19 DEF Reload, StepsOK
  <2>3. /\ snapshot'.state = registry.state
        /\ "version" \in behind' \/ limits.pc \in {"written", "read"} \/ snapshot'.version = registry.version
    BY <1>0, <1>19, <2>2, ReplaceIs DEF Reload
  <2>4. /\ link'.conn = link.conn /\ link'.open = link.open /\ link'.stated = link.stated /\ link'.msgs = link.msgs
    BY <1>0, <1>19, ToldIs DEF Reload, LinkTypeOK
  <2> QED BY <1>0, <1>19, <2>1, <2>3, <2>4 DEF Reload, StepsOK, NoControl, positions
<1>20. CASE LimitsWrite
  <2>1. registry'.state = registry.state /\ limits'.pc = "written"
    BY <1>0, <1>20 DEF LimitsWrite, LinkTypeOK, RegistryRow, NoLimits
  <2> QED BY <1>0, <1>20, <2>1 DEF LimitsWrite, StepsOK, positions
<1>21. CASE LimitsRefused \/ LimitsReadFails
  <2>1. behind' = behind \cup (Lacks(snapshot) \cap {"version"}) /\ limits'.pc \in {"idle", "loaded"}
    BY <1>21 DEF LimitsRefused, LimitsReadFails, NoLimits
  <2>2. snapshot["version"] = snapshot.version /\ registry["version"] = registry.version
    OBVIOUS
  <2>3. "version" \in behind' \/ registry.version = snapshot.version
    BY <2>1, <2>2 DEF Lacks
  <2>4. /\ link'.conn = link.conn /\ link'.open = link.open /\ link'.stated = link.stated /\ link'.msgs = link.msgs
    BY <1>0, <1>21, ToldIs DEF LimitsRefused, LimitsReadFails, LinkTypeOK
  <2> QED BY <1>0, <1>21, <2>1, <2>3, <2>4 DEF LimitsRefused, LimitsReadFails, StepsOK, positions
<1>22. CASE LimitsRead
  <2>1. limits'.pc = "read" /\ limits'.row = Row /\ Row \in ReadRow /\ Row.version = registry.version
    BY <1>0, <1>22 DEF LimitsRead, LinkTypeOK, RegistryRow, ReadRow, Row
  <2> QED BY <1>0, <1>22, <2>1 DEF LimitsRead, StepsOK, positions
<1>24. CASE LimitsReload
  <2>1. limits.row \in ReadRow /\ limits.row.version = registry.version /\ limits'.pc = "loaded"
    BY <1>0, <1>24 DEF LimitsReload, StepsOK, NoLimits
  <2>2. /\ snapshot'.version = registry.version
        /\ "state" \in behind' \/ control.pc \in {"query", "store"} \/ snapshot'.state = registry.state
    BY <1>0, <1>24, <2>1, ReplaceIs DEF LimitsReload
  <2> QED BY <1>0, <1>24, <2>1, <2>2 DEF LimitsReload, StepsOK, positions
<1>15. CASE LimitsPush
  <2>1. [type |-> "limits", version |-> snapshot.version] \in Pushes
    BY <1>0, PushKinds DEF LinkTypeOK, RegistryRow
  <2>2. /\ link'.conn = link.conn /\ link'.open = link.open /\ link'.stated = link.stated /\ link'.msgs = link.msgs
    BY <1>0, <1>15, ToldIs DEF LimitsPush, LinkTypeOK
  <2> QED BY <1>0, <1>1, <1>15, <2>1, <2>2 DEF LimitsPush, StepsOK, NoLimits, positions
<1>16. CASE BookPosition
  <2>1. feed'.changes # 0
    BY <1>0, <1>16 DEF BookPosition, LinkTypeOK
  <2> QED BY <1>0, <1>16, <2>1 DEF BookPosition, StepsOK, oms
<1>17. CASE LoopReads
  <2>1. Head(feed'.read) \in {<<booked>>, Empty} /\ booked' = booked
    BY <1>17 DEF LoopReads
  <2> QED BY <1>0, <1>17, <2>1 DEF LoopReads, StepsOK, oms
<1>18. CASE LoopPushes
  <2>1. PICK p \in Positions : Head(feed.read) = p
    BY <1>0, <1>18 DEF LoopPushes, LinkTypeOK
  <2>2. feed'.read = <<>>
    BY <1>0, <1>18 DEF LoopPushes, LinkTypeOK
  <2> QED BY <1>0, <1>1, <1>18, <2>1, <2>2, PushKinds DEF LoopPushes, StepsOK, oms
<1> QED
  BY <1>2, <1>3, <1>4, <1>5, <1>6, <1>7, <1>8, <1>9, <1>10, <1>11, <1>12, <1>13, <1>14, <1>15, <1>16, <1>17, <1>18,
     <1>19, <1>20, <1>21, <1>22, <1>24 DEF LinkNext, KillWhenUnmonitored

\* A push the open connection gets is the last in its queue.
LEMMA PushAppends ==
  ASSUME LinkInv, NEW m \in Pushes, Push(m), link.open
  PROVE  slot.out \in Seq(Pushes) /\ slot'.out = Append(slot.out, m)
<1>1. slot \in Slots /\ slot.conn > 0
  BY DEF LinkInv, LinkTypeOK, StepsOK
<1> QED BY <1>1, PushIs DEF Slots

\* What leaves the queue is what the strategy reads next.
LEMMA SendPushIs ==
  ASSUME LinkInv, SendPush
  PROVE  /\ slot.out \in Seq(Pushes) /\ slot.out # <<>> /\ Head(slot.out) \in Pushes
         /\ link.msgs = <<>> /\ link.stated /\ slot'.out = Tail(slot.out)
         /\ link' = [link EXCEPT !.msgs = <<Head(slot.out)>>]
         /\ link'.msgs = <<Head(slot.out)>> /\ link'.open = link.open /\ link'.stated = link.stated
         /\ link'.untold = link.untold
<1>0. slot \in Slots /\ link \in Links
  BY DEF LinkInv, LinkTypeOK
<1>1. slot.out \in Seq(Pushes) /\ slot.out # <<>> /\ link.msgs = <<>> /\ link.stated
  BY <1>0 DEF SendPush, Slots
<1>2. Head(slot.out) \in Pushes /\ Append(link.msgs, Head(slot.out)) = <<Head(slot.out)>>
  BY <1>1
<1>3. slot' = [slot EXCEPT !.out = Tail(slot.out)] /\ link' = [link EXCEPT !.msgs = <<Head(slot.out)>>]
  BY <1>2 DEF SendPush
<1> QED BY <1>0, <1>1, <1>2, <1>3 DEF Slots, Links

\* The State that opens a connection.
LEMMA SendStateIs ==
  ASSUME LinkInv, SendState
  PROVE  /\ link.open /\ ~link.stated /\ link'.open = link.open /\ link'.stated = TRUE
         /\ link'.untold = link.untold \cup behind \cup (IF LiftsKill THEN {"state"} ELSE {})
         /\ link'.msgs # <<>> /\ Head(link'.msgs).type = "state"
         /\ Head(link'.msgs).active = (snapshot.state # "HALTED")
         /\ Head(link'.msgs).version = snapshot.version
         /\ Head(link'.msgs).position \in {<<booked>>, Empty}
<1> DEFINE u == link.untold \cup behind \cup (IF LiftsKill THEN {"state"} ELSE {})
<1>1. PICK list \in {<<booked>>, Empty} :
        link' = [link EXCEPT !.stated = TRUE, !.untold = u,
              !.msgs = <<[type |-> "state", active |-> snapshot.state # "HALTED",
                          version |-> snapshot.version, position |-> list]>>]
  BY DEF SendState
<1>2. link \in Links /\ link.open /\ ~link.stated
  BY DEF LinkInv, LinkTypeOK, SendState
<1>3. PICK m : m = [type |-> "state", active |-> snapshot.state # "HALTED", version |-> snapshot.version, position |-> list]
  OBVIOUS
<1>4. m.type = "state" /\ m.active = (snapshot.state # "HALTED") /\ m.version = snapshot.version /\ m.position = list
  BY <1>3
<1> HIDE DEF u
<1>5. link' = [link EXCEPT !.stated = TRUE, !.untold = u, !.msgs = <<m>>]
  BY <1>1, <1>3
<1>6. link'.msgs = <<m>> /\ link'.open = link.open /\ link'.stated = TRUE /\ link'.untold = u
  BY <1>2, <1>5 DEF Links
<1> QED BY <1>2, <1>4, <1>6 DEF u

\* The steps that neither push nor read a message, and what they leave alone.
Quiet == LinkBreaks \/ Disconnect \/ Timeout \/ GracePasses \/ WatchSwitch \/ Requote \/ EnableBegin \/ SetState
         \/ ReloadReads \/ LimitsWrite \/ LimitsRead \/ LimitsReadFails \/ LimitsReload \/ BookPosition \/ LoopReads

\* A request that fails, and what it leaves untold.
Fails == SetFails \/ ReloadFails \/ LimitsRefused

LEMMA FailsIs ==
  ASSUME LinkInv, Fails
  PROVE  /\ UNCHANGED <<registry, snapshot, slot, graced, positions, maker>>
         /\ link'.open = link.open /\ link'.stated = link.stated /\ link'.msgs = link.msgs
         /\ link.untold \subseteq link'.untold
         /\ LimitsRefused => "version" \in link'.untold /\ UNCHANGED control
         /\ ~LimitsRefused => UNCHANGED limits /\ control' = NoControl
         /\ ReloadFails /\ control.op = "enable" => "state" \in link'.untold
         /\ SetFails /\ control.op = "kill" /\ registry.state # "HALTED" => "state" \in link'.untold
<1>0. link \in Links
  BY DEF LinkInv, LinkTypeOK
<1>1. CASE SetFails
  BY <1>0, <1>1, ToldIs DEF SetFails, ReloadFails, LimitsRefused
<1>2. CASE ReloadFails
  BY <1>0, <1>2, ToldIs DEF SetFails, ReloadFails, LimitsRefused
<1>3. CASE LimitsRefused
  BY <1>0, <1>3, ToldIs DEF SetFails, ReloadFails, LimitsRefused
<1> QED BY <1>1, <1>2, <1>3 DEF Fails

LEMMA QuietIs ==
  ASSUME LinkInv, Quiet
  PROVE  \/ ~link'.open
         \/ /\ UNCHANGED <<slot, link, book>> /\ link.open
            /\ dead'.active = dead.active /\ dead'.killed = dead.killed
<1>0. link \in Links /\ dead \in [active : BOOLEAN, killed : BOOLEAN, late : BOOLEAN]
  BY DEF LinkInv, LinkTypeOK
<1>1. CASE LinkBreaks \/ Disconnect \/ Timeout
  BY <1>0, <1>1 DEF LinkBreaks, Disconnect, Timeout, Links
<1>2. CASE GracePasses \/ WatchSwitch \/ Requote \/ EnableBegin \/ SetState
  BY <1>0, <1>2 DEF GracePasses, WatchSwitch, Requote, EnableBegin, SetState, maker
<1>3. CASE LimitsWrite \/ LimitsRead \/ LimitsReadFails \/ LimitsReload
  BY <1>0, <1>3 DEF LimitsWrite, LimitsRead, LimitsReadFails, LimitsReload, maker
<1>4. CASE ReloadReads \/ BookPosition \/ LoopReads
  BY <1>0, <1>4 DEF ReloadReads, BookPosition, LoopReads, maker
<1> QED BY <1>1, <1>2, <1>3, <1>4 DEF Quiet

LEMMA LinkNextCases ==
  ASSUME LinkNext
  PROVE  LinkConnect \/ SendState \/ SendPush \/ OnControl \/ KillBegin \/ Reload \/ LimitsPush \/ LoopPushes \/ Fails
         \/ Quiet
  BY DEF LinkNext, KillWhenUnmonitored, Quiet, Fails

LEMMA VersionStep ==
  ASSUME LinkInv, LinkNext
  PROVE  VersionArrives'
<1> DEFINE B == {"limits"}
           M(v) == {[type |-> "limits", version |-> v]}
           D == IF link.stated THEN VersionNext ELSE registry.version
           Heard == link.open /\ limits = NoLimits /\ "version" \notin link.untold
<1>0. LinkTypeOK /\ StepsOK /\ LinkTypeOK' /\ (link.open => slot.out \in Seq(Pushes))
  BY LinkTypeStep DEF LinkInv, LinkTypeOK, Slots
<1>1. Heard => Ends(slot.out, B, M(registry.version), D, {registry.version})
  BY DEF LinkInv, VersionArrives
<1>2. CASE LinkConnect
  <2>1. slot'.out = <<>> /\ link'.stated = FALSE
    BY <1>2 DEF LinkConnect
  <2> QED BY <2>1, EndsEmpty DEF VersionArrives
<1>3. CASE SendState
  <2>1. UNCHANGED <<registry, limits, slot>> /\ link'.stated = TRUE
        /\ VersionNext' = snapshot.version
    BY <1>3, SendStateIs DEF SendState, oms, VersionNext
  <2>2. link'.open = link.open /\ (link.untold \cup behind) \subseteq link'.untold
    BY <1>3, SendStateIs
  <2>3. limits = NoLimits /\ "version" \notin link'.untold => Heard \/ ~link.open
    BY <2>2
  <2>4. limits = NoLimits /\ "version" \notin link'.untold => snapshot.version = registry.version
    BY <1>0, <2>2 DEF StepsOK, NoLimits
  <2> HIDE DEF VersionNext, M, B, D
  <2>5. ASSUME link.open, limits = NoLimits, "version" \notin link'.untold
        PROVE  Ends(slot.out, B, M(registry.version), snapshot.version, {registry.version})
    <3>1. Ends(slot.out, B, M(registry.version), D, {registry.version}) /\ snapshot.version \in {registry.version}
      BY <1>1, <2>3, <2>4, <2>5
    <3> QED BY <3>1, EndsDefault
  <2> QED BY <2>1, <2>2, <2>5 DEF VersionArrives, M, B
<1>4. CASE SendPush
  <2> DEFINE q == slot.out
  <2>1. UNCHANGED <<registry, limits, book>>
    BY <1>4 DEF SendPush, oms, maker
  <2>2. VersionNext = book.version
        /\ VersionNext' = (IF Head(q).type \in {"state", "limits"} THEN Head(q).version ELSE book.version)
    BY <1>4, <2>1, SendPushIs DEF VersionNext
  <2>3. Head(q).type # "state"
    BY <1>4, SendPushIs DEF Pushes
  <2>4. Head(q) \in M(registry.version) => VersionNext' \in {registry.version}
    BY <2>2
  <2>5. Head(q).type \notin B => VersionNext' = VersionNext
    BY <2>2, <2>3
  <2>6. link'.stated = TRUE /\ link.stated /\ slot'.out = Tail(q)
    BY <1>4, SendPushIs
  <2> HIDE DEF VersionNext, M, B
  <2>7. ASSUME Heard
        PROVE  Ends(Tail(q), B, M(registry.version), VersionNext', {registry.version})
    <3>1. Ends(q, B, M(registry.version), VersionNext, {registry.version})
      BY <1>1, <2>6, <2>7
    <3>2. q \in Seq(Pushes) /\ q # <<>>
      BY <1>4, SendPushIs
    <3> QED BY <2>4, <2>5, <3>1, <3>2, EndsTail
  <2> QED BY <1>4, <2>1, <2>6, <2>7, SendPushIs DEF VersionArrives, M, B
<1>5. CASE OnControl
  <2>1. /\ VersionNext' = VersionNext /\ UNCHANGED <<registry, limits>> /\ slot'.out = slot.out
        /\ link'.open = link.open /\ link'.stated = link.stated /\ link'.untold = link.untold
    <3>1. link'.msgs = <<>> /\ book'.version = VersionNext
          /\ link'.open = link.open /\ link'.stated = link.stated /\ link'.untold = link.untold
      BY <1>0, <1>5, OnControlIs DEF LinkTypeOK, Links
    <3> QED BY <1>5, <3>1, OnControlIs DEF VersionNext, oms
  <2> QED BY <1>1, <2>1 DEF VersionArrives
<1>6. ASSUME NEW m \in Pushes, Push(m), m.type \notin B, UNCHANGED <<registry, limits, book>>,
             link'.open = link.open, link'.stated = link.stated, link'.msgs = link.msgs,
             "version" \in link'.untold <=> "version" \in link.untold
      PROVE  VersionArrives'
  <2>1. VersionNext' = VersionNext
    BY <1>6 DEF VersionNext
  <2> HIDE DEF VersionNext
  <2>2. ASSUME Heard
        PROVE  Ends(slot'.out, B, M(registry.version), D, {registry.version})
    <3>1. slot'.out = Append(slot.out, m)
      BY <1>6, <2>2, PushAppends
    <3> HIDE DEF M, B, D
    <3> QED BY <1>0, <1>1, <1>6, <2>2, <3>1, EndsAppendOther
  <2> QED BY <1>6, <2>1, <2>2 DEF VersionArrives
<1>7. CASE KillBegin
  <2>1. /\ UNCHANGED <<registry, limits, book>>
        /\ link'.open = link.open /\ link'.stated = link.stated /\ link'.msgs = link.msgs
        /\ "version" \in link'.untold <=> "version" \in link.untold
    BY <1>0, <1>7, ToldIs DEF KillBegin, maker, LinkTypeOK
  <2> QED BY <1>6, <1>7, <2>1, PushKinds DEF KillBegin
<1>8. CASE Reload
  <2>1. /\ UNCHANGED <<registry, limits, book>>
        /\ link'.open = link.open /\ link'.stated = link.stated /\ link'.msgs = link.msgs
        /\ "version" \in link'.untold <=> "version" \in link.untold
    BY <1>0, <1>8, ToldIs DEF Reload, maker, LinkTypeOK
  <2>2. CASE control.op = "kill"
    <3>1. UNCHANGED slot
      BY <1>8, <2>2 DEF Reload
    <3>2. VersionNext' = VersionNext
      BY <2>1 DEF VersionNext
    <3> QED BY <1>1, <2>1, <3>1, <3>2 DEF VersionArrives
  <2>3. CASE control.op # "kill"
    BY <1>6, <1>8, <2>1, <2>3, PushKinds DEF Reload
  <2> QED BY <2>2, <2>3
<1>9. CASE LimitsPush
  <2> DEFINE m == [type |-> "limits", version |-> snapshot.version]
  <2>0. link'.open = link.open /\ UNCHANGED registry /\ ("version" \in behind => "version" \in link'.untold)
    BY <1>0, <1>9, ToldIs DEF LimitsPush, LinkTypeOK
  <2>1. m \in Pushes /\ ("version" \notin behind => m \in M(registry.version))
    BY <1>0, <1>9, PushKinds DEF LimitsPush, StepsOK, LinkTypeOK, RegistryRow
  <2>2. ASSUME link.open PROVE slot'.out = Append(slot.out, m)
    BY <1>9, <2>1, <2>2, PushAppends DEF LimitsPush
  <2> HIDE DEF m, M, B
  <2>3. ASSUME link.open, "version" \notin behind
        PROVE  \A d : Ends(slot'.out, B, M(registry.version), d, {registry.version})
    BY <1>0, <2>1, <2>2, <2>3, EndsAppendGood
  <2> QED BY <2>0, <2>3 DEF VersionArrives, M, B
<1>10. CASE LoopPushes
  <2>1. PICK p \in Positions : Head(feed.read) = p
    BY <1>0, <1>10 DEF LoopPushes, LinkTypeOK
  <2>2. [type |-> "positions", position |-> p] \in Pushes
    BY PushKinds
  <2> QED BY <1>6, <1>10, <2>1, <2>2 DEF LoopPushes, oms, maker
<1>11. CASE Quiet
  <2>1. ASSUME link'.open PROVE UNCHANGED <<slot, link, book>> /\ link.open
    BY <1>11, <2>1, QuietIs
  <2>2. ASSUME limits' = NoLimits PROVE registry'.version = registry.version /\ limits = NoLimits
    <3>1. CASE LimitsWrite \/ LimitsRead \/ LimitsReadFails \/ LimitsReload
      BY <2>2, <3>1 DEF LimitsWrite, LimitsRead, LimitsReadFails, LimitsReload, NoLimits
    <3>2. CASE SetState
      BY <1>0, <2>2, <3>2 DEF SetState, LinkTypeOK, RegistryRow
    <3>3. CASE ~(LimitsWrite \/ LimitsRead \/ LimitsReadFails \/ LimitsReload \/ SetState)
      BY <1>11, <2>2, <3>3 DEF Quiet, LinkBreaks, Disconnect, Timeout, GracePasses, WatchSwitch, Requote, EnableBegin,
         ReloadReads, BookPosition, LoopReads, oms
    <3> QED BY <3>1, <3>2, <3>3
  <2> QED BY <1>1, <2>1, <2>2 DEF VersionArrives, VersionNext
<1>12. CASE Fails
  <2>1. /\ UNCHANGED <<registry, slot, book>> /\ link'.open = link.open /\ link'.stated = link.stated
        /\ link'.msgs = link.msgs
    BY <1>12, FailsIs DEF maker
  <2>2. "version" \notin link'.untold => "version" \notin link.untold /\ UNCHANGED limits
    BY <1>12, FailsIs
  <2> QED BY <1>1, <2>1, <2>2 DEF VersionArrives, VersionNext
<1> QED
  BY <1>2, <1>3, <1>4, <1>5, <1>7, <1>8, <1>9, <1>10, <1>11, <1>12, LinkNextCases

LEMMA PositionStep ==
  ASSUME LinkInv, LinkNext
  PROVE  PositionArrives'
<1> DEFINE B == {"positions"}
           G == {<<booked>>, Empty}
           M == {[type |-> "positions", position |-> p] : p \in {<<booked>>, Empty}}
           D == IF link.stated THEN PositionNext ELSE Empty
           Heard == link.open /\ feed.changes = 0 /\ feed.read = <<>>
<1>0. LinkTypeOK /\ StepsOK /\ LinkTypeOK' /\ (link.open => slot.out \in Seq(Pushes))
  BY LinkTypeStep DEF LinkInv, LinkTypeOK, Slots
<1>1. Heard => Ends(slot.out, B, M, D, G)
  BY DEF LinkInv, PositionArrives
<1>2. CASE LinkConnect
  <2>1. slot'.out = <<>> /\ link'.stated = FALSE
    BY <1>2 DEF LinkConnect
  <2> QED BY <2>1, EndsEmpty DEF PositionArrives
<1>3. CASE SendState
  <2>1. UNCHANGED <<booked, feed, slot>> /\ link'.stated = TRUE /\ PositionNext' \in G /\ link'.open = link.open
    BY <1>3, SendStateIs DEF SendState, positions, PositionNext
  <2> HIDE DEF PositionNext, M, B, D, G
  <2>2. ASSUME Heard PROVE Ends(slot.out, B, M, PositionNext', G)
    BY <1>1, <2>1, <2>2, EndsDefault
  <2> QED BY <2>1, <2>2 DEF PositionArrives, M, B, G
<1>4. CASE SendPush
  <2> DEFINE q == slot.out
  <2>1. UNCHANGED <<booked, feed, book>>
    BY <1>4 DEF SendPush, positions, maker
  <2>2. PositionNext = book.position
        /\ PositionNext' = (IF Head(q).type \in {"state", "positions"} THEN Head(q).position ELSE book.position)
    BY <1>4, <2>1, SendPushIs DEF PositionNext
  <2>3. Head(q).type # "state"
    BY <1>4, SendPushIs DEF Pushes
  <2>4. Head(q) \in M => PositionNext' \in G
    BY <2>2
  <2>5. Head(q).type \notin B => PositionNext' = PositionNext
    BY <2>2, <2>3
  <2>6. link'.stated = TRUE /\ link.stated /\ slot'.out = Tail(q) /\ q \in Seq(Pushes) /\ q # <<>> /\ link'.open = link.open
    BY <1>4, SendPushIs
  <2> HIDE DEF PositionNext, M, B, G
  <2>7. ASSUME Heard
        PROVE  Ends(Tail(q), B, M, PositionNext', G)
    <3>1. Ends(q, B, M, PositionNext, G)
      BY <1>1, <2>6, <2>7
    <3> QED BY <2>4, <2>5, <2>6, <3>1, EndsTail
  <2> QED BY <2>1, <2>6, <2>7 DEF PositionArrives, M, B, G
<1>5. CASE OnControl
  <2>1. /\ PositionNext' = PositionNext /\ UNCHANGED <<booked, feed>> /\ slot'.out = slot.out
        /\ link'.open = link.open /\ link'.stated = link.stated
    <3>1. link'.msgs = <<>> /\ book'.position = PositionNext
          /\ link'.open = link.open /\ link'.stated = link.stated
      BY <1>0, <1>5, OnControlIs DEF LinkTypeOK, Links
    <3> QED BY <1>5, <3>1, OnControlIs DEF PositionNext, positions
  <2> QED BY <1>1, <2>1 DEF PositionArrives
<1>6. ASSUME NEW m \in Pushes, Push(m), m.type \notin B, UNCHANGED <<booked, feed, book>>,
             link'.open = link.open, link'.stated = link.stated, link'.msgs = link.msgs
      PROVE  PositionArrives'
  <2>1. PositionNext' = PositionNext
    BY <1>6 DEF PositionNext
  <2> HIDE DEF PositionNext
  <2>2. ASSUME Heard
        PROVE  Ends(slot'.out, B, M, D, G)
    <3>1. slot'.out = Append(slot.out, m)
      BY <1>6, <2>2, PushAppends
    <3> HIDE DEF M, B, D, G
    <3> QED BY <1>0, <1>1, <1>6, <2>2, <3>1, EndsAppendOther
  <2> QED BY <1>6, <2>1, <2>2 DEF PositionArrives
<1>7. CASE KillBegin
  <2>1. /\ UNCHANGED <<booked, feed, book>>
        /\ link'.open = link.open /\ link'.stated = link.stated /\ link'.msgs = link.msgs
    BY <1>0, <1>7, ToldIs DEF KillBegin, maker, positions, LinkTypeOK
  <2> QED BY <1>6, <1>7, <2>1, PushKinds DEF KillBegin
<1>8. CASE Reload
  <2>1. /\ UNCHANGED <<booked, feed, book>>
        /\ link'.open = link.open /\ link'.stated = link.stated /\ link'.msgs = link.msgs
    BY <1>0, <1>8, ToldIs DEF Reload, maker, positions, LinkTypeOK
  <2>2. CASE control.op = "kill"
    <3>1. UNCHANGED slot
      BY <1>8, <2>2 DEF Reload
    <3>2. PositionNext' = PositionNext
      BY <2>1 DEF PositionNext
    <3> QED BY <1>1, <2>1, <3>1, <3>2 DEF PositionArrives
  <2>3. CASE control.op # "kill"
    BY <1>6, <1>8, <2>1, <2>3, PushKinds DEF Reload
  <2> QED BY <2>2, <2>3
<1>9. CASE LimitsPush
  <2>1. PICK v \in Nat : snapshot.version = v
    BY <1>0 DEF LinkTypeOK, RegistryRow
  <2>2. [type |-> "limits", version |-> v] \in Pushes
    BY PushKinds
  <2>3. /\ UNCHANGED <<booked, feed, book>>
        /\ link'.open = link.open /\ link'.stated = link.stated /\ link'.msgs = link.msgs
    BY <1>0, <1>9, ToldIs DEF LimitsPush, maker, positions, LinkTypeOK
  <2> QED BY <1>6, <1>9, <2>1, <2>2, <2>3 DEF LimitsPush
<1>10. CASE LoopPushes
  <2>1. PICK p \in Positions : Head(feed.read) = p
    BY <1>0, <1>10 DEF LoopPushes, LinkTypeOK
  <2>2. PICK m \in Pushes : m = [type |-> "positions", position |-> p]
    BY PushKinds
  <2>3. Push(m) /\ UNCHANGED <<booked, link>> /\ feed'.changes = feed.changes
    BY <1>0, <1>10, <2>1, <2>2 DEF LoopPushes, LinkTypeOK
  <2>4. feed.changes = 0 => p \in G
    BY <1>0, <1>10, <2>1 DEF LoopPushes, StepsOK
  <2>5. feed.changes = 0 => m \in M
    BY <2>2, <2>4
  <2>6. ASSUME link.open PROVE slot'.out = Append(slot.out, m)
    BY <2>3, <2>6, PushAppends
  <2> HIDE DEF M, B, G
  <2>7. ASSUME link.open, feed.changes = 0
        PROVE  \A d : Ends(slot'.out, B, M, d, G)
    BY <1>0, <2>5, <2>6, <2>7, EndsAppendGood
  <2> QED BY <2>3, <2>7 DEF PositionArrives, M, B, G
<1>11. CASE Quiet
  <2>1. ASSUME link'.open PROVE UNCHANGED <<slot, link, book>> /\ link.open
    BY <1>11, <2>1, QuietIs
  <2>2. CASE BookPosition
    <3>1. feed'.changes # 0
      BY <1>0, <2>2 DEF BookPosition, LinkTypeOK
    <3> QED BY <3>1 DEF PositionArrives
  <2>3. CASE LoopReads
    <3>1. feed'.read # <<>>
      BY <2>3 DEF LoopReads
    <3> QED BY <3>1 DEF PositionArrives
  <2>4. CASE ~BookPosition /\ ~LoopReads
    <3>1. UNCHANGED <<booked, feed>>
      BY <1>11, <2>4 DEF Quiet, LinkBreaks, Disconnect, Timeout, GracePasses, WatchSwitch, Requote, EnableBegin,
         SetState, ReloadReads, LimitsWrite, LimitsRead, LimitsReadFails, LimitsReload, positions
    <3> QED BY <1>1, <2>1, <3>1 DEF PositionArrives, PositionNext
  <2> QED BY <2>2, <2>3, <2>4
<1>12. CASE Fails
  <2>1. /\ UNCHANGED <<booked, feed, slot, book>> /\ link'.open = link.open /\ link'.stated = link.stated
        /\ link'.msgs = link.msgs
    BY <1>12, FailsIs DEF maker, positions
  <2> QED BY <1>1, <2>1 DEF PositionArrives, PositionNext
<1> QED
  BY <1>2, <1>3, <1>4, <1>5, <1>7, <1>8, <1>9, <1>10, <1>11, <1>12, LinkNextCases

LEMMA StateStep ==
  ASSUME LinkInv, LinkNext
  PROVE  StateArrives'
<1> DEFINE B == {"kill", "resume"}
           M(t) == {[type |-> IF t = "HALTED" THEN "kill" ELSE "resume"]}
           D == IF link.stated THEN StateNext ELSE Target
           Heard == link.open /\ ~Enabling /\ "state" \notin link.untold
<1>0. LinkTypeOK /\ StepsOK /\ LinkTypeOK' /\ (link.open => slot.out \in Seq(Pushes))
  BY LinkTypeStep DEF LinkInv, LinkTypeOK, Slots
<1>1. Heard => Ends(slot.out, B, M(Target), D, {Target})
  BY DEF LinkInv, StateArrives
<1>2. CASE LinkConnect
  <2>1. slot'.out = <<>> /\ link'.stated = FALSE
    BY <1>2 DEF LinkConnect
  <2> QED BY <2>1, EndsEmpty DEF StateArrives
<1>3. CASE SendState
  <2>1. UNCHANGED <<registry, control, slot>> /\ link'.stated = TRUE /\ link'.open = link.open
        /\ Target' = Target
    BY <1>3, SendStateIs DEF SendState, oms, Target
  <2>2. link.open /\ (link.untold \cup behind) \subseteq link'.untold /\ (LiftsKill => "state" \in link'.untold)
        /\ Enabling' = Enabling
    BY <1>3, SendStateIs DEF SendState, oms, Enabling
  <2>3. ASSUME ~Enabling, "state" \notin link'.untold
        PROVE  Heard /\ StateNext' \in {Target}
    <3>1. Target = snapshot.state /\ snapshot.state \in {"ACTIVE", "HALTED"}
      <4>1. CASE control.op = "kill"
        BY <1>0, <2>2, <2>3, <4>1 DEF LiftsKill, Target, LinkTypeOK, RegistryRow
      <4>2. CASE control.op # "kill"
        <5>1. control.pc \notin {"query", "store"}
          BY <1>0, <2>3, <4>2 DEF Enabling, LinkTypeOK, NoControl, Controls
        <5> QED BY <1>0, <2>2, <2>3, <4>2, <5>1 DEF StepsOK, Target, LinkTypeOK, RegistryRow
      <4> QED BY <4>1, <4>2
    <3>2. KilledNext' = (snapshot.state = "HALTED")
      <4>1. CASE snapshot.state = "HALTED"
        BY <1>3, <4>1, SendStateIs DEF KilledNext
      <4>2. CASE snapshot.state # "HALTED"
        BY <1>3, <4>2, SendStateIs DEF KilledNext
      <4> QED BY <4>1, <4>2
    <3>3. StateNext' = snapshot.state
      BY <3>1, <3>2 DEF StateNext
    <3> QED BY <2>2, <2>3, <3>1, <3>3
  <2> HIDE DEF StateNext, M, B, D, Target
  <2>4. ASSUME ~Enabling, "state" \notin link'.untold
        PROVE  Ends(slot.out, B, M(Target), StateNext', {Target})
    BY <1>1, <2>3, <2>4, EndsDefault
  <2> QED BY <2>1, <2>2, <2>4 DEF StateArrives, M, B
<1>4. CASE SendPush
  <2> DEFINE q == slot.out
  <2>1. UNCHANGED <<registry, control, dead>> /\ Target' = Target /\ Enabling' = Enabling
    BY <1>4 DEF SendPush, oms, maker, Target, Enabling
  <2>2. KilledNext = dead.killed
        /\ KilledNext' = (IF Head(q).type \in {"kill", "resume"} THEN Head(q).type = "kill" ELSE dead.killed)
    <3>0. Head(q) \in Pushes /\ link.msgs = <<>> /\ link'.msgs = <<Head(q)>>
      BY <1>4, SendPushIs
    <3>1. Head(q).type # "state" /\ link.msgs = <<>> /\ link'.msgs # <<>> /\ Head(link'.msgs) = Head(q)
      BY <3>0 DEF Pushes
    <3>2. KilledNext = dead.killed
      BY <3>1 DEF KilledNext
    <3>3. CASE Head(q).type = "kill"
      BY <3>1, <3>2, <3>3 DEF KilledNext
    <3>4. CASE Head(q).type # "kill"
      BY <2>1, <3>1, <3>2, <3>4 DEF KilledNext
    <3> QED BY <3>3, <3>4
  <2>3. Head(q) \in M(Target) => Head(q).type = IF Target = "HALTED" THEN "kill" ELSE "resume"
    OBVIOUS
  <2>4. Head(q) \in M(Target) => StateNext' \in {Target}
    <3>1. Target \in {"ACTIVE", "HALTED"}
      BY <1>0 DEF Target, LinkTypeOK, RegistryRow
    <3> QED BY <2>2, <2>3, <3>1 DEF StateNext
  <2>5. Head(q).type \notin B => StateNext' = StateNext
    BY <2>2 DEF StateNext
  <2>6. link'.stated = TRUE /\ link.stated /\ slot'.out = Tail(q) /\ q \in Seq(Pushes) /\ q # <<>>
        /\ link'.open = link.open /\ link'.untold = link.untold
    BY <1>4, SendPushIs
  <2> HIDE DEF StateNext, Target, M, B
  <2>7. ASSUME Heard
        PROVE  Ends(Tail(q), B, M(Target), StateNext', {Target})
    <3>1. Ends(q, B, M(Target), StateNext, {Target})
      BY <1>1, <2>6, <2>7
    <3> QED BY <2>4, <2>5, <2>6, <3>1, EndsTail
  <2> QED BY <2>1, <2>6, <2>7 DEF StateArrives, M, B
<1>5. CASE OnControl
  <2>1. /\ StateNext' = StateNext /\ UNCHANGED <<registry, control>> /\ slot'.out = slot.out
        /\ link'.open = link.open /\ link'.stated = link.stated /\ link'.untold = link.untold
    <3>1. link'.msgs = <<>> /\ (dead'.killed <=> KilledNext)
          /\ link'.open = link.open /\ link'.stated = link.stated /\ link'.untold = link.untold
      BY <1>0, <1>5, OnControlIs DEF LinkTypeOK, Links
    <3>2. KilledNext' = dead'.killed
      BY <3>1 DEF KilledNext
    <3>3. StateNext' = StateNext
      BY <3>1, <3>2 DEF StateNext
    <3> QED BY <1>5, <3>1, <3>3, OnControlIs DEF oms
  <2> QED BY <1>1, <2>1 DEF StateArrives, Target, Enabling
<1>6. ASSUME NEW m \in Pushes, Push(m), m.type \notin B, UNCHANGED <<registry, control, dead>>,
             link'.open = link.open, link'.stated = link.stated, link'.msgs = link.msgs,
             "state" \in link'.untold <=> "state" \in link.untold
      PROVE  StateArrives'
  <2>1. StateNext' = StateNext /\ Target' = Target /\ Enabling' = Enabling
    BY <1>6 DEF StateNext, KilledNext, Target, Enabling
  <2> HIDE DEF StateNext, Target
  <2>2. ASSUME Heard
        PROVE  Ends(slot'.out, B, M(Target), D, {Target})
    <3>1. slot'.out = Append(slot.out, m)
      BY <1>6, <2>2, PushAppends
    <3> HIDE DEF M, B, D
    <3> QED BY <1>0, <1>1, <1>6, <2>2, <3>1, EndsAppendOther
  <2> QED BY <1>6, <2>1, <2>2 DEF StateArrives
<1>7. ASSUME NEW m \in Pushes, Push(m), m \in M(Target'), link'.open = link.open
      PROVE  StateArrives'
  <2>1. ASSUME link.open PROVE slot'.out = Append(slot.out, m)
    BY <1>7, <2>1, PushAppends
  <2> HIDE DEF M, B, Target
  <2>2. ASSUME link.open
        PROVE  \A d : Ends(slot'.out, B, M(Target'), d, {Target'})
    BY <1>0, <1>7, <2>1, <2>2, EndsAppendGood
  <2> QED BY <1>7, <2>2 DEF StateArrives, M, B
<1>8. CASE KillBegin
  <2>1. Target' = "HALTED"
    BY <1>8 DEF KillBegin, Target, NoControl
  <2>2. link'.open = link.open
    BY <1>0, <1>8, ToldIs DEF KillBegin, LinkTypeOK
  <2> QED BY <1>7, <1>8, <2>1, <2>2, PushKinds DEF KillBegin
<1>9. CASE Reload
  <2>1. /\ UNCHANGED <<registry, dead>> /\ Target' = registry.state /\ control'.op = "none"
        /\ link'.open = link.open /\ link'.stated = link.stated /\ link'.msgs = link.msgs
    BY <1>0, <1>9, ToldIs DEF Reload, maker, Target, NoControl, LinkTypeOK
  <2>2. CASE control.op = "kill"
    <3>1. UNCHANGED <<slot, link>> /\ Target = "HALTED" /\ Target' = Target /\ ~Enabling
      BY <1>0, <1>9, <2>1, <2>2 DEF Reload, Target, StepsOK, Enabling
    <3>2. StateNext' = StateNext
      BY <2>1 DEF StateNext, KilledNext
    <3> QED BY <1>1, <2>1, <2>2, <3>1, <3>2 DEF StateArrives
  <2>3. CASE control.op # "kill"
    <3>1. Target' = "ACTIVE"
      BY <1>0, <1>9, <2>1, <2>3 DEF Reload, StepsOK
    <3> QED BY <1>7, <1>9, <2>1, <2>3, <3>1, PushKinds DEF Reload
  <2> QED BY <2>2, <2>3
<1>10. CASE LimitsPush
  <2>1. PICK v \in Nat : snapshot.version = v
    BY <1>0 DEF LinkTypeOK, RegistryRow
  <2>2. [type |-> "limits", version |-> v] \in Pushes
    BY PushKinds
  <2>3. /\ UNCHANGED <<registry, control, dead>>
        /\ link'.open = link.open /\ link'.stated = link.stated /\ link'.msgs = link.msgs
        /\ "state" \in link'.untold <=> "state" \in link.untold
    BY <1>0, <1>10, ToldIs DEF LimitsPush, maker, LinkTypeOK
  <2> QED BY <1>6, <1>10, <2>1, <2>2, <2>3 DEF LimitsPush
<1>11. CASE LoopPushes
  <2>1. PICK p \in Positions : Head(feed.read) = p
    BY <1>0, <1>11 DEF LoopPushes, LinkTypeOK
  <2>2. [type |-> "positions", position |-> p] \in Pushes
    BY PushKinds
  <2> QED BY <1>6, <1>11, <2>1, <2>2 DEF LoopPushes, oms, maker
<1>12. CASE Quiet
  <2>1. ASSUME link'.open PROVE UNCHANGED <<slot, link>> /\ dead'.killed = dead.killed /\ link.open
    BY <1>12, <2>1, QuietIs
  <2>2. ASSUME ~Enabling' PROVE ~Enabling /\ Target' = Target
    <3>1. CASE SetState
      <4>1. control'.op = control.op /\ control'.pc = "query" /\ control.pc = "set"
        BY <1>0, <3>1 DEF SetState, LinkTypeOK, NoControl, Controls
      <4>2. control.op = "kill"
        BY <1>0, <2>2, <3>1, <4>1 DEF SetState, LinkTypeOK, NoControl, Controls, Enabling
      <4> QED BY <4>1, <4>2 DEF Target, Enabling
    <3>2. CASE LimitsWrite
      <4>1. registry'.state = registry.state /\ control' = control
        BY <1>0, <3>2 DEF LimitsWrite, LinkTypeOK, RegistryRow
      <4> QED BY <2>2, <4>1 DEF Target, Enabling
    <3>3. CASE EnableBegin
      <4>1. control = NoControl /\ control'.op = "enable" /\ UNCHANGED registry
        BY <3>3 DEF EnableBegin, NoControl
      <4> QED BY <4>1 DEF Target, Enabling, NoControl
    <3>4. CASE ReloadReads
      <4>1. control'.op = control.op /\ control'.pc = "store" /\ control.pc = "query" /\ UNCHANGED registry
        BY <1>0, <3>4 DEF ReloadReads, LinkTypeOK, NoControl, Controls
      <4> QED BY <2>2, <4>1 DEF Target, Enabling
    <3>5. CASE ~(SetState \/ LimitsWrite \/ EnableBegin \/ ReloadReads)
      <4>1. UNCHANGED <<registry, control>>
        BY <1>12, <3>5 DEF Quiet, LinkBreaks, Disconnect, Timeout, GracePasses, WatchSwitch, Requote,
           LimitsRead, LimitsReadFails, LimitsReload, BookPosition, LoopReads, oms
      <4> QED BY <2>2, <4>1 DEF Target, Enabling
    <3> QED BY <3>1, <3>2, <3>3, <3>4, <3>5
  <2> QED BY <1>1, <2>1, <2>2 DEF StateArrives, StateNext, KilledNext
<1>13. CASE Fails
  <2>1. /\ UNCHANGED <<registry, slot, dead>> /\ link'.open = link.open /\ link'.stated = link.stated
        /\ link'.msgs = link.msgs /\ link.untold \subseteq link'.untold
    BY <1>13, FailsIs DEF maker
  <2>2. ASSUME ~Enabling', "state" \notin link'.untold PROVE ~Enabling /\ Target' = Target
    <3>1. CASE LimitsRefused
      BY <1>13, <2>1, <2>2, <3>1, FailsIs DEF Target, Enabling
    <3>2. CASE SetFails
      <4>1. control' = NoControl /\ control.pc = "set" /\ (control.op = "kill" => registry.state = "HALTED")
        BY <1>13, <2>2, <3>2, FailsIs DEF SetFails
      <4> QED BY <2>1, <4>1 DEF Target, Enabling, NoControl
    <3>3. CASE ReloadFails
      <4>1. control' = NoControl /\ control.pc = "query" /\ control.op # "enable"
        BY <1>13, <2>2, <3>3, FailsIs DEF ReloadFails
      <4>2. control.op = "kill" /\ registry.state = "HALTED"
        BY <1>0, <4>1 DEF LinkTypeOK, NoControl, Controls, StepsOK
      <4> QED BY <2>1, <4>1, <4>2 DEF Target, Enabling, NoControl
    <3> QED BY <1>13, <3>1, <3>2, <3>3 DEF Fails
  <2> QED BY <1>1, <2>1, <2>2 DEF StateArrives, StateNext, KilledNext
<1> QED
  BY <1>2, <1>3, <1>4, <1>5, <1>8, <1>9, <1>10, <1>11, <1>12, <1>13, LinkNextCases

LEMMA SwitchStep ==
  ASSUME LinkInv, LinkNext
  PROVE  SwitchArrives'
<1>0. LinkTypeOK /\ (link.open /\ link.stated => SwitchSet)
  BY DEF LinkInv, SwitchArrives
<1>1. CASE LinkConnect
  BY <1>1 DEF LinkConnect, SwitchArrives
<1>2. CASE SendState
  BY <1>2, SendStateIs DEF SwitchArrives, SwitchSet
<1>3. CASE SendPush
  <2>1. UNCHANGED dead /\ link.open /\ link.stated /\ link.msgs = <<>>
    BY <1>3, SendPushIs DEF SendPush, maker
  <2> QED BY <1>0, <2>1 DEF SwitchArrives, SwitchSet
<1>4. CASE OnControl
  <2>1. link'.open = link.open /\ link'.stated = link.stated
    BY <1>0, <1>4, OnControlIs DEF LinkTypeOK, Links
  <2> QED BY <1>0, <1>4, <2>1, OnControlIs DEF SwitchArrives, SwitchSet
<1>5. CASE KillBegin \/ Reload \/ LimitsPush \/ LoopPushes \/ Fails
  <2>1. UNCHANGED dead /\ link'.open = link.open /\ link'.stated = link.stated /\ link'.msgs = link.msgs
    BY <1>0, <1>5, ToldIs, FailsIs DEF KillBegin, Reload, LimitsPush, LoopPushes, maker, LinkTypeOK
  <2> QED BY <1>0, <2>1 DEF SwitchArrives, SwitchSet
<1>6. CASE Quiet
  BY <1>0, <1>6, QuietIs DEF SwitchArrives, SwitchSet
<1> QED BY <1>1, <1>2, <1>3, <1>4, <1>5, <1>6, LinkNextCases

LEMMA LinkInvariant == LinkSpec => []LinkInv
<1>1. LinkInv /\ [LinkNext]_linkVars => LinkInv'
  <2> SUFFICES ASSUME LinkInv, [LinkNext]_linkVars PROVE LinkInv'
    OBVIOUS
  <2>1. CASE LinkNext
    BY <2>1, LinkTypeStep, LinkStepsStep, VersionStep, PositionStep, StateStep, SwitchStep DEF LinkInv
  <2>2. CASE UNCHANGED linkVars
    <3> USE <2>2 DEF linkVars, oms, positions, maker
    <3>1. LinkTypeOK' /\ StepsOK'
      BY DEF LinkInv, LinkTypeOK, StepsOK
    <3>2. VersionArrives' /\ PositionArrives'
      BY DEF LinkInv, VersionArrives, PositionArrives, VersionNext, PositionNext
    <3>3. StateArrives' /\ SwitchArrives'
      BY DEF LinkInv, StateArrives, SwitchArrives, StateNext, KilledNext, SwitchSet, Target, Enabling
    <3> QED BY <3>1, <3>2, <3>3 DEF LinkInv
  <2> QED BY <2>1, <2>2
<1> QED BY LinkInitInv, <1>1, PTL DEF LinkSpec

\* colo/mod.rs, colo/link_server.rs: a co-located strategy that has heard all
\* the OMS sent it enforces the limits, the position and the state the registry
\* holds, for any number of reconnects and changes, and of statements that fail
\* and reloads that overtake one another, but for what these left it untold of.
THEOREM ControlsSafe == LinkSpec => []ControlsArrive
<1>1. LinkInv => ControlsArrive
  <2> SUFFICES ASSUME LinkInv, Settled PROVE
        /\ "version" \in link.untold \/ book.version = registry.version
        /\ book.position \in {<<booked>>, Empty}
        /\ "state" \in link.untold \/ (dead.killed <=> registry.state = "HALTED")
        /\ dead.active \/ dead.killed
    BY DEF ControlsArrive
  <2>1. /\ link.open /\ link.stated /\ slot.out = <<>> /\ link.msgs = <<>> /\ limits = NoLimits
        /\ feed.changes = 0 /\ feed.read = <<>> /\ control.op = "none" /\ Target = registry.state /\ ~Enabling
    BY DEF Settled, NoControl, Target, Enabling
  <2>2. "version" \notin link.untold => book.version = registry.version
    <3>1. "version" \notin link.untold => VersionNext \in {registry.version}
      BY <2>1, EndsEmpty DEF LinkInv, VersionArrives
    <3> QED BY <2>1, <3>1 DEF VersionNext
  <2>3. book.position \in {<<booked>>, Empty}
    <3>1. PositionNext \in {<<booked>>, Empty}
      BY <2>1, EndsEmpty DEF LinkInv, PositionArrives
    <3> QED BY <2>1, <3>1 DEF PositionNext
  <2>4. "state" \notin link.untold => (dead.killed <=> registry.state = "HALTED")
    <3>1. "state" \notin link.untold => StateNext \in {registry.state}
      BY <2>1, EndsEmpty DEF LinkInv, StateArrives
    <3>2. KilledNext = dead.killed
      BY <2>1 DEF KilledNext
    <3> QED BY <3>1, <3>2 DEF StateNext
  <2>5. dead.active \/ dead.killed
    BY <2>1 DEF LinkInv, SwitchArrives, SwitchSet
  <2> QED BY <2>2, <2>3, <2>4, <2>5
<1> QED BY LinkInvariant, <1>1, PTL
=============================================================================

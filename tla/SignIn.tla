-------------------------------- MODULE SignIn --------------------------------
(* Signing in through the identity provider: /auth/login and its flow cookie,    *)
(* /auth/callback with the code exchange and the cached signing keys, and the     *)
(* mapping of a subject to a principal row, provisioned at its first login.       *)
(* Flows, codes, nonces and verifiers are the number of the login they belong to. *)
EXTENDS Naturals, FiniteSets

CONSTANTS
    Logins,         \* logins, each a natural number
    Browsers,       \* each holds one flow cookie
    Subjects,       \* who signs in
    Seed,           \* what a subject's principal code is made from
    RefetchEvery,   \* JWKS_REFETCH_INTERVAL
    MaxClock, MaxRotations, MaxIdpFailures, MaxEdits  \* bounds

ASSUME SignInConstants ==
    /\ Logins \subseteq Nat \ {0} /\ DOMAIN Seed = Subjects /\ IsFiniteSet(Subjects)
    /\ RefetchEvery \in Nat /\ MaxClock \in Nat /\ MaxRotations \in Nat /\ MaxIdpFailures \in Nat /\ MaxEdits \in Nat

VARIABLES
    clock,
    cookie,     \* the login whose flow cookie each browser holds, 0 for none
    login,      \* the logins: step, where, who, the token's key, the code, the row given
    row,        \* principal rows by external_subject
    idpKey,     \* the provider's signing key: how often it was rotated
    keys,       \* CachedKeys: the key set fetched last, and fetched_at
    fetcher,    \* the login that holds the write lock and fetches, 0 for none
    idpFailures, edits

signInVars == <<clock, cookie, login, row, idpKey, keys, fetcher, idpFailures, edits>>

NoRow == [type |-> "none", status |-> "none", code |-> <<>>]
Human(r) == r.type = "HUMAN" /\ r.status = "ACTIVE"

NoLogin == [step |-> "new", at |-> 0, subject |-> 0, kid |-> 0, code |-> <<>>, given |-> NoRow]

Denied(l) == login' = [login EXCEPT ![l] = [NoLogin EXCEPT !.step = "refused"]]

StepTo(l, step) == login' = [login EXCEPT ![l].step = step]

-----------------------------------------------------------------------------
(* The browser                                                                *)

\* login: a fresh flow, whose cookie replaces the one of another tab.
BeginLogin(l, b, s) ==
    /\ login[l].step = "new" /\ \A k \in Logins : k < l => login[k].step # "new"
    /\ cookie' = [cookie EXCEPT ![b] = l]
    /\ login' = [login EXCEPT ![l].step = "idp", ![l].at = b, ![l].subject = s]
    /\ UNCHANGED <<clock, row, idpKey, keys, fetcher, idpFailures, edits>>

\* callback: the provider's error, a malformed query or a flow that is not this
\* browser's ends the login before anything is asked of the provider.
Callback(l) ==
    /\ login[l].step = "idp"
    /\ IF cookie[login[l].at] = l THEN StepTo(l, "exchange") ELSE Denied(l)
    /\ UNCHANGED <<clock, cookie, row, idpKey, keys, fetcher, idpFailures, edits>>

\* request_id_token: a token signed with the key of the moment.
Exchange(l) ==
    /\ login[l].step = "exchange"
    /\ login' = [login EXCEPT ![l].step = "keys", ![l].kid = idpKey]
    /\ UNCHANGED <<clock, cookie, row, idpKey, keys, fetcher, idpFailures, edits>>

\* The provider cannot be reached or answers with an error.
ExchangeFails(l) ==
    /\ login[l].step = "exchange" /\ idpFailures < MaxIdpFailures
    /\ idpFailures' = idpFailures + 1
    /\ Denied(l)
    /\ UNCHANGED <<clock, cookie, row, idpKey, keys, fetcher, edits>>

-----------------------------------------------------------------------------
(* refresh_keys_if_unknown_kid, verify_id_token                               *)

\* has_key, under the read lock.
HasKey(l) ==
    /\ login[l].step = "keys" /\ fetcher = 0
    /\ StepTo(l, IF keys.gen = login[l].kid THEN "verify" ELSE "refresh")
    /\ UNCHANGED <<clock, cookie, row, idpKey, keys, fetcher, idpFailures, edits>>

\* The write lock, and both questions again under it; then the fetch begins.
RefreshKeys(l) ==
    /\ login[l].step = "refresh" /\ fetcher = 0
    /\ IF keys.gen = login[l].kid \/ clock < keys.at + RefetchEvery
       THEN StepTo(l, "verify") /\ UNCHANGED <<fetcher, edits>>
       ELSE StepTo(l, "fetch") /\ fetcher' = l
    /\ UNCHANGED <<clock, cookie, row, idpKey, keys, idpFailures, edits>>

\* The answer: the window starts anew whether it came or not.
Fetched(l) ==
    /\ login[l].step = "fetch"
    /\ \/ keys' = [gen |-> idpKey, at |-> clock] /\ UNCHANGED idpFailures
       \/ idpFailures < MaxIdpFailures /\ idpFailures' = idpFailures + 1 /\ keys' = [keys EXCEPT !.at = clock]
    /\ fetcher' = 0
    /\ StepTo(l, "verify")
    /\ UNCHANGED <<clock, cookie, row, idpKey, edits>>

\* verify_id_token: signature, issuer, audience, expiry and nonce.
VerifyToken(l) ==
    /\ login[l].step = "verify" /\ fetcher = 0
    /\ IF keys.gen = login[l].kid THEN StepTo(l, "resolve") ELSE Denied(l)
    /\ UNCHANGED <<clock, cookie, row, idpKey, keys, fetcher, idpFailures, edits>>

-----------------------------------------------------------------------------
(* resolve_or_provision, create_session                                       *)

Given(l, r) == login' = [login EXCEPT ![l].step = "session", ![l].given = r]

\* The SELECT; a new subject whose claims do not satisfy the gate ends here and
\* leaves no row.
Resolve(l) ==
    LET s == login[l].subject IN
    /\ login[l].step = "resolve"
    /\ IF Human(row[s]) THEN Given(l, row[s])
       ELSE StepTo(l, "code") \/ Denied(l)
    /\ UNCHANGED <<clock, cookie, row, idpKey, keys, fetcher, idpFailures, edits>>

Taken == {row[s].code : s \in Subjects}

\* generate_unique_code, claim_satisfies: the lowest free suffix, read before
\* the INSERT.
GenerateUniqueCode(l) ==
    LET seed == Seed[login[l].subject]
        free == {n \in 1..(Cardinality(Subjects) + 1) : <<seed, n>> \notin Taken}
    IN
    /\ login[l].step = "code"
    /\ login' = [login EXCEPT ![l].step = "insert",
                              ![l].code = <<seed, CHOOSE n \in free : \A k \in free : n <= k>>]
    /\ UNCHANGED <<clock, cookie, row, idpKey, keys, fetcher, idpFailures, edits>>

\* Faulty variant: DO UPDATE without its WHERE returns whatever row is there.
InsertUnguarded(l) ==
    LET s == login[l].subject
        new == [type |-> "HUMAN", status |-> "ACTIVE", code |-> login[l].code]
    IN
    /\ login[l].step = "insert"
    /\ IF row[s] # NoRow THEN Given(l, row[s]) /\ UNCHANGED row
       ELSE IF login[l].code \in Taken THEN Denied(l) /\ UNCHANGED row
       ELSE row' = [row EXCEPT ![s] = new] /\ Given(l, new)
    /\ UNCHANGED <<clock, cookie, idpKey, keys, fetcher, idpFailures, edits>>

\* INSERT ... ON CONFLICT (external_subject) DO UPDATE ... WHERE: the loser of
\* a race gets the winner's row, a row that is not an active human's is refused;
\* a code taken meanwhile by somebody else fails the statement.
Insert(l) ==
    LET s == login[l].subject
        new == [type |-> "HUMAN", status |-> "ACTIVE", code |-> login[l].code]
    IN
    /\ login[l].step = "insert"
    /\ IF row[s] # NoRow THEN (IF Human(row[s]) THEN Given(l, row[s]) ELSE Denied(l)) /\ UNCHANGED row
       ELSE IF login[l].code \in Taken THEN Denied(l) /\ UNCHANGED row
       ELSE row' = [row EXCEPT ![s] = new] /\ Given(l, new)
    /\ UNCHANGED <<clock, cookie, idpKey, keys, fetcher, idpFailures, edits>>

\* create_session; the answer sets the session cookie and clears the flow's.
FinishLogin(l) ==
    /\ login[l].step = "session"
    /\ StepTo(l, "in")
    /\ cookie' = [cookie EXCEPT ![login[l].at] = 0]
    /\ UNCHANGED <<clock, row, idpKey, keys, fetcher, idpFailures, edits>>

-----------------------------------------------------------------------------
(* Around it                                                                  *)

\* create_principal and update_principal: an administrator claims a subject for
\* a service, or disables or enables a row.
AdminRow(s, r) ==
    /\ row[s].status # r.status \/ row[s].type # r.type
    /\ row' = [row EXCEPT ![s] = r]
    /\ edits < MaxEdits /\ edits' = edits + 1
    /\ UNCHANGED <<clock, cookie, login, idpKey, keys, fetcher, idpFailures>>

RotateKey ==
    /\ idpKey < MaxRotations
    /\ idpKey' = idpKey + 1
    /\ UNCHANGED <<clock, cookie, login, row, keys, fetcher, idpFailures, edits>>

SignInClock ==
    /\ clock < MaxClock
    /\ clock' = clock + 1
    /\ UNCHANGED <<cookie, login, row, idpKey, keys, fetcher, idpFailures, edits>>

\* Provider::discover fetched the keys at start.
SignInInit ==
    /\ clock = 0
    /\ cookie = [b \in Browsers |-> 0]
    /\ login = [l \in Logins |-> NoLogin]
    /\ row = [s \in Subjects |-> NoRow]
    /\ idpKey = 0
    /\ keys = [gen |-> 0, at |-> 0]
    /\ fetcher = 0
    /\ idpFailures = 0 /\ edits = 0

LoginStep(l) ==
    \/ \E b \in Browsers, s \in Subjects : BeginLogin(l, b, s)
    \/ Callback(l) \/ Exchange(l) \/ ExchangeFails(l)
    \/ HasKey(l) \/ RefreshKeys(l) \/ Fetched(l) \/ VerifyToken(l)
    \/ Resolve(l) \/ GenerateUniqueCode(l) \/ Insert(l) \/ FinishLogin(l)

SignInNext ==
    \/ \E l \in Logins : LoginStep(l)
    \/ \E s \in Subjects, type \in {"HUMAN", "SERVICE"}, status \in {"ACTIVE", "DISABLED"} :
          AdminRow(s, [type |-> type, status |-> status, code |-> IF row[s] = NoRow THEN <<s, 1>> ELSE row[s].code])
    \/ RotateKey
    \/ SignInClock

SignInSpec == SignInInit /\ [][SignInNext]_signInVars

-----------------------------------------------------------------------------
(* Properties                                                                 *)

\* However first logins race with each other and with an administrator, a login
\* is let in as its subject's own principal, never as a service's or a disabled
\* one, and everybody who got in as one subject got the same row.
RightPrincipal ==
    \A l \in Logins : login[l].step \in {"session", "in"} =>
        Human(login[l].given) /\ login[l].given.code = row[login[l].subject].code
==============================================================================

------------------------------- MODULE Access -------------------------------
(***************************************************************************)
(* Sign-in, sessions and the gate in front of every request                *)
(* (trustlens_backend/auth.py, sessions.py, with the middlewares' order of *)
(* main.py) beside admission control and role provisioning.                *)
(*                                                                         *)
(* Opaque secrets are fresh: a login transaction is known by the request   *)
(* that began it and a session by the callback that created it; a CSRF     *)
(* token is known by its session.  A request is a thread: other requests   *)
(* run between any two of its calls.                                       *)
(***************************************************************************)
EXTENDS Admission, Provisioning

CONSTANTS
    Requests,
    Browsers,
    Signed,                           \* a browser that may be signed in at the start,
    EarlierLogin, EarlierSession,     \* and the login and session it has then
    Scenarios,                        \* [asks, jobs, roles, rows, principal, until, restarts]
    TRANSACTION_SECONDS, TRANSACTIONS,   \* lifetime and capacity of transactions
    IDLE, ABSOLUTE, SESSIONS             \* lifetimes and capacity of sessions

ASSUME AccessAssumption ==
    /\ EarlierLogin \notin Requests /\ EarlierSession \notin Requests
    /\ {TRANSACTION_SECONDS, TRANSACTIONS, IDLE, ABSOLUTE, SESSIONS} \subseteq Nat \ {0}
    /\ IsFiniteSet(Requests) /\ {"sign_in", "api_write"} \subseteq Stores
    /\ None \notin Requests \cup Jobs \cup Principals \cup Browsers \cup {EarlierSession, EarlierLogin}
    /\ None \notin {"signed_in", "failed_sign_in", "logout", "inactive"}   \* what ends a session

Kinds == {"none", "login", "callback", "csrf", "logout", "write", "me"}

\* What a behaviour may start with: ADMINISTRATOR is held alone (the database was provisioned
\* by this procedure), and nobody but a principal is signed in.
ASSUME ScenarioAssumption ==
    \A s \in Scenarios :
        /\ DOMAIN s.asks = Requests
        /\ \A r \in Requests : s.asks[r].kind \in Kinds /\ s.asks[r].browser \in Browsers
        /\ s.jobs \in [Jobs -> [action : {"none", "grant", "revoke"}, role : ROLES, subject : Principals]]
        /\ s.roles \in [Principals -> SUBSET ROLES]
        /\ \A p \in Principals : "ADMINISTRATOR" \in s.roles[p] => s.roles[p] = {"ADMINISTRATOR"}
        /\ s.principal \in Principals \cup {None}

VARIABLES
    asks,           \* what each request is: [kind, browser, peer, trusted]
    bound,          \* bounds of the model: [until, restarts]
    transactions,   \* when each live login transaction began, or None
    sessions,       \* [principal, created, seen], or NoSession
    jar,            \* what a browser holds: [session, binding, csrf]
    req,            \* [pc, session, binding, csrf, transaction, principal, reason]
    audit,          \* authentication events: [event, request]
    origin,         \* history: the transaction each session came from
    ended,          \* history: why and by which request a session ended
    active,         \* history: the principals active at some time since a request began,
    lapsed          \* and those inactive at some time since

svars == <<asks, bound, transactions, sessions, jar, req, audit, origin, ended, active, lapsed>>
vars == <<avars, pvars, svars>>

SessionIds == Requests \cup {EarlierSession}
NoSession == [principal |-> None, created |-> 0, seen |-> 0]
NotEnded == [cause |-> None, by |-> None]
Unsent == [pc |-> "unsent", session |-> None, binding |-> None, csrf |-> None,
           transaction |-> None, principal |-> None, reason |-> None]
EmptyJar == [session |-> None, binding |-> None, csrf |-> None]

Init == \E s \in Scenarios :
    /\ AdmissionInit
    /\ ProvisioningInit(s.jobs, s.roles, s.rows)
    /\ asks = s.asks
    /\ bound = [until |-> s.until, restarts |-> s.restarts]
    /\ transactions = [t \in Requests |-> None]
    /\ sessions = [i \in SessionIds |-> IF i = EarlierSession /\ s.principal # None
                     THEN [NoSession EXCEPT !.principal = s.principal] ELSE NoSession]
    /\ jar = [b \in Browsers |-> IF b = Signed /\ s.principal # None
                THEN [EmptyJar EXCEPT !.session = EarlierSession, !.csrf = EarlierSession]
                ELSE EmptyJar]
    /\ req = [r \in Requests |-> Unsent]
    /\ audit = {[event |-> "AUTHENTICATION_SUCCEEDED", request |-> EarlierSession]}
    /\ origin = [i \in SessionIds |-> IF i = EarlierSession THEN EarlierLogin ELSE None]
    /\ ended = [i \in SessionIds |-> NotEnded]
    /\ active = [r \in Requests |-> {}]
    /\ lapsed = [r \in Requests |-> {}]

---------------------------------------------------------------------------
(* The session store.  Each operation holds the store's lock.              *)

There(i) == i \in SessionIds /\ sessions[i] # NoSession
Expired(i) == clock - sessions[i].seen >= IDLE \/ clock - sessions[i].created >= ABSOLUTE
Swept == {i \in SessionIds : There(i) /\ Expired(i)}
Found(i) == There(i) /\ ~Expired(i)

End(gone, cause, r) ==
    /\ sessions' = [i \in SessionIds |-> IF i \in gone THEN NoSession ELSE sessions[i]]
    /\ ended' = [i \in SessionIds |-> IF i \in gone /\ There(i)
                    THEN [cause |-> cause, by |-> r] ELSE ended[i]]

get(i) ==
    IF ~There(i) THEN UNCHANGED <<sessions, ended>>
    ELSE IF Expired(i) THEN End({i}, "expired", None)
    ELSE sessions' = [sessions EXCEPT ![i].seen = clock] /\ UNCHANGED ended

Answer(r, how) == req' = [req EXCEPT ![r].pc = how]
BrowserOf(r) == asks[r].browser
ClearSession(r) == jar' = [jar EXCEPT ![BrowserOf(r)].session = None]
Log(event, r) == audit' = audit \cup {[event |-> event, request |-> r]}
MayLog(event, r) == Log(event, r) \/ UNCHANGED audit

---------------------------------------------------------------------------
(* A request arrives with the cookies its browser holds, passes admission  *)
(* and, when it changes state, the origin and CSRF checks.                 *)

Handler(kind) ==
    CASE kind = "login" -> "begin"     [] kind = "callback" -> "consume"
      [] kind = "csrf" -> "token"      [] kind = "logout" -> "csrf"
      [] kind = "write" -> "csrf"      [] kind = "me" -> "session"

Arrive(r, pc) ==
    /\ req[r].pc = "unsent"
    /\ LET b == jar[BrowserOf(r)] IN
       req' = [req EXCEPT ![r] = [Unsent EXCEPT !.pc = pc, !.session = b.session,
                                                !.binding = b.binding, !.csrf = b.csrf]]
    /\ active' = [active EXCEPT ![r] = {p \in Principals : Active(p)}]
    /\ lapsed' = [lapsed EXCEPT ![r] = {p \in Principals : ~Active(p)}]
    /\ UNCHANGED <<asks, bound, transactions, jar, audit, origin>>

AdmitSignIn(r) ==
    /\ asks[r].kind \in {"login", "callback"}
    /\ take("sign_in", asks[r].peer)
    /\ Arrive(r, IF Allowed("sign_in", asks[r].peer) THEN Handler(asks[r].kind) ELSE "limited")
    /\ UNCHANGED <<sessions, ended>>

\* A state-changing request counts against the principal of its session, if it has one.
KeyOf(r) ==
    LET i == jar[BrowserOf(r)].session
    IN IF Found(i) THEN sessions[i].principal ELSE asks[r].peer

AdmitWrite(r) ==
    /\ asks[r].kind = "write"
    /\ \E key \in {KeyOf(r)} :
          /\ take("api_write", key)
          /\ Arrive(r, IF Allowed("api_write", key) THEN "csrf" ELSE "limited")
    /\ get(jar[BrowserOf(r)].session)

AdmitOther(r) ==
    /\ asks[r].kind \in {"csrf", "logout", "me"}
    /\ Arrive(r, Handler(asks[r].kind))
    /\ UNCHANGED <<avars, sessions, ended>>

CsrfValid(r) == Found(req[r].session) /\ req[r].csrf = req[r].session

PassCsrf(r) ==
    /\ req[r].pc = "csrf" /\ asks[r].trusted /\ CsrfValid(r)
    /\ get(req[r].session)
    /\ Answer(r, IF asks[r].kind = "logout" THEN "logout" ELSE "session")
    /\ UNCHANGED <<jar, audit, origin, transactions>>

FailCsrf(r) ==
    /\ req[r].pc = "csrf" /\ ~(asks[r].trusted /\ CsrfValid(r))
    /\ get(req[r].session)
    /\ MayLog("AUTHORIZATION_DENIED", r)
    /\ Answer(r, "forbidden")
    /\ UNCHANGED <<jar, origin, transactions>>

---------------------------------------------------------------------------
(* Sign-in: the login begins a transaction bound to the browser; the       *)
(* callback consumes it, asks the provider and creates the session.        *)

Began(t) == t \in Requests /\ transactions[t] # None
Stale(t) == clock - transactions[t] >= TRANSACTION_SECONDS
Pending == {t \in Requests : Began(t) /\ ~Stale(t)}
Keep(pending) == [t \in Requests |-> IF t \in pending THEN transactions[t] ELSE None]

BeginLogin(r) ==
    /\ req[r].pc = "begin"
    /\ IF Cardinality(Pending) >= TRANSACTIONS
       THEN transactions' = Keep(Pending) /\ Answer(r, "unavailable")
       ELSE transactions' = [Keep(Pending) EXCEPT ![r] = clock] /\ Answer(r, "begun")
    /\ UNCHANGED <<sessions, ended, jar, audit, origin>>

\* The provider's metadata may not be there: the transaction stays, without its cookie.
AnswerLogin(r) ==
    /\ req[r].pc = "begun"
    /\ \/ jar' = [jar EXCEPT ![BrowserOf(r)].binding = r] /\ Answer(r, "redirected")
       \/ UNCHANGED jar /\ Answer(r, "unavailable")
    /\ UNCHANGED <<transactions, sessions, ended, audit, origin>>

ConsumeKeeping(r, t) ==
    /\ req[r].pc = "consume"
    /\ transactions' = Keep(Pending)
    /\ IF t \in Pending /\ req[r].binding = t
       THEN req' = [req EXCEPT ![r].pc = "exchange", ![r].transaction = t] /\ UNCHANGED audit
       ELSE Answer(r, "failed") /\ MayLog("AUTHENTICATION_FAILED", r)
    /\ UNCHANGED <<sessions, ended, jar, origin>>

\* A callback for state t: the transaction is gone whoever presented its state, and the
\* callback goes on only if it was live and began in this browser.  Without a state or a
\* transaction cookie nothing is looked up.
Consume(r, t) ==
    /\ req[r].pc = "consume"
    /\ transactions' = IF t = None \/ req[r].binding = None THEN transactions ELSE Keep(Pending \ {t})
    /\ IF t \in Pending /\ req[r].binding = t
       THEN req' = [req EXCEPT ![r].pc = "exchange", ![r].transaction = t] /\ UNCHANGED audit
       ELSE Answer(r, "failed") /\ MayLog("AUTHENTICATION_FAILED", r)
    /\ UNCHANGED <<sessions, ended, jar, origin>>

FailWith(r, reason) == req' = [req EXCEPT ![r].pc = "fail", ![r].reason = reason]

\* The authorization response is an error, or the code, the tokens or the claims fail.
ProviderRefuses(r) ==
    /\ req[r].pc = "exchange"
    /\ FailWith(r, "AUTHENTICATION_FAILED")
    /\ UNCHANGED <<transactions, sessions, ended, jar, audit, origin>>

ProviderVouches(r, p) ==
    /\ req[r].pc = "exchange"
    /\ req' = [req EXCEPT ![r].pc = "find", ![r].principal = p]
    /\ UNCHANGED <<transactions, sessions, ended, jar, audit, origin>>

FindActive(r) ==
    /\ req[r].pc = "find"
    /\ \/ Active(req[r].principal) /\ Answer(r, "create")
       \/ ~Active(req[r].principal) /\ FailWith(r, "AUTHORIZATION_DENIED")
       \/ FailWith(r, "AUTHENTICATION_FAILED")          \* the store is unavailable
    /\ UNCHANGED <<transactions, sessions, ended, jar, audit, origin>>

\* SessionStore.create: the presented session ends first, then the expired ones, and
\* only then is there room or not.
CreateSession(r) ==
    /\ req[r].pc = "create"
    /\ LET previous == req[r].session
           gone == {i \in {previous} : There(i)}
           left == {i \in SessionIds \ gone : Found(i)}
           room == Cardinality(left) < SESSIONS
       IN /\ sessions' = [i \in SessionIds |->
                IF i = r /\ room THEN [principal |-> req[r].principal, created |-> clock, seen |-> clock]
                ELSE IF i \in left THEN sessions[i] ELSE NoSession]
          /\ ended' = [i \in SessionIds |->
                IF i \in gone THEN [cause |-> "signed_in", by |-> r]
                ELSE IF i \in Swept THEN [cause |-> "expired", by |-> None] ELSE ended[i]]
          /\ IF room THEN Answer(r, "audit") ELSE FailWith(r, "AUTHENTICATION_FAILED")
          /\ origin' = IF room THEN [origin EXCEPT ![r] = req[r].transaction] ELSE origin
    /\ UNCHANGED <<transactions, jar, audit>>

\* The session must be audited before the browser learns of it.
AuditSession(r) ==
    /\ req[r].pc = "audit"
    /\ \/ Log("AUTHENTICATION_SUCCEEDED", r) /\ Answer(r, "welcome") /\ UNCHANGED <<sessions, ended>>
       \/ End({r}, "unaudited", r) /\ FailWith(r, None) /\ UNCHANGED audit
    /\ UNCHANGED <<transactions, jar, origin>>

AnswerCallback(r) ==
    /\ req[r].pc = "welcome"
    /\ jar' = [jar EXCEPT ![BrowserOf(r)].session = r, ![BrowserOf(r)].binding = None]
    /\ Answer(r, "signed_in")
    /\ UNCHANGED <<transactions, sessions, ended, audit, origin>>

\* A failed or denied sign-in ends the session its request came with.
FailSignIn(r) ==
    /\ req[r].pc = "fail"
    /\ End({req[r].session}, "failed_sign_in", r)
    /\ IF req[r].reason = None THEN UNCHANGED audit ELSE MayLog(req[r].reason, r)
    /\ jar' = [jar EXCEPT ![BrowserOf(r)].session = None, ![BrowserOf(r)].binding = None]
    /\ Answer(r, "not_signed_in")
    /\ UNCHANGED <<transactions, origin>>

---------------------------------------------------------------------------
(* The other handlers.                                                     *)

CsrfToken(r) ==
    /\ req[r].pc = "token"
    /\ get(req[r].session)
    /\ IF Found(req[r].session)
       THEN jar' = [jar EXCEPT ![BrowserOf(r)].csrf = req[r].session] /\ Answer(r, "token_given")
       ELSE ClearSession(r) /\ Answer(r, "unauthenticated")
    /\ UNCHANGED <<transactions, audit, origin>>

Logout(r) ==
    /\ req[r].pc = "logout"
    /\ End({req[r].session}, "logout", r)
    /\ Answer(r, "signing_out")
    /\ UNCHANGED <<transactions, jar, audit, origin>>

\* After the provider's session was ended, or not.
AnswerLogout(r) ==
    /\ req[r].pc = "signing_out"
    /\ ClearSession(r) /\ Answer(r, "signed_out")
    /\ UNCHANGED <<transactions, sessions, ended, audit, origin>>

\* current_principal: the session, then the principal's roles from the database.
FindSession(r) ==
    /\ req[r].pc = "session"
    /\ get(req[r].session)
    /\ IF Found(req[r].session)
       THEN /\ req' = [req EXCEPT ![r].pc = "roles", ![r].principal = sessions[req[r].session].principal]
            /\ UNCHANGED jar
       ELSE /\ Answer(r, "unauthenticated")
            /\ IF req[r].session = None THEN UNCHANGED jar ELSE ClearSession(r)
    /\ UNCHANGED <<transactions, audit, origin>>

ReadRoles(r) ==
    /\ req[r].pc = "roles"
    /\ \/ Active(req[r].principal) /\ Answer(r, "served")
       \/ ~Active(req[r].principal) /\ Answer(r, "inactive")
       \/ Answer(r, "unavailable")
    /\ UNCHANGED <<transactions, sessions, ended, jar, audit, origin>>

EndInactive(r) ==
    /\ req[r].pc = "inactive"
    /\ End({i \in SessionIds : There(i) /\ sessions[i].principal = req[r].principal}, "inactive", r)
    /\ MayLog("AUTHORIZATION_DENIED", r)
    /\ ClearSession(r) /\ Answer(r, "unauthenticated")
    /\ UNCHANGED <<transactions, origin>>

Handle(r) ==
    \/ PassCsrf(r) \/ FailCsrf(r)
    \/ BeginLogin(r) \/ AnswerLogin(r)
    \/ \E t \in {u \in Requests : asks[u].kind = "login"} \cup {None} : Consume(r, t)
    \/ ProviderRefuses(r) \/ (\E p \in Principals : ProviderVouches(r, p))
    \/ FindActive(r) \/ CreateSession(r) \/ AuditSession(r) \/ AnswerCallback(r) \/ FailSignIn(r)
    \/ CsrfToken(r) \/ Logout(r) \/ AnswerLogout(r)
    \/ FindSession(r) \/ ReadRoles(r) \/ EndInactive(r)

---------------------------------------------------------------------------

\* Sessions, transactions and buckets are this process's memory: a restart forgets them
\* and the requests under way; the browsers keep their cookies.
Answered == {"unsent", "limited", "forbidden", "unavailable", "redirected", "failed", "signed_in",
             "not_signed_in", "token_given", "unauthenticated", "signed_out", "served", "lost"}

Restart ==
    /\ bound.restarts > 0
    /\ bound' = [bound EXCEPT !.restarts = @ - 1]
    /\ Forget
    /\ transactions' = Keep({})
    /\ End(SessionIds, "restart", None)
    /\ req' = [r \in Requests |-> IF req[r].pc \in Answered THEN req[r] ELSE [req[r] EXCEPT !.pc = "lost"]]
    /\ UNCHANGED <<asks, jar, audit, origin, active, lapsed>>

Provision(t) ==
    /\ ProvisioningStep(t)
    /\ active' = [r \in Requests |-> active[r] \cup {p \in Principals : Active(p)'}]
    /\ lapsed' = [r \in Requests |-> lapsed[r] \cup {p \in Principals : ~Active(p)'}]
    /\ UNCHANGED <<avars, asks, bound, transactions, sessions, jar, req, audit, origin, ended>>

Next ==
    \/ \E r \in Requests : (AdmitSignIn(r) \/ AdmitWrite(r) \/ AdmitOther(r)) /\ UNCHANGED pvars
    \/ \E r \in Requests : Handle(r) /\ UNCHANGED <<avars, pvars, asks, bound, active, lapsed>>
    \/ \E t \in Jobs : Provision(t)
    \/ Tick(bound.until) /\ UNCHANGED <<pvars, svars>>
    \/ Restart /\ UNCHANGED pvars

Spec == Init /\ [][Next]_vars

---------------------------------------------------------------------------

\* The stores hold what they are meant to and stay within their capacities.
TypeOK ==
    /\ sessions \in [SessionIds -> [principal : Principals \cup {None}, created : Nat, seen : Nat]]
    /\ transactions \in [Requests -> Nat \cup {None}]
    /\ \A b \in Browsers : jar[b].session \in SessionIds \cup {None}
    /\ Cardinality({i \in SessionIds : There(i)}) <= SESSIONS
    /\ Cardinality({t \in Requests : Began(t)}) <= TRANSACTIONS
    /\ \A s \in Stores : Len(buckets[s]) <= MAX_KEYS

Audited(i) == [event |-> "AUTHENTICATION_SUCCEEDED", request |-> i] \in audit

\* A browser only ever holds a session whose sign-in was audited and was begun in that
\* very browser ("no unaudited session ever reaches the browser", callback), and a login
\* transaction makes at most one session (TransactionStore.consume).
SessionsEarned ==
    /\ \A b \in Browsers : LET i == jar[b].session IN i \in Requests =>
          Audited(i) /\ origin[i] \in Requests /\ BrowserOf(origin[i]) = b
    /\ \A i, j \in SessionIds : i # j /\ origin[i] # None => origin[i] # origin[j]

\* A session ends for a reason its holder can be told: a sign-in or logout of the browser
\* that held it, expiry, a restart, or its principal having had no role at some time
\* since the request that ended it began.  A callback that is not bound to the browser's
\* own sign-in ends nothing; one that is and fails leaves neither the session it came
\* with nor one of its own (callback, current_principal).
SessionsEndForCause ==
    /\ \A i \in SessionIds : LET e == ended[i] IN
          /\ e.cause \in {"signed_in", "failed_sign_in", "logout"} => req[e.by].session = i
          /\ e.cause \in {"signed_in", "failed_sign_in"} =>
                BrowserOf(req[e.by].transaction) = BrowserOf(e.by)
          /\ e.cause = "inactive" => req[e.by].principal \in lapsed[e.by]
    /\ \A r \in Requests : req[r].pc = "not_signed_in" => ~There(req[r].session) /\ ~There(r)

SessionsAccounted == TypeOK /\ SessionsEarned /\ SessionsEndForCause

\* What is served was asked by a principal that held a role while the request ran,
\* whatever its session remembers, and racing grants keep ADMINISTRATOR apart from every
\* other role (current_principal, grant_user, grant_administrator).
AuthorityHolds ==
    /\ \A r \in Requests : req[r].pc = "served" => req[r].principal \in active[r]
    /\ RolesSeparate
=============================================================================

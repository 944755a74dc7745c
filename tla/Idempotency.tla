---------------------------- MODULE Idempotency ----------------------------
(***************************************************************************)
(* Durable API idempotency: trustlens_backend/idempotency.py and the table *)
(* api_idempotency_record with its trigger and partial unique index        *)
(* (migrations 0003 and 0004), driven the way createCase and               *)
(* createSubmission (cases.py) drive it: claim, governed effect and        *)
(* completion in one transaction, release after a transient failure.       *)
(*                                                                         *)
(* One scope (principal, operation, target path, key digest) is modelled:  *)
(* every statement of the code is restricted to one scope, so scopes do    *)
(* not interact.  A member of Requests is one HTTP request of that scope;  *)
(* a client's retry is another member.  A request generates one claim      *)
(* token and inserts at most one row, so the request itself names the      *)
(* token, the row it inserts and the resource its effect creates.          *)
(*                                                                         *)
(* A step is one committed transaction, or the read half of the claim's    *)
(* transaction: at READ COMMITTED other requests commit between the        *)
(* claim's SELECT, which takes no lock, and its UPDATE.                    *)
(***************************************************************************)
EXTENDS Naturals

CONSTANTS
    Requests,       \* HTTP requests of the scope
    Digests,        \* semantic digests of request bodies
    None,           \* SQL NULL
    CLAIM_LEASE,    \* in-progress lease, in clock ticks
    ACTIVE_WINDOW,  \* lifetime of a key, in clock ticks
    MAX_CLOCK       \* bound of the model: the clock stops here

ASSUME NoneAssumption == None \notin Requests
ASSUME TimeAssumption == /\ CLAIM_LEASE \in Nat \ {0}
                         /\ ACTIVE_WINDOW \in Nat \ {0}
                         /\ MAX_CLOCK \in Nat

VARIABLES
    schema,   \* the migration the database is at; 0004 added supersession
    clock,    \* the database's now()
    record,   \* rows of api_idempotency_record, by the request that inserts them
    req,      \* the requests' local state
    effects,  \* requests whose governed effect is committed (the resources that exist)
    lost,     \* history: requests that lost their claim before committing an effect
    stalled   \* history: rows whose outcome was stored after the executor's lease ended

vars == <<schema, clock, record, req, effects, lost, stalled>>

Schemas == {"0003", "0004"}
States == {"ABSENT", "IN_PROGRESS", "COMPLETED", "FAILED_TERMINAL", "RELEASED"}
Terminal == {"COMPLETED", "FAILED_TERMINAL"}
Phases == {"idle", "claiming", "superseding", "taking_over", "executing",
           "releasing", "answered", "crashed"}
Answers == {"NONE", "CREATED", "REFUSED", "REPLAYED", "KEY_REUSED",
            "IN_PROGRESS", "UNAVAILABLE"}

Maybe == Requests \cup {None}

(* A row. token is claim_token, outcome the executor that stored the row's *)
(* outcome columns, lease_until 0 when the column is NULL.                 *)
Row == [state: States, digest: Digests \cup {None}, token: Maybe, outcome: Maybe,
        lease_until: Nat, active_until: Nat, superseded: BOOLEAN]
NoRow == [state |-> "ABSENT", digest |-> None, token |-> None, outcome |-> None,
          lease_until |-> 0, active_until |-> 0, superseded |-> FALSE]

(* A request. now is the now() of its claim transaction; seen and seenToken*)
(* are what the claim's SELECT returned; claim is the row of Claim(...);   *)
(* source and resource say which row and outcome a REPLAYED answer used.   *)
Local == [phase: Phases, digest: Digests \cup {None}, now: Nat, seen: Maybe,
          seenToken: Maybe, claim: Maybe, answer: Answers, source: Maybe,
          resource: Maybe]
Idle == [phase |-> "idle", digest |-> None, now |-> 0, seen |-> None,
         seenToken |-> None, claim |-> None, answer |-> "NONE", source |-> None,
         resource |-> None]

(* The columns' types, and the CHECK constraint ck_api_idempotency_state:   *)
(* an IN_PROGRESS row has a lease and no outcome, any other row an outcome  *)
(* and no lease.                                                            *)
TypeOK == /\ schema \in Schemas
          /\ clock \in Nat
          /\ record \in [Requests -> Row]
          /\ \A g \in Requests :
                record[g].state # "ABSENT" =>
                   /\ record[g].digest \in Digests /\ record[g].token \in Requests
                   /\ IF record[g].state = "IN_PROGRESS"
                      THEN record[g].outcome = None /\ record[g].lease_until > 0
                      ELSE record[g].outcome \in Requests /\ record[g].lease_until = 0
          /\ req \in [Requests -> Local]
          /\ effects \subseteq Requests
          /\ lost \subseteq Requests
          /\ stalled \subseteq Requests

Init == /\ schema \in Schemas
        /\ clock = 0
        /\ record = [g \in Requests |-> NoRow]
        /\ req = [r \in Requests |-> Idle]
        /\ effects = {}
        /\ lost = {}
        /\ stalled = {}

-----------------------------------------------------------------------------
(* Rows and the fence.                                                      *)

(* The rows the partial unique index covers and the claim's SELECT reads.   *)
Governs(g) == record[g].state # "ABSENT" /\ ~record[g].superseded

(* A row fresh from _INSERT: IN_PROGRESS, leased, active for the window.    *)
FreshRow(r) == [state |-> "IN_PROGRESS", digest |-> req[r].digest, token |-> r,
                outcome |-> None, lease_until |-> req[r].now + CLAIM_LEASE,
                active_until |-> req[r].now + ACTIVE_WINDOW, superseded |-> FALSE]

(* The WHERE of _finish: the row still carries this executor's token and is *)
(* IN_PROGRESS.                                                             *)
UnfencedMutant(r) == record[req[r].claim].state = "IN_PROGRESS"
Fenced(r) == /\ record[req[r].claim].token = r
             /\ record[req[r].claim].state = "IN_PROGRESS"

(* The trigger refuses every UPDATE of a superseded row.                    *)
NoTriggerMutant(g) == TRUE
Writable(g) == ~record[g].superseded

(* The UPDATE of _finish: a state and an outcome, no lease.                 *)
FinishedRow(r, state) ==
    [record[req[r].claim] EXCEPT !.state = state, !.outcome = r, !.lease_until = 0]

Answer(r, kind) == req' = [req EXCEPT ![r].phase = "answered", ![r].answer = kind]

(* History only: the holder of row g loses it, unless its effect is already *)
(* committed.                                                               *)
Lose(g) == lost' = lost \cup ({record[g].token} \ effects)

-----------------------------------------------------------------------------
(* claim(): the transaction of one request.                                 *)

(* BEGIN fixes now() for the whole transaction.                             *)
Begin(r, d) ==
    /\ req[r].phase = "idle"
    /\ req' = [req EXCEPT ![r].phase = "claiming", ![r].digest = d, ![r].now = clock]
    /\ UNCHANGED <<schema, clock, record, effects, lost, stalled>>

(* INSERT ... ON CONFLICT DO NOTHING inserts when no row governs the scope. *)
ClaimInsert(r) ==
    /\ req[r].phase = "claiming"
    /\ \A g \in Requests : ~Governs(g)
    /\ record' = [record EXCEPT ![r] = FreshRow(r)]
    /\ req' = [req EXCEPT ![r].phase = "executing", ![r].claim = r]
    /\ UNCHANGED <<schema, clock, effects, lost, stalled>>

(* The tests on the row the SELECT returned, in the code's order.           *)
Expired(r, g) == record[g].active_until <= req[r].now
NoLeaseMutant(r, g) == FALSE
LeaseLive(r, g) == record[g].lease_until > req[r].now
AnyRequestMutant(r, g) == TRUE
SameRequest(r, g) == record[g].digest = req[r].digest

(* The SELECT finds an expired row: supersede it, or refuse the key on 0003.*)
ClaimExpired(r, g) ==
    /\ req[r].phase = "claiming" /\ Governs(g)
    /\ Expired(r, g)
    /\ IF schema = "0004"
       THEN req' = [req EXCEPT ![r].phase = "superseding", ![r].seen = g]
       ELSE Answer(r, "KEY_REUSED")
    /\ UNCHANGED <<schema, clock, record, effects, lost, stalled>>

(* Another request body under the same key.                                 *)
ClaimReused(r, g) ==
    /\ req[r].phase = "claiming" /\ Governs(g)
    /\ ~Expired(r, g) /\ ~SameRequest(r, g)
    /\ Answer(r, "KEY_REUSED")
    /\ UNCHANGED <<schema, clock, record, effects, lost, stalled>>

(* A terminal row replays its stored outcome.                               *)
ClaimReplay(r, g) ==
    /\ req[r].phase = "claiming" /\ Governs(g)
    /\ ~Expired(r, g) /\ SameRequest(r, g) /\ record[g].state \in Terminal
    /\ req' = [req EXCEPT ![r].phase = "answered", ![r].answer = "REPLAYED",
                          ![r].source = g, ![r].resource = record[g].outcome]
    /\ UNCHANGED <<schema, clock, record, effects, lost, stalled>>

(* Another executor holds a live lease.                                     *)
ClaimInProgress(r, g) ==
    /\ req[r].phase = "claiming" /\ Governs(g)
    /\ ~Expired(r, g) /\ SameRequest(r, g)
    /\ record[g].state = "IN_PROGRESS" /\ LeaseLive(r, g)
    /\ Answer(r, "IN_PROGRESS")
    /\ UNCHANGED <<schema, clock, record, effects, lost, stalled>>

(* RELEASED, or IN_PROGRESS with an expired lease: go on to the CAS with    *)
(* the token just read.                                                     *)
ClaimTakeable(r, g) ==
    /\ req[r].phase = "claiming" /\ Governs(g)
    /\ ~Expired(r, g) /\ SameRequest(r, g)
    /\ \/ record[g].state = "RELEASED"
       \/ record[g].state = "IN_PROGRESS" /\ ~LeaseLive(r, g)
    /\ req' = [req EXCEPT ![r].phase = "taking_over", ![r].seen = g,
                          ![r].seenToken = record[g].token]
    /\ UNCHANGED <<schema, clock, record, effects, lost, stalled>>

(* Compare-and-swap on superseded_at, then a fresh row in the same          *)
(* transaction; losing the race answers IN_PROGRESS.                        *)
Supersede(r) ==
    LET g == req[r].seen IN
    /\ req[r].phase = "superseding"
    /\ IF ~record[g].superseded /\ Expired(r, g)
       THEN /\ record' = [record EXCEPT ![g].superseded = TRUE, ![r] = FreshRow(r)]
            /\ req' = [req EXCEPT ![r].phase = "executing", ![r].claim = r]
            /\ Lose(g)
       ELSE /\ Answer(r, "IN_PROGRESS")
            /\ UNCHANGED <<record, lost>>
    /\ UNCHANGED <<schema, clock, effects, stalled>>

(* UPDATE ... WHERE id AND claim_token = old_token: a matched row is        *)
(* re-opened whatever its state is by now; the trigger turns a match on a   *)
(* superseded row into an error.                                            *)
TakeOver(r) ==
    LET g == req[r].seen IN
    /\ req[r].phase = "taking_over"
    /\ IF record[g].token # req[r].seenToken
       THEN Answer(r, "IN_PROGRESS") /\ UNCHANGED <<record, lost>>
       ELSE IF ~Writable(g)
       THEN Answer(r, "UNAVAILABLE") /\ UNCHANGED <<record, lost>>
       ELSE /\ record' = [record EXCEPT ![g].state = "IN_PROGRESS", ![g].token = r,
                                        ![g].outcome = None,
                                        ![g].lease_until = req[r].now + CLAIM_LEASE]
            /\ req' = [req EXCEPT ![r].phase = "executing", ![r].claim = g]
            /\ Lose(g)
    /\ UNCHANGED <<schema, clock, effects, stalled>>

-----------------------------------------------------------------------------
(* The governed effect: _create_case, _create_submission.                   *)

(* History only: a terminal outcome stored when the lease is over.          *)
NoteStall(r) == stalled' = stalled \cup
    (IF clock < record[req[r].claim].lease_until THEN {} ELSE {req[r].claim})

(* The effect and complete() commit together.  acked is FALSE when the      *)
(* connection fails at COMMIT after the database committed: the request     *)
(* answers 503, and its release() finds no usable connection.               *)
CommitEffect(r, acked) ==
    /\ req[r].phase = "executing"
    /\ Fenced(r) /\ Writable(req[r].claim)
    /\ record' = [record EXCEPT ![req[r].claim] = FinishedRow(r, "COMPLETED")]
    /\ effects' = effects \cup {r}
    /\ Answer(r, IF acked THEN "CREATED" ELSE "UNAVAILABLE")
    /\ NoteStall(r)
    /\ UNCHANGED <<schema, clock, lost>>

(* A deterministic business refusal commits fail_terminal() and no effect.  *)
CommitRefusal(r) ==
    /\ req[r].phase = "executing"
    /\ Fenced(r) /\ Writable(req[r].claim)
    /\ record' = [record EXCEPT ![req[r].claim] = FinishedRow(r, "FAILED_TERMINAL")]
    /\ Answer(r, "REFUSED")
    /\ NoteStall(r)
    /\ UNCHANGED <<schema, clock, effects, lost>>

(* StaleClaim: _finish matches no row and the effect's transaction rolls    *)
(* back.                                                                    *)
StaleExecutor(r) ==
    /\ req[r].phase = "executing"
    /\ ~Fenced(r)
    /\ Answer(r, "IN_PROGRESS")
    /\ UNCHANGED <<schema, clock, record, effects, lost, stalled>>

(* A database error rolls the effect back: any error at any time, and the   *)
(* trigger's error when the row has been superseded.                        *)
EffectOutsideMutant(r) ==
    /\ req[r].phase = "executing"
    /\ req' = [req EXCEPT ![r].phase = "releasing"]
    /\ effects' = effects \cup {r}
    /\ UNCHANGED <<schema, clock, record, lost, stalled>>
EffectFails(r) ==
    /\ req[r].phase = "executing"
    /\ req' = [req EXCEPT ![r].phase = "releasing"]
    /\ UNCHANGED <<schema, clock, record, effects, lost, stalled>>

(* release() is best effort; the request answers 503 either way.            *)
Release(r, succeeds) ==
    /\ req[r].phase = "releasing"
    /\ succeeds => Fenced(r) /\ Writable(req[r].claim)
    /\ record' = IF succeeds
                 THEN [record EXCEPT ![req[r].claim] = FinishedRow(r, "RELEASED")]
                 ELSE record
    /\ Answer(r, "UNAVAILABLE")
    /\ UNCHANGED <<schema, clock, effects, lost, stalled>>

(* The process dies: an open transaction rolls back and the claim stays.    *)
Crash(r) ==
    /\ req[r].phase \notin {"idle", "answered", "crashed"}
    /\ req' = [req EXCEPT ![r].phase = "crashed"]
    /\ UNCHANGED <<schema, clock, record, effects, lost, stalled>>

Tick ==
    /\ clock < MAX_CLOCK
    /\ clock' = clock + 1
    /\ UNCHANGED <<schema, record, req, effects, lost, stalled>>

Claim(r) ==
    \/ \E d \in Digests : Begin(r, d)
    \/ ClaimInsert(r)
    \/ \E g \in Requests :
          \/ ClaimExpired(r, g)
          \/ ClaimReused(r, g)
          \/ ClaimReplay(r, g)
          \/ ClaimInProgress(r, g)
          \/ ClaimTakeable(r, g)
    \/ Supersede(r)
    \/ TakeOver(r)

Execute(r) ==
    \/ \E acked \in BOOLEAN : CommitEffect(r, acked)
    \/ CommitRefusal(r)
    \/ StaleExecutor(r)
    \/ EffectFails(r)
    \/ \E succeeds \in BOOLEAN : Release(r, succeeds)

Next == Tick \/ \E r \in Requests : Claim(r) \/ Execute(r) \/ Crash(r)

Spec == Init /\ [][Next]_vars

-----------------------------------------------------------------------------
(* Properties.                                                              *)

(* "Completion commits in the same transaction as the governed effect,      *)
(* fenced by the claim token, so a stale executor's effect rolls back"      *)
(* (idempotency.py:6): a request whose row was taken over or superseded     *)
(* before it committed never gets its effect committed afterwards.          *)
FencedEffects == lost \cap effects = {}

(* What a row says happened did happen: a COMPLETED row names an effect     *)
(* that is committed, for the row's own request body; a FAILED_TERMINAL or  *)
(* RELEASED row was stored by an executor that committed nothing.  Every    *)
(* row has its columns' types and satisfies ck_api_idempotency_state.       *)
OutcomesTruthful ==
    /\ TypeOK
    /\ \A g \in Requests :
          /\ record[g].state = "COMPLETED" =>
                /\ record[g].outcome \in effects
                /\ req[record[g].outcome].digest = record[g].digest
          /\ record[g].state \in {"FAILED_TERMINAL", "RELEASED"} =>
                record[g].outcome \notin effects

(* A replayed answer repeats an outcome that a request with the same body   *)
(* stored under the same row within the row's window: a committed effect or *)
(* a business refusal, never another body's outcome and never an expired    *)
(* one.                                                                     *)
ReplaysTruthful ==
    \A r \in Requests : req[r].answer = "REPLAYED" =>
        LET q == req[r].resource
            g == req[r].source
        IN /\ q \in Requests \ {r}
           /\ req[q].claim = g
           /\ req[q].digest = req[r].digest
           /\ q \in effects \/ req[q].answer = "REFUSED"
           /\ req[r].now < record[g].active_until

(* A superseded row is sealed: it never changes again, and no executor that *)
(* claimed it gets an effect committed.                                     *)
SupersededSealed ==
    [][\A g \in Requests : record[g].superseded =>
          /\ record'[g] = record[g]
          /\ \A r \in effects' \ effects : req[r].claim # g]_vars

(* "returns the original outcome without executing again" (OPS-001 section  *)
(* 4): a row's effect is committed at most once.  The code does not         *)
(* guarantee this; see OnceUnlessStalled.                                   *)
AtMostOneEffect ==
    \A r, q \in effects : req[r].claim = req[q].claim => r = q

(* What the code does guarantee: a row's effect is committed at most once   *)
(* as long as no executor stores the row's outcome after its own lease has  *)
(* ended.                                                                   *)
OnceUnlessStalled ==
    \A r, q \in effects :
        req[r].claim = req[q].claim /\ req[r].claim \notin stalled => r = q

(* Likewise a stored terminal outcome stays what it is.                     *)
TerminalUnlessStalled ==
    [][\A g \in Requests :
          record[g].state \in Terminal /\ g \notin stalled =>
             /\ record'[g].state = record[g].state
             /\ record'[g].outcome = record[g].outcome]_vars

-----------------------------------------------------------------------------
(* The inductive invariant behind the theorems of IdempotencyProofs.        *)

PreClaim == {"idle", "claiming", "superseding", "taking_over"}

(* What each phase knows of the row it works on.                            *)
PhaseInv ==
    \A r \in Requests :
        /\ req[r].now <= clock
        /\ req[r].phase \in PreClaim =>
              /\ req[r].claim = None /\ req[r].answer = "NONE"
              /\ r \notin effects /\ record[r] = NoRow
        /\ req[r].phase # "idle" => req[r].digest \in Digests
        /\ req[r].claim # None => record[req[r].claim].state # "ABSENT"
        /\ req[r].phase \in {"executing", "releasing"} =>
              req[r].claim # None /\ r \notin effects /\ req[r].answer = "NONE"
        /\ r \in effects => req[r].phase = "answered" /\ req[r].claim # None
                            /\ req[r].answer # "REFUSED"
        /\ req[r].phase = "superseding" =>
              req[r].seen # None /\ record[req[r].seen].state # "ABSENT"
        /\ req[r].phase = "taking_over" =>
              /\ req[r].seen # None /\ req[r].seenToken # None
              /\ req[req[r].seenToken].claim = req[r].seen
              /\ record[req[r].seen].digest = req[r].digest

(* A row belongs to the request whose token it carries; only that request   *)
(* can have stored the row's outcome.                                       *)
RowInv ==
    \A g \in Requests :
        IF record[g].state = "ABSENT" THEN record[g] = NoRow
        ELSE LET t == record[g].token IN
             /\ req[t].claim = g /\ req[t].digest = record[g].digest
             /\ record[g].state # "IN_PROGRESS" => record[g].outcome = t
             /\ t \in effects <=> record[g].state = "COMPLETED"
             /\ record[g].state = "FAILED_TERMINAL" => req[t].answer = "REFUSED"
             /\ record[g].state \in Terminal => req[t].phase = "answered"

(* A request that lost its claim is fenced out for good.                    *)
LostInv ==
    \A r \in lost : /\ r \notin effects /\ req[r].claim # None
                    /\ \/ record[req[r].claim].token # r
                       \/ record[req[r].claim].superseded

(* On a row no executor stalled on, the effect is the token holder's, and a *)
(* pending compare-and-swap that can still match finds no terminal outcome. *)
StallInv ==
    \A g \in Requests \ stalled :
        /\ \A r \in effects : req[r].claim = g =>
              record[g].token = r /\ record[g].state = "COMPLETED"
        /\ \A r \in Requests :
              /\ req[r].phase = "taking_over" /\ req[r].seen = g
              /\ req[r].seenToken = record[g].token
              => \/ record[g].state = "RELEASED"
                 \/ record[g].state = "IN_PROGRESS" /\ record[g].lease_until <= clock

IInv == TypeOK /\ PhaseInv /\ RowInv /\ LostInv /\ StallInv /\ ReplaysTruthful
=============================================================================

----------------------------- MODULE Evaluation -----------------------------
(***************************************************************************)
(* Governed evaluations: createEvaluations, the worker with its fenced     *)
(* completion, and crash recovery (trustlens_backend/evaluation.py), over  *)
(* the tables and triggers of migration 0006.                              *)
(*                                                                         *)
(* The evaluations of one submission are modelled; they share the one      *)
(* input envelope.  Each is requested by a request of its own, whose       *)
(* idempotency claim is that of module Idempotency.  A worker is a thread  *)
(* of a server process that executes run_evaluation for one evaluation     *)
(* after another, as a background task of a response or of the recovery    *)
(* loop.  Its fence token is a fresh UUID; an evaluation enters RUNNING at *)
(* most once, so within an evaluation the worker names the token.          *)
(*                                                                         *)
(* A step is one committed transaction, one unlocked read or one call of   *)
(* the content store or of the kernel.                                     *)
(***************************************************************************)
EXTENDS Naturals, Sequences

CONSTANTS
    Evaluations,  \* evaluation identifiers
    Processes,    \* server processes
    Workers,      \* worker threads: pairs of a process and a number
    Bundles,      \* knowledge bundles, by content digest
    Envelopes,    \* digests an extraction of the evidence may yield
    None,         \* SQL NULL
    MAX_FAULTS    \* bound of the model: crashes and transient errors

ASSUME WorkersAssumption == Workers \subseteq Processes \X Nat
ASSUME FaultsAssumption == MAX_FAULTS \in Nat
ASSUME EvaluationNoneAssumption ==
    None \notin Workers \cup Bundles \cup Envelopes \cup Evaluations

VARIABLES
    request,     \* the creating requests' local state, by evaluation
    envelope,    \* envelope_sha256 of the submission's input_envelope_record
    evaluation,  \* the evaluation rows
    result,      \* the detection_result rows, by evaluation
    audit,       \* audit events, by evaluation
    worker,      \* the workers' local state
    running,     \* _running, by process
    eligible,    \* bundles whose governance_eligibility is ELIGIBLE
    blocked,     \* history: evaluations a withdrawal found unchecked
    faults       \* crashes and transient errors so far

vars == <<request, envelope, evaluation, result, audit, worker, running,
          eligible, blocked, faults>>

Failed == {"FAILED_PRECONDITION", "FAILED_INTEGRITY", "FAILED_INFRASTRUCTURE"}
Statuses == {"ABSENT", "REQUESTED", "RUNNING", "COMPLETED"} \cup Failed
Origins == {"INITIAL", "RETRY_AFTER_FAILURE", "AI_RE_EXTRACTION", "RE_EVALUATION"}
Events == {"EVALUATION_STARTED", "RESULT_PERSISTED", "EVALUATION_COMPLETED",
           "EVALUATION_FAILED"}

(* TERMINAL: the states a predecessor must be in.                          *)
SettledMutant(s) == s # "ABSENT"
Settled(s) == s = "COMPLETED" \/ s \in Failed

Request == [phase: {"idle", "deriving", "storing", "inserting", "done"},
            origin: Origins \cup {None}, predecessor: Evaluations \cup {None},
            envelope: Envelopes \cup {None}, bundle: Bundles \cup {None}]
Row == [status: Statuses, token: Workers \cup {None}, lease: {"NULL", "LIVE", "EXPIRED"},
        pin: Bundles \cup {None}, bundle: Bundles \cup {None}, origin: Origins \cup {None},
        predecessor: Evaluations \cup {None}, envelope: Envelopes \cup {None}]
Result == [token: Workers, bundle: Bundles]
Worker == [phase: {"idle", "reading", "checking", "refused", "claiming", "computing",
                   "computed", "rejected", "unsaved"},
           evaluation: Evaluations \cup {None}]

ASSUME ResultNoneAssumption == None \notin Result

NoRow == [status |-> "ABSENT", token |-> None, lease |-> "NULL", pin |-> None,
          bundle |-> None, origin |-> None, predecessor |-> None, envelope |-> None]
IdleWorker == [phase |-> "idle", evaluation |-> None]

(* tg_evaluation_transition_guard, for the statuses this code writes.      *)
MayMove(s, t) ==
    \/ s = "REQUESTED" /\ t \in {"RUNNING", "FAILED_PRECONDITION"}
    \/ s = "RUNNING" /\ t \in {"COMPLETED", "FAILED_INTEGRITY", "FAILED_INFRASTRUCTURE"}

Init ==
    /\ request = [e \in Evaluations |->
                    [phase |-> "idle", origin |-> None, predecessor |-> None,
                     envelope |-> None, bundle |-> None]]
    /\ envelope = None
    /\ evaluation = [e \in Evaluations |-> NoRow]
    /\ result = [e \in Evaluations |-> None]
    /\ audit = [e \in Evaluations |-> <<>>]
    /\ worker = [w \in Workers |-> IdleWorker]
    /\ running = [p \in Processes |-> {}]
    /\ eligible = Bundles
    /\ blocked = {}
    /\ faults = 0

Fault == faults < MAX_FAULTS /\ faults' = faults + 1

-----------------------------------------------------------------------------
(* createEvaluations.                                                      *)

(* _origin, read without a lock long before the insert.                    *)
Origin(predecessor, ai) ==
    CASE predecessor = None -> "INITIAL"
      [] predecessor # None /\ evaluation[predecessor].status = "FAILED_INFRASTRUCTURE" ->
            "RETRY_AFTER_FAILURE"
      [] OTHER -> IF ai THEN "AI_RE_EXTRACTION" ELSE "RE_EVALUATION"

Receive(e, predecessor, ai) ==
    /\ request[e].phase = "idle"
    /\ predecessor # None => Settled(evaluation[predecessor].status)
    /\ request' = [request EXCEPT ![e].phase = "deriving",
                                  ![e].origin = Origin(predecessor, ai),
                                  ![e].predecessor = predecessor]
    /\ UNCHANGED <<envelope, evaluation, result, audit, worker, running, eligible,
                   blocked, faults>>

(* Extraction against the active bundle b derives the envelope v; then     *)
(* _store_envelope_once looks for the stored one.  A different stored      *)
(* envelope fails closed, an equal one is reused.                          *)
Derive(e, b, v) ==
    /\ request[e].phase = "deriving"
    /\ b \in eligible
    /\ request' = [request EXCEPT ![e].bundle = b, ![e].envelope = v,
                                  ![e].phase = CASE envelope = None -> "storing"
                                                 [] envelope = v -> "inserting"
                                                 [] OTHER -> "done"]
    /\ UNCHANGED <<envelope, evaluation, result, audit, worker, running, eligible,
                   blocked, faults>>

(* The record is inserted ON CONFLICT DO NOTHING; when another request was *)
(* first, the one retry compares with what that request stored.            *)
StoreEnvelope(e) ==
    /\ request[e].phase = "storing"
    /\ envelope' = IF envelope = None THEN request[e].envelope ELSE envelope
    /\ request' = [request EXCEPT ![e].phase =
                      IF envelope' = request[e].envelope THEN "inserting" ELSE "done"]
    /\ UNCHANGED <<evaluation, result, audit, worker, running, eligible, blocked, faults>>

(* The effect transaction: the evaluation, its governed artifact, which    *)
(* names the bundle, and the audit event.                                  *)
Insert(e) ==
    /\ request[e].phase = "inserting"
    /\ evaluation' = [evaluation EXCEPT ![e] =
          [NoRow EXCEPT !.status = "REQUESTED", !.bundle = request[e].bundle,
                        !.origin = request[e].origin, !.envelope = request[e].envelope,
                        !.predecessor = request[e].predecessor]]
    /\ audit' = [audit EXCEPT ![e] = Append(@, "EVALUATION_STARTED")]
    /\ request' = [request EXCEPT ![e].phase = "done"]
    /\ blocked' = IF request[e].bundle \in eligible THEN blocked ELSE blocked \cup {e}
    /\ UNCHANGED <<envelope, result, worker, running, eligible, faults>>

(* Any refusal or error after the claim: nothing is committed.             *)
CreateFails(e) ==
    /\ request[e].phase \in {"deriving", "storing", "inserting"}
    /\ request' = [request EXCEPT ![e].phase = "done"]
    /\ Fault
    /\ UNCHANGED <<envelope, evaluation, result, audit, worker, running, eligible, blocked>>

-----------------------------------------------------------------------------
(* The worker.                                                             *)

Goto(w, phase) == worker' = [worker EXCEPT ![w].phase = phase]

(* dispatch's finally clause.                                              *)
Done(w) ==
    /\ worker' = [worker EXCEPT ![w] = IdleWorker]
    /\ running' = [running EXCEPT ![w[1]] = @ \ {worker[w].evaluation}]

At(w, phase, e) == worker[w].phase = phase /\ worker[w].evaluation = e

(* dispatch, of an evaluation that its response or recovery lists as       *)
(* REQUESTED; one that has left the status since is only read and dropped. *)
Dispatch(w, e) ==
    /\ worker[w].phase = "idle"
    /\ evaluation[e].status = "REQUESTED"
    /\ e \notin running[w[1]]
    /\ worker' = [worker EXCEPT ![w] = [phase |-> "reading", evaluation |-> e]]
    /\ running' = [running EXCEPT ![w[1]] = @ \cup {e}]
    /\ UNCHANGED <<request, envelope, evaluation, result, audit, eligible, blocked, faults>>

(* The row and its artifact; intact is whether the artifact's digest       *)
(* matches.                                                                *)
ReadRow(w, e, intact) ==
    /\ At(w, "reading", e)
    /\ evaluation[e].status = "REQUESTED"
    /\ Goto(w, IF intact THEN "checking" ELSE "refused")
    /\ UNCHANGED <<request, envelope, evaluation, result, audit, running, eligible,
                   blocked, faults>>

NotRequested(w, e) ==
    /\ At(w, "reading", e)
    /\ evaluation[e].status # "REQUESTED"
    /\ Done(w)
    /\ UNCHANGED <<request, envelope, evaluation, result, audit, eligible, blocked, faults>>

(* The eligibility of the artifact's bundle, then its verification.        *)
UncheckedMutant(w, e, valid) ==
    /\ At(w, "checking", e)
    /\ Goto(w, IF valid THEN "claiming" ELSE "refused")
    /\ UNCHANGED <<request, envelope, evaluation, result, audit, running, eligible,
                   blocked, faults>>
CheckBundle(w, e, valid) ==
    /\ At(w, "checking", e)
    /\ Goto(w, IF evaluation[e].bundle \in eligible /\ valid THEN "claiming" ELSE "refused")
    /\ UNCHANGED <<request, envelope, evaluation, result, audit, running, eligible,
                   blocked, faults>>

(* _fail_precondition: compare-and-set on REQUESTED.                       *)
DoubleAuditMutant(w, e) ==
    /\ At(w, "refused", e)
    /\ evaluation' = IF evaluation[e].status = "REQUESTED"
                     THEN [evaluation EXCEPT ![e].status = "FAILED_PRECONDITION"]
                     ELSE evaluation
    /\ audit' = [audit EXCEPT ![e] = Append(@, "EVALUATION_FAILED")]
    /\ Done(w)
    /\ UNCHANGED <<request, envelope, result, eligible, blocked, faults>>
FailPrecondition(w, e) ==
    /\ At(w, "refused", e)
    /\ IF evaluation[e].status = "REQUESTED"
       THEN /\ evaluation' = [evaluation EXCEPT ![e].status = "FAILED_PRECONDITION"]
            /\ audit' = [audit EXCEPT ![e] = Append(@, "EVALUATION_FAILED")]
       ELSE UNCHANGED <<evaluation, audit>>
    /\ Done(w)
    /\ UNCHANGED <<request, envelope, result, eligible, blocked, faults>>

(* REQUESTED -> RUNNING with the fence token, the lease and the pins.      *)
Claim(w, e) ==
    /\ At(w, "claiming", e)
    /\ evaluation[e].status = "REQUESTED"
    /\ evaluation' = [evaluation EXCEPT ![e].status = "RUNNING", ![e].token = w,
                                        ![e].lease = "LIVE",
                                        ![e].pin = evaluation[e].bundle]
    /\ Goto(w, "computing")
    /\ UNCHANGED <<request, envelope, result, audit, running, eligible, blocked, faults>>

ClaimedElsewhere(w, e) ==
    /\ At(w, "claiming", e)
    /\ evaluation[e].status # "REQUESTED"
    /\ Done(w)
    /\ UNCHANGED <<request, envelope, evaluation, result, audit, eligible, blocked, faults>>

(* The kernel computes the result; accepted is FALSE when it raises or     *)
(* _check_document finds other pins.                                       *)
Compute(w, e, accepted) ==
    /\ At(w, "computing", e)
    /\ Goto(w, IF accepted THEN "computed" ELSE "rejected")
    /\ UNCHANGED <<request, envelope, evaluation, result, audit, running, eligible,
                   blocked, faults>>

Held(w, e) == evaluation[e].status = "RUNNING" /\ evaluation[e].token = w

(* _complete: result, projection, audit and status in one transaction.     *)
(* The lease is not looked at.  When the acknowledgement is lost the       *)
(* worker goes on to _fail_running.                                        *)
UnfencedMutant(w, e, acked) ==
    /\ At(w, "computed", e)
    /\ result' = [result EXCEPT ![e] = [token |-> w, bundle |-> evaluation[e].pin]]
    /\ audit' = [audit EXCEPT ![e] = @ \o <<"RESULT_PERSISTED", "EVALUATION_COMPLETED">>]
    /\ Done(w)
    /\ UNCHANGED <<request, envelope, evaluation, eligible, blocked, faults>>
Complete(w, e, acked) ==
    /\ At(w, "computed", e)
    /\ Held(w, e)
    /\ MayMove(evaluation[e].status, "COMPLETED")
    /\ result' = [result EXCEPT ![e] = [token |-> w, bundle |-> evaluation[e].pin]]
    /\ audit' = [audit EXCEPT ![e] = @ \o <<"RESULT_PERSISTED", "EVALUATION_COMPLETED">>]
    /\ evaluation' = [evaluation EXCEPT ![e].status = "COMPLETED"]
    /\ IF acked THEN Done(w) /\ UNCHANGED faults
                ELSE Goto(w, "unsaved") /\ Fault /\ UNCHANGED running
    /\ UNCHANGED <<request, envelope, eligible, blocked>>

Stale(w, e) ==
    /\ At(w, "computed", e)
    /\ ~Held(w, e)
    /\ Done(w)
    /\ UNCHANGED <<request, envelope, evaluation, result, audit, eligible, blocked, faults>>

CompleteFails(w, e) ==
    /\ At(w, "computed", e)
    /\ Goto(w, "unsaved")
    /\ Fault
    /\ UNCHANGED <<request, envelope, evaluation, result, audit, running, eligible, blocked>>

(* A failed row: the token is cleared so that no result can name it.       *)
FailedRow(e, status) == [evaluation[e] EXCEPT !.status = status, !.token = None]

(* _fail_running, after a rejected result or an unsaved one.               *)
FailRunning(w, e) ==
    LET status == IF worker[w].phase = "rejected" THEN "FAILED_INTEGRITY"
                                                  ELSE "FAILED_INFRASTRUCTURE" IN
    /\ At(w, "rejected", e) \/ At(w, "unsaved", e)
    /\ IF Held(w, e)
       THEN /\ MayMove(evaluation[e].status, status)
            /\ evaluation' = [evaluation EXCEPT ![e] = FailedRow(e, status)]
            /\ audit' = [audit EXCEPT ![e] = Append(@, "EVALUATION_FAILED")]
       ELSE UNCHANGED <<evaluation, audit>>
    /\ Done(w)
    /\ UNCHANGED <<request, envelope, result, eligible, blocked, faults>>

(* An exception that run_evaluation lets escape, swallowed by dispatch.    *)
RunFails(w) ==
    /\ worker[w].phase # "idle"
    /\ Done(w)
    /\ Fault
    /\ UNCHANGED <<request, envelope, evaluation, result, audit, eligible, blocked>>

-----------------------------------------------------------------------------
(* Crashes, time and recovery.                                             *)

Crash(p) ==
    /\ Fault
    /\ running' = [running EXCEPT ![p] = {}]
    /\ worker' = [w \in Workers |-> IF w[1] = p THEN IdleWorker ELSE worker[w]]
    /\ UNCHANGED <<request, envelope, evaluation, result, audit, eligible, blocked>>

LeaseExpires(e) ==
    /\ evaluation[e].status = "RUNNING"
    /\ evaluation[e].lease = "LIVE"
    /\ evaluation' = [evaluation EXCEPT ![e].lease = "EXPIRED"]
    /\ UNCHANGED <<request, envelope, result, audit, worker, running, eligible, blocked,
                   faults>>

(* The first transaction of recover(); what it dispatches is Dispatch.     *)
NeverFencesMutant == FALSE /\ UNCHANGED vars
Recover ==
    LET expired == {e \in Evaluations : /\ evaluation[e].status = "RUNNING"
                                        /\ evaluation[e].lease = "EXPIRED"} IN
    /\ expired # {}
    /\ evaluation' = [e \in Evaluations |-> IF e \in expired
                                            THEN FailedRow(e, "FAILED_INFRASTRUCTURE")
                                            ELSE evaluation[e]]
    /\ audit' = [e \in Evaluations |-> IF e \in expired
                                       THEN Append(audit[e], "EVALUATION_FAILED")
                                       ELSE audit[e]]
    /\ UNCHANGED <<request, envelope, result, worker, running, eligible, blocked, faults>>

(* Governance withdraws a bundle; done by an operator, not by this code.   *)
(* The evaluations a worker has already checked may still begin.           *)
Withdraw(b) ==
    /\ b \in eligible
    /\ eligible' = eligible \ {b}
    /\ blocked' = blocked \cup
          {e \in Evaluations : /\ evaluation[e].status = "REQUESTED"
                               /\ evaluation[e].bundle = b
                               /\ \A w \in Workers : ~At(w, "claiming", e)}
    /\ UNCHANGED <<request, envelope, evaluation, result, audit, worker, running, faults>>

Create(e) ==
    \/ \E predecessor \in Evaluations \cup {None}, ai \in BOOLEAN :
          Receive(e, predecessor, ai)
    \/ \E b \in Bundles, v \in Envelopes : Derive(e, b, v)
    \/ StoreEnvelope(e)
    \/ Insert(e)
    \/ CreateFails(e)

(* What a worker does unless an exception escapes.                         *)
Run(w, e) ==
    \/ \E intact \in BOOLEAN : ReadRow(w, e, intact)
    \/ NotRequested(w, e)
    \/ \E valid \in BOOLEAN : CheckBundle(w, e, valid)
    \/ FailPrecondition(w, e)
    \/ Claim(w, e)
    \/ ClaimedElsewhere(w, e)
    \/ \E accepted \in BOOLEAN : Compute(w, e, accepted)
    \/ \E acked \in BOOLEAN : Complete(w, e, acked)
    \/ Stale(w, e)
    \/ CompleteFails(w, e)
    \/ FailRunning(w, e)

Next ==
    \/ \E e \in Evaluations : Create(e) \/ LeaseExpires(e)
    \/ \E w \in Workers :
          \/ \E e \in Evaluations : Dispatch(w, e) \/ Run(w, e)
          \/ RunFails(w)
    \/ \E p \in Processes : Crash(p)
    \/ Recover
    \/ \E b \in Bundles : Withdraw(b)

(* The recovery loop of every process lists and dispatches REQUESTED work  *)
(* and fences expired leases every 30 s, a worker thread goes on, and time *)
(* passes.                                                                 *)
Fairness ==
    /\ \A w \in Workers : /\ WF_vars(\E e \in Evaluations : Dispatch(w, e))
                          /\ WF_vars(\E e \in Evaluations : Run(w, e))
    /\ \A e \in Evaluations : WF_vars(LeaseExpires(e))
    /\ WF_vars(Recover)

Spec == Init /\ [][Next]_vars
FairSpec == Spec /\ Fairness

-----------------------------------------------------------------------------
(* Properties.                                                              *)

(* The rows have their types and satisfy the CHECK constraints              *)
(* ck_evaluation_fence_held_while_executing, _fence_cleared_when_failed,    *)
(* _pins_after_start and _origin_predecessor.                               *)
TypeOK ==
    /\ request \in [Evaluations -> Request]
    /\ envelope \in Envelopes \cup {None}
    /\ evaluation \in [Evaluations -> Row]
    /\ result \in [Evaluations -> Result \cup {None}]
    /\ audit \in [Evaluations -> Seq(Events)]
    /\ worker \in [Workers -> Worker]
    /\ running \in [Processes -> SUBSET Evaluations]
    /\ eligible \subseteq Bundles
    /\ blocked \subseteq Evaluations
    /\ faults \in 0..MAX_FAULTS
    /\ \A e \in Evaluations : LET row == evaluation[e] IN
          /\ row.status = "RUNNING" => row.token # None
          /\ row.status \in Failed => row.token = None
          /\ row.status \notin {"ABSENT", "REQUESTED", "FAILED_PRECONDITION"} => row.pin # None
          /\ row.status # "ABSENT" => (row.origin = "INITIAL" <=> row.predecessor = None)

(* "A stale or fenced worker matches zero rows and rolls back" and a result *)
(* exists if and only if its evaluation is COMPLETED (evaluation.py:11,     *)
(* DATA-001-WP2 section 12.1): whatever workers, recovery and crashes do, a *)
(* result belongs to the execution that holds the evaluation's token and to *)
(* the bundle its artifact was derived with.                                *)
ResultsFenced ==
    \A e \in Evaluations :
        /\ evaluation[e].status = "COMPLETED" <=> result[e] # None
        /\ result[e] # None => /\ result[e].token = evaluation[e].token
                               /\ result[e].bundle = evaluation[e].pin
                               /\ evaluation[e].pin = evaluation[e].bundle

(* The audit events of an evaluation in status s.                           *)
Trail(s) ==
    CASE s = "ABSENT" -> <<>>
      [] s \in {"REQUESTED", "RUNNING"} -> <<"EVALUATION_STARTED">>
      [] s \in Failed -> <<"EVALUATION_STARTED", "EVALUATION_FAILED">>
      [] OTHER -> <<"EVALUATION_STARTED", "RESULT_PERSISTED", "EVALUATION_COMPLETED">>

(* Every outcome is audited exactly once, in order, however many workers    *)
(* and recoveries dealt with the evaluation.                                *)
AuditAccounts == \A e \in Evaluations : audit[e] = Trail(evaluation[e].status)

(* "One envelope per input_id: an identical envelope is reused; a different *)
(* one fails closed" (_store_envelope), also when several requests store it *)
(* at once: every evaluation was derived from the stored envelope.          *)
OneEnvelope ==
    \A e \in Evaluations : evaluation[e].status # "ABSENT" =>
        envelope # None /\ evaluation[e].envelope = envelope

(* The origin is derived from a predecessor read without a lock before the  *)
(* extraction, yet stays true of the predecessor: RETRY_AFTER_FAILURE       *)
(* exactly when it FAILED_INFRASTRUCTURE, and no predecessor is unfinished. *)
OriginsStable ==
    \A e \in Evaluations : LET p == evaluation[e].predecessor IN p # None =>
        /\ evaluation[p].status \in Failed \cup {"COMPLETED"}
        /\ evaluation[e].origin = "RETRY_AFTER_FAILURE" <=>
              evaluation[p].status = "FAILED_INFRASTRUCTURE"

(* The evaluation rows cohere: they satisfy the table's CHECKs, derive from *)
(* the one envelope and name a predecessor that ended as they say, whatever *)
(* requests, workers and recoveries did meanwhile.                          *)
RowsCoherent == TypeOK /\ OneEnvelope /\ OriginsStable

(* "once withdrawal is effective, new evaluations are blocked" (ARCH-007):  *)
(* an evaluation whose bundle is withdrawn before any worker has checked    *)
(* the bundle, or before the evaluation is inserted, never runs.            *)
WithdrawalBlocks ==
    \A e \in blocked : evaluation[e].status \in {"REQUESTED", "FAILED_PRECONDITION"}

(* API_STATE.                                                               *)
ApiState(s) ==
    CASE s = "REQUESTED" -> "QUEUED"
      [] s \in Failed -> "FAILED"
      [] OTHER -> s

Api == INSTANCE EvaluationApi WITH
          state <- [e \in Evaluations |-> ApiState(evaluation[e].status)],
          pin <- [e \in Evaluations |-> evaluation[e].pin],
          result <- [e \in Evaluations |-> IF result[e] = None THEN None
                                                               ELSE result[e].bundle]

(* The implementation keeps the API's promise: its steps are the API's      *)
(* steps, terminal states and results never change, and once faults cease   *)
(* every accepted evaluation ends ("Recovery re-dispatches REQUESTED work   *)
(* and fences RUNNING work whose lease expired", evaluation.py:12).         *)
ImplementsApi == Api!Spec
=============================================================================

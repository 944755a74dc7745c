--------------------------- MODULE EvidenceIntake ---------------------------
(***************************************************************************)
(* Evidence intake: createEvidenceUpload, putEvidenceContent and           *)
(* finalizeEvidence (trustlens_backend/evidence.py) over PostgreSQL and    *)
(* the encrypted content store (content_store.py), with the triggers of    *)
(* migration 0004.                                                         *)
(*                                                                         *)
(* One evidence identifier is modelled: its upload intent, its             *)
(* evidence_item, its EVIDENCE_INGEST cross_store_operation and the        *)
(* objects written for it.  Every statement of the code is restricted to   *)
(* one identifier.  A member of Puts or Finals is a server thread that     *)
(* serves one PUT or finalize request after another.                       *)
(*                                                                         *)
(* A step is one committed transaction or one content-store call: no       *)
(* transaction spans the store, so anything may happen between two steps.  *)
(* The idempotency claim of finalizeEvidence is that of module             *)
(* Idempotency; here losing it is one more way in which a transaction      *)
(* rolls back.                                                             *)
(***************************************************************************)
EXTENDS Naturals, Sequences

CONSTANTS
    Puts,                \* threads serving putEvidenceContent
    Finals,              \* threads serving finalizeEvidence
    Bodies,              \* request bodies, told apart by digest and length
    None,                \* SQL NULL; a file that does not exist
    Damaged,             \* the content of an object that no longer authenticates
    MAX_WRITE_ATTEMPTS

ASSUME AttemptsAssumption == MAX_WRITE_ATTEMPTS \in Nat \ {0}
ASSUME BodiesAssumption == None \notin Bodies /\ Damaged \notin Bodies /\ None # Damaged
ASSUME LocatorAssumption == None \notin Puts \X (1..MAX_WRITE_ATTEMPTS)

VARIABLES
    intent,    \* the evidence_upload_intent row
    item,      \* the evidence_item row
    op,        \* the cross_store_operation row
    objects,   \* the content store, by locator
    audit,     \* audit events of this evidence, in order
    put,       \* the PUT threads' local state
    final,     \* the finalize threads' local state
    verdicts,  \* history: what finalize read of which object
    released   \* history: attempts released after their content was stored

vars == <<intent, item, op, objects, audit, put, final, verdicts, released>>

(* DATA-001-WP2 section 11; ABSENT is no row.                              *)
Stored == {"CONTENT_STORED", "INTEGRITY_VERIFIED", "FINALIZED"}
Retryable == {"RECEIVED", "CONTENT_PENDING", "FAILED_RETRYABLE"}
States == Stored \cup Retryable \cup {"ABSENT", "FAILED_TERMINAL", "INTEGRITY_FAILED"}
OpTerminal == {"FINALIZED", "FAILED_TERMINAL"}
Rejections == {"SIZE_EXCEEDED", "MEDIA_INVALID", "LENGTH_MISMATCH", "DIGEST_MISMATCH"}
Events == {"EVIDENCE_RECEIVED", "CONTENT_STORED", "FINALIZED", "INTEGRITY_FAILURE"}

(* A locator is random; the thread and the attempt that wrote the object   *)
(* name it.                                                                *)
Locators == Puts \X (1..MAX_WRITE_ATTEMPTS)

Intent == [state: {"ABSENT", "OPEN", "MATERIALIZED"}, accepts: SUBSET Bodies,
           rejection: Rejections \cup {None}]
Item == [state: States, body: Bodies \cup {None}, locator: Locators \cup {None}]
(* wait is next_attempt_not_before compared with now().                    *)
Op == [state: States, count: 0..MAX_WRITE_ATTEMPTS, wait: {"NULL", "FUTURE", "PAST"},
       ref: Locators \cup {None}]
PutLocal == [phase: {"idle", "writing", "written", "failed", "unrecorded", "unreported"},
             body: Bodies \cup {None}, number: 0..MAX_WRITE_ATTEMPTS,
             answer: {"NONE", "PROCESSING", "FINALIZED", "REJECTED", "CONFLICT",
                      "INVALID", "UNAVAILABLE"}]
FinalLocal == [phase: {"idle", "verifying", "deciding"}, locator: Locators \cup {None},
               body: Bodies \cup {None}, verdict: {"unread", "verified", "failed"},
               answer: {"NONE", "FINALIZED", "INTEGRITY_FAILURE", "CONFLICT", "UNAVAILABLE"}]

(* UPLOAD_STATE: the state the API shows.                                  *)
UploadState(s) ==
    CASE s \in {"ABSENT", "RECEIVED"} -> "AWAITING_CONTENT"
      [] s = "FINALIZED" -> "FINALIZED"
      [] s \in {"FAILED_TERMINAL", "INTEGRITY_FAILED"} -> "REJECTED"
      [] OTHER -> "PROCESSING"

(* tg_evidence_item_guard: the content_state moves the database allows,    *)
(* among the states this code writes.                                      *)
Moves == {<<"RECEIVED", "CONTENT_PENDING">>, <<"CONTENT_PENDING", "CONTENT_STORED">>,
          <<"CONTENT_PENDING", "FAILED_RETRYABLE">>, <<"CONTENT_STORED", "INTEGRITY_VERIFIED">>,
          <<"CONTENT_STORED", "FAILED_RETRYABLE">>, <<"CONTENT_STORED", "INTEGRITY_FAILED">>,
          <<"INTEGRITY_VERIFIED", "FINALIZED">>, <<"FAILED_RETRYABLE", "CONTENT_PENDING">>,
          <<"FAILED_RETRYABLE", "FAILED_TERMINAL">>, <<"FINALIZED", "INTEGRITY_FAILED">>}
MayMove(s, t) == s = t \/ <<s, t>> \in Moves

(* tg_cross_store_operation_guard: a terminal operation never changes.     *)
OpOpen == op.state \notin OpTerminal

Init ==
    /\ intent = [state |-> "ABSENT", accepts |-> {}, rejection |-> None]
    /\ item = [state |-> "ABSENT", body |-> None, locator |-> None]
    /\ op = [state |-> "ABSENT", count |-> 0, wait |-> "NULL", ref |-> None]
    /\ objects = [l \in Locators |-> None]
    /\ audit = <<>>
    /\ put = [p \in Puts |-> [phase |-> "idle", body |-> None, number |-> 0,
                              answer |-> "NONE"]]
    /\ final = [f \in Finals |-> [phase |-> "idle", locator |-> None, body |-> None,
                                  verdict |-> "unread", answer |-> "NONE"]]
    /\ verdicts = {}
    /\ released = {}

(* The effect transaction of createEvidenceUpload.  accepts are the bodies *)
(* that have the declared length and, when a digest was declared, that     *)
(* digest, and are UTF-8.                                                  *)
CreateUpload(accepts) ==
    /\ intent.state = "ABSENT"
    /\ intent' = [state |-> "OPEN", accepts |-> accepts, rejection |-> None]
    /\ op' = [state |-> "RECEIVED", count |-> 0, wait |-> "NULL", ref |-> None]
    /\ audit' = Append(audit, "EVIDENCE_RECEIVED")
    /\ UNCHANGED <<item, objects, put, final, verdicts, released>>

-----------------------------------------------------------------------------
(* putEvidenceContent, first transaction, under the locks of the intent,   *)
(* item and operation rows.                                                *)

Answered(p, b, a) ==
    put' = [put EXCEPT ![p] = [phase |-> "idle", body |-> b, number |-> 0, answer |-> a]]

Requested(p) == put[p].phase = "idle" /\ intent.state # "ABSENT"

(* The body is too large or not text: refused, and recorded on the intent  *)
(* as long as there is no item.                                            *)
PutUnreadable(p, category) ==
    /\ Requested(p)
    /\ intent' = IF item.state = "ABSENT" THEN [intent EXCEPT !.rejection = category]
                                          ELSE intent
    /\ Answered(p, None, "INVALID")
    /\ UNCHANGED <<item, op, objects, audit, final, verdicts, released>>

(* The first bytes do not match what was declared.                         *)
PutMismatch(p, b, category) ==
    /\ Requested(p)
    /\ item.state = "ABSENT"
    /\ b \notin intent.accepts
    /\ intent' = [intent EXCEPT !.rejection = category]
    /\ Answered(p, b, "INVALID")
    /\ UNCHANGED <<item, op, objects, audit, final, verdicts, released>>

PutConflict(p, b) ==
    /\ Requested(p)
    /\ item.state # "ABSENT"
    /\ item.body # b
    /\ Answered(p, b, "CONFLICT")
    /\ UNCHANGED <<intent, item, op, objects, audit, final, verdicts, released>>

SameBytes(b) == item.state # "ABSENT" /\ item.body = b

(* An identical re-PUT of content that is stored or failed for good.       *)
PutUnchanged(p, b) ==
    /\ Requested(p)
    /\ SameBytes(b)
    /\ item.state \notin Retryable
    /\ Answered(p, b, UploadState(item.state))
    /\ UNCHANGED <<intent, item, op, objects, audit, final, verdicts, released>>

(* The request gets as far as _begin_attempt: its item exists in a         *)
(* retryable state, or is inserted by this transaction.                    *)
Attempts(p, b) ==
    /\ Requested(p)
    /\ \/ SameBytes(b) /\ item.state \in Retryable
       \/ item.state = "ABSENT" /\ b \in intent.accepts

LiveLease == op.state \in {"CONTENT_PENDING", "FAILED_RETRYABLE"} /\ op.wait = "FUTURE"
Exhausted == op.state = "CONTENT_PENDING" /\ op.count >= MAX_WRITE_ATTEMPTS

PutWaits(p, b) ==
    /\ Attempts(p, b)
    /\ LiveLease
    /\ Answered(p, b, "UNAVAILABLE")
    /\ UNCHANGED <<intent, item, op, objects, audit, final, verdicts, released>>

(* The last permitted attempt never reported back: the upload is over.     *)
Terminate ==
    /\ MayMove(item.state, "FAILED_RETRYABLE")
    /\ op' = [op EXCEPT !.state = "FAILED_TERMINAL", !.wait = "NULL"]
    /\ item' = [item EXCEPT !.state = "FAILED_TERMINAL"]

PutExhaustedMutant(p, b) ==
    /\ Attempts(p, b) /\ ~LiveLease /\ Exhausted
    /\ Answered(p, b, "UNAVAILABLE")
    /\ UNCHANGED <<intent, item, op, objects, audit, final, verdicts, released>>
PutExhausted(p, b) ==
    /\ Attempts(p, b)
    /\ ~LiveLease
    /\ Exhausted
    /\ Terminate
    /\ Answered(p, b, "UNAVAILABLE")
    /\ UNCHANGED <<intent, objects, audit, final, verdicts, released>>

(* The first accepted bytes materialize the intent.                        *)
Materialized ==
    IF item.state = "ABSENT"
    THEN [intent EXCEPT !.state = "MATERIALIZED", !.rejection = None]
    ELSE intent

(* _begin_attempt: start or take over the content write under the next     *)
(* attempt number, the fencing token, with a fresh lease.                  *)
BeginAttempt(p, b) ==
    /\ Attempts(p, b)
    /\ ~LiveLease
    /\ ~Exhausted
    /\ op.state \in Retryable
    /\ op' = [op EXCEPT !.state = "CONTENT_PENDING", !.count = @ + 1, !.wait = "FUTURE"]
    /\ item' = [item EXCEPT !.state = "CONTENT_PENDING", !.body = b]
    /\ intent' = Materialized
    /\ put' = [put EXCEPT ![p] = [phase |-> "writing", body |-> b, number |-> op.count + 1,
                                  answer |-> "NONE"]]
    /\ UNCHANGED <<objects, audit, final, verdicts, released>>

-----------------------------------------------------------------------------
(* putEvidenceContent, the content write and the second transaction.       *)

Goto(p, phase) == put' = [put EXCEPT ![p].phase = phase]

Locator(p) == <<p, put[p].number>>

WriteStored(p) ==
    /\ put[p].phase = "writing"
    /\ objects' = [objects EXCEPT ![Locator(p)] = put[p].body]
    /\ Goto(p, "written")
    /\ UNCHANGED <<intent, item, op, audit, final, verdicts, released>>

(* ContentStoreUnavailable.  The object is published before the directory  *)
(* is synced, so a failed write may leave it behind.                       *)
WriteFailsMutant(p, left) ==
    /\ put[p].phase = "writing"
    /\ objects' = IF left THEN [objects EXCEPT ![Locator(p)] = put[p].body] ELSE objects
    /\ Goto(p, "written")
    /\ UNCHANGED <<intent, item, op, audit, final, verdicts, released>>
WriteFails(p, left) ==
    /\ put[p].phase = "writing"
    /\ objects' = IF left THEN [objects EXCEPT ![Locator(p)] = put[p].body] ELSE objects
    /\ Goto(p, "failed")
    /\ UNCHANGED <<intent, item, op, audit, final, verdicts, released>>

(* The condition of _fenced_update.                                        *)
StatelessFenceMutant(p) == TRUE
NumberlessFenceMutant(p) == op.state = "CONTENT_PENDING"
Fence(p) == op.count = put[p].number /\ op.state = "CONTENT_PENDING"

(* acked is FALSE when the commit succeeds and its acknowledgement is      *)
(* lost: the handler then goes on as after a rollback.                     *)
RecordStored(p, acked) ==
    /\ put[p].phase = "written"
    /\ Fence(p)
    /\ item.state = "CONTENT_PENDING" /\ item.locator = None
    /\ op' = [op EXCEPT !.state = "CONTENT_STORED", !.wait = "NULL", !.ref = Locator(p)]
    /\ item' = [item EXCEPT !.state = "CONTENT_STORED", !.locator = Locator(p)]
    /\ audit' = Append(audit, "CONTENT_STORED")
    /\ IF acked THEN Answered(p, put[p].body, UploadState("CONTENT_STORED"))
                ELSE Goto(p, "unrecorded")
    /\ UNCHANGED <<intent, objects, final, verdicts, released>>

(* _superseded_attempt: a fenced-out attempt reports the recorded state.   *)
SupersededMutant(p) ==
    /\ put[p].phase \in {"written", "failed"}
    /\ ~Fence(p)
    /\ Answered(p, put[p].body, "PROCESSING")
    /\ UNCHANGED <<intent, item, op, objects, audit, final, verdicts, released>>
Superseded(p) ==
    /\ put[p].phase \in {"written", "failed"}
    /\ ~Fence(p)
    /\ Answered(p, put[p].body, IF item.state \in Stored THEN UploadState(item.state)
                                                       ELSE "UNAVAILABLE")
    /\ UNCHANGED <<intent, item, op, objects, audit, final, verdicts, released>>

RecordFails(p) ==
    /\ put[p].phase = "written"
    /\ Goto(p, "unrecorded")
    /\ UNCHANGED <<intent, item, op, objects, audit, final, verdicts, released>>

(* _write_failed.  A terminal failure passes through FAILED_RETRYABLE.     *)
ReportFailure(p, acked) ==
    LET last == put[p].number >= MAX_WRITE_ATTEMPTS IN
    /\ put[p].phase = "failed"
    /\ Fence(p)
    /\ OpOpen
    /\ MayMove(item.state, "FAILED_RETRYABLE")
    /\ op' = [op EXCEPT !.state = IF last THEN "FAILED_TERMINAL" ELSE "FAILED_RETRYABLE",
                        !.wait = IF last THEN "NULL" ELSE "FUTURE"]
    /\ item' = [item EXCEPT !.state = op'.state]
    /\ IF acked THEN Answered(p, put[p].body, "UNAVAILABLE") ELSE Goto(p, "unreported")
    /\ UNCHANGED <<intent, objects, audit, final, verdicts, released>>

ReportFails(p) ==
    /\ put[p].phase = "failed"
    /\ Goto(p, "unreported")
    /\ UNCHANGED <<intent, item, op, objects, audit, final, verdicts, released>>

(* _release_attempt: best effort, only while the fence is held.            *)
Release(p, succeeds) ==
    /\ put[p].phase \in {"unrecorded", "unreported"}
    /\ succeeds => Fence(p)
    /\ op' = IF succeeds THEN [op EXCEPT !.wait = "PAST"] ELSE op
    /\ released' = IF succeeds /\ put[p].phase = "unrecorded"
                   THEN released \cup {put[p].number} ELSE released
    /\ Answered(p, put[p].body, "UNAVAILABLE")
    /\ UNCHANGED <<intent, item, objects, audit, final, verdicts>>

(* The process dies, or the first transaction's commit is not acknowledged *)
(* and the handler stops: the attempt's lease stays behind.                *)
Crash(p) ==
    /\ put[p].phase # "idle"
    /\ Answered(p, put[p].body, "NONE")
    /\ UNCHANGED <<intent, item, op, objects, audit, final, verdicts, released>>

(* The lease or the backoff elapses.                                       *)
TimePasses ==
    /\ op.wait = "FUTURE"
    /\ op' = [op EXCEPT !.wait = "PAST"]
    /\ UNCHANGED <<intent, item, objects, audit, put, final, verdicts, released>>

-----------------------------------------------------------------------------
(* finalizeEvidence.                                                       *)

Finished(f, a) == final' = [final EXCEPT ![f].phase = "idle", ![f].answer = a]

(* The item is read without a lock; its state decides what comes next.     *)
FinalRefuse(f) ==
    /\ final[f].phase = "idle" /\ intent.state # "ABSENT"
    /\ item.state \notin Stored
    /\ final' = [final EXCEPT ![f] = [phase |-> "idle", locator |-> None, body |-> None,
                                      verdict |-> "unread", answer |-> "CONFLICT"]]
    /\ UNCHANGED <<intent, item, op, objects, audit, put, verdicts, released>>

FinalRead(f) ==
    /\ final[f].phase = "idle" /\ intent.state # "ABSENT"
    /\ item.state \in Stored
    /\ final' = [final EXCEPT ![f] =
          [phase |-> IF item.state = "FINALIZED" THEN "deciding" ELSE "verifying",
           locator |-> item.locator, body |-> item.body, verdict |-> "unread",
           answer |-> "NONE"]]
    /\ UNCHANGED <<intent, item, op, objects, audit, put, verdicts, released>>

(* store.get and store.verify: only the item's own bytes verify.  A read   *)
(* error other than a missing file counts as an integrity failure.         *)
FinalVerify(f, verdict) ==
    /\ final[f].phase = "verifying"
    /\ verdict = "verified" => objects[final[f].locator] = final[f].body
    /\ final' = [final EXCEPT ![f].phase = "deciding", ![f].verdict = verdict]
    /\ verdicts' = verdicts \cup {<<final[f].locator, verdict>>}
    /\ UNCHANGED <<intent, item, op, objects, audit, put, released>>

(* The store or the database is unavailable, or the idempotency claim was  *)
(* taken over: nothing is committed.                                       *)
FinalAbort(f) ==
    /\ final[f].phase \in {"verifying", "deciding"}
    /\ Finished(f, "UNAVAILABLE")
    /\ UNCHANGED <<intent, item, op, objects, audit, put, verdicts, released>>

(* The decision is taken on the item's state under its row lock.           *)
FinalAlready(f) ==
    /\ final[f].phase = "deciding"
    /\ item.state = "FINALIZED"
    /\ Finished(f, "FINALIZED")
    /\ UNCHANGED <<intent, item, op, objects, audit, put, verdicts, released>>

FinalConflict(f) ==
    /\ final[f].phase = "deciding"
    /\ item.state \notin Stored
    /\ Finished(f, "CONFLICT")
    /\ UNCHANGED <<intent, item, op, objects, audit, put, verdicts, released>>

Undecided == item.state \in {"CONTENT_STORED", "INTEGRITY_VERIFIED"}

FinalReject(f, acked) ==
    /\ final[f].phase = "deciding"
    /\ Undecided
    /\ final[f].verdict # "verified"
    /\ MayMove(item.state, "INTEGRITY_FAILED") /\ OpOpen
    /\ item' = [item EXCEPT !.state = "INTEGRITY_FAILED"]
    /\ op' = [op EXCEPT !.state = "INTEGRITY_FAILED"]
    /\ audit' = Append(audit, "INTEGRITY_FAILURE")
    /\ Finished(f, IF acked THEN "INTEGRITY_FAILURE" ELSE "UNAVAILABLE")
    /\ UNCHANGED <<intent, objects, put, verdicts, released>>

(* CONTENT_STORED -> INTEGRITY_VERIFIED -> FINALIZED in one transaction.   *)
UnverifiedMutant(f, acked) ==
    /\ final[f].phase = "deciding"
    /\ Undecided
    /\ item' = [item EXCEPT !.state = "FINALIZED"]
    /\ op' = [op EXCEPT !.state = "FINALIZED"]
    /\ audit' = Append(audit, "FINALIZED")
    /\ Finished(f, IF acked THEN "FINALIZED" ELSE "UNAVAILABLE")
    /\ UNCHANGED <<intent, objects, put, verdicts, released>>
UnlockedMutant(f, acked) ==
    /\ final[f].phase = "deciding"
    /\ final[f].verdict = "verified"
    /\ item' = [item EXCEPT !.state = "FINALIZED"]
    /\ op' = [op EXCEPT !.state = "FINALIZED"]
    /\ audit' = Append(audit, "FINALIZED")
    /\ Finished(f, IF acked THEN "FINALIZED" ELSE "UNAVAILABLE")
    /\ UNCHANGED <<intent, objects, put, verdicts, released>>
FinalAccept(f, acked) ==
    /\ final[f].phase = "deciding"
    /\ Undecided
    /\ final[f].verdict = "verified"
    /\ MayMove(item.state, "INTEGRITY_VERIFIED") /\ OpOpen
    /\ item' = [item EXCEPT !.state = "FINALIZED"]
    /\ op' = [op EXCEPT !.state = "FINALIZED"]
    /\ audit' = Append(audit, "FINALIZED")
    /\ Finished(f, IF acked THEN "FINALIZED" ELSE "UNAVAILABLE")
    /\ UNCHANGED <<intent, objects, put, verdicts, released>>

(* The environment: a stored object is damaged on disk.                    *)
Damage(l) ==
    /\ objects[l] \in Bodies
    /\ objects' = [objects EXCEPT ![l] = Damaged]
    /\ UNCHANGED <<intent, item, op, audit, put, final, verdicts, released>>

PutRequest(p) ==
    \/ \E c \in {"SIZE_EXCEEDED", "MEDIA_INVALID"} : PutUnreadable(p, c)
    \/ \E b \in Bodies :
          \/ \E c \in Rejections \ {"SIZE_EXCEEDED"} : PutMismatch(p, b, c)
          \/ PutConflict(p, b)
          \/ PutUnchanged(p, b)
          \/ PutWaits(p, b)
          \/ PutExhausted(p, b)
          \/ BeginAttempt(p, b)

PutContinues(p) ==
    \/ WriteStored(p)
    \/ \E left \in BOOLEAN : WriteFails(p, left)
    \/ \E acked \in BOOLEAN : RecordStored(p, acked) \/ ReportFailure(p, acked)
    \/ Superseded(p)
    \/ RecordFails(p)
    \/ ReportFails(p)
    \/ \E succeeds \in BOOLEAN : Release(p, succeeds)

Finalize(f) ==
    \/ FinalRefuse(f)
    \/ FinalRead(f)
    \/ \E verdict \in {"verified", "failed"} : FinalVerify(f, verdict)
    \/ FinalAbort(f)
    \/ FinalAlready(f)
    \/ FinalConflict(f)
    \/ \E acked \in BOOLEAN : FinalReject(f, acked) \/ FinalAccept(f, acked)

Next ==
    \/ \E accepts \in SUBSET Bodies : CreateUpload(accepts)
    \/ \E p \in Puts : PutRequest(p) \/ PutContinues(p) \/ Crash(p)
    \/ \E f \in Finals : Finalize(f)
    \/ TimePasses
    \/ \E l \in Locators : Damage(l)

Spec == Init /\ [][Next]_vars

(* A client that keeps sending the bytes of an unfinished upload.          *)
Retry == \E p \in Puts : \E b \in Bodies :
             /\ item.state \in Retryable
             /\ PutExhausted(p, b) \/ BeginAttempt(p, b)

(* A request thread that has begun a content write goes on unless its      *)
(* process dies, time passes, and the client retries.                      *)
FairSpec ==
    /\ Spec
    /\ \A p \in Puts : WF_vars(PutContinues(p))
    /\ WF_vars(TimePasses)
    /\ WF_vars(Retry)

-----------------------------------------------------------------------------
(* Properties.                                                              *)

(* The rows have the declared types, at most MAX_WRITE_ATTEMPTS attempts    *)
(* are ever begun, and the rows satisfy ck_evidence_upload_intent_          *)
(* materialized; a materialized intent keeps no rejection.                  *)
TypeOK ==
    /\ intent \in Intent
    /\ item \in Item
    /\ op \in Op
    /\ objects \in [Locators -> Bodies \cup {None, Damaged}]
    /\ audit \in Seq(Events)
    /\ put \in [Puts -> PutLocal]
    /\ final \in [Finals -> FinalLocal]
    /\ verdicts \subseteq Locators \X {"verified", "failed"}
    /\ released \subseteq 1..MAX_WRITE_ATTEMPTS
    /\ intent.state = "MATERIALIZED" <=> item.state # "ABSENT"
    /\ intent.state = "MATERIALIZED" => intent.rejection = None

(* The two rows that record an upload, evidence_item and                    *)
(* cross_store_operation, are updated by separate statements of several     *)
(* handlers and never disagree: same state, same object, and a locator      *)
(* exactly when content was stored.  With the types.                        *)
RowsAgree ==
    /\ TypeOK
    /\ item.state = "ABSENT" => op.state \in {"ABSENT", "RECEIVED"}
    /\ item.state # "ABSENT" => op.state = item.state
    /\ op.ref = item.locator
    /\ item.locator # None <=> item.state \in Stored \cup {"INTEGRITY_FAILED"}
    /\ op.wait = "FUTURE" => op.state \in {"CONTENT_PENDING", "FAILED_RETRYABLE"}

(* "A stale attempt changes nothing" (DATA-001-WP2-ADD-P9-S2-001 section    *)
(* 4): at most one thread holds the fence, the fence's holder finds the     *)
(* item CONTENT_PENDING without a locator (the handler raises otherwise),   *)
(* and what is recorded is the object of the newest attempt.                *)
FenceHolds ==
    /\ \A p, q \in Puts : put[p].phase # "idle" /\ put[q].phase # "idle"
                          /\ Fence(p) /\ Fence(q) => p = q
    /\ \A p \in Puts : put[p].phase # "idle" /\ Fence(p) =>
          /\ item.state = "CONTENT_PENDING" /\ item.locator = None
          /\ item.body = put[p].body
    /\ op.ref # None => op.ref[2] = op.count

(* Metadata never runs ahead of content: a recorded locator names a         *)
(* published object that holds the item's own bytes, unless the disk has    *)
(* damaged it since.  A crash between the two stores leaves an orphan only. *)
ContentBehindMetadata ==
    item.locator # None => objects[item.locator] \in {item.body, Damaged}

(* "A stale failure cannot undo a newer success": content once recorded as  *)
(* stored keeps its bytes and locator and leaves the stored states only by  *)
(* a failed verification; FINALIZED, INTEGRITY_FAILED and FAILED_TERMINAL   *)
(* are final.                                                               *)
StoredForever ==
    [][/\ item.state \in Stored =>
             /\ item'.state \in Stored \cup {"INTEGRITY_FAILED"}
             /\ item'.locator = item.locator /\ item'.body = item.body
       /\ item.state \in {"FINALIZED", "INTEGRITY_FAILED", "FAILED_TERMINAL"} =>
             item' = item]_vars

(* FINALIZED rests on a read of exactly the recorded object that found the  *)
(* item's bytes, and INTEGRITY_FAILED on a read of it that failed, although *)
(* both are decided on values read before the row lock was taken.           *)
DecisionsWitnessed ==
    /\ item.state = "FINALIZED" => <<item.locator, "verified">> \in verdicts
    /\ item.state = "INTEGRITY_FAILED" => <<item.locator, "failed">> \in verdicts

(* An answer stays true: 200 with PROCESSING or FINALIZED means that these  *)
(* bytes are stored, 202 that the item is FINALIZED, REJECTED that it       *)
(* failed for good.                                                         *)
AnswersTruthful ==
    /\ \A p \in Puts :
          /\ put[p].answer \in {"PROCESSING", "FINALIZED"} =>
                item.locator # None /\ item.body = put[p].body
          /\ put[p].answer = "FINALIZED" => item.state = "FINALIZED"
          /\ put[p].answer = "REJECTED" => UploadState(item.state) = "REJECTED"
    /\ \A f \in Finals :
          /\ final[f].answer = "FINALIZED" => item.state = "FINALIZED"
          /\ final[f].answer = "INTEGRITY_FAILURE" => item.state = "INTEGRITY_FAILED"

(* The audit events of an upload whose intent is in state i, whose item is  *)
(* in state s and whose content was recorded at l.                          *)
Custody(i, l, s) ==
    (IF i = "ABSENT" THEN <<>> ELSE <<"EVIDENCE_RECEIVED">>)
    \o (IF l = None THEN <<>> ELSE <<"CONTENT_STORED">>)
    \o (CASE s = "FINALIZED" -> <<"FINALIZED">>
          [] s = "INTEGRITY_FAILED" -> <<"INTEGRITY_FAILURE">>
          [] OTHER -> <<>>)

(* The custody trail tells the item's history exactly once: receipt,        *)
(* storage and the outcome of verification, each audited in the transaction *)
(* that made it so.                                                         *)
CustodyTrail == audit = Custody(intent.state, item.locator, item.state)

(* "Every step is a recorded state that an identical retry can resume"      *)
(* (evidence.py:14): an upload whose client keeps retrying does not stay    *)
(* unfinished for ever.                                                     *)
UploadSettles ==
    item.state \in Retryable ~> item.state \in Stored \cup {"FAILED_TERMINAL"}

(* "The item stays CONTENT_PENDING until an identical re-PUT completes"     *)
(* (DATA-001-WP2-ADD-P9-S2-001 section 4, orphaned content): an attempt     *)
(* whose content was written and whose lease was released is resumed.  The  *)
(* code terminates the upload when that attempt was the last one.           *)
ReleasedResumes ==
    [][op.state = "CONTENT_PENDING" /\ op.count \in released =>
          op'.state # "FAILED_TERMINAL"]_vars

(* "A failed verification becomes INTEGRITY_FAILED plus an                  *)
(* INTEGRITY_FAILURE audit event, never FINALIZED"                          *)
(* (DATA-001-WP2-ADD-P9-S2-001 section 3): a finalize request whose own     *)
(* verification failed never answers that the item is FINALIZED.  The code  *)
(* drops the failure when another request finalized the item meanwhile.     *)
FailureNeverAccepted ==
    \A f \in Finals : final[f].verdict = "failed" => final[f].answer # "FINALIZED"
=============================================================================

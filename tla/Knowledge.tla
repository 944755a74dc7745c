----------------------------- MODULE Knowledge ------------------------------
(***************************************************************************)
(* The knowledge seam (trustlens_backend/knowledge_seam.py): bundles on    *)
(* disk, verified by digest and cached; activation of a bundle for the one *)
(* deployment over migration 0005; the readiness that evaluations ask for; *)
(* installation by the operator's command line (knowledge_cli.py).         *)
(*                                                                         *)
(* A request is served by a thread of its own and claims its idempotency   *)
(* key as in module Idempotency, of which a row's state and holder remain. *)
(* A step is one transaction, one lock, one unlocked read or one           *)
(* verification.  The server is one process.                               *)
(***************************************************************************)
EXTENDS Naturals, Sequences, FiniteSets

CONSTANTS
    Digests,     \* bundles, by content digest
    Approved,    \* those with an entry in the committed release record
    Governed,    \* those built with a passed publication gate
    Requests,    \* request threads
    Scenarios,   \* [asks, disk, material]: what the requests ask and what may be damaged
    None,
    MAX_FAULTS   \* bound of the model: crashes, failed transactions, expired leases

ASSUME KnowledgeAssumption ==
    /\ Approved \subseteq Digests /\ Governed \subseteq Digests
    /\ None \notin Digests \cup Requests
    /\ MAX_FAULTS \in Nat

VARIABLES
    asks,        \* the requests: [kind, key, ...]
    accidents,   \* [disk, material]: the damages that this behaviour may meet
    thread,      \* [pc, answer, seen]
    idem,        \* idempotency rows by key: [state, holder, outcome]
    disk,        \* the directory named by each digest: the bundle in it, or what is wrong
    cache,       \* KnowledgeVerifier._verified
    reference,   \* knowledge_bundle_reference: governance_eligibility
    deployment,  \* knowledge_deployment_state: [active, record]
    lock,        \* who holds the deployment row
    records,     \* knowledge_activation_record, in order
    audit,       \* how often each event was appended, by request
    faults

kvars == <<asks, accidents, thread, idem, disk, cache, reference, deployment, lock, records, audit, faults>>
store == <<disk, cache>>
tables == <<reference, deployment, records>>

Unusable == {"absent", "damaged", "invalid"}
Events == {"KNOWLEDGE_ACTIVATED", "KNOWLEDGE_ACTIVATION_REJECTED", "REPLAY_REQUESTED",
           "REPLAY_EXECUTED", "INTEGRITY_FAILURE", "EVIDENCE_ACCESSED", "USER_CORRECTION",
           "EVALUATION_STARTED", "PROVIDER_POLICY_SELECTED", "ENRICHMENT_REQUESTED",
           "ENRICHMENT_ACCEPTED", "EGRESS_DENIED", "CREDENTIAL_REFERENCE_FAILURE"}
NoRow == [state |-> "NONE", holder |-> None, outcome |-> None]
Keys == {s.asks[r].key : s \in Scenarios, r \in Requests} \ {None}

KnowledgeInit ==
    /\ \E s \in Scenarios :
          asks = s.asks /\ accidents = [disk |-> s.disk, material |-> s.material]
    /\ thread = [r \in Requests |-> [pc |-> "start", answer |-> None, seen |-> None]]
    /\ idem = [k \in Keys |-> NoRow]
    /\ disk = [d \in Digests |-> d]
    /\ cache = [d \in Digests |-> None]
    /\ reference = [d \in Digests |-> "NONE"]
    /\ deployment = [active |-> None, record |-> 0]
    /\ lock = None /\ records = <<>>
    /\ audit = [r \in Requests |-> [e \in Events |-> 0]]
    /\ faults = 0

Fault == faults < MAX_FAULTS /\ faults' = faults + 1

Appended(r, events) ==
    [audit EXCEPT ![r] = [e \in Events |-> @[e] + IF e \in events THEN 1 ELSE 0]]

Step(r, pc) == thread' = [thread EXCEPT ![r].pc = pc]
Answer(r, answer) == thread' = [thread EXCEPT ![r].pc = "done", ![r].answer = answer]

-----------------------------------------------------------------------------
(* idempotency.py, as far as these operations use it *)

Holds(r) == idem[asks[r].key].state = "IN_PROGRESS" /\ idem[asks[r].key].holder = r
Finished(r, state, outcome) ==
    [idem EXCEPT ![asks[r].key] = [state |-> state, holder |-> r, outcome |-> outcome]]

Released(r) == IF Holds(r) THEN Finished(r, "RELEASED", None) ELSE idem

\* Best effort: a claim whose release fails is left to the end of its lease.
Release(r) == idem' = Released(r) \/ UNCHANGED idem

\* A fresh or released key; or one whose holder's lease has run out, which counts as a fault.
Claim(r) ==
    /\ thread[r].pc = "start" /\ asks[r].key # None
    /\ \/ idem[asks[r].key].state \in {"NONE", "RELEASED"} /\ UNCHANGED faults
       \/ idem[asks[r].key].state = "IN_PROGRESS" /\ Fault
    /\ idem' = Finished(r, "IN_PROGRESS", None)
    /\ Step(r, "claimed")
    /\ UNCHANGED <<asks, accidents, store, tables, lock, audit>>

\* Completed and failed outcomes are answered again; a live claim is in progress.
AnswerAgain(r) ==
    /\ thread[r].pc = "start" /\ asks[r].key # None
    /\ idem[asks[r].key].state \in {"COMPLETED", "FAILED_TERMINAL", "IN_PROGRESS"}
    /\ Answer(r, IF idem[asks[r].key].state = "IN_PROGRESS" THEN "IDEMPOTENCY_IN_PROGRESS"
                 ELSE idem[asks[r].key].outcome)
    /\ UNCHANGED <<asks, accidents, idem, store, tables, lock, audit, faults>>

\* The row is no longer this request's: its transaction is rolled back.
StaleClaim(r) ==
    /\ thread[r].pc \in {"refusing", "locked", "checked", "recording"} /\ asks[r].key # None /\ ~ Holds(r)
    /\ Answer(r, "IDEMPOTENCY_IN_PROGRESS")
    /\ lock' = IF lock = r THEN None ELSE lock
    /\ UNCHANGED <<asks, accidents, idem, store, tables, audit, faults>>

\* A transaction fails: nothing of it stays, the claim is released.
TransactionFails(r) ==
    /\ thread[r].pc \in {"refusing", "locked", "checked", "recording"} /\ asks[r].key # None
    /\ Fault
    /\ Release(r)
    /\ Answer(r, "DEPENDENCY_UNAVAILABLE")
    /\ lock' = IF lock = r THEN None ELSE lock
    /\ UNCHANGED <<asks, accidents, store, tables, audit>>

-----------------------------------------------------------------------------
(* KnowledgeVerifier.verify *)

\* Mutant: the directory's name is trusted as the bundle's identity.
TrustName(d) == IF disk[d] \in Digests THEN disk[d] ELSE None

\* What loading the directory of d yields; another bundle under this name counts as tampered.
Loaded(d) == IF disk[d] = d THEN d ELSE None

Verified(d) == IF cache[d] # None THEN cache[d] ELSE Loaded(d)
RejectedAs(d) ==
    CASE disk[d] = "absent" -> "BUNDLE_MISSING"
      [] disk[d] = "invalid" -> "BUNDLE_INVALID"
      [] OTHER -> "BUNDLE_TAMPERED"

\* Only positive results are kept.
Remember(d) == cache' = [cache EXCEPT ![d] = Verified(d)]

\* evaluation_readiness of the active bundle, d.
Ready(d) ==
    /\ deployment.active = d /\ reference[d] = "ELIGIBLE"
    /\ records[deployment.record].digest = d
    /\ Verified(d) # None

-----------------------------------------------------------------------------
(* activateKnowledgeBundle *)

\* prevalidate: release record, verification and publication gate, before any transaction.
Prevalidate(r) ==
    LET d == asks[r].digest
    IN  /\ thread[r].pc = "claimed" /\ asks[r].kind = "activate"
        /\ IF d \in Approved THEN Remember(d) ELSE UNCHANGED cache
        /\ Step(r, IF d \in Approved \cap Governed /\ Verified(d) # None THEN "validated" ELSE "refusing")
        /\ UNCHANGED <<asks, accidents, idem, disk, tables, lock, audit, faults>>

Rejected(r, code) ==
    /\ Holds(r)
    /\ audit' = Appended(r, {"KNOWLEDGE_ACTIVATION_REJECTED"})
    /\ idem' = Finished(r, "FAILED_TERMINAL", code)
    /\ Answer(r, code)
    /\ lock' = IF lock = r THEN None ELSE lock
    /\ UNCHANGED <<asks, accidents, store, tables, faults>>

RejectNotEligible(r) ==
    /\ thread[r].pc = "refusing" /\ asks[r].kind = "activate"
    /\ Rejected(r, "KNOWLEDGE_NOT_ELIGIBLE")

\* Mutant: the deployment row is read without FOR UPDATE.
ReadDeployment(r) ==
    /\ thread[r].pc = "validated"
    /\ thread' = [thread EXCEPT ![r].pc = "locked", ![r].seen = deployment.active]
    /\ UNCHANGED <<asks, accidents, idem, store, tables, lock, audit, faults>>

LockDeployment(r) ==
    /\ thread[r].pc = "validated" /\ lock = None
    /\ lock' = r
    /\ thread' = [thread EXCEPT ![r].pc = "locked", ![r].seen = deployment.active]
    /\ UNCHANGED <<asks, accidents, idem, store, tables, audit, faults>>

PreconditionFails(r) == asks[r].expected # "any" /\ asks[r].expected # thread[r].seen

RejectPrecondition(r) ==
    /\ thread[r].pc = "locked" /\ PreconditionFails(r)
    /\ Rejected(r, "PRECONDITION_FAILED")

\* The reference is registered if it is new; one that was withdrawn is not re-qualified.
RejectWithdrawn(r) ==
    /\ thread[r].pc = "locked" /\ ~ PreconditionFails(r)
    /\ reference[asks[r].digest] = "WITHDRAWN"
    /\ Rejected(r, "KNOWLEDGE_NOT_ELIGIBLE")

CheckReference(r) ==
    /\ thread[r].pc = "locked" /\ ~ PreconditionFails(r)
    /\ reference[asks[r].digest] # "WITHDRAWN"
    /\ Step(r, "checked")
    /\ UNCHANGED <<asks, accidents, idem, store, tables, lock, audit, faults>>

\* Record, pointer, audit event and outcome are committed together, with a new reference.
Activate(r) ==
    LET d == asks[r].digest
    IN  /\ thread[r].pc = "checked" /\ Holds(r)
        /\ reference' = [reference EXCEPT ![d] = IF @ = "NONE" THEN "ELIGIBLE" ELSE @]
        /\ records' = Append(records, [digest |-> d, previous |-> thread[r].seen, by |-> r])
        /\ deployment' = [active |-> d, record |-> Len(records')]
        /\ audit' = Appended(r, {"KNOWLEDGE_ACTIVATED"})
        /\ idem' = Finished(r, "COMPLETED", "202")
        /\ Answer(r, "202")
        /\ lock' = IF lock = r THEN None ELSE lock
        /\ UNCHANGED <<asks, accidents, store, faults>>

\* No handler takes an audit that is unavailable: the transaction is undone, the claim stays.
AuditFails(r) ==
    /\ asks[r].kind = "activate" /\ Fault
    /\ \/ thread[r].pc \in {"refusing", "checked"}
       \/ thread[r].pc = "locked" /\ (PreconditionFails(r) \/ reference[asks[r].digest] = "WITHDRAWN")
    /\ Answer(r, "INTERNAL_ERROR")
    /\ lock' = IF lock = r THEN None ELSE lock
    /\ UNCHANGED <<asks, accidents, idem, store, tables, audit>>

-----------------------------------------------------------------------------
(* The surroundings: operators, the file system, the operating system *)

Withdraw(d) ==
    /\ reference[d] = "ELIGIBLE"
    /\ reference' = [reference EXCEPT ![d] = "WITHDRAWN"]
    /\ UNCHANGED <<asks, accidents, thread, idem, store, deployment, lock, records, audit, faults>>

\* A directory is lost, damaged or replaced by another bundle.
DamageDisk(d, c) ==
    /\ Fault /\ <<d, c>> \in accidents.disk /\ disk[d] = d
    /\ disk' = [disk EXCEPT ![d] = c]
    /\ UNCHANGED <<asks, accidents, thread, idem, cache, tables, lock, audit>>

\* install_bundle: staged, approved, renamed into place, verified; an installed one must verify.
InstallBundle(d) ==
    /\ d \in Approved /\ disk[d] = "absent"
    /\ disk' = [disk EXCEPT ![d] = d]
    /\ UNCHANGED <<asks, accidents, thread, idem, cache, tables, lock, audit, faults>>

Gone(t) == IF t.pc \in {"start", "done"} THEN t ELSE [t EXCEPT !.pc = "done", !.answer = "LOST"]

\* The process dies: threads, locks and the cache go, claims stay until their lease runs out.
Crash ==
    /\ Fault
    /\ thread' = [r \in Requests |-> Gone(thread[r])]
    /\ lock' = None
    /\ cache' = [d \in Digests |-> None]
    /\ UNCHANGED <<asks, accidents, idem, disk, tables, audit>>

\* Every step of a request but the second answer, to which the composition adds.
KnowledgeStep(r) ==
    \/ Claim(r) \/ StaleClaim(r) \/ TransactionFails(r)
    \/ Prevalidate(r) \/ RejectNotEligible(r) \/ LockDeployment(r) \/ RejectPrecondition(r)
    \/ RejectWithdrawn(r) \/ CheckReference(r) \/ Activate(r) \/ AuditFails(r)

-----------------------------------------------------------------------------
(* Properties *)

\* Activations form one history (knowledge_seam.py _activate): every record names as its
\* predecessor the bundle that was active until it, which is the one its request expected; the
\* deployment points to the last record; every record has one audit event and its request's key
\* was completed for it, however requests race, fail or are retried.
ActivationHistory ==
    /\ deployment.record = Len(records)
    /\ \A i \in DOMAIN records :
          LET ask == asks[records[i].by]
          IN  /\ records[i].previous = IF i = 1 THEN None ELSE records[i - 1].digest
              /\ ask.expected # "any" => ask.expected = records[i].previous
              /\ idem[ask.key].state = "COMPLETED" /\ idem[ask.key].holder = records[i].by
    /\ \A r \in Requests :
          audit[r]["KNOWLEDGE_ACTIVATED"] = Cardinality({i \in DOMAIN records : records[i].by = r})

\* Whatever happens to the files (loss, damage, a renamed directory, before or after it was
\* verified), the knowledge in use for a digest is the bundle of that digest, and only approved
\* bundles with a passed gate are ever activated.
KnowledgeIsExact ==
    /\ \A d \in Digests : cache[d] \in {d, None}
    /\ \A i \in DOMAIN records : records[i].digest \in Approved \cap Governed
=============================================================================

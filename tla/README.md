# TrustLens: formal models

TLA+ models of the TrustLens backend, the TLC configurations that check them on
small instances, and TLAPS proofs for every size. The reference is the code
under `src/`; every definition that stands for code is mapped to its lines in
`PROJECT.json`.

## 1. The system

TrustLens is an evidence-evaluation service. A client creates a case and a
submission, uploads evidence, finalizes it and requests evaluations; a
deterministic kernel computes a result from observations extracted from the
evidence under a pinned knowledge bundle. Server processes share PostgreSQL
(rows, CHECK constraints and triggers) and an encrypted content store; they
share no memory.

| Component (source) | State it keeps | Operations | What makes it correct |
| --- | --- | --- | --- |
| API idempotency (`idempotency.py`, migrations 0003, 0004) | `api_idempotency_record` | claim, complete, fail_terminal, release | one effect per key, truthful replays, fenced executors |
| Case and submission commands (`cases.py`) | cases, submissions | createCase, createSubmission | effect and outcome commit together |
| Evidence intake (`evidence.py`, migration 0004) | intent, item, cross-store operation | create upload, PUT, finalize | rows and content store agree, bounded attempts, truthful answers |
| Content store (`content_store.py`) | encrypted objects | put, get, verify | an object is complete and immutable, or absent |
| Evaluations (`evaluation.py`, migration 0006) | envelope, evaluation, result | createEvaluations, worker, recovery | one fenced result, everything ends, withdrawn bundles are not run |
| Audit chain (`audit.py`, migration 0002) | head and hash-linked events | append, verify_chain | one chain, no gap or fork |
| History (`history.py`, migration 0007) | corrections, replays | createCorrection, createReplay, recovery, content download | replays are write-once and say what the pinned material still shows |
| Knowledge seam (`knowledge_seam.py`, `knowledge_cli.py`, migration 0005) | bundle references, deployment row, cached verdicts | verify, activate, withdraw, install | one active bundle with an unbroken history, nothing loaded but what was approved |
| Sessions and login (`sessions.py`, `auth.py`, `oidc.py`, `principals.py`) | login transactions, sessions | begin, callback, logout, authenticate | one use per transaction, no session without an audit event, none beyond its roles |
| Provisioning (`provisioning.py`) | principals, role assignments | grant, revoke | roles stay separate, audit matches the assignments |
| Admission (`admission.py`) | token buckets | take | rate per key, truthful Retry-After |
| Enrichment and egress (`enrichment.py`, `egress.py`, migration 0008) | advisory records | enrich, list, lookup | only approved peers are contacted, in bounded time; records say what a provider said |
| Extraction (`extraction.py`) | none | normalize, assess, find, materialize | spans lead back to the submitted text; only live first-party words are held against it |
| Detection kernel (`knowledge/runtime`) | none | evaluate, suppress, aggregate, explain, assemble | three-valued logic, independence, stages that agree |
| Knowledge loading (`loader.py`, `indexes.py`) | none | load | references resolve before the kernel sees them |
| AI integration (`knowledge/ai`) | none | propose, validate, govern, map, fall back | advisory: dropped without a trace or added below the host's data |
| Publication, validation suites, frontend, start-up wiring | files | | not part of the running protocol |

How they interact. A command authenticates, authorizes and then claims its
idempotency key; its effect, the audit event and the outcome of the key commit
in one transaction. Content-store calls are outside every transaction.
createEvaluations answers 202 and dispatches a background task; a recovery
thread in every process fences expired work and dispatches what was left.
Finalized evidence is what createEvaluations extracts from; the eligibility of a
bundle is written by the knowledge tools and read by the evaluation worker.
Replays and corrections start from finished evaluations and load the bundle that
these have pinned; enrichment reads finished evaluations and writes only its own
records. Every request passes the session check and admission control first, and
looks up its principal's roles anew.

What is hard: executors that outlive their lease, unlocked reads followed by
compare-and-set, two stores without a common transaction, several workers for
one evaluation, lost acknowledgements and crashes between steps; verdicts and
roles that are stale when used; stores with a limit that forget; a network that
answers differently at every hop; and five kernel stages that each re-check the
one before. `PROJECT.json` lists each hazard at its line.

## 2. Modules

| Module | Models |
| --- | --- |
| `Idempotency` | one idempotency scope; `IdempotencyProofs` has its theorems |
| `EvidenceIntake` | one evidence identifier, from intent to decision; `EvidenceIntakeProofs` has its theorems |
| `EvaluationApi` | what the evaluation resource promises its clients |
| `Evaluation` | the evaluations of one submission, workers, recovery; implements `EvaluationApi`; `EvaluationProofs` has its theorems |
| `AuditChain` | the hash-linked audit chain and its verification; `AuditChainProofs` has its theorems |
| `Kleene` | the three-valued operators |
| `Detection` | rule evaluation and rule-level suppression (extends `Kleene`) |
| `Decision` | aggregation, explanation, assembly (extends `Detection`) |
| `Catalogue` | what the loader demands of knowledge (extends `Decision`) |
| `Advisory` | one evaluation with optional AI through all stages (extends `Catalogue`); `AdvisoryProofs` has the theorems of these five and the next |
| `Extraction` | from a submitted text to host data, in front of `Advisory` (which it extends) |
| `Knowledge` | bundles, verification, activation, installation |
| `History` | downloads, corrections and replays (extends `Knowledge`); `HistoryProofs` has the theorems of both |
| `Egress` | one lookup with a provider |
| `Enrichment` | enrichment of evaluations, composing `History` and `Egress`; `EnrichmentProofs` has the theorems of both |
| `Admission` | token buckets |
| `Provisioning` | role assignments and the jobs that change them |
| `Access` | sign-in, sessions and the request gate, composing `Admission` and `Provisioning`; `AccessProofs` has the theorems of all three |
| `MCIdempotency`, `MCEvidenceIntake`, `MCEvaluation`, `MCAuditChain`, `MCAdvisory`, `MCHistory`, `MCAccess` | instances for TLC |

In all of them a step is one committed transaction, one unlocked read, or one
call of the content store or the kernel; in `AuditChain` it is one statement. Reads that the code makes without a
lock before a later write are steps of their own, because at READ COMMITTED
other requests commit in between. A few operators (their names end in `Mutant`,
or their comment says so) are plausible faults of the definition that follows
them; they are not part of any specification and show that the properties notice
such a fault. `PROJECT.json` pairs each with its property.

### Idempotency

`record` holds the rows, named by the request that inserts them; `req` the local
state of the requests; `effects` the governed effects that are committed. A
request generates one token and inserts at most one row, so its name stands for
both. `Begin` takes the transaction's `now()`. The insert and the outcomes of
the SELECT are the `Claim...` actions, and `TakeOver` and `Supersede` are the
UPDATEs that follow. `CommitEffect` and `CommitRefusal` are the effect
transaction of `cases.py` together with `_finish`, `EffectFails` and `Release`
the way out after an error. The clock may advance at any time, so an executor
may outlive its lease. Both schema versions, with and without supersession, are
initial states. `lost` and `stalled` are history variables: the requests that
lost their claim, and the rows whose outcome was stored after the executor's
lease had ended.

### EvidenceIntake

`intent`, `item` and `op` are the three rows, `objects` the content store,
`audit` the events. A PUT thread goes through `PutRequest` (the first
transaction with all its refusals), the store write (`WriteStored`,
`WriteFails`), and the fenced record of the outcome (`RecordStored`,
`RecordFails`, `ReportFailure`, `Release`). A finalize thread reads the row,
reads and verifies the object, and decides under the row lock. Objects may be
damaged, threads may crash at any step.

### Evaluation and EvaluationApi

`request` is the local state of the creating requests, `worker` that of worker
threads, `running` the per-process set that avoids double dispatch.
`Receive`, `Derive`, `StoreEnvelope` and `Insert` are createEvaluations;
`ReadRow` to `FailRunning` are `run_evaluation`, one action per transaction or
read; `RunFails` is an exception swallowed by `dispatch`; `Recover` is the
fencing transaction of `recover`. Its second half is `Dispatch`, which the
background task of a response shares. The lease of an evaluation is live or
expired; the code compares it only in `recover`. A claimed fence token is a new
UUID and an evaluation is claimed at most once, so the worker names it.

`EvaluationApi` has three variables, the state, the pinned bundle and the result
shown to a client. `Evaluation!Api` maps `REQUESTED` to `QUEUED`, the three
failure statuses to `FAILED`, and a result row to the bundle it was computed
with. `RowsCoherent` is the type invariant with two facts about rows that take
several transactions to break: one envelope for the submission's evidence, and
origins that never change.

### AuditChain

`events` and `head` are the committed rows, `lock` the holder of the head's row
lock. A writer is a session whose transaction runs `append` one or more times:
`LockHead` (SELECT FOR UPDATE), `Insert` (with the linking trigger),
`AdvanceHead` (with the head's trigger), and then `Commit` or `Abort`; its
uncommitted rows and head are local until it commits. A verifier reads the rows
and fixes its snapshot, then reads the head of that snapshot and runs
`VerifyRows`. SHA-256 is a constructor, that is, free of collisions. Damage in
the store is an external step, at most once; `since` remembers whether it
preceded a verification's snapshot. The other modules append to a per-object
trail instead of this chain: their transactions are single steps.

### Kleene, Detection, Decision and Catalogue

The kernel is sequential and without state, so its stages are operators. Ordered
scales (severity, confidence, strength, risk) are numbers, ids are their ranks in
the order that the code sorts by, and a condition is the list of its tree's nodes,
operands first, whose values a recursive function gives. `RuleResults` is `evaluator.py` over the observations: the
confidence gate, the association of negative indicators with what they suppress,
conditions, overrides, composite and suppression rules. `apply_all` is
`suppression.py`, `aggregate_decision` is `aggregation.py` with its union-find (the
root of every reference, group by group) and its augmenting paths (the search of a
class, as a function of what the search has seen), and the predicates of `explanation.py` and `result.py` that
refuse an inconsistent decision are kept as predicates. What the stages only copy
into records (texts, provenance, versions) is left out.

`Catalogue` states as the assumption `KnowledgeAccepted` what `loader.py` and
`indexes.py` refuse otherwise; TLC evaluates it on the instance, so the kernel is
never run on knowledge that the program would not load. Its part `WellShaped` is what
the JSON schemas say of the fields that the kernel computes with: finite rules,
conditions with operands, and values on their scales. `SoftAreBlockable` in
`Detection` is an assumption that the loader does not check (section 5).

### Advisory

One evaluation as a sequence of steps: the gate, the provider's answer, validation,
governance, mapping, and then the kernel's stages, each of which may refuse. The
provider is external and may answer anything of `Responses`, including answers for
other requests and other inputs. `reason` records why AI was not used. `DataShaped`
says that the host's data and an answer that the schema accepts are finite sets.

### Extraction

`extract_text` as a function from a message to the host data of `Advisory`, which then
evaluates it. `normalize` runs over characters that stand for their class and keeps
the origin of each; `assess_language` counts scripts and listed words. A message
carries the matches of the patterns (name, span, sentence, and what the regular
expressions around it say: distance of a negation, quotation, frames, mood), which are
external, and every decision that `_find_all` takes with them is modelled: structure,
precedence between overlapping matches, what projects which indicator at which
confidence, what depends on findings made before, the narrative about reported
occurrences, identifiers, and the support state. Schema validation of the result is
left out, but `OnlyLiveWordsCount` says that the kernel's own check accepts it. `TextShaped`
says that a text is a list of those characters, with finitely many matches in it, and that
the safety indicators are in the negative library, as `_validate_artifacts` demands.

### Knowledge and History

Bundles lie in directories that an operator installs and that may be damaged; the seam
caches positive verdicts by digest. `activate` claims its key, verifies, locks the
deployment row, compares the expected predecessor and commits with its audit event. A
transaction that fails releases its claim as far as it can (`TransactionFails`); an
audit that is unavailable is not caught in `_activate`, so there the transaction is
undone, the answer is an internal error and the claim stays until its lease ends
(`AuditFails`). `History` adds what is done with finished evaluations. A replay is
recorded and handed to a background task; a runner reads the rows, the bytes and the
bundle in separate steps, compares, and finishes under the condition that the row is
still pending. The recovery loop runs what a crash has left. A correction re-derives
the input envelope and fails closed when the stored one is another or was removed
(`EnvelopeDiffers`). Damage to each kind of pinned material (governed removal, lost
bytes, changed bytes, changed rows), a withdrawn or damaged bundle and another engine
version after a restart are steps of the environment.

### Egress and Enrichment

`Egress` is `Adapter.lookup` as one thread: preparation, and per attempt the
resolution, the connection and the exchange of each hop, against one overall
deadline. DNS may answer differently each time, the peer may be another one, and
every operation may take any of `Delays`. `wire` and `said` are histories of what
was sent and what was replied. `Enrichment` runs it for each policy and indicator
of a finished evaluation, with the audit events and the record of each outcome in
their own transactions, next to all of `History`; a restart forgets the threads.

### Admission, Provisioning and Access

`Admission` keeps buckets in order of use, so eviction is explicit; `granted` is the
history of the admissions of the keys that have a bucket. Tokens are
whole units, which makes the code's float arithmetic exact. `Provisioning` runs
jobs statement by statement, because two of them race on rows, locks and unique
constraints. `Access` composes both with sign-in: a request is a thread that takes
one step per call in the order of the middlewares; the OIDC provider's verdict on
a token is external. The in-memory stores are lost by a restart. Secrets are fresh
values, and of the roles only USER and ADMINISTRATOR are distinguished, which are
the two whose combination the code refuses.

## 3. Runs

| Run | Instance | Shows |
| --- | --- | --- |
| `idempotency` | 3 requests, 2 digests, lease 1, window 2, clock to 4 | fencing, truthful outcomes and replays; once-only and terminal rows unless an executor outlives its lease |
| `idempotency_stall` | 2 requests, 1 digest | without that proviso the effect can be committed twice (finding 1) |
| `evidence_intake` | 2 PUTs, 2 finalizes, 2 bodies, 2 attempts | rows, store, answers and audit agree; stored content stays stored |
| `evidence_retry` | 2 PUTs, 1 body, the code's 3 attempts, fairness | an upload that is retried settles |
| `evidence_release` | as above | a released last attempt is not resumed (finding 2) |
| `evidence_finalize` | 1 PUT, 2 finalizes | a failed verification can be answered FINALIZED (finding 3) |
| `evaluation` | 2 evaluations, 3 workers in 2 processes, 2 bundles, 2 envelopes, 1 fault | fenced results, one audit trail, coherent rows, withdrawal |
| `evaluation_api` | 2 evaluations, 2 workers, fairness | the API lifecycle is implemented, termination included |
| `audit_chain` | 2 writers, 1 verifier, 2 contents, 5 events | one intact chain, no false alarm, no missed damage |
| `advisory` | a small catalogue with every kind of rule, suppressor and override; up to 3 host occurrences, or 2 with every provider answer; 8,400 texts with up to 3 matches (95,657 states) | the stages accept each other's results, independence is a maximum matching, AI only adds, a clear verdict rests on no doubt; spans lead back to the text, only live words count, and a live request for a code does |
| `history` | 3 request threads in fixed scenarios, 3 bundles, 1 finished evaluation, 2 faults, 1 damage, 6 policies, 6 replies, fairness (359,484 states) | activation history, exact knowledge, truthful replays, guarded egress, truthful advisory records; replays and enrichments end |
| `access` | 9 scenarios of up to 5 requests and 3 jobs, 2 browsers, 2 principals (303,380 states) | sessions are earned and end for a cause, authority follows the roles, rates hold |

Bounds. Three requests are one executor, one taker and one replay or
supersession of either, and two digests one conflicting body; the clock reaches
past the window after a take-over. Two attempts are a first and a superseding
writer and reach exhaustion; the code's value of three is used where liveness
depends on it. Two evaluations are a predecessor and its successor; three
workers are two in one process, which share `_running`, and one elsewhere.
Five events let each of two writers commit a transaction of two events and
leave one to append after damage; verifiers do not interact, so one is enough.
In `advisory`, three occurrences are what HIGH confidence by independence needs,
and with two every answer of the provider can add to, overlap with or contradict
the host's data. The texts are all sequences of four of the seven character classes
that normalization tells apart, four words of every class, and messages of six
words in which each pattern occurs in each of eleven ways of being meant beside a
live request and a threat: two findings interact through order, sentence and
overlap, and the third is what they bear on. The scenarios of `history` and `access` name which requests run
together, so that each pair that shares state meets (two activations, an
activation and an installation, a replay and its recovery, two callbacks of one
browser, a grant and a revocation) without the product of all of them. In
`Egress`, two attempts with one redirect each reach every retry and hop rule; a
delay of 2 against a deadline of 4 lets any operation be the one that passes it;
and one forbidden address among three makes answers that are wholly, partly and
not permitted. `MAX_KEYS`, `SESSIONS` and `TRANSACTIONS` are 2, so that a third
key, session or login evicts.
`MAX_FAULTS` bounds crashes and transient errors of the evaluation and the history
models, `MAX_DAMAGE` the damages to material, and `until` the clock of a scenario;
everything else is unbounded within its sets. Symmetry is used only for sets of
model values in runs without liveness.

Deadlock checking is off where the system may come to rest: every request is
answered, every evaluation has ended. A run that stops early would violate
`ReplaysComplete`, `EnrichmentEnds`, `UploadSettles` or `ImplementsApi`.

Fairness. `EvidenceIntake!FairSpec`: a running PUT continues, time passes, and
the client retries. The last is an assumption about clients; the code does
nothing by itself for a pending upload. `Evaluation!FairSpec`: worker threads
continue and pick up queued work, time passes, and recovery runs; the code
justifies this by the 30 s loop of `start_recovery`. Faults are bounded, which
says that they cease. `Enrichment!EnrichmentSpec`: the recovery thread of replays
goes on (the loop in `start_recovery`, `evaluation.py:696`), and a thread that
enriches goes on while its process lives; nothing is assumed of background tasks,
clients or other requests.

### Findings

1. The take-over of an idempotency claim compares the claim token only
   (`idempotency.py:128`). An executor that is slower than its 30 s lease may
   commit between the take-over's SELECT and UPDATE; its COMPLETED row is then
   re-opened and the effect is committed again.
2. The attempt whose metadata did not commit is released so that an identical
   re-PUT completes it at once; if it was the third, that PUT terminates the
   upload instead (`evidence.py:440`).
3. A finalize whose verification failed answers 202 FINALIZED, without an audit
   event, when another finalize has accepted the item meanwhile
   (`evidence.py:589`).

## 4. Proofs

`IdempotencyProofs` proves, for any sets of requests and digests and any lease
and window (assumptions `NoneAssumption`, `TimeAssumption`), every property the
run `idempotency` checks. The properties are not inductive: that an effect is
committed once depends on who holds the row's token and on what a claim's SELECT
may still see. `IInv` adds
- `PhaseInv`: what each phase of a request implies for its claim and for its row;
- `RowInv`: what a row's state implies for its token, its outcome and the effect;
- `LostInv`: a request whose token is gone from its row has no effect;
- `StallInv`: while a row is not in `stalled`, a pending take-over that could
  still match a terminal row does not exist.

`Invariance` shows `IInv` inductive with one lemma per action; the others follow
from it. The action properties `SupersededSealed` and `TerminalUnlessStalled`
are proved from `IInv` for every step.

`AuditChainProofs` proves `ChainIntact`, `NoFalseAlarm` and `DamageDetected` for any
sets of sessions and contents and any length (assumptions `AuditNoneAssumption`,
`EventsAssumption`). `ChainIntact` says nothing of transactions in progress, so `IInv`
adds that the lock has one holder (`LockInv`), that the committed rows followed by a
transaction's own are a chain that ends at the transaction's head (`WriterInv`),
and that a verifier's snapshot is consistent (`VerifierInv`). The lemma
`Extension` is the heart: a row that links to the head of a verified chain makes
a verified chain. At a commit no other transaction is open, so none has read the
head that is replaced. For `DamageDetected` the invariant `DamageInv` says that a
damaged chain does not verify; it survives appends because of `NotHealed`: rows that
begin at the head verify only if the rows up to that head do, and an open
transaction's first row does begin at the committed head (`FirstLink`), damaged or
not, since the head cannot be damaged under the row lock.

`EvidenceIntakeProofs` proves every safety property of the run `evidence_intake`,
`StoredForever` among them, for any sets of PUTs, finalizes and bodies and any number
of attempts (`AttemptsAssumption`, `BodiesAssumption`, and `LocatorAssumption`: no
locator is the value that stands for none). What the rows say is not inductive without
what the threads hold: `PutInv` gives a thread that serves a PUT an attempt number that
was handed out and the item's bytes, `NumbersDistinct` says that no two threads hold the same
one, and `FinalInv` that what a finalize read without a lock is still so when it
decides. With these a report is accepted only from the newest attempt, and a
superseded writer finds a count that is not its own.

`EvaluationProofs` proves the four safety properties of the run `evaluation` for any
evaluations, workers, bundles, envelopes and number of faults (`WorkersAssumption`,
`FaultsAssumption`, `EvaluationNoneAssumption`, and `ResultNoneAssumption`: a result is
never the value that stands for none). `RequestInv` says that what a creating request
read without a lock is still true when it inserts, because predecessors have settled
and envelopes are never replaced; `RowInv` ties pin and token to the status; `WorkerInv`
keeps workers on inserted rows; and `BlockedInv` is why withdrawal is
effective: the bundle of a blocked evaluation is not eligible and no worker is past the
check. `ImplementsApiSafety` is the refinement: under the mapping of `Evaluation!Api`,
`Init` implies `Api!Init` and every step of the protocol is a step of the API's
lifecycle or a stutter; `Claim`, `Complete` and the failures are the steps that move it,
and `IInv` gives their guards. The run `evaluation_api` checks the same with fairness.

`AccessProofs` proves the three properties of the run `access` for any scenario, sets
of requests, browsers, principals and jobs, any profile and any store sizes. Its
assumptions are `AdmissionAssumption`, `AccessAssumption` (finitely many requests, the two stores
exist, positive limits, the value for none is no member of the other sets) and `ScenarioAssumption` (a
behaviour begins with ADMINISTRATOR held alone). `IInv` has three parts.
- `RolesInv`: a job between its SELECT ... FOR UPDATE and its end holds the row lock
  (`RowsHeld`), so the roles it read are the roles it changes (`ReadsCurrent`).
- `RatesInv`: for every admission of a key, the units spent since it and the tokens left
  are together at most a full bucket and the time that passed (`Spent`). Two facts
  about sequences are needed, that `Popped` drops one key's bucket and that `Recent`
  keeps the others' order; `RatesHold` is the case of the last admission.
- `SessionInv`: what a request may know of logins and sessions at each of its steps
  (`RequestInv`, with `Path` before it has a session and `Late` once it may have ended
  one), that a login is used by one callback only (`OneEach`), what a browser holds
  (`JarInv`), and the causes of endings (`EndedInv`).

The steps of a request fall into groups that do the same to the others: `Shrinks` says that other
requests' logins and sessions only disappear, `Moves` that a request moves alone,
and `OthersKeep`, `JarKeeps`, `EndedKeeps` that this preserves what is not its own. Each
action then owes its own request's facts only.

`AdvisoryProofs` proves all but one of the properties that the run `advisory` checks, for
any library that loading accepts (`KnowledgeAccepted`, `SoftAreBlockable`), any host data
and answers (`DataShaped`) and any submitted texts (`TextShaped`). The first four are
proved of `Advisory!Spec`, in the first four parts of the following, and carried to
`ExtractionSpec`, the specification of the run, in the last part
(`MessagesEvaluated`).

*The operators.* `ThresholdExact`: for every finite list of operands `n_of` is TRUE
exactly when the threshold is met under every resolution of the unknown ones, FALSE
exactly when under none; `ThresholdMonotone`: resolving an operand never reverses a
determined verdict; `OperatorsAgree`: `any_of` and `all_of` are its two ends. The
operands that hold under a resolution lie between the TRUE ones and the TRUE and UNKNOWN
ones, and both bounds are reached. `EvalMonotone` and `EvalGrows` carry this over
to whole conditions. Where a definition recurs over a list or over the subsets of a finite
set, that the recursive function exists is shown first, from the uniqueness of its
approximations; what it computes then follows from a least counterexample.

*The stages agree* (`CheckedStagesAgree`) and *a clear verdict is final*
(`NoScamIsFinal`). The invariant `AInv` says what each stage's variables are:
- `PathSound`: on the optional path, which answer was accepted and how far;
- `ArtifactSound`: the artifact is the host's data, or these with an answer that
  validation, governance and mapping let pass;
- `KernelSound`: the results are those of `RuleResults` on that artifact, then of
  `apply_all`, and the decision is that of `aggregate_decision` on them.

That no stage refuses the one before is then a fact about operators. One lemma per stage
says what its records always satisfy (`CompositeSound`, `SuppressionSound`, `AppliedSound`,
`AggregateFacts`), and the later stage's predicates follow. A decision without a scam
leaves each composite rule affirmatively false or unmatched for breadth; by monotony it
stays so when unknown indicators turn out true.

*Independence* (`CheckedIndependence`). The references of a group have one root, and two
references with one root are in the same sets that are closed under sharing a group
(`Represents`, kept by each union); so two groups have one root exactly when a chain of
shared references connects them (`RootsAreConnections`). `MatchingIsLargest`: after each
search the assignment is `Saturated`, that is, there is a `Blocked` set of components, all
assigned, to classes that could have others of the set only, and a class that has
nothing could have others of the set only, too. No one-to-one choice can then be larger. A
search that fails has seen a blocked set (`SearchFails`); no search moves an
assignment of one (`SearchSpares`), and one that succeeds places its class and keeps the
others (`SearchPlaces`, `SearchKeepsAssignments`).

*AI only adds* (`CheckedAdditions`). `Enlarges` relates two contexts of which the second has
more positive findings and no other negative ones. An indicator that was TRUE stays TRUE
(`PositiveKept`), overrides grow, suppressors shrink, and a matched rule stays
matched with at least its severity (`CompositeKept`, `MatchedKept`), so that the class and
the severity of the decision are kept (`DecisionKept`). Of the property's other half,
`ContributionCapped` shows that what was mapped has at most MEDIUM confidence.

*Spans lead back* (`OffsetsLeadBack`). `Normalizes` is the progress of `normalize` at every
position of a text: what is out, the pending separator, the next position to look at. Each
position is skipped, separates or takes a cluster (`StepFacts`). `Sound` is the invariant over
positions: what is out stands for clusters or runs of white space of the text, in order,
no letter beside its mark and no two separators side by side (`SoundSkips`,
`SoundSeparates`, `SoundTakes`). That a span normalizes to itself is a simulation of two
normalizations, that of the text and that of the part behind the span: the part begins and
ends with whole clusters, so that runs and clusters in it are those of the text
(`SpannedFacts`), and from its first cluster on both put out the same characters
(`Alike`, `GoesOn`); what the text put out before is exactly what comes before the span
(`SpanAgain`).

*Only live words count* (`CheckedLiveWords`). One lemma per group of findings shows that
whatever the patterns match, a finding is `Sensible`: what it projects is a safety indicator, or its
structure is affirmed and first-party (`FoundSensible`). Put in order, such findings become
host data that are `Projected` (`MaterializedProjected`): one input, distinct identifiers,
references that resolve, and each positive indicator on one first-party observation. The
kernel accepts these (`ProjectedAccepted`), and without an OBSERVED first-party
observation every positive is UNRESOLVED at best, while a rule that fires needs two classes
of TRUE ones (`FiringRests`, `NothingLiveNothingFires`). The evaluation of a message is one
of `Advisory` in which AI is never asked (`Carried`), so that its artifact is what was
extracted; `ExtractionInvariant` joins that with `AInv`.

`HistoryProofs` proves `ActivationHistory`, `KnowledgeIsExact`, `HistoryAccounted` and
`ReplayTruthful` of `History!Spec` for any bundles, requests, scenarios, evaluations and
runners, and any number of faults and damages (`KnowledgeAssumption` and
`HistoryAssumption`: among others that the value for none is no evaluation, and that equal
keys are of one kind of operation, since a key's scope contains the operation).
The invariant `HInv` has these parts.
- `PlaceInv`: where a thread may be, given what was asked of it and what its key says.
- `HoldInv`: a thread past SELECT ... FOR UPDATE of the deployment row holds the
  lock, and what it has seen there is what is active. This is why an activation's
  recorded predecessor is the bundle it replaces.
- `FreshInv`, `AuditInv`: rows, events and answers of a request agree at each of its steps.
- `KeyInv`: a key's row has one owner, and a finished key has the effect it answers.
- `ChainInv`: the activation records are one chain that ends at the deployment row.
- `FilesInv`: what was verified is on the disk as it was published, or was damaged since.
- `RunInv`: what a runner has read is so, and nothing was overlooked that was wrong when
  the replay was requested; `DamageStays`: damage is never undone. With both, a verdict
  names a cause that exists.

Most steps fall into groups that treat the rest of the state alike: `QuietMove` and
`CommitMove` (a request), `RunnerMove`, `WorldMove`; `OthersKeep` says what the first two
leave to other requests.

`EnrichmentProofs` proves the six safety properties of the run `history` of
`EnrichmentSpec`, for any policies, addresses, answers, replies, delays and limits beside
what `HistoryProofs` leaves open (`LimitsAssumption`: there is a longest delay;
`EnrichmentAssumption`: an enrichment has no key, and names no policy twice, which
`EnrichmentRuntime.add` sees to).
- `LookOK`: what a lookup has spent so far bounds what it may still spend: its exchanges
  are at most those of the attempts before and the hops of this one (`ExchangeFacts`
  has the arithmetic), and it has been prepared, resolved and connected under what the
  policy allows when it gets to the step that needs it. One lemma per step shows that it
  leads to such a lookup (`Goes`), `RefusedFacts` for every way to be refused. That
  no operation begins after the deadline and none lasts longer than the longest delay
  gives the bound on time. That the peer is one of the answers needs that any set of numbers
  that is not empty has a least one (`FirstFacts`, by well-foundedness).
- `ProgressInv`: what is ahead of an enrichment has not been recorded, so that a record is
  never the second of its lookup; `TrailInv`: requests and outcomes in the log
  are counted by the records, and by the lookup in progress; `RowsInv`: what records and
  views say was said.

`RequestsApart` and `OperateApart` show that the other operations neither move an
enrichment nor write its events, `EnrichQuiet` that its own steps are quiet moves
in the sense of `HistoryProofs`, so that `HInv` goes on holding (`HistoryHoldsBeside`).

So every safety property of the runs is a theorem, but for one. Only model-checked are:
- `LiveRequestsCount` of `Extraction`, which is about the shipped library as much as about the
  code: that a live request for a code is found in spite of the safety language around it
  needs an override for such requests that blocks every category of suppressor that safety
  language activates, and suppressors that name the words they are about. The constants
  leave this open, and an assumption that says it would be most of the property;
- liveness (`UploadSettles`, `ReplaysComplete`, `EnrichmentEnds`, the fairness part of
  `ImplementsApi`), which is out of the proof system's reach.

## 5. Not modelled

- The validation suites (`knowledge/validation`, about 29,000 of the 49,000 lines
  of the implementation), publication and the tools: sequential programs with
  literal expectations and no shared state. Translating them would restate test
  tables; what they assert of the kernel is checked here as properties instead.
  For this reason the map covers a small share of all lines, though most of the
  backend's protocols and of the kernel.
- Of extraction, the regular expressions, the parts of a URL, and the typed amounts,
  numbers and codes of the envelope.
- The frontend, start-up and configuration. Of `main.py` the order of the
  middlewares is used.
- Encryption, canonical JSON, JSON schemas and digests as functions of bytes (a
  digest is equal exactly when its content is); authorization by ownership, paging,
  read endpoints, rendering; provenance texts, sources, deprecated suppressors; the
  restoration of AI snapshots by tools.
- The partial unique index on active roles (`0001_principal_role.py:57`) and the
  account status DEACTIVATED: without them the model of provisioning allows more than
  the code. Corrections are in `History`, not among the origins of `Evaluation`. Of
  damage to pinned material, rows that are lost and an artifact forged together with
  its commitment. `Retry-After` is exact in `Admission`, where the code rounds it up
  to whole seconds: the promise that is checked is the stronger one.
- PostgreSQL, the content store's file system, DNS, sockets, the OIDC and the AI
  provider are external; they are modelled by how the code uses them.
- Recovery's limit of 50 rows a round: with more than that many evaluations whose run
  always raises, younger ones would wait. No property covers it.

Provisos, each visible in the definition that needs it:

1. `StagesAgree` excepts a published suppression rule that matched:
   `semantic_violations` (`result.py:137`) counts it as fired, aggregation does not,
   and assembly refuses the decision. The shipped suites read it otherwise
   (`validate_ux_result.py:2473`, `:2562`).
2. `SoftAreBlockable`: `_suppression_candidates` (`evaluator.py:623`) does not look at
   `blockable_by_overrides`, `_cross_check_blocked` (`suppression.py:349`) does and
   degrades the rule. The two agree when every soft suppressor of a blocked category
   is blockable (`validate_wp4_suppression.py:326`, `:334`).
3. `enrichment.py:68` says that the seam never raises into its caller; an error of
   the database does. The model's outcome `RAISED` is that path.
4. `RatesHold` speaks of keys that were not evicted: eviction forgets spent tokens by
   design of a bounded table, and the code promises nothing across it.
5. A request that read a principal as inactive may end a session that was created
   after a new grant; and when two tabs of a browser sign in at once, the session
   whose cookie is overwritten ends only by expiry or eviction. `SessionsAccounted`
   allows both.
6. `OnlyLiveWordsCount` takes the observation behind `QR_PRESENT` for affirmed first-party
   words: `_find_all` (`extraction.py:909`) gives it no structure, for which the schema's
   defaults stand, from the mention of a code in quoted, reported or denied words too, though
   `extraction.py:17` says that only affirmed first-party occurrences project positive
   indicators.
7. `SpansTraceable` excepts what `normalize` (`extraction.py:299`) leaves as it is: a
   character whose NFKC form has a space (U+00A8) leaves that space uncollapsed, and a
   letter and a mark with an invisible character between them are not composed.
8. `AiOnlyAdds` speaks of host data that the kernel accepts by itself. `_map_ai`
   (`integration.py:139`) validates AI's contribution alone, and the kernel the union:
   host data that it would refuse may be refused with AI too.

## 6. Plan

1. The lock order across tables of the transactions that append to the audit
   chain, composed with `AuditChain`.
2. Withdrawal in `Evaluation`, an environment step there, composed with `Knowledge`.

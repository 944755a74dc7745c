--------------------------- MODULE HistoryProofs ----------------------------
(***************************************************************************)
(* Theorems about Knowledge and History, for any bundles, requests,        *)
(* evaluations and runners, any scenarios and any number of faults and     *)
(* damages.  Request r is "its own": what a step of one request leaves of  *)
(* the others is shown once, in OthersKeep.                                *)
(***************************************************************************)
EXTENDS History, FiniteSetTheorems, SequenceTheorems, TLAPS

Verdicts == {"MATCH", "MISMATCH", "FAILED_INTEGRITY", "FAILED_MISSING_MATERIAL",
             "FAILED_BUNDLE_UNAVAILABLE", "FAILED_ENGINE_UNAVAILABLE"}
Record == [digest : Digests, previous : Digests \cup {None}, by : Requests]

\* Which requests there are, and that every table is indexed as its definition says.
Typed ==
    /\ \E s \in Scenarios : asks = s.asks
    /\ DOMAIN thread = Requests /\ thread = [r \in Requests |-> thread[r]]
    /\ \A r \in Requests : thread[r] = [pc |-> thread[r].pc, answer |-> thread[r].answer,
                                        seen |-> thread[r].seen]
    /\ idem = [k \in Keys |-> idem[k]]
    /\ audit \in [Requests -> [Events -> Nat]]
    /\ disk = [d \in Digests |-> disk[d]] /\ cache = [d \in Digests |-> cache[d]]
    /\ reference \in [Digests -> {"NONE", "ELIGIBLE", "WITHDRAWN"}]
    /\ deployment = [active |-> deployment.active, record |-> deployment.record]
    /\ deployment.active \in Digests \cup {None}
    /\ records \in Seq(Record)
    /\ damage \in [Evaluations -> SUBSET Damages]
    /\ engine \in {"pinned", "other"} /\ tasks \subseteq Requests /\ sent \subseteq Requests
    /\ replay = [r \in Requests |-> replay[r]]
    /\ created \in [Requests -> Digests \cup {None}]
    /\ runner = [w \in Runners |-> runner[w]]

\* What the place of a request in its handler says of what it asked.
PlaceInv(r) ==
    LET pc == thread[r].pc
        ask == asks[r]
    IN  /\ pc \in {"claimed", "refusing", "validated", "locked", "checked", "extracting", "recording"}
              => ask.key # None
        /\ pc \in {"refusing", "validated", "locked", "checked"} => ask.kind = "activate"
        /\ pc \in {"validated", "locked", "checked"} => ask.digest \in Approved \cap Governed
        /\ pc = "extracting" => ask.kind = "correct"
        /\ pc = "recording" => \/ ask.kind = "replay" /\ ask.evaluation \in Evaluations
                               \/ ask.kind = "correct" /\ thread[r].seen \in Digests
        /\ pc \in {"reading", "sending", "failing"} => ask.kind = "download"

\* Between its SELECT ... FOR UPDATE and its commit, an activation holds the deployment row, so
\* that what it saw is still so.
HoldInv(r) ==
    /\ thread[r].pc \in {"locked", "checked"} => lock = r /\ thread[r].seen = deployment.active
    /\ thread[r].pc = "checked" => ~ PreconditionFails(r)

\* A request that is not done has left nothing behind; the replay of one that recorded it was
\* asked for, and completed its key.
FreshInv(r) ==
    /\ thread[r].pc # "done" => replay[r] = NoReplay /\ created[r] = None /\ r \notin sent
    /\ r \in sent => asks[r].kind = "download"
    /\ \/ replay[r] = NoReplay
       \/ /\ replay[r] = [evaluation |-> replay[r].evaluation, outcome |-> replay[r].outcome,
                          before |-> replay[r].before]
          /\ replay[r].evaluation \in Evaluations /\ replay[r].outcome \in Verdicts \cup {"PENDING"}
          /\ asks[r].kind = "replay" /\ asks[r].key \in Keys
          /\ idem[asks[r].key].state = "COMPLETED" /\ idem[asks[r].key].holder = r

RecordsOf(r) == {i \in DOMAIN records : records[i].by = r}

AuditInv(r) ==
    /\ asks[r].kind = "replay" =>
          /\ audit[r]["REPLAY_REQUESTED"] = IF replay[r].evaluation = None THEN 0 ELSE 1
          /\ audit[r]["REPLAY_EXECUTED"] = IF replay[r].outcome \in {"NONE", "PENDING"} THEN 0 ELSE 1
          /\ audit[r]["INTEGRITY_FAILURE"] =
                IF replay[r].outcome \in {"FAILED_INTEGRITY", "MISMATCH"} THEN 1 ELSE 0
    /\ asks[r].kind = "download" => audit[r]["EVIDENCE_ACCESSED"] = IF r \in sent THEN 1 ELSE 0
    /\ audit[r]["USER_CORRECTION"] = (IF created[r] = None THEN 0 ELSE 1)
    /\ audit[r]["EVALUATION_STARTED"] = audit[r]["USER_CORRECTION"]
    /\ audit[r]["KNOWLEDGE_ACTIVATED"] = Cardinality(RecordsOf(r))

ReqInv(r) == PlaceInv(r) /\ HoldInv(r) /\ FreshInv(r) /\ AuditInv(r)

\* The deployment row is locked by a request inside its transaction.
LockInv ==
    /\ lock \in Requests \cup {None}
    /\ lock # None => thread[lock].pc \in {"locked", "checked"}

\* A claimed key is that of its holder; a completed replay's names the replay.
KeyInv(k) ==
    /\ idem[k] = [state |-> idem[k].state, holder |-> idem[k].holder, outcome |-> idem[k].outcome]
    /\ idem[k].state # "NONE" => idem[k].holder \in Requests /\ asks[idem[k].holder].key = k
    /\ idem[k].state = "COMPLETED" /\ asks[idem[k].holder].kind = "replay"
          => idem[k].outcome = idem[k].holder

\* The activations are one chain that ends at the deployment.
ChainInv ==
    /\ deployment.record = Len(records)
    /\ deployment.active = IF records = <<>> THEN None ELSE records[Len(records)].digest
    /\ \A i \in DOMAIN records :
          LET ask == asks[records[i].by]
          IN  /\ records[i].digest \in Approved \cap Governed
              /\ records[i].previous = IF i = 1 THEN None ELSE records[i - 1].digest
              /\ ask.expected # "any" => ask.expected = records[i].previous
              /\ ask.key \in Keys
              /\ idem[ask.key].state = "COMPLETED" /\ idem[ask.key].holder = records[i].by

\* A bundle is what its digest says, or its directory was damaged.
FilesInv ==
    \A d \in Digests : cache[d] \in {d, None} /\ (disk[d] # d => d \in spoiled)

\* A run of a replay has seen nothing that is not so, and has not overlooked what was amiss when
\* the replay was requested.
RunInv(w) ==
    LET run == runner[w]
        e == replay[run.replay].evaluation
        before == replay[run.replay].before
    IN  /\ run = [pc |-> run.pc, replay |-> run.replay, lost |-> run.lost, broken |-> run.broken,
                  forged |-> run.forged]
        /\ run.pc \in {"idle", "bytes", "bundle", "finish"}
        /\ run.pc # "idle" =>
              /\ run.replay \in Requests /\ e # None /\ run.forged \in BOOLEAN
              /\ run.lost \subseteq (damage[e] \cap Lost) \cup {"bundle", "engine"}
              /\ run.broken \subseteq (damage[e] \cap (RowsChanged \cup {"bytes_corrupt"})) \cup {"bundle"}
              /\ "bundle" \in run.lost \cup run.broken => PinOf[e] \in spoiled
              /\ run.forged => "result_forged" \in damage[e]
              /\ before \cap {"removed"} \subseteq run.lost
              /\ before \cap RowsChanged \subseteq run.broken
              /\ "result_forged" \in before => run.forged
              /\ run.pc # "bytes" /\ run.lost = {} /\ run.broken = {}
                    => before \cap {"bytes_missing", "bytes_corrupt"} = {}

DamageStays == \A r \in Requests : replay[r] # NoReplay => replay[r].before \subseteq damage[replay[r].evaluation]

HInv ==
    /\ Typed /\ LockInv /\ ChainInv /\ FilesInv
    /\ \A r \in Requests : ReqInv(r)
    /\ \A k \in Keys : KeyInv(k)
    /\ \A w \in Runners : RunInv(w)
    /\ DamageStays /\ ReplayTruthful

-----------------------------------------------------------------------------
(* The model's operators.                                                  *)

USE DEF Lost, RowsChanged, Damages, Unusable

\* A scenario's requests, whatever they are.
LEMMA AskFacts ==
  ASSUME Typed, NEW r \in Requests
  PROVE  /\ asks[r].key # None => asks[r].key \in Keys
         /\ asks[r].kind = "replay" => asks[r].evaluation \in Evaluations \cup {Unfinished}
         /\ \A q \in Requests : asks[r].key # None /\ asks[q].key = asks[r].key
                                   => asks[q].kind = asks[r].kind
<1> PICK s \in Scenarios : asks = s.asks
  BY DEF Typed
<1> QED BY HistoryAssumption DEF Keys

\* A thread is replaced.
LEMMA MoveFacts ==
  ASSUME DOMAIN thread = Requests, thread = [s \in Requests |-> thread[s]], NEW r \in Requests, NEW t,
         thread' = [thread EXCEPT ![r] = t]
  PROVE  /\ thread'[r] = t
         /\ \A s \in Requests : s # r => thread'[s] = thread[s]
         /\ DOMAIN thread' = Requests /\ thread' = [s \in Requests |-> thread'[s]]
  OBVIOUS

\* A thread that is given a new place, or a place and a bundle.
LEMMA FieldFacts ==
  ASSUME NEW t, t = [pc |-> t.pc, answer |-> t.answer, seen |-> t.seen], NEW pc, NEW x
  PROVE  /\ [t EXCEPT !.pc = pc] = [pc |-> pc, answer |-> t.answer, seen |-> t.seen]
         /\ [t EXCEPT !.pc = pc, !.seen = x] = [pc |-> pc, answer |-> t.answer, seen |-> x]
<1> PICK p, a, s : t = [pc |-> p, answer |-> a, seen |-> s]
  OBVIOUS
<1>1. t.pc = p /\ t.answer = a /\ t.seen = s
  OBVIOUS
<1>2. [t EXCEPT !.pc = pc] = [pc |-> pc, answer |-> a, seen |-> s]
  OBVIOUS
<1>3. [t EXCEPT !.pc = pc, !.seen = x] = [pc |-> pc, answer |-> a, seen |-> x]
  <2> DEFINE u == [t EXCEPT !.pc = pc, !.seen = x]
  <2>1. t \in [pc : {p, pc}, answer : {a}, seen : {s, x}]
    OBVIOUS
  <2>2. u \in [pc : {p, pc}, answer : {a}, seen : {s, x}]
    BY <2>1
  <2>3. u.pc = pc /\ u.answer = a /\ u.seen = x
    BY <2>1, <1>1
  <2> HIDE DEF u
  <2>4. u = [pc |-> pc, answer |-> a, seen |-> x]
    BY <2>2, <2>3
  <2> QED BY <2>4 DEF u
<1> QED BY <1>1, <1>2, <1>3

\* A request moves to another place in its handler.
LEMMA StepFacts ==
  ASSUME Typed, NEW r \in Requests, NEW pc, Step(r, pc)
  PROVE  /\ thread'[r] = [pc |-> pc, answer |-> thread[r].answer, seen |-> thread[r].seen]
         /\ \A s \in Requests : s # r => thread'[s] = thread[s]
         /\ DOMAIN thread' = Requests /\ thread' = [s \in Requests |-> thread'[s]]
<1>1. thread[r] = [pc |-> thread[r].pc, answer |-> thread[r].answer, seen |-> thread[r].seen]
  BY DEF Typed
<1>2. thread' = [thread EXCEPT ![r] = [thread[r] EXCEPT !.pc = pc]]
  BY DEF Typed, Step
<1>3. [thread[r] EXCEPT !.pc = pc] = [pc |-> pc, answer |-> thread[r].answer, seen |-> thread[r].seen]
  BY <1>1, FieldFacts
<1> QED BY <1>2, <1>3, MoveFacts DEF Typed

\* A request is answered.
LEMMA AnswerFacts ==
  ASSUME Typed, NEW r \in Requests, NEW answer, Answer(r, answer)
  PROVE  /\ thread'[r] = [pc |-> "done", answer |-> answer, seen |-> thread[r].seen]
         /\ \A s \in Requests : s # r => thread'[s] = thread[s]
         /\ DOMAIN thread' = Requests /\ thread' = [s \in Requests |-> thread'[s]]
<1> DEFINE t == thread[r]
           u == [t EXCEPT !.pc = "done", !.answer = answer]
           v == [pc |-> "done", answer |-> answer, seen |-> t.seen]
<1>1. t \in [pc : {t.pc, "done"}, answer : {t.answer, answer}, seen : {t.seen}]
  <2>1. t = [pc |-> t.pc, answer |-> t.answer, seen |-> t.seen]
    BY DEF Typed
  <2> HIDE DEF t
  <2> QED BY <2>1
<1>2. thread' = [thread EXCEPT ![r] = u]
  BY DEF Typed, Answer
<1> HIDE DEF t
<1>3. u \in [pc : {t.pc, "done"}, answer : {t.answer, answer}, seen : {t.seen}]
  BY <1>1
<1>4. u.pc = "done" /\ u.answer = answer /\ u.seen = t.seen
  BY <1>1
<1> HIDE DEF u
<1>5. u = v
  BY <1>3, <1>4
<1>6. /\ thread'[r] = v
      /\ \A s \in Requests : s # r => thread'[s] = thread[s]
      /\ DOMAIN thread' = Requests /\ thread' = [s \in Requests |-> thread'[s]]
  BY <1>2, <1>5, MoveFacts DEF Typed
<1> QED BY <1>6 DEF v, t

\* A request remembers a bundle that it saw.
LEMMA SeenFacts ==
  ASSUME Typed, NEW r \in Requests, NEW pc, NEW d,
         thread' = [thread EXCEPT ![r].pc = pc, ![r].seen = d]
  PROVE  /\ thread'[r] = [pc |-> pc, answer |-> thread[r].answer, seen |-> d]
         /\ \A s \in Requests : s # r => thread'[s] = thread[s]
         /\ DOMAIN thread' = Requests /\ thread' = [s \in Requests |-> thread'[s]]
<1>1. thread[r] = [pc |-> thread[r].pc, answer |-> thread[r].answer, seen |-> thread[r].seen]
  BY DEF Typed
<1>2. thread' = [thread EXCEPT ![r] = [thread[r] EXCEPT !.pc = pc, !.seen = d]]
  OBVIOUS
<1>3. [thread[r] EXCEPT !.pc = pc, !.seen = d] = [pc |-> pc, answer |-> thread[r].answer, seen |-> d]
  BY <1>1, FieldFacts
<1>4. DOMAIN thread = Requests /\ thread = [s \in Requests |-> thread[s]]
  BY DEF Typed
<1> QED BY <1>2, <1>3, <1>4, MoveFacts

\* A request's key is finished, or claimed.
LEMMA KeyFacts ==
  ASSUME Typed, NEW r \in Requests, NEW state, NEW outcome, asks[r].key \in Keys,
         idem' = Finished(r, state, outcome)
  PROVE  /\ idem'[asks[r].key] = [state |-> state, holder |-> r, outcome |-> outcome]
         /\ \A k \in Keys : k # asks[r].key => idem'[k] = idem[k]
         /\ idem' = [k \in Keys |-> idem'[k]]
  BY DEF Typed, Finished

\* Events are appended for one request.
LEMMA AuditFacts ==
  ASSUME Typed, NEW r \in Requests, NEW E, audit' = Appended(r, E)
  PROVE  /\ audit' \in [Requests -> [Events -> Nat]]
         /\ \A e \in Events : audit'[r][e] = IF e \in E THEN audit[r][e] + 1 ELSE audit[r][e]
         /\ \A s \in Requests : s # r => audit'[s] = audit[s]
<1>1. /\ audit[r] \in [Events -> Nat]
      /\ audit' = [audit EXCEPT ![r] = [e \in Events |-> audit[r][e] + IF e \in E THEN 1 ELSE 0]]
  BY DEF Typed, Appended
<1>2. [e \in Events |-> audit[r][e] + IF e \in E THEN 1 ELSE 0] \in [Events -> Nat]
  BY <1>1
<1>3. \A e \in Events : audit'[r][e] = audit[r][e] + IF e \in E THEN 1 ELSE 0
  BY <1>1 DEF Typed
<1> QED BY <1>1, <1>2, <1>3 DEF Typed

-----------------------------------------------------------------------------
(* A step of one request, and the others.                                  *)

Moved(r) ==
    /\ DOMAIN thread' = Requests /\ thread' = [s \in Requests |-> thread'[s]]
    /\ thread'[r] = [pc |-> thread'[r].pc, answer |-> thread'[r].answer, seen |-> thread'[r].seen]
    /\ \A s \in Requests : s # r => thread'[s] = thread[s]

\* Its key is left alone, or was not completed and is its own now.
KeyStep(r) ==
    \/ UNCHANGED idem
    \/ \E state, outcome :
          /\ asks[r].key \in Keys /\ idem[asks[r].key].state # "COMPLETED"
          /\ idem' = Finished(r, state, outcome)
          /\ state = "COMPLETED" /\ asks[r].kind = "replay" => outcome = r

\* Events that no account speaks of.
Aloof(r, E) ==
    /\ E \cap {"REPLAY_REQUESTED", "REPLAY_EXECUTED", "USER_CORRECTION", "EVALUATION_STARTED",
               "KNOWLEDGE_ACTIVATED"} = {}
    /\ asks[r].kind = "replay" => "INTEGRITY_FAILURE" \notin E
    /\ asks[r].kind = "download" => "EVIDENCE_ACCESSED" \notin E

AuditStep(r) == UNCHANGED audit \/ \E E : audit' = Appended(r, E) /\ Aloof(r, E)

CacheStep == UNCHANGED cache \/ \E d \in Digests : Remember(d)

LockStep(r) ==
    /\ lock' = lock \/ (lock' = r /\ lock = None) \/ (lock' = None /\ lock = r)
    /\ lock' = r => thread'[r].pc \in {"locked", "checked"}

\* Completed keys stay as they are.
LEMMA KeyStepFacts ==
  ASSUME Typed, NEW r \in Requests, \A k \in Keys : KeyInv(k), KeyStep(r), UNCHANGED asks
  PROVE  /\ idem' = [k \in Keys |-> idem'[k]]
         /\ \A k \in Keys : idem[k].state = "COMPLETED" => idem'[k] = idem[k]
         /\ \A k \in Keys : KeyInv(k)'
<1>1. CASE UNCHANGED idem
  BY <1>1 DEF Typed, KeyInv
<1>2. ASSUME NEW state, NEW outcome, asks[r].key \in Keys, idem[asks[r].key].state # "COMPLETED",
             idem' = Finished(r, state, outcome),
             state = "COMPLETED" /\ asks[r].kind = "replay" => outcome = r
      PROVE  /\ idem' = [k \in Keys |-> idem'[k]]
             /\ \A k \in Keys : idem[k].state = "COMPLETED" => idem'[k] = idem[k]
             /\ \A k \in Keys : KeyInv(k)'
  <2>1. /\ idem'[asks[r].key] = [state |-> state, holder |-> r, outcome |-> outcome]
        /\ \A k \in Keys : k # asks[r].key => idem'[k] = idem[k]
        /\ idem' = [k \in Keys |-> idem'[k]]
    BY <1>2, KeyFacts
  <2>2. KeyInv(asks[r].key)'
    BY <1>2, <2>1 DEF KeyInv
  <2>3. ASSUME NEW k \in Keys, k # asks[r].key PROVE KeyInv(k)'
    BY <2>1, <2>3, ZenonT(40) DEF KeyInv
  <2> QED BY <1>2, <2>1, <2>2, <2>3
<1> QED BY <1>1, <1>2 DEF KeyStep

\* What a step of request r leaves of the others.
LEMMA OthersKeep ==
  ASSUME HInv, NEW r \in Requests, NEW s \in Requests, s # r, UNCHANGED asks,
         thread'[s] = thread[s], audit'[s] = audit[s], replay'[s] = replay[s], created'[s] = created[s],
         s \in sent' <=> s \in sent,
         \A k \in Keys : idem[k].state = "COMPLETED" => idem'[k] = idem[k],
         lock' = lock \/ lock = None \/ lock = r, deployment' = deployment \/ lock = r,
         RecordsOf(s)' = RecordsOf(s)
  PROVE  ReqInv(s)'
<1>1. PlaceInv(s)'
  BY DEF HInv, ReqInv, PlaceInv
<1>2. HoldInv(s)'
  <2>1. thread[s].pc \in {"locked", "checked"} => lock = s /\ thread[s].seen = deployment.active /\ lock # None
    BY KnowledgeAssumption DEF HInv, ReqInv, HoldInv
  <2>2. thread[s].pc = "checked" => ~ PreconditionFails(s)
    BY DEF HInv, ReqInv, HoldInv
  <2> QED BY <2>1, <2>2 DEF HoldInv, PreconditionFails
<1>3. FreshInv(s)'
  BY DEF HInv, ReqInv, FreshInv
<1>4. AuditInv(s)'
  BY DEF HInv, ReqInv, AuditInv
<1> QED BY <1>1, <1>2, <1>3, <1>4 DEF ReqInv

\* Events that no account speaks of change no account.
LEMMA AuditStepFacts ==
  ASSUME Typed, NEW r \in Requests, AuditStep(r), AuditInv(r), UNCHANGED <<asks, replay, created, records>>,
         r \in sent' <=> r \in sent
  PROVE  /\ audit' \in [Requests -> [Events -> Nat]]
         /\ \A s \in Requests : s # r => audit'[s] = audit[s]
         /\ AuditInv(r)'
<1>1. CASE UNCHANGED audit
  BY <1>1 DEF Typed, AuditInv, RecordsOf
<1>2. ASSUME NEW E, audit' = Appended(r, E), Aloof(r, E)
      PROVE  /\ audit' \in [Requests -> [Events -> Nat]]
             /\ \A s \in Requests : s # r => audit'[s] = audit[s]
             /\ AuditInv(r)'
  <2>1. /\ audit' \in [Requests -> [Events -> Nat]]
        /\ \A e \in Events : audit'[r][e] = IF e \in E THEN audit[r][e] + 1 ELSE audit[r][e]
        /\ \A s \in Requests : s # r => audit'[s] = audit[s]
    BY <1>2, AuditFacts
  <2>2. /\ \A e \in {"REPLAY_REQUESTED", "REPLAY_EXECUTED", "USER_CORRECTION", "EVALUATION_STARTED",
                     "KNOWLEDGE_ACTIVATED"} : audit'[r][e] = audit[r][e]
        /\ asks[r].kind = "replay" => audit'[r]["INTEGRITY_FAILURE"] = audit[r]["INTEGRITY_FAILURE"]
        /\ asks[r].kind = "download" => audit'[r]["EVIDENCE_ACCESSED"] = audit[r]["EVIDENCE_ACCESSED"]
    BY <1>2, <2>1 DEF Aloof, Events
  <2>3. RecordsOf(r)' = RecordsOf(r)
    BY DEF RecordsOf
  <2>4. AuditInv(r)'
    BY <2>2, <2>3 DEF AuditInv
  <2> QED BY <2>1, <2>4
<1> QED BY <1>1, <1>2 DEF AuditStep

\* Only what the digest says is remembered for it.
LEMMA CacheFacts ==
  ASSUME Typed, FilesInv, CacheStep
  PROVE  cache' = [d \in Digests |-> cache'[d]] /\ \A d \in Digests : cache'[d] \in {d, None}
<1>1. CASE UNCHANGED cache
  BY <1>1 DEF Typed, FilesInv
<1>2. ASSUME NEW d \in Digests, Remember(d)
      PROVE  cache' = [x \in Digests |-> cache'[x]] /\ \A x \in Digests : cache'[x] \in {x, None}
  <2>1. Verified(d) \in {d, None}
    BY DEF Verified, Loaded, FilesInv
  <2>2. cache' = [cache EXCEPT ![d] = Verified(d)] /\ cache = [x \in Digests |-> cache[x]]
    BY <1>2 DEF Remember, Typed
  <2> HIDE DEF Verified
  <2>3. \A x \in Digests : cache'[x] = IF x = d THEN Verified(d) ELSE cache[x]
    BY <2>2
  <2> QED BY <2>1, <2>2, <2>3 DEF FilesInv
<1> QED BY <1>1, <1>2 DEF CacheStep

\* A step that leaves the activations, replays and files as they are, and of its request no trace
\* that is accounted for.
LEMMA QuietMove ==
  ASSUME HInv, NEW r \in Requests, thread[r].pc # "done",
         UNCHANGED <<asks, disk, tables, damage, engine, replay, runner, created, sent, spoiled>>,
         Moved(r), KeyStep(r), AuditStep(r), CacheStep, LockStep(r), tasks' \subseteq Requests,
         PlaceInv(r)', HoldInv(r)'
  PROVE  HInv'
<1>0. /\ Typed /\ LockInv /\ ChainInv /\ FilesInv /\ ReqInv(r)
      /\ \A k \in Keys : KeyInv(k)
  BY DEF HInv
<1>1. /\ idem' = [k \in Keys |-> idem'[k]]
      /\ \A k \in Keys : idem[k].state = "COMPLETED" => idem'[k] = idem[k]
      /\ \A k \in Keys : KeyInv(k)'
  BY <1>0, KeyStepFacts
<1>2. /\ audit' \in [Requests -> [Events -> Nat]]
      /\ \A s \in Requests : s # r => audit'[s] = audit[s]
      /\ AuditInv(r)'
  BY <1>0, AuditStepFacts DEF ReqInv, tables
<1>3. cache' = [d \in Digests |-> cache'[d]] /\ \A d \in Digests : cache'[d] \in {d, None}
  BY <1>0, CacheFacts
<1>4. Typed'
  <2>1. \A s \in Requests : thread'[s] = [pc |-> thread'[s].pc, answer |-> thread'[s].answer,
                                          seen |-> thread'[s].seen]
    BY <1>0 DEF Moved, Typed
  <2> QED BY <1>0, <1>1, <1>2, <1>3, <2>1 DEF Typed, Moved, tables
<1>5. LockInv'
  BY <1>0 DEF LockInv, LockStep, Moved
<1>6. ChainInv'
  BY <1>0, <1>1 DEF ChainInv, tables
<1>7. FilesInv'
  BY <1>0, <1>3 DEF FilesInv
<1>8. FreshInv(r)'
  BY <1>0, <1>1 DEF ReqInv, FreshInv
<1>9. ASSUME NEW s \in Requests, s # r PROVE ReqInv(s)'
  <2>1. RecordsOf(s)' = RecordsOf(s)
    BY DEF RecordsOf, tables
  <2> QED BY <1>1, <1>2, <1>9, <2>1, OthersKeep DEF Moved, LockStep, tables
<1>10. \A w \in Runners : RunInv(w)'
  BY DEF HInv, RunInv
<1>11. DamageStays' /\ ReplayTruthful'
  BY DEF HInv, DamageStays, ReplayTruthful
<1> QED BY <1>1, <1>2, <1>4, <1>5, <1>6, <1>7, <1>8, <1>9, <1>10, <1>11 DEF HInv, ReqInv

-----------------------------------------------------------------------------
(* The steps of requests.                                                  *)

\* An answered request is at the end of its handler.
LEMMA AnswerMove ==
  ASSUME Typed, NEW r \in Requests, NEW answer, Answer(r, answer)
  PROVE  Moved(r) /\ thread'[r].pc = "done" /\ PlaceInv(r)' /\ HoldInv(r)'
<1>1. /\ thread'[r] = [pc |-> "done", answer |-> answer, seen |-> thread[r].seen]
      /\ \A s \in Requests : s # r => thread'[s] = thread[s]
      /\ DOMAIN thread' = Requests /\ thread' = [s \in Requests |-> thread'[s]]
  BY AnswerFacts
<1>2. thread'[r].pc = "done" /\ thread'[r].answer = answer /\ thread'[r].seen = thread[r].seen
  BY <1>1
<1> QED BY <1>1, <1>2 DEF Moved, PlaceInv, HoldInv

\* A request that goes on keeps what it has seen.
LEMMA StepMove ==
  ASSUME Typed, NEW r \in Requests, NEW pc, Step(r, pc)
  PROVE  Moved(r) /\ thread'[r].pc = pc /\ thread'[r].seen = thread[r].seen
<1>1. /\ thread'[r] = [pc |-> pc, answer |-> thread[r].answer, seen |-> thread[r].seen]
      /\ \A s \in Requests : s # r => thread'[s] = thread[s]
      /\ DOMAIN thread' = Requests /\ thread' = [s \in Requests |-> thread'[s]]
  BY StepFacts
<1>2. thread'[r].pc = pc /\ thread'[r].answer = thread[r].answer /\ thread'[r].seen = thread[r].seen
  BY <1>1
<1> QED BY <1>1, <1>2 DEF Moved

\* The deployment row's lock is left alone by a request that does not hold it, or released.
LEMMA LockMove ==
  ASSUME LockInv, NEW r \in Requests,
         \/ thread[r].pc \notin {"locked", "checked"} /\ UNCHANGED lock
         \/ lock' = IF lock = r THEN None ELSE lock
  PROVE  LockStep(r)
  BY KnowledgeAssumption DEF LockInv, LockStep

\* A key that its request holds is not completed.
LEMMA HeldKey ==
  ASSUME Typed, NEW r \in Requests, asks[r].key # None, Holds(r)
  PROVE  asks[r].key \in Keys /\ idem[asks[r].key].state # "COMPLETED"
  BY AskFacts DEF Holds

\* Claims, answers that are given again, failures.
LEMMA ClaimStep ==
  ASSUME HInv, NEW r \in Requests, Claim(r), UNCHANGED hvars
  PROVE  HInv'
<1>1. Typed /\ LockInv
  BY DEF HInv
<1>2. Moved(r) /\ thread'[r].pc = "claimed"
  BY <1>1, StepMove DEF Claim
<1>3. KeyStep(r)
  BY <1>1, AskFacts DEF Claim, KeyStep
<1>4. PlaceInv(r)' /\ HoldInv(r)'
  BY <1>2 DEF PlaceInv, HoldInv, Claim
<1>5. LockStep(r)
  BY <1>1, LockMove DEF Claim
<1>6. AuditStep(r) /\ CacheStep /\ tasks' \subseteq Requests
  BY <1>1 DEF Claim, AuditStep, CacheStep, store, hvars, Typed
<1> QED BY <1>2, <1>3, <1>4, <1>5, <1>6, QuietMove DEF Claim, store, hvars

\* An outcome that is answered again names a request: the task it starts is one of those recorded.
LEMMA AnswerAgainStep ==
  ASSUME HInv, NEW r \in Requests, AnswerReplayAgain(r)
  PROVE  HInv'
<1>1. Typed /\ LockInv /\ \A k \in Keys : KeyInv(k)
  BY DEF HInv
<1>2. asks[r].key \in Keys
  BY <1>1, AskFacts DEF AnswerReplayAgain, AnswerAgain
<1>3. Moved(r) /\ PlaceInv(r)' /\ HoldInv(r)'
  BY <1>1, AnswerMove DEF AnswerReplayAgain, AnswerAgain
<1>4. LockStep(r)
  BY <1>1, LockMove DEF AnswerReplayAgain, AnswerAgain
<1>5. tasks' \subseteq Requests
  <2> DEFINE k == asks[r].key
  <2>1. CASE asks[r].kind = "replay" /\ idem[k].state = "COMPLETED"
    <3>1. idem[k].holder \in Requests /\ asks[idem[k].holder].key = asks[r].key /\ asks[r].key # None
      BY <1>1, <1>2, <2>1 DEF KeyInv, AnswerReplayAgain, AnswerAgain
    <3>2. asks[idem[k].holder].kind = "replay"
      BY <1>1, <2>1, <3>1, AskFacts
    <3>3. idem[k].outcome \in Requests
      BY <1>1, <1>2, <2>1, <3>1, <3>2 DEF KeyInv
    <3> QED BY <1>1, <2>1, <3>3 DEF AnswerReplayAgain, Typed
  <2>2. CASE ~ (asks[r].kind = "replay" /\ idem[k].state = "COMPLETED")
    BY <1>1, <2>2 DEF AnswerReplayAgain, Typed
  <2> QED BY <2>1, <2>2
<1>6. KeyStep(r) /\ AuditStep(r) /\ CacheStep
  BY DEF AnswerReplayAgain, AnswerAgain, KeyStep, AuditStep, CacheStep, store
<1>7. thread[r].pc # "done"
  BY DEF AnswerReplayAgain, AnswerAgain
<1> QED BY <1>3, <1>4, <1>5, <1>6, <1>7, QuietMove DEF AnswerReplayAgain, AnswerAgain, store

\* A stale claim, a failed transaction or a failed audit gives up the lock and at most its own claim.
LEMMA FailureSteps ==
  ASSUME HInv, NEW r \in Requests, StaleClaim(r) \/ TransactionFails(r) \/ AuditFails(r),
         UNCHANGED hvars
  PROVE  HInv'
<1>1. Typed /\ LockInv
  BY DEF HInv
<1>2. Moved(r) /\ PlaceInv(r)' /\ HoldInv(r)'
  BY <1>1, AnswerMove DEF StaleClaim, TransactionFails, AuditFails
<1>3. KeyStep(r)
  <2>1. CASE StaleClaim(r)
    BY <2>1 DEF StaleClaim, KeyStep
  <2>2. CASE TransactionFails(r)
    BY <1>1, <2>2, HeldKey DEF TransactionFails, KeyStep, Release, Released
  <2>3. CASE AuditFails(r)
    BY <2>3 DEF AuditFails, KeyStep
  <2> QED BY <2>1, <2>2, <2>3
<1>4. LockStep(r)
  BY <1>1, LockMove DEF StaleClaim, TransactionFails, AuditFails
<1>5. AuditStep(r) /\ CacheStep /\ tasks' \subseteq Requests /\ thread[r].pc # "done"
  BY <1>1 DEF StaleClaim, TransactionFails, AuditFails, AuditStep, CacheStep, store, hvars, Typed
<1> QED BY <1>2, <1>3, <1>4, <1>5, QuietMove DEF StaleClaim, TransactionFails, AuditFails, store, hvars

\* Activations.
LEMMA PrevalidateStep ==
  ASSUME HInv, NEW r \in Requests, Prevalidate(r), UNCHANGED hvars
  PROVE  HInv'
<1> DEFINE d == asks[r].digest
<1>1. Typed /\ LockInv /\ PlaceInv(r)
  BY DEF HInv, ReqInv
<1>2. /\ thread[r].pc = "claimed" /\ asks[r].kind = "activate" /\ asks[r].key # None
      /\ UNCHANGED <<asks, idem, disk, tables, lock, audit>>
  BY <1>1 DEF Prevalidate, PlaceInv
<1>3. PICK pc \in {"validated", "refusing"} :
         Step(r, pc) /\ (pc = "validated" => d \in Approved \cap Governed)
  BY DEF Prevalidate
<1>4. Moved(r) /\ thread'[r].pc = pc
  BY <1>1, <1>3, StepMove
<1>5. PlaceInv(r)' /\ HoldInv(r)'
  BY <1>2, <1>3, <1>4 DEF PlaceInv, HoldInv
<1>6. CacheStep
  BY KnowledgeAssumption DEF Prevalidate, CacheStep
<1>7. LockStep(r)
  BY <1>1, <1>2, LockMove
<1>8. KeyStep(r) /\ AuditStep(r) /\ tasks' \subseteq Requests /\ thread[r].pc # "done"
  BY <1>1, <1>2 DEF KeyStep, AuditStep, hvars, Typed
<1> QED BY <1>2, <1>4, <1>5, <1>6, <1>7, <1>8, QuietMove DEF hvars

\* A rejected activation finishes its own key and releases the row.
LEMMA RejectionSteps ==
  ASSUME HInv, NEW r \in Requests, RejectNotEligible(r) \/ RejectPrecondition(r) \/ RejectWithdrawn(r),
         UNCHANGED hvars
  PROVE  HInv'
<1>1. Typed /\ LockInv /\ PlaceInv(r)
  BY DEF HInv, ReqInv
<1>2. PICK code : Rejected(r, code)
  BY DEF RejectNotEligible, RejectPrecondition, RejectWithdrawn
<1>3. thread[r].pc \in {"refusing", "locked"} /\ asks[r].key # None /\ asks[r].kind = "activate"
  BY <1>1 DEF RejectNotEligible, RejectPrecondition, RejectWithdrawn, PlaceInv
<1>4. Moved(r) /\ PlaceInv(r)' /\ HoldInv(r)'
  BY <1>1, <1>2, AnswerMove DEF Rejected
<1>5. KeyStep(r)
  <2>1. asks[r].key \in Keys /\ idem[asks[r].key].state # "COMPLETED"
    BY <1>1, <1>2, <1>3, HeldKey DEF Rejected
  <2> QED BY <1>2, <2>1 DEF KeyStep, Rejected
<1>6. AuditStep(r)
  BY <1>2 DEF AuditStep, Rejected, Aloof
<1>7. LockStep(r)
  BY <1>1, <1>2, LockMove DEF Rejected
<1>8. CacheStep /\ tasks' \subseteq Requests
  BY <1>1, <1>2 DEF Rejected, CacheStep, store, hvars, Typed
<1> QED BY <1>2, <1>3, <1>4, <1>5, <1>6, <1>7, <1>8, QuietMove DEF Rejected, store, hvars

\* The bundle seen under the lock is the active one.
LEMMA LockDeploymentStep ==
  ASSUME HInv, NEW r \in Requests, LockDeployment(r), UNCHANGED hvars
  PROVE  HInv'
<1>1. Typed /\ LockInv /\ PlaceInv(r)
  BY DEF HInv, ReqInv
<1>2. /\ thread[r].pc = "validated" /\ lock = None /\ lock' = r
      /\ thread' = [thread EXCEPT ![r].pc = "locked", ![r].seen = deployment.active]
      /\ UNCHANGED <<asks, idem, store, tables, audit>>
  BY DEF LockDeployment
<1>3. Moved(r) /\ thread'[r].pc = "locked" /\ thread'[r].seen = deployment.active
  <2>1. /\ thread'[r] = [pc |-> "locked", answer |-> thread[r].answer, seen |-> deployment.active]
        /\ \A s \in Requests : s # r => thread'[s] = thread[s]
        /\ DOMAIN thread' = Requests /\ thread' = [s \in Requests |-> thread'[s]]
    BY <1>1, <1>2, SeenFacts
  <2>2. /\ thread'[r].pc = "locked" /\ thread'[r].answer = thread[r].answer
        /\ thread'[r].seen = deployment.active
    BY <2>1
  <2> QED BY <2>1, <2>2 DEF Moved
<1>4. PlaceInv(r)'
  BY <1>1, <1>2, <1>3 DEF PlaceInv
<1>5. HoldInv(r)'
  BY <1>2, <1>3 DEF HoldInv, tables
<1>6. LockStep(r)
  BY <1>2, <1>3 DEF LockStep
<1>7. KeyStep(r) /\ AuditStep(r) /\ CacheStep /\ tasks' \subseteq Requests
  BY <1>1, <1>2 DEF KeyStep, AuditStep, CacheStep, store, hvars, Typed
<1> QED BY <1>2, <1>3, <1>4, <1>5, <1>6, <1>7, QuietMove DEF store, hvars

\* The precondition holds of what is still active.
LEMMA CheckReferenceStep ==
  ASSUME HInv, NEW r \in Requests, CheckReference(r), UNCHANGED hvars
  PROVE  HInv'
<1>1. Typed /\ LockInv /\ PlaceInv(r) /\ HoldInv(r)
  BY DEF HInv, ReqInv
<1>2. /\ thread[r].pc = "locked" /\ ~ PreconditionFails(r) /\ Step(r, "checked")
      /\ UNCHANGED <<asks, idem, store, tables, lock, audit>>
  BY DEF CheckReference
<1>3. Moved(r) /\ thread'[r].pc = "checked" /\ thread'[r].seen = thread[r].seen
  BY <1>1, <1>2, StepMove
<1>4. PlaceInv(r)'
  BY <1>1, <1>2, <1>3 DEF PlaceInv
<1>5. HoldInv(r)'
  BY <1>1, <1>2, <1>3 DEF HoldInv, PreconditionFails, tables
<1>6. LockStep(r)
  BY <1>2, <1>3 DEF LockStep
<1>7. KeyStep(r) /\ AuditStep(r) /\ CacheStep /\ tasks' \subseteq Requests
  BY <1>1, <1>2 DEF KeyStep, AuditStep, CacheStep, store, hvars, Typed
<1> QED BY <1>2, <1>3, <1>4, <1>5, <1>6, <1>7, QuietMove DEF store, hvars

\* One more activation record.
LEMMA AppendedRecord ==
  ASSUME Typed, NEW rec \in Record, records' = Append(records, rec)
  PROVE  /\ records' \in Seq(Record) /\ Len(records) \in Nat /\ Len(records') = Len(records) + 1
         /\ DOMAIN records = 1..Len(records) /\ DOMAIN records' = 1..Len(records) + 1
         /\ records'[Len(records) + 1] = rec
         /\ \A i \in DOMAIN records : records'[i] = records[i] /\ i # Len(records) + 1
         /\ \A s : /\ RecordsOf(s)' = RecordsOf(s) \cup (IF rec.by = s THEN {Len(records) + 1} ELSE {})
                   /\ IsFiniteSet(RecordsOf(s)) /\ Len(records) + 1 \notin RecordsOf(s)
<1>1. /\ records' \in Seq(Record) /\ Len(records) \in Nat /\ Len(records') = Len(records) + 1
      /\ DOMAIN records = 1..Len(records) /\ DOMAIN records' = 1..Len(records) + 1
      /\ records'[Len(records) + 1] = rec
      /\ \A i \in 1..Len(records) : records'[i] = records[i]
  BY DEF Typed
<1>2. \A i \in DOMAIN records : records'[i] = records[i] /\ i # Len(records) + 1
  BY <1>1
<1>3. ASSUME NEW s
      PROVE  /\ RecordsOf(s)' = RecordsOf(s) \cup (IF rec.by = s THEN {Len(records) + 1} ELSE {})
             /\ IsFiniteSet(RecordsOf(s)) /\ Len(records) + 1 \notin RecordsOf(s)
  <2>1. IsFiniteSet(1..Len(records))
    BY <1>1, FS_Interval
  <2>2. RecordsOf(s) \in SUBSET (1..Len(records))
    BY <1>1 DEF RecordsOf
  <2>3. IsFiniteSet(RecordsOf(s))
    BY <2>1, <2>2, FS_Subset
  <2>4. \A i \in DOMAIN records' : i \in DOMAIN records \/ i = Len(records) + 1
    BY <1>1
  <2>5. RecordsOf(s)' = RecordsOf(s) \cup (IF rec.by = s THEN {Len(records) + 1} ELSE {})
    BY <1>1, <1>2, <2>4 DEF RecordsOf
  <2> QED BY <1>2, <2>3, <2>5 DEF RecordsOf
<1> QED BY <1>1, <1>2, <1>3

\* An activation extends the chain of records by the request that expected its end.
LEMMA ActivateStep ==
  ASSUME HInv, NEW r \in Requests, Activate(r), UNCHANGED hvars
  PROVE  HInv'
<1> DEFINE d == asks[r].digest
           rec == [digest |-> d, previous |-> thread[r].seen, by |-> r]
           key == asks[r].key
<1>1. /\ Typed /\ LockInv /\ ChainInv /\ FilesInv /\ ReqInv(r)
      /\ PlaceInv(r) /\ HoldInv(r) /\ FreshInv(r) /\ AuditInv(r)
      /\ \A k \in Keys : KeyInv(k)
  BY DEF HInv, ReqInv
<1>2. /\ thread[r].pc = "checked" /\ Holds(r)
      /\ reference' = [reference EXCEPT ![d] = IF @ = "NONE" THEN "ELIGIBLE" ELSE @]
      /\ records' = Append(records, rec)
      /\ deployment' = [active |-> d, record |-> Len(records')]
      /\ audit' = Appended(r, {"KNOWLEDGE_ACTIVATED"})
      /\ idem' = Finished(r, "COMPLETED", "202")
      /\ Answer(r, "202")
      /\ lock' = IF lock = r THEN None ELSE lock
      /\ UNCHANGED <<asks, disk, cache, hvars>>
  BY DEF Activate, store
<1>3. /\ d \in Approved \cap Governed /\ d \in Digests /\ asks[r].kind = "activate" /\ key # None
      /\ lock = r /\ thread[r].seen = deployment.active /\ ~ PreconditionFails(r)
      /\ replay[r] = NoReplay /\ created[r] = None /\ r \notin sent
  BY <1>1, <1>2, KnowledgeAssumption DEF PlaceInv, HoldInv, FreshInv
<1>4. key \in Keys /\ idem[key].state # "COMPLETED"
  BY <1>1, <1>2, <1>3, HeldKey
<1>5. KeyStep(r)
  BY <1>2, <1>3, <1>4 DEF KeyStep
<1>6. /\ idem' = [k \in Keys |-> idem'[k]]
      /\ \A k \in Keys : idem[k].state = "COMPLETED" => idem'[k] = idem[k]
      /\ \A k \in Keys : KeyInv(k)'
  BY <1>1, <1>2, <1>5, KeyStepFacts
<1>7. idem'[key].state = "COMPLETED" /\ idem'[key].holder = r
  <2>1. idem'[asks[r].key] = [state |-> "COMPLETED", holder |-> r, outcome |-> "202"]
    BY <1>1, <1>2, <1>4, KeyFacts
  <2> QED BY <2>1
<1>8. Moved(r) /\ thread'[r].pc = "done" /\ PlaceInv(r)' /\ HoldInv(r)'
  BY <1>1, <1>2, AnswerMove
<1>9. rec \in Record
  BY <1>1, <1>3 DEF Record, Typed
<1>10. /\ records' \in Seq(Record) /\ Len(records) \in Nat /\ Len(records') = Len(records) + 1
       /\ DOMAIN records = 1..Len(records) /\ DOMAIN records' = 1..Len(records) + 1
       /\ records'[Len(records) + 1] = rec
       /\ \A i \in DOMAIN records : records'[i] = records[i] /\ i # Len(records) + 1
       /\ \A s : /\ RecordsOf(s)' = RecordsOf(s) \cup (IF rec.by = s THEN {Len(records) + 1} ELSE {})
                 /\ IsFiniteSet(RecordsOf(s)) /\ Len(records) + 1 \notin RecordsOf(s)
  <2> HIDE DEF rec
  <2> QED BY <1>1, <1>2, <1>9, AppendedRecord
<1>11. /\ audit' \in [Requests -> [Events -> Nat]]
       /\ \A e \in Events : audit'[r][e] = IF e = "KNOWLEDGE_ACTIVATED" THEN audit[r][e] + 1 ELSE audit[r][e]
       /\ \A s \in Requests : s # r => audit'[s] = audit[s]
  BY <1>1, <1>2, AuditFacts
<1>12. Typed'
  <2>1. \A s \in Requests : thread'[s] = [pc |-> thread'[s].pc, answer |-> thread'[s].answer,
                                          seen |-> thread'[s].seen]
    BY <1>1, <1>8 DEF Moved, Typed
  <2>2. reference' \in [Digests -> {"NONE", "ELIGIBLE", "WITHDRAWN"}]
    BY <1>1, <1>2, <1>3 DEF Typed
  <2>3. deployment' = [active |-> deployment'.active, record |-> deployment'.record] /\ deployment'.active \in Digests
    BY <1>2, <1>3
  <2> QED BY <1>1, <1>2, <1>6, <1>8, <1>10, <1>11, <2>1, <2>2, <2>3 DEF Typed, Moved, hvars
<1>13. LockInv'
  BY <1>2, <1>3 DEF LockInv
<1>14. ChainInv'
  <2>1. deployment'.record = Len(records') /\ deployment'.active = records'[Len(records')].digest /\ records' # <<>>
    BY <1>2, <1>10 DEF rec
  <2>2. ASSUME NEW i \in DOMAIN records'
        PROVE  LET ask == asks[records'[i].by]
               IN  /\ records'[i].digest \in Approved \cap Governed
                   /\ records'[i].previous = IF i = 1 THEN None ELSE records'[i - 1].digest
                   /\ ask.expected # "any" => ask.expected = records'[i].previous
                   /\ ask.key \in Keys
                   /\ idem'[ask.key].state = "COMPLETED" /\ idem'[ask.key].holder = records'[i].by
    <3>1. CASE i \in DOMAIN records
      <4>1. records'[i] = records[i] /\ (i # 1 => i - 1 \in DOMAIN records /\ records'[i - 1] = records[i - 1])
        BY <1>10, <3>1
      <4> QED BY <1>1, <1>6, <3>1, <4>1 DEF ChainInv
    <3>2. CASE i = Len(records) + 1
      <4>1. records'[i] = rec /\ rec.digest = d /\ rec.by = r /\ rec.previous = deployment.active
        BY <1>3, <1>10, <3>2
      <4>2. asks[r].expected # "any" => asks[r].expected = deployment.active
        BY <1>3 DEF PreconditionFails
      <4>3. deployment.active = IF i = 1 THEN None ELSE records'[i - 1].digest
        <5>1. CASE records = <<>>
          BY <1>1, <1>10, <3>2, <5>1 DEF ChainInv
        <5>2. CASE records # <<>>
          <6>1. Len(records) # 0 /\ Len(records) \in DOMAIN records /\ i - 1 = Len(records) /\ i # 1
            BY <1>1, <1>10, <3>2, <5>2, EmptySeq DEF Typed
          <6> QED BY <1>1, <1>10, <5>2, <6>1 DEF ChainInv
        <5> QED BY <5>1, <5>2
      <4> HIDE DEF rec
      <4> QED BY <1>3, <1>4, <1>7, <4>1, <4>2, <4>3
    <3> QED BY <1>10, <3>1, <3>2
  <2> QED BY <1>2, <2>1, <2>2 DEF ChainInv
<1>15. FilesInv'
  BY <1>1, <1>2 DEF FilesInv, hvars
<1>16. ReqInv(r)'
  <2>1. FreshInv(r)'
    BY <1>2, <1>3, <1>8 DEF FreshInv, hvars
  <2>2. Cardinality(RecordsOf(r)') = Cardinality(RecordsOf(r)) + 1
    <3>1. RecordsOf(r)' = RecordsOf(r) \cup {Len(records) + 1} /\ IsFiniteSet(RecordsOf(r))
          /\ Len(records) + 1 \notin RecordsOf(r)
      BY <1>10
    <3> QED BY <3>1, FS_AddElement
  <2>3. AuditInv(r)'
    <3>1. /\ audit'[r]["KNOWLEDGE_ACTIVATED"] = audit[r]["KNOWLEDGE_ACTIVATED"] + 1
          /\ \A e \in {"REPLAY_REQUESTED", "REPLAY_EXECUTED", "INTEGRITY_FAILURE", "EVIDENCE_ACCESSED",
                       "USER_CORRECTION", "EVALUATION_STARTED"} : audit'[r][e] = audit[r][e]
      BY <1>11 DEF Events
    <3> QED BY <1>1, <1>2, <1>3, <2>2, <3>1 DEF AuditInv, hvars
  <2> QED BY <1>8, <2>1, <2>3 DEF ReqInv
<1>17. ASSUME NEW s \in Requests, s # r PROVE ReqInv(s)'
  <2>1. RecordsOf(s)' = RecordsOf(s)
    BY <1>10, <1>17
  <2> QED BY <1>2, <1>3, <1>6, <1>8, <1>11, <1>17, <2>1, OthersKeep DEF Moved, hvars
<1>18. \A w \in Runners : RunInv(w)'
  BY <1>2 DEF HInv, RunInv, hvars
<1>19. DamageStays' /\ ReplayTruthful'
  BY <1>2 DEF HInv, DamageStays, ReplayTruthful, hvars
<1> QED BY <1>6, <1>12, <1>13, <1>14, <1>15, <1>16, <1>17, <1>18, <1>19 DEF HInv

\* Refusals of a request whose claim is known: a key that is held is finished, no other touched.
LEMMA RefusalKey ==
  ASSUME Typed, NEW r \in Requests, asks[r].key # None, NEW code, Refusal(r, code)
  PROVE  KeyStep(r) /\ \E answer : Answer(r, answer)
<1>1. CASE Holds(r)
  BY <1>1, HeldKey DEF Refusal, KeyStep
<1>2. CASE ~ Holds(r)
  BY <1>2 DEF Refusal, KeyStep
<1> QED BY <1>1, <1>2

\* Steps that only move or answer their request, and perhaps finish its key.
LEMMA OwnMove ==
  ASSUME HInv, NEW r \in Requests, thread[r].pc \notin {"done", "locked", "checked"}, Own,
         UNCHANGED <<replay, tasks, created, sent>>, KeyStep(r), AuditStep(r),
         Moved(r), PlaceInv(r)', HoldInv(r)'
  PROVE  HInv'
<1>1. Typed /\ LockInv
  BY DEF HInv
<1>2. /\ UNCHANGED <<asks, disk, cache, tables, lock, damage, engine, replay, tasks, runner, created, sent, spoiled>>
  BY DEF Own, store
<1>3. LockStep(r)
  BY <1>1, <1>2, LockMove
<1>4. CacheStep /\ tasks' \subseteq Requests
  BY <1>1, <1>2 DEF CacheStep, Typed
<1> QED BY <1>2, <1>3, <1>4, QuietMove

\* Refusals before anything is recorded.
LEMMA RefusalSteps ==
  ASSUME HInv, NEW r \in Requests, Conflict(r) \/ RefuseRemoved(r) \/ EnvelopeDiffers(r)
  PROVE  HInv'
<1>1. Typed /\ PlaceInv(r)
  BY DEF HInv, ReqInv
<1>2. asks[r].key # None
  BY <1>1 DEF PlaceInv, Conflict, RefuseRemoved, EnvelopeDiffers
<1>3. KeyStep(r) /\ \E answer : Answer(r, answer)
  <2>1. CASE Conflict(r)
    BY <1>1, <1>2, <2>1, RefusalKey DEF Conflict
  <2>2. CASE RefuseRemoved(r)
    BY <1>1, <1>2, <2>2, HeldKey DEF RefuseRemoved, KeyStep
  <2>3. CASE EnvelopeDiffers(r)
    BY <1>1, <1>2, <2>3, RefusalKey DEF EnvelopeDiffers
  <2> QED BY <2>1, <2>2, <2>3
<1>4. Moved(r) /\ PlaceInv(r)' /\ HoldInv(r)'
  BY <1>1, <1>3, AnswerMove
<1>5. /\ thread[r].pc \notin {"done", "locked", "checked"} /\ Own
      /\ UNCHANGED <<replay, tasks, created, sent>> /\ UNCHANGED audit
  BY DEF Conflict, RefuseRemoved, EnvelopeDiffers
<1> QED BY <1>3, <1>4, <1>5, OwnMove DEF AuditStep

\* A replay that is to be recorded is one of a finished evaluation.
LEMMA BeginRecordingStep ==
  ASSUME HInv, NEW r \in Requests, BeginRecording(r)
  PROVE  HInv'
<1>1. Typed /\ PlaceInv(r)
  BY DEF HInv, ReqInv
<1>2. /\ thread[r].pc = "claimed" /\ asks[r].kind = "replay" /\ asks[r].evaluation # Unfinished
      /\ Step(r, "recording") /\ Own /\ UNCHANGED asks
      /\ UNCHANGED <<idem, audit, replay, tasks, created, sent>>
  BY DEF BeginRecording, Own
<1>3. asks[r].key # None /\ asks[r].evaluation \in Evaluations
  BY <1>1, <1>2, AskFacts DEF PlaceInv
<1>4. Moved(r) /\ thread'[r].pc = "recording"
  BY <1>1, <1>2, StepMove
<1>5. PlaceInv(r)' /\ HoldInv(r)'
  BY <1>2, <1>3, <1>4 DEF PlaceInv, HoldInv
<1> QED BY <1>2, <1>4, <1>5, OwnMove DEF KeyStep, AuditStep

\* The evidence of a correction is looked up.
LEMMA FindItemsStep ==
  ASSUME HInv, NEW r \in Requests, FindItems(r)
  PROVE  HInv'
<1>1. Typed /\ PlaceInv(r)
  BY DEF HInv, ReqInv
<1>2. /\ thread[r].pc = "claimed" /\ asks[r].kind = "correct" /\ Own /\ UNCHANGED asks
      /\ UNCHANGED <<audit, replay, tasks, created, sent>> /\ asks[r].key # None
  BY <1>1 DEF FindItems, Own, PlaceInv
<1>3. KeyStep(r) /\ Moved(r) /\ PlaceInv(r)' /\ HoldInv(r)'
  <2>1. CASE Refusal(r, "STATE_CONFLICT")
    BY <1>1, <1>2, <2>1, RefusalKey, AnswerMove
  <2>2. CASE Step(r, "extracting") /\ UNCHANGED idem
    <3>1. Moved(r) /\ thread'[r].pc = "extracting"
      BY <1>1, <2>2, StepMove
    <3> QED BY <1>2, <2>2, <3>1 DEF PlaceInv, HoldInv, KeyStep
  <2> QED BY <2>1, <2>2 DEF FindItems
<1> QED BY <1>2, <1>3, OwnMove DEF AuditStep

\* Downloads: the item's row, its bytes, what cannot be read.
LEMMA ReadingSteps ==
  ASSUME HInv, NEW r \in Requests, ReadItem(r) \/ ReadContent(r) \/ ReportUnreadable(r)
  PROVE  HInv'
<1>1. Typed /\ PlaceInv(r)
  BY DEF HInv, ReqInv
<1>2. /\ thread[r].pc \in {"start", "reading", "failing"} /\ asks[r].kind = "download"
      /\ Own /\ UNCHANGED asks /\ UNCHANGED <<idem, replay, tasks, created, sent>>
  BY <1>1 DEF ReadItem, ReadContent, ReportUnreadable, PlaceInv, Own
<1>3. Moved(r) /\ PlaceInv(r)' /\ HoldInv(r)'
  <2>1. ASSUME NEW answer, Answer(r, answer) PROVE Moved(r) /\ PlaceInv(r)' /\ HoldInv(r)'
    BY <1>1, <2>1, AnswerMove
  <2>2. ASSUME NEW pc \in {"reading", "sending", "failing"}, Step(r, pc)
        PROVE  Moved(r) /\ PlaceInv(r)' /\ HoldInv(r)'
    <3>1. Moved(r) /\ thread'[r].pc = pc
      BY <1>1, <2>2, StepMove
    <3> QED BY <1>2, <3>1 DEF PlaceInv, HoldInv
  <2> QED BY <2>1, <2>2 DEF ReadItem, ReadContent, ReportUnreadable
<1>4. AuditStep(r)
  BY <1>2 DEF ReadItem, ReadContent, ReportUnreadable, AuditStep, Aloof
<1> QED BY <1>2, <1>3, <1>4, OwnMove DEF KeyStep

\* The extraction of a correction, over the active bundle if it is ready.
LEMMA ExtractStep ==
  ASSUME HInv, NEW r \in Requests, Extract(r)
  PROVE  HInv'
<1> DEFINE d == deployment.active
<1>1. Typed /\ LockInv /\ PlaceInv(r)
  BY DEF HInv, ReqInv
<1>2. /\ thread[r].pc = "extracting" /\ asks[r].kind = "correct" /\ asks[r].key # None
      /\ UNCHANGED <<asks, disk, tables, lock, damage, engine, replay, tasks, runner, created, sent, spoiled>>
  BY <1>1 DEF Extract, PlaceInv
<1>3. d # None => d \in Digests
  BY <1>1 DEF Typed
<1>4. CacheStep
  BY <1>3 DEF Extract, CacheStep
<1>5. AuditStep(r)
  BY <1>2 DEF Extract, AuditStep, Aloof
<1>6. KeyStep(r)
  <2>1. ASSUME NEW code, Refusal(r, code) PROVE KeyStep(r)
    BY <1>1, <1>2, <2>1, RefusalKey
  <2>2. CASE Release(r)
    BY <1>1, <1>2, <2>2, HeldKey DEF KeyStep, Release, Released
  <2> QED BY <2>1, <2>2 DEF Extract, KeyStep
<1>7. Moved(r) /\ PlaceInv(r)' /\ HoldInv(r)'
  <2>1. ASSUME NEW answer, Answer(r, answer) PROVE Moved(r) /\ PlaceInv(r)' /\ HoldInv(r)'
    BY <1>1, <2>1, AnswerMove
  <2>2. ASSUME NEW code, Refusal(r, code) PROVE Moved(r) /\ PlaceInv(r)' /\ HoldInv(r)'
    BY <1>1, <1>2, <2>1, <2>2, RefusalKey
  <2>3. ASSUME d # None, thread' = [thread EXCEPT ![r].pc = "recording", ![r].seen = d]
        PROVE  Moved(r) /\ PlaceInv(r)' /\ HoldInv(r)'
    <3>1. /\ thread'[r] = [pc |-> "recording", answer |-> thread[r].answer, seen |-> d]
          /\ \A s \in Requests : s # r => thread'[s] = thread[s]
          /\ DOMAIN thread' = Requests /\ thread' = [s \in Requests |-> thread'[s]]
      BY <1>1, <2>3, SeenFacts
    <3>2. thread'[r].pc = "recording" /\ thread'[r].answer = thread[r].answer /\ thread'[r].seen = d
      BY <3>1
    <3>3. Moved(r)
      BY <3>1, <3>2 DEF Moved
    <3> QED BY <1>2, <1>3, <2>3, <3>2, <3>3 DEF PlaceInv, HoldInv
  <2> QED BY <2>1, <2>2, <2>3 DEF Extract
<1>8. LockStep(r)
  BY <1>1, <1>2, LockMove
<1>9. tasks' \subseteq Requests /\ thread[r].pc # "done"
  BY <1>1, <1>2 DEF Typed
<1> QED BY <1>2, <1>4, <1>5, <1>6, <1>7, <1>8, <1>9, QuietMove

\* A step that commits something of its request: what it must keep besides the request's own part.
LEMMA CommitMove ==
  ASSUME HInv, NEW r \in Requests, UNCHANGED <<asks, disk, cache, tables, damage, engine, runner, spoiled, lock>>,
         thread[r].pc \notin {"done", "locked", "checked"}, Moved(r), thread'[r].pc = "done", KeyStep(r),
         replay' = [s \in Requests |-> replay'[s]], created' \in [Requests -> Digests \cup {None}],
         tasks' \subseteq Requests, sent' \subseteq Requests,
         \A s \in Requests : s # r => /\ replay'[s] = replay[s] /\ created'[s] = created[s]
                                      /\ s \in sent' <=> s \in sent,
         \/ replay'[r] = replay[r]
         \/ /\ replay[r] = NoReplay /\ replay'[r].outcome = "PENDING"
            /\ replay'[r].before \subseteq damage[replay'[r].evaluation],
         \E E : audit' = Appended(r, E), FreshInv(r)', AuditInv(r)'
  PROVE  HInv'
<1>0. /\ Typed /\ LockInv /\ ChainInv /\ FilesInv /\ ReqInv(r)
      /\ \A k \in Keys : KeyInv(k)
  BY DEF HInv
<1>1. /\ idem' = [k \in Keys |-> idem'[k]]
      /\ \A k \in Keys : idem[k].state = "COMPLETED" => idem'[k] = idem[k]
      /\ \A k \in Keys : KeyInv(k)'
  BY <1>0, KeyStepFacts
<1>2. audit' \in [Requests -> [Events -> Nat]] /\ \A s \in Requests : s # r => audit'[s] = audit[s]
  BY <1>0, AuditFacts
<1>3. Typed'
  <2>1. \A s \in Requests : thread'[s] = [pc |-> thread'[s].pc, answer |-> thread'[s].answer,
                                          seen |-> thread'[s].seen]
    BY ONLY <1>0, Moved(r), r \in Requests DEF Moved, Typed
  <2> QED BY <1>0, <1>1, <1>2, <2>1 DEF Typed, Moved, tables
<1>4. LockInv'
  BY <1>0 DEF LockInv, Moved
<1>5. ChainInv'
  BY <1>0, <1>1 DEF ChainInv, tables
<1>6. FilesInv'
  BY <1>0 DEF FilesInv
<1>7. ReqInv(r)'
  BY DEF ReqInv, PlaceInv, HoldInv
<1>8. ASSUME NEW s \in Requests, s # r PROVE ReqInv(s)'
  <2>1. RecordsOf(s)' = RecordsOf(s)
    BY DEF RecordsOf, tables
  <2> QED BY <1>1, <1>2, <1>8, <2>1, OthersKeep DEF Moved, tables
<1>9. \A w \in Runners : RunInv(w)'
  <2>1. ASSUME NEW w \in Runners PROVE RunInv(w)'
    <3>1. RunInv(w)
      BY DEF HInv
    <3>2. runner[w].pc # "idle" => replay'[runner[w].replay] = replay[runner[w].replay]
      BY <3>1 DEF RunInv, NoReplay
    <3> QED BY <3>1, <3>2 DEF RunInv
  <2> QED BY <2>1
<1>10. DamageStays'
  BY DEF HInv, DamageStays
<1>11. ReplayTruthful'
  BY DEF HInv, ReplayTruthful
<1> QED BY <1>1, <1>3, <1>4, <1>5, <1>6, <1>7, <1>8, <1>9, <1>10, <1>11 DEF HInv

\* Content is sent, its access audited in the same step, or neither.
LEMMA SendStep ==
  ASSUME HInv, NEW r \in Requests, Send(r)
  PROVE  HInv'
<1>1. Typed /\ LockInv /\ PlaceInv(r) /\ FreshInv(r) /\ AuditInv(r)
  BY DEF HInv, ReqInv
<1>2. /\ thread[r].pc = "sending" /\ asks[r].kind = "download"
      /\ UNCHANGED <<asks, idem, disk, cache, tables, lock>>
      /\ UNCHANGED <<damage, engine, replay, tasks, runner, created, spoiled>>
  BY <1>1 DEF Send, PlaceInv, store
<1>3. Moved(r) /\ thread'[r].pc = "done" /\ PlaceInv(r)' /\ HoldInv(r)'
  BY <1>1, AnswerMove DEF Send
<1>4. KeyStep(r)
  BY <1>2 DEF KeyStep
<1>5. CASE UNCHANGED <<audit, sent>>
  <2>1. LockStep(r) /\ CacheStep /\ AuditStep(r) /\ tasks' \subseteq Requests
    BY <1>1, <1>2, <1>5, LockMove DEF CacheStep, AuditStep, Typed
  <2> QED BY <1>2, <1>3, <1>4, <1>5, <2>1, QuietMove
<1>6. CASE audit' = Appended(r, {"EVIDENCE_ACCESSED"}) /\ sent' = sent \cup {r}
  <2>1. /\ replay[r] = NoReplay /\ created[r] = None /\ r \notin sent
    BY <1>1, <1>2 DEF FreshInv
  <2>2. FreshInv(r)'
    BY <1>2, <1>3, <2>1 DEF FreshInv
  <2>3. \A e \in Events : audit'[r][e] = IF e = "EVIDENCE_ACCESSED" THEN audit[r][e] + 1 ELSE audit[r][e]
    BY <1>1, <1>6, AuditFacts
  <2>4. /\ audit'[r]["EVIDENCE_ACCESSED"] = audit[r]["EVIDENCE_ACCESSED"] + 1
        /\ \A e \in {"USER_CORRECTION", "EVALUATION_STARTED", "KNOWLEDGE_ACTIVATED"} : audit'[r][e] = audit[r][e]
    BY <2>3 DEF Events
  <2>5. RecordsOf(r)' = RecordsOf(r)
    BY <1>2 DEF RecordsOf, tables
  <2>6. AuditInv(r)'
    BY <1>1, <1>2, <1>6, <2>1, <2>4, <2>5 DEF AuditInv
  <2>7. /\ replay' = [s \in Requests |-> replay'[s]] /\ created' \in [Requests -> Digests \cup {None}]
        /\ tasks' \subseteq Requests /\ sent' \subseteq Requests
    BY <1>1, <1>2, <1>6 DEF Typed
  <2>8. \A s \in Requests : s # r => replay'[s] = replay[s] /\ created'[s] = created[s] /\ (s \in sent' <=> s \in sent)
    BY <1>2, <1>6
  <2>9. replay'[r] = replay[r] /\ \E E : audit' = Appended(r, E)
    BY <1>2, <1>6
  <2>10. thread[r].pc \notin {"done", "locked", "checked"}
    BY <1>2
  <2> QED BY <1>2, <1>3, <1>4, <2>2, <2>6, <2>7, <2>8, <2>9, <2>10, CommitMove
<1> QED BY <1>5, <1>6 DEF Send

\* A replay is recorded with what its material is by then.
LEMMA RecordReplayStep ==
  ASSUME HInv, NEW r \in Requests, RecordReplay(r)
  PROVE  HInv'
<1> DEFINE e == asks[r].evaluation
           row == [evaluation |-> e, outcome |-> "PENDING", before |-> damage[e]]
<1>1. Typed /\ PlaceInv(r) /\ FreshInv(r) /\ AuditInv(r)
  BY DEF HInv, ReqInv
<1>2. /\ thread[r].pc = "recording" /\ asks[r].kind = "replay" /\ Holds(r)
      /\ replay' = [replay EXCEPT ![r] = row]
      /\ audit' = Appended(r, {"REPLAY_REQUESTED"})
      /\ idem' = Finished(r, "COMPLETED", r) /\ Answer(r, r) /\ tasks' = tasks \cup {r}
      /\ UNCHANGED <<asks, disk, cache, tables, lock>>
      /\ UNCHANGED <<damage, engine, runner, created, sent, spoiled>>
  BY DEF RecordReplay, Own, store
<1>3. /\ asks[r].key # None /\ e \in Evaluations
      /\ replay[r] = NoReplay /\ created[r] = None /\ r \notin sent
  BY <1>1, <1>2 DEF PlaceInv, FreshInv
<1>4. asks[r].key \in Keys /\ idem[asks[r].key].state # "COMPLETED"
  BY <1>1, <1>2, <1>3, HeldKey
<1>5. KeyStep(r)
  BY <1>2, <1>4 DEF KeyStep
<1>6. Moved(r) /\ thread'[r].pc = "done"
  BY <1>1, <1>2, AnswerMove
<1>7. idem'[asks[r].key].state = "COMPLETED" /\ idem'[asks[r].key].holder = r
  <2>1. idem'[asks[r].key] = [state |-> "COMPLETED", holder |-> r, outcome |-> r]
    BY <1>1, <1>2, <1>4, KeyFacts
  <2> QED BY <2>1
<1>8. /\ replay' = [s \in Requests |-> replay'[s]] /\ replay'[r] = row
      /\ \A s \in Requests : s # r => replay'[s] = replay[s]
  <2> HIDE DEF row
  <2> QED BY <1>1, <1>2, ZenonT(40) DEF Typed
<1>9. replay'[r].evaluation = e /\ replay'[r].outcome = "PENDING" /\ replay'[r].before = damage[e]
  BY <1>8
<1>10. FreshInv(r)'
  BY <1>2, <1>3, <1>4, <1>6, <1>7, <1>8, <1>9 DEF FreshInv
<1>11. AuditInv(r)'
  <2>1. \A x \in Events : audit'[r][x] = IF x = "REPLAY_REQUESTED" THEN audit[r][x] + 1 ELSE audit[r][x]
    BY <1>1, <1>2, AuditFacts
  <2>2. /\ audit'[r]["REPLAY_REQUESTED"] = audit[r]["REPLAY_REQUESTED"] + 1
        /\ \A x \in {"REPLAY_EXECUTED", "INTEGRITY_FAILURE", "EVIDENCE_ACCESSED", "USER_CORRECTION",
                     "EVALUATION_STARTED", "KNOWLEDGE_ACTIVATED"} : audit'[r][x] = audit[r][x]
    BY <2>1 DEF Events
  <2>3. RecordsOf(r)' = RecordsOf(r)
    BY <1>2 DEF RecordsOf, tables
  <2>4. e # None /\ NoReplay.evaluation = None /\ NoReplay.outcome = "NONE"
    BY <1>3, HistoryAssumption DEF NoReplay
  <2> QED BY <1>1, <1>2, <1>3, <1>9, <2>2, <2>3, <2>4 DEF AuditInv
<1>12. /\ created' \in [Requests -> Digests \cup {None}]
       /\ tasks' \subseteq Requests /\ sent' \subseteq Requests
  BY <1>1, <1>2 DEF Typed
<1>13. \A s \in Requests : s # r => replay'[s] = replay[s] /\ created'[s] = created[s] /\ (s \in sent' <=> s \in sent)
  BY <1>2, <1>8
<1>14. \E E : audit' = Appended(r, E)
  BY <1>2
<1>15. thread[r].pc \notin {"done", "locked", "checked"} /\ replay'[r].before \subseteq damage[replay'[r].evaluation]
  BY <1>2, <1>9
<1> HIDE DEF e, row
<1> QED BY <1>2, <1>3, <1>5, <1>6, <1>8, <1>9, <1>10, <1>11, <1>12, <1>13, <1>14, <1>15, CommitMove

\* A correction is recorded with the bundle that its extraction saw.
LEMMA CorrectStep ==
  ASSUME HInv, NEW r \in Requests, Correct(r)
  PROVE  HInv'
<1>1. Typed /\ PlaceInv(r) /\ FreshInv(r) /\ AuditInv(r)
  BY DEF HInv, ReqInv
<1>2. /\ thread[r].pc = "recording" /\ asks[r].kind = "correct" /\ Holds(r)
      /\ created' = [created EXCEPT ![r] = thread[r].seen]
      /\ audit' = Appended(r, {"EVALUATION_STARTED", "USER_CORRECTION"})
      /\ idem' = Finished(r, "COMPLETED", r) /\ Answer(r, r)
      /\ UNCHANGED <<asks, disk, cache, tables, lock>>
      /\ UNCHANGED <<damage, engine, runner, replay, tasks, sent, spoiled>>
  BY DEF Correct, Own, store
<1>3. /\ asks[r].key # None /\ thread[r].seen \in Digests /\ thread[r].seen # None
      /\ replay[r] = NoReplay /\ created[r] = None /\ r \notin sent
  BY <1>1, <1>2, KnowledgeAssumption DEF PlaceInv, FreshInv
<1>4. asks[r].key \in Keys /\ idem[asks[r].key].state # "COMPLETED"
  BY <1>1, <1>2, <1>3, HeldKey
<1>5. KeyStep(r)
  BY <1>2, <1>4 DEF KeyStep
<1>6. Moved(r) /\ thread'[r].pc = "done"
  BY <1>1, <1>2, AnswerMove
<1>7. /\ created' \in [Requests -> Digests \cup {None}] /\ created'[r] = thread[r].seen
      /\ \A s \in Requests : s # r => created'[s] = created[s]
  BY <1>1, <1>2, <1>3 DEF Typed
<1>8. FreshInv(r)'
  BY <1>2, <1>3, <1>6 DEF FreshInv
<1>9. AuditInv(r)'
  <2>1. \A x \in Events : audit'[r][x] = IF x \in {"EVALUATION_STARTED", "USER_CORRECTION"}
                                         THEN audit[r][x] + 1 ELSE audit[r][x]
    BY <1>1, <1>2, AuditFacts
  <2>2. /\ audit'[r]["USER_CORRECTION"] = audit[r]["USER_CORRECTION"] + 1
        /\ audit'[r]["EVALUATION_STARTED"] = audit[r]["EVALUATION_STARTED"] + 1
        /\ audit'[r]["KNOWLEDGE_ACTIVATED"] = audit[r]["KNOWLEDGE_ACTIVATED"]
    BY <2>1 DEF Events
  <2>3. RecordsOf(r)' = RecordsOf(r)
    BY <1>2 DEF RecordsOf, tables
  <2> QED BY <1>1, <1>2, <1>3, <1>7, <2>2, <2>3 DEF AuditInv
<1>10. /\ replay' = [s \in Requests |-> replay'[s]]
       /\ tasks' \subseteq Requests /\ sent' \subseteq Requests
  BY <1>1, <1>2 DEF Typed
<1>11. \A s \in Requests : s # r => replay'[s] = replay[s] /\ created'[s] = created[s] /\ (s \in sent' <=> s \in sent)
  BY <1>2, <1>7
<1>12. replay'[r] = replay[r] /\ \E E : audit' = Appended(r, E)
  BY <1>2
<1>13. thread[r].pc \notin {"done", "locked", "checked"}
  BY <1>2
<1> QED BY <1>2, <1>5, <1>6, <1>7, <1>8, <1>9, <1>10, <1>11, <1>12, <1>13, CommitMove

\* Every step of a request.
LEMMA RequestSteps ==
  ASSUME HInv, NEW r \in Requests, RequestStep(r)
  PROVE  HInv'
<1>1. CASE KnowledgeStep(r) /\ UNCHANGED hvars
  BY <1>1, ClaimStep, FailureSteps, PrevalidateStep, RejectionSteps, LockDeploymentStep, CheckReferenceStep,
     ActivateStep DEF KnowledgeStep
<1> QED BY <1>1, AnswerAgainStep, RefusalSteps, BeginRecordingStep, RecordReplayStep, FindItemsStep, ExtractStep,
           CorrectStep, ReadingSteps, SendStep DEF RequestStep

-----------------------------------------------------------------------------
(* Runs of replays, and what happens to files, bundles and the process.    *)

IsRun(t) ==
    t = [pc |-> t.pc, replay |-> t.replay, lost |-> t.lost, broken |-> t.broken, forged |-> t.forged]
ReadOn(t, pc, lost, broken) == [t EXCEPT !.pc = pc, !.lost = lost, !.broken = broken]
CheckedOn(t, pc, lost, broken) == [t EXCEPT !.pc = pc, !.broken = broken, !.lost = lost]

\* A run that goes on.
LEMMA RunFieldFacts ==
  ASSUME NEW t, IsRun(t), NEW pc, NEW lost, NEW broken
  PROVE  /\ ReadOn(t, pc, lost, broken)
               = [pc |-> pc, replay |-> t.replay, lost |-> lost, broken |-> broken, forged |-> t.forged]
         /\ CheckedOn(t, pc, lost, broken)
               = [pc |-> pc, replay |-> t.replay, lost |-> lost, broken |-> broken, forged |-> t.forged]
<1> PICK p, q, l, b, f : t = [pc |-> p, replay |-> q, lost |-> l, broken |-> b, forged |-> f]
  BY DEF IsRun
<1>1. t.replay = q /\ t.forged = f
  OBVIOUS
<1> DEFINE S == [pc : {p, pc}, replay : {q}, lost : {l, lost}, broken : {b, broken}, forged : {f}]
           u == [t EXCEPT !.pc = pc, !.lost = lost, !.broken = broken]
           v == [t EXCEPT !.pc = pc, !.broken = broken, !.lost = lost]
           x == [pc |-> pc, replay |-> q, lost |-> lost, broken |-> broken, forged |-> f]
<1>2. t \in S
  OBVIOUS
<1>3. u \in S /\ v \in S
  BY <1>2
<1>4. /\ u.pc = pc /\ u.lost = lost /\ u.broken = broken /\ u.replay = q /\ u.forged = f
      /\ v.pc = pc /\ v.lost = lost /\ v.broken = broken /\ v.replay = q /\ v.forged = f
  BY <1>1, <1>2
<1> HIDE DEF u, v
<1>5. u = x
  BY <1>3, <1>4
<1>6. v = x
  BY <1>3, <1>4
<1> QED BY <1>1, <1>5, <1>6 DEF u, v, x, ReadOn, CheckedOn

\* A step that changes only a run, and perhaps the cache and the tasks.
LEMMA RunnerMove ==
  ASSUME HInv, NEW w \in Runners,
         UNCHANGED <<asks, thread, idem, disk, tables, lock, audit, damage, engine, replay, created, sent, spoiled>>,
         CacheStep, tasks' \subseteq Requests, NEW run, runner' = [runner EXCEPT ![w] = run], RunInv(w)'
  PROVE  HInv'
<1>1. Typed /\ LockInv /\ ChainInv /\ FilesInv
  BY DEF HInv
<1>2. cache' = [d \in Digests |-> cache'[d]] /\ \A d \in Digests : cache'[d] \in {d, None}
  BY <1>1, CacheFacts
<1>3. runner' = [x \in Runners |-> runner'[x]] /\ \A x \in Runners : x # w => runner'[x] = runner[x]
  BY <1>1 DEF Typed
<1>4. Typed'
  BY <1>1, <1>2, <1>3 DEF Typed, tables
<1>5. LockInv' /\ ChainInv' /\ FilesInv'
  BY <1>1, <1>2 DEF LockInv, ChainInv, FilesInv, tables
<1>6. ASSUME NEW s \in Requests PROVE ReqInv(s)'
  <2>1. RecordsOf(s)' = RecordsOf(s)
    BY DEF RecordsOf, tables
  <2> QED BY <2>1 DEF HInv, ReqInv, PlaceInv, HoldInv, PreconditionFails, FreshInv, AuditInv, tables
<1>7. \A k \in Keys : KeyInv(k)'
  BY DEF HInv, KeyInv
<1>8. \A x \in Runners : RunInv(x)'
  <2> SUFFICES ASSUME NEW x \in Runners PROVE RunInv(x)'
    OBVIOUS
  <2>1. CASE x = w
    BY <2>1
  <2>2. CASE x # w
    <3>1. runner'[x] = runner[x] /\ RunInv(x)
      BY <1>3, <2>2 DEF HInv
    <3> QED BY <3>1, SMTT(30) DEF RunInv
  <2> QED BY <2>1, <2>2
<1>9. DamageStays' /\ ReplayTruthful'
  BY DEF HInv, DamageStays, ReplayTruthful
<1> QED BY <1>4, <1>5, <1>6, <1>7, <1>8, <1>9 DEF HInv

\* A recorded replay is one of an evaluation, whose damages only become more.
LEMMA RecordedFacts ==
  ASSUME HInv, NEW r \in Requests, replay[r].evaluation # None
  PROVE  /\ replay[r].evaluation \in Evaluations /\ damage[replay[r].evaluation] \subseteq Damages
         /\ replay[r].before \subseteq damage[replay[r].evaluation]
         /\ replay[r] # NoReplay /\ replay[r].outcome \in Verdicts \cup {"PENDING"}
<1>1. Typed /\ FreshInv(r) /\ DamageStays /\ replay[r] # NoReplay
  BY DEF HInv, ReqInv, NoReplay
<1> QED BY <1>1 DEF FreshInv, DamageStays, Typed

\* A run starts with the rows of a replay that is recorded.
LEMMA ReadRowsStep ==
  ASSUME HInv, NEW w \in Runners, NEW r \in Requests, ReadRows(w, r)
  PROVE  HInv'
<1> DEFINE e == replay[r].evaluation
           seen == RowsSeen(e)
           run == [pc |-> "bytes", replay |-> r, lost |-> seen.lost, broken |-> seen.broken, forged |-> seen.forged]
<1>1. Typed /\ FreshInv(r) /\ DamageStays
  BY DEF HInv, ReqInv
<1>2. /\ Pending(r) /\ runner' = [runner EXCEPT ![w] = run] /\ tasks' \subseteq tasks
      /\ UNCHANGED <<asks, thread, idem, disk, cache, tables, lock, audit>>
      /\ UNCHANGED <<damage, engine, replay, created, sent, spoiled>>
  BY DEF ReadRows, Quiet
<1>3. e \in Evaluations /\ replay[r].before \subseteq damage[e] /\ damage[e] \subseteq Damages
  BY <1>2, RecordedFacts DEF Pending
<1>4. /\ seen.lost = damage[e] \cap {"removed"} /\ seen.broken = damage[e] \cap RowsChanged
      /\ seen.forged = ("result_forged" \in damage[e])
  BY DEF RowsSeen
<1>5. runner'[w] = run
  <2> HIDE DEF run
  <2> QED BY <1>1, <1>2 DEF Typed
<1> HIDE DEF seen
<1>6. /\ runner'[w].pc = "bytes" /\ runner'[w].replay = r /\ runner'[w].lost = seen.lost
      /\ runner'[w].broken = seen.broken /\ runner'[w].forged = seen.forged
  BY <1>5
<1>7. RunInv(w)'
  <2>1. runner'[w] = [pc |-> runner'[w].pc, replay |-> runner'[w].replay, lost |-> runner'[w].lost,
                      broken |-> runner'[w].broken, forged |-> runner'[w].forged]
    BY <1>5, <1>6
  <2>2. e # None /\ replay'[r].evaluation = e /\ replay'[r].before = replay[r].before
    BY <1>2, <1>3, HistoryAssumption
  <2>3. /\ replay'[runner'[w].replay].evaluation = e /\ replay'[runner'[w].replay].before = replay[r].before
        /\ damage' = damage /\ spoiled' = spoiled /\ runner'[w].replay \in Requests
    BY <1>2, <1>6, <2>2
  <2>4. runner'[w].forged \in BOOLEAN /\ (runner'[w].forged <=> "result_forged" \in damage[e])
    <3> DEFINE f == "result_forged" \in damage[e]
    <3>1. seen.forged = f
      BY DEF seen, RowsSeen
    <3>2. f \in BOOLEAN
      OBVIOUS
    <3> HIDE DEF f
    <3>3. runner'[w].forged \in BOOLEAN /\ (runner'[w].forged <=> f)
      BY <1>6, <3>1, <3>2
    <3> QED BY <3>3 DEF f
  <2>5. runner'[w].lost = damage[e] \cap {"removed"} /\ runner'[w].broken = damage[e] \cap RowsChanged
    BY <1>4, <1>6
  <2> HIDE DEF e
  <2> QED BY <1>3, <1>6, <2>1, <2>2, <2>3, <2>4, <2>5 DEF RunInv
<1>8. CacheStep /\ tasks' \subseteq Requests
  BY <1>1, <1>2 DEF CacheStep, Typed
<1> HIDE DEF run
<1> QED BY <1>2, <1>7, <1>8, RunnerMove

\* The bytes of what was stored.
LEMMA CheckBytesStep ==
  ASSUME HInv, NEW w \in Runners, CheckBytes(w)
  PROVE  HInv'
<1> DEFINE old == runner[w]
           e == replay[old.replay].evaluation
           now == damage[e]
           lost == IF old.lost = {} THEN now \cap {"bytes_missing"} ELSE old.lost
           broken == IF old.lost = {} /\ "bytes_missing" \notin now
                     THEN old.broken \cup (now \cap {"bytes_corrupt"}) ELSE old.broken
           run == [pc |-> "bundle", replay |-> old.replay, lost |-> lost, broken |-> broken, forged |-> old.forged]
<1>1. Typed /\ RunInv(w) /\ DamageStays /\ \A r \in Requests : FreshInv(r)
  BY DEF HInv, ReqInv
<1>2. /\ old.pc = "bytes" /\ runner' = [runner EXCEPT ![w] = ReadOn(old, "bundle", lost, broken)]
      /\ UNCHANGED <<asks, thread, idem, disk, cache, tables, lock, audit>>
      /\ UNCHANGED <<damage, engine, replay, tasks, created, sent, spoiled>>
  BY DEF CheckBytes, Quiet, ReadOn
<1>3. /\ old = [pc |-> old.pc, replay |-> old.replay, lost |-> old.lost, broken |-> old.broken, forged |-> old.forged]
      /\ old.replay \in Requests /\ e # None
  BY <1>1, <1>2 DEF RunInv
<1>4. ReadOn(old, "bundle", lost, broken) = run
  <2>1. IsRun(old)
    BY <1>3 DEF IsRun
  <2> HIDE DEF lost, broken, old
  <2> QED BY ONLY <2>1, RunFieldFacts DEF run
<1>5. runner' = [runner EXCEPT ![w] = run] /\ runner'[w] = run
  <2>1. runner' = [runner EXCEPT ![w] = run]
    BY <1>2, <1>4
  <2> HIDE DEF run
  <2> QED BY <1>1, <2>1 DEF Typed
<1>6. e \in Evaluations /\ replay[old.replay].before \subseteq now
  BY <1>3, RecordedFacts
<1>7. RunInv(w)'
  <2>1. /\ runner'[w].pc = "bundle" /\ runner'[w].replay = old.replay /\ runner'[w].lost = lost
        /\ runner'[w].broken = broken /\ runner'[w].forged = old.forged
    <3> HIDE DEF lost, broken
    <3> QED BY <1>5
  <2>2. runner'[w] = [pc |-> runner'[w].pc, replay |-> runner'[w].replay, lost |-> runner'[w].lost,
                      broken |-> runner'[w].broken, forged |-> runner'[w].forged]
    BY <1>5, <2>1
  <2>3. /\ replay'[runner'[w].replay].evaluation = e
        /\ replay'[runner'[w].replay].before = replay[old.replay].before /\ damage' = damage /\ spoiled' = spoiled
    BY <1>2, <2>1
  <2>4. /\ old.forged \in BOOLEAN
        /\ old.lost \subseteq (now \cap Lost) \cup {"bundle", "engine"}
        /\ old.broken \subseteq (now \cap (RowsChanged \cup {"bytes_corrupt"})) \cup {"bundle"}
        /\ "bundle" \in old.lost \cup old.broken => PinOf[e] \in spoiled
        /\ old.forged => "result_forged" \in now
        /\ replay[old.replay].before \cap {"removed"} \subseteq old.lost
        /\ replay[old.replay].before \cap RowsChanged \subseteq old.broken
        /\ "result_forged" \in replay[old.replay].before => old.forged
    BY <1>1, <1>2 DEF RunInv
  <2> HIDE DEF old, now, e
  <2> QED BY <1>3, <1>6, <2>1, <2>2, <2>3, <2>4 DEF RunInv, now
<1>8. CacheStep /\ tasks' \subseteq Requests
  BY <1>1, <1>2 DEF CacheStep, Typed
<1> HIDE DEF run
<1> QED BY <1>2, <1>5, <1>7, <1>8, RunnerMove

\* The pinned bundle and the engine.
LEMMA CheckBundleStep ==
  ASSUME HInv, NEW w \in Runners, CheckBundle(w)
  PROVE  HInv'
<1> DEFINE old == runner[w]
           e == replay[old.replay].evaluation
           now == damage[e]
           d == PinOf[e]
           broken == IF old.broken = {} /\ Verified(d) = None /\ RejectedAs(d) = "BUNDLE_TAMPERED"
                     THEN {"bundle"} ELSE old.broken
           lost == old.lost \cup (IF old.broken = {} /\ Verified(d) = None /\ RejectedAs(d) # "BUNDLE_TAMPERED"
                                  THEN {"bundle"} ELSE {})
                            \cup (IF engine = "pinned" THEN {} ELSE {"engine"})
           run == [pc |-> "finish", replay |-> old.replay, lost |-> lost, broken |-> broken, forged |-> old.forged]
<1>1. Typed /\ FilesInv /\ RunInv(w)
  BY DEF HInv
<1>2. /\ old.pc = "bundle" /\ runner' = [runner EXCEPT ![w] = CheckedOn(old, "finish", lost, broken)]
      /\ IF old.broken # {} THEN UNCHANGED cache ELSE Remember(d)
      /\ UNCHANGED <<asks, thread, idem, disk, tables, lock, audit>>
      /\ UNCHANGED <<damage, engine, replay, tasks, created, sent, spoiled>>
  BY DEF CheckBundle, Quiet, CheckedOn
<1>3. IsRun(old) /\ old.replay \in Requests /\ e # None
  BY <1>1, <1>2 DEF RunInv, IsRun
<1>4. CheckedOn(old, "finish", lost, broken) = run
  <2> HIDE DEF lost, broken, old
  <2> QED BY ONLY <1>3, RunFieldFacts DEF run
<1>5. runner' = [runner EXCEPT ![w] = run] /\ runner'[w] = run
  <2>1. runner' = [runner EXCEPT ![w] = run]
    BY <1>2, <1>4
  <2> HIDE DEF run
  <2> QED BY <1>1, <2>1 DEF Typed
<1>6. e \in Evaluations /\ d \in Digests
  BY <1>3, RecordedFacts, HistoryAssumption
<1>7. Verified(d) = None => d \in spoiled
  BY <1>1, <1>6, KnowledgeAssumption DEF Verified, Loaded, FilesInv
<1>8. RunInv(w)'
  <2>1. /\ runner'[w].pc = "finish" /\ runner'[w].replay = old.replay /\ runner'[w].lost = lost
        /\ runner'[w].broken = broken /\ runner'[w].forged = old.forged
    <3> HIDE DEF lost, broken
    <3> QED BY <1>5
  <2>2. runner'[w] = [pc |-> runner'[w].pc, replay |-> runner'[w].replay, lost |-> runner'[w].lost,
                      broken |-> runner'[w].broken, forged |-> runner'[w].forged]
    BY <1>5, <2>1
  <2>3. /\ replay'[runner'[w].replay].evaluation = e
        /\ replay'[runner'[w].replay].before = replay[old.replay].before /\ damage' = damage /\ spoiled' = spoiled
    BY <1>2, <2>1
  <2>4. /\ old.forged \in BOOLEAN
        /\ old.lost \subseteq (now \cap Lost) \cup {"bundle", "engine"}
        /\ old.broken \subseteq (now \cap (RowsChanged \cup {"bytes_corrupt"})) \cup {"bundle"}
        /\ "bundle" \in old.lost \cup old.broken => d \in spoiled
        /\ old.forged => "result_forged" \in now
        /\ replay[old.replay].before \cap {"removed"} \subseteq old.lost
        /\ replay[old.replay].before \cap RowsChanged \subseteq old.broken
        /\ "result_forged" \in replay[old.replay].before => old.forged
        /\ old.lost = {} /\ old.broken = {} => replay[old.replay].before \cap {"bytes_missing", "bytes_corrupt"} = {}
    BY <1>1, <1>2 DEF RunInv
  <2>5. /\ lost \subseteq (now \cap Lost) \cup {"bundle", "engine"} /\ old.lost \subseteq lost
        /\ broken \subseteq (now \cap (RowsChanged \cup {"bytes_corrupt"})) \cup {"bundle"} /\ old.broken \subseteq broken
        /\ "bundle" \in lost \cup broken => d \in spoiled
    <3> HIDE DEF old, now, e, d
    <3> QED BY <1>7, <2>4
  <2> HIDE DEF old, now, e, lost, broken
  <2> QED BY <1>3, <1>6, <2>1, <2>2, <2>3, <2>4, <2>5 DEF RunInv, now
<1>9. CacheStep /\ tasks' \subseteq Requests
  BY <1>1, <1>2, <1>6 DEF CacheStep, Typed
<1> HIDE DEF run
<1> QED BY <1>2, <1>5, <1>8, <1>9, RunnerMove

\* A run that ends, finished or failed, leaves nothing to say of it.
LEMMA IdleRun ==
  ASSUME Typed, NEW w \in Runners, runner' = [runner EXCEPT ![w] = Idle]
  PROVE  RunInv(w)' /\ \A x \in Runners : x # w => runner'[x] = runner[x]
<1>1. runner'[w] = Idle /\ \A x \in Runners : x # w => runner'[x] = runner[x]
  BY DEF Typed
<1>2. runner'[w] = [pc |-> "idle", replay |-> None, lost |-> {}, broken |-> {}, forged |-> FALSE]
  BY <1>1 DEF Idle
<1>3. /\ runner'[w].pc = "idle" /\ runner'[w].replay = None /\ runner'[w].lost = {}
      /\ runner'[w].broken = {} /\ runner'[w].forged = FALSE
  BY <1>2
<1> QED BY <1>1, <1>2, <1>3 DEF RunInv

\* Failures, and tasks with nothing to do.
LEMMA RunFailsStep ==
  ASSUME HInv, NEW w \in Runners, RunFails(w)
  PROVE  HInv'
<1>1. Typed
  BY DEF HInv
<1>2. /\ runner' = [runner EXCEPT ![w] = Idle]
      /\ UNCHANGED <<asks, thread, idem, disk, cache, tables, lock, audit>>
      /\ UNCHANGED <<damage, engine, replay, tasks, created, sent, spoiled>>
  BY DEF RunFails, store
<1>3. RunInv(w)'
  BY <1>1, <1>2, IdleRun
<1>4. CacheStep /\ tasks' \subseteq Requests
  BY <1>1, <1>2 DEF CacheStep, Typed
<1> QED BY <1>2, <1>3, <1>4, RunnerMove

IsRow(t) == t = [evaluation |-> t.evaluation, outcome |-> t.outcome, before |-> t.before]
Completed(t, outcome) == [t EXCEPT !.outcome = outcome]

\* A replay is completed.
LEMMA CompletedFacts ==
  ASSUME NEW t, IsRow(t), NEW outcome
  PROVE  Completed(t, outcome) = [evaluation |-> t.evaluation, outcome |-> outcome, before |-> t.before]
<1> PICK e, o, b : t = [evaluation |-> e, outcome |-> o, before |-> b]
  BY DEF IsRow
<1>1. t.evaluation = e /\ t.before = b
  OBVIOUS
<1>2. [t EXCEPT !.outcome = outcome] = [evaluation |-> e, outcome |-> outcome, before |-> b]
  OBVIOUS
<1> QED BY <1>1, <1>2 DEF Completed

\* The verdict of a run that has seen nothing that is not so, and has not overlooked what was
\* amiss before.
LEMMA VerdictFacts ==
  ASSUME NEW run, NEW before, NEW now, NEW known, before \subseteq now, now \subseteq Damages, run.forged \in BOOLEAN,
         run.lost \subseteq (now \cap Lost) \cup {"bundle", "engine"},
         run.broken \subseteq (now \cap (RowsChanged \cup {"bytes_corrupt"})) \cup {"bundle"},
         "bundle" \in run.lost \cup run.broken => known, known \in BOOLEAN,
         run.forged => "result_forged" \in now,
         before \cap {"removed"} \subseteq run.lost, before \cap RowsChanged \subseteq run.broken,
         "result_forged" \in before => run.forged,
         run.lost = {} /\ run.broken = {} => before \cap {"bytes_missing", "bytes_corrupt"} = {}
  PROVE  /\ Outcome(run) \in Verdicts
         /\ Outcome(run) = "MATCH" => before = {}
         /\ Outcome(run) = "MISMATCH" => "result_forged" \in now
         /\ Outcome(run) = "FAILED_INTEGRITY" => now \cap (RowsChanged \cup {"bytes_corrupt"}) # {} \/ known
         /\ Outcome(run) = "FAILED_MISSING_MATERIAL" => now \cap Lost # {}
         /\ Outcome(run) = "FAILED_BUNDLE_UNAVAILABLE" => known
<1>1. Outcome(run) \in Verdicts
  BY DEF Outcome, Verdicts
<1>2. Outcome(run) = "MATCH" => before = {}
  <2>1. ASSUME Outcome(run) = "MATCH" PROVE run.broken = {} /\ run.lost = {} /\ ~ run.forged
    BY <2>1 DEF Outcome
  <2>2. ASSUME run.broken = {}, run.lost = {}, ~ run.forged, NEW x \in before PROVE FALSE
    BY <2>2
  <2> QED BY <2>1, <2>2
<1>3. Outcome(run) = "MISMATCH" => run.forged
  BY DEF Outcome
<1>4. Outcome(run) = "FAILED_INTEGRITY" => run.broken # {}
  BY DEF Outcome
<1>5. Outcome(run) = "FAILED_MISSING_MATERIAL" => run.lost # {} /\ run.lost \cap {"bundle", "engine"} = {}
  BY DEF Outcome
<1>6. Outcome(run) = "FAILED_BUNDLE_UNAVAILABLE" => "bundle" \in run.lost
  BY DEF Outcome
<1> QED BY <1>1, <1>2, <1>3, <1>4, <1>5, <1>6

\* A run that completes its replay, with the audit of its outcome.
LEMMA CompleteStep ==
  ASSUME HInv, NEW w \in Runners, Finish(w), Pending(runner[w].replay)
  PROVE  HInv'
<1>0. PICK r \in Requests : r = runner[w].replay
  BY DEF HInv, RunInv, Finish
<1> DEFINE e == replay[r].evaluation
           outcome == Outcome(runner[w])
           row == [evaluation |-> e, outcome |-> outcome, before |-> replay[r].before]
<1>1. Typed /\ LockInv /\ ChainInv /\ FilesInv /\ RunInv(w)
  BY DEF HInv
<1>2. /\ runner[w].pc = "finish"
      /\ replay' = [replay EXCEPT ![r] = Completed(replay[r], outcome)]
      /\ audit' = Appended(r, OutcomeEvents(outcome))
      /\ runner' = [runner EXCEPT ![w] = Idle]
      /\ UNCHANGED <<asks, thread, idem, disk, cache, tables, lock>>
      /\ UNCHANGED <<damage, engine, tasks, created, sent, spoiled>>
  BY <1>0 DEF Finish, Quiet, Completed
<1>3. e # None /\ Pending(r)
  BY <1>0, <1>1, <1>2 DEF RunInv
<1>4. /\ e \in Evaluations /\ damage[e] \subseteq Damages /\ replay[r].before \subseteq damage[e] /\ replay[r] # NoReplay
      /\ FreshInv(r) /\ AuditInv(r)
  BY <1>3, RecordedFacts DEF HInv, ReqInv
<1>5. Completed(replay[r], outcome) = row
  <2>1. IsRow(replay[r])
    BY <1>4 DEF FreshInv, IsRow
  <2> HIDE DEF outcome
  <2> QED BY <2>1, CompletedFacts
<1>6. /\ replay' = [s \in Requests |-> replay'[s]] /\ replay'[r] = row
      /\ \A s \in Requests : s # r => replay'[s] = replay[s]
  <2>1. replay' = [replay EXCEPT ![r] = row]
    BY <1>2, <1>5
  <2> HIDE DEF row
  <2> QED BY <1>1, <1>3, <2>1 DEF Typed
<1> HIDE DEF outcome
<1>7. replay'[r].evaluation = e /\ replay'[r].outcome = outcome /\ replay'[r].before = replay[r].before
  BY <1>6
<1>8. /\ outcome \in Verdicts
      /\ outcome = "MATCH" => replay[r].before = {}
      /\ outcome = "MISMATCH" => "result_forged" \in damage[e]
      /\ outcome = "FAILED_INTEGRITY" => damage[e] \cap (RowsChanged \cup {"bytes_corrupt"}) # {} \/ PinOf[e] \in spoiled
      /\ outcome = "FAILED_MISSING_MATERIAL" => damage[e] \cap Lost # {}
      /\ outcome = "FAILED_BUNDLE_UNAVAILABLE" => PinOf[e] \in spoiled
  <2> DEFINE run == runner[w]
             before == replay[r].before
             now == damage[e]
             known == PinOf[e] \in spoiled
  <2>1. /\ before \subseteq now /\ now \subseteq Damages /\ run.forged \in BOOLEAN
        /\ run.lost \subseteq (now \cap Lost) \cup {"bundle", "engine"}
        /\ run.broken \subseteq (now \cap (RowsChanged \cup {"bytes_corrupt"})) \cup {"bundle"}
        /\ "bundle" \in run.lost \cup run.broken => known
        /\ run.forged => "result_forged" \in now
        /\ before \cap {"removed"} \subseteq run.lost /\ before \cap RowsChanged \subseteq run.broken
        /\ "result_forged" \in before => run.forged
        /\ run.lost = {} /\ run.broken = {} => before \cap {"bytes_missing", "bytes_corrupt"} = {}
    BY <1>0, <1>1, <1>2, <1>4 DEF RunInv
  <2>2. known \in BOOLEAN /\ outcome = Outcome(run)
    BY DEF outcome
  <2> HIDE DEF run, before, now, known
  <2>3. /\ Outcome(run) \in Verdicts
        /\ Outcome(run) = "MATCH" => before = {}
        /\ Outcome(run) = "MISMATCH" => "result_forged" \in now
        /\ Outcome(run) = "FAILED_INTEGRITY" => now \cap (RowsChanged \cup {"bytes_corrupt"}) # {} \/ known
        /\ Outcome(run) = "FAILED_MISSING_MATERIAL" => now \cap Lost # {}
        /\ Outcome(run) = "FAILED_BUNDLE_UNAVAILABLE" => known
    BY <2>1, <2>2, VerdictFacts, ZenonT(40)
  <2> QED BY <2>2, <2>3 DEF before, now, known
<1>9. outcome \notin {"NONE", "PENDING"}
  BY <1>8 DEF Verdicts
<1>10. /\ audit' \in [Requests -> [Events -> Nat]]
       /\ \A x \in Events : audit'[r][x] = IF x \in OutcomeEvents(outcome) THEN audit[r][x] + 1 ELSE audit[r][x]
       /\ \A s \in Requests : s # r => audit'[s] = audit[s]
  BY <1>1, <1>2, <1>3, AuditFacts
<1>11. Typed'
  <2>1. runner' = [x \in Runners |-> runner'[x]]
    BY <1>1, <1>2 DEF Typed
  <2> QED BY <1>1, <1>2, <1>6, <1>10, <2>1 DEF Typed, tables
<1>12. LockInv' /\ ChainInv' /\ FilesInv'
  BY <1>1, <1>2 DEF LockInv, ChainInv, FilesInv, tables
<1>13. \A s : RecordsOf(s)' = RecordsOf(s)
  BY <1>2 DEF RecordsOf, tables
<1>14. ReqInv(r)'
  <2>1. PlaceInv(r)' /\ HoldInv(r)'
    BY <1>2, <1>3 DEF HInv, ReqInv, PlaceInv, HoldInv, PreconditionFails, tables
  <2>2. FreshInv(r)'
    <3>1. replay'[r] = [evaluation |-> replay'[r].evaluation, outcome |-> replay'[r].outcome,
                        before |-> replay'[r].before]
      BY <1>6, <1>7
    <3> QED BY <1>2, <1>4, <1>7, <1>8, <3>1 DEF FreshInv
  <2>3. AuditInv(r)'
    <3>1. /\ audit'[r]["REPLAY_EXECUTED"] = audit[r]["REPLAY_EXECUTED"] + 1
          /\ audit'[r]["INTEGRITY_FAILURE"] = IF outcome \in {"FAILED_INTEGRITY", "MISMATCH"}
                                              THEN audit[r]["INTEGRITY_FAILURE"] + 1 ELSE audit[r]["INTEGRITY_FAILURE"]
          /\ \A x \in {"REPLAY_REQUESTED", "EVIDENCE_ACCESSED", "USER_CORRECTION", "EVALUATION_STARTED",
                       "KNOWLEDGE_ACTIVATED"} : audit'[r][x] = audit[r][x]
      BY <1>10 DEF OutcomeEvents, Events
    <3>2. asks[r].kind = "replay" /\ replay[r].outcome = "PENDING" /\ audit[r]["REPLAY_EXECUTED"] = 0
          /\ audit[r]["INTEGRITY_FAILURE"] = 0
      BY <1>3, <1>4 DEF FreshInv, AuditInv, Pending
    <3> QED BY <1>2, <1>4, <1>7, <1>9, <1>13, <3>1, <3>2 DEF AuditInv
  <2> QED BY <2>1, <2>2, <2>3 DEF ReqInv
<1>15. ASSUME NEW s \in Requests, s # r PROVE ReqInv(s)'
  <2>1. /\ thread'[s] = thread[s] /\ audit'[s] = audit[s] /\ replay'[s] = replay[s] /\ created'[s] = created[s]
        /\ (s \in sent' <=> s \in sent) /\ deployment' = deployment /\ RecordsOf(s)' = RecordsOf(s)
    BY <1>2, <1>6, <1>10, <1>13, <1>15 DEF tables
  <2> QED BY <1>2, <1>3, <1>15, <2>1, OthersKeep
<1>16. \A k \in Keys : KeyInv(k)'
  BY <1>2 DEF HInv, KeyInv
<1>17. ASSUME NEW x \in Runners PROVE RunInv(x)'
  <2>1. CASE x = w
    BY <1>1, <1>2, <2>1, IdleRun
  <2>2. CASE x # w
    <3>1. runner'[x] = runner[x] /\ RunInv(x)
      BY <1>1, <1>2, <2>2, IdleRun DEF HInv
    <3>2. runner[x].pc # "idle" => /\ replay'[runner[x].replay].evaluation = replay[runner[x].replay].evaluation
                                   /\ replay'[runner[x].replay].before = replay[runner[x].replay].before
      BY <1>6, <1>7, <3>1 DEF RunInv
    <3> QED BY <1>2, <3>1, <3>2, SMTT(30) DEF RunInv
  <2> QED BY <2>1, <2>2
<1>18. DamageStays'
  BY <1>2, <1>4, <1>6, <1>7 DEF HInv, DamageStays
<1>19. ReplayTruthful'
  <2> QED BY <1>2, <1>3, <1>6, <1>7, <1>8 DEF HInv, ReplayTruthful
<1> QED BY <1>11, <1>12, <1>14, <1>15, <1>16, <1>17, <1>18, <1>19 DEF HInv

\* A run ends; if its replay has been completed meanwhile, nothing is written.
LEMMA FinishStep ==
  ASSUME HInv, NEW w \in Runners, Finish(w)
  PROVE  HInv'
<1>1. CASE Pending(runner[w].replay)
  BY <1>1, CompleteStep
<1>2. CASE ~ Pending(runner[w].replay)
  <2>1. Typed
    BY DEF HInv
  <2>2. /\ runner' = [runner EXCEPT ![w] = Idle]
        /\ UNCHANGED <<asks, thread, idem, disk, cache, tables, lock, audit>>
        /\ UNCHANGED <<damage, engine, replay, tasks, created, sent, spoiled>>
    BY <1>2 DEF Finish, Quiet
  <2>3. RunInv(w)'
    BY <2>1, <2>2, IdleRun
  <2>4. CacheStep /\ tasks' \subseteq Requests
    BY <2>1, <2>2 DEF CacheStep, Typed
  <2> QED BY <2>2, <2>3, <2>4, RunnerMove
<1> QED BY <1>1, <1>2

\* Damages become more, directories that are not what they should be are spoiled ones.
LEMMA WorldMove ==
  ASSUME HInv, tasks' \subseteq Requests,
         UNCHANGED <<asks, thread, idem, cache, deployment, records, lock, audit, engine, replay, runner, created, sent>>,
         reference' \in [Digests -> {"NONE", "ELIGIBLE", "WITHDRAWN"}],
         disk' = [d \in Digests |-> disk'[d]], damage' \in [Evaluations -> SUBSET Damages],
         \A e \in Evaluations : damage[e] \subseteq damage'[e], spoiled \subseteq spoiled',
         \A d \in Digests : disk'[d] # d => d \in spoiled'
  PROVE  HInv'
<1>1. Typed /\ LockInv /\ ChainInv /\ FilesInv
  BY DEF HInv
<1>2. Typed'
  BY <1>1 DEF Typed
<1>3. LockInv' /\ ChainInv' /\ FilesInv'
  BY <1>1 DEF LockInv, ChainInv, FilesInv
<1>4. ASSUME NEW s \in Requests PROVE ReqInv(s)'
  <2>1. RecordsOf(s)' = RecordsOf(s)
    BY DEF RecordsOf
  <2> QED BY <2>1 DEF HInv, ReqInv, PlaceInv, HoldInv, PreconditionFails, FreshInv, AuditInv
<1>5. \A k \in Keys : KeyInv(k)'
  BY DEF HInv, KeyInv
<1>6. ASSUME NEW w \in Runners PROVE RunInv(w)'
  <2>1. RunInv(w)
    BY DEF HInv
  <2>2. runner[w].pc # "idle" => replay[runner[w].replay].evaluation \in Evaluations
    BY <2>1, RecordedFacts DEF RunInv
  <2> QED BY <2>1, <2>2 DEF RunInv
<1>7. ASSUME NEW s \in Requests, replay[s].evaluation # None
      PROVE  replay[s].evaluation \in Evaluations /\ PinOf[replay[s].evaluation] \in Digests
  BY <1>7, RecordedFacts, HistoryAssumption
<1>8. DamageStays'
  <2>1. \A s \in Requests : replay[s] # NoReplay => replay[s].evaluation # None
    BY HistoryAssumption DEF HInv, ReqInv, FreshInv
  <2> QED BY <1>7, <2>1 DEF HInv, DamageStays
<1>9. ReplayTruthful'
  BY <1>7 DEF HInv, ReplayTruthful
<1> QED BY <1>2, <1>3, <1>4, <1>5, <1>6, <1>8, <1>9 DEF HInv

\* The surroundings, and tasks with nothing to do.
LEMMA WorldSteps ==
  ASSUME HInv,
         \/ \E r \in Requests : NothingToRun(r)
         \/ \E d \in Digests : (Withdraw(d) \/ InstallBundle(d)) /\ UNCHANGED hvars
         \/ \E d \in Digests, c \in Digests \cup Unusable : Spoil(d, c)
         \/ \E e \in Evaluations, k \in Damages : Damage(e, k)
         \/ UNCHANGED vars
  PROVE  HInv'
<1>1. /\ tasks \subseteq Requests /\ reference \in [Digests -> {"NONE", "ELIGIBLE", "WITHDRAWN"}]
      /\ disk = [d \in Digests |-> disk[d]] /\ damage \in [Evaluations -> SUBSET Damages]
      /\ \A d \in Digests : disk[d] # d => d \in spoiled
  BY DEF HInv, Typed, FilesInv
<1>2. ASSUME NEW r \in Requests, NothingToRun(r) PROVE HInv'
  BY <1>1, <1>2, WorldMove DEF NothingToRun, Quiet, tables
<1>3. ASSUME NEW d \in Digests, Withdraw(d), UNCHANGED hvars PROVE HInv'
  <2>1. reference' \in [Digests -> {"NONE", "ELIGIBLE", "WITHDRAWN"}]
    BY <1>1, <1>3 DEF Withdraw
  <2> QED BY <1>1, <1>3, <2>1, WorldMove DEF Withdraw, hvars, store
<1>4. ASSUME NEW d \in Digests, InstallBundle(d), UNCHANGED hvars PROVE HInv'
  <2>1. disk' = [x \in Digests |-> disk'[x]] /\ \A x \in Digests : disk'[x] # x => x \in spoiled
    BY <1>1, <1>4 DEF InstallBundle
  <2> QED BY <1>1, <1>4, <2>1, WorldMove DEF InstallBundle, hvars, tables
<1>5. ASSUME NEW d \in Digests, NEW c, Spoil(d, c) PROVE HInv'
  <2>1. disk' = [x \in Digests |-> disk'[x]] /\ \A x \in Digests : disk'[x] # x => x \in spoiled'
    BY <1>1, <1>5 DEF Spoil, DamageDisk
  <2>2. spoiled \subseteq spoiled'
    BY <1>5 DEF Spoil
  <2> QED BY <1>1, <1>5, <2>1, <2>2, WorldMove DEF Spoil, DamageDisk, tables
<1>6. ASSUME NEW e \in Evaluations, NEW k \in Damages, Damage(e, k) PROVE HInv'
  <2>1. damage' = [damage EXCEPT ![e] = @ \cup (IF k = "removed" THEN {k, "bytes_missing"} ELSE {k})]
    BY <1>6 DEF Damage
  <2>2. (IF k = "removed" THEN {k, "bytes_missing"} ELSE {k}) \subseteq Damages
    OBVIOUS
  <2>3. damage' \in [Evaluations -> SUBSET Damages] /\ \A x \in Evaluations : damage[x] \subseteq damage'[x]
    <3> HIDE DEF Damages
    <3> QED BY <1>1, <2>1, <2>2
  <2> QED BY <1>1, <1>6, <2>3, WorldMove DEF Damage, kvars, store, tables
<1>7. CASE UNCHANGED vars
  BY <1>1, <1>7, WorldMove DEF vars, kvars, hvars
<1> QED BY <1>2, <1>3, <1>4, <1>5, <1>6, <1>7

\* The process dies: what is committed stays, and nothing else of its requests and runs.
LEMMA RestartStep ==
  ASSUME HInv, NEW version \in {"pinned", "other"}, Restart(version)
  PROVE  HInv'
<1>1. Typed /\ ChainInv /\ FilesInv
  BY DEF HInv
<1>2. /\ thread' = [r \in Requests |-> Gone(thread[r])] /\ lock' = None
      /\ cache' = [d \in Digests |-> None] /\ engine' = version /\ tasks' = {}
      /\ runner' = [w \in Runners |-> Idle]
      /\ UNCHANGED <<asks, idem, disk, tables, audit, damage, replay, created, sent, spoiled>>
  BY DEF Restart, Crash
<1>3. ASSUME NEW r \in Requests
      PROVE  /\ thread'[r] = [pc |-> thread'[r].pc, answer |-> thread'[r].answer, seen |-> thread'[r].seen]
             /\ \/ thread'[r] = thread[r] /\ thread[r].pc \in {"start", "done"}
                \/ thread'[r].pc = "done"
  <2>1. thread'[r] = Gone(thread[r])
    BY <1>2
  <2>2. CASE thread[r].pc \in {"start", "done"}
    BY <1>1, <2>1, <2>2 DEF Gone, Typed
  <2>3. CASE thread[r].pc \notin {"start", "done"}
    <3>1. PICK p, a, s : thread[r] = [pc |-> p, answer |-> a, seen |-> s]
      BY <1>1 DEF Typed
    <3> DEFINE t == thread[r]
               u == [t EXCEPT !.pc = "done", !.answer = "LOST"]
    <3>2. t \in [pc : {p, "done"}, answer : {a, "LOST"}, seen : {s}]
      BY <3>1
    <3>3. thread'[r] = u
      BY <2>1, <2>3 DEF Gone
    <3> HIDE DEF t
    <3>4. u \in [pc : {p, "done"}, answer : {a, "LOST"}, seen : {s}] /\ u.pc = "done"
      BY <3>2
    <3> HIDE DEF u
    <3> QED BY <3>3, <3>4
  <2> QED BY <2>2, <2>3
<1>4. \A w \in Runners : runner'[w] = Idle
  BY <1>2
<1>5. Typed'
  <2>1. DOMAIN thread' = Requests /\ thread' = [r \in Requests |-> thread'[r]]
    BY <1>2
  <2>2. cache' = [d \in Digests |-> cache'[d]] /\ runner' = [w \in Runners |-> runner'[w]]
    BY <1>2
  <2> QED BY <1>1, <1>2, <1>3, <2>1, <2>2 DEF Typed, tables
<1>6. LockInv' /\ ChainInv' /\ FilesInv'
  BY <1>1, <1>2 DEF LockInv, ChainInv, FilesInv, tables
<1>7. ASSUME NEW r \in Requests PROVE ReqInv(r)'
  <2>1. RecordsOf(r)' = RecordsOf(r)
    BY <1>2 DEF RecordsOf, tables
  <2>2. PlaceInv(r) /\ HoldInv(r) /\ FreshInv(r) /\ AuditInv(r)
    BY DEF HInv, ReqInv
  <2>3. PlaceInv(r)' /\ HoldInv(r)'
    BY <1>3 DEF PlaceInv, HoldInv
  <2>4. FreshInv(r)'
    BY <1>2, <1>3, <2>2 DEF FreshInv
  <2>5. AuditInv(r)'
    BY <1>2, <2>1, <2>2 DEF AuditInv
  <2> QED BY <2>3, <2>4, <2>5 DEF ReqInv
<1>8. \A k \in Keys : KeyInv(k)'
  BY <1>2 DEF HInv, KeyInv
<1>9. ASSUME NEW w \in Runners PROVE RunInv(w)'
  <2>1. runner'[w] = [pc |-> "idle", replay |-> None, lost |-> {}, broken |-> {}, forged |-> FALSE]
    BY <1>4 DEF Idle
  <2>2. /\ runner'[w].pc = "idle" /\ runner'[w].replay = None /\ runner'[w].lost = {}
        /\ runner'[w].broken = {} /\ runner'[w].forged = FALSE
    BY <2>1
  <2> QED BY <2>1, <2>2 DEF RunInv
<1>10. DamageStays' /\ ReplayTruthful'
  BY <1>2 DEF HInv, DamageStays, ReplayTruthful
<1> QED BY <1>5, <1>6, <1>7, <1>8, <1>9, <1>10 DEF HInv

-----------------------------------------------------------------------------
(* The invariant, and what follows from it.                                *)

\* Nothing has happened yet.
LEMMA HistoryStarts ==
  ASSUME Init PROVE HInv
<1>1. PICK s \in Scenarios : asks = s.asks
  BY DEF Init, KnowledgeInit
<1>2. /\ thread = [r \in Requests |-> [pc |-> "start", answer |-> None, seen |-> None]]
      /\ idem = [k \in Keys |-> NoRow] /\ disk = [d \in Digests |-> d]
      /\ cache = [d \in Digests |-> None] /\ reference = [d \in Digests |-> "NONE"]
      /\ deployment = [active |-> None, record |-> 0] /\ lock = None /\ records = <<>>
      /\ audit = [r \in Requests |-> [e \in Events |-> 0]]
      /\ damage = [e \in Evaluations |-> {}] /\ engine = "pinned"
      /\ replay = [r \in Requests |-> NoReplay] /\ tasks = {} /\ sent = {} /\ spoiled = {}
      /\ runner = [w \in Runners |-> Idle] /\ created = [r \in Requests |-> None]
  BY DEF Init, KnowledgeInit
<1>3. \A r \in Requests : thread[r].pc = "start" /\ replay[r] = NoReplay /\ created[r] = None
  BY <1>2
<1>4. Typed
  <2>1. deployment.active = None /\ deployment.record = 0
    BY <1>2
  <2>2. records \in Seq(Record)
    BY <1>2
  <2>3. audit \in [Requests -> [Events -> Nat]]
    <3>1. [e \in Events |-> 0] \in [Events -> Nat]
      OBVIOUS
    <3> QED BY <1>2, <3>1
  <2>4. \A r \in Requests : thread[r] = [pc |-> thread[r].pc, answer |-> thread[r].answer, seen |-> thread[r].seen]
    BY <1>2
  <2>5. deployment = [active |-> deployment.active, record |-> deployment.record]
    BY <1>2, <2>1
  <2>6. damage \in [Evaluations -> SUBSET Damages] /\ created \in [Requests -> Digests \cup {None}]
    BY <1>2
  <2>7. /\ DOMAIN thread = Requests /\ thread = [r \in Requests |-> thread[r]]
        /\ idem = [k \in Keys |-> idem[k]] /\ replay = [r \in Requests |-> replay[r]]
        /\ disk = [d \in Digests |-> disk[d]] /\ cache = [d \in Digests |-> cache[d]]
        /\ runner = [w \in Runners |-> runner[w]] /\ reference \in [Digests -> {"NONE", "ELIGIBLE", "WITHDRAWN"}]
    BY <1>2
  <2> QED BY <1>1, <1>2, <2>1, <2>2, <2>3, <2>4, <2>5, <2>6, <2>7 DEF Typed
<1>5. LockInv /\ FilesInv
  BY <1>2 DEF LockInv, FilesInv
<1>6. ChainInv
  <2>1. deployment.active = None /\ deployment.record = 0 /\ Len(records) = 0 /\ DOMAIN records = {}
    BY <1>2
  <2> QED BY <1>2, <2>1 DEF ChainInv
<1>7. ASSUME NEW r \in Requests PROVE ReqInv(r)
  <2>1. PlaceInv(r) /\ HoldInv(r) /\ FreshInv(r)
    BY <1>2, <1>3 DEF PlaceInv, HoldInv, FreshInv
  <2>2. AuditInv(r)
    <3>1. RecordsOf(r) = {}
      BY <1>2 DEF RecordsOf
    <3>2. \A e \in Events : audit[r][e] = 0
      BY <1>2
    <3>3. replay[r].evaluation = None /\ replay[r].outcome = "NONE"
      BY <1>3 DEF NoReplay
    <3>4. Cardinality(RecordsOf(r)) = 0
      BY <3>1, FS_EmptySet
    <3> QED BY <1>2, <1>3, <3>2, <3>3, <3>4 DEF AuditInv, Events
  <2> QED BY <2>1, <2>2 DEF ReqInv
<1>8. ASSUME NEW k \in Keys PROVE KeyInv(k)
  <2>1. idem[k] = [state |-> "NONE", holder |-> None, outcome |-> None]
    BY <1>2 DEF NoRow
  <2>2. idem[k].state = "NONE" /\ idem[k].holder = None /\ idem[k].outcome = None
    BY <2>1
  <2> QED BY <2>1, <2>2 DEF KeyInv
<1>9. ASSUME NEW w \in Runners PROVE RunInv(w)
  <2>1. runner[w] = [pc |-> "idle", replay |-> None, lost |-> {}, broken |-> {}, forged |-> FALSE]
    BY <1>2 DEF Idle
  <2>2. /\ runner[w].pc = "idle" /\ runner[w].replay = None /\ runner[w].lost = {}
        /\ runner[w].broken = {} /\ runner[w].forged = FALSE
    BY <2>1
  <2> QED BY <2>1, <2>2 DEF RunInv
<1>10. DamageStays /\ ReplayTruthful
  BY <1>3 DEF DamageStays, ReplayTruthful, NoReplay
<1> QED BY <1>4, <1>5, <1>6, <1>7, <1>8, <1>9, <1>10 DEF HInv

\* Every step.
LEMMA HistoryGoesOn ==
  ASSUME HInv, [Next]_vars PROVE HInv'
<1>1. CASE Operate
  BY <1>1, RequestSteps, WorldSteps, ReadRowsStep, CheckBytesStep, CheckBundleStep, FinishStep, RunFailsStep
     DEF Operate, RunnerStep
<1>2. CASE \E version \in {"pinned", "other"} : Restart(version)
  BY <1>2, RestartStep
<1>3. CASE UNCHANGED vars
  BY <1>3, WorldSteps
<1> QED BY <1>1, <1>2, <1>3 DEF Next

\* The invariant that the theorems rest on holds in every reachable state.
THEOREM HistoryInvariant == Spec => []HInv
<1>1. Init => HInv
  BY HistoryStarts
<1>2. HInv /\ [Next]_vars => HInv'
  BY HistoryGoesOn
<1> QED BY <1>1, <1>2, PTL DEF Spec

\* What the invariant says of the activations.
LEMMA ActivationsChained == ASSUME HInv PROVE ActivationHistory
  BY DEF HInv, ChainInv, ActivationHistory, ReqInv, AuditInv, RecordsOf

\* What the invariant says of the bundles in use.
LEMMA BundlesExact == ASSUME HInv PROVE KnowledgeIsExact
  BY DEF HInv, ChainInv, FilesInv, KnowledgeIsExact

\* What the invariant says of replays, downloads and corrections.
LEMMA AccountsAgree == ASSUME HInv PROVE HistoryAccounted
<1>1. Typed /\ LockInv
  BY DEF HInv
<1>2. TypeOK
  BY <1>1 DEF TypeOK, HInv, Typed, LockInv, RunInv
<1>3. ASSUME NEW r \in Requests, NEW s \in Requests, replay[r].evaluation # None, replay[s].evaluation # None,
             asks[r].key = asks[s].key
      PROVE  r = s
  <2>1. replay[r] # NoReplay /\ replay[s] # NoReplay
    BY <1>3 DEF NoReplay
  <2> QED BY <1>3, <2>1 DEF HInv, ReqInv, FreshInv
<1>4. \A r \in Requests : AuditInv(r) /\ FreshInv(r)
  BY DEF HInv, ReqInv
<1>5. \A r \in sent : r \in Requests /\ audit[r]["EVIDENCE_ACCESSED"] = 1
  BY <1>1, <1>4 DEF FreshInv, AuditInv, Typed
<1> QED BY <1>2, <1>3, <1>4, <1>5 DEF HistoryAccounted, AuditInv

\* Activations form one history (knowledge_seam.py _activate): each names as its predecessor the
\* bundle that was active until it, with one audit event and its key completed for it.
THEOREM ActivationsFormOneHistory == Spec => []ActivationHistory
  BY HistoryInvariant, ActivationsChained, PTL

\* What is in use for a digest is the bundle of that digest, whatever happens to the files, and
\* what was activated is approved and has passed its gate (KnowledgeVerifier.verify, prevalidate).
THEOREM KnowledgeStaysExact == Spec => []KnowledgeIsExact
  BY HistoryInvariant, BundlesExact, PTL

\* One replay per key, one audit event for its request and one for its completion, however many
\* runs of it race; content only with its access audited (history.py).
THEOREM HistoryIsAccounted == Spec => []HistoryAccounted
  BY HistoryInvariant, AccountsAgree, PTL

\* No replay whose material was already damaged passes as a match, and each verdict has its cause
\* (history.py _execute, capability).
THEOREM ReplaysAreTruthful == Spec => []ReplayTruthful
<1>1. HInv => ReplayTruthful
  BY DEF HInv
<1> QED BY <1>1, HistoryInvariant, PTL

=============================================================================

------------------------------ MODULE History -------------------------------
(***************************************************************************)
(* What is done with finished evaluations (trustlens_backend/history.py,   *)
(* migration 0007): content downloads, corrections and exact replays, with *)
(* the recovery of replays that a crash left pending, next to activations  *)
(* of knowledge.  A replay is known by the request that recorded it.       *)
(*                                                                         *)
(* damage[e] is what has happened to the pinned material of evaluation e:  *)
(* its evidence was removed under governance, stored bytes were lost or    *)
(* changed, or rows were changed behind the application.                   *)
(***************************************************************************)
EXTENDS Knowledge

CONSTANTS
    Evaluations,  \* finished evaluations, and
    Unfinished,   \* one that is not
    PinOf,        \* their pinned bundle
    Runners,      \* threads that run replays: background tasks and
    Recovery,     \* the recovery loop
    MAX_DAMAGE    \* bound of the model: damages to material

ASSUME HistoryAssumption ==
    /\ PinOf \in [Evaluations -> Digests] /\ Unfinished \notin Evaluations
    /\ Recovery \in Runners /\ MAX_DAMAGE \in Nat /\ None \notin Evaluations
    /\ \A s \in Scenarios, r \in Requests :
          /\ s.asks[r].kind = "replay" => s.asks[r].evaluation \in Evaluations \cup {Unfinished}
          /\ \A q \in Requests :   \* a key stands for its operation and resource, too
                s.asks[r].key # None /\ s.asks[q].key = s.asks[r].key => s.asks[q].kind = s.asks[r].kind

VARIABLES
    damage,
    engine,    \* whether the process runs the engine version of the pins
    replay,    \* replay_execution rows by request: [evaluation, outcome, before]
    tasks,     \* replays handed to a background task
    runner,    \* [pc, replay, lost, broken, forged]
    created,   \* evaluation and user_correction rows by request: the pinned bundle, or None
    sent,      \* the requests whose response carried content
    spoiled    \* history: the bundles whose directory was ever damaged

hvars == <<damage, engine, replay, tasks, runner, created, sent, spoiled>>
vars == <<kvars, hvars>>

Lost == {"removed", "bytes_missing"}
RowsChanged == {"artifact_broken", "artifact_swapped", "result_broken", "result_swapped"}
Damages == Lost \cup RowsChanged \cup {"bytes_corrupt", "result_forged"}
NoReplay == [evaluation |-> None, outcome |-> "NONE", before |-> {}]
Idle == [pc |-> "idle", replay |-> None, lost |-> {}, broken |-> {}, forged |-> FALSE]

Pending(r) == replay[r].evaluation # None /\ replay[r].outcome = "PENDING"

Init ==
    /\ KnowledgeInit
    /\ damage = [e \in Evaluations |-> {}]
    /\ engine = "pinned"
    /\ replay = [r \in Requests |-> NoReplay]
    /\ tasks = {}
    /\ runner = [w \in Runners |-> Idle]
    /\ created = [r \in Requests |-> None]
    /\ sent = {}
    /\ spoiled = {}

\* A step of a request that only touches its own state.
Own == UNCHANGED <<asks, accidents, store, tables, lock, faults>> /\ UNCHANGED <<damage, engine, runner, spoiled>>

-----------------------------------------------------------------------------
(* createReplay *)

\* A terminal refusal; one whose claim was taken over meanwhile is an unhandled error.
Refusal(r, code) ==
    IF Holds(r) THEN idem' = Finished(r, "FAILED_TERMINAL", code) /\ Answer(r, code)
    ELSE UNCHANGED idem /\ Answer(r, "INTERNAL_ERROR")

Conflict(r) ==
    /\ thread[r].pc = "claimed" /\ asks[r].kind \in {"replay", "correct"}
    /\ asks[r].evaluation = Unfinished
    /\ Refusal(r, "EVALUATION_NOT_COMPLETED")
    /\ Own /\ UNCHANGED <<audit, replay, tasks, created, sent>>

BeginRecording(r) ==
    /\ thread[r].pc = "claimed" /\ asks[r].kind = "replay" /\ asks[r].evaluation # Unfinished
    /\ Step(r, "recording")
    /\ Own /\ UNCHANGED <<idem, audit, replay, tasks, created, sent>>

\* Material that is already known to be removed: nothing is recorded.
RefuseRemoved(r) ==
    /\ thread[r].pc = "recording" /\ asks[r].kind = "replay" /\ Holds(r)
    /\ "removed" \in damage[asks[r].evaluation]
    /\ idem' = Finished(r, "FAILED_TERMINAL", "REPLAY_UNAVAILABLE")
    /\ Answer(r, "REPLAY_UNAVAILABLE")
    /\ Own /\ UNCHANGED <<audit, replay, tasks, created, sent>>

\* The pending replay, its audit event and the outcome of the key are committed together.
RecordReplay(r) ==
    /\ thread[r].pc = "recording" /\ asks[r].kind = "replay" /\ Holds(r)
    /\ "removed" \notin damage[asks[r].evaluation]
    /\ replay' = [replay EXCEPT ![r] = [evaluation |-> asks[r].evaluation, outcome |-> "PENDING",
                                        before |-> damage[asks[r].evaluation]]]
    /\ audit' = Appended(r, {"REPLAY_REQUESTED"})
    /\ idem' = Finished(r, "COMPLETED", r)
    /\ Answer(r, r)
    /\ tasks' = tasks \cup {r}
    /\ Own /\ UNCHANGED <<created, sent>>

\* An answer that names a pending replay starts a background task for it, again if need be.
AnswerReplayAgain(r) ==
    /\ AnswerAgain(r)
    /\ LET named == idem[asks[r].key].outcome
       IN  tasks' = IF asks[r].kind = "replay" /\ idem[asks[r].key].state = "COMPLETED" /\ Pending(named)
                    THEN tasks \cup {named} ELSE tasks
    /\ UNCHANGED <<damage, engine, replay, runner, created, sent, spoiled>>

-----------------------------------------------------------------------------
(* run_replay *)

Run(w, pc) == runner' = [runner EXCEPT ![w].pc = pc]
Quiet == UNCHANGED <<asks, accidents, thread, idem, disk, tables, lock, faults>>
            /\ UNCHANGED <<damage, engine, created, sent, spoiled>>

\* The rows, read without a lock (mutant: without the commitment).  A changed text or digest is broken on its own; a text changed
\* with its digest breaks the commitment to all material; a result changed with the commitment
\* is forged.
RowsSeenAlone(e) ==
    [lost |-> damage[e] \cap {"removed"}, broken |-> damage[e] \cap {"artifact_broken", "result_broken"},
     forged |-> "result_forged" \in damage[e]]
RowsSeen(e) ==
    [lost |-> damage[e] \cap {"removed"}, broken |-> damage[e] \cap RowsChanged,
     forged |-> "result_forged" \in damage[e]]

\* Mutant: only replays that a response handed over are run.
ReadRowsOfTask(w, r) ==
    /\ runner[w].pc = "idle" /\ Pending(r) /\ r \in tasks
    /\ tasks' = tasks \ {r}
    /\ LET seen == RowsSeen(replay[r].evaluation)
       IN  runner' = [runner EXCEPT ![w] = [pc |-> "bytes", replay |-> r, lost |-> seen.lost,
                                            broken |-> seen.broken, forged |-> seen.forged]]
    /\ Quiet /\ UNCHANGED <<cache, audit, replay>>

\* A background task runs the replay it was given, recovery any that is pending.
ReadRows(w, r) ==
    /\ runner[w].pc = "idle" /\ Pending(r)
    /\ IF w = Recovery THEN UNCHANGED tasks ELSE r \in tasks /\ tasks' = tasks \ {r}
    /\ LET seen == RowsSeen(replay[r].evaluation)
       IN  runner' = [runner EXCEPT ![w] = [pc |-> "bytes", replay |-> r, lost |-> seen.lost,
                                            broken |-> seen.broken, forged |-> seen.forged]]
    /\ Quiet /\ UNCHANGED <<cache, audit, replay>>

\* A task whose replay is complete by now has nothing to do.
NothingToRun(r) ==
    /\ r \in tasks /\ ~ Pending(r)
    /\ tasks' = tasks \ {r}
    /\ Quiet /\ UNCHANGED <<cache, audit, replay, runner>>

\* Stored bytes are read only when every row is there: a missing object is lost, a changed one broken.
CheckBytes(w) ==
    LET now == damage[replay[runner[w].replay].evaluation]
    IN  /\ runner[w].pc = "bytes"
        /\ runner' = [runner EXCEPT ![w].pc = "bundle",
                        ![w].lost = IF @ = {} THEN now \cap {"bytes_missing"} ELSE @,
                        ![w].broken = IF runner[w].lost = {} /\ "bytes_missing" \notin now
                                      THEN @ \cup (now \cap {"bytes_corrupt"}) ELSE @]
        /\ Quiet /\ UNCHANGED <<cache, audit, replay, tasks>>

\* The pinned bundle by its digest, never the active one, then the engine.
CheckBundle(w) ==
    LET d == PinOf[replay[runner[w].replay].evaluation]
    IN  /\ runner[w].pc = "bundle"
        /\ IF runner[w].broken # {} THEN UNCHANGED cache ELSE Remember(d)
        /\ runner' = [runner EXCEPT ![w].pc = "finish",
                        ![w].broken = IF @ = {} /\ Verified(d) = None /\ RejectedAs(d) = "BUNDLE_TAMPERED"
                                      THEN {"bundle"} ELSE @,
                        ![w].lost = @ \cup (IF runner[w].broken = {} /\ Verified(d) = None
                                               /\ RejectedAs(d) # "BUNDLE_TAMPERED"
                                            THEN {"bundle"} ELSE {})
                                      \cup (IF engine = "pinned" THEN {} ELSE {"engine"})]
        /\ Quiet /\ UNCHANGED <<audit, replay, tasks>>

\* The order of capability(); the kernel runs, deterministically, only when nothing is amiss.
Outcome(run) ==
    IF run.broken # {} THEN "FAILED_INTEGRITY"
    ELSE IF "bundle" \in run.lost THEN "FAILED_BUNDLE_UNAVAILABLE"
    ELSE IF "engine" \in run.lost THEN "FAILED_ENGINE_UNAVAILABLE"
    ELSE IF run.lost # {} THEN "FAILED_MISSING_MATERIAL"
    ELSE IF run.forged THEN "MISMATCH" ELSE "MATCH"

OutcomeEvents(outcome) ==
    {"REPLAY_EXECUTED"} \cup (IF outcome \in {"FAILED_INTEGRITY", "MISMATCH"}
                              THEN {"INTEGRITY_FAILURE"} ELSE {})

\* Mutant: the outcome is written and audited whether or not another run has completed it.
FinishAlways(w) ==
    LET r == runner[w].replay
        outcome == Outcome(runner[w])
    IN  /\ runner[w].pc = "finish"
        /\ replay' = [replay EXCEPT ![r].outcome = outcome]
        /\ audit' = Appended(r, OutcomeEvents(outcome))
        /\ runner' = [runner EXCEPT ![w] = Idle]
        /\ Quiet /\ UNCHANGED <<cache, tasks>>

\* Write-once: only the run that completes the replay audits it, in the same transaction.
Finish(w) ==
    LET r == runner[w].replay
        outcome == Outcome(runner[w])
    IN  /\ runner[w].pc = "finish"
        /\ IF Pending(r)
           THEN /\ replay' = [replay EXCEPT ![r].outcome = outcome]
                /\ audit' = Appended(r, OutcomeEvents(outcome))
           ELSE UNCHANGED <<replay, audit>>
        /\ runner' = [runner EXCEPT ![w] = Idle]
        /\ Quiet /\ UNCHANGED <<cache, tasks>>

\* Any failure ends the run and leaves the replay pending.
RunFails(w) ==
    /\ runner[w].pc # "idle" /\ Fault
    /\ runner' = [runner EXCEPT ![w] = Idle]
    /\ UNCHANGED <<asks, accidents, thread, idem, store, tables, lock, audit>>
    /\ UNCHANGED <<damage, engine, replay, tasks, created, sent, spoiled>>

-----------------------------------------------------------------------------
(* createCorrection: a new evaluation, over the active bundle *)

\* The submission's finalized evidence is looked up before it is read.
FindItems(r) ==
    /\ thread[r].pc = "claimed" /\ asks[r].kind = "correct" /\ asks[r].evaluation # Unfinished
    /\ IF "removed" \in damage[asks[r].evaluation] THEN Refusal(r, "STATE_CONFLICT")
       ELSE Step(r, "extracting") /\ UNCHANGED idem
    /\ Own /\ UNCHANGED <<audit, replay, tasks, created, sent>>

\* extract_finalized_evidence: still there, knowledge ready, bytes exact, access audited.
Extract(r) ==
    LET here == damage[asks[r].evaluation]
        d == deployment.active
        ready == d # None /\ Ready(d)
    IN  /\ thread[r].pc = "extracting"
        /\ \/ /\ "removed" \in here
              /\ Release(r) /\ Answer(r, "STATE_CONFLICT")
              /\ UNCHANGED <<audit, cache>>
           \/ /\ "removed" \notin here /\ (~ ready \/ "bytes_missing" \in here)
              /\ Release(r) /\ Answer(r, "DEPENDENCY_UNAVAILABLE")
              /\ IF ready THEN Remember(d) ELSE UNCHANGED cache
              /\ UNCHANGED audit
           \/ /\ ready /\ here \cap Lost = {} /\ "bytes_corrupt" \in here
              /\ Refusal(r, "INTEGRITY_FAILURE")
              /\ Remember(d) /\ audit' = Appended(r, {"INTEGRITY_FAILURE"})
           \/ /\ ready /\ here \cap (Lost \cup {"bytes_corrupt"}) = {}
              /\ thread' = [thread EXCEPT ![r].pc = "recording", ![r].seen = d]
              /\ Remember(d) /\ audit' = Appended(r, {"EVIDENCE_ACCESSED"})
              /\ UNCHANGED idem
        /\ UNCHANGED <<asks, accidents, disk, tables, lock, faults>>
        /\ UNCHANGED <<damage, engine, replay, tasks, runner, created, sent, spoiled>>

\* The envelope stored for the evidence was derived by another version of the code, or has been
\* removed since: it is never replaced.
EnvelopeDiffers(r) ==
    /\ thread[r].pc = "recording" /\ asks[r].kind = "correct"
    /\ engine # "pinned" \/ "removed" \in damage[asks[r].evaluation]
    /\ Refusal(r, "INTEGRITY_FAILURE")
    /\ Own /\ UNCHANGED <<audit, replay, tasks, created, sent>>

\* The evaluation, the correction, their audit events and the outcome are one transaction.
Correct(r) ==
    /\ thread[r].pc = "recording" /\ asks[r].kind = "correct" /\ Holds(r)
    /\ created' = [created EXCEPT ![r] = thread[r].seen]
    /\ audit' = Appended(r, {"EVALUATION_STARTED", "USER_CORRECTION"})
    /\ idem' = Finished(r, "COMPLETED", r)
    /\ Answer(r, r)
    /\ Own /\ UNCHANGED <<replay, tasks, sent>>

-----------------------------------------------------------------------------
(* getEvidenceContent *)

\* The item's row is read first; a removed item is refused.
ReadItem(r) ==
    /\ thread[r].pc = "start" /\ asks[r].kind = "download"
    /\ IF "removed" \in damage[asks[r].evaluation] THEN Answer(r, "REMOVED_UNDER_GOVERNANCE")
       ELSE Step(r, "reading")
    /\ Own /\ UNCHANGED <<idem, audit, replay, tasks, created, sent>>

ReadContent(r) ==
    /\ thread[r].pc = "reading"
    /\ IF damage[asks[r].evaluation] \cap {"removed", "bytes_missing", "bytes_corrupt"} = {}
       THEN Step(r, "sending") ELSE Step(r, "failing")
    /\ Own /\ UNCHANGED <<idem, audit, replay, tasks, created, sent>>

\* Audited, or nothing is sent.
Send(r) ==
    /\ thread[r].pc = "sending"
    /\ \/ /\ audit' = Appended(r, {"EVIDENCE_ACCESSED"})
          /\ sent' = sent \cup {r} /\ Answer(r, "200") /\ UNCHANGED faults
       \/ Fault /\ Answer(r, "DEPENDENCY_UNAVAILABLE") /\ UNCHANGED <<audit, sent>>
    /\ UNCHANGED <<asks, accidents, idem, store, tables, lock>>
    /\ UNCHANGED <<damage, engine, replay, tasks, runner, created, spoiled>>

ReportUnreadable(r) ==
    /\ thread[r].pc = "failing"
    /\ audit' = Appended(r, {"INTEGRITY_FAILURE"})
    /\ Answer(r, "INTEGRITY_FAILURE")
    /\ Own /\ UNCHANGED <<idem, replay, tasks, created, sent>>

-----------------------------------------------------------------------------
(* Damage, restarts *)

Damage(e, k) ==
    /\ Cardinality(UNION {{<<x, y>> : y \in damage[x]} : x \in Evaluations}) < MAX_DAMAGE
    /\ k \in accidents.material \ damage[e]
    /\ damage' = [damage EXCEPT ![e] = @ \cup (IF k = "removed" THEN {k, "bytes_missing"} ELSE {k})]
    /\ UNCHANGED kvars /\ UNCHANGED <<engine, replay, tasks, runner, created, sent, spoiled>>

\* The process restarts, possibly with another engine version.
Restart(version) ==
    /\ Crash
    /\ engine' = version
    /\ tasks' = {} /\ runner' = [w \in Runners |-> Idle]
    /\ UNCHANGED <<damage, replay, created, sent, spoiled>>

Spoil(d, c) ==
    /\ DamageDisk(d, c)
    /\ spoiled' = spoiled \cup {d}
    /\ UNCHANGED <<damage, engine, replay, tasks, runner, created, sent>>

RequestStep(r) ==
    \/ KnowledgeStep(r) /\ UNCHANGED hvars
    \/ AnswerReplayAgain(r)
    \/ Conflict(r) \/ BeginRecording(r) \/ RefuseRemoved(r) \/ RecordReplay(r)
    \/ FindItems(r) \/ Extract(r) \/ EnvelopeDiffers(r) \/ Correct(r)
    \/ ReadItem(r) \/ ReadContent(r) \/ Send(r) \/ ReportUnreadable(r)

RunnerStep(w) ==
    \/ \E r \in Requests : ReadRows(w, r)
    \/ CheckBytes(w) \/ CheckBundle(w) \/ Finish(w)

Operate ==
    \/ \E r \in Requests : RequestStep(r) \/ NothingToRun(r)
    \/ \E w \in Runners : RunnerStep(w) \/ RunFails(w)
    \/ \E d \in Digests : (Withdraw(d) \/ InstallBundle(d)) /\ UNCHANGED hvars
    \/ \E d \in Digests, c \in Digests \cup Unusable : Spoil(d, c)
    \/ \E e \in Evaluations, k \in Damages : Damage(e, k)

Next == Operate \/ \E version \in {"pinned", "other"} : Restart(version)

\* The recovery loop runs at every interval, whatever happened to the run before.
Fairness == WF_vars(RunnerStep(Recovery))

Spec == Init /\ [][Next]_vars /\ Fairness

-----------------------------------------------------------------------------
(* Properties *)

\* Types; and the deployment row is locked only by a request inside its transaction.
TypeOK ==
    /\ damage \in [Evaluations -> SUBSET Damages]
    /\ engine \in {"pinned", "other"} /\ tasks \subseteq Requests /\ sent \subseteq Requests
    /\ \A r \in Requests : created[r] \in Digests \cup {None}
    /\ \A w \in Runners : runner[w].pc \in {"idle", "bytes", "bundle", "finish"}
    /\ reference \in [Digests -> {"NONE", "ELIGIBLE", "WITHDRAWN"}]
    /\ lock \in Requests \cup {None}
    /\ lock # None => thread[lock].pc \in {"locked", "checked"}

\* What happened and what the audit log says agree (history.py): one replay per key; a replay is
\* audited once when requested and once when completed, and an integrity failure exactly when
\* that is the outcome, with background runs and recovery side by side; content was only sent
\* with its access audited; a correction and its evaluation have their events.  With the types.
HistoryAccounted ==
    /\ TypeOK
    /\ \A r, s \in Requests :
          replay[r].evaluation # None /\ replay[s].evaluation # None /\ asks[r].key = asks[s].key => r = s
    /\ \A r \in Requests : asks[r].kind = "replay" =>
          /\ audit[r]["REPLAY_REQUESTED"] = IF replay[r].evaluation = None THEN 0 ELSE 1
          /\ audit[r]["REPLAY_EXECUTED"] = IF replay[r].outcome \in {"NONE", "PENDING"} THEN 0 ELSE 1
          /\ audit[r]["INTEGRITY_FAILURE"] =
                IF replay[r].outcome \in {"FAILED_INTEGRITY", "MISMATCH"} THEN 1 ELSE 0
    /\ \A r \in sent : audit[r]["EVIDENCE_ACCESSED"] = 1
    /\ \A r \in Requests :
          audit[r]["USER_CORRECTION"] = (IF created[r] = None THEN 0 ELSE 1)
             /\ audit[r]["EVALUATION_STARTED"] = audit[r]["USER_CORRECTION"]

\* A verdict of a replay is right: damage from before the request never passes as a match, and
\* each verdict has its cause; in particular a result that differs (MISMATCH) only comes from
\* rows forged together with their commitment, and governed removal is not an integrity failure.
ReplayTruthful ==
    \A r \in Requests : replay[r].evaluation # None =>
        LET e == replay[r].evaluation
            outcome == replay[r].outcome
        IN  /\ outcome = "MATCH" => replay[r].before = {}
            /\ outcome = "MISMATCH" => "result_forged" \in damage[e]
            /\ outcome = "FAILED_INTEGRITY" =>
                  \/ damage[e] \cap (RowsChanged \cup {"bytes_corrupt"}) # {}
                  \/ PinOf[e] \in spoiled
            /\ outcome = "FAILED_MISSING_MATERIAL" => damage[e] \cap Lost # {}
            /\ outcome = "FAILED_BUNDLE_UNAVAILABLE" => PinOf[e] \in spoiled

\* Every recorded replay completes: recovery finishes what a crash or a failure left pending.
ReplaysComplete == []<>(\A r \in Requests : ~ Pending(r))
=============================================================================

------------------------ MODULE EvidenceIntakeProofs ------------------------
(***************************************************************************)
(* Theorems about EvidenceIntake, for every set of threads and bodies and  *)
(* every number of permitted attempts.  IInv is inductive: what the rows,  *)
(* the threads' local state and the objects have to do with one another    *)
(* between any two transactions.                                           *)
(***************************************************************************)
EXTENDS EvidenceIntake, SequenceTheorems, TLAPS

USE AttemptsAssumption, BodiesAssumption, LocatorAssumption

(* The rows beyond what RowsAgree says: when each exists, that the item    *)
(* has bytes, and how the attempt counter bounds the state.                *)
RowsInv ==
    /\ intent.state = "ABSENT" <=> op.state = "ABSENT"
    /\ item.state = "ABSENT" => item.body = None /\ op.count = 0
    /\ item.state # "ABSENT" => item.body \in Bodies /\ op.count >= 1
    /\ item.state \notin {"RECEIVED", "INTEGRITY_VERIFIED"}
    /\ op.state = "FAILED_RETRYABLE" => op.count < MAX_WRITE_ATTEMPTS
    /\ op.ref # None => op.ref[2] = op.count

Active == {"writing", "written", "failed"}

(* A thread that is serving a PUT holds an attempt number that was given   *)
(* out, the item's bytes, and no answer yet; if it is the newest attempt   *)
(* and has not reported, nothing was recorded.  What it wrote is there.    *)
PutInv ==
    \A p \in Puts :
        /\ put[p].phase # "idle" =>
              /\ put[p].number >= 1 /\ put[p].number <= op.count
              /\ put[p].body = item.body /\ item.state # "ABSENT"
              /\ put[p].answer = "NONE"
        /\ put[p].phase \in Active /\ put[p].number = op.count =>
              op.state \in {"CONTENT_PENDING", "FAILED_TERMINAL"}
        /\ put[p].phase = "written" => objects[Locator(p)] \in {item.body, Damaged}

(* No two threads hold the same attempt number.                            *)
NumbersDistinct ==
    \A p, q \in Puts : put[p].phase # "idle" /\ put[q].phase # "idle"
                       /\ put[p].number = put[q].number => p = q

(* What finalize read before the row lock is still so: the locator and the *)
(* bytes, and the verdict is one that was read of this very object.        *)
FinalInv ==
    \A f \in Finals : final[f].phase # "idle" =>
        /\ final[f].locator = item.locator /\ item.locator # None
        /\ final[f].body = item.body
        /\ final[f].answer = "NONE"
        /\ final[f].phase = "deciding" =>
              IF final[f].verdict = "unread" THEN item.state = "FINALIZED"
              ELSE <<item.locator, final[f].verdict>> \in verdicts

IInv == /\ RowsAgree /\ RowsInv /\ PutInv /\ NumbersDistinct /\ FinalInv
        /\ ContentBehindMetadata /\ DecisionsWitnessed /\ AnswersTruthful /\ CustodyTrail

(* Definitions that only name sets of values.                              *)
USE DEF Stored, Retryable, States, OpTerminal, Rejections, Events, Active

-----------------------------------------------------------------------------
(* The model's operators.                                                  *)

(* UPLOAD_STATE on the states.                                             *)
LEMMA UploadStates ==
  /\ UploadState("FINALIZED") = "FINALIZED"
  /\ \A s \in {"FAILED_TERMINAL", "INTEGRITY_FAILED"} : UploadState(s) = "REJECTED"
  /\ \A s \in {"CONTENT_PENDING", "FAILED_RETRYABLE", "CONTENT_STORED",
               "INTEGRITY_VERIFIED"} : UploadState(s) = "PROCESSING"
  /\ \A s \in {"ABSENT", "RECEIVED"} : UploadState(s) = "AWAITING_CONTENT"
BY Zenon DEF UploadState

(* The trails an upload can have.                                          *)
One == <<"EVIDENCE_RECEIVED">>
Two == One \o <<"CONTENT_STORED">>

(* The custody of an upload without a row, without content, with content,  *)
(* and with a decision.                                                    *)
LEMMA CustodyValues ==
  /\ \A s : s \notin {"FINALIZED", "INTEGRITY_FAILED"} => Custody("ABSENT", None, s) = <<>>
  /\ \A i, s : i # "ABSENT" /\ s \notin {"FINALIZED", "INTEGRITY_FAILED"} =>
        Custody(i, None, s) = One
  /\ \A i, l, s : i # "ABSENT" /\ l # None /\ s \notin {"FINALIZED", "INTEGRITY_FAILED"} =>
        Custody(i, l, s) = Two
  /\ \A i, l : i # "ABSENT" /\ l # None =>
        /\ Custody(i, l, "FINALIZED") = Two \o <<"FINALIZED">>
        /\ Custody(i, l, "INTEGRITY_FAILED") = Two \o <<"INTEGRITY_FAILURE">>
<1>1. /\ <<>> \o <<>> \o <<>> = <<>> /\ One \o <<>> \o <<>> = One /\ Two \o <<>> = Two
  <2>1. <<>> \in Seq(Events) /\ One \in Seq(Events) /\ <<"CONTENT_STORED">> \in Seq(Events)
    BY DEF One
  <2>2. Two \in Seq(Events)
    BY <2>1, ConcatProperties DEF Two
  <2> QED BY <2>1, <2>2, ConcatEmptySeq
<1>2. ASSUME NEW s, s \notin {"FINALIZED", "INTEGRITY_FAILED"}
      PROVE  Custody("ABSENT", None, s) = <<>>
  BY <1>1, <1>2, Zenon DEF Custody
<1>3. ASSUME NEW i, NEW s, i # "ABSENT", s \notin {"FINALIZED", "INTEGRITY_FAILED"}
      PROVE  Custody(i, None, s) = One
  BY <1>1, <1>3, Zenon DEF Custody, One
<1>4. ASSUME NEW i, NEW l, NEW s, i # "ABSENT", l # None,
             s \notin {"FINALIZED", "INTEGRITY_FAILED"}
      PROVE  Custody(i, l, s) = Two
  BY <1>1, <1>4, Zenon DEF Custody, One, Two
<1>5. ASSUME NEW i, NEW l, i # "ABSENT", l # None
      PROVE  /\ Custody(i, l, "FINALIZED") = Two \o <<"FINALIZED">>
             /\ Custody(i, l, "INTEGRITY_FAILED") = Two \o <<"INTEGRITY_FAILURE">>
  BY <1>5, Zenon DEF Custody, One, Two
<1> QED BY <1>2, <1>3, <1>4, <1>5

(* What each step appends to the audit trail.                              *)
LEMMA TrailSteps ==
  /\ Append(<<>>, "EVIDENCE_RECEIVED") = One
  /\ Append(One, "CONTENT_STORED") = Two
  /\ Append(Two, "FINALIZED") = Two \o <<"FINALIZED">>
  /\ Append(Two, "INTEGRITY_FAILURE") = Two \o <<"INTEGRITY_FAILURE">>
  /\ One \in Seq(Events) /\ Two \in Seq(Events)
  /\ Two \o <<"FINALIZED">> \in Seq(Events)
  /\ Two \o <<"INTEGRITY_FAILURE">> \in Seq(Events)
<1>1. /\ One \in Seq(Events) /\ <<"CONTENT_STORED">> \in Seq(Events)
      /\ <<"FINALIZED">> \in Seq(Events) /\ <<"INTEGRITY_FAILURE">> \in Seq(Events)
      /\ Append(<<>>, "EVIDENCE_RECEIVED") = One
  BY DEF One
<1>2. Two \in Seq(Events)
  BY <1>1, ConcatProperties DEF Two
<1>3. Two \o <<"FINALIZED">> \in Seq(Events) /\ Two \o <<"INTEGRITY_FAILURE">> \in Seq(Events)
  BY <1>1, <1>2, ConcatProperties
<1>4. \A q \in Seq(Events), e \in Events : Append(q, e) = q \o <<e>>
  BY AppendIsConcat
<1> QED BY <1>1, <1>2, <1>3, <1>4 DEF Two

(* The initial states satisfy the inductive invariant.                     *)
LEMMA InitIInv == Init => IInv
<1> SUFFICES ASSUME Init PROVE IInv
  OBVIOUS
<1>1. TypeOK
  BY DEF Init, TypeOK, Intent, Item, Op, PutLocal, FinalLocal
<1>2. RowsAgree /\ RowsInv
  BY <1>1 DEF Init, RowsAgree, RowsInv
<1>3. PutInv /\ NumbersDistinct /\ FinalInv /\ AnswersTruthful
  BY DEF Init, PutInv, NumbersDistinct, FinalInv, AnswersTruthful
<1>4. ContentBehindMetadata /\ DecisionsWitnessed
  BY DEF Init, ContentBehindMetadata, DecisionsWitnessed
<1>5. Custody("ABSENT", None, "ABSENT") = <<>>
  BY CustodyValues
<1>6. CustodyTrail
  BY <1>5 DEF Init, CustodyTrail
<1> QED BY <1>1, <1>2, <1>3, <1>4, <1>6 DEF IInv

-----------------------------------------------------------------------------
(* Steps that write neither row.                                           *)

(* What an answer of a PUT says of the item.                               *)
TrueAnswer(local) ==
    /\ local.answer \in {"PROCESSING", "FINALIZED"} =>
          item.locator # None /\ item.body = local.body
    /\ local.answer = "FINALIZED" => item.state = "FINALIZED"
    /\ local.answer = "REJECTED" => UploadState(item.state) = "REJECTED"

(* The local state of a thread goes on, or the request ends.               *)
GoesOn(old, new) ==
    /\ new.phase # "idle" => /\ old.phase # "idle" /\ new.number = old.number
                             /\ new.body = old.body /\ new.answer = old.answer
    /\ new.phase \in Active => old.phase \in Active
    /\ new.phase = "written" => old.phase = "written"

(* A step that records a rejection on the intent, lets a lease end or      *)
(* moves PUT threads on, and leaves the rest alone.                        *)
LEMMA QuietStep ==
  ASSUME IInv,
         intent' \in Intent, intent'.state = intent.state,
         intent'.state = "MATERIALIZED" => intent'.rejection = None,
         op' \in Op, op'.state = op.state, op'.count = op.count, op'.ref = op.ref,
         op'.wait = "FUTURE" => op.wait = "FUTURE",
         put' \in [Puts -> PutLocal],
         \A p \in Puts : GoesOn(put[p], put'[p]) /\ TrueAnswer(put'[p]),
         released' \subseteq 1..MAX_WRITE_ATTEMPTS,
         UNCHANGED <<item, objects, audit, final, verdicts>>
  PROVE  IInv'
<1>1. RowsAgree'
  BY DEF IInv, RowsAgree, TypeOK
<1>2. RowsInv'
  BY DEF IInv, RowsInv
<1>3. PutInv'
  <2> SUFFICES ASSUME NEW p \in Puts
               PROVE  /\ put'[p].phase # "idle" =>
                            /\ put'[p].number >= 1 /\ put'[p].number <= op.count
                            /\ put'[p].body = item.body /\ item.state # "ABSENT"
                            /\ put'[p].answer = "NONE"
                      /\ put'[p].phase \in Active /\ put'[p].number = op.count =>
                            op.state \in {"CONTENT_PENDING", "FAILED_TERMINAL"}
                      /\ put'[p].phase = "written" =>
                            objects[<<p, put'[p].number>>] \in {item.body, Damaged}
    BY DEF PutInv, Locator
  <2>1. put'[p].phase \in Active => put'[p].phase # "idle"
    OBVIOUS
  <2> QED BY <2>1 DEF IInv, PutInv, GoesOn, Locator
<1>4. NumbersDistinct'
  BY DEF IInv, NumbersDistinct, GoesOn
<1>5. FinalInv'
  BY DEF IInv, FinalInv
<1>6. ContentBehindMetadata' /\ DecisionsWitnessed' /\ CustodyTrail'
  BY DEF IInv, ContentBehindMetadata, DecisionsWitnessed, CustodyTrail
<1>7. AnswersTruthful'
  BY DEF IInv, AnswersTruthful, TrueAnswer
<1> QED BY <1>1, <1>2, <1>3, <1>4, <1>5, <1>6, <1>7 DEF IInv

(* A step that only moves finalize threads on.                             *)
LEMMA FinalStep ==
  ASSUME IInv, FinalInv', final' \in [Finals -> FinalLocal],
         verdicts \subseteq verdicts',
         verdicts' \subseteq Locators \X {"verified", "failed"},
         \A f \in Finals :
            /\ final'[f].answer = "FINALIZED" => item.state = "FINALIZED"
            /\ final'[f].answer = "INTEGRITY_FAILURE" => item.state = "INTEGRITY_FAILED",
         UNCHANGED <<intent, item, op, objects, audit, put, released>>
  PROVE  IInv'
<1>1. RowsAgree' /\ RowsInv'
  BY DEF IInv, RowsAgree, TypeOK, RowsInv
<1>2. PutInv' /\ NumbersDistinct'
  BY DEF IInv, PutInv, NumbersDistinct, Locator
<1>3. ContentBehindMetadata' /\ DecisionsWitnessed' /\ CustodyTrail'
  BY DEF IInv, ContentBehindMetadata, DecisionsWitnessed, CustodyTrail
<1>4. AnswersTruthful'
  BY DEF IInv, AnswersTruthful
<1> QED BY <1>1, <1>2, <1>3, <1>4 DEF IInv

(* A request that is answered: its thread is idle, the others go on.       *)
LEMMA AnsweredThread ==
  ASSUME IInv, NEW p \in Puts, NEW b \in Bodies \cup {None},
         NEW a \in {"NONE", "PROCESSING", "FINALIZED", "REJECTED", "CONFLICT",
                    "INVALID", "UNAVAILABLE"},
         Answered(p, b, a),
         TrueAnswer([phase |-> "idle", body |-> b, number |-> 0, answer |-> a])
  PROVE  /\ put' \in [Puts -> PutLocal]
         /\ \A q \in Puts : GoesOn(put[q], put'[q]) /\ TrueAnswer(put'[q])
<1> DEFINE local == [phase |-> "idle", body |-> b, number |-> 0, answer |-> a]
<1>1. local \in PutLocal /\ local.phase = "idle"
  BY DEF PutLocal
<1>2. put' = [put EXCEPT ![p] = local]
  BY DEF Answered
<1>3. TrueAnswer(local)
  OBVIOUS
<1> HIDE DEF local
<1>4. put \in [Puts -> PutLocal]
  BY DEF IInv, RowsAgree, TypeOK
<1>5. \A q \in Puts : TrueAnswer(put[q])
  BY DEF IInv, AnswersTruthful, TrueAnswer
<1> QED BY <1>1, <1>2, <1>3, <1>4, <1>5 DEF GoesOn

(* A thread that moves on to another phase of its request.                 *)
LEMMA MovedThread ==
  ASSUME IInv, NEW p \in Puts, NEW ph \in {"written", "failed", "unrecorded", "unreported"},
         Goto(p, ph), put[p].phase # "idle"
  PROVE  /\ put' \in [Puts -> PutLocal]
         /\ put'[p].phase = ph /\ put'[p].number = put[p].number
         /\ put'[p].body = put[p].body /\ put'[p].answer = put[p].answer
         /\ \A q \in Puts : q # p => put'[q] = put[q]
<1>1. put[p] \in PutLocal /\ put \in [Puts -> PutLocal]
  BY DEF IInv, RowsAgree, TypeOK
<1>2. [put[p] EXCEPT !.phase = ph] \in PutLocal
  BY <1>1 DEF PutLocal
<1> QED BY <1>1, <1>2 DEF Goto, PutLocal

(* The rows and the locals have their types.                               *)
LEMMA RowTypes ==
  ASSUME IInv
  PROVE  /\ intent \in Intent /\ op \in Op /\ item \in Item
         /\ put \in [Puts -> PutLocal] /\ final \in [Finals -> FinalLocal]
         /\ objects \in [Locators -> Bodies \cup {None, Damaged}]
         /\ released \subseteq 1..MAX_WRITE_ATTEMPTS
         /\ intent.state = "MATERIALIZED" <=> item.state # "ABSENT"
         /\ intent.state = "MATERIALIZED" => intent.rejection = None
BY DEF IInv, RowsAgree, TypeOK

(* A refusal that records its reason on an intent without an item.         *)
LEMMA RejectionStep ==
  ASSUME IInv, NEW p \in Puts, NEW d \in Bodies \cup {None}, NEW c \in Rejections,
         Answered(p, d, "INVALID"),
         \/ item.state = "ABSENT" /\ intent' = [intent EXCEPT !.rejection = c]
         \/ intent' = intent,
         UNCHANGED <<item, op, objects, audit, final, verdicts, released>>
  PROVE  IInv'
<1>1. [intent EXCEPT !.rejection = c] \in Intent
  BY RowTypes DEF Intent
<1>2. /\ intent' \in Intent /\ intent'.state = intent.state
      /\ intent'.state = "MATERIALIZED" => intent'.rejection = None
  BY <1>1, RowTypes DEF Intent
<1>3. /\ put' \in [Puts -> PutLocal]
      /\ \A q \in Puts : GoesOn(put[q], put'[q]) /\ TrueAnswer(put'[q])
  BY AnsweredThread DEF TrueAnswer
<1> QED BY <1>2, <1>3, RowTypes, QuietStep

(* Requests that end in the first transaction with nothing recorded but    *)
(* the reason of a refusal.                                                *)
LEMMA RefusalSteps ==
  ASSUME IInv, NEW p \in Puts, NEW b \in Bodies, NEW c \in Rejections,
         PutMismatch(p, b, c) \/ PutConflict(p, b) \/ PutUnchanged(p, b) \/ PutWaits(p, b)
  PROVE  IInv'
<1>1. CASE PutMismatch(p, b, c)
  BY <1>1, RejectionStep DEF PutMismatch
<1>2. CASE PutConflict(p, b) \/ PutUnchanged(p, b) \/ PutWaits(p, b)
  <2>1. PICK a \in {"PROCESSING", "FINALIZED", "REJECTED", "CONFLICT", "UNAVAILABLE"} :
           /\ Answered(p, b, a)
           /\ TrueAnswer([phase |-> "idle", body |-> b, number |-> 0, answer |-> a])
    <3>1. CASE PutConflict(p, b)
      BY <3>1 DEF PutConflict, TrueAnswer
    <3>2. CASE PutWaits(p, b)
      BY <3>2 DEF PutWaits, TrueAnswer
    <3>3. CASE PutUnchanged(p, b)
      <4>1. /\ item.state \in {"CONTENT_STORED", "FINALIZED", "FAILED_TERMINAL", "INTEGRITY_FAILED"}
            /\ item.body = b /\ Answered(p, b, UploadState(item.state))
        BY <3>3, RowTypes DEF PutUnchanged, SameBytes, IInv, RowsInv, Item
      <4>2. item.state \in {"CONTENT_STORED", "FINALIZED"} => item.locator # None
        BY DEF IInv, RowsAgree
      <4>3. TrueAnswer([phase |-> "idle", body |-> b, number |-> 0,
                        answer |-> UploadState(item.state)])
        BY <4>1, <4>2, UploadStates DEF TrueAnswer
      <4> QED BY <4>1, <4>3, UploadStates
    <3> QED BY <1>2, <3>1, <3>2, <3>3
  <2>2. /\ put' \in [Puts -> PutLocal]
        /\ \A q \in Puts : GoesOn(put[q], put'[q]) /\ TrueAnswer(put'[q])
    BY <2>1, AnsweredThread
  <2>3. UNCHANGED <<intent, item, op, objects, audit, final, verdicts, released>>
    BY <1>2 DEF PutConflict, PutUnchanged, PutWaits
  <2> QED BY <2>2, <2>3, RowTypes, QuietStep
<1> QED BY <1>1, <1>2

(* Attempts that end or go on without a write: fenced out, rolled back,    *)
(* unreported, or dead.                                                    *)
LEMMA ReportingSteps ==
  ASSUME IInv, NEW p \in Puts, Superseded(p) \/ RecordFails(p) \/ ReportFails(p) \/ Crash(p)
  PROVE  IInv'
<1>1. CASE Superseded(p) \/ Crash(p)
  <2>1. put[p].phase # "idle"
    BY <1>1 DEF Superseded, Crash
  <2>2. put[p].body = item.body /\ item.body \in Bodies
    BY <2>1 DEF IInv, PutInv, RowsInv
  <2>3. PICK a \in {"NONE", "PROCESSING", "FINALIZED", "UNAVAILABLE"} :
           /\ Answered(p, put[p].body, a)
           /\ TrueAnswer([phase |-> "idle", body |-> put[p].body, number |-> 0, answer |-> a])
    <3>1. CASE Crash(p)
      BY <3>1 DEF Crash, TrueAnswer
    <3>2. CASE Superseded(p) /\ item.state \notin Stored
      BY <3>2 DEF Superseded, TrueAnswer
    <3>3. CASE Superseded(p) /\ item.state \in Stored
      <4>1. item.state \in {"CONTENT_STORED", "FINALIZED"} /\ item.locator # None
        BY <3>3 DEF IInv, RowsAgree, RowsInv
      <4>2. Answered(p, put[p].body, UploadState(item.state))
        BY <3>3 DEF Superseded
      <4>3. TrueAnswer([phase |-> "idle", body |-> put[p].body, number |-> 0,
                        answer |-> UploadState(item.state)])
        BY <2>2, <4>1, UploadStates DEF TrueAnswer
      <4> QED BY <4>1, <4>2, <4>3, UploadStates
    <3> QED BY <1>1, <3>1, <3>2, <3>3
  <2>4. /\ put' \in [Puts -> PutLocal]
        /\ \A q \in Puts : GoesOn(put[q], put'[q]) /\ TrueAnswer(put'[q])
    <3>1. PICK b \in Bodies : b = put[p].body
      BY <2>2
    <3> QED BY <2>3, <3>1, AnsweredThread
  <2>5. UNCHANGED <<intent, item, op, objects, audit, final, verdicts, released>>
    BY <1>1 DEF Superseded, Crash
  <2> QED BY <2>4, <2>5, RowTypes, QuietStep
<1>2. CASE RecordFails(p) \/ ReportFails(p)
  <2>1. PICK ph \in {"unrecorded", "unreported"} : Goto(p, ph)
    BY <1>2 DEF RecordFails, ReportFails
  <2>2. put[p].phase # "idle"
    BY <1>2 DEF RecordFails, ReportFails
  <2>3. /\ put' \in [Puts -> PutLocal]
        /\ put'[p].phase = ph /\ put'[p].number = put[p].number
        /\ put'[p].body = put[p].body /\ put'[p].answer = put[p].answer
        /\ \A q \in Puts : q # p => put'[q] = put[q]
    BY <2>1, <2>2, MovedThread
  <2>4. \A q \in Puts : GoesOn(put[q], put'[q]) /\ TrueAnswer(put'[q])
    BY <2>2, <2>3 DEF IInv, AnswersTruthful, GoesOn, TrueAnswer
  <2>5. UNCHANGED <<intent, item, op, objects, audit, final, verdicts, released>>
    BY <1>2 DEF RecordFails, ReportFails
  <2> QED BY <2>3, <2>4, <2>5, RowTypes, QuietStep
<1> QED BY <1>1, <1>2

(* _release_attempt ends the lease of an attempt that still holds it.      *)
LEMMA ReleaseStep ==
  ASSUME IInv, NEW p \in Puts, NEW succeeds \in BOOLEAN, Release(p, succeeds)
  PROVE  IInv'
<1>1. /\ op' \in Op /\ op'.state = op.state /\ op'.count = op.count /\ op'.ref = op.ref
      /\ op'.wait = "FUTURE" => op.wait = "FUTURE"
  <2>1. [op EXCEPT !.wait = "PAST"] \in Op
    BY RowTypes DEF Op
  <2> QED BY <2>1, RowTypes DEF Release, Op
<1>2. put[p].phase # "idle" /\ Answered(p, put[p].body, "UNAVAILABLE")
  BY DEF Release
<1>3. PICK b \in Bodies : b = put[p].body
  BY <1>2 DEF IInv, PutInv, RowsInv
<1>4. put[p].number \in 1..MAX_WRITE_ATTEMPTS
  BY <1>2, RowTypes DEF IInv, PutInv, PutLocal
<1>5. released' \subseteq 1..MAX_WRITE_ATTEMPTS
  BY <1>4, RowTypes DEF Release
<1>6. /\ put' \in [Puts -> PutLocal]
      /\ \A q \in Puts : GoesOn(put[q], put'[q]) /\ TrueAnswer(put'[q])
  BY <1>2, <1>3, AnsweredThread DEF TrueAnswer
<1>7. UNCHANGED <<intent, item, objects, audit, final, verdicts>>
  BY DEF Release
<1> QED BY <1>1, <1>5, <1>6, <1>7, RowTypes, QuietStep

(* A lease or a backoff elapses.                                           *)
LEMMA TimePassesStep ==
  ASSUME IInv, TimePasses
  PROVE  IInv'
<1>1. /\ op' \in Op /\ op'.state = op.state /\ op'.count = op.count /\ op'.ref = op.ref
      /\ op'.wait = "FUTURE" => op.wait = "FUTURE"
  BY RowTypes DEF TimePasses, Op
<1>2. \A q \in Puts : GoesOn(put[q], put[q]) /\ TrueAnswer(put[q])
  BY DEF IInv, AnswersTruthful, GoesOn, TrueAnswer
<1>3. UNCHANGED <<intent, item, objects, audit, put, final, verdicts, released>>
  BY DEF TimePasses
<1> QED BY <1>1, <1>2, <1>3, RowTypes, QuietStep

-----------------------------------------------------------------------------
(* Steps of the content store and of finalize before its decision.         *)

(* A step that changes objects only where it writes the bytes of the item  *)
(* or where they are damaged, and never the object that was recorded.      *)
LEMMA ObjectsStep ==
  ASSUME IInv, objects' \in [Locators -> Bodies \cup {None, Damaged}],
         ContentBehindMetadata', PutInv', NumbersDistinct', AnswersTruthful',
         put' \in [Puts -> PutLocal],
         UNCHANGED <<intent, item, op, audit, final, verdicts, released>>
  PROVE  IInv'
<1>1. RowsAgree' /\ RowsInv' /\ FinalInv'
  BY DEF IInv, RowsAgree, TypeOK, RowsInv, FinalInv
<1>2. DecisionsWitnessed' /\ CustodyTrail'
  BY DEF IInv, DecisionsWitnessed, CustodyTrail
<1> QED BY <1>1, <1>2 DEF IInv

(* The content write, whether it succeeds or fails after publication: its  *)
(* object is never the recorded one, for the newest attempt has recorded   *)
(* nothing while it writes.                                                *)
LEMMA WriteSteps ==
  ASSUME IInv, NEW p \in Puts, NEW left \in BOOLEAN, WriteStored(p) \/ WriteFails(p, left)
  PROVE  IInv'
<1>1. /\ put[p].phase = "writing" /\ put[p].body = item.body /\ item.body \in Bodies
      /\ put[p].number >= 1 /\ put[p] \in PutLocal /\ put[p].answer = "NONE"
      /\ put[p].number <= op.count
  BY RowTypes DEF IInv, PutInv, RowsInv, WriteStored, WriteFails
<1>2. put[p].number \in 1..MAX_WRITE_ATTEMPTS
  BY <1>1 DEF PutLocal
<1>3. Locator(p) \in Locators
  BY <1>2 DEF Locator, Locators
<1>4. /\ objects' \in [Locators -> Bodies \cup {None, Damaged}]
      /\ \A l \in Locators : l # Locator(p) => objects'[l] = objects[l]
      /\ WriteStored(p) => objects'[Locator(p)] = item.body
  BY <1>1, <1>3, RowTypes DEF WriteStored, WriteFails
<1>5. PICK ph \in {"written", "failed"} :
         Goto(p, ph) /\ (ph = "written" => WriteStored(p))
  BY DEF WriteStored, WriteFails
<1>6. /\ put' \in [Puts -> PutLocal]
      /\ put'[p].phase = ph /\ put'[p].number = put[p].number
      /\ put'[p].body = put[p].body /\ put'[p].answer = put[p].answer
      /\ \A q \in Puts : q # p => put'[q] = put[q]
  BY <1>1, <1>5, MovedThread
<1>7. UNCHANGED <<intent, item, op, audit, final, verdicts, released>>
  BY DEF WriteStored, WriteFails
<1>8. ContentBehindMetadata'
  <2> SUFFICES ASSUME item.locator # None PROVE objects'[item.locator] = objects[item.locator]
    BY <1>7 DEF IInv, ContentBehindMetadata
  <2>1. /\ item.locator \in Locators /\ item.locator[2] = op.count
        /\ op.state \notin {"CONTENT_PENDING", "FAILED_TERMINAL"}
    BY RowTypes DEF IInv, RowsAgree, RowsInv, Item
  <2>2. put[p].number # op.count
    BY <1>1, <2>1 DEF IInv, PutInv
  <2>3. item.locator # Locator(p)
    BY <2>1, <2>2 DEF Locator
  <2> QED BY <1>4, <2>1, <2>3
<1>9. PutInv'
  <2> SUFFICES ASSUME NEW q \in Puts
               PROVE  /\ put'[q].phase # "idle" =>
                            /\ put'[q].number >= 1 /\ put'[q].number <= op.count
                            /\ put'[q].body = item.body /\ item.state # "ABSENT"
                            /\ put'[q].answer = "NONE"
                      /\ put'[q].phase \in Active /\ put'[q].number = op.count =>
                            op.state \in {"CONTENT_PENDING", "FAILED_TERMINAL"}
                      /\ put'[q].phase = "written" =>
                            objects'[<<q, put'[q].number>>] \in {item.body, Damaged}
    BY <1>7 DEF PutInv, Locator
  <2>1. CASE q = p
    BY <1>1, <1>4, <1>5, <1>6, <2>1 DEF IInv, PutInv, Locator
  <2>2. CASE q # p
    <3>1. put[q].phase = "written" => <<q, put[q].number>> \in Locators
      BY RowTypes DEF IInv, PutInv, PutLocal, Locators
    <3>2. <<q, put[q].number>> # Locator(p)
      BY <2>2 DEF Locator
    <3>3. put[q].phase = "written" => objects'[<<q, put[q].number>>] \in {item.body, Damaged}
      BY <1>4, <3>1, <3>2 DEF IInv, PutInv, Locator
    <3> QED BY <1>6, <2>2, <3>3 DEF IInv, PutInv
  <2> QED BY <2>1, <2>2
<1>10. NumbersDistinct'
  BY <1>1, <1>6 DEF IInv, NumbersDistinct
<1>11. AnswersTruthful'
  BY <1>1, <1>6, <1>7 DEF IInv, AnswersTruthful
<1> QED BY <1>4, <1>6, <1>7, <1>8, <1>9, <1>10, <1>11, ObjectsStep

(* The disk damages an object.                                             *)
LEMMA DamageStep ==
  ASSUME IInv, NEW l \in Locators, Damage(l)
  PROVE  IInv'
<1>1. /\ objects' \in [Locators -> Bodies \cup {None, Damaged}]
      /\ \A m \in Locators : objects'[m] \in {objects[m], Damaged}
      /\ UNCHANGED <<intent, item, op, audit, put, final, verdicts, released>>
  BY RowTypes DEF Damage
<1>2. ContentBehindMetadata'
  <2>1. item.locator # None => item.locator \in Locators
    BY RowTypes DEF Item
  <2> QED BY <1>1, <2>1 DEF IInv, ContentBehindMetadata
<1>3. PutInv'
  <2>1. \A p \in Puts : put[p].phase = "written" => Locator(p) \in Locators
    BY RowTypes DEF IInv, PutInv, PutLocal, Locators, Locator
  <2>2. \A p \in Puts : Locator(p)' = Locator(p)
    BY <1>1 DEF Locator
  <2> QED BY <1>1, <2>1, <2>2 DEF IInv, PutInv
<1>4. NumbersDistinct' /\ AnswersTruthful'
  BY <1>1 DEF IInv, NumbersDistinct, AnswersTruthful
<1> QED BY <1>1, <1>2, <1>3, <1>4, RowTypes, ObjectsStep

(* Finalize reads the item, reads the object, or ends without a decision.  *)
LEMMA FinalReadSteps ==
  ASSUME IInv, NEW f \in Finals, NEW verdict \in {"verified", "failed"},
         \/ FinalRefuse(f) \/ FinalRead(f) \/ FinalVerify(f, verdict)
         \/ FinalAbort(f) \/ FinalAlready(f) \/ FinalConflict(f)
  PROVE  IInv'
<1>1. /\ UNCHANGED <<intent, item, op, objects, audit, put, released>>
      /\ verdicts \subseteq verdicts'
  BY DEF FinalRefuse, FinalRead, FinalVerify, FinalAbort, FinalAlready, FinalConflict
<1>2. final[f] \in FinalLocal /\ final \in [Finals -> FinalLocal] /\ item \in Item
      /\ verdicts \subseteq Locators \X {"verified", "failed"}
  BY RowTypes DEF IInv, RowsAgree, TypeOK
<1> DEFINE Fine(new) ==
              /\ new \in FinalLocal
              /\ new.answer = "FINALIZED" => item.state = "FINALIZED"
              /\ new.answer = "INTEGRITY_FAILURE" => item.state = "INTEGRITY_FAILED"
              /\ new.phase # "idle" =>
                    /\ new.locator = item.locator /\ item.locator # None
                    /\ new.body = item.body /\ new.answer = "NONE"
                    /\ new.phase = "deciding" =>
                          IF new.verdict = "unread" THEN item.state = "FINALIZED"
                          ELSE <<item.locator, new.verdict>> \in verdicts'
<1>3. ASSUME NEW new, Fine(new), final' = [final EXCEPT ![f] = new],
             verdicts' \subseteq Locators \X {"verified", "failed"}
      PROVE  IInv'
  <2>1. final' \in [Finals -> FinalLocal]
    BY <1>2, <1>3
  <2>2. \A g \in Finals : final'[g] = IF g = f THEN new ELSE final[g]
    BY <1>2, <1>3
  <2>3. FinalInv'
    BY <1>1, <1>3, <2>2 DEF IInv, FinalInv
  <2>4. \A g \in Finals :
           /\ final'[g].answer = "FINALIZED" => item.state = "FINALIZED"
           /\ final'[g].answer = "INTEGRITY_FAILURE" => item.state = "INTEGRITY_FAILED"
    BY <1>3, <2>2 DEF IInv, AnswersTruthful
  <2> QED BY <1>1, <1>3, <2>1, <2>3, <2>4, FinalStep
<1>4. CASE FinalRefuse(f)
  <2> DEFINE new == [phase |-> "idle", locator |-> None, body |-> None,
                     verdict |-> "unread", answer |-> "CONFLICT"]
  <2>1. Fine(new)
    BY DEF FinalLocal
  <2>2. final' = [final EXCEPT ![f] = new] /\ verdicts' = verdicts
    BY <1>4 DEF FinalRefuse
  <2> QED BY <1>2, <1>3, <2>1, <2>2
<1>5. CASE FinalRead(f)
  <2> DEFINE new == [phase |-> IF item.state = "FINALIZED" THEN "deciding" ELSE "verifying",
                     locator |-> item.locator, body |-> item.body, verdict |-> "unread",
                     answer |-> "NONE"]
  <2>1. item.locator # None
    BY <1>5 DEF FinalRead, IInv, RowsAgree
  <2>2. new \in FinalLocal
    BY <1>2 DEF FinalLocal, Item
  <2>3. Fine(new)
    BY <2>1, <2>2
  <2>4. final' = [final EXCEPT ![f] = new] /\ verdicts' = verdicts
    BY <1>5 DEF FinalRead
  <2> QED BY <1>2, <1>3, <2>3, <2>4
<1>6. CASE FinalVerify(f, verdict)
  <2> DEFINE new == [final[f] EXCEPT !.phase = "deciding", !.verdict = verdict]
  <2>1. /\ final[f].locator = item.locator /\ item.locator # None
        /\ final[f].body = item.body /\ final[f].answer = "NONE"
    BY <1>6 DEF FinalVerify, IInv, FinalInv
  <2>2. /\ new \in FinalLocal /\ new.phase = "deciding" /\ new.verdict = verdict
        /\ new.locator = final[f].locator /\ new.body = final[f].body
        /\ new.answer = final[f].answer
    BY <1>2 DEF FinalLocal
  <2>3. /\ final' = [final EXCEPT ![f] = new]
        /\ verdicts' = verdicts \cup {<<item.locator, verdict>>}
    BY <1>6, <2>1 DEF FinalVerify
  <2> HIDE DEF new
  <2>4. Fine(new)
    BY <2>1, <2>2, <2>3
  <2>5. verdicts' \subseteq Locators \X {"verified", "failed"}
    BY <1>2, <2>1, <2>3 DEF Item
  <2> QED BY <1>3, <2>3, <2>4, <2>5
<1>7. CASE FinalAbort(f) \/ FinalAlready(f) \/ FinalConflict(f)
  <2>1. PICK a \in {"UNAVAILABLE", "FINALIZED", "CONFLICT"} :
           Finished(f, a) /\ (a = "FINALIZED" => item.state = "FINALIZED")
    BY <1>7 DEF FinalAbort, FinalAlready, FinalConflict
  <2> DEFINE new == [final[f] EXCEPT !.phase = "idle", !.answer = a]
  <2>2. new \in FinalLocal /\ new.phase = "idle" /\ new.answer = a
    BY <1>2 DEF FinalLocal
  <2>3. final' = [final EXCEPT ![f] = new] /\ verdicts' = verdicts
    BY <1>7, <2>1 DEF Finished, FinalAbort, FinalAlready, FinalConflict
  <2> HIDE DEF new
  <2>4. Fine(new)
    BY <2>1, <2>2
  <2> QED BY <1>2, <1>3, <2>3, <2>4
<1> QED BY <1>4, <1>5, <1>6, <1>7

-----------------------------------------------------------------------------
(* Steps that write the rows.                                              *)

(* While no content is recorded, no request holds or was given an answer   *)
(* that says otherwise.                                                    *)
LEMMA NothingRecorded ==
  ASSUME IInv, item.state \in {"ABSENT", "CONTENT_PENDING", "FAILED_RETRYABLE"}
  PROVE  /\ item.locator = None /\ op.ref = None
         /\ \A f \in Finals : /\ final[f].phase = "idle"
                              /\ final[f].answer \notin {"FINALIZED", "INTEGRITY_FAILURE"}
         /\ \A p \in Puts : put[p].answer \notin {"PROCESSING", "FINALIZED", "REJECTED"}
<1>1. item.locator = None /\ op.ref = None
  BY DEF IInv, RowsAgree
<1>2. \A f \in Finals : final[f].phase = "idle"
  BY <1>1 DEF IInv, FinalInv
<1>3. \A f \in Finals : final[f].answer \notin {"FINALIZED", "INTEGRITY_FAILURE"}
  BY DEF IInv, AnswersTruthful
<1>4. UploadState(item.state) # "REJECTED"
  BY UploadStates
<1>5. \A p \in Puts : put[p].answer \notin {"PROCESSING", "FINALIZED", "REJECTED"}
  BY <1>1, <1>4 DEF IInv, AnswersTruthful
<1> QED BY <1>1, <1>2, <1>3, <1>5

(* createEvidenceUpload writes the intent and the operation.               *)
LEMMA CreateUploadStep ==
  ASSUME IInv, NEW accepts \in SUBSET Bodies, CreateUpload(accepts)
  PROVE  IInv'
<1>1. /\ intent.state = "ABSENT" /\ op.state = "ABSENT" /\ item.state = "ABSENT"
      /\ item.locator = None /\ op.ref = None
      /\ UNCHANGED <<item, objects, put, final, verdicts, released>>
  BY RowTypes, NothingRecorded DEF CreateUpload, IInv, RowsInv
<1>2. /\ intent' \in Intent /\ intent'.state = "OPEN" /\ op' \in Op
      /\ op'.state = "RECEIVED" /\ op'.count = 0 /\ op'.ref = None /\ op'.wait = "NULL"
  BY DEF CreateUpload, Intent, Op
<1>3. CustodyTrail' /\ audit' \in Seq(Events)
  <2>1. audit = Custody("ABSENT", None, "ABSENT")
    BY <1>1 DEF IInv, CustodyTrail
  <2>2. audit' = One
    BY <2>1, CustodyValues, TrailSteps DEF CreateUpload
  <2>3. Custody("OPEN", None, "ABSENT") = One
    BY CustodyValues
  <2> QED BY <1>1, <1>2, <2>2, <2>3, TrailSteps DEF CustodyTrail
<1>4. RowsAgree'
  BY <1>1, <1>2, <1>3 DEF IInv, RowsAgree, TypeOK
<1>5. RowsInv'
  BY <1>1, <1>2 DEF IInv, RowsInv
<1>6. PutInv' /\ NumbersDistinct' /\ FinalInv'
  BY <1>1 DEF IInv, PutInv, NumbersDistinct, FinalInv
<1>7. ContentBehindMetadata' /\ DecisionsWitnessed' /\ AnswersTruthful'
  BY <1>1 DEF IInv, ContentBehindMetadata, DecisionsWitnessed, AnswersTruthful
<1> QED BY <1>3, <1>4, <1>5, <1>6, <1>7 DEF IInv

(* A step of an upload that has nothing recorded and records nothing.      *)
LEMMA PendingStep ==
  ASSUME IInv, item.state \in {"ABSENT", "CONTENT_PENDING", "FAILED_RETRYABLE"},
         intent.state # "ABSENT",
         item' \in Item, item'.locator = None, item'.body \in Bodies,
         item'.state \in {"CONTENT_PENDING", "FAILED_RETRYABLE", "FAILED_TERMINAL"},
         op' \in Op, op'.state = item'.state, op'.ref = op.ref, op'.count >= 1,
         op'.wait = "FUTURE" => op'.state \in {"CONTENT_PENDING", "FAILED_RETRYABLE"},
         op'.state = "FAILED_RETRYABLE" => op'.count < MAX_WRITE_ATTEMPTS,
         intent' \in Intent, intent'.state = "MATERIALIZED", intent'.rejection = None,
         put' \in [Puts -> PutLocal], PutInv', NumbersDistinct',
         \A p \in Puts : put'[p].answer \notin {"PROCESSING", "FINALIZED", "REJECTED"},
         UNCHANGED <<objects, audit, final, verdicts, released>>
  PROVE  IInv'
<1>1. RowsAgree'
  BY NothingRecorded DEF IInv, RowsAgree, TypeOK
<1>2. RowsInv'
  BY NothingRecorded DEF RowsInv
<1>3. FinalInv' /\ AnswersTruthful'
  BY NothingRecorded DEF FinalInv, AnswersTruthful
<1>4. ContentBehindMetadata' /\ DecisionsWitnessed'
  BY DEF ContentBehindMetadata, DecisionsWitnessed
<1>5. CustodyTrail'
  <2>1. Custody(intent.state, None, item.state) = One
    BY CustodyValues
  <2>2. Custody("MATERIALIZED", None, item'.state) = One
    BY CustodyValues
  <2> QED BY <2>1, <2>2, NothingRecorded DEF IInv, CustodyTrail
<1> QED BY <1>1, <1>2, <1>3, <1>4, <1>5 DEF IInv

(* The last permitted attempt never reported: the upload is over.          *)
LEMMA PutExhaustedStep ==
  ASSUME IInv, NEW p \in Puts, NEW b \in Bodies, PutExhausted(p, b)
  PROVE  IInv'
<1>1. /\ op.state = "CONTENT_PENDING" /\ item.state = "CONTENT_PENDING"
      /\ intent.state = "MATERIALIZED" /\ op \in Op /\ item \in Item
  BY RowTypes DEF PutExhausted, Exhausted, Attempts, SameBytes, IInv, RowsAgree
<1>2. /\ op' \in Op /\ op'.state = "FAILED_TERMINAL" /\ op'.wait = "NULL"
      /\ op'.count = op.count /\ op'.ref = op.ref
  BY <1>1 DEF PutExhausted, Terminate, Op
<1>3. /\ item' \in Item /\ item'.state = "FAILED_TERMINAL"
      /\ item'.body = item.body /\ item'.locator = item.locator
  BY <1>1 DEF PutExhausted, Terminate, Item
<1>4. Answered(p, b, "UNAVAILABLE")
      /\ UNCHANGED <<intent, objects, audit, final, verdicts, released>>
  BY DEF PutExhausted
<1>5. /\ put' \in [Puts -> PutLocal]
      /\ \A q \in Puts : GoesOn(put[q], put'[q])
      /\ \A q \in Puts : put'[q].answer \notin {"PROCESSING", "FINALIZED", "REJECTED"}
  <2>1. put' \in [Puts -> PutLocal] /\ \A q \in Puts : GoesOn(put[q], put'[q])
    BY <1>4, AnsweredThread DEF TrueAnswer
  <2>2. \A q \in Puts : put'[q].answer \in {"UNAVAILABLE", put[q].answer}
    BY <1>4, RowTypes DEF Answered
  <2> QED BY <1>1, <2>1, <2>2, NothingRecorded
<1>6. PutInv'
  <2>1. objects' = objects /\ \A q \in Puts : Locator(q)' = <<q, put'[q].number>>
    BY <1>4 DEF Locator
  <2> QED BY <1>1, <1>2, <1>3, <1>5, <2>1 DEF IInv, PutInv, GoesOn, Locator
<1>7. NumbersDistinct'
  BY <1>5 DEF IInv, NumbersDistinct, GoesOn
<1>8. item.body \in Bodies /\ op.count >= 1 /\ item.locator = None
  BY <1>1, NothingRecorded DEF IInv, RowsInv
<1>9. intent' \in Intent /\ intent'.state = "MATERIALIZED" /\ intent'.rejection = None
  BY <1>1, <1>4, RowTypes
<1> QED BY <1>1, <1>2, <1>3, <1>4, <1>5, <1>6, <1>7, <1>8, <1>9, PendingStep

(* _begin_attempt: the new attempt's number is greater than every other    *)
(* thread's.                                                               *)
LEMMA BeginAttemptStep ==
  ASSUME IInv, NEW p \in Puts, NEW b \in Bodies, BeginAttempt(p, b)
  PROVE  IInv'
<1> DEFINE local == [phase |-> "writing", body |-> b, number |-> op.count + 1,
                     answer |-> "NONE"]
<1>1. /\ item.state \in {"ABSENT", "CONTENT_PENDING", "FAILED_RETRYABLE"}
      /\ item.state # "ABSENT" => item.body = b
      /\ intent.state # "ABSENT" /\ put[p].phase = "idle"
  <2>1. item.state \notin {"RECEIVED", "INTEGRITY_VERIFIED"}
    BY DEF IInv, RowsInv
  <2> QED BY <2>1 DEF BeginAttempt, Attempts, Requested, SameBytes
<1>2. op \in Op /\ item \in Item /\ intent \in Intent /\ op.count \in Nat
      /\ put \in [Puts -> PutLocal]
  BY RowTypes DEF Op
<1>3. op.count < MAX_WRITE_ATTEMPTS
  <2>1. CASE item.state = "ABSENT"
    BY <2>1 DEF IInv, RowsInv
  <2>2. CASE item.state = "CONTENT_PENDING"
    BY <1>2, <2>2 DEF IInv, RowsAgree, BeginAttempt, Exhausted
  <2>3. CASE item.state = "FAILED_RETRYABLE"
    BY <2>3 DEF IInv, RowsAgree, RowsInv
  <2> QED BY <1>1, <2>1, <2>2, <2>3
<1>4. /\ op' \in Op /\ op'.state = "CONTENT_PENDING" /\ op'.count = op.count + 1
      /\ op'.ref = op.ref
  <2>1. op.count + 1 \in 0..MAX_WRITE_ATTEMPTS
    BY <1>2, <1>3
  <2>2. op' = [op EXCEPT !.state = "CONTENT_PENDING", !.count = op.count + 1, !.wait = "FUTURE"]
    BY DEF BeginAttempt
  <2> QED BY <1>2, <2>1, <2>2 DEF Op
<1>5. /\ item' \in Item /\ item'.state = "CONTENT_PENDING" /\ item'.body = b
      /\ item'.locator = item.locator
  BY <1>2 DEF BeginAttempt, Item
<1>6. intent' \in Intent /\ intent'.state = "MATERIALIZED" /\ intent'.rejection = None
  <2>1. CASE item.state = "ABSENT"
    BY <1>2, <2>1 DEF BeginAttempt, Materialized, Intent
  <2>2. CASE item.state # "ABSENT"
    BY <2>2, RowTypes DEF BeginAttempt, Materialized
  <2> QED BY <2>1, <2>2
<1>7. local \in PutLocal /\ local.phase = "writing" /\ local.body = b
      /\ local.number = op.count + 1 /\ local.answer = "NONE"
  BY <1>2, <1>3 DEF PutLocal
<1>8. put' = [put EXCEPT ![p] = local]
  BY DEF BeginAttempt
<1> HIDE DEF local
<1>9. put' \in [Puts -> PutLocal] /\ \A q \in Puts : put'[q] = IF q = p THEN local ELSE put[q]
  BY <1>2, <1>7, <1>8
<1>10. UNCHANGED <<objects, audit, final, verdicts, released>>
  BY DEF BeginAttempt
<1>11. \A q \in Puts : put[q].phase # "idle" =>
          /\ put[q].number \in Nat /\ put[q].number <= op.count /\ put[q].number >= 1
          /\ put[q].body = b /\ put[q].answer = "NONE"
  BY <1>1, <1>2 DEF IInv, PutInv, PutLocal
<1>12. PutInv'
  <2> SUFFICES ASSUME NEW q \in Puts
               PROVE  /\ put'[q].phase # "idle" =>
                            /\ put'[q].number >= 1 /\ put'[q].number <= op.count + 1
                            /\ put'[q].body = b /\ put'[q].answer = "NONE"
                      /\ put'[q].phase = "written" =>
                            objects[<<q, put'[q].number>>] \in {b, Damaged}
    BY <1>4, <1>5, <1>10 DEF PutInv, Locator
  <2>1. CASE q = p
    BY <1>2, <1>7, <1>9, <2>1
  <2>2. CASE q # p
    <3>1. put[q].phase = "written" => objects[<<q, put[q].number>>] \in {b, Damaged}
      BY <1>1 DEF IInv, PutInv, Locator
    <3> QED BY <1>2, <1>9, <1>11, <2>2, <3>1
  <2> QED BY <2>1, <2>2
<1>13. NumbersDistinct'
  <2>1. \A q \in Puts : q # p /\ put'[q].phase # "idle" => put'[q].number # op.count + 1
    BY <1>2, <1>9, <1>11
  <2> QED BY <1>7, <1>9, <2>1 DEF IInv, NumbersDistinct
<1>14. \A q \in Puts : put'[q].answer \notin {"PROCESSING", "FINALIZED", "REJECTED"}
  BY <1>1, <1>7, <1>9, NothingRecorded
<1>15. item.locator = None /\ op.count + 1 >= 1
  BY <1>1, <1>2, NothingRecorded
<1> QED BY <1>1, <1>4, <1>5, <1>6, <1>9, <1>10, <1>12, <1>13, <1>14, <1>15, PendingStep

(* The thread that holds the fence finds the item pending, with its bytes. *)
LEMMA FenceHolder ==
  ASSUME IInv, NEW p \in Puts, put[p].phase # "idle", Fence(p)
  PROVE  /\ item.state = "CONTENT_PENDING" /\ op.state = "CONTENT_PENDING"
         /\ item.locator = None /\ op.ref = None
         /\ item.body = put[p].body /\ item.body \in Bodies
         /\ put[p].number = op.count /\ op.count >= 1
         /\ \A q \in Puts : put[q].phase # "idle" /\ put[q].number = op.count => q = p
<1>1. /\ op.state = "CONTENT_PENDING" /\ put[p].number = op.count
      /\ item.state # "ABSENT" /\ item.body = put[p].body
  BY DEF Fence, IInv, PutInv
<1>2. item.state = "CONTENT_PENDING" /\ item.body \in Bodies /\ op.count >= 1
  BY <1>1 DEF IInv, RowsAgree, RowsInv
<1> QED BY <1>1, <1>2, NothingRecorded DEF IInv, NumbersDistinct

(* The thread that reported goes on to nothing or to the release of its    *)
(* attempt, which is over.                                                 *)
LEMMA ReportedThread ==
  ASSUME IInv, NEW p \in Puts, NEW b \in Bodies, b = put[p].body, put[p].phase # "idle",
         NEW a \in {"PROCESSING", "UNAVAILABLE"},
         \/ Answered(p, b, a)
         \/ \E ph \in {"unrecorded", "unreported"} : Goto(p, ph)
  PROVE  /\ put' \in [Puts -> PutLocal]
         /\ \A q \in Puts : GoesOn(put[q], put'[q])
         /\ \A q \in Puts : q # p => put'[q] = put[q]
         /\ put'[p].phase \notin Active
         /\ put'[p].answer \in {a, "NONE"} /\ put'[p].body = b
<1>1. CASE Answered(p, b, a)
  <2> DEFINE local == [phase |-> "idle", body |-> b, number |-> 0, answer |-> a]
  <2>1. local \in PutLocal /\ local.phase = "idle" /\ local.answer = a /\ local.body = b
    BY DEF PutLocal
  <2>2. put' = [put EXCEPT ![p] = local]
    BY <1>1 DEF Answered
  <2> HIDE DEF local
  <2> QED BY <2>1, <2>2, RowTypes DEF GoesOn
<1>2. CASE \E ph \in {"unrecorded", "unreported"} : Goto(p, ph)
  <2>1. PICK ph \in {"unrecorded", "unreported"} : Goto(p, ph)
    BY <1>2
  <2>2. put[p].answer = "NONE"
    BY DEF IInv, PutInv
  <2> QED BY <2>1, <2>2, MovedThread DEF GoesOn
<1> QED BY <1>1, <1>2

(* _write_failed: the upload may be retried, or is over.                   *)
LEMMA ReportFailureStep ==
  ASSUME IInv, NEW p \in Puts, NEW acked \in BOOLEAN, ReportFailure(p, acked)
  PROVE  IInv'
<1>1. put[p].phase # "idle" /\ Fence(p)
  BY DEF ReportFailure
<1>2. PICK b \in Bodies : b = put[p].body
  BY <1>1, FenceHolder
<1>3. Answered(p, b, "UNAVAILABLE") \/ \E ph \in {"unrecorded", "unreported"} : Goto(p, ph)
  BY <1>2 DEF ReportFailure
<1>4. /\ put' \in [Puts -> PutLocal]
      /\ \A q \in Puts : GoesOn(put[q], put'[q])
      /\ \A q \in Puts : q # p => put'[q] = put[q]
      /\ put'[p].phase \notin Active /\ put'[p].answer \in {"UNAVAILABLE", "NONE"}
  BY <1>1, <1>2, <1>3, ReportedThread
<1>5. op \in Op /\ item \in Item /\ op.count \in Nat
  BY RowTypes DEF Op
<1>6. /\ op' \in Op /\ op'.state \in {"FAILED_TERMINAL", "FAILED_RETRYABLE"}
      /\ op'.count = op.count /\ op'.ref = op.ref
      /\ op'.wait = "FUTURE" => op'.state = "FAILED_RETRYABLE"
      /\ op'.state = "FAILED_RETRYABLE" => put[p].number < MAX_WRITE_ATTEMPTS
  <2>1. put[p].number \in Nat
    BY RowTypes DEF PutLocal
  <2>2. CASE put[p].number >= MAX_WRITE_ATTEMPTS
    <3>1. op' = [op EXCEPT !.state = "FAILED_TERMINAL", !.wait = "NULL"]
      BY <2>2 DEF ReportFailure
    <3> QED BY <1>5, <3>1 DEF Op
  <2>3. CASE ~(put[p].number >= MAX_WRITE_ATTEMPTS)
    <3>1. op' = [op EXCEPT !.state = "FAILED_RETRYABLE", !.wait = "FUTURE"]
      BY <2>3 DEF ReportFailure
    <3>2. put[p].number < MAX_WRITE_ATTEMPTS
      BY <2>1, <2>3
    <3> QED BY <1>5, <3>1, <3>2 DEF Op
  <2> QED BY <2>2, <2>3
<1>7. /\ item' \in Item /\ item'.state = op'.state
      /\ item'.body = item.body /\ item'.locator = item.locator
  <2>1. item' = [item EXCEPT !.state = op'.state]
    BY DEF ReportFailure
  <2> QED BY <1>5, <1>6, <2>1 DEF Item
<1>8. UNCHANGED <<intent, objects, audit, final, verdicts, released>>
  BY DEF ReportFailure
<1>9. PutInv'
  <2> SUFFICES ASSUME NEW q \in Puts
               PROVE  /\ put'[q].phase # "idle" =>
                            /\ put'[q].number >= 1 /\ put'[q].number <= op.count
                            /\ put'[q].body = item.body /\ put'[q].answer = "NONE"
                      /\ put'[q].phase \in Active => put'[q].number # op.count
                      /\ put'[q].phase = "written" =>
                            objects[<<q, put'[q].number>>] \in {item.body, Damaged}
    BY <1>6, <1>7, <1>8 DEF PutInv, Locator
  <2>1. put'[q].phase \in Active => put'[q].number # op.count
    BY <1>1, <1>4, FenceHolder
  <2>2. put'[q].phase # "idle" =>
           /\ put'[q].number >= 1 /\ put'[q].number <= op.count
           /\ put'[q].body = item.body /\ put'[q].answer = "NONE"
    BY <1>4 DEF IInv, PutInv, GoesOn
  <2>3. put'[q].phase = "written" => objects[<<q, put'[q].number>>] \in {item.body, Damaged}
    BY <1>4 DEF IInv, PutInv, GoesOn, Locator
  <2> QED BY <2>1, <2>2, <2>3
<1>10. NumbersDistinct'
  BY <1>4 DEF IInv, NumbersDistinct, GoesOn
<1>11. \A q \in Puts : put'[q].answer \notin {"PROCESSING", "FINALIZED", "REJECTED"}
  BY <1>1, <1>4, FenceHolder, NothingRecorded
<1>12. /\ item.state = "CONTENT_PENDING" /\ item.locator = None /\ item.body \in Bodies
       /\ op.count >= 1 /\ put[p].number = op.count
  BY <1>1, FenceHolder
<1>13. intent' \in Intent /\ intent'.state = "MATERIALIZED" /\ intent'.rejection = None
  BY <1>8, <1>12, RowTypes
<1> QED BY <1>4, <1>6, <1>7, <1>8, <1>9, <1>10, <1>11, <1>12, <1>13, PendingStep

(* The second transaction: the newest attempt's object becomes the item's. *)
LEMMA RecordStoredStep ==
  ASSUME IInv, NEW p \in Puts, NEW acked \in BOOLEAN, RecordStored(p, acked)
  PROVE  IInv'
<1>1. put[p].phase = "written" /\ put[p].phase # "idle" /\ Fence(p)
  BY DEF RecordStored
<1>2. PICK b \in Bodies : b = put[p].body
  BY <1>1, FenceHolder
<1>3. Answered(p, b, "PROCESSING") \/ \E ph \in {"unrecorded", "unreported"} : Goto(p, ph)
  BY <1>2, UploadStates DEF RecordStored
<1>4. /\ put' \in [Puts -> PutLocal]
      /\ \A q \in Puts : GoesOn(put[q], put'[q])
      /\ \A q \in Puts : q # p => put'[q] = put[q]
      /\ put'[p].phase \notin Active /\ put'[p].answer \in {"PROCESSING", "NONE"}
      /\ put'[p].body = b
  BY <1>1, <1>2, <1>3, ReportedThread
<1>5. /\ item.state = "CONTENT_PENDING" /\ item.locator = None /\ item.body = b
      /\ op.count >= 1 /\ put[p].number = op.count /\ op.state = "CONTENT_PENDING"
      /\ intent.state = "MATERIALIZED"
  BY <1>1, <1>2, FenceHolder, RowTypes
<1>6. op \in Op /\ item \in Item /\ put[p] \in PutLocal
  BY RowTypes
<1>7. /\ Locator(p) \in Locators /\ Locator(p)[2] = op.count /\ Locator(p) # None
      /\ objects[Locator(p)] \in {item.body, Damaged}
  <2>1. put[p].number \in 1..MAX_WRITE_ATTEMPTS
    BY <1>5, <1>6 DEF PutLocal
  <2> QED BY <1>1, <1>5, <2>1 DEF Locator, Locators, IInv, PutInv
<1> HIDE DEF Locator
<1>8. /\ op' \in Op /\ op'.state = "CONTENT_STORED" /\ op'.wait = "NULL"
      /\ op'.ref = Locator(p) /\ op'.count = op.count
  BY <1>6, <1>7 DEF RecordStored, Op
<1>9. /\ item' \in Item /\ item'.state = "CONTENT_STORED" /\ item'.locator = Locator(p)
      /\ item'.body = item.body
  BY <1>6, <1>7 DEF RecordStored, Item
<1>10. UNCHANGED <<intent, objects, final, verdicts, released>>
  BY DEF RecordStored
<1>11. CustodyTrail' /\ audit' \in Seq(Events)
  <2>1. audit = Custody("MATERIALIZED", None, "CONTENT_PENDING")
    BY <1>5 DEF IInv, CustodyTrail
  <2>2. audit' = Two
    BY <2>1, CustodyValues, TrailSteps DEF RecordStored
  <2>3. Custody("MATERIALIZED", Locator(p), "CONTENT_STORED") = Two
    BY <1>7, CustodyValues
  <2> QED BY <1>5, <1>9, <1>10, <2>2, <2>3, TrailSteps DEF CustodyTrail
<1>12. RowsAgree'
  BY <1>4, <1>5, <1>7, <1>8, <1>9, <1>10, <1>11 DEF IInv, RowsAgree, TypeOK
<1>13. RowsInv'
  BY <1>5, <1>7, <1>8, <1>9, <1>10, <1>2 DEF RowsInv
<1>14. PutInv'
  <2> SUFFICES ASSUME NEW q \in Puts
               PROVE  /\ put'[q].phase # "idle" =>
                            /\ put'[q].number >= 1 /\ put'[q].number <= op.count
                            /\ put'[q].body = item.body /\ put'[q].answer = "NONE"
                      /\ put'[q].phase \in Active => put'[q].number # op.count
                      /\ put'[q].phase = "written" =>
                            objects[<<q, put'[q].number>>] \in {item.body, Damaged}
    BY <1>8, <1>9, <1>10 DEF PutInv, Locator
  <2>1. put'[q].phase \in Active => put'[q].number # op.count
    BY <1>1, <1>4, FenceHolder
  <2>2. put'[q].phase # "idle" =>
           /\ put'[q].number >= 1 /\ put'[q].number <= op.count
           /\ put'[q].body = item.body /\ put'[q].answer = "NONE"
    BY <1>4 DEF IInv, PutInv, GoesOn
  <2>3. put'[q].phase = "written" => objects[<<q, put'[q].number>>] \in {item.body, Damaged}
    BY <1>4 DEF IInv, PutInv, GoesOn, Locator
  <2> QED BY <2>1, <2>2, <2>3
<1>15. NumbersDistinct'
  BY <1>4 DEF IInv, NumbersDistinct, GoesOn
<1>16. FinalInv'
  BY <1>5, <1>10, NothingRecorded DEF FinalInv
<1>17. ContentBehindMetadata' /\ DecisionsWitnessed'
  BY <1>7, <1>9, <1>10 DEF ContentBehindMetadata, DecisionsWitnessed
<1>18. AnswersTruthful'
  BY <1>4, <1>5, <1>7, <1>9, <1>10, NothingRecorded DEF AnswersTruthful
<1> QED BY <1>11, <1>12, <1>13, <1>14, <1>15, <1>16, <1>17, <1>18 DEF IInv

(* The decision under the row lock: the item is still CONTENT_STORED, and  *)
(* the verdict that decides was read of the recorded object.               *)
LEMMA DecisionSteps ==
  ASSUME IInv, NEW f \in Finals, NEW acked \in BOOLEAN,
         FinalReject(f, acked) \/ FinalAccept(f, acked)
  PROVE  IInv'
<1> DEFINE s == IF FinalAccept(f, acked) THEN "FINALIZED" ELSE "INTEGRITY_FAILED"
           v == IF FinalAccept(f, acked) THEN "verified" ELSE "failed"
<1>1. /\ item.state = "CONTENT_STORED" /\ op.state = "CONTENT_STORED"
      /\ item.locator # None /\ op.ref = item.locator /\ op.wait # "FUTURE"
      /\ intent.state = "MATERIALIZED"
  <2>1. item.state \in {"CONTENT_STORED", "INTEGRITY_VERIFIED"}
    BY DEF FinalReject, FinalAccept, Undecided
  <2> QED BY <2>1, RowTypes DEF IInv, RowsAgree, RowsInv
<1>2. op \in Op /\ item \in Item /\ final \in [Finals -> FinalLocal] /\ final[f] \in FinalLocal
      /\ put \in [Puts -> PutLocal]
  BY RowTypes
<1>3. final[f].phase = "deciding" /\ <<item.locator, v>> \in verdicts
  <2>1. /\ final[f].phase = "deciding"
        /\ IF FinalAccept(f, acked) THEN final[f].verdict = "verified"
                                    ELSE final[f].verdict # "verified"
    BY DEF FinalReject, FinalAccept
  <2>2. final[f].verdict # "unread" /\ <<item.locator, final[f].verdict>> \in verdicts
    BY <1>1, <2>1 DEF IInv, FinalInv
  <2>3. final[f].verdict \in {"unread", "verified", "failed"}
    BY <1>2 DEF FinalLocal
  <2> QED BY <2>1, <2>2, <2>3
<1>4. /\ item' = [item EXCEPT !.state = s] /\ op' = [op EXCEPT !.state = s]
      /\ s \in {"FINALIZED", "INTEGRITY_FAILED"}
      /\ s = "FINALIZED" <=> v = "verified"
      /\ s = "INTEGRITY_FAILED" <=> v = "failed"
      /\ audit' = Append(audit, IF s = "FINALIZED" THEN "FINALIZED" ELSE "INTEGRITY_FAILURE")
      /\ UNCHANGED <<intent, objects, put, verdicts, released>>
  BY DEF FinalReject, FinalAccept
<1>5. PICK a \in {"FINALIZED", "INTEGRITY_FAILURE", "UNAVAILABLE"} :
         /\ Finished(f, a)
         /\ a = "FINALIZED" => s = "FINALIZED"
         /\ a = "INTEGRITY_FAILURE" => s = "INTEGRITY_FAILED"
  BY DEF FinalReject, FinalAccept
<1> HIDE DEF s, v
<1>6. /\ item' \in Item /\ item'.state = s /\ item'.body = item.body
      /\ item'.locator = item.locator
      /\ op' \in Op /\ op'.state = s /\ op'.count = op.count /\ op'.ref = op.ref
      /\ op'.wait = op.wait
  BY <1>2, <1>4 DEF Item, Op
<1>7. /\ final' \in [Finals -> FinalLocal]
      /\ final'[f].phase = "idle" /\ final'[f].answer = a
      /\ \A g \in Finals : g # f => final'[g] = final[g]
  <2> DEFINE new == [final[f] EXCEPT !.phase = "idle", !.answer = a]
  <2>1. new \in FinalLocal /\ new.phase = "idle" /\ new.answer = a
    BY <1>2 DEF FinalLocal
  <2>2. final' = [final EXCEPT ![f] = new]
    BY <1>5 DEF Finished
  <2> HIDE DEF new
  <2> QED BY <1>2, <2>1, <2>2
<1>8. CustodyTrail' /\ audit' \in Seq(Events)
  <2>1. audit = Two
    BY <1>1, CustodyValues DEF IInv, CustodyTrail
  <2>2. audit' = Custody("MATERIALIZED", item.locator, s)
    BY <1>1, <1>4, <2>1, CustodyValues, TrailSteps
  <2>3. audit' \in Seq(Events)
    BY <1>4, <2>1, TrailSteps
  <2> QED BY <1>1, <1>4, <1>6, <2>2, <2>3 DEF CustodyTrail
<1>9. RowsAgree'
  BY <1>1, <1>2, <1>4, <1>6, <1>7, <1>8 DEF IInv, RowsAgree, TypeOK
<1>10. RowsInv'
  BY <1>1, <1>4, <1>6 DEF IInv, RowsInv
<1>11. PutInv'
  <2>1. \A p \in Puts : ~(put[p].phase \in Active /\ put[p].number = op.count)
    BY <1>1 DEF IInv, PutInv
  <2>2. item'.state # "ABSENT" /\ \A p \in Puts : Locator(p)' = Locator(p)
    BY <1>4, <1>6 DEF Locator
  <2> QED BY <1>4, <1>6, <2>1, <2>2 DEF IInv, PutInv
<1>12. NumbersDistinct'
  BY <1>4 DEF IInv, NumbersDistinct
<1>13. FinalInv'
  <2>0. item'.locator = item.locator /\ item'.body = item.body /\ verdicts' = verdicts
    BY <1>4, <1>6
  <2> SUFFICES ASSUME NEW g \in Finals, final'[g].phase # "idle"
               PROVE  /\ final'[g].locator = item.locator /\ item.locator # None
                      /\ final'[g].body = item.body /\ final'[g].answer = "NONE"
                      /\ final'[g].phase = "deciding" =>
                            /\ final'[g].verdict # "unread"
                            /\ <<item.locator, final'[g].verdict>> \in verdicts
    BY <2>0 DEF FinalInv
  <2>1. final'[g] = final[g] /\ final[g].phase # "idle"
    BY <1>7
  <2> QED BY <1>1, <2>1 DEF IInv, FinalInv
<1>14. ContentBehindMetadata' /\ DecisionsWitnessed'
  <2>1. ContentBehindMetadata'
    BY <1>4, <1>6 DEF IInv, ContentBehindMetadata
  <2>2. /\ s = "FINALIZED" => <<item.locator, "verified">> \in verdicts
        /\ s = "INTEGRITY_FAILED" => <<item.locator, "failed">> \in verdicts
    BY <1>3, <1>4
  <2>3. verdicts' = verdicts
    BY <1>4
  <2> QED BY <1>6, <2>1, <2>2, <2>3 DEF DecisionsWitnessed
<1>15. AnswersTruthful'
  <2>1. UploadState(item.state) # "REJECTED"
    BY <1>1, UploadStates
  <2>2. \A p \in Puts : put[p].answer \notin {"FINALIZED", "REJECTED"}
    BY <1>1, <2>1 DEF IInv, AnswersTruthful
  <2>3. \A g \in Finals : final[g].answer \notin {"FINALIZED", "INTEGRITY_FAILURE"}
    BY <1>1 DEF IInv, AnswersTruthful
  <2> QED BY <1>4, <1>5, <1>6, <1>7, <2>2, <2>3 DEF IInv, AnswersTruthful
<1> QED BY <1>8, <1>9, <1>10, <1>11, <1>12, <1>13, <1>14, <1>15 DEF IInv

(* Every step keeps the inductive invariant.                               *)
LEMMA NextIInv == IInv /\ [Next]_vars => IInv'
<1> SUFFICES ASSUME IInv, [Next]_vars PROVE IInv'
  OBVIOUS
<1>1. CASE UNCHANGED vars
  BY <1>1 DEF vars, IInv, RowsAgree, TypeOK, RowsInv, PutInv, NumbersDistinct, FinalInv, Locator,
              ContentBehindMetadata, DecisionsWitnessed, AnswersTruthful, CustodyTrail
<1>2. ASSUME NEW p \in Puts, PutRequest(p) PROVE IInv'
  <2>1. ASSUME NEW c \in Rejections, PutUnreadable(p, c) PROVE IInv'
    BY <2>1, RejectionStep DEF PutUnreadable
  <2> QED BY <1>2, <2>1, RefusalSteps, PutExhaustedStep, BeginAttemptStep DEF PutRequest
<1>3. ASSUME NEW p \in Puts, PutContinues(p) PROVE IInv'
  BY <1>3, WriteSteps, RecordStoredStep, ReportFailureStep, ReportingSteps, ReleaseStep
     DEF PutContinues
<1>4. ASSUME NEW f \in Finals, Finalize(f) PROVE IInv'
  BY <1>4, FinalReadSteps, DecisionSteps DEF Finalize
<1>5. ASSUME Next PROVE IInv'
  BY <1>2, <1>3, <1>4, <1>5, CreateUploadStep, ReportingSteps, TimePassesStep, DamageStep DEF Next
<1> QED BY <1>1, <1>5

-----------------------------------------------------------------------------
(* The safety properties.                                                  *)

(* The inductive invariant holds of every reachable state.                 *)
THEOREM IntakeInvariant == Spec => []IInv
BY InitIInv, NextIInv, PTL DEF Spec

(* The item and the operation never disagree on state or object, and a     *)
(* locator is recorded exactly when content was stored; at most            *)
(* MAX_WRITE_ATTEMPTS attempts are begun.                                  *)
THEOREM RowsAlwaysAgree == Spec => []RowsAgree
<1>1. IInv => RowsAgree
  BY DEF IInv
<1> QED BY <1>1, IntakeInvariant, PTL

(* At most one thread holds the fence, however many attempts were taken    *)
(* over, and it finds the item as its handler expects.                     *)
THEOREM FenceAlwaysHolds == Spec => []FenceHolds
<1>1. ASSUME IInv PROVE FenceHolds
  <2>1. \A p, q \in Puts : put[p].phase # "idle" /\ put[q].phase # "idle"
                           /\ Fence(p) /\ Fence(q) => p = q
    BY <1>1, FenceHolder
  <2>2. \A p \in Puts : put[p].phase # "idle" /\ Fence(p) =>
           /\ item.state = "CONTENT_PENDING" /\ item.locator = None
           /\ item.body = put[p].body
    BY <1>1, FenceHolder
  <2>3. op.ref # None => op.ref[2] = op.count
    BY <1>1 DEF IInv, RowsInv
  <2> QED BY <2>1, <2>2, <2>3 DEF FenceHolds
<1> QED BY <1>1, IntakeInvariant, PTL

(* A recorded locator names an object that holds the item's bytes unless   *)
(* the disk has damaged it: metadata never runs ahead of content.          *)
THEOREM ContentAlwaysBehindMetadata == Spec => []ContentBehindMetadata
<1>1. IInv => ContentBehindMetadata
  BY DEF IInv
<1> QED BY <1>1, IntakeInvariant, PTL

(* FINALIZED and INTEGRITY_FAILED rest on a read of the recorded object.   *)
THEOREM DecisionsAlwaysWitnessed == Spec => []DecisionsWitnessed
<1>1. IInv => DecisionsWitnessed
  BY DEF IInv
<1> QED BY <1>1, IntakeInvariant, PTL

(* No answer a PUT or finalize request was given becomes false.            *)
THEOREM AnswersStayTruthful == Spec => []AnswersTruthful
<1>1. IInv => AnswersTruthful
  BY DEF IInv
<1> QED BY <1>1, IntakeInvariant, PTL

(* The audit trail of an upload tells its history exactly once.            *)
THEOREM CustodyAlwaysTold == Spec => []CustodyTrail
<1>1. IInv => CustodyTrail
  BY DEF IInv
<1> QED BY <1>1, IntakeInvariant, PTL

(* Stored content keeps its bytes and locator and leaves the stored states *)
(* only by a failed verification; final states are final.                  *)
THEOREM StoredStaysForever == Spec => StoredForever
<1> DEFINE Keeps == /\ item.state \in Stored =>
                          /\ item'.state \in Stored \cup {"INTEGRITY_FAILED"}
                          /\ item'.locator = item.locator /\ item'.body = item.body
                    /\ item.state \in {"FINALIZED", "INTEGRITY_FAILED", "FAILED_TERMINAL"} =>
                          item' = item
<1>1. ASSUME IInv, Next PROVE Keeps
  <2>1. ASSUME UNCHANGED item PROVE Keeps
    BY <2>1
  <2>2. ASSUME item.state \in {"ABSENT", "CONTENT_PENDING", "FAILED_RETRYABLE"} PROVE Keeps
    BY <2>2
  <2>3. item \in Item /\ item.state \notin {"RECEIVED", "INTEGRITY_VERIFIED"}
    BY <1>1, RowTypes DEF IInv, RowsInv
  <2>4. ASSUME NEW p \in Puts, PutRequest(p) PROVE Keeps
    <3>1. ASSUME NEW b \in Bodies, PutExhausted(p, b) \/ BeginAttempt(p, b) PROVE Keeps
      BY <2>2, <2>3, <3>1 DEF PutExhausted, BeginAttempt, Attempts
    <3>2. \/ UNCHANGED item
          \/ \E b \in Bodies : PutExhausted(p, b) \/ BeginAttempt(p, b)
      BY <2>4 DEF PutRequest, PutUnreadable, PutMismatch, PutConflict, PutUnchanged, PutWaits
    <3> QED BY <2>1, <3>1, <3>2
  <2>5. ASSUME NEW p \in Puts, PutContinues(p) PROVE Keeps
    <3>1. ASSUME NEW acked \in BOOLEAN, RecordStored(p, acked) \/ ReportFailure(p, acked)
          PROVE Keeps
      BY <1>1, <2>2, <3>1, FenceHolder DEF RecordStored, ReportFailure
    <3>2. \/ UNCHANGED item
          \/ \E acked \in BOOLEAN : RecordStored(p, acked) \/ ReportFailure(p, acked)
      BY <2>5 DEF PutContinues, WriteStored, WriteFails, Superseded, RecordFails, ReportFails,
                  Release
    <3> QED BY <2>1, <3>1, <3>2
  <2>6. ASSUME NEW f \in Finals, Finalize(f) PROVE Keeps
    <3>1. ASSUME NEW acked \in BOOLEAN, FinalReject(f, acked) \/ FinalAccept(f, acked)
          PROVE Keeps
      <4>1. item.state = "CONTENT_STORED"
        BY <2>3, <3>1 DEF FinalReject, FinalAccept, Undecided
      <4>2. PICK s \in {"INTEGRITY_FAILED", "FINALIZED"} : item' = [item EXCEPT !.state = s]
        BY <3>1 DEF FinalReject, FinalAccept
      <4> QED BY <2>3, <4>1, <4>2 DEF Item
    <3>2. \/ UNCHANGED item
          \/ \E acked \in BOOLEAN : FinalReject(f, acked) \/ FinalAccept(f, acked)
      BY <2>6 DEF Finalize, FinalRefuse, FinalRead, FinalVerify, FinalAbort, FinalAlready,
                  FinalConflict
    <3> QED BY <2>1, <3>1, <3>2
  <2>7. ASSUME NEW accepts \in SUBSET Bodies, CreateUpload(accepts) PROVE UNCHANGED item
    BY <2>7 DEF CreateUpload
  <2>8. ASSUME NEW p \in Puts, Crash(p) PROVE UNCHANGED item
    BY <2>8 DEF Crash
  <2>9. ASSUME TimePasses \/ \E l \in Locators : Damage(l) PROVE UNCHANGED item
    BY <2>9 DEF TimePasses, Damage
  <2> HIDE DEF Keeps
  <2> QED BY <1>1, <2>1, <2>4, <2>5, <2>6, <2>7, <2>8, <2>9 DEF Next
<1>2. IInv /\ [Next]_vars => [Keeps]_vars
  <2> HIDE DEF Keeps
  <2> QED BY <1>1
<1> QED BY <1>2, IntakeInvariant, PTL DEF Spec, StoredForever
=============================================================================

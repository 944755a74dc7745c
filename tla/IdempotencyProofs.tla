------------------------- MODULE IdempotencyProofs -------------------------
(***************************************************************************)
(* Theorems about Idempotency, for every set of requests and digests and   *)
(* every lease and window length.  The invariant IInv is inductive; one    *)
(* lemma per action, one step per conjunct.                                *)
(***************************************************************************)
EXTENDS Idempotency, TLAPS

USE NoneAssumption, TimeAssumption

(* The initial states satisfy the inductive invariant.                     *)
LEMMA InitIInv == Init => IInv
  BY DEF Init, IInv, TypeOK, PhaseInv, RowInv, LostInv, StallInv, ReplaysTruthful,
         Idle, NoRow, Row, Local, Maybe, States, Phases, Answers, PreClaim, Terminal

(* What _INSERT writes is a leased, IN_PROGRESS row.                       *)
LEMMA FreshRowType ==
  ASSUME TypeOK, NEW r \in Requests, req[r].digest \in Digests
  PROVE  /\ FreshRow(r) \in Row
         /\ FreshRow(r).lease_until > 0
<1>1. /\ req[r].now + CLAIM_LEASE \in Nat /\ req[r].now + CLAIM_LEASE > 0
      /\ req[r].now + ACTIVE_WINDOW \in Nat
  BY DEF TypeOK, Local
<1>2. "IN_PROGRESS" \in States /\ r \in Maybe /\ None \in Maybe
  BY DEF States, Maybe
<1> QED BY <1>1, <1>2 DEF FreshRow, Row

(* What _finish writes is a row with the executor's outcome and no lease.  *)
LEMMA FinishedRowType ==
  ASSUME TypeOK, NEW r \in Requests, NEW s \in States, req[r].claim \in Requests
  PROVE  FinishedRow(r, s) \in Row
<1>1. record[req[r].claim] \in Row /\ r \in Maybe
  BY DEF TypeOK, Maybe
<1> QED BY <1>1 DEF FinishedRow, Row

(* A step that only ends a request, or sends it to release(), with nothing *)
(* written: errors, refusals of the key, lost races, rollbacks, crashes.   *)
LEMMA QuietStep ==
  ASSUME IInv, NEW r \in Requests,
         NEW p \in {"releasing", "answered", "crashed"}, NEW a \in Answers,
         req[r].phase \notin {"idle", "answered", "crashed"},
         p = "releasing" => req[r].phase = "executing",
         p = "answered" => a \notin {"REFUSED", "REPLAYED"},
         p # "answered" => a = req[r].answer,
         UNCHANGED <<schema, clock, record, effects, lost, stalled>>,
         req' = [req EXCEPT ![r].phase = p, ![r].answer = a]
  PROVE  IInv'
<1>1. TypeOK'
  <2>1. req[r] \in Local /\ p \in Phases
    BY DEF IInv, TypeOK, Phases
  <2>2. [req[r] EXCEPT !.phase = p, !.answer = a] \in Local
    BY <2>1 DEF Local
  <2>3. req' \in [Requests -> Local]
    BY <2>2 DEF IInv, TypeOK
  <2> QED BY <2>3 DEF IInv, TypeOK
<1>2. PhaseInv'
  BY DEF IInv, TypeOK, Row, Local, Maybe, PhaseInv, RowInv, PreClaim
<1>3. RowInv'
  BY DEF IInv, TypeOK, Row, Local, Maybe, PhaseInv, RowInv, PreClaim, Terminal
<1>4. LostInv'
  BY DEF IInv, TypeOK, Row, Local, Maybe, PhaseInv, RowInv, LostInv, PreClaim
<1>5. StallInv'
  BY DEF IInv, TypeOK, Row, Local, Maybe, PhaseInv, RowInv, StallInv, PreClaim
<1>6. ReplaysTruthful'
  BY DEF IInv, TypeOK, Row, Local, Maybe, PhaseInv, RowInv, ReplaysTruthful,
         PreClaim, Terminal
<1> QED BY <1>1, <1>2, <1>3, <1>4, <1>5, <1>6 DEF IInv

(* The claim transaction starts.                                           *)
LEMMA BeginStep ==
  ASSUME IInv, NEW r \in Requests, NEW d \in Digests, Begin(r, d)
  PROVE  IInv'
<1>1. TypeOK'
  <2>1. req[r] \in Local /\ "claiming" \in Phases /\ clock \in Nat
    BY DEF IInv, TypeOK, Phases
  <2>2. [req[r] EXCEPT !.phase = "claiming", !.digest = d, !.now = clock] \in Local
    BY <2>1 DEF Local
  <2>3. req' \in [Requests -> Local]
    BY <2>2 DEF IInv, TypeOK, Begin
  <2> QED BY <2>3 DEF IInv, TypeOK, Begin
<1>2. PhaseInv'
  BY DEF IInv, Begin, TypeOK, Row, Local, Maybe, PhaseInv, RowInv, PreClaim
<1>3. RowInv'
  BY DEF IInv, Begin, TypeOK, Row, Local, Maybe, PhaseInv, RowInv, PreClaim,
         Terminal
<1>4. LostInv'
  BY DEF IInv, Begin, TypeOK, Row, Local, Maybe, PhaseInv, RowInv, LostInv,
         PreClaim
<1>5. StallInv'
  BY DEF IInv, Begin, TypeOK, Row, Local, Maybe, PhaseInv, RowInv, StallInv,
         PreClaim
<1>6. ReplaysTruthful'
  BY DEF IInv, Begin, TypeOK, Row, Local, Maybe, PhaseInv, RowInv, ReplaysTruthful,
         PreClaim, Terminal
<1> QED BY <1>1, <1>2, <1>3, <1>4, <1>5, <1>6 DEF IInv

(* INSERT ... ON CONFLICT inserts the scope's governing row.               *)
LEMMA ClaimInsertStep ==
  ASSUME IInv, NEW r \in Requests, ClaimInsert(r)
  PROVE  IInv'
<1>1. TypeOK'
  <2>1. req[r] \in Local /\ "executing" \in Phases /\ r \in Maybe
    BY DEF IInv, TypeOK, Phases, Maybe
  <2>2. [req[r] EXCEPT !.phase = "executing", !.claim = r] \in Local
    BY <2>1 DEF Local
  <2>3. req' \in [Requests -> Local]
    BY <2>2 DEF IInv, TypeOK, ClaimInsert
  <2>4. req[r].digest \in Digests
    BY DEF IInv, PhaseInv, ClaimInsert
  <2> QED BY <2>3, <2>4, FreshRowType DEF IInv, TypeOK, ClaimInsert, FreshRow
<1>2. PhaseInv'
  BY DEF IInv, ClaimInsert, FreshRow, Governs, NoRow, TypeOK, Row, Local, Maybe,
         PhaseInv, RowInv, PreClaim
<1>3. RowInv'
  BY DEF IInv, ClaimInsert, FreshRow, Governs, NoRow, TypeOK, Row, Local, Maybe,
         PhaseInv, RowInv, PreClaim, Terminal
<1>4. LostInv'
  BY DEF IInv, ClaimInsert, FreshRow, Governs, NoRow, TypeOK, Row, Local, Maybe,
         PhaseInv, RowInv, LostInv, PreClaim
<1>5. StallInv'
  BY DEF IInv, ClaimInsert, FreshRow, Governs, NoRow, TypeOK, Row, Local, Maybe,
         PhaseInv, RowInv, StallInv, PreClaim
<1>6. ReplaysTruthful'
  BY DEF IInv, ClaimInsert, FreshRow, Governs, NoRow, TypeOK, Row, Local, Maybe,
         PhaseInv, RowInv, ReplaysTruthful, PreClaim, Terminal
<1> QED BY <1>1, <1>2, <1>3, <1>4, <1>5, <1>6 DEF IInv

(* On 0004 an expired row is to be superseded.                             *)
LEMMA ClaimExpiredStep ==
  ASSUME IInv, NEW r \in Requests, NEW g \in Requests,
         req[r].phase = "claiming", Governs(g),
         req' = [req EXCEPT ![r].phase = "superseding", ![r].seen = g],
         UNCHANGED <<schema, clock, record, effects, lost, stalled>>
  PROVE  IInv'
<1>1. TypeOK'
  <2>1. req[r] \in Local /\ "superseding" \in Phases /\ g \in Maybe
    BY DEF IInv, TypeOK, Phases, Maybe
  <2>2. [req[r] EXCEPT !.phase = "superseding", !.seen = g] \in Local
    BY <2>1 DEF Local
  <2>3. req' \in [Requests -> Local]
    BY <2>2 DEF IInv, TypeOK, Maybe
  <2> QED BY <2>3 DEF IInv, TypeOK
<1>2. PhaseInv'
  BY DEF IInv, Governs, TypeOK, Row, Local, Maybe, PhaseInv, RowInv, PreClaim
<1>3. RowInv'
  BY DEF IInv, Governs, TypeOK, Row, Local, Maybe, PhaseInv, RowInv, PreClaim,
         Terminal
<1>4. LostInv'
  BY DEF IInv, Governs, TypeOK, Row, Local, Maybe, PhaseInv, RowInv, LostInv,
         PreClaim
<1>5. StallInv'
  BY DEF IInv, Governs, TypeOK, Row, Local, Maybe, PhaseInv, RowInv, StallInv,
         PreClaim
<1>6. ReplaysTruthful'
  BY DEF IInv, Governs, TypeOK, Row, Local, Maybe, PhaseInv, RowInv,
         ReplaysTruthful, PreClaim, Terminal
<1> QED BY <1>1, <1>2, <1>3, <1>4, <1>5, <1>6 DEF IInv

(* A terminal outcome is replayed.                                         *)
LEMMA ClaimReplayStep ==
  ASSUME IInv, NEW r \in Requests, NEW g \in Requests, ClaimReplay(r, g)
  PROVE  IInv'
<1>1. TypeOK'
  <2>1. /\ req[r] \in Local /\ "answered" \in Phases /\ "REPLAYED" \in Answers
        /\ g \in Maybe /\ record[g].outcome \in Maybe
    BY DEF IInv, TypeOK, Phases, Answers, Maybe, Row
  <2>2. [req[r] EXCEPT !.phase = "answered", !.answer = "REPLAYED",
                        !.source = g, !.resource = record[g].outcome] \in Local
    BY <2>1 DEF Local
  <2>3. req' \in [Requests -> Local]
    BY <2>2 DEF IInv, TypeOK, ClaimReplay
  <2> QED BY <2>3 DEF IInv, TypeOK, ClaimReplay
<1>2. PhaseInv'
  BY DEF IInv, ClaimReplay, Governs, Expired, SameRequest, TypeOK, Row, Local,
         Maybe, PhaseInv, RowInv, PreClaim
<1>3. RowInv'
  BY DEF IInv, ClaimReplay, Governs, Expired, SameRequest, TypeOK, Row, Local,
         Maybe, PhaseInv, RowInv, PreClaim, Terminal
<1>4. LostInv'
  BY DEF IInv, ClaimReplay, Governs, Expired, SameRequest, TypeOK, Row, Local,
         Maybe, PhaseInv, RowInv, LostInv, PreClaim
<1>5. StallInv'
  BY DEF IInv, ClaimReplay, Governs, Expired, SameRequest, TypeOK, Row, Local,
         Maybe, PhaseInv, RowInv, StallInv, PreClaim
<1>6. ReplaysTruthful'
  BY DEF IInv, ClaimReplay, Governs, Expired, SameRequest, TypeOK, Row, Local,
         Maybe, PhaseInv, RowInv, ReplaysTruthful, PreClaim, Terminal
<1> QED BY <1>1, <1>2, <1>3, <1>4, <1>5, <1>6 DEF IInv

(* The SELECT finds a row it may take over.                                *)
LEMMA ClaimTakeableStep ==
  ASSUME IInv, NEW r \in Requests, NEW g \in Requests, ClaimTakeable(r, g)
  PROVE  IInv'
<1>1. TypeOK'
  <2>1. /\ req[r] \in Local /\ "taking_over" \in Phases
        /\ g \in Maybe /\ record[g].token \in Maybe
    BY DEF IInv, TypeOK, Phases, Maybe, Row
  <2>2. [req[r] EXCEPT !.phase = "taking_over", !.seen = g,
                        !.seenToken = record[g].token] \in Local
    BY <2>1 DEF Local
  <2>3. req' \in [Requests -> Local]
    BY <2>2 DEF IInv, TypeOK, ClaimTakeable
  <2> QED BY <2>3 DEF IInv, TypeOK, ClaimTakeable
<1>2. PhaseInv'
  BY DEF IInv, ClaimTakeable, Governs, LeaseLive, SameRequest, TypeOK, Row, Local,
         Maybe, PhaseInv, RowInv, PreClaim
<1>3. RowInv'
  BY DEF IInv, ClaimTakeable, Governs, LeaseLive, SameRequest, TypeOK, Row, Local,
         Maybe, PhaseInv, RowInv, PreClaim, Terminal
<1>4. LostInv'
  BY DEF IInv, ClaimTakeable, Governs, LeaseLive, SameRequest, TypeOK, Row, Local,
         Maybe, PhaseInv, RowInv, LostInv, PreClaim
<1>5. StallInv'
  BY DEF IInv, ClaimTakeable, Governs, LeaseLive, SameRequest, TypeOK, Row, Local,
         Maybe, PhaseInv, RowInv, StallInv, PreClaim
<1>6. ReplaysTruthful'
  BY DEF IInv, ClaimTakeable, Governs, LeaseLive, SameRequest, TypeOK, Row, Local,
         Maybe, PhaseInv, RowInv, ReplaysTruthful, PreClaim, Terminal
<1> QED BY <1>1, <1>2, <1>3, <1>4, <1>5, <1>6 DEF IInv

(* The expired row is superseded and a fresh one inserted.                 *)
LEMMA SupersedeStep ==
  ASSUME IInv, NEW r \in Requests, NEW g \in Requests, req[r].phase = "superseding", g = req[r].seen,
         ~record[g].superseded, Supersede(r), Expired(r, g),
         record' = [record EXCEPT ![g].superseded = TRUE, ![r] = FreshRow(r)]
  PROVE  IInv'
<1>1. TypeOK'
  <2>1. req[r] \in Local /\ "executing" \in Phases /\ r \in Maybe
    BY DEF IInv, TypeOK, Phases, Maybe
  <2>2. [req[r] EXCEPT !.phase = "executing", !.claim = r] \in Local
    BY <2>1 DEF Local
  <2>3. req' \in [Requests -> Local]
    <3>1. req' = [req EXCEPT ![r] = [req[r] EXCEPT !.phase = "executing", !.claim = r]]
      BY DEF Supersede
    <3> QED BY <2>2, <3>1 DEF IInv, TypeOK
  <2>4. req[r].digest \in Digests /\ record[g].state # "ABSENT" /\ g # r
    BY DEF IInv, PhaseInv, PreClaim, NoRow
  <2>5. FreshRow(r) \in Row /\ FreshRow(r).lease_until > 0
    BY <2>4, FreshRowType DEF IInv
  <2>6. record[g] \in Row
    BY DEF IInv, TypeOK
  <2>7. [record[g] EXCEPT !.superseded = TRUE] \in Row
    BY <2>6 DEF Row
  <2>8. record' = [record EXCEPT ![g] = [record[g] EXCEPT !.superseded = TRUE],
                                 ![r] = FreshRow(r)]
    BY DEF Supersede
  <2>9. record' = [h \in Requests |-> IF h = r THEN FreshRow(r) ELSE IF h = g
                     THEN [record[g] EXCEPT !.superseded = TRUE] ELSE record[h]]
    BY <2>4, <2>8 DEF IInv, TypeOK
  <2>10. record' \in [Requests -> Row]
    <3>1. record \in [Requests -> Row]
      BY DEF IInv, TypeOK
    <3> QED BY ONLY <2>5, <2>7, <2>9, <3>1
  <2>11. lost' \subseteq Requests
    BY <2>4 DEF Supersede, Lose, IInv, TypeOK
  <2>12. ASSUME NEW h \in Requests, record'[h].state # "ABSENT"
         PROVE  /\ record'[h].digest \in Digests /\ record'[h].token \in Requests
                /\ IF record'[h].state = "IN_PROGRESS"
                   THEN record'[h].outcome = None /\ record'[h].lease_until > 0
                   ELSE record'[h].outcome \in Requests /\ record'[h].lease_until = 0
    <3>1. CASE h = r
      BY <3>1, <2>4, <2>5, <2>9 DEF FreshRow
    <3>2. CASE h = g
      BY <3>2, <2>4, <2>6, <2>9 DEF IInv, TypeOK, Row
    <3>3. CASE h # r /\ h # g
      BY <3>3, <2>9, <2>12 DEF IInv, TypeOK
    <3> QED BY <3>1, <3>2, <3>3
  <2>13. schema' \in Schemas /\ clock' \in Nat /\ effects' \subseteq Requests /\ stalled' \subseteq Requests
    BY DEF IInv, TypeOK, Supersede
  <2> QED BY <2>3, <2>10, <2>11, <2>12, <2>13 DEF TypeOK
<1>2. PhaseInv'
  BY DEF IInv, Supersede, Lose, FreshRow, NoRow, TypeOK, Row, Local, Maybe,
         PhaseInv, RowInv, PreClaim
<1>3. RowInv'
  BY SMTT(30) DEF IInv, Supersede, Lose, FreshRow, NoRow, TypeOK, Row, Local, Maybe,
         PhaseInv, RowInv, PreClaim, Terminal
<1>4. LostInv'
  BY DEF IInv, Supersede, Lose, FreshRow, NoRow, TypeOK, Row, Local, Maybe,
         PhaseInv, RowInv, LostInv, PreClaim
<1>5. StallInv'
  BY SMTT(30) DEF IInv, Supersede, Lose, FreshRow, NoRow, TypeOK, Row, Local, Maybe,
         PhaseInv, RowInv, StallInv, PreClaim
<1>6. ReplaysTruthful'
  BY DEF IInv, Supersede, Lose, FreshRow, NoRow, TypeOK, Row, Local, Maybe,
         PhaseInv, RowInv, ReplaysTruthful, PreClaim, Terminal
<1> QED BY <1>1, <1>2, <1>3, <1>4, <1>5, <1>6 DEF IInv

(* The compare-and-swap matches and the row changes hands.                 *)
LEMMA TakeOverStep ==
  ASSUME IInv, NEW r \in Requests, NEW g \in Requests, req[r].phase = "taking_over", g = req[r].seen,
         record[g].token = req[r].seenToken, Writable(g), TakeOver(r),
         req' = [req EXCEPT ![r].phase = "executing", ![r].claim = g]
  PROVE  IInv'
<1>1. TypeOK'
  <2>1. req[r] \in Local /\ "executing" \in Phases /\ g \in Maybe
    BY DEF IInv, TypeOK, Phases, Maybe
  <2>2. [req[r] EXCEPT !.phase = "executing", !.claim = g] \in Local
    BY <2>1 DEF Local
  <2>3. req' \in [Requests -> Local]
    BY <2>2 DEF IInv, TypeOK, TakeOver
  <2>4. record[g] \in Row /\ "IN_PROGRESS" \in States /\ r \in Maybe /\ None \in Maybe
    BY DEF IInv, TypeOK, States, Maybe
  <2>5. req[r].now + CLAIM_LEASE \in Nat /\ req[r].now + CLAIM_LEASE > 0
    <3>1. req[r].now \in Nat
      BY <2>1 DEF Local
    <3> QED BY <3>1
  <2>6. [record[g] EXCEPT !.state = "IN_PROGRESS", !.token = r, !.outcome = None,
                          !.lease_until = req[r].now + CLAIM_LEASE] \in Row
    BY <2>4, <2>5 DEF Row
  <2>7. record' = [record EXCEPT ![g] =
           [record[g] EXCEPT !.state = "IN_PROGRESS", !.token = r, !.outcome = None,
                             !.lease_until = req[r].now + CLAIM_LEASE]]
    BY DEF TakeOver
  <2>8. record' \in [Requests -> Row]
    BY <2>6, <2>7 DEF IInv, TypeOK
  <2>9. record[g].state # "ABSENT"
    BY DEF IInv, TypeOK, PhaseInv, Local, Maybe
  <2>10. lost' \subseteq Requests
    BY <2>9 DEF TakeOver, Lose, IInv, TypeOK
  <2> QED BY <2>3, <2>5, <2>7, <2>8, <2>9, <2>10, SMTT(30) DEF IInv, TypeOK, TakeOver, Row
<1>2. PhaseInv'
  BY DEF IInv, TakeOver, Lose, Writable, TypeOK, Row, Local, Maybe, PhaseInv,
         RowInv, PreClaim
<1>3. RowInv'
  BY DEF IInv, TakeOver, Lose, Writable, TypeOK, Row, Local, Maybe, PhaseInv,
         RowInv, PreClaim, Terminal
<1>4. LostInv'
  BY DEF IInv, TakeOver, Lose, Writable, TypeOK, Row, Local, Maybe, PhaseInv,
         RowInv, LostInv, PreClaim
<1>5. StallInv'
  BY DEF IInv, TakeOver, Lose, Writable, TypeOK, Row, Local, Maybe, PhaseInv,
         RowInv, StallInv, PreClaim
<1>6. ReplaysTruthful'
  BY SMTT(30) DEF IInv, TakeOver, Lose, Writable, TypeOK, Row, Local, Maybe, PhaseInv,
         RowInv, ReplaysTruthful, PreClaim, Terminal
<1> QED BY <1>1, <1>2, <1>3, <1>4, <1>5, <1>6 DEF IInv

(* The effect and its completion commit under the fence.                   *)
LEMMA CommitEffectStep ==
  ASSUME IInv, NEW r \in Requests, NEW acked \in BOOLEAN, CommitEffect(r, acked)
  PROVE  IInv'
<1>1. TypeOK'
  <2>1. /\ req[r] \in Local /\ "answered" \in Phases
        /\ (IF acked THEN "CREATED" ELSE "UNAVAILABLE") \in Answers
    BY DEF IInv, TypeOK, Phases, Answers
  <2>2. [req[r] EXCEPT !.phase = "answered",
                        !.answer = IF acked THEN "CREATED" ELSE "UNAVAILABLE"] \in Local
    BY <2>1 DEF Local
  <2>3. req' \in [Requests -> Local]
    BY <2>2 DEF IInv, TypeOK, CommitEffect, Answer
  <2>4. req[r].claim \in Requests /\ record[req[r].claim].state # "ABSENT"
    BY DEF IInv, TypeOK, PhaseInv, Local, Maybe, CommitEffect
  <2>5. FinishedRow(r, "COMPLETED") \in Row
    BY <2>4, FinishedRowType DEF IInv, States
  <2>6. record' \in [Requests -> Row]
    BY <2>5 DEF IInv, TypeOK, CommitEffect
  <2> QED BY <2>3, <2>4, <2>6 DEF IInv, TypeOK, CommitEffect, FinishedRow, NoteStall, Row
<1>2. PhaseInv'
  BY DEF IInv, CommitEffect, Answer, NoteStall, FinishedRow, Fenced, Writable,
         TypeOK, Row, Local, Maybe, PhaseInv, RowInv, PreClaim
<1>3. RowInv'
  BY DEF IInv, CommitEffect, Answer, NoteStall, FinishedRow, Fenced, Writable,
         TypeOK, Row, Local, Maybe, PhaseInv, RowInv, PreClaim, Terminal
<1>4. LostInv'
  BY DEF IInv, CommitEffect, Answer, NoteStall, FinishedRow, Fenced, Writable,
         TypeOK, Row, Local, Maybe, PhaseInv, RowInv, LostInv, PreClaim
<1>5. StallInv'
  BY DEF IInv, CommitEffect, Answer, NoteStall, FinishedRow, Fenced, Writable,
         TypeOK, Row, Local, Maybe, PhaseInv, RowInv, StallInv, PreClaim
<1>6. ReplaysTruthful'
  BY DEF IInv, CommitEffect, Answer, NoteStall, FinishedRow, Fenced, Writable,
         TypeOK, Row, Local, Maybe, PhaseInv, RowInv, ReplaysTruthful, PreClaim,
         Terminal
<1> QED BY <1>1, <1>2, <1>3, <1>4, <1>5, <1>6 DEF IInv

(* A business refusal commits under the fence.                             *)
LEMMA CommitRefusalStep ==
  ASSUME IInv, NEW r \in Requests, CommitRefusal(r)
  PROVE  IInv'
<1>1. TypeOK'
  <2>1. req[r] \in Local /\ "answered" \in Phases /\ "REFUSED" \in Answers
    BY DEF IInv, TypeOK, Phases, Answers
  <2>2. [req[r] EXCEPT !.phase = "answered", !.answer = "REFUSED"] \in Local
    BY <2>1 DEF Local
  <2>3. req' \in [Requests -> Local]
    BY <2>2 DEF IInv, TypeOK, CommitRefusal, Answer
  <2>4. req[r].claim \in Requests /\ record[req[r].claim].state # "ABSENT"
    BY DEF IInv, TypeOK, PhaseInv, Local, Maybe, CommitRefusal
  <2>5. FinishedRow(r, "FAILED_TERMINAL") \in Row
    BY <2>4, FinishedRowType DEF IInv, States
  <2>6. record' \in [Requests -> Row]
    BY <2>5 DEF IInv, TypeOK, CommitRefusal
  <2> QED BY <2>3, <2>4, <2>6 DEF IInv, TypeOK, CommitRefusal, FinishedRow, NoteStall, Row
<1>2. PhaseInv'
  BY DEF IInv, CommitRefusal, Answer, NoteStall, FinishedRow, Fenced, Writable,
         TypeOK, Row, Local, Maybe, PhaseInv, RowInv, PreClaim
<1>3. RowInv'
  BY SMTT(30) DEF IInv, CommitRefusal, Answer, NoteStall, FinishedRow, Fenced, Writable,
         TypeOK, Row, Local, Maybe, PhaseInv, RowInv, PreClaim, Terminal
<1>4. LostInv'
  BY DEF IInv, CommitRefusal, Answer, NoteStall, FinishedRow, Fenced, Writable,
         TypeOK, Row, Local, Maybe, PhaseInv, RowInv, LostInv, PreClaim
<1>5. StallInv'
  BY DEF IInv, CommitRefusal, Answer, NoteStall, FinishedRow, Fenced, Writable,
         TypeOK, Row, Local, Maybe, PhaseInv, RowInv, StallInv, PreClaim
<1>6. ReplaysTruthful'
  BY DEF IInv, CommitRefusal, Answer, NoteStall, FinishedRow, Fenced, Writable,
         TypeOK, Row, Local, Maybe, PhaseInv, RowInv, ReplaysTruthful, PreClaim,
         Terminal
<1> QED BY <1>1, <1>2, <1>3, <1>4, <1>5, <1>6 DEF IInv

(* A failed executor releases its row under the fence.                     *)
LEMMA ReleaseStep ==
  ASSUME IInv, NEW r \in Requests, Release(r, TRUE)
  PROVE  IInv'
<1>1. TypeOK'
  <2>1. req[r] \in Local /\ "answered" \in Phases /\ "UNAVAILABLE" \in Answers
    BY DEF IInv, TypeOK, Phases, Answers
  <2>2. [req[r] EXCEPT !.phase = "answered", !.answer = "UNAVAILABLE"] \in Local
    BY <2>1 DEF Local
  <2>3. req' \in [Requests -> Local]
    BY <2>2 DEF IInv, TypeOK, Release, Answer
  <2>4. req[r].claim \in Requests /\ record[req[r].claim].state # "ABSENT"
    BY DEF IInv, TypeOK, PhaseInv, Local, Maybe, Release
  <2>5. FinishedRow(r, "RELEASED") \in Row
    BY <2>4, FinishedRowType DEF IInv, States
  <2>6. record' \in [Requests -> Row]
    BY <2>5 DEF IInv, TypeOK, Release
  <2> QED BY <2>3, <2>4, <2>6 DEF IInv, TypeOK, Release, FinishedRow, NoteStall, Row
<1>2. PhaseInv'
  BY DEF IInv, Release, Answer, FinishedRow, Fenced, Writable, TypeOK, Row, Local,
         Maybe, PhaseInv, RowInv, PreClaim
<1>3. RowInv'
  BY DEF IInv, Release, Answer, FinishedRow, Fenced, Writable, TypeOK, Row, Local,
         Maybe, PhaseInv, RowInv, PreClaim, Terminal
<1>4. LostInv'
  BY DEF IInv, Release, Answer, FinishedRow, Fenced, Writable, TypeOK, Row, Local,
         Maybe, PhaseInv, RowInv, LostInv, PreClaim
<1>5. StallInv'
  BY DEF IInv, Release, Answer, FinishedRow, Fenced, Writable, TypeOK, Row, Local,
         Maybe, PhaseInv, RowInv, StallInv, PreClaim
<1>6. ReplaysTruthful'
  BY DEF IInv, Release, Answer, FinishedRow, Fenced, Writable, TypeOK, Row, Local,
         Maybe, PhaseInv, RowInv, ReplaysTruthful, PreClaim, Terminal
<1> QED BY <1>1, <1>2, <1>3, <1>4, <1>5, <1>6 DEF IInv

(* Time passes.                                                            *)
LEMMA TickStep ==
  ASSUME IInv, Tick
  PROVE  IInv'
<1>1. TypeOK'
  BY DEF IInv, TypeOK, Tick
<1>2. PhaseInv'
  BY DEF IInv, Tick, TypeOK, Row, Local, Maybe, PhaseInv, RowInv, PreClaim
<1>3. RowInv'
  BY DEF IInv, Tick, TypeOK, Row, Local, Maybe, PhaseInv, RowInv, PreClaim,
         Terminal
<1>4. LostInv'
  BY DEF IInv, Tick, TypeOK, Row, Local, Maybe, PhaseInv, RowInv, LostInv,
         PreClaim
<1>5. StallInv'
  BY DEF IInv, Tick, TypeOK, Row, Local, Maybe, PhaseInv, RowInv, StallInv,
         PreClaim
<1>6. ReplaysTruthful'
  BY DEF IInv, Tick, TypeOK, Row, Local, Maybe, PhaseInv, RowInv, ReplaysTruthful,
         PreClaim, Terminal
<1> QED BY <1>1, <1>2, <1>3, <1>4, <1>5, <1>6 DEF IInv

(* A stuttering step preserves the invariant.                              *)
LEMMA StutterStep == IInv /\ UNCHANGED vars => IInv'
  BY DEF vars, IInv, TypeOK, PhaseInv, RowInv, LostInv, StallInv, ReplaysTruthful

(* Every step of claim() preserves the invariant.                          *)
LEMMA ClaimStep ==
  ASSUME IInv, NEW r \in Requests, Claim(r)
  PROVE  IInv'
<1>1. CASE \E d \in Digests : Begin(r, d)
  BY <1>1, BeginStep
<1>2. CASE ClaimInsert(r)
  BY <1>2, ClaimInsertStep
<1>3. ASSUME NEW g \in Requests, ClaimExpired(r, g)
      PROVE  IInv'
  <2>1. CASE schema = "0004"
    BY <1>3, <2>1, ClaimExpiredStep DEF ClaimExpired
  <2>2. CASE schema # "0004"
    BY <1>3, <2>2, QuietStep DEF ClaimExpired, Answer, Answers
  <2> QED BY <2>1, <2>2
<1>4. ASSUME NEW g \in Requests, ClaimReused(r, g)
      PROVE  IInv'
  BY <1>4, QuietStep DEF ClaimReused, Answer, Answers
<1>5. ASSUME NEW g \in Requests, ClaimReplay(r, g)
      PROVE  IInv'
  BY <1>5, ClaimReplayStep
<1>6. ASSUME NEW g \in Requests, ClaimInProgress(r, g)
      PROVE  IInv'
  BY <1>6, QuietStep DEF ClaimInProgress, Answer, Answers
<1>7. ASSUME NEW g \in Requests, ClaimTakeable(r, g)
      PROVE  IInv'
  BY <1>7, ClaimTakeableStep
<1>8. CASE Supersede(r)
  <2> DEFINE g == req[r].seen
  <2>1. g \in Requests
    BY <1>8 DEF Supersede, IInv, TypeOK, PhaseInv, Local, Maybe
  <2>2. CASE ~record[g].superseded /\ Expired(r, g)
    <3>1. record' = [record EXCEPT ![g].superseded = TRUE, ![r] = FreshRow(r)]
      BY <1>8, <2>2 DEF Supersede
    <3> QED BY <1>8, <2>1, <2>2, <3>1, SupersedeStep DEF Supersede
  <2>3. CASE ~(~record[g].superseded /\ Expired(r, g))
    BY <1>8, <2>3, QuietStep DEF Supersede, Answer, Answers
  <2> QED BY <2>2, <2>3
<1>9. CASE TakeOver(r)
  <2> DEFINE g == req[r].seen
  <2>1. g \in Requests
    BY <1>9 DEF TakeOver, IInv, TypeOK, PhaseInv, Local, Maybe
  <2>2. CASE record[g].token = req[r].seenToken /\ Writable(g)
    <3>1. req' = [req EXCEPT ![r].phase = "executing", ![r].claim = g]
      BY <1>9, <2>2 DEF TakeOver
    <3> QED BY <1>9, <2>1, <2>2, <3>1, TakeOverStep DEF TakeOver
  <2>3. CASE record[g].token # req[r].seenToken
    BY <1>9, <2>3, QuietStep DEF TakeOver, Answer, Answers
  <2>4. CASE record[g].token = req[r].seenToken /\ ~Writable(g)
    BY <1>9, <2>4, QuietStep DEF TakeOver, Answer, Answers
  <2> QED BY <2>2, <2>3, <2>4
<1> QED BY <1>1, <1>2, <1>3, <1>4, <1>5, <1>6, <1>7, <1>8, <1>9 DEF Claim

(* Every step of the governed effect, and a crash, preserves the invariant.*)
LEMMA ExecuteStep ==
  ASSUME IInv, NEW r \in Requests, Execute(r) \/ Crash(r)
  PROVE  IInv'
<1>0. req[r].answer \in Answers
  BY DEF IInv, TypeOK, Local
<1>1. ASSUME NEW acked \in BOOLEAN, CommitEffect(r, acked)
      PROVE  IInv'
  BY <1>1, CommitEffectStep
<1>2. CASE CommitRefusal(r)
  BY <1>2, CommitRefusalStep
<1>3. CASE StaleExecutor(r)
  BY <1>3, QuietStep DEF StaleExecutor, Answer, Answers
<1>4. CASE EffectFails(r)
  <2>1. req' = [req EXCEPT ![r].phase = "releasing", ![r].answer = req[r].answer]
    BY <1>4 DEF EffectFails, IInv, TypeOK, Local
  <2> QED BY <1>0, <1>4, <2>1, QuietStep DEF EffectFails
<1>5. CASE Release(r, TRUE)
  BY <1>5, ReleaseStep
<1>6. CASE Release(r, FALSE)
  BY <1>6, QuietStep DEF Release, Answer, Answers
<1>7. CASE Crash(r)
  <2>1. req' = [req EXCEPT ![r].phase = "crashed", ![r].answer = req[r].answer]
    BY <1>7 DEF Crash, IInv, TypeOK, Local
  <2> QED BY <1>0, <1>7, <2>1, QuietStep DEF Crash
<1> QED BY <1>1, <1>2, <1>3, <1>4, <1>5, <1>6, <1>7 DEF Execute

(* The invariant is inductive.                                             *)
LEMMA NextIInv == IInv /\ [Next]_vars => IInv'
  BY ClaimStep, ExecuteStep, TickStep, StutterStep DEF Next

(* IInv holds in every reachable state, whatever requests, bodies, leases  *)
(* and windows there are.                                                  *)
THEOREM Invariance == Spec => []IInv
<1>1. Init => IInv
  BY InitIInv
<1>2. IInv /\ [Next]_vars => IInv'
  BY NextIInv
<1> QED BY <1>1, <1>2, PTL DEF Spec

(* Rows always satisfy their column types and ck_api_idempotency_state.    *)
THEOREM TypeCorrect == Spec => []TypeOK
<1>1. IInv => TypeOK
  BY DEF IInv
<1> QED BY <1>1, Invariance, PTL

(* A stale executor's effect rolls back: no effect is ever committed by a  *)
(* request that had lost its claim.                                        *)
THEOREM Fencing == Spec => []FencedEffects
<1>1. IInv => FencedEffects
  BY DEF IInv, LostInv, FencedEffects
<1> QED BY <1>1, Invariance, PTL

(* Stored outcomes describe what was committed, in well-formed rows.       *)
THEOREM TruthfulOutcomes == Spec => []OutcomesTruthful
<1>1. IInv => OutcomesTruthful
  <2> SUFFICES ASSUME IInv PROVE OutcomesTruthful
    OBVIOUS
  <2>1. TypeOK /\ RowInv
    BY DEF IInv
  <2>2. ASSUME NEW g \in Requests, record[g].state # "ABSENT",
               record[g].state # "IN_PROGRESS"
        PROVE  /\ record[g].state = "COMPLETED" =>
                     /\ record[g].outcome \in effects
                     /\ req[record[g].outcome].digest = record[g].digest
               /\ record[g].state # "COMPLETED" =>
                     record[g].outcome \notin effects
    <3>1. record[g].outcome = record[g].token
      BY <2>1, <2>2 DEF RowInv
    <3> QED BY <2>1, <2>2, <3>1 DEF RowInv
  <2> QED BY <2>1, <2>2 DEF OutcomesTruthful
<1> QED BY <1>1, Invariance, PTL

(* Replayed answers repeat outcomes of the same body, row and window.      *)
THEOREM TruthfulReplays == Spec => []ReplaysTruthful
<1>1. IInv => ReplaysTruthful
  BY DEF IInv
<1> QED BY <1>1, Invariance, PTL

(* A row's effect is committed at most once, unless an executor stored the *)
(* row's outcome after its own lease had ended.                            *)
THEOREM OnceOnly == Spec => []OnceUnlessStalled
<1>1. IInv => OnceUnlessStalled
  <2> SUFFICES ASSUME IInv, NEW r \in effects, NEW q \in effects,
                      req[r].claim = req[q].claim, req[r].claim \notin stalled
               PROVE  r = q
    BY DEF OnceUnlessStalled
  <2>1. req[r].claim \in Requests
    BY DEF IInv, TypeOK, PhaseInv, Local, Maybe
  <2> QED BY <2>1 DEF IInv, TypeOK, StallInv
<1> QED BY <1>1, Invariance, PTL

(* A row r has not inserted yet is absent, so inserting it changes no      *)
(* superseded and no terminal row.                                         *)
LEMMA InsertedRowAbsent ==
  ASSUME IInv, NEW r \in Requests, req[r].phase \in PreClaim
  PROVE  record[r].state = "ABSENT" /\ ~record[r].superseded
  BY DEF IInv, PhaseInv, NoRow

(* A superseded row never changes and gains no effect.                     *)
THEOREM Sealing == Spec => SupersededSealed
<1> DEFINE Sealed == \A g \in Requests : record[g].superseded =>
                        /\ record'[g] = record[g]
                        /\ \A r \in effects' \ effects : req[r].claim # g
<1>1. IInv /\ [Next]_vars => [Sealed]_vars
  <2> SUFFICES ASSUME IInv, Next PROVE Sealed
    OBVIOUS
  <2>1. CASE Tick
    BY <2>1 DEF Tick
  <2>2. ASSUME NEW r \in Requests, Claim(r) PROVE Sealed
    <3>1. req[r].phase \in PreClaim /\ effects' = effects
      BY <2>2 DEF Claim, Begin, ClaimInsert, ClaimExpired, ClaimReused, ClaimReplay,
                  ClaimInProgress, ClaimTakeable, Supersede, TakeOver, PreClaim
    <3>2. ASSUME NEW g \in Requests, record[g].superseded PROVE record'[g] = record[g]
      BY <2>2, <3>1, <3>2, InsertedRowAbsent
         DEF Claim, Begin, ClaimInsert, ClaimExpired, ClaimReused, ClaimReplay,
             ClaimInProgress, ClaimTakeable, Supersede, TakeOver, Writable, IInv, TypeOK
    <3> QED BY <3>1, <3>2
  <2>3. ASSUME NEW r \in Requests, Execute(r) \/ Crash(r) PROVE Sealed
    BY <2>3 DEF Execute, CommitEffect, CommitRefusal, StaleExecutor, EffectFails,
                Release, Crash, Writable, IInv, TypeOK
  <2> QED BY <2>1, <2>2, <2>3 DEF Next
<1> QED BY <1>1, Invariance, PTL DEF Spec, SupersededSealed

(* A terminal outcome stays, unless it was stored after the lease.         *)
THEOREM TerminalForever == Spec => TerminalUnlessStalled
<1> DEFINE Kept == \A g \in Requests : record[g].state \in Terminal /\ g \notin stalled =>
                      /\ record'[g].state = record[g].state
                      /\ record'[g].outcome = record[g].outcome
<1>1. IInv /\ [Next]_vars => [Kept]_vars
  <2> SUFFICES ASSUME IInv, Next PROVE Kept
    OBVIOUS
  <2>1. CASE Tick
    BY <2>1 DEF Tick
  <2>2. ASSUME NEW r \in Requests, Claim(r) PROVE Kept
    <3>1. CASE TakeOver(r)
      BY <3>1 DEF TakeOver, IInv, TypeOK, PhaseInv, StallInv, Terminal, Local, Maybe
    <3>2. CASE Supersede(r)
      <4>1. record[r].state \notin Terminal
        BY <3>2, InsertedRowAbsent DEF Supersede, PreClaim, Terminal
      <4>2. ASSUME NEW g \in Requests, g # r
            PROVE  record'[g].state = record[g].state /\ record'[g].outcome = record[g].outcome
        <5>1. record[g] \in Row
          BY DEF IInv, TypeOK
        <5>2. record'[g] \in {record[g], [record[g] EXCEPT !.superseded = TRUE]}
          BY <3>2, <4>2 DEF Supersede, IInv, TypeOK
        <5> QED BY <5>1, <5>2 DEF Row
      <4> QED BY <4>1, <4>2
    <3>3. CASE ClaimInsert(r)
      BY <3>3, InsertedRowAbsent DEF ClaimInsert, PreClaim, Terminal, IInv, TypeOK
    <3>4. CASE ~TakeOver(r) /\ ~Supersede(r) /\ ~ClaimInsert(r)
      BY <2>2, <3>4 DEF Claim, Begin, ClaimExpired, ClaimReused, ClaimReplay,
                        ClaimInProgress, ClaimTakeable
    <3> QED BY <3>1, <3>2, <3>3, <3>4
  <2>3. ASSUME NEW r \in Requests, Execute(r) \/ Crash(r) PROVE Kept
    BY <2>3 DEF Execute, CommitEffect, CommitRefusal, StaleExecutor, EffectFails,
                Release, Crash, Fenced, Terminal, IInv, TypeOK
  <2> QED BY <2>1, <2>2, <2>3 DEF Next
<1> QED BY <1>1, Invariance, PTL DEF Spec, TerminalUnlessStalled
=============================================================================

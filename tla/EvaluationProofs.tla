-------------------------- MODULE EvaluationProofs --------------------------
(***************************************************************************)
(* Theorems about Evaluation, for every set of evaluations, processes,     *)
(* workers, bundles and envelopes.  The invariant IInv is inductive; the   *)
(* steps are grouped by what they write: a request, a worker, or rows.     *)
(***************************************************************************)
EXTENDS Evaluation, SequenceTheorems, TLAPS

USE WorkersAssumption, FaultsAssumption, EvaluationNoneAssumption, ResultNoneAssumption

(* The local state of a creating request is still true of the database     *)
(* when it inserts the row: the envelope it derived is the stored one, and *)
(* the predecessor it read without a lock has not changed its outcome.     *)
RequestInv ==
    \A e \in Evaluations : LET r == request[e] IN
        /\ r.phase # "done" => evaluation[e] = NoRow
        /\ r.phase \in {"storing", "inserting"} => r.envelope # None /\ r.bundle # None
        /\ r.phase = "inserting" => r.envelope = envelope
        /\ r.phase \in {"deriving", "storing", "inserting"} =>
              /\ r.origin = "INITIAL" <=> r.predecessor = None
              /\ r.predecessor # None =>
                    /\ Settled(evaluation[r.predecessor].status)
                    /\ r.origin = "RETRY_AFTER_FAILURE" <=>
                          evaluation[r.predecessor].status = "FAILED_INFRASTRUCTURE"

(* What a row holds in each status: nothing before it is inserted, no pin  *)
(* and no token before it is claimed, then the pin of its own bundle.      *)
RowInv ==
    \A e \in Evaluations : LET row == evaluation[e] IN
        /\ row.status = "ABSENT" => row = NoRow
        /\ row.status # "ABSENT" => row.bundle # None
        /\ row.status \in {"REQUESTED", "FAILED_PRECONDITION"} => row.pin = None /\ row.token = None
        /\ row.status \notin {"ABSENT", "REQUESTED", "FAILED_PRECONDITION"} => row.pin = row.bundle

(* A worker works on an evaluation that was inserted.                      *)
WorkerInv ==
    \A w \in Workers : worker[w].phase # "idle" =>
        /\ worker[w].evaluation # None
        /\ evaluation[worker[w].evaluation].status # "ABSENT"

(* Why a blocked evaluation stays blocked: its bundle is withdrawn and no  *)
(* worker is past the check of the bundle.                                 *)
BlockedInv ==
    \A e \in blocked :
        /\ evaluation[e].status \in {"REQUESTED", "FAILED_PRECONDITION"}
        /\ evaluation[e].bundle \notin eligible
        /\ \A w \in Workers : ~At(w, "claiming", e)

IInv == /\ TypeOK /\ OneEnvelope /\ OriginsStable /\ ResultsFenced /\ AuditAccounts
        /\ RequestInv /\ RowInv /\ WorkerInv /\ BlockedInv

(* Definitions that only name sets of values.                              *)
USE DEF Failed, Statuses, Origins, Events, Settled

(* The initial states satisfy the inductive invariant.                     *)
LEMMA InitIInv == Init => IInv
<1> SUFFICES ASSUME Init PROVE IInv
  OBVIOUS
<1>1. TypeOK
  <2>1. NoRow \in Row /\ NoRow.status = "ABSENT"
    BY DEF NoRow, Row
  <2>2. [phase |-> "idle", origin |-> None, predecessor |-> None,
         envelope |-> None, bundle |-> None] \in Request
    BY DEF Request
  <2>3. IdleWorker \in Worker
    BY DEF IdleWorker, Worker
  <2> QED BY <2>1, <2>2, <2>3 DEF Init, TypeOK
<1>2. OneEnvelope /\ OriginsStable /\ ResultsFenced /\ AuditAccounts
  BY DEF Init, OneEnvelope, OriginsStable, ResultsFenced, AuditAccounts, NoRow, Trail
<1>3. RequestInv /\ RowInv /\ WorkerInv /\ BlockedInv
  BY DEF Init, RequestInv, RowInv, WorkerInv, BlockedInv, NoRow, IdleWorker
<1> QED BY <1>1, <1>2, <1>3 DEF IInv

(* A step that writes only a request's local state: the tables, and so the *)
(* invariants over them, are as before.                                    *)
LEMMA RequestStep ==
  ASSUME IInv, RequestInv', request' \in [Evaluations -> Request],
         envelope' \in Envelopes \cup {None},
         envelope # None => envelope' = envelope,
         faults' \in 0..MAX_FAULTS,
         UNCHANGED <<evaluation, result, audit, worker, running, eligible, blocked>>
  PROVE  IInv'
<1>1. TypeOK'
  BY DEF IInv, TypeOK
<1>2. OneEnvelope' /\ OriginsStable' /\ ResultsFenced' /\ AuditAccounts'
  BY DEF IInv, OneEnvelope, OriginsStable, ResultsFenced, AuditAccounts
<1>3. RowInv' /\ WorkerInv' /\ BlockedInv'
  BY DEF IInv, RowInv, WorkerInv, BlockedInv, At
<1> QED BY <1>1, <1>2, <1>3 DEF IInv

(* A step that writes only workers' local state: no worker comes to the    *)
(* claim but by a check that found the bundle eligible.                    *)
LEMMA WorkerStep ==
  ASSUME IInv, WorkerInv', worker' \in [Workers -> Worker],
         running' \in [Processes -> SUBSET Evaluations],
         faults' \in 0..MAX_FAULTS,
         \A w \in Workers, e \in Evaluations :
            At(w, "claiming", e)' => At(w, "claiming", e) \/ evaluation[e].bundle \in eligible,
         UNCHANGED <<request, envelope, evaluation, result, audit, eligible, blocked>>
  PROVE  IInv'
<1>1. TypeOK'
  BY DEF IInv, TypeOK
<1>2. OneEnvelope' /\ OriginsStable' /\ ResultsFenced' /\ AuditAccounts'
  BY DEF IInv, OneEnvelope, OriginsStable, ResultsFenced, AuditAccounts
<1>3. RequestInv' /\ RowInv'
  BY DEF IInv, RequestInv, RowInv
<1>4. BlockedInv'
  BY DEF IInv, TypeOK, BlockedInv
<1> QED BY <1>1, <1>2, <1>3, <1>4 DEF IInv

(* What every step after the insertion leaves of a row: its origin,        *)
(* predecessor, envelope and bundle, and its status once that is settled.  *)
Advances ==
    \A d \in Evaluations :
        /\ evaluation'[d].origin = evaluation[d].origin
        /\ evaluation'[d].predecessor = evaluation[d].predecessor
        /\ evaluation'[d].envelope = evaluation[d].envelope
        /\ evaluation'[d].bundle = evaluation[d].bundle
        /\ evaluation[d].status = "ABSENT" => evaluation'[d] = evaluation[d]
        /\ evaluation[d].status # "ABSENT" => evaluation'[d].status # "ABSENT"
        /\ Settled(evaluation[d].status) => evaluation'[d].status = evaluation[d].status

(* A step that advances rows keeps what was read of them without a lock.   *)
LEMMA AdvanceStep ==
  ASSUME IInv, Advances, UNCHANGED <<request, envelope>>
  PROVE  OneEnvelope' /\ OriginsStable' /\ RequestInv'
<1>1. OneEnvelope'
  BY DEF IInv, OneEnvelope, Advances
<1>2. OriginsStable'
  <2> SUFFICES ASSUME NEW e \in Evaluations, evaluation'[e].predecessor # None
               PROVE  /\ evaluation'[evaluation'[e].predecessor].status \in Failed \cup {"COMPLETED"}
                      /\ evaluation'[e].origin = "RETRY_AFTER_FAILURE" <=>
                            evaluation'[evaluation'[e].predecessor].status = "FAILED_INFRASTRUCTURE"
    BY DEF OriginsStable
  <2>1. evaluation[e].predecessor \in Evaluations
    BY DEF IInv, TypeOK, Row, Advances
  <2> QED BY <2>1 DEF IInv, OriginsStable, Advances
<1>3. RequestInv'
  <2> SUFFICES ASSUME NEW e \in Evaluations
               PROVE  LET r == request[e] IN
        /\ r.phase # "done" => evaluation'[e] = NoRow
        /\ r.phase \in {"storing", "inserting"} => r.envelope # None /\ r.bundle # None
        /\ r.phase = "inserting" => r.envelope = envelope
        /\ r.phase \in {"deriving", "storing", "inserting"} =>
              /\ r.origin = "INITIAL" <=> r.predecessor = None
              /\ r.predecessor # None =>
                    /\ Settled(evaluation'[r.predecessor].status)
                    /\ r.origin = "RETRY_AFTER_FAILURE" <=>
                          evaluation'[r.predecessor].status = "FAILED_INFRASTRUCTURE"
    BY DEF RequestInv
  <2>1. request[e].predecessor \in Evaluations \cup {None}
    BY DEF IInv, TypeOK, Request
  <2>2. evaluation[e] = NoRow => evaluation'[e] = NoRow
    BY DEF Advances, NoRow
  <2> QED BY <2>1, <2>2 DEF IInv, RequestInv, Advances
<1> QED BY <1>1, <1>2, <1>3

-----------------------------------------------------------------------------
(* Steps of the requests.                                                  *)

(* The claim reads the predecessor and derives the origin.                 *)
LEMMA ReceiveStep ==
  ASSUME IInv, NEW e \in Evaluations, NEW p \in Evaluations \cup {None},
         NEW ai \in BOOLEAN, Receive(e, p, ai)
  PROVE  IInv'
<1>1. /\ Origin(p, ai) \in Origins
      /\ Origin(p, ai) = "INITIAL" <=> p = None
      /\ p # None => (Origin(p, ai) = "RETRY_AFTER_FAILURE" <=>
                        evaluation[p].status = "FAILED_INFRASTRUCTURE")
  BY DEF Origin
<1>2. request' \in [Evaluations -> Request]
  <2>1. request[e] \in Request
    BY DEF IInv, TypeOK
  <2>2. [request[e] EXCEPT !.phase = "deriving", !.origin = Origin(p, ai),
                           !.predecessor = p] \in Request
    BY <1>1, <2>1 DEF Request
  <2> QED BY <2>2 DEF IInv, TypeOK, Receive
<1>3. RequestInv'
  BY <1>1, <1>2 DEF IInv, TypeOK, Request, RequestInv, Receive
<1> QED BY <1>2, <1>3, RequestStep DEF IInv, TypeOK, Receive

(* The extraction's envelope is compared with the stored one.              *)
LEMMA DeriveStep ==
  ASSUME IInv, NEW e \in Evaluations, NEW b \in Bundles, NEW v \in Envelopes,
         Derive(e, b, v)
  PROVE  IInv'
<1> DEFINE next == CASE envelope = None -> "storing"
                     [] envelope = v -> "inserting"
                     [] OTHER -> "done"
<1>1. /\ next \in {"storing", "inserting", "done"}
      /\ next = "inserting" => envelope = v
  BY Zenon
<1>2. request' = [request EXCEPT ![e].bundle = b, ![e].envelope = v, ![e].phase = next]
  BY Zenon DEF Derive
<1> HIDE DEF next
<1>3. request' \in [Evaluations -> Request]
  <2>1. request[e] \in Request
    BY DEF IInv, TypeOK
  <2>2. [request[e] EXCEPT !.bundle = b, !.envelope = v, !.phase = next] \in Request
    BY <1>1, <2>1 DEF Request
  <2> QED BY <1>2, <2>2 DEF IInv, TypeOK
<1>4. RequestInv'
  <2>1. UNCHANGED <<envelope, evaluation>> /\ request[e].phase = "deriving"
    BY DEF Derive
  <2> QED BY <1>1, <1>2, <2>1 DEF IInv, TypeOK, Request, RequestInv
<1>5. /\ UNCHANGED <<evaluation, result, audit, worker, running, eligible, blocked>>
      /\ UNCHANGED <<envelope, faults>>
  BY DEF Derive
<1> QED BY <1>3, <1>4, <1>5, RequestStep DEF IInv, TypeOK

(* The first request to come stores the envelope, the others compare.      *)
LEMMA StoreEnvelopeStep ==
  ASSUME IInv, NEW e \in Evaluations, StoreEnvelope(e)
  PROVE  IInv'
<1>1. request' \in [Evaluations -> Request] /\ envelope' \in Envelopes \cup {None}
  <2>1. request[e] \in Request /\ envelope \in Envelopes \cup {None}
    BY DEF IInv, TypeOK
  <2>2. \A ph \in {"inserting", "done"} : [request[e] EXCEPT !.phase = ph] \in Request
    BY <2>1 DEF Request
  <2>3. request[e].envelope \in Envelopes \cup {None}
    BY <2>1 DEF Request
  <2> QED BY <2>1, <2>2, <2>3 DEF IInv, TypeOK, StoreEnvelope
<1>2. RequestInv'
  BY DEF IInv, TypeOK, Request, RequestInv, StoreEnvelope
<1> QED BY <1>1, <1>2, RequestStep DEF IInv, TypeOK, StoreEnvelope

(* A creation that commits nothing.                                        *)
LEMMA CreateFailsStep ==
  ASSUME IInv, NEW e \in Evaluations, CreateFails(e)
  PROVE  IInv'
<1>1. request' \in [Evaluations -> Request] /\ faults' \in 0..MAX_FAULTS
  <2>1. request[e] \in Request
    BY DEF IInv, TypeOK
  <2>2. [request[e] EXCEPT !.phase = "done"] \in Request
    BY <2>1 DEF Request
  <2> QED BY <2>2 DEF IInv, TypeOK, CreateFails, Fault
<1>2. RequestInv'
  BY DEF IInv, TypeOK, Request, RequestInv, CreateFails
<1> QED BY <1>1, <1>2, RequestStep DEF IInv, TypeOK, CreateFails

(* A pair is what appending to a single event yields.                      *)
LEMMA AppendToOne == ASSUME NEW a, NEW b PROVE Append(<<a>>, b) = <<a, b>>
<1> DEFINE t == Append(<<a>>, b)
<1>1. /\ <<a>> \in Seq({a, b}) /\ Len(<<a>>) = 1 /\ <<a>>[1] = a
      /\ <<a, b>> \in Seq({a, b}) /\ Len(<<a, b>>) = 2
      /\ <<a, b>>[1] = a /\ <<a, b>>[2] = b
  OBVIOUS
<1>2. t \in Seq({a, b}) /\ Len(t) = 2 /\ t[1] = a /\ t[2] = b
  BY <1>1, AppendProperties
<1> HIDE DEF t
<1>3. \A i \in 1..2 : t[i] = <<a, b>>[i]
  BY <1>1, <1>2
<1>4. t = <<a, b>>
  BY <1>1, <1>2, <1>3, SeqEqual
<1> QED BY <1>4 DEF t

(* A triple is an event followed by a pair.                                *)
LEMMA ConcatToOne == ASSUME NEW a, NEW b, NEW c PROVE <<a>> \o <<b, c>> = <<a, b, c>>
<1> DEFINE t == <<a>> \o <<b, c>>
<1>1. /\ <<a>> \in Seq({a, b, c}) /\ <<b, c>> \in Seq({a, b, c})
      /\ <<a, b, c>> \in Seq({a, b, c}) /\ Len(<<a, b, c>>) = 3
  OBVIOUS
<1>2. t \in Seq({a, b, c}) /\ Len(t) = 3 /\ t[1] = a /\ t[2] = b /\ t[3] = c
  BY <1>1, ConcatProperties
<1>3. \A i \in 1..3 : t[i] = <<a, b, c>>[i]
  BY <1>2
<1> HIDE DEF t
<1>4. t = <<a, b, c>>
  BY <1>1, <1>2, <1>3, SeqEqual
<1> QED BY <1>4 DEF t

(* What each step appends to the audit trail is what the trail of the next *)
(* status has more.                                                        *)
LEMMA TrailSteps ==
  /\ Append(Trail("ABSENT"), "EVALUATION_STARTED") = Trail("REQUESTED")
  /\ Trail("RUNNING") = Trail("REQUESTED")
  /\ \A f \in Failed : Append(Trail("REQUESTED"), "EVALUATION_FAILED") = Trail(f)
  /\ Trail("RUNNING") \o <<"RESULT_PERSISTED", "EVALUATION_COMPLETED">> = Trail("COMPLETED")
  /\ \A s \in Statuses : Trail(s) \in Seq(Events)
<1>1. /\ Trail("ABSENT") = <<>>
      /\ Trail("REQUESTED") = <<"EVALUATION_STARTED">>
      /\ Trail("RUNNING") = <<"EVALUATION_STARTED">>
      /\ \A f \in Failed : Trail(f) = <<"EVALUATION_STARTED", "EVALUATION_FAILED">>
      /\ Trail("COMPLETED") = <<"EVALUATION_STARTED", "RESULT_PERSISTED",
                                "EVALUATION_COMPLETED">>
  BY Zenon DEF Trail
<1>2. Append(<<>>, "EVALUATION_STARTED") = <<"EVALUATION_STARTED">>
  OBVIOUS
<1>3. Append(<<"EVALUATION_STARTED">>, "EVALUATION_FAILED") =
         <<"EVALUATION_STARTED", "EVALUATION_FAILED">>
  BY AppendToOne
<1>4. <<"EVALUATION_STARTED">> \o <<"RESULT_PERSISTED", "EVALUATION_COMPLETED">> =
         <<"EVALUATION_STARTED", "RESULT_PERSISTED", "EVALUATION_COMPLETED">>
  BY ConcatToOne
<1>5. \A s \in Statuses : Trail(s) \in Seq(Events)
  <2>1. /\ <<>> \in Seq(Events)
        /\ <<"EVALUATION_STARTED">> \in Seq(Events)
        /\ <<"EVALUATION_STARTED", "EVALUATION_FAILED">> \in Seq(Events)
        /\ <<"EVALUATION_STARTED", "RESULT_PERSISTED", "EVALUATION_COMPLETED">> \in Seq(Events)
    OBVIOUS
  <2> QED BY <1>1, <2>1
<1> QED BY <1>1, <1>2, <1>3, <1>4, <1>5

(* The row is inserted as the request derived it, and nobody has looked at *)
(* it yet.                                                                 *)
LEMMA InsertStep ==
  ASSUME IInv, NEW e \in Evaluations, Insert(e)
  PROVE  IInv'
<1> DEFINE row == [NoRow EXCEPT !.status = "REQUESTED", !.bundle = request[e].bundle,
                     !.origin = request[e].origin, !.envelope = request[e].envelope,
                     !.predecessor = request[e].predecessor]
<1>1. /\ request[e] \in Request /\ request[e].phase = "inserting"
      /\ evaluation[e] = NoRow /\ evaluation[e].status = "ABSENT"
      /\ request[e].envelope = envelope /\ envelope # None /\ request[e].bundle # None
      /\ result[e] = None
  BY DEF IInv, TypeOK, RequestInv, ResultsFenced, Insert, NoRow
<1>2. /\ row \in Row /\ row.status = "REQUESTED" /\ row.pin = None /\ row.token = None
      /\ row.bundle = request[e].bundle /\ row.origin = request[e].origin
      /\ row.envelope = request[e].envelope /\ row.predecessor = request[e].predecessor
  <2> DEFINE asked == request[e]
  <2>1. row = [status |-> "REQUESTED", token |-> None, lease |-> "NULL", pin |-> None,
               bundle |-> asked.bundle, origin |-> asked.origin,
               predecessor |-> asked.predecessor, envelope |-> asked.envelope]
    <3>1. row = [NoRow EXCEPT !.status = "REQUESTED", !.bundle = asked.bundle,
                     !.origin = asked.origin, !.envelope = asked.envelope,
                     !.predecessor = asked.predecessor]
      OBVIOUS
    <3> HIDE DEF row, asked
    <3> QED BY <3>1 DEF NoRow
  <2> HIDE DEF row
  <2>2. /\ asked.bundle \in Bundles \cup {None} /\ asked.origin \in Origins \cup {None}
        /\ asked.predecessor \in Evaluations \cup {None}
        /\ asked.envelope \in Envelopes \cup {None}
    BY <1>1 DEF Request
  <2>3. "REQUESTED" \in Statuses
    BY DEF Statuses
  <2> HIDE DEF asked
  <2>4. row \in Row
    BY <2>1, <2>2, <2>3 DEF Row
  <2>5. /\ row.status = "REQUESTED" /\ row.pin = None /\ row.token = None
        /\ row.bundle = asked.bundle /\ row.origin = asked.origin
        /\ row.envelope = asked.envelope /\ row.predecessor = asked.predecessor
    BY <2>1
  <2> QED BY <2>4, <2>5 DEF asked
<1>3. evaluation' = [evaluation EXCEPT ![e] = row]
  BY DEF Insert
<1> HIDE DEF row
<1>4. \A d \in Evaluations : evaluation'[d] = IF d = e THEN row ELSE evaluation[d]
  BY <1>3 DEF IInv, TypeOK
<1>5. UNCHANGED <<envelope, result, worker, running, eligible, faults>>
  BY DEF Insert
<1>6. /\ request' \in [Evaluations -> Request] /\ request'[e].phase = "done"
      /\ \A d \in Evaluations : d # e => request'[d] = request[d]
  <2>1. [request[e] EXCEPT !.phase = "done"] \in Request
    BY <1>1 DEF Request
  <2> QED BY <1>1, <2>1 DEF IInv, TypeOK, Insert, Request
<1>7. AuditAccounts' /\ audit' \in [Evaluations -> Seq(Events)]
  <2>1. audit[e] = Trail("ABSENT")
    BY <1>1 DEF IInv, AuditAccounts
  <2>2. audit' = [audit EXCEPT ![e] = Trail("REQUESTED")]
    BY <2>1, TrailSteps DEF Insert
  <2> QED BY <1>2, <1>4, <2>2, TrailSteps DEF IInv, TypeOK, AuditAccounts
<1>8. TypeOK'
  <2>1. evaluation' \in [Evaluations -> Row]
    BY <1>2, <1>3 DEF IInv, TypeOK
  <2>2. blocked' \subseteq Evaluations
    BY DEF IInv, TypeOK, Insert
  <2>3. row.origin = "INITIAL" <=> row.predecessor = None
    BY <1>1, <1>2 DEF IInv, RequestInv
  <2>4. \A d \in Evaluations : LET r == evaluation'[d] IN
          /\ r.status = "RUNNING" => r.token # None
          /\ r.status \in Failed => r.token = None
          /\ r.status \notin {"ABSENT", "REQUESTED", "FAILED_PRECONDITION"} => r.pin # None
          /\ r.status # "ABSENT" => (r.origin = "INITIAL" <=> r.predecessor = None)
    <3> DEFINE Fits(r) == /\ r.status = "RUNNING" => r.token # None
                          /\ r.status \in Failed => r.token = None
                          /\ r.status \notin {"ABSENT", "REQUESTED", "FAILED_PRECONDITION"} =>
                                r.pin # None
                          /\ r.status # "ABSENT" => (r.origin = "INITIAL" <=> r.predecessor = None)
    <3>1. \A d \in Evaluations : Fits(evaluation[d])
      BY DEF IInv, TypeOK
    <3>2. Fits(row)
      BY <1>2, <2>3 DEF Failed
    <3> HIDE DEF Fits
    <3>3. \A d \in Evaluations : Fits(evaluation'[d])
      BY <1>4, <3>1, <3>2
    <3> QED BY <3>3 DEF Fits
  <2> QED BY <1>5, <1>6, <1>7, <2>1, <2>2, <2>4 DEF IInv, TypeOK
<1>9. OneEnvelope' /\ ResultsFenced'
  BY <1>1, <1>2, <1>4, <1>5 DEF IInv, OneEnvelope, ResultsFenced
<1>10. OriginsStable'
  <2> SUFFICES ASSUME NEW d \in Evaluations, evaluation'[d].predecessor # None
               PROVE  /\ evaluation'[evaluation'[d].predecessor].status \in Failed \cup {"COMPLETED"}
                      /\ evaluation'[d].origin = "RETRY_AFTER_FAILURE" <=>
                            evaluation'[evaluation'[d].predecessor].status = "FAILED_INFRASTRUCTURE"
    BY DEF OriginsStable
  <2>1. evaluation'[d].predecessor \in Evaluations
    BY <1>8 DEF TypeOK, Row
  <2>2. evaluation'[d].predecessor # e
    BY <1>1, <1>2, <1>4 DEF IInv, OriginsStable, RequestInv
  <2> QED BY <1>1, <1>2, <1>4, <2>1, <2>2 DEF IInv, OriginsStable, RequestInv
<1>11. RequestInv'
  <2> SUFFICES ASSUME NEW d \in Evaluations, d # e
               PROVE  LET r == request[d] IN
        /\ r.phase # "done" => evaluation'[d] = NoRow
        /\ r.phase \in {"storing", "inserting"} => r.envelope # None /\ r.bundle # None
        /\ r.phase = "inserting" => r.envelope = envelope
        /\ r.phase \in {"deriving", "storing", "inserting"} =>
              /\ r.origin = "INITIAL" <=> r.predecessor = None
              /\ r.predecessor # None =>
                    /\ Settled(evaluation'[r.predecessor].status)
                    /\ r.origin = "RETRY_AFTER_FAILURE" <=>
                          evaluation'[r.predecessor].status = "FAILED_INFRASTRUCTURE"
    BY <1>5, <1>6 DEF RequestInv
  <2>1. request[d].predecessor \in Evaluations \cup {None}
    BY DEF IInv, TypeOK, Request
  <2> QED BY <1>1, <1>4, <2>1 DEF IInv, RequestInv
<1>12. RowInv' /\ WorkerInv'
  <2>1. RowInv'
    BY <1>1, <1>2, <1>4 DEF IInv, RowInv
  <2>2. \A w \in Workers : worker[w].evaluation \in Evaluations \cup {None}
    BY DEF IInv, TypeOK, Worker
  <2> QED BY <1>2, <1>4, <1>5, <2>1, <2>2 DEF IInv, WorkerInv
<1>13. BlockedInv'
  <2>1. \A w \in Workers : ~At(w, "claiming", e)
    BY <1>1 DEF IInv, WorkerInv, At
  <2>2. blocked' = IF request[e].bundle \in eligible THEN blocked ELSE blocked \cup {e}
    BY DEF Insert
  <2>3. e \notin blocked
    BY <1>1 DEF IInv, BlockedInv
  <2> QED BY <1>2, <1>4, <1>5, <2>1, <2>2, <2>3 DEF IInv, TypeOK, BlockedInv, At
<1> QED BY <1>7, <1>8, <1>9, <1>10, <1>11, <1>12, <1>13 DEF IInv

-----------------------------------------------------------------------------
(* Steps of the workers that write no row.                                 *)

(* The finally clause of dispatch makes the one worker idle.               *)
LEMMA DoneWorker ==
  ASSUME IInv, NEW w \in Workers, Done(w)
  PROVE  /\ worker' \in [Workers -> Worker]
         /\ running' \in [Processes -> SUBSET Evaluations]
         /\ \A v \in Workers : worker'[v] = IF v = w THEN IdleWorker ELSE worker[v]
<1>1. IdleWorker \in Worker
  BY DEF IdleWorker, Worker
<1>2. w[1] \in Processes
  OBVIOUS
<1> QED BY <1>1, <1>2 DEF IInv, TypeOK, Done

(* A worker that goes on keeps its evaluation.                             *)
LEMMA GotoWorker ==
  ASSUME IInv, NEW w \in Workers,
         NEW ph \in {"idle", "reading", "checking", "refused", "claiming", "computing",
                     "computed", "rejected", "unsaved"}, Goto(w, ph)
  PROVE  /\ worker' \in [Workers -> Worker]
         /\ worker'[w].phase = ph /\ worker'[w].evaluation = worker[w].evaluation
         /\ \A v \in Workers : v # w => worker'[v] = worker[v]
<1>1. worker[w] \in Worker
  BY DEF IInv, TypeOK
<1>2. [worker[w] EXCEPT !.phase = ph] \in Worker
  BY <1>1 DEF Worker
<1> QED BY <1>1, <1>2 DEF IInv, TypeOK, Goto, Worker

(* A step that only ends a worker's task.                                  *)
LEMMA DoneStep ==
  ASSUME IInv, NEW w \in Workers, Done(w), faults' \in 0..MAX_FAULTS,
         UNCHANGED <<request, envelope, evaluation, result, audit, eligible, blocked>>
  PROVE  IInv'
<1>1. WorkerInv'
  BY DoneWorker DEF IInv, WorkerInv, IdleWorker
<1>2. \A v \in Workers, e \in Evaluations : At(v, "claiming", e)' => At(v, "claiming", e)
  BY DoneWorker DEF At, IdleWorker
<1> QED BY <1>1, <1>2, DoneWorker, WorkerStep

(* A step that only moves a worker on.                                     *)
LEMMA GotoStep ==
  ASSUME IInv, NEW w \in Workers, worker[w].phase # "idle",
         NEW ph \in {"checking", "refused", "claiming", "computing", "computed",
                     "rejected", "unsaved"}, Goto(w, ph),
         ph = "claiming" => evaluation[worker[w].evaluation].bundle \in eligible,
         faults' \in 0..MAX_FAULTS,
         UNCHANGED <<request, envelope, evaluation, result, audit, running, eligible, blocked>>
  PROVE  IInv'
<1>1. WorkerInv'
  BY GotoWorker DEF IInv, WorkerInv
<1>2. \A v \in Workers, e \in Evaluations :
         At(v, "claiming", e)' => At(v, "claiming", e) \/ evaluation[e].bundle \in eligible
  BY GotoWorker DEF At
<1> QED BY <1>1, <1>2, GotoWorker, WorkerStep DEF IInv, TypeOK

(* A worker is given a REQUESTED evaluation.                               *)
LEMMA DispatchStep ==
  ASSUME IInv, NEW w \in Workers, NEW e \in Evaluations, Dispatch(w, e)
  PROVE  IInv'
<1>1. [phase |-> "reading", evaluation |-> e] \in Worker /\ w[1] \in Processes
  BY DEF Worker
<1>2. /\ worker' \in [Workers -> Worker]
      /\ running' \in [Processes -> SUBSET Evaluations]
      /\ \A v \in Workers : worker'[v] = IF v = w THEN [phase |-> "reading", evaluation |-> e]
                                                   ELSE worker[v]
  BY <1>1 DEF IInv, TypeOK, Dispatch
<1>3. WorkerInv'
  BY <1>2 DEF IInv, WorkerInv, Dispatch
<1>4. \A v \in Workers, d \in Evaluations : At(v, "claiming", d)' => At(v, "claiming", d)
  BY <1>2 DEF At
<1> QED BY <1>2, <1>3, <1>4, WorkerStep DEF IInv, TypeOK, Dispatch

(* The reads, the checks, the kernel's run and every way in which a        *)
(* worker's task ends without a write.                                     *)
LEMMA ReadSteps ==
  ASSUME IInv, NEW w \in Workers, NEW e \in Evaluations, NEW b \in BOOLEAN,
         \/ ReadRow(w, e, b) \/ NotRequested(w, e) \/ CheckBundle(w, e, b)
         \/ ClaimedElsewhere(w, e) \/ Compute(w, e, b) \/ Stale(w, e)
         \/ CompleteFails(w, e) \/ RunFails(w)
  PROVE  IInv'
<1>0. faults \in 0..MAX_FAULTS /\ (Fault => faults' \in 0..MAX_FAULTS)
  BY DEF IInv, TypeOK, Fault
<1>1. CASE ReadRow(w, e, b)
  BY <1>0, <1>1, GotoStep DEF ReadRow, At
<1>2. CASE NotRequested(w, e)
  BY <1>0, <1>2, DoneStep DEF NotRequested
<1>3. CASE CheckBundle(w, e, b)
  BY <1>0, <1>3, GotoStep DEF CheckBundle, At
<1>4. CASE ClaimedElsewhere(w, e)
  BY <1>0, <1>4, DoneStep DEF ClaimedElsewhere
<1>5. CASE Compute(w, e, b)
  BY <1>0, <1>5, GotoStep DEF Compute, At
<1>6. CASE Stale(w, e)
  BY <1>0, <1>6, DoneStep DEF Stale
<1>7. CASE CompleteFails(w, e)
  BY <1>0, <1>7, GotoStep DEF CompleteFails, At
<1>8. CASE RunFails(w)
  BY <1>0, <1>8, DoneStep DEF RunFails
<1> QED BY <1>1, <1>2, <1>3, <1>4, <1>5, <1>6, <1>7, <1>8

(* A process dies and its workers with it.                                 *)
LEMMA CrashStep ==
  ASSUME IInv, NEW p \in Processes, Crash(p)
  PROVE  IInv'
<1>1. IdleWorker \in Worker
  BY DEF IdleWorker, Worker
<1>2. /\ worker' \in [Workers -> Worker]
      /\ \A v \in Workers : worker'[v] \in {IdleWorker, worker[v]}
  BY <1>1 DEF IInv, TypeOK, Crash
<1>3. running' \in [Processes -> SUBSET Evaluations] /\ faults' \in 0..MAX_FAULTS
  BY DEF IInv, TypeOK, Crash, Fault
<1>4. WorkerInv'
  BY <1>2 DEF IInv, WorkerInv, Crash, IdleWorker
<1>5. \A v \in Workers, e \in Evaluations : At(v, "claiming", e)' => At(v, "claiming", e)
  BY <1>2 DEF At, IdleWorker
<1> QED BY <1>2, <1>3, <1>4, <1>5, WorkerStep DEF Crash

(* A bundle is withdrawn: the evaluations it blocks are those no worker    *)
(* has checked.                                                            *)
LEMMA WithdrawStep ==
  ASSUME IInv, NEW b \in Bundles, Withdraw(b)
  PROVE  IInv'
<1>1. TypeOK'
  BY DEF IInv, TypeOK, Withdraw
<1>2. OneEnvelope' /\ OriginsStable' /\ ResultsFenced' /\ AuditAccounts'
  BY DEF IInv, OneEnvelope, OriginsStable, ResultsFenced, AuditAccounts, Withdraw
<1>3. RequestInv' /\ RowInv' /\ WorkerInv'
  BY DEF IInv, RequestInv, RowInv, WorkerInv, Withdraw
<1>4. BlockedInv'
  BY DEF IInv, BlockedInv, Withdraw, At
<1> QED BY <1>1, <1>2, <1>3, <1>4 DEF IInv

-----------------------------------------------------------------------------
(* Steps that write rows.                                                  *)

(* A row, its result and its audit trail belong together.                  *)
Coherent(row, res, trail) ==
    /\ row.status = "RUNNING" => row.token # None
    /\ row.status \in Failed => row.token = None
    /\ row.status # "ABSENT" => (row.origin = "INITIAL" <=> row.predecessor = None)
    /\ row.status = "ABSENT" => row = NoRow
    /\ row.status # "ABSENT" => row.bundle # None
    /\ row.status \in {"REQUESTED", "FAILED_PRECONDITION"} => row.pin = None /\ row.token = None
    /\ row.status \notin {"ABSENT", "REQUESTED", "FAILED_PRECONDITION"} =>
          row.pin = row.bundle /\ row.pin # None
    /\ row.status = "COMPLETED" <=> res # None
    /\ res # None => res.token = row.token /\ res.bundle = row.pin
    /\ trail = Trail(row.status)

(* The invariant says of every row that it is coherent.                    *)
LEMMA RowsAreCoherent ==
  ASSUME IInv, NEW e \in Evaluations
  PROVE  Coherent(evaluation[e], result[e], audit[e])
BY DEF IInv, TypeOK, RowInv, ResultsFenced, AuditAccounts, Coherent

(* A step that advances rows, leaves them coherent and gives no worker a   *)
(* new task or a checked bundle.                                           *)
LEMMA RowStep ==
  ASSUME IInv, Advances,
         UNCHANGED <<request, envelope, eligible, blocked>>,
         evaluation' \in [Evaluations -> Row],
         result' \in [Evaluations -> Result \cup {None}],
         worker' \in [Workers -> Worker],
         running' \in [Processes -> SUBSET Evaluations],
         faults' \in 0..MAX_FAULTS,
         audit' \in [Evaluations -> Seq(Events)],
         \A d \in Evaluations : Coherent(evaluation'[d], result'[d], audit'[d]),
         \A w \in Workers : worker'[w].phase # "idle" =>
             /\ worker[w].phase # "idle" /\ worker'[w].evaluation = worker[w].evaluation
             /\ worker'[w].phase = "claiming" => worker[w].phase = "claiming",
         \A e \in blocked : evaluation'[e].status \in {"REQUESTED", "FAILED_PRECONDITION"}
  PROVE  IInv'
<1>1. OneEnvelope' /\ OriginsStable' /\ RequestInv'
  BY AdvanceStep
<1>2. TypeOK'
  BY DEF IInv, TypeOK, Coherent
<1>3. ResultsFenced' /\ AuditAccounts' /\ RowInv'
  BY DEF ResultsFenced, AuditAccounts, RowInv, Coherent
<1>4. WorkerInv'
  <2> SUFFICES ASSUME NEW w \in Workers, worker'[w].phase # "idle"
               PROVE  /\ worker'[w].evaluation # None
                      /\ evaluation'[worker'[w].evaluation].status # "ABSENT"
    BY DEF WorkerInv
  <2>1. worker[w].evaluation \in Evaluations \cup {None}
    BY DEF IInv, TypeOK, Worker
  <2>2. /\ worker'[w].evaluation = worker[w].evaluation
        /\ worker[w].evaluation # None /\ evaluation[worker[w].evaluation].status # "ABSENT"
    BY DEF IInv, WorkerInv
  <2> QED BY <2>1, <2>2 DEF Advances
<1>5. BlockedInv'
  <2>1. blocked \subseteq Evaluations
    BY DEF IInv, TypeOK
  <2>2. \A w \in Workers, e \in Evaluations : At(w, "claiming", e)' => At(w, "claiming", e)
    BY DEF At
  <2> QED BY <2>1, <2>2 DEF IInv, BlockedInv, Advances
<1> QED BY <1>1, <1>2, <1>3, <1>4, <1>5 DEF IInv

(* One row e is written: what remains to be shown is about that row.       *)
LEMMA OneRowStep ==
  ASSUME IInv, NEW e \in Evaluations, NEW row \in Row, NEW res \in Result \cup {None},
         NEW trail,
         evaluation' = [evaluation EXCEPT ![e] = row],
         result' = [result EXCEPT ![e] = res],
         audit' = [audit EXCEPT ![e] = trail],
         Coherent(row, res, trail),
         row.origin = evaluation[e].origin, row.predecessor = evaluation[e].predecessor,
         row.envelope = evaluation[e].envelope, row.bundle = evaluation[e].bundle,
         evaluation[e].status \in {"REQUESTED", "RUNNING"}, row.status # "ABSENT",
         e \in blocked => row.status \in {"REQUESTED", "FAILED_PRECONDITION"},
         UNCHANGED <<request, envelope, eligible, blocked>>,
         worker' \in [Workers -> Worker],
         running' \in [Processes -> SUBSET Evaluations],
         faults' \in 0..MAX_FAULTS,
         \A w \in Workers : worker'[w].phase # "idle" =>
             /\ worker[w].phase # "idle" /\ worker'[w].evaluation = worker[w].evaluation
             /\ worker'[w].phase = "claiming" => worker[w].phase = "claiming"
  PROVE  IInv'
<1>1. \A d \in Evaluations : /\ evaluation'[d] = IF d = e THEN row ELSE evaluation[d]
                             /\ result'[d] = IF d = e THEN res ELSE result[d]
                             /\ audit'[d] = IF d = e THEN trail ELSE audit[d]
  BY DEF IInv, TypeOK
<1>2. evaluation' \in [Evaluations -> Row] /\ result' \in [Evaluations -> Result \cup {None}]
  BY DEF IInv, TypeOK
<1>3. audit' \in [Evaluations -> Seq(Events)]
  <2>1. row.status \in Statuses
    BY DEF Row
  <2>2. trail \in Seq(Events)
    BY <2>1, TrailSteps DEF Coherent
  <2> QED BY <2>2 DEF IInv, TypeOK
<1>4. Advances
  BY <1>1 DEF Advances
<1>5. \A d \in Evaluations : Coherent(evaluation'[d], result'[d], audit'[d])
  BY <1>1, RowsAreCoherent
<1>6. \A d \in blocked : evaluation'[d].status \in {"REQUESTED", "FAILED_PRECONDITION"}
  BY <1>1 DEF IInv, TypeOK, BlockedInv
<1> QED BY <1>2, <1>3, <1>4, <1>5, <1>6, RowStep

(* _fail_precondition fails a REQUESTED row, or does nothing.              *)
LEMMA FailPreconditionStep ==
  ASSUME IInv, NEW w \in Workers, NEW e \in Evaluations, FailPrecondition(w, e)
  PROVE  IInv'
<1>1. CASE evaluation[e].status # "REQUESTED"
  BY <1>1, DoneStep DEF IInv, TypeOK, FailPrecondition
<1>2. CASE evaluation[e].status = "REQUESTED"
  <2> DEFINE row == [evaluation[e] EXCEPT !.status = "FAILED_PRECONDITION"]
  <2>1. evaluation[e] \in Row
    BY DEF IInv, TypeOK
  <2>2. /\ row \in Row /\ row.status = "FAILED_PRECONDITION"
        /\ row.origin = evaluation[e].origin /\ row.predecessor = evaluation[e].predecessor
        /\ row.envelope = evaluation[e].envelope /\ row.bundle = evaluation[e].bundle
        /\ row.token = evaluation[e].token /\ row.pin = evaluation[e].pin
    BY <2>1 DEF Row
  <2>3. evaluation' = [evaluation EXCEPT ![e] = row]
    BY <1>2 DEF FailPrecondition
  <2> HIDE DEF row
  <2>4. audit' = [audit EXCEPT ![e] = Trail("FAILED_PRECONDITION")]
    <3>1. audit[e] = Trail("REQUESTED")
      BY <1>2 DEF IInv, AuditAccounts
    <3> QED BY <1>2, <3>1, TrailSteps DEF FailPrecondition
  <2>5. result' = [result EXCEPT ![e] = None] /\ result[e] = None
    BY <1>2 DEF IInv, TypeOK, ResultsFenced, FailPrecondition
  <2>6. Coherent(row, None, Trail("FAILED_PRECONDITION"))
    BY <1>2, <2>2, <2>5, RowsAreCoherent DEF Coherent
  <2>7. /\ worker' \in [Workers -> Worker]
        /\ running' \in [Processes -> SUBSET Evaluations]
        /\ faults' \in 0..MAX_FAULTS
        /\ UNCHANGED <<request, envelope, eligible, blocked>>
        /\ \A v \in Workers : worker'[v] = IF v = w THEN IdleWorker ELSE worker[v]
    BY DoneWorker DEF IInv, TypeOK, FailPrecondition
  <2>8. \A v \in Workers : worker'[v].phase # "idle" => worker'[v] = worker[v]
    BY <2>7 DEF IdleWorker
  <2> QED BY <1>2, <2>2, <2>3, <2>4, <2>5, <2>6, <2>7, <2>8, OneRowStep
<1> QED BY <1>1, <1>2

(* The claim: no evaluation of a withdrawn bundle is claimed, for no       *)
(* worker that holds a blocked evaluation is about to claim it.            *)
LEMMA ClaimStep ==
  ASSUME IInv, NEW w \in Workers, NEW e \in Evaluations, Claim(w, e)
  PROVE  IInv'
<1> DEFINE row == [evaluation[e] EXCEPT !.status = "RUNNING", !.token = w, !.lease = "LIVE",
                                        !.pin = evaluation[e].bundle]
<1>1. evaluation[e] \in Row /\ evaluation[e].status = "REQUESTED" /\ At(w, "claiming", e)
  BY DEF IInv, TypeOK, Claim
<1>2. /\ row \in Row /\ row.status = "RUNNING"
      /\ row.origin = evaluation[e].origin /\ row.predecessor = evaluation[e].predecessor
      /\ row.envelope = evaluation[e].envelope /\ row.bundle = evaluation[e].bundle
      /\ row.token = w /\ row.pin = evaluation[e].bundle
  BY <1>1 DEF Row
<1>3. evaluation' = [evaluation EXCEPT ![e] = row]
  BY DEF Claim
<1> HIDE DEF row
<1>4. audit' = [audit EXCEPT ![e] = Trail("RUNNING")]
  BY <1>1, TrailSteps, RowsAreCoherent DEF IInv, TypeOK, Coherent, Claim
<1>5. result' = [result EXCEPT ![e] = None] /\ result[e] = None
  BY <1>1 DEF IInv, TypeOK, ResultsFenced, Claim
<1>6. Coherent(row, None, Trail("RUNNING"))
  BY <1>1, <1>2, <1>5, RowsAreCoherent DEF Coherent
<1>7. e \notin blocked
  BY <1>1 DEF IInv, BlockedInv
<1>8. /\ worker' \in [Workers -> Worker]
      /\ worker'[w].phase = "computing" /\ worker'[w].evaluation = worker[w].evaluation
      /\ \A v \in Workers : v # w => worker'[v] = worker[v]
  BY GotoWorker DEF Claim
<1>9. /\ running' \in [Processes -> SUBSET Evaluations]
      /\ faults' \in 0..MAX_FAULTS
      /\ UNCHANGED <<request, envelope, eligible, blocked>>
      /\ worker[w].phase # "idle"
  BY <1>1 DEF IInv, TypeOK, Claim, At
<1> QED BY <1>1, <1>2, <1>3, <1>4, <1>5, <1>6, <1>7, <1>8, <1>9, OneRowStep

(* _complete stores the result under the token and the pin of the row it   *)
(* completes.                                                              *)
LEMMA CompleteStep ==
  ASSUME IInv, NEW w \in Workers, NEW e \in Evaluations, NEW acked \in BOOLEAN,
         Complete(w, e, acked)
  PROVE  IInv'
<1> DEFINE row == [evaluation[e] EXCEPT !.status = "COMPLETED"]
           res == [token |-> w, bundle |-> evaluation[e].pin]
<1>1. /\ evaluation[e] \in Row /\ evaluation[e].status = "RUNNING"
      /\ evaluation[e].token = w /\ worker[w].phase = "computed"
  BY DEF IInv, TypeOK, Complete, Held, At
<1>2. /\ row \in Row /\ row.status = "COMPLETED"
      /\ row.origin = evaluation[e].origin /\ row.predecessor = evaluation[e].predecessor
      /\ row.envelope = evaluation[e].envelope /\ row.bundle = evaluation[e].bundle
      /\ row.token = w /\ row.pin = evaluation[e].pin
  BY <1>1 DEF Row
<1>3. evaluation[e].pin \in Bundles /\ evaluation[e].pin = evaluation[e].bundle
  BY <1>1 DEF IInv, TypeOK, RowInv, Row
<1>4. res \in Result /\ res.token = w /\ res.bundle = evaluation[e].pin
  BY <1>3 DEF Result
<1>5. /\ evaluation' = [evaluation EXCEPT ![e] = row]
      /\ result' = [result EXCEPT ![e] = res]
  BY DEF Complete
<1> HIDE DEF row, res
<1>6. audit' = [audit EXCEPT ![e] = Trail("COMPLETED")]
  <2>1. audit[e] = Trail("RUNNING")
    BY <1>1 DEF IInv, AuditAccounts
  <2> QED BY <2>1, TrailSteps DEF Complete
<1>7. Coherent(row, res, Trail("COMPLETED"))
  BY <1>1, <1>2, <1>3, <1>4, RowsAreCoherent DEF Coherent
<1>8. e \notin blocked
  BY <1>1 DEF IInv, BlockedInv
<1>9. /\ worker' \in [Workers -> Worker]
      /\ running' \in [Processes -> SUBSET Evaluations]
      /\ faults' \in 0..MAX_FAULTS
      /\ \A v \in Workers : v # w => worker'[v] = worker[v]
      /\ worker'[w].phase # "idle" => /\ worker'[w].evaluation = worker[w].evaluation
                                      /\ worker'[w].phase # "claiming"
  <2>1. CASE acked
    BY <2>1, DoneWorker DEF IInv, TypeOK, Complete, IdleWorker
  <2>2. CASE ~acked
    BY <2>2, GotoWorker DEF IInv, TypeOK, Complete, Fault
  <2> QED BY <2>1, <2>2
<1>10. UNCHANGED <<request, envelope, eligible, blocked>>
  BY DEF Complete
<1> QED BY <1>1, <1>2, <1>4, <1>5, <1>6, <1>7, <1>8, <1>9, <1>10, OneRowStep

(* The row a failure writes: it loses the token and keeps the pin.         *)
LEMMA FailedRowFacts ==
  ASSUME IInv, NEW e \in Evaluations, evaluation[e].status = "RUNNING",
         NEW f \in {"FAILED_INTEGRITY", "FAILED_INFRASTRUCTURE"}
  PROVE  LET row == FailedRow(e, f) IN
         /\ row \in Row /\ row.status = f /\ row.bundle = evaluation[e].bundle
         /\ row.origin = evaluation[e].origin /\ row.predecessor = evaluation[e].predecessor
         /\ row.envelope = evaluation[e].envelope /\ row.pin = evaluation[e].pin
         /\ Coherent(row, result[e], Trail(f)) /\ result[e] = None
         /\ Append(audit[e], "EVALUATION_FAILED") = Trail(f)
         /\ e \notin blocked
<1> DEFINE row == FailedRow(e, f)
<1>1. evaluation[e] \in Row /\ audit[e] = Trail("RUNNING") /\ result[e] = None
  BY DEF IInv, TypeOK, AuditAccounts, ResultsFenced
<1>2. /\ row \in Row /\ row.status = f /\ row.bundle = evaluation[e].bundle
      /\ row.origin = evaluation[e].origin /\ row.predecessor = evaluation[e].predecessor
      /\ row.envelope = evaluation[e].envelope /\ row.pin = evaluation[e].pin
      /\ row.token = None
  <2> DEFINE old == evaluation[e]
  <2>1. row = [old EXCEPT !.status = f, !.token = None]
    BY DEF FailedRow
  <2>2. old \in Row /\ f \in Statuses
    BY <1>1 DEF Statuses, Failed
  <2> HIDE DEF old, row
  <2>3. row = [status |-> f, token |-> None, lease |-> old.lease, pin |-> old.pin,
               bundle |-> old.bundle, origin |-> old.origin,
               predecessor |-> old.predecessor, envelope |-> old.envelope]
    BY <2>1, <2>2 DEF Row
  <2>4. /\ old.lease \in {"NULL", "LIVE", "EXPIRED"} /\ old.pin \in Bundles \cup {None}
        /\ old.bundle \in Bundles \cup {None} /\ old.origin \in Origins \cup {None}
        /\ old.predecessor \in Evaluations \cup {None}
        /\ old.envelope \in Envelopes \cup {None}
    BY <2>2 DEF Row
  <2>5. row \in Row
    BY <2>2, <2>3, <2>4 DEF Row
  <2>6. /\ row.status = f /\ row.bundle = old.bundle /\ row.origin = old.origin
        /\ row.predecessor = old.predecessor /\ row.envelope = old.envelope
        /\ row.pin = old.pin /\ row.token = None
    BY <2>3
  <2> QED BY <2>5, <2>6 DEF old
<1> HIDE DEF row
<1>3. Coherent(row, result[e], Trail(f))
  BY <1>1, <1>2, RowsAreCoherent DEF Coherent
<1>4. Append(audit[e], "EVALUATION_FAILED") = Trail(f)
  BY <1>1, TrailSteps
<1>5. e \notin blocked
  BY DEF IInv, BlockedInv
<1> QED BY <1>1, <1>2, <1>3, <1>4, <1>5 DEF row

(* _fail_running fails the row whose token the worker holds, or nothing.   *)
LEMMA FailRunningStep ==
  ASSUME IInv, NEW w \in Workers, NEW e \in Evaluations, FailRunning(w, e)
  PROVE  IInv'
<1> DEFINE f == IF worker[w].phase = "rejected" THEN "FAILED_INTEGRITY"
                                                ELSE "FAILED_INFRASTRUCTURE"
<1>1. CASE ~Held(w, e)
  BY <1>1, DoneStep DEF IInv, TypeOK, FailRunning
<1>2. CASE Held(w, e)
  <2>1. evaluation[e].status = "RUNNING" /\ f \in {"FAILED_INTEGRITY", "FAILED_INFRASTRUCTURE"}
    BY <1>2 DEF Held
  <2>2. /\ evaluation' = [evaluation EXCEPT ![e] = FailedRow(e, f)]
        /\ audit' = [audit EXCEPT ![e] = Append(audit[e], "EVALUATION_FAILED")]
        /\ UNCHANGED <<result, request, envelope, eligible, blocked>>
    BY <1>2 DEF FailRunning
  <2> HIDE DEF f
  <2>3. /\ worker' \in [Workers -> Worker]
        /\ running' \in [Processes -> SUBSET Evaluations]
        /\ faults' \in 0..MAX_FAULTS
        /\ \A v \in Workers : worker'[v].phase # "idle" => worker'[v] = worker[v]
    BY DoneWorker DEF IInv, TypeOK, FailRunning, IdleWorker
  <2>4. result' = [result EXCEPT ![e] = None] /\ result[e] = None
    BY <2>1, <2>2, FailedRowFacts DEF IInv, TypeOK
  <2>5. audit' = [audit EXCEPT ![e] = Trail(f)]
    BY <2>1, <2>2, FailedRowFacts
  <2>6. PICK row \in Row : row = FailedRow(e, f)
    BY <2>1, FailedRowFacts
  <2>7. /\ row.status = f /\ row.bundle = evaluation[e].bundle
        /\ row.origin = evaluation[e].origin /\ row.predecessor = evaluation[e].predecessor
        /\ row.envelope = evaluation[e].envelope
        /\ Coherent(row, None, Trail(f)) /\ e \notin blocked
    BY <2>1, <2>4, <2>6, FailedRowFacts
  <2>8. evaluation' = [evaluation EXCEPT ![e] = row] /\ row.status # "ABSENT"
    BY <2>1, <2>2, <2>6, <2>7
  <2>9. UNCHANGED <<request, envelope, eligible, blocked>>
    BY <2>2
  <2>10. evaluation[e].status \in {"REQUESTED", "RUNNING"}
    BY <2>1
  <2>11. \A v \in Workers : worker'[v].phase # "idle" =>
             /\ worker[v].phase # "idle" /\ worker'[v].evaluation = worker[v].evaluation
             /\ worker'[v].phase = "claiming" => worker[v].phase = "claiming"
    BY <2>3
  <2> QED BY <2>3, <2>4, <2>5, <2>7, <2>8, <2>9, <2>10, <2>11, OneRowStep
<1> QED BY <1>1, <1>2

(* Time passes; nothing else of the row changes.                           *)
LEMMA LeaseExpiresStep ==
  ASSUME IInv, NEW e \in Evaluations, LeaseExpires(e)
  PROVE  IInv'
<1> DEFINE row == [evaluation[e] EXCEPT !.lease = "EXPIRED"]
<1>1. evaluation[e] \in Row /\ evaluation[e].status = "RUNNING"
  BY DEF IInv, TypeOK, LeaseExpires
<1>2. /\ row \in Row /\ row.status = "RUNNING"
      /\ row.origin = evaluation[e].origin /\ row.predecessor = evaluation[e].predecessor
      /\ row.envelope = evaluation[e].envelope /\ row.bundle = evaluation[e].bundle
      /\ row.token = evaluation[e].token /\ row.pin = evaluation[e].pin
  BY <1>1 DEF Row
<1>3. evaluation' = [evaluation EXCEPT ![e] = row]
  BY DEF LeaseExpires
<1> HIDE DEF row
<1>4. /\ result' = [result EXCEPT ![e] = result[e]]
      /\ audit' = [audit EXCEPT ![e] = audit[e]]
      /\ result[e] \in Result \cup {None}
  BY DEF IInv, TypeOK, LeaseExpires
<1>5. Coherent(row, result[e], audit[e])
  BY <1>1, <1>2, RowsAreCoherent DEF Coherent
<1>6. e \notin blocked
  BY <1>1 DEF IInv, BlockedInv
<1>7. /\ worker' \in [Workers -> Worker]
      /\ running' \in [Processes -> SUBSET Evaluations]
      /\ faults' \in 0..MAX_FAULTS
      /\ UNCHANGED <<request, envelope, eligible, blocked, worker>>
  BY DEF IInv, TypeOK, LeaseExpires
<1> QED BY <1>1, <1>2, <1>3, <1>4, <1>5, <1>6, <1>7, OneRowStep

(* Recovery fails every row whose lease expired.                           *)
LEMMA RecoverStep ==
  ASSUME IInv, Recover
  PROVE  IInv'
<1> DEFINE expired == {e \in Evaluations : /\ evaluation[e].status = "RUNNING"
                                           /\ evaluation[e].lease = "EXPIRED"}
           f == "FAILED_INFRASTRUCTURE"
<1>1. /\ \A d \in Evaluations : /\ evaluation'[d] = IF d \in expired THEN FailedRow(d, f)
                                                                    ELSE evaluation[d]
                                /\ audit'[d] = IF d \in expired
                                               THEN Append(audit[d], "EVALUATION_FAILED")
                                               ELSE audit[d]
      /\ evaluation' = [d \in Evaluations |-> evaluation'[d]]
      /\ audit' = [d \in Evaluations |-> audit'[d]]
      /\ UNCHANGED <<request, envelope, result, worker, running, eligible, blocked, faults>>
  BY DEF Recover
<1>2. \A d \in expired : d \in Evaluations /\ evaluation[d].status = "RUNNING"
  OBVIOUS
<1> HIDE DEF expired
<1>3. \A d \in Evaluations : Coherent(evaluation'[d], result'[d], audit'[d])
  <2> SUFFICES ASSUME NEW d \in Evaluations
               PROVE  Coherent(evaluation'[d], result[d], audit'[d])
    BY <1>1
  <2>1. CASE d \in expired
    <3>1. evaluation'[d] = FailedRow(d, f) /\ audit'[d] = Trail(f)
      BY <1>1, <1>2, <2>1, FailedRowFacts
    <3> QED BY <1>2, <2>1, <3>1, FailedRowFacts
  <2>2. CASE d \notin expired
    BY <1>1, <2>2, RowsAreCoherent
  <2> QED BY <2>1, <2>2
<1>4. \A d \in Evaluations : evaluation'[d] \in Row /\ audit'[d] \in Seq(Events)
  <2> SUFFICES ASSUME NEW d \in Evaluations
               PROVE  evaluation'[d] \in Row /\ audit'[d] \in Seq(Events)
    OBVIOUS
  <2>1. CASE d \in expired
    <3>1. FailedRow(d, f) \in Row /\ Append(audit[d], "EVALUATION_FAILED") = Trail(f)
      BY <1>2, <2>1, FailedRowFacts
    <3>2. Trail(f) \in Seq(Events)
      BY TrailSteps
    <3> QED BY <1>1, <2>1, <3>1, <3>2
  <2>2. CASE d \notin expired
    BY <1>1, <2>2 DEF IInv, TypeOK
  <2> QED BY <2>1, <2>2
<1>5. evaluation' \in [Evaluations -> Row] /\ audit' \in [Evaluations -> Seq(Events)]
  BY <1>1, <1>4
<1>6. Advances
  <2> SUFFICES ASSUME NEW d \in Evaluations, d \in expired
               PROVE  /\ evaluation'[d].origin = evaluation[d].origin
                      /\ evaluation'[d].predecessor = evaluation[d].predecessor
                      /\ evaluation'[d].envelope = evaluation[d].envelope
                      /\ evaluation'[d].bundle = evaluation[d].bundle
                      /\ evaluation'[d].status # "ABSENT"
    BY <1>1, <1>2 DEF Advances
  <2> QED BY <1>1, <1>2, FailedRowFacts
<1>7. \A d \in blocked : evaluation'[d].status \in {"REQUESTED", "FAILED_PRECONDITION"}
  BY <1>1, <1>2 DEF IInv, TypeOK, BlockedInv
<1> QED BY <1>1, <1>3, <1>5, <1>6, <1>7, RowStep DEF IInv, TypeOK

(* Every step keeps the inductive invariant.                               *)
LEMMA NextIInv == IInv /\ [Next]_vars => IInv'
<1> SUFFICES ASSUME IInv, [Next]_vars PROVE IInv'
  OBVIOUS
<1>1. CASE UNCHANGED vars
  BY <1>1 DEF vars, IInv, TypeOK, OneEnvelope, OriginsStable, ResultsFenced, AuditAccounts,
              RequestInv, RowInv, WorkerInv, BlockedInv, At
<1>2. ASSUME NEW e \in Evaluations, Create(e) PROVE IInv'
  BY <1>2, ReceiveStep, DeriveStep, StoreEnvelopeStep, InsertStep, CreateFailsStep DEF Create
<1>3. ASSUME NEW w \in Workers, NEW e \in Evaluations, Run(w, e) PROVE IInv'
  BY <1>3, ReadSteps, FailPreconditionStep, ClaimStep, CompleteStep, FailRunningStep DEF Run
<1>4. ASSUME NEW w \in Workers, RunFails(w) PROVE IInv'
  BY <1>4, DoneStep DEF RunFails, Fault, IInv, TypeOK
<1>5. ASSUME Next PROVE IInv'
  BY <1>2, <1>3, <1>4, <1>5, LeaseExpiresStep, DispatchStep, CrashStep, RecoverStep, WithdrawStep
     DEF Next
<1> QED BY <1>1, <1>5

-----------------------------------------------------------------------------
(* The safety properties.                                                  *)

(* The inductive invariant holds of every reachable state.                 *)
THEOREM EvaluationInvariant == Spec => []IInv
BY InitIInv, NextIInv, PTL DEF Spec

(* The rows satisfy the table's CHECK constraints, derive from the one     *)
(* stored envelope and name a predecessor that ended as they say, for any  *)
(* number of concurrent requests, workers, crashes and recoveries.         *)
THEOREM RowsStayCoherent == Spec => []RowsCoherent
<1>1. IInv => RowsCoherent
  BY DEF IInv, RowsCoherent
<1> QED BY <1>1, EvaluationInvariant, PTL

(* A result exists exactly when its evaluation is COMPLETED and belongs to *)
(* the execution that holds the token: no stale or fenced worker ever      *)
(* publishes one.                                                          *)
THEOREM ResultsStayFenced == Spec => []ResultsFenced
<1>1. IInv => ResultsFenced
  BY DEF IInv
<1> QED BY <1>1, EvaluationInvariant, PTL

(* Every outcome is audited exactly once and in order.                     *)
THEOREM AuditStaysAccounted == Spec => []AuditAccounts
<1>1. IInv => AuditAccounts
  BY DEF IInv
<1> QED BY <1>1, EvaluationInvariant, PTL

(* An evaluation whose bundle was withdrawn before a worker checked it     *)
(* never runs.                                                             *)
THEOREM WithdrawalStaysEffective == Spec => []WithdrawalBlocks
<1>1. IInv => WithdrawalBlocks
  BY DEF IInv, BlockedInv, WithdrawalBlocks
<1> QED BY <1>1, EvaluationInvariant, PTL

-----------------------------------------------------------------------------
(* The refinement: every step of the implementation is a step of           *)
(* EvaluationApi or leaves what the API shows unchanged.                   *)

(* API_STATE on the statuses.                                              *)
LEMMA ApiStates ==
  /\ ApiState("ABSENT") = "ABSENT" /\ ApiState("REQUESTED") = "QUEUED"
  /\ ApiState("RUNNING") = "RUNNING" /\ ApiState("COMPLETED") = "COMPLETED"
  /\ \A f \in Failed : ApiState(f) = "FAILED"
BY Zenon DEF ApiState

(* The initial states map to initial states of the API.                    *)
LEMMA ApiInit == Init => Api!Init
BY ApiStates DEF Init, Api!Init, NoRow

(* A step that writes no status, pin or result is not seen.                *)
LEMMA ApiStutter ==
  ASSUME \A e \in Evaluations : /\ evaluation'[e].status = evaluation[e].status
                                /\ evaluation'[e].pin = evaluation[e].pin
                                /\ result'[e] = result[e]
  PROVE  UNCHANGED Api!vars
BY DEF Api!vars

(* The evaluations of a set fail together and change in nothing else.      *)
LEMMA ApiFail ==
  ASSUME IInv, NEW failed \in SUBSET Evaluations, failed # {},
         \A e \in failed : /\ evaluation[e].status \in {"REQUESTED", "RUNNING"}
                           /\ evaluation'[e].status \in Failed,
         \A e \in Evaluations : /\ e \notin failed => evaluation'[e].status = evaluation[e].status
                                /\ evaluation'[e].pin = evaluation[e].pin,
         UNCHANGED result
  PROVE  Api!Next
<1>1. PICK e \in Evaluations : e \in failed
  OBVIOUS
<1>2. Api!Fail(failed)
  BY ApiStates DEF Api!Fail
<1> QED BY <1>1, <1>2 DEF Api!Next, Api!Advance

(* The insertion accepts the evaluation.                                   *)
LEMMA InsertRefines ==
  ASSUME IInv, NEW e \in Evaluations, Insert(e)
  PROVE  Api!Next
<1>1. evaluation[e] = NoRow
  BY DEF IInv, RequestInv, Insert
<1>2. /\ evaluation[e].status = "ABSENT" /\ evaluation[e].pin = None
      /\ evaluation'[e].status = "REQUESTED" /\ evaluation'[e].pin = None
      /\ \A d \in Evaluations : d # e => evaluation'[d] = evaluation[d]
      /\ result' = result
  BY <1>1 DEF IInv, TypeOK, Insert, NoRow
<1>3. Api!Accept(e)
  BY <1>2, ApiStates DEF Api!Accept
<1> QED BY <1>3 DEF Api!Next

(* The claim starts the evaluation, pinned to its bundle.                  *)
LEMMA ClaimRefines ==
  ASSUME IInv, NEW w \in Workers, NEW e \in Evaluations, Claim(w, e)
  PROVE  Api!Next
<1>1. evaluation[e] \in Row /\ evaluation[e].status = "REQUESTED"
  BY DEF IInv, TypeOK, Claim
<1>2. PICK b \in Bundles : evaluation[e].bundle = b
  BY <1>1 DEF IInv, RowInv, Row
<1>3. /\ evaluation'[e].status = "RUNNING" /\ evaluation'[e].pin = b
      /\ \A d \in Evaluations : d # e => evaluation'[d] = evaluation[d]
      /\ result' = result
  BY <1>1, <1>2 DEF IInv, TypeOK, Claim, Row
<1>4. Api!Start(e, b)
  BY <1>1, <1>3, ApiStates DEF Api!Start
<1> QED BY <1>4 DEF Api!Next, Api!Advance

(* The completion publishes the one result, of the pinned bundle.          *)
LEMMA CompleteRefines ==
  ASSUME IInv, NEW w \in Workers, NEW e \in Evaluations, NEW acked \in BOOLEAN,
         Complete(w, e, acked)
  PROVE  Api!Next
<1>1. evaluation[e] \in Row /\ evaluation[e].status = "RUNNING"
  BY DEF IInv, TypeOK, Complete, Held
<1>2. /\ evaluation'[e].status = "COMPLETED" /\ evaluation'[e].pin = evaluation[e].pin
      /\ \A d \in Evaluations : d # e => evaluation'[d] = evaluation[d]
  BY <1>1 DEF IInv, TypeOK, Complete, Row
<1>3. /\ result'[e] = [token |-> w, bundle |-> evaluation[e].pin]
      /\ \A d \in Evaluations : d # e => result'[d] = result[d]
  BY DEF IInv, TypeOK, Complete
<1>4. evaluation[e].pin \in Bundles
  BY <1>1 DEF IInv, TypeOK, Row
<1>5. result'[e] # None /\ result'[e].bundle = evaluation[e].pin
  BY <1>3, <1>4 DEF Result
<1>6. Api!Complete(e)
  BY <1>1, <1>2, <1>3, <1>5, ApiStates DEF Api!Complete
<1> QED BY <1>6 DEF Api!Next, Api!Advance

(* Failures, of one evaluation or of all that recovery fences.             *)
LEMMA FailuresRefine ==
  ASSUME IInv
  PROVE  /\ \A w \in Workers, e \in Evaluations :
               FailPrecondition(w, e) \/ FailRunning(w, e) => Api!Next \/ UNCHANGED Api!vars
         /\ Recover => Api!Next
<1>1. ASSUME NEW w \in Workers, NEW e \in Evaluations, FailPrecondition(w, e)
      PROVE  Api!Next \/ UNCHANGED Api!vars
  <2>1. CASE evaluation[e].status # "REQUESTED"
    BY <1>1, <2>1, ApiStutter DEF FailPrecondition
  <2>2. CASE evaluation[e].status = "REQUESTED"
    <3>1. /\ evaluation'[e].status = "FAILED_PRECONDITION"
          /\ evaluation'[e].pin = evaluation[e].pin
          /\ \A d \in Evaluations : d # e => evaluation'[d] = evaluation[d]
          /\ result' = result
      BY <1>1, <2>2 DEF IInv, TypeOK, FailPrecondition, Row
    <3> QED BY <2>2, <3>1, ApiFail, {e} \in SUBSET Evaluations, {e} # {}
  <2> QED BY <2>1, <2>2
<1>2. ASSUME NEW w \in Workers, NEW e \in Evaluations, FailRunning(w, e)
      PROVE  Api!Next \/ UNCHANGED Api!vars
  <2>1. CASE ~Held(w, e)
    BY <1>2, <2>1, ApiStutter DEF FailRunning
  <2>2. CASE Held(w, e)
    <3>1. evaluation[e].status = "RUNNING"
      BY <2>2 DEF Held
    <3> DEFINE f == IF worker[w].phase = "rejected" THEN "FAILED_INTEGRITY"
                                                    ELSE "FAILED_INFRASTRUCTURE"
    <3>2. /\ f \in {"FAILED_INTEGRITY", "FAILED_INFRASTRUCTURE"}
          /\ evaluation' = [evaluation EXCEPT ![e] = FailedRow(e, f)]
      BY <1>2, <2>2 DEF FailRunning
    <3> HIDE DEF f
    <3>3. /\ evaluation'[e].status \in Failed /\ evaluation'[e].pin = evaluation[e].pin
          /\ \A d \in Evaluations : d # e => evaluation'[d] = evaluation[d]
      BY <3>1, <3>2, FailedRowFacts DEF IInv, TypeOK
    <3>4. result' = result
      BY <1>2 DEF FailRunning
    <3> QED BY <3>1, <3>3, <3>4, ApiFail, {e} \in SUBSET Evaluations, {e} # {}
  <2> QED BY <2>1, <2>2
<1>3. ASSUME Recover PROVE Api!Next
  <2> DEFINE expired == {e \in Evaluations : /\ evaluation[e].status = "RUNNING"
                                             /\ evaluation[e].lease = "EXPIRED"}
  <2>1. /\ \A d \in Evaluations : evaluation'[d] = IF d \in expired
                                       THEN FailedRow(d, "FAILED_INFRASTRUCTURE")
                                       ELSE evaluation[d]
        /\ expired # {} /\ expired \in SUBSET Evaluations /\ UNCHANGED result
    BY <1>3 DEF Recover
  <2>2. \A d \in expired : d \in Evaluations /\ evaluation[d].status = "RUNNING"
    OBVIOUS
  <2> HIDE DEF expired
  <2>3. \A d \in expired : /\ evaluation'[d].status \in Failed
                           /\ evaluation'[d].pin = evaluation[d].pin
    BY <2>1, <2>2, FailedRowFacts
  <2> QED BY <2>1, <2>2, <2>3, ApiFail
<1> QED BY <1>1, <1>2, <1>3

(* Every step of the implementation is a step of the API or is not seen.   *)
LEMMA ApiStep == IInv /\ [Next]_vars => [Api!Next]_(Api!vars)
<1> SUFFICES ASSUME IInv, [Next]_vars PROVE Api!Next \/ UNCHANGED Api!vars
  OBVIOUS
<1>1. ASSUME UNCHANGED <<evaluation, result>> PROVE UNCHANGED Api!vars
  BY <1>1, ApiStutter
<1>2. ASSUME UNCHANGED vars PROVE UNCHANGED Api!vars
  BY <1>1, <1>2 DEF vars
<1>3. ASSUME NEW e \in Evaluations, Create(e) PROVE Api!Next \/ UNCHANGED Api!vars
  <2>1. Insert(e) \/ UNCHANGED <<evaluation, result>>
    BY <1>3 DEF Create, Receive, Derive, StoreEnvelope, CreateFails
  <2> QED BY <1>1, <2>1, InsertRefines
<1>4. ASSUME NEW e \in Evaluations, LeaseExpires(e) PROVE UNCHANGED Api!vars
  BY <1>4, ApiStutter DEF IInv, TypeOK, Row, LeaseExpires
<1>5. ASSUME NEW w \in Workers, NEW e \in Evaluations, Run(w, e)
      PROVE  Api!Next \/ UNCHANGED Api!vars
  <2>1. \/ UNCHANGED <<evaluation, result>>
        \/ FailPrecondition(w, e) \/ Claim(w, e) \/ FailRunning(w, e)
        \/ \E acked \in BOOLEAN : Complete(w, e, acked)
    BY <1>5 DEF Run, ReadRow, NotRequested, CheckBundle, ClaimedElsewhere, Compute, Stale,
                CompleteFails
  <2> QED BY <1>1, <2>1, ClaimRefines, CompleteRefines, FailuresRefine
<1>6. ASSUME NEW w \in Workers, NEW e \in Evaluations, Dispatch(w, e)
      PROVE  UNCHANGED <<evaluation, result>>
  BY <1>6 DEF Dispatch
<1>7. ASSUME NEW w \in Workers, RunFails(w) PROVE UNCHANGED <<evaluation, result>>
  BY <1>7 DEF RunFails
<1>8. ASSUME NEW p \in Processes, Crash(p) PROVE UNCHANGED <<evaluation, result>>
  BY <1>8 DEF Crash
<1>9. ASSUME NEW b \in Bundles, Withdraw(b) PROVE UNCHANGED <<evaluation, result>>
  BY <1>9 DEF Withdraw
<1>10. ASSUME Next PROVE Api!Next \/ UNCHANGED Api!vars
  BY <1>1, <1>3, <1>4, <1>5, <1>6, <1>7, <1>8, <1>9, <1>10, FailuresRefine DEF Next
<1> QED BY <1>2, <1>10

(* The implementation implements the safety part of the API: an evaluation *)
(* ends COMPLETED with the one result of its pinned bundle or FAILED       *)
(* without one, and nothing that ended ever changes.                       *)
THEOREM ImplementsApiSafety == Spec => Api!Init /\ [][Api!Next]_(Api!vars)
BY ApiInit, ApiStep, EvaluationInvariant, PTL DEF Spec
=============================================================================

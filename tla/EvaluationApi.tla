--------------------------- MODULE EvaluationApi ----------------------------
(***************************************************************************)
(* What the evaluation resource promises its clients (API_STATE and _view  *)
(* in trustlens_backend/evaluation.py): an evaluation is QUEUED, may be    *)
(* RUNNING, and ends COMPLETED with the one result of the bundle it was    *)
(* pinned to, or FAILED without a result; and it does end.                 *)
(***************************************************************************)
CONSTANTS Evaluations, Bundles, None

VARIABLES state, pin, result

vars == <<state, pin, result>>

Init ==
    /\ state = [e \in Evaluations |-> "ABSENT"]
    /\ pin = [e \in Evaluations |-> None]
    /\ result = [e \in Evaluations |-> None]

Accept(e) ==
    /\ state[e] = "ABSENT"
    /\ state' = [state EXCEPT ![e] = "QUEUED"]
    /\ UNCHANGED <<pin, result>>

Start(e, b) ==
    /\ state[e] = "QUEUED"
    /\ state' = [state EXCEPT ![e] = "RUNNING"]
    /\ pin' = [pin EXCEPT ![e] = b]
    /\ UNCHANGED result

Complete(e) ==
    /\ state[e] = "RUNNING"
    /\ state' = [state EXCEPT ![e] = "COMPLETED"]
    /\ result' = [result EXCEPT ![e] = pin[e]]
    /\ UNCHANGED pin

(* Recovery may fail several evaluations in one step.                      *)
Fail(failed) ==
    /\ failed # {}
    /\ \A e \in failed : state[e] \in {"QUEUED", "RUNNING"}
    /\ state' = [e \in Evaluations |-> IF e \in failed THEN "FAILED" ELSE state[e]]
    /\ UNCHANGED <<pin, result>>

Advance(e) ==
    \/ \E b \in Bundles : Start(e, b)
    \/ Complete(e)
    \/ \E failed \in SUBSET Evaluations : e \in failed /\ Fail(failed)

Next == \E e \in Evaluations : Accept(e) \/ Advance(e)

Spec == Init /\ [][Next]_vars /\ \A e \in Evaluations : WF_vars(Advance(e))
=============================================================================

---------------------------- MODULE MCEvaluation ----------------------------
(* Evaluation for TLC: two processes, one of them with two worker threads.  *)
EXTENDS Evaluation, TLC

CONSTANTS A, B

TwoAndOne == {<<A, 1>>, <<A, 2>>, <<B, 1>>}
OneEach == {<<A, 1>>, <<B, 1>>}

Symmetry == Permutations(Evaluations) \cup Permutations(Bundles) \cup Permutations(Envelopes)
=============================================================================

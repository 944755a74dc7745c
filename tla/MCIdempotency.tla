--------------------------- MODULE MCIdempotency ---------------------------
(* Instances of Idempotency for TLC: requests and digests are model values *)
(* that nothing tells apart, so their permutations are a sound symmetry of *)
(* the safety properties checked here.                                     *)
EXTENDS Idempotency, TLC

Symmetry == Permutations(Requests) \cup Permutations(Digests)
=============================================================================

---------------------------- MODULE MCAuditChain ----------------------------
(* AuditChain for TLC: sessions and event contents are interchangeable.     *)
EXTENDS AuditChain, TLC

Symmetry == Permutations(Writers) \cup Permutations(Contents)
=============================================================================

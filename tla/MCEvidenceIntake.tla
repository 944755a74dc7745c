-------------------------- MODULE MCEvidenceIntake --------------------------
(* EvidenceIntake for TLC.                                                  *)
EXTENDS EvidenceIntake, TLC

(* Puts, finalizes and bodies are interchangeable in the safety runs.      *)
Symmetry == Permutations(Puts) \cup Permutations(Finals) \cup Permutations(Bodies)
=============================================================================

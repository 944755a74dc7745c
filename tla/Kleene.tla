------------------------------- MODULE Kleene -------------------------------
(***************************************************************************)
(* Three-valued logic of the rule evaluator, knowledge/runtime/kleene.py.  *)
(* An operand list is a function from a finite index set (a sequence, or   *)
(* any other) to Values; the operators do not depend on its order.         *)
(***************************************************************************)
EXTENDS Naturals, FiniteSets

Values == {"TRUE", "FALSE", "UNKNOWN"}

\* The operands of v that have the value x.
Having(x, v) == {i \in DOMAIN v : v[i] = x}

\* FALSE dominates, UNKNOWN blocks TRUE, no operand is TRUE.
all_of(v) ==
    IF Having("FALSE", v) # {} THEN "FALSE"
    ELSE IF Having("UNKNOWN", v) # {} THEN "UNKNOWN" ELSE "TRUE"

\* TRUE dominates, UNKNOWN blocks FALSE, no operand is FALSE.
any_of(v) ==
    IF Having("TRUE", v) # {} THEN "TRUE"
    ELSE IF Having("UNKNOWN", v) # {} THEN "UNKNOWN" ELSE "FALSE"

\* At least n >= 1 operands hold.
n_of(n, v) ==
    LET t == Cardinality(Having("TRUE", v))
        u == Cardinality(Having("UNKNOWN", v))
    IN  IF t >= n THEN "TRUE" ELSE IF t + u < n THEN "FALSE" ELSE "UNKNOWN"

-----------------------------------------------------------------------------
\* w resolves v: every operand of v that is determined keeps its value in w.
Resolves(w, v) ==
    /\ DOMAIN w = DOMAIN v
    /\ \A i \in DOMAIN v : v[i] # "UNKNOWN" => w[i] = v[i]

\* The resolutions of v that leave nothing unknown.
Resolutions(v) == {w \in [DOMAIN v -> {"TRUE", "FALSE"}] : Resolves(w, v)}
=============================================================================

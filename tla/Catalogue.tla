------------------------------ MODULE Catalogue ------------------------------
(***************************************************************************)
(* What the loader (knowledge/runtime/loader.py, indexes.py) demands of a  *)
(* bundle's knowledge before the kernel sees any of it.  Only the fields   *)
(* that modules Detection and Decision use are there; sources, evidence    *)
(* records, indicator families and dimensions, which no result depends on, *)
(* are left out, and so are deprecated suppressors.  The shapes of the     *)
(* members are those of the constants.                                     *)
(***************************************************************************)
EXTENDS Decision

CONSTANTS
    Taxonomy,               \* the ids of categories
    SuppressionCategories   \* the suppression vocabulary of the negative library

\* One namespace for the ids that rules and policies refer to (rules have numbers here).
UniqueIds ==
    /\ DOMAIN Indicators \cap DOMAIN Negatives = {}
    /\ Taxonomy \cap (DOMAIN Indicators \cup DOMAIN Negatives) = {}

\* Every rule that is shipped, published or not: operands resolve and have the polarity of the kind.
RuleReferences ==
    \A id \in DOMAIN Rules :
        /\ operands(Rules[id].cond) \subseteq
              IF Rules[id].kind = "COMPOSITE" THEN DOMAIN Indicators ELSE DOMAIN Negatives
        /\ Rules[id].categories \subseteq Taxonomy

NegativeReferences ==
    \A n \in DOMAIN Negatives :
        /\ Negatives[n].families \subseteq Taxonomy \cup {AnyFamily}
        /\ Negatives[n].targets \subseteq DOMAIN Indicators

OverrideReferences ==
    \A o \in DOMAIN Overrides :
        /\ operands(Overrides[o].cond) \subseteq DOMAIN Indicators
        /\ Overrides[o].families \subseteq Taxonomy
        /\ Overrides[o].rules \subseteq DOMAIN Rules
        /\ Overrides[o].blocks \subseteq SuppressionCategories

ActionPolicyReferences ==
    \A i \in DOMAIN ActionPolicy :
        LET trigger == ActionPolicy[i]
        IN  /\ trigger.type = "OVERRIDE" => trigger.id \in DOMAIN Overrides
            /\ trigger.type = "RULE" => trigger.id \in DOMAIN Rules
            /\ trigger.type = "TAXONOMY" => trigger.id \in Taxonomy
            /\ trigger.type = "NEGATIVE_INDICATOR" => trigger.id \in DOMAIN Negatives

\* A tree as rule.schema.json has it: at least one node, operands before their operator.
Condition(c) ==
    /\ Len(c) \in Nat \ {0} /\ DOMAIN c = 1..Len(c)
    /\ \A i \in DOMAIN c :
          \/ c[i].op = "leaf"
          \/ /\ c[i].op \in {"all_of", "any_of", "n_of"} /\ c[i].of \subseteq 1..(i - 1)
             /\ c[i].op = "n_of" => c[i].n \in Nat \ {0}

\* What the schemas demand of the fields that the kernel computes with.
WellShaped ==
    /\ IsFiniteSet(DOMAIN Rules) /\ DOMAIN Rules \subseteq Nat \ {0}
    /\ \A id \in DOMAIN Rules :
          /\ Condition(Rules[id].cond) /\ Rules[id].kind \in {"COMPOSITE", "SUPPRESSION"}
          /\ Rules[id].kind = "COMPOSITE" =>
                /\ Rules[id].verdict \in DOMAIN VERDICT_RANK
                /\ Rules[id].severity \in 1..4 /\ Rules[id].severity_cap \in 0..3
                /\ Rules[id].min_classes \in Nat \ {0, 1}
    /\ \A p \in DOMAIN Indicators :
          Indicators[p].class \in Nat \ {0} /\ Indicators[p].strength \in 1..3
    /\ \A n \in DOMAIN Negatives :
          Negatives[n].effect = "CAP_SEVERITY" => Negatives[n].cap \in 1..3
    /\ \A o \in DOMAIN Overrides : Condition(Overrides[o].cond)

(* The kernel runs over knowledge that the loader accepted, and no other.  *)
ASSUME KnowledgeAccepted ==
    /\ UniqueIds /\ WellShaped
    /\ RuleReferences /\ NegativeReferences /\ OverrideReferences
    /\ ActionPolicyReferences
=============================================================================

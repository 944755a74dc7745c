------------------------------ MODULE Decision ------------------------------
(***************************************************************************)
(* From rule results to one decision (knowledge/runtime/aggregation.py),   *)
(* its explanation and recommended actions (explanation.py) and the        *)
(* validated result (result.py).  The three stages check each other: the   *)
(* later ones refuse a decision that the earlier one could not have made.  *)
(*                                                                         *)
(* Evidence strengths are 1 WEAK, 2 MODERATE, 3 STRONG, risks are          *)
(* severities; 0 is NONE or NOT_APPLICABLE.  Observation ids and evidence  *)
(* classes are naturals, which stand for their lexical order.              *)
(***************************************************************************)
EXTENDS Detection, SequencesExt

CONSTANT ActionPolicy    \* a list of entries [type, id, code, classes]; classes = {} means all

SCAM == {"SCAM_PATTERN_DETECTED", "SCAM_PATTERN_SUSPECTED"}
Evaluable == {"SUPPORTED", "PARTIALLY_SUPPORTED"}
VERDICT_RANK == [SUPPORTED |-> 3, PARTIAL |-> 2, HEURISTIC |-> 1, UNSUPPORTED |-> 0]
VERDICT_STRENGTH_CAP == [SUPPORTED |-> 3, PARTIAL |-> 2, HEURISTIC |-> 1, UNSUPPORTED |-> 1]
RISK_MATRIX == <<<<1, 1, 2>>, <<1, 2, 2>>, <<2, 3, 3>>, <<3, 3, 4>>>>

-----------------------------------------------------------------------------
(* aggregation.py: predicates on rule results *)

is_eligible_matched(r) ==
    r.kind = "COMPOSITE" /\ r.state = "MATCHED" /\ r.required = "TRUE" /\ r.severity \in 1..4

\* Mutant: only ambiguity counts as unresolved, not low or absent confidence.
AmbiguousOnly(r) ==
    r.kind = "COMPOSITE" /\ r.state = "INDETERMINATE" /\ r.required = "UNKNOWN" /\ r.ambiguities # {}

is_unresolved_harmful(r) ==
    /\ r.kind = "COMPOSITE" /\ r.state = "INDETERMINATE" /\ r.required = "UNKNOWN"
    /\ r.ambiguities # {} \/ r.unknowns # {}

is_benign_clear(r) ==
    /\ r.kind = "COMPOSITE"
    /\ r.state = "SUPPRESSED" \/ (r.state = "NOT_MATCHED" /\ r.required = "FALSE")

is_degraded(r) == r.state = "NOT_APPLICABLE" /\ r.error # "NONE"

Composites(rs) == {r \in rs : r.kind = "COMPOSITE"}
Eligible(rs) == {r \in rs : is_eligible_matched(r)}

\* The states that each combination result allows, and what a rule result must resolve.
check_semantic_invariants(r) ==
    /\ r.required \in CASE r.state \in {"MATCHED", "SUPPRESSED"} -> {"TRUE"}
                        [] r.state = "INDETERMINATE" -> {"UNKNOWN"}
                        [] r.state = "NOT_MATCHED" -> {"TRUE", "FALSE"}
                        [] r.state = "NOT_APPLICABLE" -> Values
    /\ (r.state = "NOT_APPLICABLE") = (r.error # "NONE")
    /\ r.kind = "COMPOSITE" /\ r.state # "NOT_APPLICABLE" => r.verdict \in DOMAIN VERDICT_RANK
    /\ r.kind = "COMPOSITE" /\ r.state = "MATCHED" => r.severity \in 1..4
    /\ r.positives \cup r.neutralised \subseteq DOMAIN Indicators
    /\ r.negatives \subseteq DOMAIN Negatives
    /\ r.overrides \subseteq DOMAIN Overrides
    /\ DOMAIN r.prov \subseteq r.positives

-----------------------------------------------------------------------------
(* aggregation.py: strength, governing rule *)

rule_evidence_strength(r) ==
    LET best == Max({1} \cup {Indicators[p].strength : p \in r.positives})
        capped == Min({best, VERDICT_STRENGTH_CAP[r.verdict]})
    IN  IF r.overrides # {} THEN Max({capped, 2}) ELSE capped

\* r comes before s: severity, verdict, breadth, then the lexical rule id.
Precedes(r, s) ==
    \/ r.severity > s.severity
    \/ r.severity = s.severity /\ VERDICT_RANK[r.verdict] > VERDICT_RANK[s.verdict]
    \/ /\ r.severity = s.severity /\ r.verdict = s.verdict
       /\ Cardinality(r.classes) > Cardinality(s.classes)
    \/ /\ r.severity = s.severity /\ r.verdict = s.verdict
       /\ Cardinality(r.classes) = Cardinality(s.classes) /\ r.id < s.id

select_governing(eligible) ==
    CHOOSE r \in eligible : \A s \in eligible \ {r} : Precedes(r, s)

-----------------------------------------------------------------------------
(* aggregation.py: independent evidence.  Groups of observations that share *)
(* a reference are one component (union-find); the count is a maximum      *)
(* matching of evidence classes with components (augmenting paths).        *)

\* root gives the representative of each reference; joining a group keeps the least one.
UnionGroup(root, group) ==
    LET roots == {root[r] : r \in group}
    IN  [x \in DOMAIN root |-> IF root[x] \in roots THEN Min(roots) ELSE root[x]]

Roots(groups) ==
    LET root[gs \in SUBSET groups] ==
            IF gs = {} THEN [r \in UNION groups |-> r]
            ELSE LET g == CHOOSE h \in gs : TRUE IN UnionGroup(root[gs \ {g}], g)
    IN  root[groups]

Entries(eligible) ==
    UNION {UNION {{<<Indicators[p].class, g>> : g \in r.prov[p]} : p \in DOMAIN r.prov}
             : r \in eligible}

ClassToComponent(entries) ==
    LET root == Roots({e[2] : e \in entries})
    IN  [c \in {e[1] : e \in entries} |-> {root[Min(e[2])] : e \in {x \in entries : x[1] = c}}]

\* A matching gives each component a class, or 0.
Components(adj) == UNION {adj[c] : c \in DOMAIN adj}
Matched(m) == {k \in DOMAIN m : m[k] # 0}

\* The search of the class start for an augmenting path: of what a class could have and the
\* search has not seen, the least component that is free or that its holder can give up.
augment(adj, m, start) ==
    LET try[seen \in SUBSET Components(adj)] ==
            [c \in DOMAIN adj |->
                LET comp == Min(adj[c] \ seen)
                    deeper == try[seen \cup {comp}][m[comp]]
                IN  IF adj[c] \subseteq seen THEN [found |-> FALSE, m |-> m, seen |-> seen]
                    ELSE IF m[comp] = 0 THEN [found |-> TRUE, m |-> [m EXCEPT ![comp] = c], seen |-> seen]
                    ELSE IF deeper.found
                    THEN [found |-> TRUE, m |-> [deeper.m EXCEPT ![comp] = c], seen |-> deeper.seen]
                    ELSE try[seen \cup {comp} \cup deeper.seen][c]]
    IN  try[{}][start].m

\* Mutant: the least free component is taken and none is given back.
GreedyMatching(adj) ==
    LET after[cs \in SUBSET DOMAIN adj] ==
            IF cs = {} THEN [k \in Components(adj) |-> 0]
            ELSE LET c == Max(cs)
                     m == after[cs \ {c}]
                     free == adj[c] \ Matched(m)
                 IN  IF free = {} THEN m ELSE [m EXCEPT ![Min(free)] = c]
    IN  after[DOMAIN adj]

\* Every class searches once, in order.
max_bipartite_matching(adj) ==
    LET after[cs \in SUBSET DOMAIN adj] ==
            IF cs = {} THEN [k \in Components(adj) |-> 0]
            ELSE augment(adj, after[cs \ {Max(cs)}], Max(cs))
    IN  after[DOMAIN adj]

proven_independence(eligible) ==
    Cardinality(Matched(max_bipartite_matching(ClassToComponent(Entries(eligible)))))

-----------------------------------------------------------------------------
(* aggregation.py: the decision *)

\* Bands 0 NONE, 1 LOW, 2 MEDIUM, 3 HIGH.
CorroborationBand(count, verdict) ==
    Min({count, IF verdict \in {"PARTIAL", "HEURISTIC"} THEN 2 ELSE 3})

corroboration_no_fire(rs, class) ==
    IF /\ class = "INSUFFICIENT_EVIDENCE"
       /\ ~ \E r \in rs : is_unresolved_harmful(r)
       /\ \E r \in Composites(rs) : r.positives # {}
    THEN 1 ELSE 0

detection_confidence(gov, count) ==
    LET sure == \A p \in gov.positives : p \in DOMAIN gov.conf /\ gov.conf[p] >= 2
    IN  IF /\ gov.verdict = "SUPPORTED" /\ gov.ambiguities = {}
           /\ gov.positives # {} /\ sure
           /\ count >= 3 \/ gov.overrides # {}
        THEN 3
        ELSE IF gov.context # {} \/ gov.verdict \in {"HEURISTIC", "UNSUPPORTED"} THEN 1 ELSE 2

classify(support, eligible, rs, confidence, error) ==
    CASE error \/ support = "ERROR" -> "ERROR"
      [] ~ error /\ support = "UNSUPPORTED" -> "UNSUPPORTED"
      [] ~ error /\ support = "INSUFFICIENT_INFORMATION" -> "INSUFFICIENT_EVIDENCE"
      [] ~ error /\ support \in Evaluable ->
            IF eligible # {}
            THEN IF confidence = 1 THEN "SCAM_PATTERN_SUSPECTED" ELSE "SCAM_PATTERN_DETECTED"
            ELSE IF /\ ~ \E r \in rs : is_degraded(r) \/ is_unresolved_harmful(r)
                    /\ \E r \in rs : is_benign_clear(r)
            THEN "NO_SCAM_PATTERN" ELSE "INSUFFICIENT_EVIDENCE"

risk_level(severity, strength) == IF severity = 0 THEN 0 ELSE RISK_MATRIX[severity][strength]

Unexplained == [actions |-> {}, suppression |-> <<>>, support |-> {}]

\* Roll-ups of a decision over its rule results, with the axes that the caller computed.
assemble(support, class, axes, gov, eligible, rs, whole) ==
    [support |-> support, class |-> class, severity |-> axes[1], strength |-> axes[2],
     risk |-> risk_level(axes[1], axes[2]), confidence |-> axes[3], count |-> axes[4],
     band |-> axes[5], governing |-> gov,
     matched_rules |-> {r.id : r \in eligible},
     positives |-> UNION {r.positives : r \in eligible},
     negatives |-> UNION {r.negatives : r \in Composites(rs)},
     suppressed |-> UNION {r.neutralised : r \in Composites(rs)},
     overrides |-> UNION {r.overrides : r \in Composites(rs)},
     ambiguities |-> UNION {r.ambiguities : r \in Composites(rs)},
     unknowns |-> UNION {r.unknowns : r \in Composites(rs)},
     degraded |-> \E r \in rs : is_degraded(r),
     errors |-> {<<r.id, r.error>> : r \in {x \in rs : is_degraded(x)}},
     whole |-> whole, results |-> rs, explanation |-> Unexplained]

aggregate_decision(rs, support, whole) ==
    LET eligible == Eligible(rs)
        gov == select_governing(eligible)
        count == proven_independence(eligible)
        conf == IF \E r \in rs : is_degraded(r) THEN Min({detection_confidence(gov, count), 2})
                ELSE detection_confidence(gov, count)
        quiet == classify(support, {}, rs, 0, whole)
    IN  IF whole \/ support \notin Evaluable
        THEN assemble(support, quiet, <<0, 0, 0, 0, 0>>, 0, {}, rs, whole)
        ELSE IF eligible = {}
        THEN assemble(support, quiet, <<0, 0, 0, 0, corroboration_no_fire(rs, quiet)>>, 0, {}, rs, whole)
        ELSE assemble(support, classify(support, eligible, rs, conf, whole),
                      <<Max({r.severity : r \in eligible}), rule_evidence_strength(gov), conf, count,
                        CorroborationBand(count, gov.verdict)>>,
                      gov.id, eligible, rs, whole)

-----------------------------------------------------------------------------
(* explanation.py: what is checked before anything is explained *)

validate_wp5_rollups(d) ==
    LET eligible == {r \in d.results : is_eligible_matched(r)}
        composites == {r \in d.results : r.kind = "COMPOSITE"}
    IN  /\ d.matched_rules = {r.id : r \in eligible}
        /\ d.positives = UNION {r.positives : r \in eligible}
        /\ d.negatives = UNION {r.negatives : r \in composites}
        /\ d.suppressed = UNION {r.neutralised : r \in composites}
        /\ d.overrides = UNION {r.overrides : r \in composites}
        /\ d.ambiguities = UNION {r.ambiguities : r \in composites}
        /\ d.unknowns = UNION {r.unknowns : r \in composites}
        /\ d.degraded = \E r \in d.results : is_degraded(r)
        /\ d.errors = {<<r.id, r.error>> : r \in {x \in d.results : is_degraded(x)}}

validate_classification(d) ==
    LET none == d.severity = 0 /\ d.strength = 0 /\ d.risk = 0 /\ d.confidence = 0
        quiet == d.governing = 0 /\ Eligible(d.results) = {} /\ none
    IN  /\ d.whole => d.class = "ERROR"
        /\ CASE d.class \in SCAM ->
                  /\ d.support \in Evaluable
                  /\ d.governing \in d.matched_rules
                  /\ \E r \in Eligible(d.results) : r.id = d.governing
                  /\ d.severity # 0 /\ d.strength # 0 /\ d.risk # 0 /\ d.confidence # 0
                  /\ (d.class = "SCAM_PATTERN_SUSPECTED") = (d.confidence = 1)
             [] d.class = "NO_SCAM_PATTERN" -> d.support \in Evaluable /\ quiet
             [] d.class = "INSUFFICIENT_EVIDENCE" -> quiet
             [] d.class = "UNSUPPORTED" -> d.support = "UNSUPPORTED" /\ quiet
             [] d.class = "ERROR" -> (d.support = "ERROR" \/ d.whole) /\ quiet

\* The rules that a finding or an action rests on: matched, or unresolved and decisive.
Unresolved(d) == {r.id : r \in {x \in d.results : is_unresolved_harmful(x)}}
contributing_rule_ids(d) ==
    d.matched_rules \cup ({d.governing} \ {0})
        \cup (IF d.class = "INSUFFICIENT_EVIDENCE" THEN Unresolved(d) ELSE {})

validate_explanation_input(d) ==
    /\ \A r \in d.results : check_semantic_invariants(r) /\ r.id \in DOMAIN Rules
    /\ validate_wp5_rollups(d)
    /\ validate_classification(d)
    /\ contributing_rule_ids(d) \subseteq PublishedRules
    /\ d.overrides \subseteq DOMAIN Overrides

VerificationRules(d) == {id \in contributing_rule_ids(d) : Rules[id].steps}

\* The reasons for which a policy entry fires; an entry without reasons does not.
Reasons(d, e) ==
    CASE e.type = "OVERRIDE" -> {e.id} \cap d.overrides
      [] e.type = "RULE" -> {e.id} \cap d.matched_rules
      [] e.type = "TAXONOMY" -> {id \in d.matched_rules : e.id \in Rules[id].categories}
      [] e.type = "NEGATIVE_INDICATOR" -> {e.id} \cap d.negatives
      [] e.type = "RULE_VERIFICATION_POLICY" -> VerificationRules(d)
      [] e.type = "SYSTEM_CLASSIFICATION" -> {e.id} \cap {d.class}
      [] e.type = "SYSTEM_SUPPORT_STATUS" -> {e.id} \cap {d.support}

recommended_actions(d) ==
    {ActionPolicy[i].code : i \in {j \in DOMAIN ActionPolicy :
        LET e == ActionPolicy[j]
        IN  (e.classes = {} \/ d.class \in e.classes) /\ Reasons(d, e) # {}}}

\* The outcome that is told of each suppressor: applied wins over blocked, blocked over recorded.
suppression_considered(d) ==
    LET told == UNION {r.applied \cup r.blocked \cup r.reported \cup r.context : r \in d.results}
    IN  [n \in told |-> IF \E r \in d.results : n \in r.applied THEN "APPLIED"
                        ELSE IF \E r \in d.results : n \in r.blocked \cup r.reported
                        THEN "BLOCKED_BY_OVERRIDE"
                        ELSE "RECORDED_CONTEXT_ONLY"]

build_explanation(d) ==
    [actions |-> recommended_actions(d), suppression |-> suppression_considered(d),
     support |-> UNION {UNION {UNION r.prov[p] : p \in DOMAIN r.prov} : r \in Eligible(d.results)}]

-----------------------------------------------------------------------------
(* result.py: the checks of the assembled result *)

semantic_violations(d) ==
    LET fired == {r.id : r \in {x \in d.results : x.state = "MATCHED"}}
    IN  \/ d.matched_rules # fired
        \/ (d.severity = 0) # (d.strength = 0)
        \/ d.risk # risk_level(d.severity, d.strength)
        \/ d.support = "UNSUPPORTED" /\ d.class # "UNSUPPORTED"
        \/ d.support = "ERROR" /\ d.class # "ERROR"
        \/ d.support = "INSUFFICIENT_INFORMATION" /\ d.class # "INSUFFICIENT_EVIDENCE"
        \/ fired # {} /\ d.class \notin SCAM
        \/ fired # {} /\ d.confidence # 0 /\ (d.confidence = 1) # (d.class = "SCAM_PATTERN_SUSPECTED")
        \/ fired # {} /\ d.severity = 0
        \/ fired = {} /\ d.class \in SCAM
        \/ fired = {} /\ (d.severity # 0 \/ d.risk # 0 \/ d.confidence # 0)
=============================================================================

------------------------------ MODULE Detection ------------------------------
(***************************************************************************)
(* Rule evaluation (knowledge/runtime/observations.py, evaluator.py) and   *)
(* rule-level suppression (suppression.py): one result per published rule. *)
(*                                                                         *)
(* Severities are 1 LOW, 2 MEDIUM, 3 HIGH, 4 CRITICAL and confidences 1    *)
(* LOW, 2 MEDIUM, 3 HIGH; 0 is an absent one.  Rule ids are their lexical   *)
(* ranks.  An occurrence is a record [ind, matched, conf, polarity, refs,  *)
(* input], a backing observation a record [id, status, polarity,           *)
(* attribution, mood, input].                                              *)
(***************************************************************************)
EXTENDS Kleene, Sequences, FiniteSetsExt

CONSTANTS
    Indicators, \* positive id -> [class, strength]
    Negatives,  \* negative id -> [effect, category, blockable, targets, families, cap]
    Overrides,  \* override id -> [rules, families, cond, blocks]
    Rules       \* rule id -> [kind, status, categories, cond, min_classes, severity,
                \*             severity_cap, verdict, languages, scripts, steps]

GATE == 2                 \* the extraction confidence gate, MEDIUM
Soft == {"SUPPRESS_RULE", "CAP_SEVERITY"}
AnyFamily == "*"

(* The library's promise: a soft suppressor whose category an override     *)
(* blocks is blockable.  Without it the two stages resolve it differently. *)
ASSUME SoftAreBlockable ==
    \A n \in DOMAIN Negatives, o \in DOMAIN Overrides :
        Negatives[n].effect \in Soft /\ Negatives[n].category \in Overrides[o].blocks
            => Negatives[n].blockable

SevMin(a, b) == IF b = 0 \/ (a # 0 /\ a <= b) THEN a ELSE b

-----------------------------------------------------------------------------
(* observations.py *)

observation_verdict(o) ==
    CASE o.status \in {"UNKNOWN", "AMBIGUOUS"} -> "UNRESOLVED"
      [] o.status \in {"NOT_OBSERVED", "NOT_APPLICABLE"} -> "NON_LIVE"
      [] o.status = "OBSERVED" ->
            IF o.polarity = "AFFIRMED" /\ o.attribution = "FIRST_PARTY" /\ o.mood # "DESCRIPTIVE"
            THEN "LIVE" ELSE "NON_LIVE"

\* The observations behind an occurrence must agree.
structural_verdict(obs, io) ==
    LET verdicts == {observation_verdict(obs[r]) : r \in io.refs}
    IN  IF Cardinality(verdicts) = 1 THEN CHOOSE s \in verdicts : TRUE ELSE "UNRESOLVED"

ById(obs) == [i \in {o.id : o \in obs} |-> CHOOSE o \in obs : o.id = i]

\* What build_validated_context accepts: one input, every reference resolved, no contradiction.
ValidContext(occs, obs) ==
    /\ \A a, b \in obs : a.id = b.id => a = b
    /\ Cardinality({io.input : io \in occs} \cup {o.input : o \in obs}) <= 1
    /\ \A io \in occs :
          /\ io.refs \subseteq {o.id : o \in obs}
          /\ \A r \in io.refs :
                ~ (/\ io.matched = "OBSERVED"
                   /\ ById(obs)[r].status \in {"NOT_OBSERVED", "NOT_APPLICABLE"})

build_validated_context(occs, obs, language, script) ==
    [occs |-> occs, obs |-> ById(obs), language |-> language, script |-> script]

OccurrencesOf(ctx, ind) == {io \in ctx.occs : io.ind = ind}

-----------------------------------------------------------------------------
(* evaluator.py: the truth of indicators *)

Truth(v, r) == [value |-> v, reason |-> r, neutralised |-> FALSE]
Neutral(v, r) == [value |-> v, reason |-> r, neutralised |-> TRUE]

gate_single(io) ==
    CASE io.matched = "OBSERVED" ->
            IF io.conf = 0 THEN Truth("UNKNOWN", "confidence_absent")
            ELSE IF io.conf >= GATE THEN Truth("TRUE", "observed")
            ELSE Truth("UNKNOWN", "low_confidence")
      [] io.matched \in {"NOT_OBSERVED", "NOT_APPLICABLE"} -> Truth("FALSE", "not_observed")
      [] io.matched = "AMBIGUOUS" -> Truth("UNKNOWN", "ambiguous")
      [] io.matched = "UNKNOWN" -> Truth("UNKNOWN", "unknown_extraction")

\* Mutant: a suppressor that is about other words withdraws an occurrence.
AnySuppressor(io, suppressors, base) ==
    IF suppressors # {} THEN Neutral("FALSE", "associated_suppression") ELSE base

\* A positive occurrence that structure has not decided meets its suppressors.
suppression_association(io, suppressors, base) ==
    IF \E s \in suppressors : s.refs \cap io.refs # {}
    THEN Neutral("FALSE", "associated_suppression")
    ELSE IF \E s \in suppressors : s.refs = {} \/ io.refs = {}
    THEN Truth("UNKNOWN", "unresolved_suppression_association")
    ELSE base

OccurrenceTruth(obs, io, suppressors) ==
    LET g == gate_single(io)
        s == structural_verdict(obs, io)
        base ==
            IF s = "NON_LIVE"
            THEN [g EXCEPT !.value = "FALSE", !.reason = "structural_nonlive",
                           !.neutralised = (g.value # "FALSE")]
            ELSE IF s = "LIVE" \/ g.value = "FALSE" THEN g
            ELSE Truth("UNKNOWN", "unresolved_structure")
    IN  IF io.polarity \notin {"NONE", "POSITIVE"} THEN Truth("UNKNOWN", "polarity_mismatch")
        ELSE IF base.value = "FALSE" THEN base
        ELSE suppression_association(io, suppressors, base)

\* The reason given for an unknown indicator is the first of these that applies.
ReasonOrder == <<"unresolved_suppression_association", "ambiguous", "unresolved_structure",
                 "polarity_mismatch", "low_confidence", "confidence_absent", "unknown_extraction">>

\* Mutant: every occurrence has to hold, so that a doubtful one withdraws a live one.
CombineAllOccurrences(ctx, ind, suppressors) ==
    LET occs == OccurrencesOf(ctx, ind)
        truth == [io \in occs |-> OccurrenceTruth(ctx.obs, io, suppressors)]
        unknown == {i \in DOMAIN ReasonOrder :
                       \E io \in occs : truth[io].value = "UNKNOWN" /\ truth[io].reason = ReasonOrder[i]}
        value == all_of([io \in occs |-> truth[io].value])
    IN  [value |-> value,
         reason |-> IF value = "UNKNOWN" THEN ReasonOrder[Min(unknown)] ELSE "determined",
         neutralised |-> \E io \in occs : truth[io].neutralised,
         groups |-> {io.refs : io \in {x \in occs : truth[x].value = "TRUE" /\ x.refs # {}}}]

combine_positive(ctx, ind, suppressors) ==
    LET occs == OccurrencesOf(ctx, ind)
        truth == [io \in occs |-> OccurrenceTruth(ctx.obs, io, suppressors)]
        unknown == {i \in DOMAIN ReasonOrder :
                       \E io \in occs : truth[io].value = "UNKNOWN" /\ truth[io].reason = ReasonOrder[i]}
        value == any_of([io \in occs |-> truth[io].value])
    IN  [value |-> value,
         reason |-> IF value = "UNKNOWN" THEN ReasonOrder[Min(unknown)] ELSE "determined",
         neutralised |-> \E io \in occs : truth[io].neutralised,
         groups |-> {io.refs : io \in {x \in occs : truth[x].value = "TRUE" /\ x.refs # {}}}]

NegativeGate(io) ==
    IF io.polarity \notin {"NONE", "NEGATIVE"} THEN "UNKNOWN" ELSE gate_single(io).value

combine_negative(ctx, n) ==
    any_of([io \in OccurrencesOf(ctx, n) |-> NegativeGate(io)])

active_negatives(ctx) ==
    {n \in DOMAIN Negatives : OccurrencesOf(ctx, n) # {} /\ combine_negative(ctx, n) = "TRUE"}

-----------------------------------------------------------------------------
(* evaluator.py: conditions.  A condition tree is the list of its nodes, the  *)
(* root last: a leaf [op, id], or an operator [op, n, of] over the earlier     *)
(* positions in of.  An id without a truth value is UNKNOWN.                   *)

NodeValue(node, truth, args) ==
    CASE node.op = "leaf" -> IF node.id \in DOMAIN truth THEN truth[node.id] ELSE "UNKNOWN"
      [] node.op = "all_of" -> all_of(args)
      [] node.op = "any_of" -> any_of(args)
      [] node.op = "n_of" -> n_of(node.n, args)

Operands(node) == IF node.op = "leaf" THEN {} ELSE node.of

eval_condition(c, truth) ==
    LET value[i \in DOMAIN c] == NodeValue(c[i], truth, [j \in Operands(c[i]) |-> value[j]])
    IN  value[Len(c)]

operands(c) == {c[i].id : i \in {j \in DOMAIN c : c[j].op = "leaf"}}

-----------------------------------------------------------------------------
(* evaluator.py: one rule *)

override_applies(o, id) ==
    id \in Overrides[o].rules \/ Rules[id].categories \cap Overrides[o].families # {}

active_overrides(id, truth) ==
    {o \in DOMAIN Overrides :
        override_applies(o, id) /\ eval_condition(Overrides[o].cond, truth) = "TRUE"}

BlockedCategories(active) == UNION {Overrides[o].blocks : o \in active}

negative_applies(n, id) ==
    AnyFamily \in Negatives[n].families \/ Negatives[n].families \cap Rules[id].categories # {}

\* Only an effect that is declared blockable is blocked by an override.
is_blocked(n, blocked) == Negatives[n].blockable /\ Negatives[n].category \in blocked

ActiveSuppressorOccurrences(ctx, target, matched, blocked) ==
    {io \in ctx.occs :
        /\ io.ind \in matched
        /\ Negatives[io.ind].effect = "SUPPRESS_INDICATOR"
        /\ target \in Negatives[io.ind].targets
        /\ ~ is_blocked(io.ind, blocked)
        /\ NegativeGate(io) = "TRUE"}

\* The soft suppressors that the evaluator reports as blocked, for the next stage to confirm.
suppression_candidates(matched, active) ==
    {n \in matched : /\ active # {}
                     /\ Negatives[n].effect \in Soft
                     /\ Negatives[n].category \in BlockedCategories(active)}

ContextOnly(matched) == {n \in matched : Negatives[n].effect = "CONTEXT_ONLY"}

\* The decisive operands that are present and unknown, by the kind of doubt.
Ambiguities(pos, ops) ==
    {o \in ops \cap DOMAIN pos :
        /\ pos[o].value = "UNKNOWN"
        /\ pos[o].reason \in {"ambiguous", "unresolved_structure",
                              "unresolved_suppression_association", "polarity_mismatch"}}
Unknowns(pos, ops) ==
    {o \in ops \cap DOMAIN pos : pos[o].value = "UNKNOWN"} \ Ambiguities(pos, ops)

representative_confidence(occs) ==
    Max({0} \cup {io.conf : io \in {x \in occs : x.matched = "OBSERVED"}})

NoResult(id) ==
    [id |-> id, kind |-> Rules[id].kind, state |-> "NOT_APPLICABLE", required |-> "UNKNOWN",
     positives |-> {}, classes |-> {}, negatives |-> {}, neutralised |-> {}, overrides |-> {},
     reported |-> {}, context |-> {}, ambiguities |-> {}, unknowns |-> {}, conf |-> <<>>,
     prov |-> <<>>, severity |-> 0, verdict |-> "NONE", error |-> "NONE",
     applied |-> {}, capped |-> {}, blocked |-> {}]

not_applicable(id, code) == [NoResult(id) EXCEPT !.error = code]

Present(ctx) == {p \in DOMAIN Indicators : OccurrencesOf(ctx, p) # {}}

\* Overrides are decided before suppression, so that they can stop it.
RuleOverrides(ctx, id) ==
    active_overrides(id, [p \in Present(ctx) |-> combine_positive(ctx, p, {}).value])

RuleNegatives(ctx, id) == {n \in active_negatives(ctx) : negative_applies(n, id)}

\* The positives as this rule sees them, past the suppressors that no override stops.
RulePositives(ctx, id) ==
    LET blocked == BlockedCategories(RuleOverrides(ctx, id))
        matched == RuleNegatives(ctx, id)
    IN  [p \in Present(ctx) |->
            combine_positive(ctx, p, ActiveSuppressorOccurrences(ctx, p, matched, blocked))]

\* The result of a rule whose overrides, negatives and positives are known.
CompositeResult(ctx, id, active, matched, pos) ==
    LET rule == Rules[id]
        present == Present(ctx)
        required == eval_condition(rule.cond, [p \in present |-> pos[p].value])
        ops == operands(rule.cond) \cap DOMAIN Indicators
        positives == {p \in ops \cap present : pos[p].value = "TRUE"}
        classes == {Indicators[p].class : p \in positives}
    IN  [NoResult(id) EXCEPT
           !.state = CASE required = "TRUE" -> IF Cardinality(classes) >= rule.min_classes
                                               THEN "MATCHED" ELSE "NOT_MATCHED"
                       [] required = "FALSE" -> "NOT_MATCHED"
                       [] required = "UNKNOWN" -> "INDETERMINATE",
           !.required = required,
           !.positives = positives,
           !.classes = classes,
           !.negatives = matched,
           !.neutralised = {p \in present : pos[p].value = "FALSE" /\ pos[p].neutralised},
           !.overrides = active,
           !.reported = suppression_candidates(matched, active),
           !.context = ContextOnly(matched),
           !.ambiguities = Ambiguities(pos, ops),
           !.unknowns = Unknowns(pos, ops),
           !.conf = [p \in ops \cap present |-> representative_confidence(OccurrencesOf(ctx, p))],
           !.prov = [p \in {q \in positives : pos[q].groups # {}} |-> pos[p].groups],
           !.severity = SevMin(rule.severity, rule.severity_cap),
           !.verdict = rule.verdict]

evaluate_composite(ctx, id) ==
    CompositeResult(ctx, id, RuleOverrides(ctx, id), RuleNegatives(ctx, id), RulePositives(ctx, id))

evaluate_suppression(ctx, id) ==
    LET present == {n \in DOMAIN Negatives : OccurrencesOf(ctx, n) # {}}
        truth == [n \in present |-> combine_negative(ctx, n)]
        required == eval_condition(Rules[id].cond, truth)
    IN  [NoResult(id) EXCEPT
           !.state = CASE required = "TRUE" -> "MATCHED"
                       [] required = "FALSE" -> "NOT_MATCHED"
                       [] required = "UNKNOWN" -> "INDETERMINATE",
           !.required = required,
           !.negatives = {n \in operands(Rules[id].cond) \cap present : truth[n] = "TRUE"},
           !.verdict = Rules[id].verdict]

language_in_scope(ctx, id) ==
    /\ Rules[id].languages = {} \/ ctx.language \in Rules[id].languages
    /\ Rules[id].scripts = {} \/ ctx.script \in Rules[id].scripts

run_isolated(ctx, id) ==
    IF ~ language_in_scope(ctx, id) THEN not_applicable(id, "LANGUAGE_OUT_OF_SCOPE")
    ELSE IF Rules[id].kind = "SUPPRESSION" THEN evaluate_suppression(ctx, id)
    ELSE evaluate_composite(ctx, id)

\* Every published rule, and no other.
PublishedRules == {id \in DOMAIN Rules : Rules[id].status = "PUBLISHED"}
evaluate_rules(ctx) == [id \in PublishedRules |-> run_isolated(ctx, id)]

-----------------------------------------------------------------------------
(* suppression.py: what negatives do to a matched composite rule *)

apply(r) ==
    LET blocked == BlockedCategories(r.overrides)
        soft == {n \in r.negatives : Negatives[n].effect \in Soft}
        stopped == {n \in soft : is_blocked(n, blocked)}
        suppressors == {n \in soft \ stopped : Negatives[n].effect = "SUPPRESS_RULE"}
        caps == {n \in soft \ stopped : Negatives[n].effect = "CAP_SEVERITY"}
    IN  IF r.kind # "COMPOSITE" \/ r.state # "MATCHED" THEN r
        ELSE IF r.reported # {} /\ r.reported # stopped
        THEN [not_applicable(r.id, "SUPPRESSION_EXECUTION_ERROR") EXCEPT !.required = r.required]
        ELSE [r EXCEPT
                !.state = IF suppressors # {} THEN "SUPPRESSED" ELSE "MATCHED",
                !.severity = Min({r.severity} \cup {Negatives[n].cap : n \in caps}),
                !.applied = suppressors, !.capped = caps, !.blocked = stopped,
                !.context = ContextOnly(r.negatives)]

apply_all(results) == [id \in DOMAIN results |-> apply(results[id])]
=============================================================================

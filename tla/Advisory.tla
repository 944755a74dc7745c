------------------------------ MODULE Advisory ------------------------------
(***************************************************************************)
(* One evaluation of a submission with optional AI extraction              *)
(* (knowledge/ai/integration.py) through the deterministic kernel.  The    *)
(* provider's answer is untrusted: it is validated as a whole, its         *)
(* confidence is capped, it is mapped next to the host's observations, or  *)
(* it is dropped with a reason.  The kernel then runs once, on what is     *)
(* left.  The provider is external.                                        *)
(***************************************************************************)
EXTENDS Catalogue

CONSTANTS
    Inputs,     \* host data [occs, obs, language, script, support, whole, id, enabled, config]
    Responses,  \* provider answers [form, request, input, obs, inds]
    HostRun     \* the identifier that the host uses for the request and the AI run

Supports == Evaluable \cup {"UNSUPPORTED", "INSUFFICIENT_INFORMATION", "ERROR"}

\* The host's data: finite, and observation identifiers that can be ordered.
HostShaped(h) ==
    /\ IsFiniteSet(h.occs) /\ IsFiniteSet(h.obs)
    /\ \A o \in h.obs : o.id \in Nat
    /\ h.support \in Supports /\ h.whole \in BOOLEAN

(* What the host passes in, and what an answer that the schema accepts has. *)
ASSUME DataShaped ==
    /\ \A h \in Inputs : HostShaped(h)
    /\ \A x \in Responses : x.form = "schema_valid" =>
          IsFiniteSet(x.obs) /\ IsFiniteSet(x.inds) /\ \A o \in x.obs : o.pid \in Nat

VARIABLES
    input,      \* the host's data, read once
    stage,      \* the next stage
    reason,     \* why AI was not used
    attempted,
    response,   \* the provider's answer
    artifact,   \* the observations that the kernel consumes
    results,    \* rule results
    decision,
    outcome     \* "RESULT", or the stage that refused

vars == <<input, stage, reason, attempted, response, artifact, results, decision, outcome>>

Nothing == [class |-> "NONE"]

\* An evaluation begins with the host's data.
Started ==
    /\ stage = "gate" /\ reason = "NONE" /\ attempted = FALSE
    /\ response = [form |-> "NONE"]
    /\ artifact = [occs |-> input.occs, obs |-> input.obs]
    /\ results = <<>> /\ decision = Nothing /\ outcome = "NONE"

Init == input \in Inputs /\ Started

-----------------------------------------------------------------------------
(* integration.py: the optional path *)

GoOn(next) ==
    /\ stage' = next
    /\ UNCHANGED <<input, results, decision, outcome>>

\* AI is dropped: the kernel runs on the host's data.
FallBack(why) ==
    /\ reason' = why
    /\ GoOn("rules")
    /\ UNCHANGED artifact

HostEvaluable ==
    /\ input.support \in Evaluable /\ ~ input.whole
    /\ input.language = "en" /\ input.script = "Latn"

Disabled ==
    /\ stage = "gate" /\ ~ input.enabled
    /\ FallBack("DISABLED")
    /\ UNCHANGED <<attempted, response>>

NotEvaluable ==
    /\ stage = "gate" /\ input.enabled /\ ~ HostEvaluable
    /\ FallBack("HOST_NOT_EVALUABLE")
    /\ UNCHANGED <<attempted, response>>

\* The request is prepared from the pinned configuration.
Prepare ==
    /\ stage = "gate" /\ input.enabled /\ HostEvaluable
    /\ attempted' = TRUE
    /\ \/ /\ input.config # "invalid"
          /\ GoOn("provider") /\ UNCHANGED <<reason, artifact>>
       \/ input.config = "invalid" /\ FallBack("GOVERNANCE_FAILED")
    /\ UNCHANGED response

\* No provider, or one that raises a typed error (timeout, unavailable, refused, ...).
ProviderFails ==
    /\ stage = "provider"
    /\ FallBack("PROVIDER_FAILED")
    /\ UNCHANGED <<attempted, response>>

ProviderAnswers ==
    /\ stage = "provider"
    /\ response' \in Responses
    /\ GoOn("validate")
    /\ UNCHANGED <<reason, attempted, artifact>>

-----------------------------------------------------------------------------
(* validation.py: all of the answer or none of it *)

Duplicated(items) == \E a, b \in items : a # b /\ a.pid = b.pid

IndicatorKnown(i) ==
    IF i.polarity = "POSITIVE" THEN i.ind \in DOMAIN Indicators ELSE i.ind \in DOMAIN Negatives

\* A proposal is grounded when its excerpt is what the submitted text has at its offsets.
validate_ai_extraction(x, expected) ==
    /\ x.form = "schema_valid"       \* of the right type and size, parsed, no decision fields
    /\ x.request = HostRun
    /\ x.input = expected
    /\ ~ Duplicated(x.obs) /\ ~ Duplicated(x.inds)
    /\ \A o \in x.obs : o.input = expected /\ o.grounded
    /\ \A i \in x.inds :
          /\ i.input = expected
          /\ IndicatorKnown(i)
          /\ i.refs \subseteq {o.pid : o \in x.obs}
          /\ i.matched = "OBSERVED" => i.refs # {}

RejectResponse ==
    /\ stage = "validate"
    /\ ~ validate_ai_extraction(response, input.id)
    /\ FallBack("RESPONSE_REJECTED")
    /\ UNCHANGED <<attempted, response>>

AcceptResponse ==
    /\ stage = "validate"
    /\ validate_ai_extraction(response, input.id)
    /\ GoOn("govern")
    /\ UNCHANGED <<reason, attempted, response, artifact>>

-----------------------------------------------------------------------------
(* governance.py and integration.py: confidence caps and mapping *)

\* The level does not come from the model: LOW for a doubtful state, MEDIUM otherwise.
CappedLevel(state) == IF state \in {"UNKNOWN", "AMBIGUOUS"} THEN 1 ELSE 2

\* An identifier derived from the run and the proposal, apart from the host's.
ObservationId(pid) == 100 + pid

\* The accepted answer is bound to the host's configuration and run, which must be recordable.
Govern ==
    /\ stage = "govern"
    /\ \/ input.config # "no_run" /\ GoOn("map") /\ UNCHANGED <<reason, artifact>>
       \/ input.config = "no_run" /\ FallBack("GOVERNANCE_FAILED")
    /\ UNCHANGED <<attempted, response>>

MappedObs(x) ==
    {[id |-> ObservationId(o.pid), status |-> o.status, polarity |-> o.polarity,
      attribution |-> o.attribution, mood |-> o.mood, input |-> o.input] : o \in x.obs}

MappedInds(x) ==
    {[ind |-> i.ind, matched |-> i.matched, conf |-> CappedLevel(i.matched),
      polarity |-> i.polarity, refs |-> {ObservationId(r) : r \in i.refs}, input |-> i.input]
        : i \in x.inds}

\* Mutant: the host's context is not compared with the input that AI saw.
MappableAnywhere(host, x) ==
    /\ {o.id : o \in host.obs} \cap {ObservationId(o.pid) : o \in x.obs} = {}
    /\ ValidContext(MappedInds(x), MappedObs(x))

\* A collision, a host context of another input or a contradiction refuses the whole mapping.
Mappable(host, x) ==
    /\ {o.id : o \in host.obs} \cap {ObservationId(o.pid) : o \in x.obs} = {}
    /\ x.obs # {} \/ x.inds # {} =>
          \A e \in host.obs \cup host.occs : e.input = host.id
    /\ ValidContext(MappedInds(x), MappedObs(x))

MapFails ==
    /\ stage = "map" /\ ~ Mappable(input, response)
    /\ FallBack("MAPPING_FAILED")
    /\ UNCHANGED <<attempted, response>>

map_ai(host, x) ==
    [occs |-> host.occs \cup MappedInds(x), obs |-> host.obs \cup MappedObs(x)]

\* The combined artifact is what is pinned for replay and what the kernel consumes.
MapProposals ==
    /\ stage = "map" /\ Mappable(input, response)
    /\ artifact' = map_ai(input, response)
    /\ GoOn("rules")
    /\ UNCHANGED <<reason, attempted, response>>

-----------------------------------------------------------------------------
(* result.py: the single evaluation, one stage per step *)

Refuse(by) ==
    /\ outcome' = by /\ stage' = "done"
    /\ UNCHANGED <<input, reason, attempted, response, artifact>>

RuleResults(a) ==
    evaluate_rules(build_validated_context(a.occs, a.obs, input.language, input.script))

\* Rules run only for an evaluable input; every other one is decided over no rules.
EvaluateRules ==
    /\ stage = "rules"
    /\ IF input.whole /\ input.support # "ERROR"
       THEN Refuse("CONTEXT") /\ UNCHANGED results
       ELSE IF input.support \in Evaluable /\ ~ ValidContext(artifact.occs, artifact.obs)
       THEN Refuse("OBSERVATIONS") /\ UNCHANGED results
       ELSE /\ results' = IF input.support \in Evaluable THEN RuleResults(artifact) ELSE <<>>
            /\ stage' = "suppress"
            /\ UNCHANGED <<input, reason, attempted, response, artifact, outcome>>
    /\ UNCHANGED decision

Suppress ==
    /\ stage = "suppress"
    /\ results' = apply_all(results)
    /\ stage' = "aggregate"
    /\ UNCHANGED <<input, reason, attempted, response, artifact, decision, outcome>>

ResultSet(rs) == {rs[id] : id \in DOMAIN rs}

Aggregate ==
    /\ stage = "aggregate"
    /\ IF \A r \in ResultSet(results) : check_semantic_invariants(r)
       THEN /\ decision' = aggregate_decision(ResultSet(results), input.support, input.whole)
            /\ stage' = "explain"
            /\ UNCHANGED <<input, reason, attempted, response, artifact, outcome>>
       ELSE Refuse("AGGREGATION") /\ UNCHANGED decision
    /\ UNCHANGED results

Explain ==
    /\ stage = "explain"
    /\ IF validate_explanation_input(decision)
       THEN /\ decision' = [decision EXCEPT !.explanation = build_explanation(decision)]
            /\ stage' = "assemble"
            /\ UNCHANGED <<input, reason, attempted, response, artifact, outcome>>
       ELSE Refuse("EXPLANATION") /\ UNCHANGED decision
    /\ UNCHANGED results

Assemble ==
    /\ stage = "assemble"
    /\ Refuse(IF semantic_violations(decision) THEN "ASSEMBLY" ELSE "RESULT")
    /\ UNCHANGED <<results, decision>>

Next ==
    \/ Disabled \/ NotEvaluable \/ Prepare \/ ProviderFails \/ ProviderAnswers
    \/ RejectResponse \/ AcceptResponse \/ Govern \/ MapFails \/ MapProposals
    \/ EvaluateRules \/ Suppress \/ Aggregate \/ Explain \/ Assemble

Spec == Init /\ [][Next]_vars

-----------------------------------------------------------------------------
(* Properties *)

Stages == {"gate", "provider", "validate", "govern", "map", "rules", "suppress", "aggregate",
           "explain", "assemble", "done"}

\* Types, of extracted data too; what AI contributes never has more than MEDIUM confidence (governance.py CappedLevel).
TypeOK ==
    /\ HostShaped(input)
    /\ stage \in Stages /\ attempted \in BOOLEAN
    /\ reason \in {"NONE", "DISABLED", "HOST_NOT_EVALUABLE", "PROVIDER_FAILED",
                    "RESPONSE_REJECTED", "GOVERNANCE_FAILED", "MAPPING_FAILED"}
    /\ \A io \in artifact.occs \ input.occs : io.conf \in 1..2
    /\ outcome \in {"NONE", "RESULT", "CONTEXT", "OBSERVATIONS", "AGGREGATION", "EXPLANATION",
                     "ASSEMBLY"}
    /\ decision # Nothing =>
          /\ decision.severity \in 0..4 /\ decision.risk \in 0..4
          /\ decision.strength \in 0..3 /\ decision.confidence \in 0..3 /\ decision.band \in 0..3

\* The stages agree with each other: the checks of aggregation, explanation and assembly never
\* refuse what the stages before them produce, except over a published suppression rule that
\* matched (result.py counts it as fired, aggregation does not); and no answer of a provider
\* makes the kernel refuse host data that it accepts.
StagesAgree ==
    /\ outcome \notin {"AGGREGATION", "EXPLANATION"}
    /\ outcome = "ASSEMBLY" =>
          \E r \in ResultSet(results) : r.kind = "SUPPRESSION" /\ r.state = "MATCHED"
    /\ outcome = "OBSERVATIONS" => ~ ValidContext(input.occs, input.obs)
    /\ outcome = "CONTEXT" => input.whole /\ input.support # "ERROR"

\* Everything that a chain of shared references connects to the group g.
Connected(groups, g) ==
    {x \in UNION groups : \A c \in SUBSET UNION groups :
        g \subseteq c /\ (\A h \in groups : h \cap c # {} => h \subseteq c) => x \in c}

\* The largest number of evidence classes that have unconnected support of their own.
IndependentSupport(entries) ==
    LET groups == {e[2] : e \in entries}
        pairs == {<<e[1], Connected(groups, e[2])>> : e \in entries}
    IN  Max({Cardinality(s) : s \in {t \in SUBSET pairs :
                \A a, b \in t : a # b => a[1] # b[1] /\ a[2] # b[2]}})

\* Corroboration counts independent evidence: the union-find and the augmenting paths of
\* aggregation.py find the maximum over all assignments, and HIGH confidence without an active
\* override needs three independent classes and no failed rule.
IndependenceIsMatching ==
    stage = "explain" =>
        LET eligible == Eligible(decision.results)
        IN  /\ decision.count = IndependentSupport(Entries(eligible))
            /\ decision.confidence = 3 =>
                  /\ ~ decision.degraded
                  /\ \/ decision.count >= 3
                     \/ \E r \in eligible : r.id = decision.governing /\ r.overrides # {}

\* AI is advisory: when it is dropped, at whatever stage, the decision is the one of the host's
\* data alone; and an answer that proposes no negative indicator never withdraws a finding of
\* host data that the kernel accepts by itself, and never lowers its severity.  With the types
\* and the capped confidence.
AiOnlyAdds ==
    /\ TypeOK
    /\ stage = "explain" =>
          \E rules \in {IF input.support \in Evaluable THEN RuleResults(input) ELSE <<>>} :
          \E final \in {ResultSet(apply_all(rules))} :
          \E host \in {aggregate_decision(final, input.support, input.whole)} :
             /\ reason # "NONE" => decision = host
             /\ /\ reason = "NONE" /\ ValidContext(input.occs, input.obs)
                /\ \A i \in response.inds : i.polarity = "POSITIVE"
                => /\ host.class \in SCAM => decision.class \in SCAM
                   /\ host.severity <= decision.severity

\* NO_SCAM_PATTERN is not said over an open question: for every published composite whose
\* combination does not hold yet, it would not hold either if all that was seen and left
\* undecided (ambiguous, unresolved, low confidence) turned out to be there.
ClearIsFinal ==
    stage = "explain" /\ decision.class = "NO_SCAM_PATTERN" =>
        \A r \in Composites(decision.results) :
            LET ctx == build_validated_context(artifact.occs, artifact.obs, input.language, input.script)
                pos == RulePositives(ctx, r.id)
                worst == [p \in DOMAIN pos |->
                             IF pos[p].value = "UNKNOWN" THEN "TRUE" ELSE pos[p].value]
            IN  r.required # "TRUE" => eval_condition(Rules[r.id].cond, worst) # "TRUE"
=============================================================================

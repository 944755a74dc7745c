----------------------------- MODULE Enrichment -----------------------------
(***************************************************************************)
(* Advisory enrichment (trustlens_backend/enrichment.py, migration 0008)   *)
(* of finished evaluations, beside everything of module History: the seam  *)
(* that looks up an evaluation's URLs under every active policy and        *)
(* records each outcome, and the list that readers get.  It is called by a *)
(* thread of its own ("enrich"), whose request carries the active policies *)
(* of its process in order; a reader is a "list" request.  Roles and       *)
(* paging of the list are left out.                                        *)
(***************************************************************************)
EXTENDS History, Egress

CONSTANTS
    IndicatorsOf     \* policy -> the distinct indicators of the evaluation's URLs for it

ASSUME EnrichmentAssumption ==
    /\ Callers = Requests
    /\ DOMAIN IndicatorsOf = DOMAIN Policy
    /\ \A s \in Scenarios, r \in Requests : s.asks[r].kind = "enrich" =>
          LET policies == s.asks[r].policies
          IN  /\ s.asks[r].key = None /\ policies \in Seq(DOMAIN Policy)
              /\ \A i, j \in DOMAIN policies : policies[i] = policies[j] => i = j  \* EnrichmentRuntime.add

VARIABLES
    enrich,    \* by request: [policies, policy, todo], what is still to be looked up
    rows,      \* external_enrichment_result: [by, policy, indicator, result]
    registry,  \* the policies that the process can attribute records to
    shown      \* history: what a reader was shown: [policy, indicator, reputation]

evars == <<enrich, rows, registry, shown>>
allvars == <<vars, gvars, evars>>

NotBegun == [policies |-> <<>>, policy |-> None, todo |-> {}]

EnrichmentInit ==
    /\ Init /\ EgressInit
    /\ enrich = [r \in Requests |-> NotBegun]
    /\ rows = {} /\ registry = DOMAIN Policy /\ shown = {}

\* A step that leaves the tables of the other modules alone.
Aside == UNCHANGED <<asks, accidents, idem, store, tables, lock>> /\ UNCHANGED hvars

-----------------------------------------------------------------------------
(* enrich_evaluation *)

\* No active policies, no lookups; an unknown evaluation or a removed envelope has nothing to look up.
BeginEnrichment(r) ==
    /\ thread[r].pc = "start" /\ asks[r].kind = "enrich"
    /\ enrich' = [enrich EXCEPT ![r].policies = asks[r].policies]
    /\ IF asks[r].policies = <<>> THEN Answer(r, "DISABLED")
       ELSE IF asks[r].evaluation \notin Evaluations \/ "removed" \in damage[asks[r].evaluation]
       THEN Answer(r, "UNAVAILABLE") ELSE Step(r, "envelope")
    /\ Aside /\ UNCHANGED <<audit, faults, gvars, rows, registry, shown>>

\* The stored bytes must be those of the recorded digest.
ReadEnvelope(r) ==
    /\ thread[r].pc = "envelope"
    /\ IF damage[asks[r].evaluation] \cap {"bytes_missing", "bytes_corrupt"} = {}
       THEN Step(r, "policies") ELSE Answer(r, "UNAVAILABLE")
    /\ Aside /\ UNCHANGED <<audit, faults, gvars, evars>>

\* The next policy that has something to look up, audited; or the end.
SelectPolicy(r) ==
    LET left == enrich[r].policies
        found == IndicatorsOf[Head(left)]
    IN  /\ thread[r].pc = "policies"
        /\ IF left = <<>>
           THEN /\ Answer(r, IF \E row \in rows : row.by = r THEN "RECORDED" ELSE "NO_INDICATORS")
                /\ UNCHANGED <<audit, enrich>>
           ELSE /\ enrich' = [enrich EXCEPT ![r] = [policies |-> Tail(left), policy |-> Head(left),
                                                    todo |-> found]]
                /\ IF found = {} THEN UNCHANGED <<thread, audit>>
                   ELSE Step(r, "indicators") /\ audit' = Appended(r, {"PROVIDER_POLICY_SELECTED"})
        /\ Aside /\ UNCHANGED <<faults, gvars, rows, registry, shown>>

\* The request is audited before anything leaves the process.
RequestLookup(r) ==
    /\ thread[r].pc = "indicators"
    /\ IF enrich[r].todo = {}
       THEN Step(r, "policies") /\ UNCHANGED <<audit, enrich, look>>
       ELSE \E i \in enrich[r].todo :
               /\ enrich' = [enrich EXCEPT ![r].todo = @ \ {i}]
               /\ audit' = Appended(r, {"ENRICHMENT_REQUESTED"})
               /\ StartLookup(r, enrich[r].policy, i)
               /\ Step(r, "looking")
    /\ Aside /\ UNCHANGED <<faults, wire, said, rows, registry, shown>>

Lookup(r) ==
    /\ thread[r].pc = "looking"
    /\ LookupStep(r)
    /\ Aside /\ UNCHANGED <<thread, audit, faults, evars>>

LookupEvents(result) ==
    IF result.outcome \in {"FOUND", "NOT_FOUND"} THEN {"ENRICHMENT_ACCEPTED"}
    ELSE IF result.outcome = "POLICY_REJECTED" THEN {"EGRESS_DENIED"}
    ELSE IF result.category = "CREDENTIAL_UNAVAILABLE" THEN {"CREDENTIAL_REFERENCE_FAILURE"} ELSE {}

\* The outcome, whatever it is, and its event are one transaction.
RecordLookup(r) ==
    /\ thread[r].pc = "looking" /\ look[r].pc = "done"
    /\ rows' = rows \cup {[by |-> r, policy |-> look[r].policy, indicator |-> look[r].indicator,
                           result |-> look[r].result]}
    /\ audit' = Appended(r, LookupEvents(look[r].result))
    /\ Set(r, NoLookup)
    /\ Step(r, "indicators")
    /\ Aside /\ UNCHANGED <<faults, wire, said, enrich, registry, shown>>

\* A failing transaction is raised into the caller; what was recorded before stays.
EnrichmentFails(r) ==
    /\ thread[r].pc \in {"envelope", "policies", "indicators", "looking"} /\ asks[r].kind = "enrich"
    /\ Fault
    /\ Answer(r, "RAISED")
    /\ Set(r, NoLookup) /\ enrich' = [enrich EXCEPT ![r] = NotBegun]
    /\ Aside /\ UNCHANGED <<audit, wire, said, rows, registry, shown>>

-----------------------------------------------------------------------------
(* listEvaluationEnrichments *)

\* A reputation is shown only under the very policy that it was obtained with.
View(row) ==
    [policy |-> row.policy, indicator |-> row.indicator,
     reputation |-> IF row.policy \in registry THEN row.result.reputation ELSE "NOT_EVALUATED"]

ListEnrichments(r) ==
    /\ thread[r].pc = "start" /\ asks[r].kind = "list"
    /\ shown' = shown \cup {View(row) : row \in rows}
    /\ Answer(r, "200")
    /\ Aside /\ UNCHANGED <<audit, faults, gvars, enrich, rows, registry>>

\* A later process may hold another registry, in which a policy is gone or its content changed.
Reconfigure(p) ==
    /\ p \in registry /\ \E r \in Requests : asks[r].kind = "list"
    /\ Fault
    /\ registry' = registry \ {p}
    /\ Aside /\ UNCHANGED <<thread, audit, gvars, enrich, rows, shown>>

EnrichmentStep(r) ==
    \/ BeginEnrichment(r) \/ ReadEnvelope(r) \/ SelectPolicy(r) \/ RequestLookup(r)
    \/ Lookup(r) \/ RecordLookup(r) \/ ListEnrichments(r)

RestartAll(version) ==
    /\ Restart(version)
    /\ look' = [c \in Callers |-> NoLookup] /\ enrich' = [r \in Requests |-> NotBegun]
    /\ UNCHANGED <<wire, said, rows, registry, shown>>

EnrichmentNext ==
    \/ Operate /\ UNCHANGED <<gvars, evars>>
    \/ \E version \in {"pinned", "other"} : RestartAll(version)
    \/ \E r \in Requests : EnrichmentStep(r) \/ EnrichmentFails(r)
    \/ \E p \in DOMAIN Policy : Reconfigure(p)

\* The threads go on while their process lives, and recovery as in History.
EnrichmentFairness ==
    /\ WF_allvars(RunnerStep(Recovery) /\ UNCHANGED <<gvars, evars>>)
    /\ WF_allvars(\E r \in Requests : EnrichmentStep(r))

EnrichmentSpec == EnrichmentInit /\ [][EnrichmentNext]_allvars /\ EnrichmentFairness

-----------------------------------------------------------------------------
(* Properties *)

\* An advisory record says what a provider said (enrichment.py _lookup_and_record, the CHECKs of
\* migration 0008): a reputation, recorded or shown, was replied in time, under that policy and
\* about that indicator, a failure never carries one, and what is not found is unknown; every
\* (policy, indicator) has at most one record of a run; and the audit log has each request before
\* its record, one event for each acceptance, refusal and missing credential, through failures and
\* crashes between the steps.
AdvisoryTruthful ==
    /\ \A row \in rows :
          /\ row.result.reputation # "NOT_EVALUATED" =>
                [policy |-> row.policy, indicator |-> row.indicator, entry |-> row.result.outcome,
                 reputation |-> row.result.reputation] \in said
          /\ row.result.outcome = "NOT_FOUND" => row.result.reputation = "UNKNOWN"
          /\ row.result.status # "SUCCEEDED" => row.result.category \in FAILURES
          /\ \A other \in rows : row.by = other.by /\ row.policy = other.policy
                                    /\ row.indicator = other.indicator => row = other
    /\ \A v \in shown : v.reputation = "NOT_EVALUATED"
          \/ \E s \in said : s.policy = v.policy /\ s.indicator = v.indicator /\ s.reputation = v.reputation
    /\ \A r \in Requests :
          LET own == {row \in rows : row.by = r}
              count(event) == Cardinality({row \in own : event \in LookupEvents(row.result)})
          IN  /\ audit[r]["ENRICHMENT_REQUESTED"] \in {Cardinality(own), Cardinality(own) + 1}
              /\ \A event \in {"ENRICHMENT_ACCEPTED", "EGRESS_DENIED", "CREDENTIAL_REFERENCE_FAILURE"} :
                    audit[r][event] = count(event)

\* Every enrichment ends, however the network behaves (egress.py: every wait, retry and redirect
\* is bounded).
EnrichmentEnds ==
    []<>(\A r \in Requests : asks[r].kind = "enrich" => thread[r].pc = "done")
=============================================================================

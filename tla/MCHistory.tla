----------------------------- MODULE MCHistory ------------------------------
(* Three requests at a time: racing activations, retries under one key, replays *)
(* and corrections and downloads beside an activation, and an enrichment beside *)
(* a reader of its records.                                                     *)
EXTENDS Enrichment, TLC

CONSTANTS r1, r2, r3

ActivateAsk(d, expected, key) ==
    [kind |-> "activate", key |-> key, digest |-> d, expected |-> expected]
Ask(kind, e, key) == [kind |-> kind, key |-> key, evaluation |-> e]

EnrichAsk(e, policies) == [kind |-> "enrich", key |-> None, evaluation |-> e, policies |-> policies]

Scenario(a, b, c, files, changes) ==
    [asks |-> r1 :> a @@ r2 :> b @@ r3 :> c, disk |-> files, material |-> changes]

MCScenarios ==
    {Scenario(ActivateAsk("d1", "any", "k1"), ActivateAsk("d2", None, "k2"),
              ActivateAsk("d2", "d1", "k3"), {}, {}),
     Scenario(ActivateAsk("d1", None, "k1"), ActivateAsk("d1", None, "k1"),
              ActivateAsk("d3", "any", "k2"), {<<"d1", "damaged">>, <<"d1", "d2">>}, {}),
     Scenario(Ask("replay", "e1", "k1"), Ask("replay", "e1", "k1"), Ask("replay", "e2", "k2"),
              {"d1"} \X {"absent", "damaged", "d2"}, {"bytes_corrupt"}),
     Scenario(Ask("replay", "e1", "k1"), Ask("replay", "e1", "k2"), Ask("none", "e1", None),
              {}, {"removed", "bytes_missing", "artifact_broken", "result_swapped", "result_forged"}),
     Scenario(ActivateAsk("d1", "any", "k1"), Ask("correct", "e1", "k2"), Ask("download", "e1", None),
              {<<"d1", "invalid">>}, {"removed", "bytes_missing", "bytes_corrupt"}),
     Scenario(EnrichAsk("e1", <<"open">>), Ask("list", "e1", None), Ask("none", "e1", None), {}, {}),
     Scenario(EnrichAsk("e1", <<"off", "unproven", "keyless", "idle", "proxied">>), EnrichAsk(None, <<"open">>),
              EnrichAsk("e1", <<>>), {}, {"removed", "bytes_corrupt"})}

MCPinOf == [e \in {"e1"} |-> "d1"]

Terms(enabled, proxy, credential) ==
    [enabled |-> enabled, proxy |-> proxy, credential |-> credential, follows |-> TRUE,
     retry_safe |-> TRUE]

\* Four policies that stop a lookup at different places, one without indicators, one that goes on.
MCPolicy ==
    "off" :> Terms(FALSE, "none", "none") @@ "unproven" :> Terms(TRUE, "unverified", "none")
    @@ "keyless" :> Terms(TRUE, "none", "missing") @@ "proxied" :> Terms(TRUE, "verified", "none")
    @@ "idle" :> Terms(TRUE, "none", "none") @@ "open" :> Terms(TRUE, "none", "held")

MCIndicatorsOf == [p \in DOMAIN MCPolicy |-> IF p = "idle" THEN {} ELSE {"url"}]

Reply(status, body, location, entry, reputation) ==
    [status |-> status, media |-> TRUE, body |-> body, location |-> location, echo |-> TRUE,
     entry |-> entry, reputation |-> reputation]

MCReplies ==
    {Reply(200, "json", "none", "FOUND", "MALICIOUS"), Reply(200, "json", "none", "NOT_FOUND", "UNKNOWN"),
     Reply(200, "json", "none", "NOT_FOUND", "MALICIOUS"), Reply(302, "json", "approved", "NONE", "NONE"),
     Reply(302, "json", "elsewhere", "NONE", "NONE"), Reply(503, "json", "none", "NONE", "NONE")}
=============================================================================

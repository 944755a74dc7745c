------------------------------ MODULE MCAccess ------------------------------
(* Tabs and browsers that sign in at the same time, requests beside revocations   *)
(* and logouts, racing provisioning runs, and requests against small buckets.     *)
EXTENDS Access, TLC

CONSTANTS r1, r2, r3, r4, r5, j1, j2, j3

From(kind, b, peer, trusted) == [kind |-> kind, browser |-> b, peer |-> peer, trusted |-> trusted]
Ask(kind, b) == From(kind, b, "loopback", TRUE)
Nothing == Ask("none", "b1")
Job(action, role, p) == [action |-> action, role |-> role, subject |-> p]

Scenario(a, b, c, d, e, runs, held, known, who, until, restarts) ==
    [asks |-> r1 :> a @@ r2 :> b @@ r3 :> c @@ r4 :> d @@ r5 :> e,
     jobs |-> runs, roles |-> held, rows |-> known, principal |-> who, until |-> until, restarts |-> restarts]

NoJob == Job("none", "USER", "p1")
NoJobs == [t \in Jobs |-> NoJob]
Users == [p \in Principals |-> IF p = "p1" THEN {"USER"} ELSE {}]
Nobody == [p \in Principals |-> {}]

Grants == j1 :> Job("grant", "USER", "p1") @@ j2 :> Job("grant", "ADMINISTRATOR", "p1")
            @@ j3 :> Job("revoke", "USER", "p1")

MCScenarios ==
    {Scenario(Ask("login", "b1"), Ask("login", "b1"), Ask("callback", "b1"), Ask("callback", "b1"), Nothing,
              NoJobs, Users, {}, "p1", 0, 0),
     Scenario(Ask("login", "b2"), Ask("login", "b2"), Ask("callback", "b2"), Ask("callback", "b2"), Nothing,
              NoJobs, Users, {}, "p1", 0, 0),
     Scenario(Ask("login", "b1"), Ask("login", "b2"), Ask("login", "b2"), Nothing, Nothing,
              NoJobs, Users, {}, None, 1, 0),
     Scenario(Ask("login", "b1"), Ask("callback", "b1"), Ask("callback", "b2"), Nothing, Nothing,
              NoJobs, Users, {}, "p1", 2, 1),
     Scenario(Ask("me", "b1"), Ask("login", "b1"), Ask("callback", "b1"), Nothing, Nothing,
              j1 :> Job("revoke", "USER", "p1") @@ j2 :> Job("grant", "USER", "p1") @@ j3 :> NoJob,
              Users, {}, "p1", 0, 0),
     Scenario(Ask("csrf", "b1"), Ask("write", "b1"), Ask("logout", "b1"), Ask("login", "b1"), Ask("callback", "b1"),
              NoJobs, Users, {}, "p1", 0, 0),
     Scenario(Ask("write", "b1"), Ask("write", "b2"), Ask("write", "b2"), From("write", "b2", "other", FALSE),
              Nothing, NoJobs, Users, {}, "p1", 4, 0),
     Scenario(Nothing, Nothing, Nothing, Nothing, Nothing, Grants, Nobody, {}, None, 0, 0),
     Scenario(Nothing, Nothing, Nothing, Nothing, Nothing, Grants, Nobody, {"p1", Provisioner}, None, 0, 0)}

MCProfile == [sign_in |-> [capacity |-> 4, unit |-> 2], api_write |-> [capacity |-> 1, unit |-> 2]]
=============================================================================

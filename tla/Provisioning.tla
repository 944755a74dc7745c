---------------------------- MODULE Provisioning ----------------------------
(***************************************************************************)
(* Principals, their roles and the procedure that grants and revokes them  *)
(* (trustlens_backend/provisioning.py, principals.py).  Every run of the   *)
(* procedure is one transaction: it locks the row of its own workload      *)
(* principal, then the account's row (or inserts it), reads the active     *)
(* roles and changes them together with the audit event.                   *)
(***************************************************************************)
EXTENDS Naturals, FiniteSets

CONSTANTS
    Principals,    \* external identities that may have a principal row
    Provisioner,   \* the procedure's own workload principal
    Jobs,          \* runs of the procedure
    None

VARIABLES
    jobs,          \* what each run is asked: [action, role, subject]
    rows,          \* committed principal_reference rows
    lock,          \* holder of the row lock, or of an uncommitted insert
    assignments,   \* active role_assignment rows, counted: [principal -> [role -> Nat]]
    job,           \* [pc, inserted, active]
    roleAudit      \* ROLE_ASSIGNED less ROLE_REVOKED events, by principal and role

pvars == <<jobs, rows, lock, assignments, job, roleAudit>>

ROLES == {"USER", "ADMINISTRATOR"}

RolesOf(p) == {r \in ROLES : assignments[p][r] > 0}

\* A principal with no active role has no session and is served nothing.
Active(p) == p \in rows /\ RolesOf(p) # {}

ProvisioningInit(asked, held, known) ==
    /\ jobs = asked
    /\ rows = known \cup {p \in Principals : held[p] # {}}
    /\ lock = [x \in Principals \cup {Provisioner} |-> None]
    /\ assignments = [p \in Principals |-> [r \in ROLES |-> IF r \in held[p] THEN 1 ELSE 0]]
    /\ job = [t \in Jobs |-> [pc |-> IF asked[t].action = "none" THEN "done" ELSE "provisioner",
                              inserted |-> {}, active |-> {}]]
    /\ roleAudit = assignments

Unlocked(t) == [x \in DOMAIN lock |-> IF lock[x] = t THEN None ELSE lock[x]]

Ended(t, how) == [job EXCEPT ![t].pc = how]

\* The row a run wants next, and where it goes once it holds it.
Wanted(t) == IF job[t].pc \in {"provisioner", "insert_provisioner"} THEN Provisioner ELSE jobs[t].subject
Onward(t) == IF Wanted(t) = Provisioner THEN "principal" ELSE "roles"

SelectWithoutLock(t) ==
    /\ job[t].pc \in {"provisioner", "principal"} /\ Wanted(t) \in rows
    /\ job' = [job EXCEPT ![t].pc = Onward(t)]
    /\ UNCHANGED <<jobs, rows, lock, assignments, roleAudit>>

\* SELECT ... FOR UPDATE of a row that is there waits for its lock.
SelectForUpdate(t) ==
    /\ job[t].pc \in {"provisioner", "principal"} /\ Wanted(t) \in rows
    /\ lock[Wanted(t)] = None
    /\ lock' = [lock EXCEPT ![Wanted(t)] = t]
    /\ job' = [job EXCEPT ![t].pc = Onward(t)]
    /\ UNCHANGED <<jobs, rows, assignments, roleAudit>>

\* The row is not there: a grant goes on to insert it, a revocation changes nothing.
SelectNothing(t) ==
    /\ job[t].pc \in {"provisioner", "principal"} /\ Wanted(t) \notin rows
    /\ IF job[t].pc = "provisioner" THEN job' = Ended(t, "insert_provisioner") /\ UNCHANGED lock
       ELSE IF jobs[t].action = "grant" THEN job' = Ended(t, "insert_principal") /\ UNCHANGED lock
       ELSE job' = Ended(t, "unchanged") /\ lock' = Unlocked(t)
    /\ rows' = IF job'[t].pc = "unchanged" THEN rows \cup job[t].inserted ELSE rows
    /\ UNCHANGED <<jobs, assignments, roleAudit>>

\* The unique index on issuer and subject makes a second insert wait for the first
\* and fail when the first commits.
InsertRow(t) ==
    /\ job[t].pc \in {"insert_provisioner", "insert_principal"}
    /\ lock[Wanted(t)] = None
    /\ IF Wanted(t) \in rows THEN job' = Ended(t, "failed") /\ lock' = Unlocked(t)
       ELSE /\ job' = [job EXCEPT ![t].pc = Onward(t), ![t].inserted = @ \cup {Wanted(t)}]
            /\ lock' = [lock EXCEPT ![Wanted(t)] = t]
    /\ UNCHANGED <<jobs, rows, assignments, roleAudit>>

ReadActive(t) ==
    /\ job[t].pc = "roles"
    /\ job' = [job EXCEPT ![t].pc = "change", ![t].active = RolesOf(jobs[t].subject)]
    /\ UNCHANGED <<jobs, rows, lock, assignments, roleAudit>>

\* ADMINISTRATOR goes to an account without another role and USER to one without
\* ADMINISTRATOR; a refused run is rolled back.
Refused(t) == jobs[t].action = "grant" /\ job[t].active \ {jobs[t].role} # {}

RefuseGrant(t) ==
    /\ job[t].pc = "change" /\ Refused(t)
    /\ job' = Ended(t, "refused") /\ lock' = Unlocked(t)
    /\ UNCHANGED <<jobs, rows, assignments, roleAudit>>

\* The change, its audit events and the commit; a role already held is left alone.
Change(t) ==
    /\ job[t].pc = "change" /\ ~Refused(t)
    /\ LET p == jobs[t].subject  r == jobs[t].role  held == assignments[p][r]
       IN IF jobs[t].action = "revoke"
          THEN /\ assignments' = [assignments EXCEPT ![p][r] = 0]
               /\ roleAudit' = [roleAudit EXCEPT ![p][r] = @ - held]
          ELSE IF r \in job[t].active THEN UNCHANGED <<assignments, roleAudit>>
          ELSE /\ assignments' = [assignments EXCEPT ![p][r] = @ + 1]
               /\ roleAudit' = [roleAudit EXCEPT ![p][r] = @ + 1]
    /\ rows' = rows \cup job[t].inserted
    /\ job' = Ended(t, "done") /\ lock' = Unlocked(t)
    /\ UNCHANGED jobs

\* The database or the audit append fails: everything is rolled back.
FailJob(t) ==
    /\ job[t].pc \notin {"unchanged", "refused", "done", "failed"}
    /\ job' = Ended(t, "failed") /\ lock' = Unlocked(t)
    /\ UNCHANGED <<jobs, rows, assignments, roleAudit>>

ProvisioningStep(t) ==
    \/ SelectForUpdate(t) \/ SelectNothing(t) \/ InsertRow(t) \/ ReadActive(t)
    \/ RefuseGrant(t) \/ Change(t) \/ FailJob(t)

\* However runs of the procedure race, an account with ADMINISTRATOR holds no other role,
\* no role is assigned twice, and the audit trail accounts for every active assignment
\* (grant_user, grant_administrator and their revocations).
RolesSeparate ==
    \A p \in Principals :
        /\ assignments[p]["ADMINISTRATOR"] > 0 => RolesOf(p) = {"ADMINISTRATOR"}
        /\ \A r \in ROLES : assignments[p][r] \in 0..1 /\ roleAudit[p][r] = assignments[p][r]
        /\ p \in rows \/ RolesOf(p) = {}
=============================================================================

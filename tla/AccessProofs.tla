---------------------------- MODULE AccessProofs ----------------------------
(***************************************************************************)
(* Theorems about Access, with Admission and Provisioning, for every set   *)
(* of requests, browsers, principals and provisioning runs, every limit    *)
(* and every rate.                                                         *)
(***************************************************************************)
EXTENDS Access, FiniteSetTheorems, SequenceTheorems, TLAPS

-----------------------------------------------------------------------------
(* Roles.  A run that has read the active roles holds the account's row    *)
(* until it has changed them, so that what it read still holds then.       *)

JobPcs == {"provisioner", "insert_provisioner", "principal", "insert_principal", "roles", "change",
           "unchanged", "refused", "done", "failed"}

JobsTyped ==
    /\ jobs \in [Jobs -> [action : {"none", "grant", "revoke"}, role : ROLES, subject : Principals]]
    /\ job \in [Jobs -> [pc : JobPcs, inserted : SUBSET (Principals \cup {Provisioner}),
                         active : SUBSET ROLES]]
    /\ DOMAIN lock = Principals \cup {Provisioner}
    /\ assignments \in [Principals -> [ROLES -> Nat]] /\ roleAudit \in [Principals -> [ROLES -> Int]]
    /\ \A t \in Jobs : jobs[t].action = "none" => job[t].pc = "done"

RowsHeld ==
    \A t \in Jobs : job[t].pc \in {"roles", "change"} =>
        /\ lock[jobs[t].subject] = t
        /\ jobs[t].subject \in rows \cup job[t].inserted

ReadsCurrent == \A t \in Jobs : job[t].pc = "change" => job[t].active = RolesOf(jobs[t].subject)

RolesInv == JobsTyped /\ RowsHeld /\ ReadsCurrent /\ RolesSeparate

-----------------------------------------------------------------------------
(* Rates.  What a key was admitted since its bucket was made, with what is *)
(* left in the bucket, is at most a full bucket and what time brought.     *)

BucketsTyped ==
    /\ clock \in Nat
    /\ DOMAIN buckets = Stores /\ DOMAIN granted = Stores
    /\ \A s \in Stores :
          /\ buckets[s] \in Seq({buckets[s][i] : i \in DOMAIN buckets[s]})
          /\ Len(buckets[s]) <= MAX_KEYS
          /\ \A i \in DOMAIN buckets[s] :
                /\ buckets[s][i].tokens \in 0..Full(s) /\ buckets[s][i].updated \in 0..clock
                /\ \A j \in DOMAIN buckets[s] : buckets[s][i].key = buckets[s][j].key => i = j
          /\ DOMAIN granted[s] = KeysOf(buckets[s])
          /\ \A key \in DOMAIN granted[s] : granted[s][key] \in Seq(0..clock)

\* The admissions of one key against its bucket.
Spent(s, b, times) ==
    /\ \A i \in 1..Len(times) :
          /\ times[i] <= b.updated
          /\ (Len(times) - i + 1) * Profile[s].unit + b.tokens <= Full(s) + b.updated - times[i]
    /\ \A j \in 1..Len(times) : \A i \in 1..j :
          (j - i + 1) * Profile[s].unit <= Full(s) + times[j] - times[i]

SpendingInv ==
    \A s \in Stores : \A n \in DOMAIN buckets[s] :
        Spent(s, buckets[s][n], granted[s][buckets[s][n].key])

PromiseInv ==
    \A p \in promised :
        /\ p.store \in Stores
        /\ \E n \in DOMAIN buckets[p.store] :
              LET b == buckets[p.store][n]
              IN b.key = p.key /\ b.tokens + (p.at - b.updated) >= Profile[p.store].unit /\ p.at \in Nat

RatesInv == BucketsTyped /\ SpendingInv /\ PromiseInv

-----------------------------------------------------------------------------
(* Sessions.                                                               *)

\* Where a request is: on its way to a session of its own, and past every session it may end.
Path == {"unsent", "consume", "exchange", "find", "create"}
Late == {"audit", "welcome", "signed_in", "fail", "not_signed_in", "signing_out", "signed_out",
         "unauthenticated", "lost"}
Pcs == Path \cup Late \cup Answered \cup
       {"begin", "begun", "token", "csrf", "session", "roles", "inactive", "logout"}
Causes == {"expired", "signed_in", "failed_sign_in", "unaudited", "logout", "inactive", "restart"}

Request ==
    [pc : Pcs, session : SessionIds \cup {None}, binding : Requests \cup {None},
     csrf : SessionIds \cup {None}, transaction : Requests \cup {None},
     principal : Principals \cup {None},
     reason : {None, "AUTHENTICATION_FAILED", "AUTHORIZATION_DENIED"}]
Jar == [session : SessionIds \cup {None}, binding : Requests \cup {None}, csrf : SessionIds \cup {None}]
Session == [principal : Principals \cup {None}, created : Nat, seen : Nat]
Ending == [cause : Causes \cup {None}, by : Requests \cup {None}]

SessionsTyped ==
    /\ \A r \in Requests : asks[r].kind \in Kinds /\ BrowserOf(r) \in Browsers
    /\ req \in [Requests -> Request]
    /\ jar \in [Browsers -> Jar]
    /\ sessions \in [SessionIds -> Session]
    /\ transactions \in [Requests -> Nat \cup {None}]
    /\ ended \in [SessionIds -> Ending]
    /\ origin \in [SessionIds -> Requests \cup {None, EarlierLogin}]
    /\ active \in [Requests -> SUBSET Principals]
    /\ lapsed \in [Requests -> SUBSET Principals]
    /\ \A i \in SessionIds : There(i) => sessions[i].principal \in Principals

\* The history of a request knows the principals as they are.
Witnessed(r) ==
    req[r].pc # "unsent" => \A p \in Principals : IF Active(p) THEN p \in active[r] ELSE p \in lapsed[r]

\* A request on the way to a session has none; one that has consumed a login transaction of
\* its own browser leaves nothing of it; its session is the only one that comes from it.
RequestInv(r) ==
    LET q == req[r]
    IN  /\ q.pc \in Path => ~There(r) /\ ~Audited(r) /\ origin[r] = None
        /\ q.pc = "audit" => ~Audited(r)
        /\ q.pc \in {"audit", "welcome"} => origin[r] # None
        /\ q.pc = "welcome" => Audited(r)
        /\ q.pc \in {"fail", "not_signed_in"} => ~There(r)
        /\ q.pc = "not_signed_in" => ~There(q.session)
        /\ q.pc \in {"exchange", "find", "create", "audit", "welcome", "fail"} => q.transaction # None
        /\ q.transaction # None => /\ BrowserOf(q.transaction) = BrowserOf(r)
                                   /\ transactions[q.transaction] = None
                                   /\ req[q.transaction].pc \notin {"unsent", "begin"}
        /\ origin[r] \in {None, q.transaction}
        /\ q.binding # None => BrowserOf(q.binding) = BrowserOf(r)
        /\ q.session \in Requests => Audited(q.session)
        /\ q.pc \in {"find", "create", "roles", "inactive", "served"} => q.principal \in Principals
        /\ q.pc = "inactive" => q.principal \in lapsed[r]
        /\ q.pc = "served" => q.principal \in active[r]
        /\ transactions[r] # None => q.pc \notin {"unsent", "begin"}

OneEach ==
    \A r, s \in Requests : r # s /\ req[r].transaction # None => req[r].transaction # req[s].transaction

JarInv ==
    \A b \in Browsers :
        /\ jar[b].binding # None => BrowserOf(jar[b].binding) = b
        /\ jar[b].session \in Requests =>
              Audited(jar[b].session) /\ origin[jar[b].session] \in Requests /\ BrowserOf(origin[jar[b].session]) = b

EndedWell(i) ==
    LET e == ended[i]
    IN  /\ e.cause \in {"signed_in", "failed_sign_in", "logout", "inactive"} =>
              e.by \in Requests /\ req[e.by].pc \in Late
        /\ e.cause \in {"signed_in", "failed_sign_in", "logout"} => req[e.by].session = i
        /\ e.cause \in {"signed_in", "failed_sign_in"} =>
              req[e.by].transaction # None /\ BrowserOf(req[e.by].transaction) = BrowserOf(e.by)
        /\ e.cause = "inactive" => req[e.by].principal \in lapsed[e.by]

EndedInv == \A i \in SessionIds : EndedWell(i)

Capacities ==
    /\ Cardinality({i \in SessionIds : There(i)}) <= SESSIONS
    /\ Cardinality({t \in Requests : Began(t)}) <= TRANSACTIONS

SessionInv ==
    /\ SessionsTyped
    /\ \A r \in Requests : RequestInv(r) /\ Witnessed(r)
    /\ OneEach /\ JarInv /\ EndedInv /\ Capacities
    /\ origin[EarlierSession] = EarlierLogin

IInv == RolesInv /\ RatesInv /\ SessionInv

-----------------------------------------------------------------------------
(* Roles: the steps of a run.                                              *)

\* A scenario begins with roles kept apart and nothing locked.
LEMMA InitRoles == Init => RolesInv
<1> SUFFICES ASSUME NEW s \in Scenarios, ProvisioningInit(s.jobs, s.roles, s.rows) PROVE RolesInv
  BY DEF Init
<1>1. /\ s.jobs \in [Jobs -> [action : {"none", "grant", "revoke"}, role : ROLES, subject : Principals]]
      /\ s.roles \in [Principals -> SUBSET ROLES]
      /\ \A p \in Principals : "ADMINISTRATOR" \in s.roles[p] => s.roles[p] = {"ADMINISTRATOR"}
  BY ScenarioAssumption
<1>2. JobsTyped
  BY <1>1 DEF ProvisioningInit, JobsTyped, JobPcs
<1>3. RowsHeld /\ ReadsCurrent
  BY DEF ProvisioningInit, RowsHeld, ReadsCurrent
<1>4. ASSUME NEW p \in Principals
      PROVE  /\ RolesOf(p) = s.roles[p]
             /\ \A r \in ROLES : assignments[p][r] \in 0..1 /\ roleAudit[p][r] = assignments[p][r]
             /\ assignments[p]["ADMINISTRATOR"] > 0 => "ADMINISTRATOR" \in s.roles[p]
             /\ p \in rows \/ s.roles[p] = {}
  BY <1>1 DEF ProvisioningInit, RolesOf, ROLES
<1>5. RolesSeparate
  BY <1>1, <1>4 DEF RolesSeparate
<1> QED BY <1>2, <1>3, <1>5 DEF RolesInv

\* Ending a run gives up its own locks only.
LEMMA UnlockedKeeps ==
  ASSUME JobsTyped, NEW t \in Jobs, NEW u \in Jobs, u # t, NEW x \in DOMAIN lock, lock[x] = u
  PROVE  Unlocked(t)[x] = u /\ DOMAIN Unlocked(t) = DOMAIN lock
  BY DEF Unlocked

\* A step of a run that changes no assignment: what it must show of its own state and locks.
LEMMA RunStep ==
  ASSUME RolesInv, NEW t \in Jobs, UNCHANGED <<jobs, assignments, roleAudit>>,
         rows \subseteq rows', DOMAIN lock' = DOMAIN lock,
         \A u \in Jobs \ {t} : \A x \in DOMAIN lock : lock[x] = u => lock'[x] = u,
         NEW j \in [pc : JobPcs, inserted : SUBSET (Principals \cup {Provisioner}), active : SUBSET ROLES],
         job' = [job EXCEPT ![t] = j], job[t].pc # "done",
         j.pc \in {"roles", "change"} => /\ lock'[jobs[t].subject] = t
                                        /\ jobs[t].subject \in rows \cup j.inserted,
         j.pc = "change" => j.active = RolesOf(jobs[t].subject)
  PROVE  RolesInv'
<1>1. JobsTyped'
  BY DEF RolesInv, JobsTyped
<1>2. job'[t] = j /\ \A u \in Jobs \ {t} : job'[u] = job[u]
  BY DEF RolesInv, JobsTyped
<1>3. \A u \in Jobs : jobs[u].subject \in Principals /\ jobs[u].subject \in DOMAIN lock
  BY DEF RolesInv, JobsTyped
<1>4. RowsHeld'
  BY <1>2, <1>3 DEF RolesInv, RowsHeld
<1>5. \A p \in Principals : RolesOf(p)' = RolesOf(p)
  BY DEF RolesOf
<1>6. ReadsCurrent'
  BY <1>2, <1>3, <1>5 DEF RolesInv, ReadsCurrent
<1>7. RolesSeparate'
  BY <1>5 DEF RolesInv, RolesSeparate
<1> QED BY <1>1, <1>4, <1>6, <1>7 DEF RolesInv

\* Every step of a run but the change itself.
LEMMA OtherRunSteps ==
  ASSUME RolesInv, NEW t \in Jobs,
         \/ SelectForUpdate(t) \/ SelectNothing(t) \/ InsertRow(t) \/ ReadActive(t)
         \/ RefuseGrant(t) \/ FailJob(t)
  PROVE  RolesInv'
<1> DEFINE J == [pc : JobPcs, inserted : SUBSET (Principals \cup {Provisioner}), active : SUBSET ROLES]
           S == jobs[t].subject
<1>0. /\ job[t] \in J /\ S \in Principals /\ DOMAIN lock = Principals \cup {Provisioner}
      /\ JobsTyped /\ DOMAIN job = Jobs /\ None \notin Jobs /\ job[t].pc # "done"
  BY AccessAssumption DEF RolesInv, JobsTyped, SelectForUpdate, SelectNothing, InsertRow, ReadActive, RefuseGrant, FailJob
<1>1. \A u \in Jobs \ {t} : \A x \in DOMAIN lock : lock[x] = u => Unlocked(t)[x] = u
  BY <1>0, UnlockedKeeps
<1>2. DOMAIN Unlocked(t) = DOMAIN lock
  BY DEF Unlocked
<1>3. Wanted(t) \in DOMAIN lock
  BY <1>0 DEF Wanted
<1>4. Onward(t) \in {"principal", "roles"} /\ (Onward(t) = "roles" => Wanted(t) = S)
  BY DEF Onward, Wanted
<1>5. CASE SelectForUpdate(t)
  <2> DEFINE j == [job[t] EXCEPT !.pc = Onward(t)]
  <2>1. j \in J
    BY <1>0, <1>4 DEF JobPcs
  <2>2. /\ j.pc = Onward(t) /\ job' = [job EXCEPT ![t] = j] /\ lock'[Wanted(t)] = t
        /\ DOMAIN lock' = DOMAIN lock /\ rows' = rows /\ Wanted(t) \in rows
        /\ UNCHANGED <<jobs, assignments, roleAudit>>
        /\ \A x \in DOMAIN lock : x # Wanted(t) => lock'[x] = lock[x]
    BY <1>0, <1>3, <1>5 DEF SelectForUpdate
  <2>3. \A u \in Jobs \ {t} : \A x \in DOMAIN lock : lock[x] = u => lock'[x] = u
    BY <1>0, <1>5, <2>2 DEF SelectForUpdate
  <2>4. /\ j.pc # "change"
        /\ j.pc \in {"roles", "change"} => lock'[S] = t /\ S \in rows \cup j.inserted
    BY <1>4, <2>2
  <2> HIDE DEF j, J
  <2> QED BY <2>1, <2>2, <2>3, <2>4, <1>0, RunStep DEF J
<1>6. CASE SelectNothing(t)
  <2> DEFINE pc == IF job[t].pc = "provisioner" THEN "insert_provisioner"
                   ELSE IF jobs[t].action = "grant" THEN "insert_principal" ELSE "unchanged"
             j == [job[t] EXCEPT !.pc = pc]
  <2>1. j \in J /\ j.pc \notin {"roles", "change"}
    BY <1>0 DEF JobPcs
  <2>2. /\ job' = [job EXCEPT ![t] = j] /\ rows \subseteq rows'
        /\ UNCHANGED <<jobs, assignments, roleAudit>>
        /\ lock' \in {lock, Unlocked(t)}
    BY <1>6 DEF SelectNothing, Ended
  <2>3. DOMAIN lock' = DOMAIN lock
        /\ \A u \in Jobs \ {t} : \A x \in DOMAIN lock : lock[x] = u => lock'[x] = u
    BY <1>1, <1>2, <2>2
  <2> HIDE DEF j, J
  <2> QED BY <2>1, <2>2, <2>3, <1>0, RunStep DEF J
<1>7. CASE InsertRow(t)
  <2>1. CASE Wanted(t) \in rows
    <3> DEFINE j == [job[t] EXCEPT !.pc = "failed"]
    <3>1. j \in J /\ j.pc \notin {"roles", "change"}
      BY <1>0 DEF JobPcs
    <3>2. /\ job' = [job EXCEPT ![t] = j] /\ rows' = rows /\ lock' = Unlocked(t)
          /\ UNCHANGED <<jobs, assignments, roleAudit>>
      BY <1>7, <2>1 DEF InsertRow, Ended
    <3> HIDE DEF j, J
    <3> QED BY <1>1, <1>2, <3>1, <3>2, <1>0, RunStep DEF J
  <2>2. CASE Wanted(t) \notin rows
    <3> DEFINE j == [job[t] EXCEPT !.pc = Onward(t), !.inserted = @ \cup {Wanted(t)}]
    <3>1. j \in J /\ j.pc = Onward(t) /\ Wanted(t) \in j.inserted
      BY <1>0, <1>3, <1>4 DEF JobPcs
    <3>2. /\ job' = [job EXCEPT ![t] = j] /\ rows' = rows /\ lock'[Wanted(t)] = t
          /\ DOMAIN lock' = DOMAIN lock
          /\ UNCHANGED <<jobs, assignments, roleAudit>>
          /\ \A x \in DOMAIN lock : x # Wanted(t) => lock'[x] = lock[x]
      BY <1>0, <1>3, <1>7, <2>2 DEF InsertRow
    <3>3. \A u \in Jobs \ {t} : \A x \in DOMAIN lock : lock[x] = u => lock'[x] = u
      BY <1>0, <1>7, <3>2 DEF InsertRow
    <3>4. /\ j.pc # "change"
          /\ j.pc \in {"roles", "change"} => lock'[S] = t /\ S \in rows \cup j.inserted
      BY <1>4, <3>1, <3>2
    <3> HIDE DEF j, J
    <3> QED BY <3>1, <3>2, <3>3, <3>4, <1>0, RunStep DEF J
  <2> QED BY <2>1, <2>2
<1>8. CASE ReadActive(t)
  <2> DEFINE j == [job[t] EXCEPT !.pc = "change", !.active = RolesOf(S)]
  <2>1. j \in J /\ j.pc = "change" /\ j.active = RolesOf(S) /\ j.inserted = job[t].inserted
    BY <1>0 DEF JobPcs, RolesOf
  <2>2. /\ job' = [job EXCEPT ![t] = j] /\ rows' = rows /\ lock' = lock
        /\ UNCHANGED <<jobs, assignments, roleAudit>>
    BY <1>8 DEF ReadActive
  <2>3. lock[S] = t /\ S \in rows \cup job[t].inserted
    BY <1>8 DEF RolesInv, RowsHeld, ReadActive
  <2> HIDE DEF j, J
  <2> QED BY <2>1, <2>2, <2>3, <1>0, RunStep DEF J
<1>9. CASE RefuseGrant(t) \/ FailJob(t)
  <2>1. PICK how \in {"refused", "failed"} : job' = [job EXCEPT ![t].pc = how]
    BY <1>9 DEF RefuseGrant, FailJob, Ended
  <2> DEFINE j == [job[t] EXCEPT !.pc = how]
  <2>2. j \in J /\ j.pc \notin {"roles", "change"}
    BY <1>0 DEF JobPcs
  <2>3. /\ job' = [job EXCEPT ![t] = j] /\ rows' = rows /\ lock' = Unlocked(t)
        /\ UNCHANGED <<jobs, assignments, roleAudit>>
    BY <1>9, <2>1 DEF RefuseGrant, FailJob
  <2> HIDE DEF j, J
  <2> QED BY <1>1, <1>2, <2>2, <2>3, <1>0, RunStep DEF J
<1> QED BY <1>5, <1>6, <1>7, <1>8, <1>9

\* The change: what was read under the lock of the account's row still holds.
LEMMA ChangeStep ==
  ASSUME RolesInv, NEW t \in Jobs, Change(t)
  PROVE  RolesInv'
<1> DEFINE J == [pc : JobPcs, inserted : SUBSET (Principals \cup {Provisioner}), active : SUBSET ROLES]
           S == jobs[t].subject
           R == jobs[t].role
           n == IF jobs[t].action = "revoke" THEN 0
                ELSE IF R \in job[t].active THEN assignments[S][R] ELSE assignments[S][R] + 1
<1>0. /\ job[t] \in J /\ S \in Principals /\ R \in ROLES /\ DOMAIN lock = Principals \cup {Provisioner}
      /\ JobsTyped /\ jobs[t].action \in {"grant", "revoke"}
      /\ assignments \in [Principals -> [ROLES -> Nat]] /\ roleAudit \in [Principals -> [ROLES -> Int]]
  BY DEF RolesInv, JobsTyped, Change
<1>1. /\ lock[S] = t /\ S \in rows \cup job[t].inserted /\ job[t].active = RolesOf(S)
      /\ ~Refused(t) /\ rows' = rows \cup job[t].inserted /\ jobs' = jobs
      /\ lock' = Unlocked(t) /\ job' = [job EXCEPT ![t].pc = "done"]
  BY DEF RolesInv, RowsHeld, ReadsCurrent, Change, Ended
<1>2. assignments[S][R] \in 0..1 /\ roleAudit[S][R] = assignments[S][R] /\ n \in 0..1
  BY <1>0, <1>1 DEF RolesInv, RolesSeparate, RolesOf
<1>3. assignments' = [assignments EXCEPT ![S][R] = n]
  <2>1. CASE jobs[t].action = "revoke"
    BY <2>1 DEF Change
  <2>2. CASE jobs[t].action # "revoke" /\ R \in job[t].active
    BY <1>0, <2>2 DEF Change
  <2>3. CASE jobs[t].action # "revoke" /\ R \notin job[t].active
    BY <1>0, <2>3 DEF Change
  <2> QED BY <2>1, <2>2, <2>3
<1> HIDE DEF n
<1>4. /\ assignments' \in [Principals -> [ROLES -> Nat]] /\ assignments'[S][R] = n
      /\ \A p \in Principals : \A r \in ROLES :
            p # S \/ r # R => assignments'[p][r] = assignments[p][r]
  BY <1>0, <1>2, <1>3
<1>5. ASSUME NEW p \in Principals, p # S PROVE RolesOf(p)' = RolesOf(p)
  BY <1>4, <1>5 DEF RolesOf
<1>6. /\ roleAudit' \in [Principals -> [ROLES -> Int]] /\ roleAudit'[S][R] = n
       /\ \A p \in Principals : \A r \in ROLES :
             p # S \/ r # R => roleAudit'[p][r] = roleAudit[p][r]
  <2>1. roleAudit' = [roleAudit EXCEPT ![S][R] = n]
    <3>1. CASE jobs[t].action = "revoke"
      <4>1. roleAudit' = [roleAudit EXCEPT ![S][R] = roleAudit[S][R] - assignments[S][R]]
        BY <1>0, <3>1 DEF Change
      <4>2. roleAudit[S][R] - assignments[S][R] = 0 /\ n = 0
        BY <1>2, <3>1 DEF n
      <4> QED BY <4>1, <4>2
    <3>2. CASE jobs[t].action # "revoke" /\ R \in job[t].active
      BY <1>0, <1>2, <3>2 DEF Change, n
    <3>3. CASE jobs[t].action # "revoke" /\ R \notin job[t].active
      BY <1>0, <1>2, <3>3 DEF Change, n
    <3> QED BY <3>1, <3>2, <3>3
  <2> QED BY <1>0, <1>2, <2>1
<1>7. JobsTyped'
  <2>1. [job[t] EXCEPT !.pc = "done"] \in J
    BY <1>0 DEF JobPcs
  <2>2. job' \in [Jobs -> J] /\ DOMAIN Unlocked(t) = DOMAIN lock
    BY <1>0, <1>1, <2>1 DEF JobsTyped, Unlocked
  <2>3. \A u \in Jobs : jobs[u].action = "none" => job'[u].pc = "done"
    BY <1>0, <1>1 DEF JobsTyped
  <2>4. roleAudit' \in [Principals -> [ROLES -> Int]]
    BY <1>6
  <2> QED BY <1>0, <1>1, <1>4, <2>2, <2>3, <2>4 DEF JobsTyped
<1>8. job'[t].pc = "done" /\ \A u \in Jobs \ {t} : job'[u] = job[u]
  BY <1>0, <1>1 DEF JobsTyped
<1>9. \A u \in Jobs \ {t} : job[u].pc \in {"roles", "change"} =>
         /\ jobs[u].subject # S /\ lock'[jobs[u].subject] = u /\ jobs[u].subject \in Principals
         /\ jobs[u].subject \in rows \cup job[u].inserted
  <2> SUFFICES ASSUME NEW u \in Jobs \ {t}, job[u].pc \in {"roles", "change"}
               PROVE  /\ jobs[u].subject # S /\ lock'[jobs[u].subject] = u /\ jobs[u].subject \in Principals
                      /\ jobs[u].subject \in rows \cup job[u].inserted
    OBVIOUS
  <2>1. /\ lock[jobs[u].subject] = u /\ jobs[u].subject \in rows \cup job[u].inserted
        /\ jobs[u].subject \in Principals
    BY DEF RolesInv, RowsHeld, JobsTyped
  <2> QED BY <1>0, <1>1, <2>1, UnlockedKeeps
<1>10. RowsHeld'
  BY <1>1, <1>8, <1>9 DEF RowsHeld
<1>11. ReadsCurrent'
  BY <1>1, <1>5, <1>8, <1>9 DEF RolesInv, ReadsCurrent
<1>12. ASSUME NEW p \in Principals, NEW r \in ROLES
       PROVE  assignments'[p][r] \in 0..1 /\ roleAudit'[p][r] = assignments'[p][r]
  <2>1. assignments[p][r] \in 0..1 /\ roleAudit[p][r] = assignments[p][r]
    BY DEF RolesInv, RolesSeparate
  <2>2. CASE p = S /\ r = R
    BY <2>2, <1>2, <1>4, <1>6
  <2>3. CASE p # S \/ r # R
    BY <2>1, <2>3, <1>4, <1>6
  <2> QED BY <2>2, <2>3
<1>13. S \in rows' /\ rows \subseteq rows'
  BY <1>1
<1>14. ASSUME assignments'[S]["ADMINISTRATOR"] > 0 PROVE RolesOf(S)' = {"ADMINISTRATOR"}
  <2>0. /\ assignments[S]["ADMINISTRATOR"] \in 0..1 /\ assignments[S]["USER"] \in 0..1
        /\ assignments'[S]["USER"] \in Nat
    BY <1>0, <1>4 DEF ROLES, RolesInv, RolesSeparate
  <2>1. SUFFICES ~(assignments'[S]["USER"] > 0)
    BY <1>1, <1>14 DEF RolesOf, ROLES
  <2>2. assignments[S]["ADMINISTRATOR"] > 0 => ~(assignments[S]["USER"] > 0)
    <3>1. assignments[S]["ADMINISTRATOR"] > 0 => RolesOf(S) = {"ADMINISTRATOR"}
      BY <1>0 DEF RolesInv, RolesSeparate
    <3> QED BY <3>1 DEF RolesOf, ROLES
  <2>6. R = "USER" \/ R = "ADMINISTRATOR"
    BY <1>0 DEF ROLES
  <2>7. /\ R # "USER" => assignments'[S]["USER"] = assignments[S]["USER"]
        /\ R # "ADMINISTRATOR" => assignments'[S]["ADMINISTRATOR"] = assignments[S]["ADMINISTRATOR"]
    BY <1>0, <1>4 DEF ROLES
  <2>3. CASE jobs[t].action = "revoke"
    <3>1. n = 0
      BY <2>3 DEF n
    <3> QED BY <1>4, <1>14, <2>0, <2>2, <2>6, <2>7, <3>1
  <2>4. CASE R \in job[t].active /\ jobs[t].action # "revoke"
    <3>1. n = assignments[S][R]
      BY <2>4 DEF n
    <3> QED BY <1>4, <1>14, <2>2, <2>6, <2>7, <3>1
  <2>5. CASE R \notin job[t].active /\ jobs[t].action = "grant"
    <3>1. RolesOf(S) = {}
      BY <1>1, <2>5 DEF Refused
    <3>2. assignments[S]["ADMINISTRATOR"] = 0 /\ assignments[S]["USER"] = 0
      BY <2>0, <3>1 DEF RolesOf, ROLES
    <3> QED BY <1>14, <2>0, <2>6, <2>7, <3>2
  <2> QED BY <1>0, <2>3, <2>4, <2>5
<1>15. RolesSeparate'
  <2>1. ASSUME NEW p \in Principals
        PROVE  /\ assignments'[p]["ADMINISTRATOR"] > 0 => RolesOf(p)' = {"ADMINISTRATOR"}
               /\ p \in rows' \/ RolesOf(p)' = {}
    <3>1. CASE p = S
      <4>1. p \in rows' /\ (assignments'[S]["ADMINISTRATOR"] > 0 => RolesOf(S)' = {"ADMINISTRATOR"})
        BY <3>1, <1>13, <1>14
      <4>2. RolesOf(p)' = RolesOf(S)'
        BY <3>1, <1>1 DEF RolesOf
      <4> QED BY <3>1, <4>1, <4>2
    <3>2. CASE p # S
      BY <3>2, <1>4, <1>5, <1>13 DEF RolesInv, RolesSeparate, ROLES
    <3> QED BY <3>1, <3>2
  <2> QED BY <2>1, <1>12 DEF RolesSeparate
<1> QED BY <1>7, <1>10, <1>11, <1>15 DEF RolesInv

-----------------------------------------------------------------------------
(* Rates: the bucket of one key.                                           *)

\* A profile's numbers.
LEMMA ProfileFacts ==
  ASSUME NEW s \in Stores
  PROVE  /\ Profile[s].unit \in Nat \ {0} /\ Full(s) \in Nat /\ Full(s) >= Profile[s].unit
<1> DEFINE u == Profile[s].unit
           c == Profile[s].capacity
<1>1. u \in Nat \ {0} /\ c \in Nat \ {0}
  BY AdmissionAssumption
<1> HIDE DEF u, c
<1>2. c * u \in Nat /\ c * u = (c - 1) * u + u /\ (c - 1) * u >= 0
  BY <1>1
<1>3. c * u >= u
  BY <1>1, <1>2
<1> QED BY <1>1, <1>2, <1>3 DEF Full, u, c

\* What refilling and paying do to the sums.
LEMMA RefillSum ==
  ASSUME NEW x \in Int, NEW full \in Nat, NEW tokens \in Nat, NEW left \in Nat, NEW updated \in Nat,
         NEW now \in Nat, NEW at \in Nat, x + tokens <= full + updated - at,
         left <= tokens + (now - updated)
  PROVE  x + left <= full + now - at
  OBVIOUS

\* One admission more.
LEMMA PaySum ==
  ASSUME NEW k \in Int, NEW u \in Nat
  PROVE  (k + 1) * u = k * u + u /\ k * u \in Int
  OBVIOUS

\* A bucket that is refilled and used at a refusal.
LEMMA SpentRefill ==
  ASSUME NEW s \in Stores, NEW b, NEW now \in Nat, b.tokens \in Nat, b.updated \in 0..now,
         NEW times \in Seq(0..now), Spent(s, b, times), NEW a, a.updated = now, a.tokens \in Nat,
         a.tokens <= b.tokens + (now - b.updated)
  PROVE  Spent(s, a, times)
<1> DEFINE u == Profile[s].unit
<1>1. /\ u \in Nat /\ Full(s) \in Nat /\ Len(times) \in Nat
      /\ \A i \in 1..Len(times) : times[i] \in 0..now
  BY ProfileFacts, LenProperties, ElementOfSeq
<1> HIDE DEF u
<1>2. ASSUME NEW i \in 1..Len(times)
      PROVE  /\ times[i] <= a.updated
             /\ (Len(times) - i + 1) * u + a.tokens <= Full(s) + a.updated - times[i]
  <2>1. (Len(times) - i + 1) * u + b.tokens <= Full(s) + b.updated - times[i]
    BY DEF Spent, u
  <2> DEFINE x == (Len(times) - i + 1) * u
  <2>2. x \in Int /\ times[i] \in Nat /\ times[i] <= now
    BY <1>1
  <2> HIDE DEF x
  <2>3. x + b.tokens <= Full(s) + b.updated - times[i]
    BY <2>1 DEF x
  <2>4. times[i] <= a.updated /\ x + a.tokens <= Full(s) + a.updated - times[i]
    <3>1. x + a.tokens <= Full(s) + now - times[i]
      BY <1>1, <2>2, <2>3, b.updated \in Nat, RefillSum, Zenon
    <3> QED BY <2>2, <3>1
  <2> QED BY <2>4 DEF x
<1>3. \A j \in 1..Len(times) : \A i \in 1..j : (j - i + 1) * u <= Full(s) + times[j] - times[i]
  BY DEF Spent, u
<1> QED BY <1>2, <1>3 DEF Spent, u

\* A bucket that pays for one admission.
LEMMA SpentAdmit ==
  ASSUME NEW s \in Stores, NEW b, NEW now \in Nat, b.tokens \in Nat, b.updated = now,
         b.tokens <= Full(s), b.tokens >= Profile[s].unit,
         NEW times \in Seq(0..now), Spent(s, b, times), NEW a, a.updated = now,
         a.tokens = b.tokens - Profile[s].unit
  PROVE  Spent(s, a, Append(times, now))
<1> DEFINE u == Profile[s].unit
           t == Append(times, now)
           n == Len(times)
<1>1. u \in Nat /\ Full(s) \in Nat /\ n \in Nat
  BY ProfileFacts
<1>2. /\ t \in Seq(0..now) /\ Len(t) = n + 1 /\ t[n + 1] = now
      /\ \A i \in 1..n : t[i] = times[i] /\ times[i] \in 0..now
  BY AppendProperties, now \in 0..now
<1> HIDE DEF t, n, u
<1>3. ASSUME NEW i \in 1..n + 1
      PROVE  /\ t[i] <= a.updated
             /\ (n + 1 - i + 1) * u + a.tokens <= Full(s) + a.updated - t[i]
             /\ (n + 1 - i + 1) * u <= Full(s) + now - t[i]
  <2>1. CASE i = n + 1
    <3>1. (n + 1 - i + 1) * u = u /\ t[i] = now
      BY <1>1, <1>2, <2>1
    <3> DEFINE x == (n + 1 - i + 1) * u
    <3>2. x = u /\ u = Profile[s].unit
      BY <3>1 DEF u
    <3> HIDE DEF x
    <3>3. /\ t[i] <= a.updated /\ x + a.tokens <= Full(s) + a.updated - t[i]
          /\ x <= Full(s) + now - t[i]
      <4>1. a.updated = now /\ t[i] = now /\ b.tokens \in Nat /\ b.tokens <= Full(s)
        BY <3>1
      <4>2. a.tokens = b.tokens - x /\ x <= b.tokens
        BY <3>2
      <4> HIDE DEF n
      <4> QED BY <1>1, <3>2, <4>1, <4>2
    <3> QED BY <3>3 DEF x
  <2>2. CASE i \in 1..n
    <3>1. (n - i + 1) * u + b.tokens <= Full(s) + now - times[i]
      BY <2>2 DEF Spent, n, u
    <3> DEFINE x == (n - i + 1) * u
               y == (n + 1 - i + 1) * u
    <3>2. y = x + u /\ x \in Int /\ t[i] = times[i] /\ t[i] \in Nat /\ t[i] <= now
      <4>1. n - i + 1 \in Int /\ n + 1 - i + 1 = (n - i + 1) + 1
        BY <1>1
      <4>2. t[i] = times[i] /\ t[i] \in Nat /\ t[i] <= now
        BY <1>2, <2>2
      <4>3. y = x + u /\ x \in Int
        BY <1>1, <4>1, PaySum
      <4> QED BY <4>2, <4>3
    <3> HIDE DEF x, y
    <3>3. x + b.tokens <= Full(s) + now - t[i]
      BY <3>1, <3>2 DEF x
    <3>5. a.tokens = b.tokens - u /\ a.updated = now /\ b.tokens \in Nat
      BY DEF u
    <3>4. t[i] <= a.updated /\ y + a.tokens <= Full(s) + a.updated - t[i] /\ y <= Full(s) + now - t[i]
      <4>1. y + a.tokens = x + b.tokens /\ y + a.tokens <= Full(s) + now - t[i]
        BY ONLY <1>1, <3>2, <3>3, <3>5, now \in Nat, SMTT(30)
      <4>2. y <= y + a.tokens /\ y \in Int /\ y + a.tokens \in Int /\ Full(s) + now - t[i] \in Int
        <5>1. a.tokens \in Nat
          BY <1>1, <3>5 DEF u
        <5> QED BY ONLY <1>1, <3>2, <5>1, now \in Nat
      <4>3. y <= Full(s) + now - t[i]
        BY ONLY <4>1, <4>2
      <4> QED BY <3>2, <3>5, <4>1, <4>3
    <3> QED BY <3>4 DEF y
  <2> QED BY <1>1, <2>1, <2>2
<1>4. ASSUME NEW j \in 1..n + 1, NEW i \in 1..j
      PROVE  (j - i + 1) * u <= Full(s) + t[j] - t[i]
  <2>1. CASE j = n + 1
    BY <1>1, <1>2, <1>3, <2>1
  <2>2. CASE j \in 1..n
    <3>1. (j - i + 1) * u <= Full(s) + times[j] - times[i]
      BY <2>2 DEF Spent, n, u
    <3>2. t[i] = times[i] /\ t[j] = times[j]
      BY <1>1, <1>2, <2>2
    <3> QED BY <3>1, <3>2
  <2> QED BY <1>1, <2>1, <2>2
<1>5. Len(t) = n + 1
  BY <1>2
<1>6. \A i \in 1..Len(t) : /\ t[i] <= a.updated
                           /\ (Len(t) - i + 1) * u + a.tokens <= Full(s) + a.updated - t[i]
  <2> SUFFICES ASSUME NEW i \in 1..Len(t)
               PROVE  /\ t[i] <= a.updated
                      /\ (Len(t) - i + 1) * u + a.tokens <= Full(s) + a.updated - t[i]
    OBVIOUS
  <2>1. i \in 1..n + 1 /\ Len(t) - i + 1 = n + 1 - i + 1
    BY <1>1, <1>5
  <2> QED BY <1>3, <2>1
<1>7. \A j \in 1..Len(t) : \A i \in 1..j : (j - i + 1) * u <= Full(s) + t[j] - t[i]
  BY <1>4, <1>5
<1>8. Spent(s, a, t)
  BY <1>6, <1>7 DEF Spent, u
<1> QED BY <1>8 DEF t

\* Nothing was admitted against a new bucket.
LEMMA SpentNothing == ASSUME NEW s, NEW b PROVE Spent(s, b, <<>>)
  BY DEF Spent

\* A sequence without one of its elements.
LEMMA WithoutOne ==
  ASSUME NEW S, NEW b \in Seq(S), NEW k \in 1..Len(b)
  PROVE  LET p == SubSeq(b, 1, k - 1) \o SubSeq(b, k + 1, Len(b))
         IN  /\ p \in Seq(S) /\ Len(p) = Len(b) - 1
             /\ \A j \in 1..Len(p) : p[j] = IF j < k THEN b[j] ELSE b[j + 1]
<1> DEFINE c == SubSeq(b, 1, k - 1)
           d == SubSeq(b, k + 1, Len(b))
           p == c \o d
<1>1. Len(b) \in Nat /\ \A j \in 1..Len(b) : b[j] \in S
  BY LenProperties, ElementOfSeq
<1>2. c \in Seq(S) /\ Len(c) = k - 1 /\ \A j \in 1..k - 1 : c[j] = b[j]
  BY <1>1, SubSeqProperties
<1>3. d \in Seq(S) /\ Len(d) = Len(b) - k /\ \A j \in 1..Len(b) - k : d[j] = b[k + j]
  <2>1. /\ d \in Seq(S)
        /\ Len(d) = IF k + 1 <= Len(b) THEN Len(b) - (k + 1) + 1 ELSE 0
        /\ \A j \in 1..Len(b) - (k + 1) + 1 : d[j] = b[(k + 1) + j - 1]
    BY <1>1, SubSeqProperties
  <2> QED BY <1>1, <2>1
<1> HIDE DEF c, d, p
<1>4. /\ p \in Seq(S) /\ Len(p) = Len(c) + Len(d)
      /\ \A j \in 1..Len(c) + Len(d) : p[j] = IF j <= Len(c) THEN c[j] ELSE d[j - Len(c)]
  <2>1. c \in Seq(S) /\ d \in Seq(S)
    BY <1>2, <1>3
  <2> QED BY ONLY <2>1, ConcatProperties DEF p
<1>5. Len(c) + Len(d) = Len(b) - 1 /\ Len(c) = k - 1 /\ Len(p) = Len(b) - 1
  BY <1>1, <1>2, <1>3, <1>4
<1>6. ASSUME NEW j \in 1..Len(p) PROVE p[j] = IF j < k THEN b[j] ELSE b[j + 1]
  <2>1. p[j] = IF j <= k - 1 THEN c[j] ELSE d[j - Len(c)]
    BY <1>4, <1>5
  <2>2. CASE j < k
    <3>1. j <= k - 1 /\ j \in 1..k - 1
      BY <1>1, <2>2
    <3> QED BY <1>2, <2>1, <2>2, <3>1
  <2>3. CASE ~(j < k)
    <3>1. j - Len(c) \in 1..Len(b) - k /\ k + (j - Len(c)) = j + 1 /\ ~(j <= k - 1)
      BY <1>1, <1>5, <2>3
    <3> QED BY <1>3, <2>1, <2>3, <3>1
  <2> QED BY <2>2, <2>3
<1>7. /\ p \in Seq(S) /\ Len(p) = Len(b) - 1
      /\ \A j \in 1..Len(p) : p[j] = IF j < k THEN b[j] ELSE b[j + 1]
  BY <1>4, <1>5, <1>6
<1> QED BY <1>7 DEF p, c, d

\* dict.pop: the other keys' buckets, each still once.
LEMMA PoppedFacts ==
  ASSUME BucketsTyped, NEW s \in Stores, NEW key
  PROVE  /\ Popped(s, key) \in Seq({buckets[s][i] : i \in DOMAIN buckets[s]})
         /\ Len(Popped(s, key)) <= Len(buckets[s])
         /\ \A i \in 1..Len(Popped(s, key)) : Popped(s, key)[i].key # key
         /\ \A i, j \in 1..Len(Popped(s, key)) :
               Popped(s, key)[i].key = Popped(s, key)[j].key => i = j
<1> DEFINE b == buckets[s]
           S == {b[i] : i \in DOMAIN b}
           p == Popped(s, key)
           k == PlaceOf(s, key)
<1>1. /\ b \in Seq(S) /\ DOMAIN b = 1..Len(b) /\ Len(b) \in Nat
      /\ \A i, j \in 1..Len(b) : b[i].key = b[j].key => i = j
  <2>1. b \in Seq(S) /\ \A i \in DOMAIN b : \A j \in DOMAIN b : b[i].key = b[j].key => i = j
    BY DEF BucketsTyped
  <2> HIDE DEF b, S
  <2>2. DOMAIN b = 1..Len(b) /\ Len(b) \in Nat
    BY <2>1, LenProperties
  <2> QED BY <2>1, <2>2
<1>2. CASE BucketsOf(s, key) = {}
  <2>1. p = b
    BY <1>2 DEF Popped
  <2>2. \A i \in 1..Len(b) : b[i].key # key
    BY <1>1, <1>2 DEF BucketsOf
  <2>3. p \in Seq(S) /\ Len(p) <= Len(b)
    BY <1>1, <2>1
  <2> HIDE DEF b, S, p
  <2>4. /\ \A i \in 1..Len(p) : p[i].key # key
        /\ \A i, j \in 1..Len(p) : p[i].key = p[j].key => i = j
    BY <1>1, <2>1, <2>2
  <2> QED BY <2>3, <2>4 DEF b, S, p
<1>3. CASE BucketsOf(s, key) # {}
  <2>1. k \in 1..Len(b) /\ b[k].key = key
    BY <1>1, <1>3 DEF PlaceOf, BucketsOf
  <2>2. p = SubSeq(b, 1, k - 1) \o SubSeq(b, k + 1, Len(b))
    BY <1>3 DEF Popped
  <2> HIDE DEF b, S, p, k
  <2>3. /\ p \in Seq(S) /\ Len(p) = Len(b) - 1
        /\ \A j \in 1..Len(p) : p[j] = IF j < k THEN b[j] ELSE b[j + 1]
    <3>1. b \in Seq(S)
      BY <1>1
    <3> QED BY ONLY <2>1, <2>2, <3>1, WithoutOne
  <2>4. ASSUME NEW i \in 1..Len(p)
        PROVE  \E m \in 1..Len(b) : p[i] = b[m] /\ m # k /\ m = IF i < k THEN i ELSE i + 1
    <3> DEFINE m == IF i < k THEN i ELSE i + 1
    <3>1. m \in 1..Len(b) /\ m # k /\ p[i] = b[m]
      BY <1>1, <2>1, <2>3
    <3> QED BY <3>1
  <2>5. ASSUME NEW i \in 1..Len(p) PROVE p[i].key # key
    BY <1>1, <2>1, <2>4
  <2>6. ASSUME NEW i \in 1..Len(p), NEW j \in 1..Len(p), p[i].key = p[j].key PROVE i = j
    <3>1. PICK m \in 1..Len(b) : p[i] = b[m] /\ m # k /\ m = IF i < k THEN i ELSE i + 1
      BY <2>4
    <3>2. PICK n \in 1..Len(b) : p[j] = b[n] /\ n # k /\ n = IF j < k THEN j ELSE j + 1
      BY <2>4
    <3>3. m = n
      BY <1>1, <2>6, <3>1, <3>2
    <3>4. i \in Nat /\ j \in Nat /\ k \in Nat
      BY <1>1, <2>1, <2>3
    <3> QED BY <3>1, <3>2, <3>3, <3>4
  <2>7. Len(p) <= Len(b)
    BY <1>1, <2>3
  <2> QED BY <2>3, <2>5, <2>6, <2>7 DEF b, S, p
<1> QED BY <1>2, <1>3

\* The buckets after a request: its key's last, the others as they were, one gone if there
\* were too many.
LEMMA RecentFacts ==
  ASSUME BucketsTyped, NEW s \in Stores, NEW key, NEW tokens
  PROVE  LET R == Recent(s, key, tokens)
         IN  /\ R \in Seq({R[i] : i \in DOMAIN R}) /\ DOMAIN R = 1..Len(R) /\ Len(R) \in 1..MAX_KEYS
             /\ R[Len(R)] = [key |-> key, tokens |-> tokens, updated |-> clock]
             /\ \A i \in 1..Len(R) - 1 :
                   R[i].key # key /\ R[i] \in {buckets[s][m] : m \in DOMAIN buckets[s]}
             /\ \A i, j \in 1..Len(R) : R[i].key = R[j].key => i = j
<1> DEFINE R == Recent(s, key, tokens)
           S == {buckets[s][m] : m \in DOMAIN buckets[s]}
           new == [key |-> key, tokens |-> tokens, updated |-> clock]
           p == Popped(s, key)
           kept == Append(p, new)
           n == Len(p)
<1>1. /\ p \in Seq(S) /\ n <= Len(buckets[s])
      /\ \A i \in 1..n : p[i].key # key
      /\ \A i, j \in 1..n : p[i].key = p[j].key => i = j
  BY PoppedFacts, Zenon
<1>2. Len(buckets[s]) <= MAX_KEYS /\ MAX_KEYS \in Nat \ {0} /\ Len(buckets[s]) \in Nat
  <2>1. buckets[s] \in Seq(S) /\ Len(buckets[s]) <= MAX_KEYS
    BY DEF BucketsTyped
  <2> HIDE DEF S
  <2> QED BY <2>1, LenProperties, AdmissionAssumption
<1>3. R = IF Len(kept) > MAX_KEYS THEN Tail(kept) ELSE kept
  BY DEF Recent
<1>4. new.key = key
  OBVIOUS
<1> SUFFICES /\ R \in Seq({R[i] : i \in DOMAIN R}) /\ DOMAIN R = 1..Len(R) /\ Len(R) \in 1..MAX_KEYS
             /\ R[Len(R)] = new /\ \A i \in 1..Len(R) - 1 : R[i].key # key /\ R[i] \in S
             /\ \A i, j \in 1..Len(R) : R[i].key = R[j].key => i = j
  OBVIOUS
<1> HIDE DEF R, S, new, p, kept, n
<1>5. n \in Nat /\ n <= MAX_KEYS /\ \A i \in 1..n : p[i] \in S
  BY <1>1, <1>2, LenProperties, ElementOfSeq DEF n
<1>6. /\ kept \in Seq(S \cup {new}) /\ kept # <<>> /\ Len(kept) = n + 1
      /\ \A i \in 1..n : kept[i] = p[i]
      /\ kept[n + 1] = new
  <2>1. p \in Seq(S \cup {new}) /\ new \in S \cup {new}
    BY <1>1, SeqMonotonic
  <2> QED BY ONLY <2>1, AppendProperties DEF kept, n
<1>7. CASE Len(kept) > MAX_KEYS
  <2>1. R = Tail(kept)
    BY <1>3, <1>7
  <2>2. /\ R \in Seq(S \cup {new}) /\ Len(R) = Len(kept) - 1
        /\ \A i \in 1..Len(R) : R[i] = kept[i + 1]
    BY ONLY <1>6, <2>1, HeadTailProperties
  <2>3. Len(R) = n /\ n >= 1
    BY <1>2, <1>5, <1>6, <1>7, <2>2
  <2>4. DOMAIN R = 1..Len(R) /\ R \in Seq({R[i] : i \in DOMAIN R})
    BY <2>2
  <2>5. R[n] = new
    BY <1>5, <1>6, <2>2, <2>3
  <2>6. ASSUME NEW i \in 1..n - 1 PROVE R[i] = p[i + 1] /\ i + 1 \in 1..n
    BY <1>5, <1>6, <2>2, <2>3
  <2>7. \A i \in 1..n - 1 : R[i].key # key /\ R[i] \in S
    BY <1>1, <1>5, <2>6
  <2>8. ASSUME NEW i \in 1..n, NEW j \in 1..n, R[i].key = R[j].key PROVE i = j
    <3>1. CASE i = n \/ j = n
      BY <1>4, <1>5, <2>5, <2>7, <2>8, <3>1
    <3>2. CASE i # n /\ j # n
      <4>1. i \in 1..n - 1 /\ j \in 1..n - 1
        BY <1>5, <3>2
      <4>2. i + 1 = j + 1
        BY <4>1, <1>1, <2>6, <2>8
      <4> QED BY <4>1, <4>2, <1>5
    <3> QED BY <3>1, <3>2
  <2> QED BY <1>2, <1>5, <2>3, <2>4, <2>5, <2>7, <2>8
<1>8. CASE ~(Len(kept) > MAX_KEYS)
  <2>1. R = kept
    BY <1>3, <1>8
  <2>2. /\ R \in Seq(S \cup {new}) /\ Len(R) = n + 1 /\ n + 1 \in 1..MAX_KEYS
    BY <1>2, <1>5, <1>6, <1>8, <2>1
  <2>4. DOMAIN R = 1..Len(R) /\ R \in Seq({R[i] : i \in DOMAIN R})
    BY <2>2
  <2>5. R[n + 1] = new
    BY <1>6, <2>1
  <2>6. \A i \in 1..n : R[i] = p[i]
    BY <1>6, <2>1
  <2>7. \A i \in 1..n : R[i].key # key /\ R[i] \in S
    BY <1>1, <1>5, <2>6
  <2>8. ASSUME NEW i \in 1..n + 1, NEW j \in 1..n + 1, R[i].key = R[j].key PROVE i = j
    <3>1. CASE i = n + 1 \/ j = n + 1
      BY <1>4, <1>5, <2>5, <2>7, <2>8, <3>1
    <3>2. CASE i # n + 1 /\ j # n + 1
      <4>1. i \in 1..n /\ j \in 1..n
        BY <1>5, <3>2
      <4> QED BY <4>1, <1>1, <2>6, <2>8
    <3> QED BY <3>1, <3>2
  <2>9. Len(R) - 1 = n
    BY <1>5, <2>2
  <2> QED BY <1>5, <2>2, <2>4, <2>5, <2>7, <2>8, <2>9
<1> QED BY <1>7, <1>8

\* What the invariant says of one bucket.
LEMMA BucketFacts ==
  ASSUME BucketsTyped, NEW s \in Stores
  PROVE  /\ DOMAIN buckets[s] = 1..Len(buckets[s]) /\ Len(buckets[s]) \in Nat
         /\ DOMAIN granted[s] = {buckets[s][i].key : i \in DOMAIN buckets[s]}
         /\ \A i \in DOMAIN buckets[s] :
               /\ buckets[s][i].tokens \in Nat /\ buckets[s][i].tokens <= Full(s)
               /\ buckets[s][i].updated \in Nat /\ buckets[s][i].updated <= clock
         /\ \A i, j \in DOMAIN buckets[s] : buckets[s][i].key = buckets[s][j].key => i = j
         /\ \A key \in DOMAIN granted[s] : granted[s][key] \in Seq(0..clock)
<1> DEFINE b == buckets[s]
           S == {b[i] : i \in DOMAIN b}
<1>1. b \in Seq(S) /\ Full(s) \in Nat /\ clock \in Nat
  BY ProfileFacts DEF BucketsTyped
<1>2. /\ \A i \in DOMAIN b : /\ b[i].tokens \in 0..Full(s) /\ b[i].updated \in 0..clock
                              /\ \A j \in DOMAIN b : b[i].key = b[j].key => i = j
      /\ DOMAIN granted[s] = {b[i].key : i \in DOMAIN b}
      /\ \A key \in DOMAIN granted[s] : granted[s][key] \in Seq(0..clock)
  BY DEF BucketsTyped, KeysOf
<1> HIDE DEF b, S
<1>3. DOMAIN b = 1..Len(b) /\ Len(b) \in Nat
  BY <1>1, LenProperties
<1>4. \A i \in DOMAIN b : /\ b[i].tokens \in Nat /\ b[i].tokens <= Full(s)
                          /\ b[i].updated \in Nat /\ b[i].updated <= clock
  BY <1>1, <1>2
<1> QED BY <1>2, <1>3, <1>4 DEF b

\* What a request finds, before it pays: its key's admissions are paid for by what is left.
LEMMA RefilledFacts ==
  ASSUME RatesInv, NEW s \in Stores, NEW key, NEW a, a.updated = clock, a.tokens = Refilled(s, key)
  PROVE  /\ Refilled(s, key) \in Nat /\ Refilled(s, key) <= Full(s)
         /\ Admitted(s, key) \in Seq(0..clock)
         /\ Spent(s, a, Admitted(s, key))
         /\ \A n \in DOMAIN buckets[s] : buckets[s][n].key = key =>
               Refilled(s, key) = AtMost(Full(s), buckets[s][n].tokens + (clock - buckets[s][n].updated))
<1> DEFINE k == PlaceOf(s, key)
           b == buckets[s][k]
<1>0. BucketsTyped /\ clock \in Nat /\ Full(s) \in Nat
  BY ProfileFacts DEF RatesInv, BucketsTyped
<1>1. CASE BucketsOf(s, key) = {}
  <2>1. Refilled(s, key) = Full(s) /\ \A n \in DOMAIN buckets[s] : buckets[s][n].key # key
    BY <1>1 DEF Refilled, BucketsOf
  <2>2. key \notin DOMAIN granted[s]
    BY <1>0, <2>1, BucketFacts
  <2>3. Admitted(s, key) = <<>>
    BY <2>2 DEF Admitted
  <2> QED BY <1>0, <2>1, <2>3, SpentNothing
<1>2. CASE BucketsOf(s, key) # {}
  <2>1. k \in DOMAIN buckets[s] /\ b.key = key
    BY <1>2 DEF PlaceOf, BucketsOf
  <2>2. Refilled(s, key) = AtMost(Full(s), b.tokens + (clock - b.updated))
    BY <1>2 DEF Refilled
  <2>3. /\ b.tokens \in Nat /\ b.tokens <= Full(s) /\ b.updated \in Nat /\ b.updated <= clock
        /\ key \in DOMAIN granted[s] /\ granted[s][key] \in Seq(0..clock)
    BY <1>0, <2>1, BucketFacts
  <2>4. Spent(s, b, granted[s][key])
    BY <2>1 DEF RatesInv, SpendingInv
  <2>5. Admitted(s, key) = granted[s][key]
    BY <2>3 DEF Admitted
  <2>6. \A n \in DOMAIN buckets[s] : buckets[s][n].key = key => n = k
    BY <1>0, <2>1, BucketFacts
  <2>7. ASSUME NEW n \in DOMAIN buckets[s], buckets[s][n].key = key
        PROVE  Refilled(s, key) = AtMost(Full(s), buckets[s][n].tokens + (clock - buckets[s][n].updated))
    BY <2>2, <2>6, <2>7
  <2> HIDE DEF b, k
  <2>8. /\ Refilled(s, key) \in Nat /\ Refilled(s, key) <= Full(s)
        /\ Refilled(s, key) <= b.tokens + (clock - b.updated)
    BY <1>0, <2>2, <2>3 DEF AtMost
  <2>9. Spent(s, a, granted[s][key])
    <3>1. b.updated \in 0..clock
      BY <1>0, <2>3
    <3> QED BY <1>0, <2>3, <2>4, <2>8, <3>1, SpentRefill
  <2> QED BY <2>3, <2>5, <2>7, <2>8, <2>9
<1> QED BY <1>1, <1>2

\* The key's own bucket and admissions after its request.
LEMMA PaidFacts ==
  ASSUME RatesInv, NEW s \in Stores, NEW key, NEW a, a.updated = clock,
         a.tokens = Refilled(s, key) - (IF Allowed(s, key) THEN Profile[s].unit ELSE 0),
         NEW times, times = IF Allowed(s, key) THEN Append(Admitted(s, key), clock) ELSE Admitted(s, key)
  PROVE  /\ a.tokens \in Nat /\ a.tokens <= Full(s)
         /\ times \in Seq(0..clock) /\ Spent(s, a, times)
<1>1. /\ Profile[s].unit \in Nat \ {0} /\ Full(s) \in Nat /\ clock \in Nat
  BY ProfileFacts DEF RatesInv, BucketsTyped
<1> DEFINE full == [updated |-> clock, tokens |-> Refilled(s, key)]
<1>2. full.updated = clock /\ full.tokens = Refilled(s, key)
  OBVIOUS
<1> HIDE DEF full
<1>3. /\ Refilled(s, key) \in Nat /\ Refilled(s, key) <= Full(s)
      /\ Admitted(s, key) \in Seq(0..clock) /\ Spent(s, full, Admitted(s, key))
  BY <1>2, RefilledFacts
<1>4. CASE Allowed(s, key)
  <2>1. a.tokens = Refilled(s, key) - Profile[s].unit /\ times = Append(Admitted(s, key), clock)
    BY <1>4
  <2>2. Refilled(s, key) >= Profile[s].unit
    BY <1>4 DEF Allowed
  <2>3. times \in Seq(0..clock)
    <3>1. clock \in 0..clock
      BY <1>1
    <3> QED BY ONLY <1>3, <2>1, <3>1, AppendProperties
  <2>4. Spent(s, a, times)
    <3>1. full.tokens >= Profile[s].unit /\ full.tokens <= Full(s) /\ full.tokens \in Nat
      BY <1>2, <1>3, <2>2
    <3> QED BY <1>1, <1>2, <1>3, <2>1, <3>1, SpentAdmit
  <2> QED BY <1>1, <1>3, <2>1, <2>2, <2>3, <2>4
<1>5. CASE ~Allowed(s, key)
  <2>1. a.tokens = Refilled(s, key) /\ times = Admitted(s, key)
    BY <1>3, <1>5
  <2>2. Spent(s, a, times)
    BY <2>1, RefilledFacts
  <2> QED BY <1>3, <2>1, <2>2
<1> QED BY <1>4, <1>5

\* TokenBuckets.take.
LEMMA TakeStep ==
  ASSUME RatesInv, NEW s \in Stores, NEW key, take(s, key)
  PROVE  RatesInv'
<1> DEFINE tokens == Refilled(s, key) - (IF Allowed(s, key) THEN Profile[s].unit ELSE 0)
           a == [key |-> key, tokens |-> tokens, updated |-> clock]
           b == buckets[s]
           R == Recent(s, key, tokens)
           times == IF Allowed(s, key) THEN Append(Admitted(s, key), clock) ELSE Admitted(s, key)
           G == [k \in KeysOf(R) |-> IF k = key /\ Allowed(s, key)
                                     THEN Append(Admitted(s, k), clock) ELSE Admitted(s, k)]
<1>0. /\ BucketsTyped /\ clock \in Nat /\ DOMAIN buckets = Stores /\ DOMAIN granted = Stores
      /\ Profile[s].unit \in Nat \ {0} /\ Full(s) \in Nat /\ Full(s) >= Profile[s].unit
  BY ProfileFacts DEF RatesInv, BucketsTyped
<1>1. /\ buckets' = [buckets EXCEPT ![s] = R] /\ clock' = clock
      /\ buckets'[s] = R /\ \A o \in Stores \ {s} : buckets'[o] = buckets[o]
      /\ DOMAIN buckets' = Stores
  BY <1>0 DEF take
<1>2. granted'[s] = G /\ DOMAIN granted' = Stores /\ \A o \in Stores \ {s} : granted'[o] = granted[o]
  BY <1>0, <1>1 DEF take
<1>3. promised' = {p \in promised : p.store = s => p.key \in KeysOf(R) /\ ~(p.key = key /\ Allowed(s, key))}
                  \cup IF Allowed(s, key) THEN {}
                       ELSE {[store |-> s, key |-> key, at |-> clock + Profile[s].unit - tokens]}
  BY <1>1 DEF take
<1>4. a.updated = clock /\ a.tokens = tokens /\ a.key = key
  OBVIOUS
<1>5. /\ R \in Seq({R[i] : i \in DOMAIN R}) /\ DOMAIN R = 1..Len(R) /\ Len(R) \in 1..MAX_KEYS
      /\ R[Len(R)] = a
      /\ \A i \in 1..Len(R) - 1 : R[i].key # key /\ R[i] \in {b[m] : m \in DOMAIN b}
      /\ \A i, j \in 1..Len(R) : R[i].key = R[j].key => i = j
  <2> HIDE DEF tokens
  <2>1. LET Q == Recent(s, key, tokens)
        IN  /\ Q \in Seq({Q[i] : i \in DOMAIN Q}) /\ DOMAIN Q = 1..Len(Q) /\ Len(Q) \in 1..MAX_KEYS
            /\ Q[Len(Q)] = [key |-> key, tokens |-> tokens, updated |-> clock]
            /\ \A i \in 1..Len(Q) - 1 :
                  Q[i].key # key /\ Q[i] \in {buckets[s][m] : m \in DOMAIN buckets[s]}
            /\ \A i, j \in 1..Len(Q) : Q[i].key = Q[j].key => i = j
    BY <1>0, RecentFacts
  <2> QED BY <2>1
<1>6. /\ DOMAIN b = 1..Len(b) /\ DOMAIN granted[s] = {b[i].key : i \in DOMAIN b}
      /\ \A i \in DOMAIN b : /\ b[i].tokens \in Nat /\ b[i].tokens <= Full(s)
                              /\ b[i].updated \in Nat /\ b[i].updated <= clock
      /\ \A i, j \in DOMAIN b : b[i].key = b[j].key => i = j
      /\ \A k \in DOMAIN granted[s] : granted[s][k] \in Seq(0..clock)
  BY <1>0, BucketFacts
<1> DEFINE full == [updated |-> clock, tokens |-> Refilled(s, key)]
<1>70. full.updated = clock /\ full.tokens = Refilled(s, key)
  OBVIOUS
<1> HIDE DEF a, tokens, full
<1>71. /\ Refilled(s, key) \in Nat
       /\ \A n \in DOMAIN buckets[s] : buckets[s][n].key = key =>
             Refilled(s, key) = AtMost(Full(s), buckets[s][n].tokens + (clock - buckets[s][n].updated))
  BY <1>70, RefilledFacts
<1>7. a.tokens \in Nat /\ a.tokens <= Full(s) /\ times \in Seq(0..clock) /\ Spent(s, a, times)
  <2> HIDE DEF times
  <2>1. a.tokens = Refilled(s, key) - (IF Allowed(s, key) THEN Profile[s].unit ELSE 0)
    BY <1>4 DEF tokens
  <2>2. times = IF Allowed(s, key) THEN Append(Admitted(s, key), clock) ELSE Admitted(s, key)
    BY DEF times
  <2> QED BY <1>4, <2>1, <2>2, PaidFacts
<1>8. ASSUME NEW k \in KeysOf(R), k # key
      PROVE  k \in DOMAIN granted[s] /\ G[k] = granted[s][k]
  <2>1. PICK i \in 1..Len(R) : k = R[i].key
    BY <1>5 DEF KeysOf
  <2>2. i \in 1..Len(R) - 1
    <3>1. Len(R) \in Nat /\ R[Len(R)].key = key
      BY <1>4, <1>5
    <3> HIDE DEF R, G, times, b
    <3> QED BY <1>8, <2>1, <3>1
  <2>3. k \in DOMAIN granted[s]
    <3>1. R[i] \in {b[m] : m \in DOMAIN b}
      BY <1>5, <2>2
    <3> HIDE DEF R, G, times, b
    <3>2. PICK m \in DOMAIN b : R[i] = b[m]
      BY <3>1
    <3> QED BY <1>6, <2>1, <3>2
  <2> QED BY <1>8, <2>3 DEF Admitted
<1>9. key \in KeysOf(R) /\ G[key] = times
  <2>1. key \in KeysOf(R)
    BY <1>4, <1>5 DEF KeysOf
  <2> QED BY <2>1
<1>10. DOMAIN G = KeysOf(R)
  OBVIOUS
<1> HIDE DEF R, G, times, b
<1>11. ASSUME NEW i \in 1..Len(R)
       PROVE  /\ i = Len(R) /\ R[i] = a /\ G[R[i].key] = times
              \/ \E m \in DOMAIN b : R[i] = b[m] /\ b[m].key # key /\ G[b[m].key] = granted[s][b[m].key]
  <2>1. CASE i = Len(R)
    BY <1>4, <1>5, <1>9, <2>1
  <2>2. CASE i # Len(R)
    <3>0. Len(R) \in Nat
      BY ONLY <1>5
    <3>1. i \in 1..Len(R) - 1
      BY ONLY <2>2, <3>0, i \in 1..Len(R)
    <3>2. PICK m \in DOMAIN b : R[i] = b[m] /\ R[i].key # key
      BY <1>5, <3>1
    <3>3. R[i].key \in KeysOf(R)
      BY <1>5 DEF KeysOf
    <3> QED BY <1>8, <3>2, <3>3
  <2> QED BY <2>1, <2>2
<1>12. BucketsTyped'
  <2>1. Full(s)' = Full(s) /\ \A o \in Stores : Full(o)' = Full(o)
    BY DEF Full
  <2>2. ASSUME NEW i \in DOMAIN R
        PROVE  /\ R[i].tokens \in 0..Full(s) /\ R[i].updated \in 0..clock
               /\ \A j \in DOMAIN R : R[i].key = R[j].key => i = j
    <3>1. R[i].tokens \in 0..Full(s) /\ R[i].updated \in 0..clock
      <4>1. i \in 1..Len(R)
        BY <1>5
      <4>2. CASE R[i] = a
        BY <1>0, <1>4, <1>7, <4>2
      <4>3. CASE \E m \in DOMAIN b : R[i] = b[m]
        BY <1>0, <1>6, <4>3
      <4> QED BY <1>11, <4>1, <4>2, <4>3
    <3> QED BY <1>5, <3>1
  <2>3. ASSUME NEW k \in KeysOf(R) PROVE G[k] \in Seq(0..clock)
    <3>1. CASE k = key
      BY <1>7, <1>9, <3>1
    <3>2. CASE k # key
      BY <1>6, <1>8, <3>2
    <3> QED BY <3>1, <3>2
  <2>4. Len(R) <= MAX_KEYS
    BY <1>5, AdmissionAssumption
  <2>5. ASSUME NEW o \in Stores
        PROVE  /\ buckets'[o] \in Seq({buckets'[o][i] : i \in DOMAIN buckets'[o]})
               /\ Len(buckets'[o]) <= MAX_KEYS
               /\ \A i \in DOMAIN buckets'[o] :
                     /\ buckets'[o][i].tokens \in 0..Full(o) /\ buckets'[o][i].updated \in 0..clock
                     /\ \A j \in DOMAIN buckets'[o] : buckets'[o][i].key = buckets'[o][j].key => i = j
               /\ DOMAIN granted'[o] = KeysOf(buckets'[o])
               /\ \A k \in DOMAIN granted'[o] : granted'[o][k] \in Seq(0..clock)
    <3>1. CASE o = s
      BY <1>1, <1>2, <1>5, <1>10, <2>2, <2>3, <2>4, <3>1
    <3>2. CASE o # s
      <4>1. buckets'[o] = buckets[o] /\ granted'[o] = granted[o]
        BY <1>1, <1>2, <3>2
      <4>2. DOMAIN granted[o] = KeysOf(buckets[o])
        BY <1>0 DEF BucketsTyped
      <4>3. /\ buckets[o] \in Seq({buckets[o][i] : i \in DOMAIN buckets[o]})
            /\ Len(buckets[o]) <= MAX_KEYS
            /\ \A i \in DOMAIN buckets[o] :
                  /\ buckets[o][i].tokens \in 0..Full(o) /\ buckets[o][i].updated \in 0..clock
                  /\ \A j \in DOMAIN buckets[o] : buckets[o][i].key = buckets[o][j].key => i = j
            /\ \A k \in DOMAIN granted[o] : granted[o][k] \in Seq(0..clock)
        BY <1>0, Zenon DEF BucketsTyped
      <4> QED BY <4>1, <4>2, <4>3, Zenon
    <3> QED BY <3>1, <3>2
  <2>6. \A o \in Stores : KeysOf(buckets[o])' = KeysOf(buckets'[o])
    BY DEF KeysOf
  <2>7. clock' \in Nat
    BY <1>0, <1>1
  <2> QED BY <1>1, <1>2, <2>1, <2>5, <2>6, <2>7, ZenonT(60) DEF BucketsTyped
<1>13. SpendingInv'
  <2>1. ASSUME NEW o \in Stores, NEW n \in DOMAIN buckets'[o]
        PROVE  Spent(o, buckets'[o][n], granted'[o][buckets'[o][n].key])
    <3>1. CASE o = s
      <4>1. n \in 1..Len(R) /\ buckets'[o][n] = R[n] /\ granted'[o] = G
        BY <1>1, <1>2, <1>5, <2>1, <3>1
      <4>2. CASE R[n] = a /\ G[R[n].key] = times
        BY <1>7, <3>1, <4>1, <4>2
      <4>3. CASE \E m \in DOMAIN b : R[n] = b[m] /\ G[b[m].key] = granted[s][b[m].key]
        <5>1. PICK m \in DOMAIN b : R[n] = b[m] /\ G[b[m].key] = granted[s][b[m].key]
          BY <4>3
        <5>2. Spent(s, b[m], granted[s][b[m].key])
          BY DEF RatesInv, SpendingInv, b
        <5> QED BY <3>1, <4>1, <5>1, <5>2
      <4> QED BY <1>11, <4>1, <4>2, <4>3
    <3>2. CASE o # s
      <4>1. buckets'[o] = buckets[o] /\ granted'[o] = granted[o]
        BY <1>1, <1>2, <3>2
      <4> QED BY <2>1, <4>1 DEF RatesInv, SpendingInv
    <3> QED BY <3>1, <3>2
  <2>2. \A o, x, y : Spent(o, x, y)' <=> Spent(o, x, y)
    BY DEF Spent, Full
  <2> QED BY <2>1 DEF SpendingInv, Spent, Full
<1>14. PromiseInv'
  <2> SUFFICES ASSUME NEW p \in promised'
               PROVE  /\ p.store \in Stores
                      /\ \E n \in DOMAIN buckets'[p.store] :
                            /\ buckets'[p.store][n].key = p.key /\ p.at \in Nat
                            /\ buckets'[p.store][n].tokens + (p.at - buckets'[p.store][n].updated)
                                  >= Profile[p.store].unit
    BY DEF PromiseInv
  <2>1. Len(R) \in DOMAIN R
    BY <1>5
  <2>2. CASE ~Allowed(s, key) /\ p = [store |-> s, key |-> key, at |-> clock + Profile[s].unit - tokens]
    <3>1. ~(Refilled(s, key) >= Profile[s].unit) /\ tokens = Refilled(s, key) - 0
      BY <2>2 DEF Allowed, tokens
    <3>2. p.store = s /\ p.key = key /\ p.at = clock + Profile[s].unit - tokens
      BY <2>2
    <3>3. tokens \in Nat /\ tokens < Profile[s].unit
      BY <1>0, <1>71, <3>1
    <3>4. p.at \in Nat /\ a.tokens + (p.at - a.updated) >= Profile[s].unit
      BY <1>0, <1>4, <3>2, <3>3
    <3> QED BY <1>1, <1>4, <1>5, <2>1, <3>2, <3>4
  <2>3. CASE p \in promised /\ (p.store = s => p.key \in KeysOf(R) /\ ~(p.key = key /\ Allowed(s, key)))
    <3>1. PICK n \in DOMAIN buckets[p.store] :
            /\ buckets[p.store][n].key = p.key /\ p.at \in Nat /\ p.store \in Stores
            /\ buckets[p.store][n].tokens + (p.at - buckets[p.store][n].updated) >= Profile[p.store].unit
      BY <2>3 DEF RatesInv, PromiseInv
    <3>2. CASE p.store # s
      BY <1>1, <3>1, <3>2
    <3>3. CASE p.store = s /\ p.key # key
      <4>1. PICK i \in 1..Len(R) : R[i].key = p.key
        BY <1>5, <2>3, <3>3 DEF KeysOf
      <4>2. PICK m \in DOMAIN b : R[i] = b[m]
        BY <1>4, <1>11, <3>3, <4>1
      <4>3. m = n
        BY <1>6, <3>1, <3>3, <4>1, <4>2 DEF b
      <4>4. R[i] = buckets[p.store][n] /\ i \in DOMAIN R
        BY <1>5, <3>3, <4>1, <4>2, <4>3 DEF b
      <4> QED BY <1>1, <3>1, <3>3, <4>4
    <3>4. CASE p.store = s /\ p.key = key
      <4>1. ~Allowed(s, key)
        BY <2>3, <3>4
      <4>2. ~(Refilled(s, key) >= Profile[s].unit) /\ tokens = Refilled(s, key) - 0
        BY <4>1 DEF Allowed, tokens
      <4>3. n \in DOMAIN b /\ b[n].key = key /\ b[n].tokens + (p.at - b[n].updated) >= Profile[s].unit
        BY <3>1, <3>4 DEF b
      <4>4. /\ Refilled(s, key) \in Nat
            /\ Refilled(s, key) = AtMost(Full(s), b[n].tokens + (clock - b[n].updated))
        BY <1>71, <4>3 DEF b
      <4>5. b[n].tokens \in Nat /\ b[n].updated \in Nat
        BY <1>6, <4>3
      <4>6. tokens = b[n].tokens + (clock - b[n].updated)
        BY <1>0, <4>2, <4>4, <4>5 DEF AtMost
      <4>7. a.tokens + (p.at - a.updated) >= Profile[s].unit
        BY <1>0, <1>4, <3>1, <4>3, <4>5, <4>6
      <4> QED BY <1>1, <1>4, <1>5, <2>1, <3>1, <3>4, <4>7
    <3> QED BY <3>2, <3>3, <3>4
  <2> QED BY <1>3, <2>2, <2>3
<1> QED BY <1>12, <1>13, <1>14 DEF RatesInv

\* Nothing is admitted or refused yet, or any more.
LEMMA RatesFresh ==
  /\ clock \in Nat /\ buckets = [s \in Stores |-> <<>>] /\ granted = [s \in Stores |-> <<>>]
  /\ promised = {}
  => RatesInv
<1> SUFFICES ASSUME clock \in Nat, buckets = [s \in Stores |-> <<>>],
                    granted = [s \in Stores |-> <<>>], promised = {}
             PROVE  RatesInv
  OBVIOUS
<1>1. ASSUME NEW s \in Stores
      PROVE  buckets[s] = <<>> /\ granted[s] = <<>> /\ DOMAIN buckets[s] = {} /\ DOMAIN granted[s] = {}
             /\ Len(buckets[s]) = 0
  OBVIOUS
<1>2. BucketsTyped
  <2>1. ASSUME NEW s \in Stores
        PROVE  buckets[s] \in Seq({buckets[s][i] : i \in DOMAIN buckets[s]})
    BY <1>1
  <2>2. \A s \in Stores : KeysOf(buckets[s]) = {}
    BY <1>1 DEF KeysOf
  <2>3. 0 <= MAX_KEYS
    BY AdmissionAssumption
  <2> QED BY <1>1, <2>1, <2>2, <2>3 DEF BucketsTyped
<1>3. SpendingInv /\ PromiseInv
  BY <1>1 DEF SpendingInv, PromiseInv
<1> QED BY <1>2, <1>3 DEF RatesInv

\* The clock moves on, or nothing of admission control does.
LEMMA RatesLater ==
  ASSUME RatesInv, clock' \in Nat, clock <= clock', UNCHANGED <<buckets, granted, promised>>
  PROVE  RatesInv'
<1>1. clock \in Nat /\ \A o \in Stores : Full(o)' = Full(o) /\ KeysOf(buckets[o])' = KeysOf(buckets[o])
  BY DEF RatesInv, BucketsTyped, Full, KeysOf
<1>2. 0..clock \subseteq 0..clock'
  BY <1>1
<1>3. ASSUME NEW o \in Stores
      PROVE  /\ \A i \in DOMAIN buckets[o] : buckets[o][i].updated \in 0..clock'
             /\ \A key \in DOMAIN granted[o] : granted[o][key] \in Seq(0..clock')
  <2>1. \A i \in DOMAIN buckets[o] : buckets[o][i].updated \in 0..clock'
    BY <1>2 DEF RatesInv, BucketsTyped
  <2>2. Seq(0..clock) \subseteq Seq(0..clock')
    BY <1>2, SeqMonotonic
  <2> QED BY <2>1, <2>2 DEF RatesInv, BucketsTyped
<1>4. BucketsTyped'
  BY <1>1, <1>3, SMTT(30) DEF RatesInv, BucketsTyped
<1>5. SpendingInv'
  BY DEF RatesInv, SpendingInv, Spent, Full
<1>6. PromiseInv'
  BY DEF RatesInv, PromiseInv
<1> QED BY <1>4, <1>5, <1>6 DEF RatesInv

\* Every step, for admission control.
LEMMA RatesStep ==
  ASSUME RatesInv, [Next]_vars
  PROVE  RatesInv'
<1>0. clock \in Nat
  BY DEF RatesInv, BucketsTyped
<1>1. ASSUME UNCHANGED avars PROVE RatesInv'
  BY <1>0, <1>1, RatesLater DEF avars
<1>2. CASE UNCHANGED vars
  BY <1>1, <1>2 DEF vars
<1>3. ASSUME NEW r \in Requests, AdmitSignIn(r) \/ AdmitWrite(r) \/ AdmitOther(r) PROVE RatesInv'
  <2>1. CASE AdmitSignIn(r)
    BY <2>1, AccessAssumption, TakeStep DEF AdmitSignIn
  <2>2. CASE AdmitWrite(r)
    BY <2>2, AccessAssumption, TakeStep DEF AdmitWrite
  <2>3. CASE AdmitOther(r)
    BY <1>1, <2>3 DEF AdmitOther
  <2> QED BY <1>3, <2>1, <2>2, <2>3
<1>4. CASE Tick(bound.until)
  BY <1>0, <1>4, RatesLater DEF Tick
<1>5. CASE Restart
  <2>1. Forget
    BY <1>5 DEF Restart
  <2>2. /\ clock' \in Nat /\ buckets' = [s \in Stores |-> <<>>] /\ granted' = [s \in Stores |-> <<>>]
        /\ promised' = {}
    BY <1>0, <2>1 DEF Forget
  <2>3. (clock \in Nat /\ buckets = [s \in Stores |-> <<>>] /\ granted = [s \in Stores |-> <<>>]
         /\ promised = {})' => RatesInv'
    BY RatesFresh, PTL
  <2> QED BY <2>2, <2>3
<1> QED BY <1>1, <1>2, <1>3, <1>4, <1>5 DEF Next, Provision

\* What the admissions against a bucket add up to bounds them in every window, and a promise
\* that is due is kept by the bucket it was made from.
LEMMA RatesInvHolds ==
  ASSUME RatesInv
  PROVE  RatesHold
<1>1. ASSUME NEW s \in Stores, NEW key \in DOMAIN granted[s]
      PROVE  LET times == granted[s][key]
             IN \A j \in DOMAIN times : \A i \in 1..j :
                   (j - i + 1) * Profile[s].unit <= Full(s) + times[j] - times[i]
  <2> DEFINE times == granted[s][key]
  <2>1. PICK n \in DOMAIN buckets[s] : key = buckets[s][n].key
    BY BucketFacts DEF RatesInv
  <2>2. Spent(s, buckets[s][n], times)
    BY <2>1 DEF RatesInv, SpendingInv
  <2>3. DOMAIN times = 1..Len(times)
    <3>1. times \in Seq(0..clock)
      BY BucketFacts DEF RatesInv
    <3> HIDE DEF times
    <3> QED BY <3>1, LenProperties
  <2> QED BY <2>2, <2>3 DEF Spent
<1>2. ASSUME NEW p \in promised, p.at <= clock
      PROVE  Allowed(p.store, p.key)
  <2>1. PICK n \in DOMAIN buckets[p.store] :
          /\ p.store \in Stores /\ buckets[p.store][n].key = p.key /\ p.at \in Nat
          /\ buckets[p.store][n].tokens + (p.at - buckets[p.store][n].updated) >= Profile[p.store].unit
    BY DEF RatesInv, PromiseInv
  <2> DEFINE s == p.store
             b == buckets[s][n]
             full == [updated |-> clock, tokens |-> Refilled(s, p.key)]
  <2>2. full.updated = clock /\ full.tokens = Refilled(s, p.key)
    OBVIOUS
  <2> HIDE DEF full
  <2>3. Refilled(s, p.key) = AtMost(Full(s), b.tokens + (clock - b.updated))
    BY <2>1, <2>2, RefilledFacts
  <2>4. b.tokens \in Nat /\ b.updated \in Nat /\ clock \in Nat
    BY <2>1, BucketFacts DEF RatesInv, BucketsTyped
  <2>5. Profile[s].unit \in Nat \ {0} /\ Full(s) \in Nat /\ Full(s) >= Profile[s].unit
    BY <2>1, ProfileFacts
  <2> HIDE DEF b, s
  <2>6. b.tokens + (clock - b.updated) >= Profile[s].unit
    BY <1>2, <2>1, <2>4, <2>5 DEF b, s
  <2>7. Refilled(s, p.key) >= Profile[s].unit
    BY <2>3, <2>4, <2>5, <2>6 DEF AtMost
  <2> QED BY <2>7 DEF Allowed, s
<1> QED BY <1>1, <1>2 DEF RatesHold

-----------------------------------------------------------------------------
(* Sessions: what a step of one request leaves of the others' invariants.  *)

\* The session store loses sessions and touches those it keeps.
Shrinks ==
    /\ sessions' \in [SessionIds -> Session]
    /\ \A i \in SessionIds : There(i)' => There(i) /\ sessions'[i].principal = sessions[i].principal

\* What a step of r may do.
Moves(r) ==
    LET p == req[r]  q == req'[r]
    IN  /\ UNCHANGED asks
        /\ \A x \in Requests \ {r} : req'[x] = req[x] /\ active'[x] = active[x] /\ lapsed'[x] = lapsed[x]
        /\ \A i \in SessionIds :
              /\ There(i)' => There(i) \/ (i = r /\ p.pc = "create")
              /\ origin'[i] = origin[i] \/ (i = r /\ p.pc = "create")
              /\ Audited(i) => Audited(i)'
              /\ Audited(i)' => Audited(i) \/ (i = r /\ p.pc = "audit")
              /\ ended'[i] = ended[i] \/ EndedWell(i)'
        /\ \A t \in Requests : transactions'[t] # None => transactions[t] # None \/ (t = r /\ p.pc = "begin")
        /\ q.pc \in {"unsent", "begin"} => p.pc = "unsent"
        /\ p.pc \in Late => /\ q.pc \in Late /\ q.session = p.session /\ q.transaction = p.transaction
                            /\ q.principal = p.principal /\ lapsed'[r] = lapsed[r]
        /\ q.transaction \in {None, p.transaction} \/ transactions[q.transaction] # None
        /\ \A b \in Browsers :
              /\ jar'[b].binding \in {None, jar[b].binding} \/ (b = BrowserOf(r) /\ jar'[b].binding = r)
              /\ \/ jar'[b].session \in {None, jar[b].session}
                 \/ b = BrowserOf(r) /\ jar'[b].session = r /\ p.pc = "welcome"

\* The browsers of the requests are as they were.
LEMMA SameBrowsers == ASSUME UNCHANGED asks PROVE \A x : BrowserOf(x)' = BrowserOf(x)
  BY DEF BrowserOf

\* Another request keeps what it relies on.
LEMMA OthersKeep ==
  ASSUME SessionInv, NEW r \in Requests, Moves(r), NEW x \in Requests \ {r}
  PROVE  RequestInv(x)'
<1>1. /\ RequestInv(x) /\ RequestInv(r) /\ req[x] \in Request
  BY DEF SessionInv, SessionsTyped
<1>2. /\ req'[x] = req[x] /\ active'[x] = active[x] /\ lapsed'[x] = lapsed[x] /\ asks' = asks
      /\ origin'[x] = origin[x] /\ (There(x)' => There(x)) /\ (Audited(x)' <=> Audited(x))
      /\ x \in SessionIds /\ r \in SessionIds
  BY DEF Moves, SessionIds
<1>3. \A y : BrowserOf(y)' = BrowserOf(y)
  BY <1>2, SameBrowsers
<1> DEFINE q == req[x]
<1>4. q.session \in SessionIds \cup {None} /\ q.transaction \in Requests \cup {None}
  BY <1>1 DEF Request
<1>5. q.session \in Requests => Audited(q.session)'
  BY <1>1, <1>4 DEF RequestInv, Moves, SessionIds
<1>6. q.pc = "not_signed_in" => ~There(q.session)'
  <2>1. There(q.session)' => q.session \in SessionIds
    BY <1>2 DEF There
  <2>2. SUFFICES ASSUME q.pc = "not_signed_in", There(q.session)' PROVE FALSE
    OBVIOUS
  <2>3. ~There(q.session)
    BY <1>1, <2>2 DEF RequestInv
  <2>4. q.session = r /\ req[r].pc = "create"
    BY <2>1, <2>2, <2>3 DEF Moves
  <2> QED BY <1>1, <2>4 DEF RequestInv, Path
<1>7. q.transaction # None => /\ transactions'[q.transaction] = None
                              /\ req'[q.transaction].pc \notin {"unsent", "begin"}
  <2> SUFFICES ASSUME q.transaction # None
               PROVE  /\ transactions'[q.transaction] = None
                      /\ req'[q.transaction].pc \notin {"unsent", "begin"}
    OBVIOUS
  <2>1. /\ q.transaction \in Requests /\ transactions[q.transaction] = None
        /\ req[q.transaction].pc \notin {"unsent", "begin"}
    BY <1>1, <1>4 DEF RequestInv
  <2>2. transactions'[q.transaction] = None
    BY <2>1 DEF Moves
  <2>3. CASE q.transaction = r
    BY <2>1, <2>2, <2>3 DEF Moves
  <2>4. CASE q.transaction # r
    BY <2>1, <2>2, <2>4 DEF Moves
  <2> QED BY <2>3, <2>4
<1>8. transactions'[x] # None => transactions[x] # None
  BY DEF Moves
<1> QED BY <1>1, <1>2, <1>3, <1>5, <1>6, <1>7, <1>8 DEF RequestInv

\* Every consumed transaction is one request's.
LEMMA OneEachKeeps ==
  ASSUME SessionInv, NEW r \in Requests, Moves(r)
  PROVE  OneEach'
<1> SUFFICES ASSUME NEW x \in Requests, NEW s \in Requests, x # s, req'[x].transaction # None
             PROVE  req'[x].transaction # req'[s].transaction
  BY DEF OneEach
<1>1. \A y \in Requests \ {r} : req'[y] = req[y]
  BY DEF Moves
<1>2. req'[r].transaction \in {None, req[r].transaction} \/ transactions[req'[r].transaction] # None
  BY DEF Moves
<1>3. \A y \in Requests : req[y].transaction # None => transactions[req[y].transaction] = None
  BY DEF SessionInv, RequestInv
<1>4. \A y, z \in Requests : y # z /\ req[y].transaction # None => req[y].transaction # req[z].transaction
  BY DEF SessionInv, OneEach
<1>5. CASE x = r
  BY <1>1, <1>2, <1>3, <1>4, <1>5
<1>6. CASE s = r
  BY <1>1, <1>2, <1>3, <1>4, <1>6
<1>7. CASE x # r /\ s # r
  BY <1>1, <1>4, <1>7
<1> QED BY <1>5, <1>6, <1>7

\* Browsers hold what was earned in them.
LEMMA JarKeeps ==
  ASSUME SessionInv, NEW r \in Requests, Moves(r), SessionsTyped'
  PROVE  JarInv'
<1> DEFINE Told(i) == [event |-> "AUTHENTICATION_SUCCEEDED", request |-> i] \in audit'
<1> SUFFICES ASSUME NEW b \in Browsers
             PROVE  /\ jar'[b].binding # None => BrowserOf(jar'[b].binding) = b
                    /\ jar'[b].session \in Requests =>
                          /\ Told(jar'[b].session) /\ origin'[jar'[b].session] \in Requests
                          /\ BrowserOf(origin'[jar'[b].session]) = b
  <2>1. asks' = asks
    BY DEF Moves
  <2> QED BY <2>1 DEF JarInv, BrowserOf, Audited
<1>1. JarInv /\ RequestInv(r) /\ Requests \subseteq SessionIds
  BY DEF SessionInv, SessionIds
<1>2. jar'[b].binding # None => BrowserOf(jar'[b].binding) = b
  BY <1>1 DEF JarInv, Moves
<1>3. ASSUME jar'[b].session \in Requests, jar'[b].session = jar[b].session
      PROVE  /\ Told(jar'[b].session) /\ origin'[jar'[b].session] \in Requests
             /\ BrowserOf(origin'[jar'[b].session]) = b
  <2> DEFINE i == jar[b].session
  <2>1. Audited(i) /\ origin[i] \in Requests /\ BrowserOf(origin[i]) = b /\ i \in SessionIds
    BY <1>1, <1>3 DEF JarInv
  <2>2. Told(i)
    BY <1>1, <1>3, <2>1 DEF Moves, Audited
  <2>3. origin'[i] = origin[i]
    <3>1. i = r => req[r].pc # "create"
      BY <1>1, <2>1 DEF RequestInv, Path
    <3> QED BY <2>1, <3>1 DEF Moves
  <2> QED BY <1>3, <2>1, <2>2, <2>3
<1>4. ASSUME jar'[b].session = r, b = BrowserOf(r), req[r].pc = "welcome"
      PROVE  Told(r) /\ origin'[r] \in Requests /\ BrowserOf(origin'[r]) = b
  <2>1. Audited(r) /\ origin[r] # None /\ origin[r] = req[r].transaction /\ BrowserOf(req[r].transaction) = b
        /\ req[r].transaction # None
    BY <1>1, <1>4 DEF RequestInv
  <2>2. req[r].transaction \in Requests
    BY <2>1 DEF SessionInv, SessionsTyped, Request
  <2>3. Told(r) /\ origin'[r] = origin[r]
    BY <1>1, <1>4, <2>1 DEF Moves, Audited
  <2> QED BY <2>1, <2>2, <2>3
<1>5. jar'[b].session \in Requests => \/ jar'[b].session = jar[b].session
                                      \/ b = BrowserOf(r) /\ jar'[b].session = r /\ req[r].pc = "welcome"
  BY AccessAssumption DEF Moves
<1>6. CASE jar'[b].session \in Requests /\ jar'[b].session = r /\ b = BrowserOf(r) /\ req[r].pc = "welcome"
  BY <1>2, <1>4, <1>6
<1> QED BY <1>2, <1>3, <1>5, <1>6

\* What ended before this step, ended for the reason it had.
LEMMA EndedKeeps ==
  ASSUME SessionInv, NEW r \in Requests, Moves(r)
  PROVE  EndedInv'
<1> SUFFICES ASSUME NEW i \in SessionIds, ended'[i] = ended[i] PROVE EndedWell(i)'
  BY DEF EndedInv, Moves, SessionIds
<1> DEFINE e == ended[i]
<1>1. EndedWell(i) /\ \A y : BrowserOf(y)' = BrowserOf(y)
  BY SameBrowsers DEF SessionInv, EndedInv, Moves
<1>2. ASSUME NEW x \in Requests, req[x].pc \in Late
      PROVE  /\ req'[x].pc \in Late /\ req'[x].session = req[x].session
             /\ req'[x].transaction = req[x].transaction
             /\ req'[x].principal = req[x].principal /\ lapsed'[x] = lapsed[x]
  BY <1>2 DEF Moves
<1> QED BY <1>1, <1>2 DEF EndedWell

\* A step of r keeps the invariant when it leaves r as it should be.
LEMMA StepKeeps ==
  ASSUME SessionInv, NEW r \in Requests, Moves(r), SessionsTyped', RequestInv(r)', Capacities',
         \A x \in Requests : Witnessed(x)'
  PROVE  SessionInv'
<1>1. \A x \in Requests : RequestInv(x)'
  BY OthersKeep
<1>2. OneEach' /\ JarInv' /\ EndedInv'
  BY OneEachKeeps, JarKeeps, EndedKeeps
<1>3. origin'[EarlierSession] = EarlierLogin
  BY AccessAssumption DEF SessionInv, Moves, SessionIds
<1> QED BY <1>1, <1>2, <1>3 DEF SessionInv

\* Ending sessions: those named are gone, and why is recorded.
LEMMA EndFacts ==
  ASSUME SessionsTyped, NEW gone, NEW cause \in Causes, NEW r \in Requests \cup {None},
         End(gone, cause, r)
  PROVE  /\ Shrinks /\ ended' \in [SessionIds -> Ending]
         /\ \A i \in SessionIds : i \in gone => ~There(i)'
         /\ \A i \in SessionIds : \/ ended'[i] = ended[i]
                                  \/ i \in gone /\ There(i) /\ ended'[i] = [cause |-> cause, by |-> r]
<1>1. \A i \in SessionIds : sessions'[i] = IF i \in gone THEN NoSession ELSE sessions[i]
  BY DEF End
<1>2. NoSession \in Session
  BY DEF NoSession, Session
<1>3. sessions' \in [SessionIds -> Session]
  BY <1>2 DEF End, SessionsTyped
<1>4. [cause |-> cause, by |-> r] \in Ending
  BY DEF Ending
<1>5. ended' \in [SessionIds -> Ending]
  BY <1>4 DEF End, SessionsTyped
<1>6. \A i \in SessionIds : \/ ended'[i] = ended[i]
                            \/ i \in gone /\ There(i) /\ ended'[i] = [cause |-> cause, by |-> r]
  BY DEF End
<1>7. \A i \in SessionIds : (There(i)' <=> sessions'[i] # NoSession) /\ (There(i) <=> sessions[i] # NoSession)
  BY DEF There, NoSession
<1> QED BY <1>1, <1>3, <1>5, <1>6, <1>7 DEF Shrinks

\* Looking a session up: it is touched, or ends because it has expired.
LEMMA GetFacts ==
  ASSUME SessionsTyped, clock \in Nat, NEW i, get(i)
  PROVE  /\ Shrinks /\ ended' \in [SessionIds -> Ending]
         /\ \A j \in SessionIds : ended'[j] = ended[j] \/ ended'[j].cause = "expired"
<1>0. \A j \in SessionIds : (There(j)' <=> sessions'[j] # NoSession) /\ (There(j) <=> sessions[j] # NoSession)
  BY DEF There, NoSession
<1>1. CASE UNCHANGED <<sessions, ended>>
  BY <1>0, <1>1 DEF SessionsTyped, Shrinks
<1>2. CASE End({i}, "expired", None)
  <2>1. "expired" \in Causes /\ None \in Requests \cup {None}
    BY DEF Causes
  <2>2. /\ Shrinks /\ ended' \in [SessionIds -> Ending]
        /\ \A j \in SessionIds : \/ ended'[j] = ended[j]
                                 \/ j \in {i} /\ There(j) /\ ended'[j] = [cause |-> "expired", by |-> None]
    BY <1>2, <2>1, EndFacts
  <2> QED BY <2>2
<1>3. CASE There(i) /\ sessions' = [sessions EXCEPT ![i].seen = clock] /\ UNCHANGED ended
  <2>1. i \in SessionIds /\ sessions[i] \in Session
    BY <1>3 DEF There, SessionsTyped
  <2>2. [sessions[i] EXCEPT !.seen = clock] \in Session
    BY <2>1 DEF Session
  <2>3. sessions' \in [SessionIds -> Session]
    BY <1>3, <2>1, <2>2 DEF SessionsTyped
  <2>4. /\ sessions'[i].principal = sessions[i].principal
        /\ \A j \in SessionIds : j # i => sessions'[j] = sessions[j]
    BY <1>3, <2>1 DEF SessionsTyped, Session
  <2>5. Shrinks
    BY <1>0, <1>3, <2>3, <2>4 DEF Shrinks
  <2> QED BY <1>3, <2>5 DEF SessionsTyped
<1> QED BY <1>1, <1>2, <1>3 DEF get

\* Fewer sessions and transactions are within the capacities.
LEMMA FewerFit ==
  ASSUME Capacities, \A i \in SessionIds : There(i)' => There(i),
         \A t \in Requests : Began(t)' => Began(t)
  PROVE  Capacities'
<1> DEFINE S == {i \in SessionIds : There(i)}
           T == {t \in Requests : Began(t)}
           S1 == {i \in SessionIds : There(i)'}
           T1 == {t \in Requests : Began(t)'}
<1>1. IsFiniteSet(Requests) /\ IsFiniteSet(SessionIds)
  BY AccessAssumption, FS_AddElement DEF SessionIds
<1>2. IsFiniteSet(S) /\ IsFiniteSet(T) /\ S1 \subseteq S /\ T1 \subseteq T
  BY <1>1, FS_Subset
<1>3. /\ Cardinality(S1) <= Cardinality(S) /\ Cardinality(T1) <= Cardinality(T)
      /\ Cardinality(S1) \in Nat /\ Cardinality(S) \in Nat
      /\ Cardinality(T1) \in Nat /\ Cardinality(T) \in Nat
  BY <1>2, FS_Subset, FS_CardinalityType
<1>4. Cardinality(S) <= SESSIONS /\ Cardinality(T) <= TRANSACTIONS /\ SESSIONS \in Nat /\ TRANSACTIONS \in Nat
  BY AccessAssumption DEF Capacities
<1>5. Cardinality(S1) <= SESSIONS /\ Cardinality(T1) <= TRANSACTIONS
  BY ONLY <1>3, <1>4
<1>6. S1 = {i \in SessionIds : There(i)}' /\ T1 = {t \in Requests : Began(t)}'
  BY DEF SessionIds
<1> QED BY <1>5, <1>6 DEF Capacities

\* What a handler may leave of its request, q: what q says of itself, of the session it made
\* and of the transaction it consumed.
Sound(r, q) ==
    LET p == req[r]
    IN  /\ q \in Request /\ q.session = p.session /\ q.binding = p.binding
        /\ p.pc # "unsent" /\ q.pc \notin {"unsent", "begin", "audit"}
        /\ q.pc \in Path => p.pc \in Path
        /\ p.pc \in Late => q.pc \in Late /\ q.transaction = p.transaction /\ q.principal = p.principal
        /\ q.pc \in {"fail", "not_signed_in"} => ~There(r)'
        /\ q.pc = "not_signed_in" => \A i \in SessionIds : There(i)' => i # q.session
        /\ q.pc \in {"exchange", "find", "create", "welcome", "fail"} => q.transaction # None
        /\ \/ q.transaction = p.transaction
           \/ p.pc = "consume" /\ BrowserOf(q.transaction) = BrowserOf(r)
              /\ transactions[q.transaction] # None /\ transactions'[q.transaction] = None
              /\ req[q.transaction].pc \notin {"unsent", "begin"}
        /\ q.pc \in {"find", "create", "roles", "inactive", "served"} => q.principal \in Principals
        /\ q.pc = "inactive" => q.principal \in lapsed[r]
        /\ q.pc = "served" => q.principal \in active[r]

\* A step of a handler that makes no session and no transaction.
LEMMA PlainStep ==
  ASSUME SessionInv, NEW r \in Requests, NEW q, Sound(r, q), req' = [req EXCEPT ![r] = q],
         UNCHANGED <<asks, active, lapsed, rows, assignments, origin>>,
         Shrinks, ended' \in [SessionIds -> Ending],
         \A i \in SessionIds : ended'[i] = ended[i] \/ EndedWell(i)',
         transactions' \in [Requests -> Nat \cup {None}],
         \A t \in Requests : transactions'[t] # None => transactions[t] # None,
         jar' \in [Browsers -> Jar],
         \A b \in Browsers :
            /\ jar'[b].binding \in {None, jar[b].binding} \/ (b = BrowserOf(r) /\ jar'[b].binding = r)
            /\ \/ jar'[b].session \in {None, jar[b].session}
               \/ b = BrowserOf(r) /\ jar'[b].session = r /\ req[r].pc = "welcome",
         \A i \in SessionIds : Audited(i) => Audited(i)',
         \A i \in SessionIds : Audited(i)' => Audited(i) \/ (i = r /\ q.pc = "welcome"),
         q.pc = "welcome" => req[r].pc = "audit" /\ Audited(r)'
  PROVE  SessionInv'
<1> DEFINE p == req[r]
<1>0. /\ SessionsTyped /\ RequestInv(r) /\ p \in Request /\ q \in Request /\ r \in SessionIds
      /\ \A y : BrowserOf(y)' = BrowserOf(y)
  BY SameBrowsers DEF SessionInv, SessionsTyped, Sound, SessionIds
<1>1. req' \in [Requests -> Request] /\ req'[r] = q /\ \A x \in Requests \ {r} : req'[x] = req[x]
  BY <1>0 DEF SessionsTyped
<1>2. SessionsTyped'
  <2>1. \A i \in SessionIds : There(i)' => sessions'[i].principal \in Principals
    BY <1>0 DEF SessionsTyped, Shrinks
  <2>2. SessionIds' = SessionIds
    BY DEF SessionIds
  <2>3. sessions' \in [SessionIds -> Session]
    BY DEF Shrinks
  <2> QED BY <1>0, <1>1, <2>1, <2>2, <2>3 DEF SessionsTyped
<1>3. Capacities'
  <2>1. \A i \in SessionIds : There(i)' => There(i)
    BY DEF Shrinks
  <2>2. \A t \in Requests : Began(t)' => Began(t)
    BY DEF Began
  <2> QED BY <2>1, <2>2, FewerFit DEF SessionInv
<1>4. ASSUME NEW x \in Requests PROVE Witnessed(x)'
  <2>1. req'[x].pc # "unsent" => req[x].pc # "unsent"
    BY <1>1 DEF Sound
  <2>2. \A y \in Principals : Active(y)' <=> Active(y)
    BY DEF Active, RolesOf
  <2>3. Witnessed(x)
    BY DEF SessionInv
  <2> QED BY <2>1, <2>2, <2>3 DEF Witnessed
<1>5. \A i \in SessionIds : There(i)' => There(i)
  BY DEF Shrinks
<1>6. q.transaction \in {None, p.transaction} \/ transactions[q.transaction] # None
  BY DEF Sound
<1>7. Moves(r)
  <2>1. /\ q.pc \notin {"unsent", "begin"}
        /\ p.pc \in Late => /\ q.pc \in Late /\ q.session = p.session /\ q.transaction = p.transaction
                            /\ q.principal = p.principal
    BY DEF Sound
  <2>2. \A i \in SessionIds : Audited(i)' => Audited(i) \/ (i = r /\ p.pc = "audit")
    OBVIOUS
  <2>3. \A x \in Requests \ {r} : req'[x] = req[x] /\ active'[x] = active[x] /\ lapsed'[x] = lapsed[x]
    BY <1>1
  <2>4. \A i \in SessionIds : /\ There(i)' => There(i) \/ (i = r /\ p.pc = "create")
                              /\ origin'[i] = origin[i] \/ (i = r /\ p.pc = "create")
                              /\ Audited(i) => Audited(i)'
                              /\ Audited(i)' => Audited(i) \/ (i = r /\ p.pc = "audit")
                              /\ ended'[i] = ended[i] \/ EndedWell(i)'
    BY <1>5, <2>2
  <2>5. /\ q.pc \in {"unsent", "begin"} => p.pc = "unsent"
        /\ p.pc \in Late => /\ q.pc \in Late /\ q.session = p.session /\ q.transaction = p.transaction
                            /\ q.principal = p.principal /\ lapsed'[r] = lapsed[r]
        /\ q.transaction \in {None, p.transaction} \/ transactions[q.transaction] # None
    BY <1>6, <2>1
  <2>6. \A t \in Requests : transactions'[t] # None => transactions[t] # None
    OBVIOUS
  <2>7. \A b \in Browsers :
           /\ jar'[b].binding \in {None, jar[b].binding} \/ (b = BrowserOf(r) /\ jar'[b].binding = r)
           /\ \/ jar'[b].session \in {None, jar[b].session}
              \/ b = BrowserOf(r) /\ jar'[b].session = r /\ p.pc = "welcome"
    OBVIOUS
  <2>8. req'[r] = q /\ UNCHANGED asks
    BY <1>1
  <2> QED BY ONLY <2>3, <2>4, <2>5, <2>6, <2>7, <2>8 DEF Moves
<1>8. RequestInv(r)'
  <2>1. /\ q.pc \in Path => ~There(r)' /\ ~Audited(r)' /\ origin'[r] = None
        /\ q.pc # "audit"
        /\ q.pc = "welcome" => origin'[r] # None
        /\ q.pc = "welcome" => Audited(r)'
    <3>1. q.pc = "welcome" => q.pc \notin Path
      BY DEF Path
    <3> QED BY <1>0, <1>5, <3>1 DEF Sound, RequestInv
  <2>2. q.transaction # None => /\ BrowserOf(q.transaction) = BrowserOf(r)
                                /\ transactions'[q.transaction] = None
                                /\ req'[q.transaction].pc \notin {"unsent", "begin"}
    <3> SUFFICES ASSUME q.transaction # None
                 PROVE  /\ BrowserOf(q.transaction) = BrowserOf(r)
                        /\ transactions'[q.transaction] = None
                        /\ req'[q.transaction].pc \notin {"unsent", "begin"}
      OBVIOUS
    <3>1. q.transaction \in Requests
      BY <1>0 DEF Request
    <3>2. /\ BrowserOf(q.transaction) = BrowserOf(r) /\ transactions'[q.transaction] = None
          /\ req[q.transaction].pc \notin {"unsent", "begin"}
      <4>1. CASE q.transaction = p.transaction
        <5>1. /\ BrowserOf(q.transaction) = BrowserOf(r) /\ transactions[q.transaction] = None
              /\ req[q.transaction].pc \notin {"unsent", "begin"}
          BY <1>0, <4>1 DEF RequestInv
        <5> QED BY <3>1, <5>1
      <4>2. CASE q.transaction # p.transaction
        BY <4>2 DEF Sound
      <4> QED BY <4>1, <4>2
    <3> QED BY <1>1, <3>1, <3>2 DEF Sound
  <2>3. origin'[r] \in {None, q.transaction}
    BY <1>0 DEF Sound, RequestInv, Path
  <2>4. /\ q.binding # None => BrowserOf(q.binding) = BrowserOf(r)
        /\ q.session \in Requests => Audited(q.session)'
    <3>1. q.session \in Requests => q.session \in SessionIds /\ Audited(q.session)
      BY <1>0 DEF Sound, RequestInv, SessionIds
    <3>2. q.session \in Requests => Audited(q.session)'
      BY <3>1
    <3> QED BY <1>0, <3>2 DEF Sound, RequestInv
  <2>5. q.pc \notin {"unsent", "begin"}
    BY DEF Sound
  <2>6. q.pc = "not_signed_in" => ~There(q.session)'
    BY DEF Sound, There, SessionIds
  <2> QED BY <1>0, <1>1, <2>1, <2>2, <2>3, <2>4, <2>5, <2>6 DEF Sound, RequestInv
<1> QED BY <1>2, <1>3, <1>4, <1>7, <1>8, StepKeeps

\* A request's answer, which changes its place only.
LEMMA AnswerSound ==
  ASSUME SessionInv, NEW r \in Requests, NEW how \in Pcs \ {"unsent", "begin", "audit"},
         req[r].pc # "unsent", how \in Path => req[r].pc \in Path, req[r].pc \in Late => how \in Late,
         how \in {"fail", "not_signed_in"} => ~There(r)',
         how = "not_signed_in" => \A i \in SessionIds : There(i)' => i # req[r].session,
         how \in {"exchange", "find", "create", "welcome", "fail"} => req[r].transaction # None,
         how \in {"find", "create", "roles", "inactive", "served"} => req[r].principal \in Principals,
         how = "inactive" => req[r].principal \in lapsed[r],
         how = "served" => req[r].principal \in active[r],
         Answer(r, how)
  PROVE  \E q : Sound(r, q) /\ q.pc = how /\ req' = [req EXCEPT ![r] = q]
<1> DEFINE p == req[r]
           q == [p EXCEPT !.pc = how]
<1>1. p \in Request
  BY DEF SessionInv, SessionsTyped
<1>2. /\ q \in Request /\ q.pc = how /\ q.session = p.session /\ q.binding = p.binding
      /\ q.transaction = p.transaction /\ q.principal = p.principal
  BY <1>1 DEF Request
<1>3. req' = [req EXCEPT ![r] = q]
  BY DEF Answer
<1> HIDE DEF q
<1>4. Sound(r, q)
  BY <1>2 DEF Sound
<1> QED BY <1>2, <1>3, <1>4

\* Nothing else is logged as a sign-in.
LEMMA OtherEvents ==
  ASSUME NEW event, event # "AUTHENTICATION_SUCCEEDED", NEW r, MayLog(event, r)
  PROVE  \A i : Audited(i)' <=> Audited(i)
  BY DEF MayLog, Log, Audited

\* A step that changes only its request.
LEMMA QuietStep ==
  ASSUME SessionInv, NEW r \in Requests, NEW q, Sound(r, q), req' = [req EXCEPT ![r] = q], q.pc # "welcome",
         UNCHANGED <<asks, active, lapsed, rows, assignments>>,
         UNCHANGED <<transactions, sessions, ended, jar, audit, origin>>
  PROVE  SessionInv'
<1>1. SessionsTyped
  BY DEF SessionInv
<1>2. Shrinks
  BY <1>1 DEF Shrinks, SessionsTyped, There
<1>3. \A i : Audited(i)' <=> Audited(i)
  BY DEF Audited
<1>4. /\ ended' \in [SessionIds -> Ending] /\ transactions' \in [Requests -> Nat \cup {None}]
      /\ jar' \in [Browsers -> Jar] /\ ended' = ended /\ transactions' = transactions /\ jar' = jar
      /\ UNCHANGED <<asks, active, lapsed, rows, assignments, origin>>
  BY <1>1 DEF SessionsTyped
<1> QED BY <1>2, <1>3, <1>4, PlainStep

\* The handlers' steps that only go on or give up.
LEMMA QuietSteps ==
  ASSUME SessionInv, NEW r \in Requests, UNCHANGED <<asks, active, lapsed, rows, assignments>>,
         \/ ProviderRefuses(r) \/ (\E x \in Principals : ProviderVouches(r, x)) \/ FindActive(r) \/ ReadRoles(r)
  PROVE  SessionInv'
<1> DEFINE p == req[r]
<1>0. /\ p \in Request /\ RequestInv(r) /\ Witnessed(r) /\ r \in SessionIds
      /\ UNCHANGED <<transactions, sessions, ended, jar, audit, origin>>
      /\ (There(r)' <=> There(r))
  BY DEF SessionInv, SessionsTyped, SessionIds, ProviderRefuses, ProviderVouches, FindActive, ReadRoles, There
<1>1. SUFFICES \E q : Sound(r, q) /\ req' = [req EXCEPT ![r] = q] /\ q.pc # "welcome"
  BY <1>0, QuietStep
<1>2. ASSUME p.pc \in {"exchange", "find"},
             NEW reason \in {"AUTHENTICATION_FAILED", "AUTHORIZATION_DENIED"}, FailWith(r, reason)
      PROVE  \E q : Sound(r, q) /\ req' = [req EXCEPT ![r] = q] /\ q.pc # "welcome"
  <2> DEFINE q == [p EXCEPT !.pc = "fail", !.reason = reason]
  <2>1. /\ q \in Request /\ q.pc = "fail" /\ q.session = p.session /\ q.binding = p.binding
        /\ q.transaction = p.transaction /\ q.principal = p.principal
    BY <1>0 DEF Request, Pcs, Late
  <2>2. req' = [req EXCEPT ![r] = q]
    BY <1>2 DEF FailWith
  <2> HIDE DEF q
  <2>3. p.transaction # None /\ ~There(r)'
    BY <1>0, <1>2 DEF RequestInv, Path
  <2>4. Sound(r, q)
    BY <1>2, <2>1, <2>3 DEF Sound, Path, Late
  <2> QED BY <2>1, <2>2, <2>4
<1>3. CASE ProviderRefuses(r)
  BY <1>2, <1>3 DEF ProviderRefuses
<1>4. ASSUME NEW x \in Principals, ProviderVouches(r, x)
      PROVE  \E q : Sound(r, q) /\ req' = [req EXCEPT ![r] = q] /\ q.pc # "welcome"
  <2> DEFINE q == [p EXCEPT !.pc = "find", !.principal = x]
  <2>1. /\ q \in Request /\ q.pc = "find" /\ q.session = p.session /\ q.binding = p.binding
        /\ q.transaction = p.transaction /\ q.principal = x
    BY <1>0 DEF Request, Pcs, Path
  <2>2. req' = [req EXCEPT ![r] = q] /\ p.pc = "exchange"
    BY <1>4 DEF ProviderVouches
  <2> HIDE DEF q
  <2>3. p.transaction # None
    BY <1>0, <2>2 DEF RequestInv
  <2>4. Sound(r, q)
    BY <2>1, <2>2, <2>3 DEF Sound, Path, Late
  <2> QED BY <2>1, <2>2, <2>4
<1>5. CASE FindActive(r)
  <2>1. p.pc = "find" /\ p.transaction # None /\ p.principal \in Principals
    BY <1>0, <1>5 DEF RequestInv, FindActive
  <2>2. CASE Answer(r, "create")
    BY <2>1, <2>2, AnswerSound DEF Pcs, Path, Late
  <2>3. CASE \E reason \in {"AUTHENTICATION_FAILED", "AUTHORIZATION_DENIED"} : FailWith(r, reason)
    BY <1>2, <2>1, <2>3
  <2> QED BY <1>5, <2>2, <2>3 DEF FindActive
<1>6. CASE ReadRoles(r)
  <2>1. p.pc = "roles" /\ p.principal \in Principals /\ p.pc \notin Late
    BY <1>0, <1>6 DEF RequestInv, ReadRoles, Late
  <2>2. CASE Active(p.principal) /\ Answer(r, "served")
    <3>1. p.principal \in active[r]
      BY <1>0, <2>1, <2>2 DEF Witnessed
    <3> QED BY <2>1, <2>2, <3>1, AnswerSound DEF Pcs, Path, Answered
  <2>3. CASE ~Active(p.principal) /\ Answer(r, "inactive")
    <3>1. p.principal \in lapsed[r]
      BY <1>0, <2>1, <2>3 DEF Witnessed
    <3> QED BY <2>1, <2>3, <3>1, AnswerSound DEF Pcs, Path
  <2>4. CASE Answer(r, "unavailable")
    BY <2>1, <2>4, AnswerSound DEF Pcs, Path, Answered
  <2> QED BY <1>6, <2>2, <2>3, <2>4 DEF ReadRoles
<1> QED BY <1>3, <1>4, <1>5, <1>6

\* A browser's jar that at most forgets a session or a login, or takes a CSRF token.
JarKept ==
    /\ jar' \in [Browsers -> Jar]
    /\ \A b \in Browsers : /\ jar'[b].binding \in {None, jar[b].binding}
                           /\ jar'[b].session \in {None, jar[b].session}

\* Clearing cookies and giving out a CSRF token keep a jar in that sense.
LEMMA JarFacts ==
  ASSUME SessionsTyped, NEW r \in Requests,
         \/ UNCHANGED jar \/ ClearSession(r)
         \/ jar' = [jar EXCEPT ![BrowserOf(r)].session = None, ![BrowserOf(r)].binding = None]
         \/ \E i \in SessionIds : jar' = [jar EXCEPT ![BrowserOf(r)].csrf = i]
  PROVE  JarKept
<1> DEFINE c == BrowserOf(r)
<1>1. c \in Browsers /\ jar[c] \in Jar /\ DOMAIN jar = Browsers
  BY DEF SessionsTyped
<1>2. CASE UNCHANGED jar
  BY <1>2 DEF JarKept, SessionsTyped
<1>3. ASSUME NEW x \in Jar, jar' = [jar EXCEPT ![c] = x], x.binding \in {None, jar[c].binding},
             x.session \in {None, jar[c].session}
      PROVE  JarKept
  <2>1. jar' \in [Browsers -> Jar]
    BY <1>3 DEF SessionsTyped
  <2>2. jar'[c] = x /\ \A b \in Browsers : b # c => jar'[b] = jar[b]
    BY <1>1, <1>3
  <2> QED BY <1>3, <2>1, <2>2 DEF JarKept
<1>4. CASE ClearSession(r)
  <2> DEFINE x == [jar[c] EXCEPT !.session = None]
  <2>1. x \in Jar /\ x.binding = jar[c].binding /\ x.session = None
    BY <1>1 DEF Jar
  <2>2. jar' = [jar EXCEPT ![c] = x]
    BY <1>4 DEF ClearSession
  <2> HIDE DEF x
  <2> QED BY <1>3, <2>1, <2>2
<1>5. CASE jar' = [jar EXCEPT ![c].session = None, ![c].binding = None]
  <2> DEFINE x == [jar[c] EXCEPT !.session = None, !.binding = None]
  <2>1. x \in Jar /\ x.binding = None /\ x.session = None
    BY <1>1 DEF Jar
  <2>2. jar' = [jar EXCEPT ![c] = x]
    BY <1>1, <1>5
  <2> HIDE DEF x
  <2> QED BY <1>3, <2>1, <2>2
<1>6. ASSUME NEW i \in SessionIds, jar' = [jar EXCEPT ![c].csrf = i] PROVE JarKept
  <2> DEFINE x == [jar[c] EXCEPT !.csrf = i]
  <2>1. x \in Jar /\ x.binding = jar[c].binding /\ x.session = jar[c].session
    BY <1>1 DEF Jar
  <2>2. jar' = [jar EXCEPT ![c] = x]
    BY <1>6
  <2> HIDE DEF x
  <2> QED BY <1>3, <2>1, <2>2
<1> QED BY <1>2, <1>4, <1>5, <1>6

\* A step that looks a session up, or ends some for a reason the step's answer bears out.
LEMMA StoreStep ==
  ASSUME SessionInv, clock \in Nat, NEW r \in Requests, NEW q, Sound(r, q), req' = [req EXCEPT ![r] = q],
         q.pc # "welcome", UNCHANGED <<asks, active, lapsed, rows, assignments>>,
         UNCHANGED <<transactions, origin>>, JarKept, \A i : Audited(i)' <=> Audited(i),
         \/ \E i : get(i)
         \/ /\ q.pc \in Late
            /\ \/ \E gone : End(gone, "unaudited", r)
               \/ End({q.session}, "logout", r)
               \/ q.transaction # None /\ End({q.session}, "failed_sign_in", r)
               \/ q.principal \in lapsed[r] /\ \E gone : End(gone, "inactive", r)
  PROVE  SessionInv'
<1>0. SessionsTyped /\ RequestInv(r) /\ req[r] \in Request
  BY DEF SessionInv, SessionsTyped
<1>1. \A y : BrowserOf(y)' = BrowserOf(y)
  BY SameBrowsers
<1>2. req'[r] = q
  BY <1>0 DEF SessionsTyped
<1>3. q.transaction # None => BrowserOf(q.transaction) = BrowserOf(r)
  BY <1>0 DEF Sound, RequestInv
<1>4. Shrinks /\ ended' \in [SessionIds -> Ending]
      /\ \A i \in SessionIds : ended'[i] = ended[i] \/ EndedWell(i)'
  <2>1. ASSUME NEW i, get(i)
        PROVE  Shrinks /\ ended' \in [SessionIds -> Ending]
               /\ \A j \in SessionIds : ended'[j] = ended[j] \/ EndedWell(j)'
    <3>1. Shrinks /\ ended' \in [SessionIds -> Ending]
          /\ \A j \in SessionIds : ended'[j] = ended[j] \/ ended'[j].cause = "expired"
      BY <1>0, <2>1, GetFacts
    <3> QED BY <3>1 DEF EndedWell
  <2>2. ASSUME q.pc \in Late, NEW gone, NEW cause \in Causes, End(gone, cause, r),
               \/ cause = "unaudited"
               \/ cause = "logout" /\ gone = {q.session}
               \/ cause = "failed_sign_in" /\ gone = {q.session} /\ q.transaction # None
               \/ cause = "inactive" /\ q.principal \in lapsed[r]
        PROVE  Shrinks /\ ended' \in [SessionIds -> Ending]
               /\ \A j \in SessionIds : ended'[j] = ended[j] \/ EndedWell(j)'
    <3>1. /\ Shrinks /\ ended' \in [SessionIds -> Ending]
          /\ \A j \in SessionIds : \/ ended'[j] = ended[j]
                                   \/ j \in gone /\ There(j) /\ ended'[j] = [cause |-> cause, by |-> r]
      BY <1>0, <2>2, EndFacts
    <3>2. ASSUME NEW j \in SessionIds, j \in gone, ended'[j] = [cause |-> cause, by |-> r]
          PROVE  EndedWell(j)'
      <4>1. ended'[j].cause = cause /\ ended'[j].by = r /\ lapsed' = lapsed
        BY <3>2
      <4> QED BY <1>1, <1>2, <1>3, <2>2, <3>2, <4>1 DEF EndedWell
    <3> QED BY <3>1, <3>2
  <2>3. {"unaudited", "logout", "failed_sign_in", "inactive"} \subseteq Causes
    BY DEF Causes
  <2> QED BY <2>1, <2>2, <2>3
<1>5. /\ transactions' \in [Requests -> Nat \cup {None}]
      /\ transactions' = transactions
  BY <1>0 DEF SessionsTyped
<1>6. /\ jar' \in [Browsers -> Jar]
      /\ \A b \in Browsers : /\ jar'[b].binding \in {None, jar[b].binding}
                             /\ jar'[b].session \in {None, jar[b].session}
  BY DEF JarKept
<1> QED BY <1>4, <1>5, <1>6, PlainStep

\* The handlers that look their session up.
LEMMA LookupSteps ==
  ASSUME SessionInv, clock \in Nat, NEW r \in Requests,
         UNCHANGED <<asks, active, lapsed, rows, assignments>>,
         PassCsrf(r) \/ FailCsrf(r) \/ CsrfToken(r) \/ FindSession(r)
  PROVE  SessionInv'
<1> DEFINE p == req[r]
<1>0. /\ p \in Request /\ RequestInv(r) /\ SessionsTyped /\ get(p.session) /\ UNCHANGED <<transactions, origin>>
      /\ p.pc \notin Path /\ p.pc \notin Late /\ p.pc # "unsent" /\ p.session \in SessionIds \cup {None}
  BY DEF SessionInv, SessionsTyped, Request, PassCsrf, FailCsrf, CsrfToken, FindSession, Path, Late
<1>1. JarKept
  <2>1. Found(p.session) => p.session \in SessionIds
    BY DEF Found, There
  <2>2. \/ UNCHANGED jar \/ ClearSession(r)
        \/ \E i \in SessionIds : jar' = [jar EXCEPT ![BrowserOf(r)].csrf = i]
    BY <2>1 DEF PassCsrf, FailCsrf, CsrfToken, FindSession
  <2> QED BY <1>0, <2>2, JarFacts
<1>2. \A i : Audited(i)' <=> Audited(i)
  <2>1. UNCHANGED audit \/ MayLog("AUTHORIZATION_DENIED", r)
    BY DEF PassCsrf, FailCsrf, CsrfToken, FindSession
  <2>2. CASE UNCHANGED audit
    BY <2>2 DEF Audited
  <2>3. CASE MayLog("AUTHORIZATION_DENIED", r)
    BY <2>3, OtherEvents
  <2> QED BY <2>1, <2>2, <2>3
<1>3. SUFFICES \E q : Sound(r, q) /\ req' = [req EXCEPT ![r] = q] /\ q.pc # "welcome"
  <2> PICK q : Sound(r, q) /\ req' = [req EXCEPT ![r] = q] /\ q.pc # "welcome"
    BY <1>3
  <2> QED BY <1>0, <1>1, <1>2, StoreStep
<1>4. ASSUME NEW how \in {"logout", "session", "forbidden", "token_given", "unauthenticated"}, Answer(r, how)
      PROVE  \E q : Sound(r, q) /\ req' = [req EXCEPT ![r] = q] /\ q.pc # "welcome"
  <2>1. how \in Pcs \ {"unsent", "begin", "audit"} /\ how \notin Path
    BY DEF Pcs, Path, Answered
  <2> QED BY <1>0, <1>4, <2>1, AnswerSound
<1>5. CASE \/ PassCsrf(r) \/ FailCsrf(r) \/ CsrfToken(r) \/ (FindSession(r) /\ ~Found(p.session))
  BY <1>4, <1>5 DEF PassCsrf, FailCsrf, CsrfToken, FindSession
<1>6. CASE FindSession(r) /\ Found(p.session)
  <2> DEFINE q == [p EXCEPT !.pc = "roles", !.principal = sessions[p.session].principal]
  <2>1. sessions[p.session].principal \in Principals
    BY <1>0, <1>6 DEF Found, SessionsTyped, There
  <2>2. /\ q \in Request /\ q.pc = "roles" /\ q.session = p.session /\ q.binding = p.binding
        /\ q.transaction = p.transaction /\ q.principal \in Principals
    BY <1>0, <2>1 DEF Request, Pcs
  <2>3. req' = [req EXCEPT ![r] = q]
    BY <1>6 DEF FindSession
  <2> HIDE DEF q
  <2>4. Sound(r, q)
    BY <1>0, <2>2 DEF Sound, Path
  <2> QED BY <2>2, <2>3, <2>4
<1> QED BY <1>5, <1>6

\* The handlers that end sessions.
LEMMA EndingSteps ==
  ASSUME SessionInv, clock \in Nat, NEW r \in Requests,
         UNCHANGED <<asks, active, lapsed, rows, assignments>>,
         \/ Logout(r) \/ FailSignIn(r) \/ EndInactive(r)
         \/ AuditSession(r) /\ End({r}, "unaudited", r) /\ FailWith(r, None) /\ UNCHANGED audit
  PROVE  SessionInv'
<1> DEFINE p == req[r]
<1>0. /\ p \in Request /\ RequestInv(r) /\ SessionsTyped /\ UNCHANGED <<transactions, origin>>
      /\ r \in SessionIds
      /\ p.pc \notin Path /\ p.pc # "unsent" /\ p.session \in SessionIds \cup {None}
  BY DEF SessionInv, SessionsTyped, SessionIds, Request, Logout, FailSignIn, EndInactive, AuditSession, Path
<1>1. JarKept
  <2>1. \/ UNCHANGED jar \/ ClearSession(r)
        \/ jar' = [jar EXCEPT ![BrowserOf(r)].session = None, ![BrowserOf(r)].binding = None]
    BY DEF Logout, FailSignIn, EndInactive, AuditSession
  <2> QED BY <1>0, <2>1, JarFacts
<1>2. \A i : Audited(i)' <=> Audited(i)
  <2>1. CASE UNCHANGED audit
    BY <2>1 DEF Audited
  <2>2. ASSUME NEW event \in {"AUTHENTICATION_FAILED", "AUTHORIZATION_DENIED"}, MayLog(event, r)
        PROVE  \A i : Audited(i)' <=> Audited(i)
    BY <2>2, OtherEvents
  <2>3. p.reason \in {None, "AUTHENTICATION_FAILED", "AUTHORIZATION_DENIED"}
    BY <1>0 DEF Request
  <2> QED BY <2>1, <2>2, <2>3 DEF Logout, FailSignIn, EndInactive
<1>3. CASE Logout(r)
  <2>1. PICK q : Sound(r, q) /\ q.pc = "signing_out" /\ req' = [req EXCEPT ![r] = q]
    <3>1. p.pc = "logout" /\ Answer(r, "signing_out")
      BY <1>3 DEF Logout
    <3> QED BY <1>0, <3>1, AnswerSound DEF Pcs, Path, Late
  <2>2. q.pc \in Late /\ q.pc # "welcome" /\ End({q.session}, "logout", r)
    BY <1>3, <2>1 DEF Sound, Logout, Late
  <2> QED BY <1>0, <1>1, <1>2, <2>1, <2>2, StoreStep
<1>4. CASE FailSignIn(r)
  <2>1. /\ p.pc = "fail" /\ End({p.session}, "failed_sign_in", r) /\ Answer(r, "not_signed_in")
        /\ p.transaction # None /\ ~There(r)
    BY <1>0, <1>4 DEF FailSignIn, RequestInv
  <2>2. ~There(r)' /\ \A i \in SessionIds : There(i)' => i # p.session
    <3>1. Shrinks /\ \A i \in SessionIds : i \in {p.session} => ~There(i)'
      BY <1>0, <2>1, EndFacts DEF Causes
    <3> QED BY <1>0, <2>1, <3>1 DEF Shrinks
  <2>3. PICK q : Sound(r, q) /\ q.pc = "not_signed_in" /\ req' = [req EXCEPT ![r] = q]
    BY <1>0, <2>1, <2>2, AnswerSound DEF Pcs, Path, Late
  <2>4. q.pc \in Late /\ q.pc # "welcome" /\ End({q.session}, "failed_sign_in", r) /\ q.transaction # None
    BY <2>1, <2>3 DEF Sound, Late
  <2> QED BY <1>0, <1>1, <1>2, <2>3, <2>4, StoreStep
<1>5. CASE EndInactive(r)
  <2>1. /\ p.pc = "inactive" /\ p.principal \in lapsed[r] /\ Answer(r, "unauthenticated")
        /\ \E gone : End(gone, "inactive", r)
    BY <1>0, <1>5 DEF EndInactive, RequestInv
  <2> DEFINE q == [p EXCEPT !.pc = "unauthenticated"]
  <2>2. /\ q \in Request /\ q.pc = "unauthenticated" /\ q.session = p.session /\ q.binding = p.binding
        /\ q.transaction = p.transaction /\ q.principal = p.principal
    BY <1>0 DEF Request, Pcs, Late
  <2>3. req' = [req EXCEPT ![r] = q]
    BY <2>1 DEF Answer
  <2> HIDE DEF q
  <2>4. Sound(r, q) /\ q.pc \in Late /\ q.pc # "welcome" /\ q.principal \in lapsed[r]
    BY <1>0, <2>1, <2>2 DEF Sound, Path, Late
  <2> QED BY <1>0, <1>1, <1>2, <2>1, <2>3, <2>4, StoreStep
<1>6. CASE AuditSession(r) /\ End({r}, "unaudited", r) /\ FailWith(r, None)
  <2>1. p.pc = "audit" /\ p.transaction # None
    BY <1>0, <1>6 DEF AuditSession, RequestInv
  <2>2. ~There(r)'
    BY <1>0, <1>6, EndFacts DEF Causes
  <2> DEFINE q == [p EXCEPT !.pc = "fail", !.reason = None]
  <2>3. /\ q \in Request /\ q.pc = "fail" /\ q.session = p.session /\ q.binding = p.binding
        /\ q.transaction = p.transaction /\ q.principal = p.principal
    BY <1>0 DEF Request, Pcs, Late
  <2>4. req' = [req EXCEPT ![r] = q]
    BY <1>6 DEF FailWith
  <2> HIDE DEF q
  <2>5. Sound(r, q) /\ q.pc \in Late /\ q.pc # "welcome"
    BY <1>0, <2>1, <2>2, <2>3 DEF Sound, Path, Late
  <2>6. \E gone : End(gone, "unaudited", r)
    BY <1>6
  <2> QED BY <1>0, <1>1, <1>2, <2>4, <2>5, <2>6, StoreStep
<1> QED BY <1>3, <1>4, <1>5, <1>6

\* The handlers that leave the session store alone and answer a browser, audit or consume.
LEMMA AnsweringSteps ==
  ASSUME SessionInv, NEW r \in Requests, UNCHANGED <<asks, active, lapsed, rows, assignments>>,
         \/ AnswerLogin(r) \/ AnswerCallback(r) \/ AnswerLogout(r)
         \/ AuditSession(r) /\ Log("AUTHENTICATION_SUCCEEDED", r) /\ Answer(r, "welcome")
            /\ UNCHANGED <<sessions, ended>>
  PROVE  SessionInv'
<1> DEFINE p == req[r]
           c == BrowserOf(r)
<1>0. /\ p \in Request /\ RequestInv(r) /\ SessionsTyped /\ UNCHANGED <<transactions, origin, sessions, ended>>
      /\ r \in SessionIds /\ p.pc \notin Path /\ p.pc # "unsent"
  BY DEF SessionInv, SessionsTyped, SessionIds, AnswerLogin, AnswerCallback, AnswerLogout, AuditSession, Path
<1>1. /\ Shrinks /\ ended' \in [SessionIds -> Ending] /\ ended' = ended
      /\ transactions' \in [Requests -> Nat \cup {None}] /\ transactions' = transactions
      /\ c \in Browsers /\ jar[c] \in Jar /\ DOMAIN jar = Browsers
  BY <1>0 DEF Shrinks, SessionsTyped, There
<1>2. ASSUME UNCHANGED audit PROVE \A i : Audited(i)' <=> Audited(i)
  BY <1>2 DEF Audited
<1>3. ASSUME NEW how \in {"redirected", "unavailable"}, AnswerLogin(r), Answer(r, how)
      PROVE  \E q : Sound(r, q) /\ req' = [req EXCEPT ![r] = q] /\ q.pc # "welcome"
  <2>1. p.pc = "begun"
    BY <1>3 DEF AnswerLogin
  <2> QED BY <1>0, <1>3, <2>1, AnswerSound DEF Pcs, Path, Late, Answered
<1>4. CASE AnswerLogin(r)
  <2>1. PICK q : Sound(r, q) /\ req' = [req EXCEPT ![r] = q] /\ q.pc # "welcome"
    BY <1>3, <1>4 DEF AnswerLogin
  <2>2. /\ jar' \in [Browsers -> Jar]
        /\ \A b \in Browsers : /\ jar'[b].binding = jar[b].binding \/ (b = c /\ jar'[b].binding = r)
                               /\ jar'[b].session = jar[b].session
    <3>1. CASE UNCHANGED jar
      BY <1>0, <3>1 DEF SessionsTyped
    <3>2. CASE jar' = [jar EXCEPT ![c].binding = r]
      <4> DEFINE x == [jar[c] EXCEPT !.binding = r]
      <4>1. x \in Jar /\ x.binding = r /\ x.session = jar[c].session
        BY <1>1 DEF Jar
      <4>2. jar' = [jar EXCEPT ![c] = x]
        BY <3>2
      <4> HIDE DEF x
      <4>3. jar' \in [Browsers -> Jar] /\ jar'[c] = x /\ \A b \in Browsers : b # c => jar'[b] = jar[b]
        BY <1>0, <1>1, <4>1, <4>2 DEF SessionsTyped
      <4> QED BY <4>1, <4>3
    <3> QED BY <1>4, <3>1, <3>2 DEF AnswerLogin
  <2>3. \A i : Audited(i)' <=> Audited(i)
    BY <1>2, <1>4 DEF AnswerLogin
  <2>4. \A b \in Browsers :
           /\ jar'[b].binding \in {None, jar[b].binding} \/ (b = BrowserOf(r) /\ jar'[b].binding = r)
           /\ jar'[b].session \in {None, jar[b].session}
    BY <2>2
  <2> QED BY <1>0, <1>1, <2>1, <2>2, <2>3, <2>4, PlainStep
<1>5. CASE AnswerCallback(r)
  <2>1. PICK q : Sound(r, q) /\ req' = [req EXCEPT ![r] = q] /\ q.pc # "welcome"
    <3>1. p.pc = "welcome" /\ Answer(r, "signed_in")
      BY <1>5 DEF AnswerCallback
    <3>2. \E q : Sound(r, q) /\ q.pc = "signed_in" /\ req' = [req EXCEPT ![r] = q]
      BY <1>0, <3>1, AnswerSound DEF Pcs, Path, Late, Answered
    <3> QED BY <3>2
  <2>2. /\ jar' \in [Browsers -> Jar]
        /\ \A b \in Browsers :
              /\ jar'[b].binding \in {None, jar[b].binding}
              /\ \/ jar'[b].session \in {None, jar[b].session}
                 \/ b = BrowserOf(r) /\ jar'[b].session = r /\ p.pc = "welcome"
    <3> DEFINE x == [jar[c] EXCEPT !.session = r, !.binding = None]
    <3>1. x \in Jar /\ x.binding = None /\ x.session = r
      BY <1>0, <1>1 DEF Jar
    <3>2. jar' = [jar EXCEPT ![c] = x] /\ p.pc = "welcome"
      BY <1>1, <1>5 DEF AnswerCallback
    <3> HIDE DEF x
    <3>3. jar' \in [Browsers -> Jar] /\ jar'[c] = x /\ \A b \in Browsers : b # c => jar'[b] = jar[b]
      BY <1>0, <1>1, <3>1, <3>2 DEF SessionsTyped
    <3> QED BY <3>1, <3>2, <3>3
  <2>3. \A i : Audited(i)' <=> Audited(i)
    BY <1>2, <1>5 DEF AnswerCallback
  <2> QED BY <1>0, <1>1, <2>1, <2>2, <2>3, PlainStep
<1>6. CASE AnswerLogout(r)
  <2>1. PICK q : Sound(r, q) /\ req' = [req EXCEPT ![r] = q] /\ q.pc # "welcome"
    <3>1. p.pc = "signing_out" /\ Answer(r, "signed_out")
      BY <1>6 DEF AnswerLogout
    <3>2. \E q : Sound(r, q) /\ q.pc = "signed_out" /\ req' = [req EXCEPT ![r] = q]
      BY <1>0, <3>1, AnswerSound DEF Pcs, Path, Late, Answered
    <3> QED BY <3>2
  <2>2. JarKept
    BY <1>0, <1>6, JarFacts DEF AnswerLogout
  <2>3. \A i : Audited(i)' <=> Audited(i)
    BY <1>2, <1>6 DEF AnswerLogout
  <2> QED BY <1>0, <1>1, <2>1, <2>2, <2>3, PlainStep DEF JarKept
<1>7. CASE AuditSession(r) /\ Log("AUTHENTICATION_SUCCEEDED", r) /\ Answer(r, "welcome")
  <2>1. p.pc = "audit" /\ p.transaction # None
    BY <1>0, <1>7 DEF AuditSession, RequestInv
  <2>2. PICK q : Sound(r, q) /\ q.pc = "welcome" /\ req' = [req EXCEPT ![r] = q]
    BY <1>7, <2>1, AnswerSound DEF Pcs, Path, Late
  <2>3. Audited(r)' /\ \A i : (Audited(i) => Audited(i)') /\ (Audited(i)' => Audited(i) \/ i = r)
    BY <1>7 DEF Log, Audited
  <2>4. JarKept
    BY <1>0, <1>7, JarFacts DEF AuditSession
  <2> QED BY <1>0, <1>1, <2>1, <2>2, <2>3, <2>4, PlainStep DEF JarKept
<1> QED BY <1>4, <1>5, <1>6, <1>7

\* A callback looks a transaction up and consumes it.
LEMMA ConsumeStep ==
  ASSUME SessionInv, NEW r \in Requests, NEW t \in Requests \cup {None}, Consume(r, t),
         UNCHANGED <<asks, active, lapsed, rows, assignments>>
  PROVE  SessionInv'
<1> DEFINE p == req[r]
<1>0. /\ p \in Request /\ RequestInv(r) /\ SessionsTyped /\ UNCHANGED <<sessions, ended, jar, origin>>
      /\ r \in SessionIds /\ p.pc = "consume"
  BY DEF SessionInv, SessionsTyped, SessionIds, Consume
<1>1. /\ Shrinks /\ ended' \in [SessionIds -> Ending] /\ ended' = ended
      /\ jar' \in [Browsers -> Jar] /\ jar' = jar
  BY <1>0 DEF Shrinks, SessionsTyped, There
<1>2. /\ transactions' \in [Requests -> Nat \cup {None}]
      /\ \A u \in Requests : transactions'[u] # None => transactions[u] # None
  BY <1>0 DEF Consume, Keep, SessionsTyped
<1>3. \A i : Audited(i)' <=> Audited(i)
  <2>1. UNCHANGED audit \/ MayLog("AUTHENTICATION_FAILED", r)
    BY DEF Consume
  <2>2. CASE UNCHANGED audit
    BY <2>2 DEF Audited
  <2>3. CASE MayLog("AUTHENTICATION_FAILED", r)
    BY <2>3, OtherEvents
  <2> QED BY <2>1, <2>2, <2>3
<1>4. \E q : Sound(r, q) /\ req' = [req EXCEPT ![r] = q] /\ q.pc # "welcome"
  <2>1. CASE Answer(r, "failed")
    <3>1. \E q : Sound(r, q) /\ q.pc = "failed" /\ req' = [req EXCEPT ![r] = q]
      BY <1>0, <2>1, AnswerSound DEF Pcs, Path, Late, Answered
    <3> QED BY <3>1
  <2>2. CASE /\ t \in Pending /\ p.binding = t
             /\ req' = [req EXCEPT ![r].pc = "exchange", ![r].transaction = t]
    <3>1. t \in Requests /\ transactions[t] # None /\ t # None
      BY <2>2, AccessAssumption DEF Pending, Began
    <3>2. transactions'[t] = None
      BY <2>2, <3>1 DEF Consume, Keep
    <3>3. BrowserOf(t) = BrowserOf(r) /\ req[t].pc \notin {"unsent", "begin"}
      BY <1>0, <2>2, <3>1 DEF SessionInv, RequestInv
    <3> DEFINE q == [p EXCEPT !.pc = "exchange", !.transaction = t]
    <3>4. /\ q \in Request /\ q.pc = "exchange" /\ q.session = p.session /\ q.binding = p.binding
          /\ q.transaction = t /\ q.principal = p.principal
      BY <1>0, <3>1 DEF Request, Pcs, Path
    <3>5. req' = [req EXCEPT ![r] = q]
      BY <1>0, <2>2 DEF SessionsTyped
    <3> HIDE DEF q
    <3>6. Sound(r, q)
      BY <1>0, <3>1, <3>2, <3>3, <3>4 DEF Sound, Path, Late
    <3> QED BY <3>4, <3>5, <3>6
  <2> QED BY <2>1, <2>2 DEF Consume
<1> QED BY <1>0, <1>1, <1>2, <1>3, <1>4, PlainStep

\* A set within another and one more.
LEMMA OneMore ==
  ASSUME NEW S, IsFiniteSet(S), NEW x, NEW T, T \subseteq S \cup {x}, NEW n \in Nat, Cardinality(S) < n
  PROVE  Cardinality(T) <= n
<1>1. /\ IsFiniteSet(S \cup {x}) /\ Cardinality(S) \in Nat
      /\ Cardinality(S \cup {x}) \in {Cardinality(S), Cardinality(S) + 1}
  BY FS_AddElement, FS_CardinalityType
<1>2. Cardinality(T) <= Cardinality(S \cup {x}) /\ Cardinality(T) \in Nat
  BY <1>1, FS_Subset, FS_CardinalityType
<1> QED BY <1>1, <1>2

\* A login begins: there was room for its transaction, or it begins none.
LEMMA BeginStep ==
  ASSUME SessionInv, clock \in Nat, NEW r \in Requests, BeginLogin(r),
         UNCHANGED <<asks, active, lapsed, rows, assignments>>
  PROVE  SessionInv'
<1> DEFINE p == req[r]
<1>0. /\ p \in Request /\ RequestInv(r) /\ SessionsTyped /\ UNCHANGED <<sessions, ended, jar, audit, origin>>
      /\ r \in SessionIds /\ p.pc = "begin"
  BY DEF SessionInv, SessionsTyped, SessionIds, BeginLogin
<1>1. \A i : (Audited(i)' <=> Audited(i)) /\ (There(i)' <=> There(i))
  BY <1>0 DEF Audited, There
<1>2. CASE transactions' = Keep(Pending) /\ Answer(r, "unavailable")
  <2>1. /\ transactions' \in [Requests -> Nat \cup {None}]
        /\ \A u \in Requests : transactions'[u] # None => transactions[u] # None
    BY <1>0, <1>2 DEF Keep, SessionsTyped
  <2>2. /\ Shrinks /\ ended' \in [SessionIds -> Ending] /\ ended' = ended
        /\ jar' \in [Browsers -> Jar] /\ jar' = jar
    BY <1>0 DEF Shrinks, SessionsTyped, There
  <2>3. \E q : Sound(r, q) /\ q.pc = "unavailable" /\ req' = [req EXCEPT ![r] = q]
    BY <1>0, <1>2, AnswerSound DEF Pcs, Path, Late, Answered
  <2> QED BY <1>0, <1>1, <2>1, <2>2, <2>3, PlainStep
<1>3. CASE /\ Cardinality(Pending) < TRANSACTIONS
           /\ transactions' = [Keep(Pending) EXCEPT ![r] = clock] /\ Answer(r, "begun")
  <2>1. PICK q \in Request : /\ q.pc = "begun" /\ q.session = p.session /\ q.binding = p.binding
                            /\ q.transaction = p.transaction /\ q.principal = p.principal
                            /\ req' = [req EXCEPT ![r] = q]
    <3> DEFINE x == [p EXCEPT !.pc = "begun"]
    <3>1. /\ x \in Request /\ x.pc = "begun" /\ x.session = p.session /\ x.binding = p.binding
          /\ x.transaction = p.transaction /\ x.principal = p.principal
      BY <1>0 DEF Request, Pcs
    <3>2. req' = [req EXCEPT ![r] = x]
      BY <1>3 DEF Answer
    <3> QED BY <3>1, <3>2
  <2>3. req' \in [Requests -> Request] /\ req'[r] = q /\ \A x \in Requests \ {r} : req'[x] = req[x]
    BY <1>0, <2>1 DEF SessionsTyped
  <2>4. /\ transactions' \in [Requests -> Nat \cup {None}]
        /\ \A u \in Requests : u # r /\ transactions'[u] # None => u \in Pending /\ transactions[u] # None
    BY <1>0, <1>3 DEF Keep, SessionsTyped, Pending, Began
  <2>5. SessionsTyped'
    <3>1. \A i \in SessionIds : There(i)' => sessions'[i].principal \in Principals
      BY <1>0, <1>1 DEF SessionsTyped
    <3>2. SessionIds' = SessionIds
      BY DEF SessionIds
    <3> QED BY <1>0, <2>3, <2>4, <3>1, <3>2 DEF SessionsTyped, BrowserOf
  <2>6. Moves(r)
    BY <1>0, <1>1, <2>1, <2>3, <2>4 DEF Moves, Late
  <2>7. RequestInv(r)'
    <3>1. \A y : BrowserOf(y)' = BrowserOf(y)
      BY SameBrowsers
    <3>2. q.transaction # None => /\ q.transaction # r /\ q.transaction \in Requests
                                  /\ BrowserOf(q.transaction) = BrowserOf(r)
                                  /\ transactions[q.transaction] = None
                                  /\ req[q.transaction].pc \notin {"unsent", "begin"}
      BY <1>0, <2>1 DEF RequestInv, Request
    <3>3. q.transaction # None => /\ BrowserOf(q.transaction) = BrowserOf(r)
                                  /\ transactions'[q.transaction] = None
                                  /\ req'[q.transaction].pc \notin {"unsent", "begin"}
      BY <2>3, <2>4, <3>2
    <3>4. q.session \in Requests => Audited(q.session)
      BY <1>0, <2>1 DEF RequestInv
    <3>5. q.session \in Requests => Audited(q.session)'
      BY <1>0, <2>3, <3>4 DEF Audited
    <3>6. origin'[r] \in {None, q.transaction} /\ (q.binding # None => BrowserOf(q.binding) = BrowserOf(r))
      BY <1>0, <2>1 DEF RequestInv
    <3> QED BY <2>1, <2>3, <3>1, <3>3, <3>5, <3>6 DEF RequestInv, Path
  <2>8. Capacities'
    <3>1. {t \in Requests : Began(t)}' \subseteq Pending \cup {r}
      BY <2>4 DEF Began
    <3>2. IsFiniteSet(Pending)
      BY AccessAssumption, FS_Subset DEF Pending
    <3>3. TRANSACTIONS \in Nat
      BY AccessAssumption
    <3>4. Cardinality({t \in Requests : Began(t)}') <= TRANSACTIONS
      <4> DEFINE T == {t \in Requests : Began(t)}'
      <4>1. T \subseteq Pending \cup {r}
        BY <3>1
      <4> HIDE DEF T
      <4>2. Cardinality(T) <= TRANSACTIONS
        BY <1>3, <3>2, <3>3, <4>1, OneMore
      <4> QED BY <4>2 DEF T
    <3>5. {i \in SessionIds : There(i)}' = {i \in SessionIds : There(i)}
      BY <1>1 DEF SessionIds
    <3> QED BY <3>4, <3>5 DEF Capacities, SessionInv
  <2>9. ASSUME NEW x \in Requests PROVE Witnessed(x)'
    <3>1. req'[x].pc # "unsent" => req[x].pc # "unsent"
      BY <1>0, <2>3
    <3>2. \A y \in Principals : Active(y)' <=> Active(y)
      BY DEF Active, RolesOf
    <3>3. Witnessed(x)
      BY DEF SessionInv
    <3> QED BY <3>1, <3>2, <3>3 DEF Witnessed
  <2> QED BY <2>5, <2>6, <2>7, <2>8, <2>9, StepKeeps
<1>4. Cardinality(Pending) \in Nat /\ TRANSACTIONS \in Nat
  BY AccessAssumption, FS_Subset, FS_CardinalityType DEF Pending
<1> QED BY <1>2, <1>3, <1>4 DEF BeginLogin

\* SessionStore.create: the presented session ends, the expired ones are swept, and the new
\* one is made where there is room.
LEMMA CreateStep ==
  ASSUME SessionInv, clock \in Nat, NEW r \in Requests, CreateSession(r),
         UNCHANGED <<asks, active, lapsed, rows, assignments>>
  PROVE  SessionInv'
<1> DEFINE p == req[r]
           gone == {i \in {p.session} : There(i)}
           left == {i \in SessionIds \ gone : Found(i)}
           room == Cardinality(left) < SESSIONS
           new == [principal |-> p.principal, created |-> clock, seen |-> clock]
<1>0. /\ p \in Request /\ RequestInv(r) /\ SessionsTyped /\ UNCHANGED <<transactions, jar, audit>>
      /\ r \in SessionIds /\ p.pc = "create"
  BY DEF SessionInv, SessionsTyped, SessionIds, CreateSession
<1>1. /\ \A i \in SessionIds : sessions'[i] = IF i = r /\ room THEN new ELSE IF i \in left THEN sessions[i] ELSE NoSession
      /\ DOMAIN sessions' = SessionIds
      /\ DOMAIN ended' = SessionIds
      /\ \A i \in SessionIds : ended'[i] = IF i \in gone THEN [cause |-> "signed_in", by |-> r]
                                           ELSE IF i \in Swept THEN [cause |-> "expired", by |-> None] ELSE ended[i]
      /\ IF room THEN Answer(r, "audit") ELSE FailWith(r, "AUTHENTICATION_FAILED")
      /\ origin' = IF room THEN [origin EXCEPT ![r] = p.transaction] ELSE origin
  BY DEF CreateSession
<1>2. /\ ~There(r) /\ ~Audited(r) /\ origin[r] = None /\ p.transaction # None /\ p.principal \in Principals
      /\ p.transaction \in Requests /\ BrowserOf(p.transaction) = BrowserOf(r)
  BY <1>0 DEF RequestInv, Request, Path
<1>3. r \notin left /\ left \subseteq {i \in SessionIds : There(i)}
      /\ \A i \in gone : i \in SessionIds /\ i = p.session
  BY <1>2 DEF Found, There
<1> HIDE DEF gone, left, room
<1>4. PICK q \in Request : /\ q.pc = IF room THEN "audit" ELSE "fail"
                          /\ q.session = p.session /\ q.binding = p.binding
                          /\ q.transaction = p.transaction /\ q.principal = p.principal
                          /\ req' = [req EXCEPT ![r] = q]
  <2> DEFINE x == IF room THEN [p EXCEPT !.pc = "audit"]
                  ELSE [p EXCEPT !.pc = "fail", !.reason = "AUTHENTICATION_FAILED"]
  <2>1. /\ x \in Request /\ x.pc = IF room THEN "audit" ELSE "fail"
        /\ x.session = p.session /\ x.binding = p.binding
        /\ x.transaction = p.transaction /\ x.principal = p.principal
    BY <1>0 DEF Request, Pcs, Late
  <2>2. req' = [req EXCEPT ![r] = x]
    BY <1>1 DEF Answer, FailWith
  <2> HIDE DEF x
  <2> QED BY <2>1, <2>2
<1>5. req' \in [Requests -> Request] /\ req'[r] = q /\ \A x \in Requests \ {r} : req'[x] = req[x]
  BY <1>0, <1>4 DEF SessionsTyped
<1>6. /\ new \in Session /\ NoSession \in Session /\ new.principal \in Principals
  BY <1>2 DEF Session, NoSession
<1>7. \A i : There(i)' <=> i \in SessionIds /\ sessions'[i] # NoSession
  BY DEF There, SessionIds, NoSession
<1>8. ASSUME NEW i \in SessionIds
      PROVE  /\ There(i)' => (i \in left /\ sessions'[i] = sessions[i]) \/ (i = r /\ room)
             /\ sessions'[i] \in Session
             /\ There(i)' => sessions'[i].principal \in Principals
  <2>1. CASE i = r /\ room
    BY <1>1, <1>6, <2>1
  <2>2. CASE ~(i = r /\ room) /\ i \in left
    <3>1. sessions'[i] = sessions[i] /\ There(i)
      BY <1>1, <1>3, <2>2
    <3> QED BY <1>0, <2>2, <3>1 DEF SessionsTyped
  <2>3. CASE ~(i = r /\ room) /\ i \notin left
    BY <1>1, <1>6, <1>7, <2>3
  <2> QED BY <2>1, <2>2, <2>3
<1>9. ended' \in [SessionIds -> Ending]
  <2>1. [cause |-> "signed_in", by |-> r] \in Ending /\ [cause |-> "expired", by |-> None] \in Ending
    BY DEF Ending, Causes
  <2>2. \A i \in SessionIds : ended[i] \in Ending
    BY <1>0 DEF SessionsTyped
  <2>3. \A i \in SessionIds : ended'[i] \in Ending
    BY <1>1, <2>1, <2>2
  <2>4. ended' = [i \in SessionIds |-> ended'[i]]
    BY DEF CreateSession
  <2> QED BY <2>3, <2>4
<1>10. sessions' \in [SessionIds -> Session]
  <2>1. sessions' = [i \in SessionIds |-> sessions'[i]]
    BY DEF CreateSession
  <2> QED BY <1>8, <2>1
<1>11. origin' \in [SessionIds -> Requests \cup {None, EarlierLogin}]
       /\ \A i \in SessionIds : origin'[i] = IF i = r /\ room THEN p.transaction ELSE origin[i]
  BY <1>0, <1>1, <1>2 DEF SessionsTyped
<1>12. SessionsTyped'
  <2>1. SessionIds' = SessionIds
    BY DEF SessionIds
  <2> QED BY <1>0, <1>5, <1>8, <1>9, <1>10, <1>11, <2>1 DEF SessionsTyped, BrowserOf
<1>13. \A i : Audited(i)' <=> Audited(i)
  BY <1>0 DEF Audited
<1>14. \A y : BrowserOf(y)' = BrowserOf(y)
  BY SameBrowsers
<1>15. ASSUME NEW i \in SessionIds PROVE ended'[i] = ended[i] \/ EndedWell(i)'
  <2>1. CASE i \in gone
    <3>1. ended'[i].cause = "signed_in" /\ ended'[i].by = r /\ i = p.session
      BY <1>1, <1>3, <2>1
    <3>2. q.pc \in Late
      BY <1>4 DEF Late
    <3> QED BY <1>2, <1>4, <1>5, <1>14, <3>1, <3>2 DEF EndedWell
  <2>2. CASE i \notin gone /\ i \in Swept
    <3>1. ended'[i].cause = "expired"
      BY <1>1, <2>2
    <3> QED BY <3>1 DEF EndedWell
  <2> QED BY <1>1, <2>1, <2>2
<1>16. Moves(r)
  <2>1. \A i \in SessionIds : There(i)' => There(i) \/ (i = r /\ p.pc = "create")
    BY <1>0, <1>3, <1>8
  <2>2. \A i \in SessionIds : origin'[i] = origin[i] \/ (i = r /\ p.pc = "create")
    BY <1>0, <1>11
  <2>3. /\ \A x \in Requests \ {r} : req'[x] = req[x] /\ active'[x] = active[x] /\ lapsed'[x] = lapsed[x]
        /\ req'[r].pc \notin {"unsent", "begin"} /\ req[r].pc \notin Late
        /\ req'[r].transaction = req[r].transaction
    BY <1>0, <1>4, <1>5 DEF Late
  <2> QED BY <1>0, <1>13, <1>15, <2>1, <2>2, <2>3 DEF Moves
<1>17. RequestInv(r)'
  <2>1. q.pc = "fail" => ~There(r)'
    BY <1>0, <1>3, <1>4, <1>8
  <2>2. /\ q.pc = "audit" => origin'[r] # None
        /\ origin'[r] \in {None, q.transaction}
    BY <1>0, <1>2, <1>4, <1>11
  <2>3. /\ BrowserOf(q.transaction) = BrowserOf(r) /\ q.transaction # None
        /\ transactions'[q.transaction] = None
        /\ req'[q.transaction].pc \notin {"unsent", "begin"}
    <3>1. /\ transactions[p.transaction] = None /\ req[p.transaction].pc \notin {"unsent", "begin"}
      BY <1>0, <1>2 DEF RequestInv
    <3> QED BY <1>0, <1>2, <1>4, <1>5, <3>1
  <2>4. /\ q.session \in Requests => Audited(q.session)
        /\ q.binding # None => BrowserOf(q.binding) = BrowserOf(r)
    BY <1>0, <1>4 DEF RequestInv
  <2>5. q.session \in Requests => Audited(q.session)'
    BY <1>13, <2>4
  <2>6. q.pc \notin Path \cup {"unsent", "begin", "welcome", "not_signed_in", "inactive", "served"}
        /\ q.pc \notin {"find", "create", "roles"} /\ ~Audited(r)'
    BY <1>2, <1>4, <1>13 DEF Path
  <2> QED BY <1>5, <1>14, <2>1, <2>2, <2>3, <2>4, <2>5, <2>6 DEF RequestInv
<1>18. Capacities'
  <2> DEFINE S1 == {i \in SessionIds : There(i)'}
  <2>0. {i \in SessionIds : There(i)}' = S1 /\ {t \in Requests : Began(t)}' = {t \in Requests : Began(t)}
    BY <1>0 DEF SessionIds, Began
  <2>1. S1 \subseteq left \cup {r} /\ (~room => S1 \subseteq left)
    BY <1>8
  <2> HIDE DEF S1
  <2>2. /\ IsFiniteSet(left) /\ SESSIONS \in Nat /\ IsFiniteSet({i \in SessionIds : There(i)})
        /\ Cardinality(left) <= Cardinality({i \in SessionIds : There(i)})
    <3>1. IsFiniteSet(SessionIds)
      BY AccessAssumption, FS_AddElement DEF SessionIds
    <3>2. IsFiniteSet({i \in SessionIds : There(i)})
      BY <3>1, FS_Subset
    <3> QED BY <1>3, <3>2, AccessAssumption, FS_Subset
  <2>3. CASE room
    <3>1. Cardinality(S1) <= SESSIONS
      BY <2>1, <2>2, <2>3, OneMore DEF room
    <3> QED BY <2>0, <3>1 DEF SessionInv, Capacities
  <2>4. CASE ~room
    <3>1. Cardinality(S1) <= Cardinality(left) /\ Cardinality(S1) \in Nat /\ Cardinality(left) \in Nat
      BY <2>1, <2>2, <2>4, FS_Subset, FS_CardinalityType
    <3>2. Cardinality({i \in SessionIds : There(i)}) <= SESSIONS /\ Cardinality({i \in SessionIds : There(i)}) \in Nat
      BY <2>2, FS_CardinalityType DEF SessionInv, Capacities
    <3>3. Cardinality(S1) <= SESSIONS
      BY <2>2, <3>1, <3>2
    <3> QED BY <2>0, <3>3 DEF SessionInv, Capacities
  <2> QED BY <2>3, <2>4
<1>19. ASSUME NEW x \in Requests PROVE Witnessed(x)'
  <2>1. req'[x].pc # "unsent" => req[x].pc # "unsent"
    BY <1>0, <1>5
  <2>2. \A y \in Principals : Active(y)' <=> Active(y)
    BY DEF Active, RolesOf
  <2>3. Witnessed(x)
    BY DEF SessionInv
  <2> QED BY <2>1, <2>2, <2>3 DEF Witnessed
<1> QED BY <1>12, <1>16, <1>17, <1>18, <1>19, StepKeeps

\* A request arrives with what its browser holds; its history begins with the roles of now.
LEMMA ArriveStep ==
  ASSUME SessionInv, clock \in Nat, NEW r \in Requests, UNCHANGED pvars,
         NEW how \in {"begin", "consume", "token", "csrf", "session", "limited"}, Arrive(r, how),
         UNCHANGED <<sessions, ended>> \/ \E i : get(i)
  PROVE  SessionInv'
<1> DEFINE b == jar[BrowserOf(r)]
<1>0. /\ req[r] \in Request /\ RequestInv(r) /\ SessionsTyped /\ r \in SessionIds /\ req[r].pc = "unsent"
      /\ UNCHANGED <<asks, transactions, jar, audit, origin, rows, assignments>>
      /\ BrowserOf(r) \in Browsers /\ b \in Jar
  BY DEF SessionInv, SessionsTyped, SessionIds, Arrive, pvars
<1>1. PICK q \in Request : /\ q.pc = how /\ q.session = b.session /\ q.binding = b.binding
                           /\ q.transaction = None /\ req' = [req EXCEPT ![r] = q]
  <2> DEFINE x == [Unsent EXCEPT !.pc = how, !.session = b.session, !.binding = b.binding, !.csrf = b.csrf]
  <2>1. x \in Request /\ x.pc = how /\ x.session = b.session /\ x.binding = b.binding /\ x.transaction = None
    <3>1. Unsent \in Request /\ Unsent.transaction = None
      BY DEF Unsent, Request, Pcs, Path
    <3>2. how \in Pcs
      BY DEF Pcs, Path, Answered
    <3>3. b.session \in SessionIds \cup {None} /\ b.binding \in Requests \cup {None} /\ b.csrf \in SessionIds \cup {None}
      BY <1>0 DEF Jar
    <3> HIDE DEF b
    <3> QED BY <3>1, <3>2, <3>3 DEF Request
  <2>2. req' = [req EXCEPT ![r] = x]
    BY DEF Arrive
  <2> HIDE DEF x
  <2> QED BY <2>1, <2>2
<1>2. req' \in [Requests -> Request] /\ req'[r] = q /\ \A x \in Requests \ {r} : req'[x] = req[x]
  BY <1>0, <1>1 DEF SessionsTyped
<1>3. /\ Shrinks /\ ended' \in [SessionIds -> Ending]
      /\ \A j \in SessionIds : ended'[j] = ended[j] \/ ended'[j].cause = "expired"
  <2>1. CASE UNCHANGED <<sessions, ended>>
    BY <1>0, <2>1 DEF Shrinks, SessionsTyped, There
  <2>2. CASE \E i : get(i)
    BY <1>0, <2>2, GetFacts
  <2> QED BY <2>1, <2>2
<1>4. /\ active' \in [Requests -> SUBSET Principals] /\ lapsed' \in [Requests -> SUBSET Principals]
      /\ active'[r] = {x \in Principals : Active(x)} /\ lapsed'[r] = {x \in Principals : ~Active(x)}
      /\ \A x \in Requests \ {r} : active'[x] = active[x] /\ lapsed'[x] = lapsed[x]
  BY <1>0 DEF Arrive, SessionsTyped
<1>5. SessionsTyped'
  <2>1. \A i \in SessionIds : There(i)' => sessions'[i].principal \in Principals
    BY <1>0, <1>3 DEF SessionsTyped, Shrinks
  <2>2. SessionIds' = SessionIds
    BY DEF SessionIds
  <2>3. sessions' \in [SessionIds -> Session]
    BY <1>3 DEF Shrinks
  <2> QED BY <1>0, <1>2, <1>3, <1>4, <2>1, <2>2, <2>3 DEF SessionsTyped, BrowserOf
<1>6. \A i : Audited(i)' <=> Audited(i)
  BY <1>0 DEF Audited
<1>7. \A i \in SessionIds : There(i)' => There(i)
  BY <1>3 DEF Shrinks
<1>8. Capacities'
  <2>1. \A t \in Requests : Began(t)' => Began(t)
    BY <1>0 DEF Began
  <2> QED BY <1>7, <2>1, FewerFit DEF SessionInv
<1>9. \A j \in SessionIds : ended'[j] = ended[j] \/ EndedWell(j)'
  BY <1>3 DEF EndedWell
<1>10. Moves(r)
  <2>1. /\ \A x \in Requests \ {r} : req'[x] = req[x] /\ active'[x] = active[x] /\ lapsed'[x] = lapsed[x]
        /\ req'[r].transaction = None /\ req[r].pc = "unsent" /\ req[r].pc \notin Late
    BY <1>0, <1>1, <1>2, <1>4 DEF Late
  <2> QED BY <1>0, <1>6, <1>7, <1>9, <2>1 DEF Moves
<1>11. RequestInv(r)'
  <2>1. ~There(r) /\ ~Audited(r) /\ origin[r] = None /\ transactions[r] = None
    BY <1>0 DEF RequestInv, Path
  <2>2. /\ q.binding # None => BrowserOf(q.binding) = BrowserOf(r)
        /\ q.session \in Requests => Audited(q.session)
    BY <1>0, <1>1 DEF SessionInv, JarInv
  <2>3. q.session \in Requests => Audited(q.session)'
    BY <1>6, <2>2
  <2>4. ~There(r)' /\ ~Audited(r)' /\ origin'[r] = None /\ transactions'[r] = None
    BY <1>0, <1>6, <1>7, <2>1
  <2>5. \A y : BrowserOf(y)' = BrowserOf(y)
    BY <1>0, SameBrowsers
  <2> QED BY <1>1, <1>2, <2>2, <2>3, <2>4, <2>5 DEF RequestInv
<1>12. ASSUME NEW x \in Requests PROVE Witnessed(x)'
  <2>1. \A y \in Principals : Active(y)' <=> Active(y)
    BY <1>0 DEF Active, RolesOf
  <2>2. CASE x = r
    BY <1>4, <2>1, <2>2 DEF Witnessed
  <2>3. CASE x # r
    <3>1. req'[x] = req[x] /\ active'[x] = active[x] /\ lapsed'[x] = lapsed[x] /\ Witnessed(x)
      BY <1>2, <1>4, <2>3 DEF SessionInv
    <3> QED BY <2>1, <3>1 DEF Witnessed
  <2> QED BY <2>2, <2>3
<1> QED BY <1>5, <1>8, <1>10, <1>11, <1>12, StepKeeps

\* A provisioning run changes who is active; the requests under way take note.
LEMMA ProvisionStep ==
  ASSUME SessionInv, NEW t \in Jobs, Provision(t)
  PROVE  SessionInv'
<1>1. /\ UNCHANGED <<asks, transactions, sessions, jar, req, audit, origin, ended>>
      /\ active' = [r \in Requests |-> active[r] \cup {p \in Principals : Active(p)'}]
      /\ lapsed' = [r \in Requests |-> lapsed[r] \cup {p \in Principals : ~Active(p)'}]
  BY DEF Provision
<1>2. /\ active' \in [Requests -> SUBSET Principals] /\ lapsed' \in [Requests -> SUBSET Principals]
      /\ \A r \in Requests : active[r] \subseteq active'[r] /\ lapsed[r] \subseteq lapsed'[r]
  BY <1>1 DEF SessionInv, SessionsTyped
<1>3. \A i : (There(i)' <=> There(i)) /\ (Audited(i)' <=> Audited(i)) /\ BrowserOf(i)' = BrowserOf(i)
             /\ (Began(i)' <=> Began(i))
  BY <1>1 DEF There, Audited, BrowserOf, Began, SessionIds
<1>4. SessionsTyped'
  BY <1>1, <1>2, <1>3 DEF SessionInv, SessionsTyped, SessionIds
<1>5. ASSUME NEW r \in Requests PROVE RequestInv(r)' /\ Witnessed(r)'
  <2>1. RequestInv(r)
    BY DEF SessionInv
  <2>2. There(req[r].session)' <=> There(req[r].session)
    BY <1>1 DEF There, SessionIds
  <2>3. Audited(req[r].session)' <=> Audited(req[r].session)
    BY <1>1 DEF Audited
  <2>4. RequestInv(r)'
    BY <1>1, <1>2, <1>3, <2>1, <2>2, <2>3 DEF RequestInv
  <2>5. Witnessed(r)'
    BY <1>1, Zenon DEF Witnessed
  <2> QED BY <2>4, <2>5
<1>6. OneEach' /\ JarInv'
  BY <1>1 DEF SessionInv, OneEach, JarInv, BrowserOf, Audited
<1>7. EndedInv'
  <2>1. ASSUME NEW i \in SessionIds PROVE EndedWell(i)'
    <3>1. EndedWell(i)
      BY DEF SessionInv, EndedInv
    <3> QED BY <1>1, <1>2, <1>3, <3>1 DEF EndedWell, BrowserOf
  <2> QED BY <2>1 DEF EndedInv, SessionIds
<1>8. Capacities'
  BY <1>3, FewerFit DEF SessionInv
<1> QED BY <1>1, <1>4, <1>5, <1>6, <1>7, <1>8 DEF SessionInv

\* A restart: no session and no transaction is left, and no request is under way.
LEMMA RestartStep ==
  ASSUME SessionInv, Restart, UNCHANGED pvars
  PROVE  SessionInv'
<1>1. /\ UNCHANGED <<asks, jar, audit, origin, active, lapsed, rows, assignments>>
      /\ transactions' = [t \in Requests |-> None]
      /\ End(SessionIds, "restart", None)
      /\ SessionsTyped
  BY DEF Restart, Keep, SessionInv, pvars
<1>2. /\ Shrinks /\ ended' \in [SessionIds -> Ending]
      /\ \A i \in SessionIds : ~There(i)'
      /\ \A i \in SessionIds : ended'[i] = ended[i] \/ ended'[i].cause = "restart"
  <2>1. "restart" \in Causes /\ None \in Requests \cup {None}
    BY DEF Causes
  <2>2. /\ Shrinks /\ ended' \in [SessionIds -> Ending]
        /\ \A i \in SessionIds : i \in SessionIds => ~There(i)'
        /\ \A i \in SessionIds : \/ ended'[i] = ended[i]
                                 \/ i \in SessionIds /\ There(i) /\ ended'[i] = [cause |-> "restart", by |-> None]
    BY <1>1, <2>1, EndFacts
  <2> QED BY <2>2
<1>3. ASSUME NEW x \in Requests
      PROVE  \/ req'[x] = req[x] /\ req[x].pc \in Answered
             \/ /\ req'[x].pc = "lost" /\ req[x].pc \notin Answered
                /\ req'[x].session = req[x].session /\ req'[x].binding = req[x].binding
                /\ req'[x].transaction = req[x].transaction /\ req'[x].principal = req[x].principal
                /\ req'[x] \in Request
  <2>1. req[x] \in Request
    BY <1>1 DEF SessionsTyped
  <2> DEFINE q == [req[x] EXCEPT !.pc = "lost"]
  <2>2. /\ q.pc = "lost" /\ q.session = req[x].session /\ q.binding = req[x].binding
        /\ q.transaction = req[x].transaction /\ q.principal = req[x].principal /\ q \in Request
    BY <2>1 DEF Request, Pcs, Late
  <2>3. req'[x] = IF req[x].pc \in Answered THEN req[x] ELSE q
    BY DEF Restart
  <2> HIDE DEF q
  <2> QED BY <2>2, <2>3
<1>4. req' \in [Requests -> Request]
  <2>1. req' = [x \in Requests |-> req'[x]]
    BY DEF Restart
  <2>2. \A x \in Requests : req'[x] \in Request
    BY <1>1, <1>3 DEF SessionsTyped
  <2> QED BY <2>1, <2>2
<1>5. \A i : Audited(i)' <=> Audited(i)
  BY <1>1 DEF Audited
<1>6. \A y : BrowserOf(y)' = BrowserOf(y)
  BY <1>1, SameBrowsers
<1>7. SessionsTyped'
  <2>1. SessionIds' = SessionIds
    BY DEF SessionIds
  <2>2. transactions' \in [Requests -> Nat \cup {None}] /\ sessions' \in [SessionIds -> Session]
    BY <1>1, <1>2 DEF Shrinks
  <2> QED BY <1>1, <1>2, <1>4, <2>1, <2>2 DEF SessionsTyped, BrowserOf
<1>8. ASSUME NEW x \in Requests PROVE RequestInv(x)' /\ Witnessed(x)'
  <2>1. RequestInv(x) /\ Witnessed(x) /\ req[x] \in Request
    BY <1>1 DEF SessionInv, SessionsTyped
  <2> DEFINE t == req[x].transaction
  <2>2. \A i : ~There(i)'
    BY <1>2 DEF There, SessionIds
  <2>3. /\ req'[x].pc \in {"unsent", "lost"} \cup Answered
        /\ req'[x].pc # "lost" => req'[x] = req[x]
        /\ req'[x].session = req[x].session /\ req'[x].binding = req[x].binding
        /\ req'[x].transaction = req[x].transaction /\ req'[x].principal = req[x].principal
    BY <1>3
  <2>4. t # None => /\ transactions'[t] = None /\ req'[t].pc \notin {"unsent", "begin"}
                    /\ BrowserOf(t) = BrowserOf(x)
    <3>1. t # None => /\ t \in Requests /\ req[t].pc \notin {"unsent", "begin"}
                      /\ BrowserOf(t) = BrowserOf(x)
      BY <2>1 DEF RequestInv, Request
    <3>2. t # None => req'[t].pc \notin {"unsent", "begin"}
      BY <1>3, <3>1
    <3> QED BY <1>1, <3>1, <3>2
  <2>5. req[x].session \in Requests => Audited(req[x].session)
    BY <2>1 DEF RequestInv
  <2>6. req'[x].session \in Requests => Audited(req'[x].session)
    BY <2>3, <2>5
  <2>7. req'[x].session \in Requests => Audited(req[x].session)'
    BY <1>1, <2>3, <2>6 DEF Audited
  <2>8. RequestInv(x)'
    <3>1. transactions'[x] = None
      BY <1>1
    <3>2. req'[x].pc = "lost" => req'[x].pc \notin Path \cup {"audit", "welcome", "fail", "not_signed_in"}
      BY DEF Path
    <3>3. /\ req'[x].pc \in Path => ~Audited(x)' /\ origin'[x] = None
          /\ req'[x].pc = "audit" => ~Audited(x)'
          /\ req'[x].pc \in {"audit", "welcome"} => origin'[x] # None
          /\ req'[x].pc = "welcome" => Audited(x)'
          /\ origin'[x] \in {None, req'[x].transaction}
          /\ req'[x].binding # None => BrowserOf(req'[x].binding) = BrowserOf(x)
      BY <1>1, <1>5, <2>1, <2>3, <3>2 DEF RequestInv
    <3>4. req'[x].pc \in {"exchange", "find", "create", "audit", "welcome", "fail"} => req'[x].transaction # None
      BY <2>1, <2>3, <3>2 DEF RequestInv
    <3>5. /\ req'[x].pc \in {"find", "create", "roles", "inactive", "served"} => req'[x].principal \in Principals
          /\ req'[x].pc = "inactive" => req'[x].principal \in lapsed'[x]
          /\ req'[x].pc = "served" => req'[x].principal \in active'[x]
      BY <1>1, <2>1, <2>3 DEF RequestInv
    <3>6. req'[x].session \in Requests => [event |-> "AUTHENTICATION_SUCCEEDED", request |-> req'[x].session] \in audit'
      BY <1>1, <2>6 DEF Audited
    <3> QED BY <1>6, <2>2, <2>3, <2>4, <3>1, <3>3, <3>4, <3>5, <3>6 DEF RequestInv, Audited
  <2>9. Witnessed(x)'
    <3>1. req'[x].pc # "unsent" => req[x].pc # "unsent"
      BY <1>3 DEF Answered
    <3>2. \A y \in Principals : Active(y)' <=> Active(y)
      BY <1>1 DEF Active, RolesOf
    <3> QED BY <1>1, <2>1, <3>1, <3>2 DEF Witnessed
  <2> QED BY <2>8, <2>9
<1>9. OneEach'
  <2>1. \A x \in Requests : req'[x].transaction = req[x].transaction
    BY <1>3
  <2> QED BY <2>1 DEF SessionInv, OneEach
<1>10. JarInv'
  BY <1>1 DEF SessionInv, JarInv, BrowserOf, Audited
<1>11. EndedInv'
  <2>1. ASSUME NEW i \in SessionIds, ended'[i] = ended[i] PROVE EndedWell(i)'
    <3>1. EndedWell(i)
      BY DEF SessionInv, EndedInv
    <3>2. ASSUME NEW x \in Requests
          PROVE  /\ req[x].pc \in Late => req'[x].pc \in Late
                 /\ req'[x].session = req[x].session /\ req'[x].transaction = req[x].transaction
                 /\ req'[x].principal = req[x].principal
      BY <1>3 DEF Late
    <3> QED BY <1>1, <1>6, <2>1, <3>1, <3>2 DEF EndedWell
  <2>2. ASSUME NEW i \in SessionIds, ended'[i].cause = "restart" PROVE EndedWell(i)'
    BY <2>2 DEF EndedWell
  <2> QED BY <1>2, <2>1, <2>2 DEF EndedInv, SessionIds
<1>12. Capacities'
  <2>1. \A t \in Requests : ~Began(t)'
    BY <1>1 DEF Began
  <2> QED BY <1>2, <2>1, FewerFit DEF SessionInv
<1> QED BY <1>1, <1>7, <1>8, <1>9, <1>10, <1>11, <1>12 DEF SessionInv

\* Nobody but a principal is signed in at the start, and no request has arrived.
LEMMA InitSessions == Init => SessionInv
<1> SUFFICES ASSUME NEW s \in Scenarios,
                    asks = s.asks,
                    transactions = [t \in Requests |-> None],
                    sessions = [i \in SessionIds |-> IF i = EarlierSession /\ s.principal # None
                                  THEN [NoSession EXCEPT !.principal = s.principal] ELSE NoSession],
                    jar = [b \in Browsers |-> IF b = Signed /\ s.principal # None
                             THEN [EmptyJar EXCEPT !.session = EarlierSession, !.csrf = EarlierSession]
                             ELSE EmptyJar],
                    req = [r \in Requests |-> Unsent],
                    audit = {[event |-> "AUTHENTICATION_SUCCEEDED", request |-> EarlierSession]},
                    origin = [i \in SessionIds |-> IF i = EarlierSession THEN EarlierLogin ELSE None],
                    ended = [i \in SessionIds |-> NotEnded],
                    active = [r \in Requests |-> {}], lapsed = [r \in Requests |-> {}]
             PROVE  SessionInv
  BY DEF Init
<1>0. /\ EarlierSession \notin Requests /\ EarlierSession \in SessionIds /\ EarlierLogin # None
      /\ s.principal \in Principals \cup {None} /\ None \notin Principals
      /\ \A r \in Requests : asks[r].kind \in Kinds /\ asks[r].browser \in Browsers
      /\ EarlierSession # None
  BY AccessAssumption, ScenarioAssumption DEF SessionIds
<1>1. /\ Unsent \in Request /\ Unsent.pc = "unsent" /\ Unsent.transaction = None
      /\ Unsent.session = None /\ Unsent.binding = None
  BY DEF Unsent, Request, Pcs, Path
<1>2. ASSUME NEW b \in Browsers
      PROVE  jar[b] \in Jar /\ jar[b].session \in {None, EarlierSession} /\ jar[b].binding = None
  <2>1. EmptyJar \in Jar /\ EmptyJar.session = None /\ EmptyJar.binding = None
    BY DEF EmptyJar, Jar
  <2> DEFINE x == [EmptyJar EXCEPT !.session = EarlierSession, !.csrf = EarlierSession]
  <2>2. x \in Jar /\ x.session = EarlierSession /\ x.binding = None
    BY <1>0 DEF EmptyJar, Jar
  <2>3. jar[b] \in {x, EmptyJar}
    OBVIOUS
  <2> HIDE DEF x
  <2> QED BY <2>1, <2>2, <2>3
<1>3. ASSUME NEW i \in SessionIds
      PROVE  /\ sessions[i] \in Session
             /\ sessions[i] # NoSession => i = EarlierSession /\ sessions[i].principal \in Principals
  <2>1. NoSession \in Session
    BY DEF NoSession, Session
  <2> DEFINE x == [NoSession EXCEPT !.principal = s.principal]
  <2>2. x \in Session /\ x.principal = s.principal
    BY <1>0 DEF NoSession, Session
  <2>3. \/ sessions[i] = NoSession
        \/ i = EarlierSession /\ s.principal # None /\ sessions[i] = x
    OBVIOUS
  <2> HIDE DEF x
  <2> QED BY <1>0, <2>1, <2>2, <2>3
<1>4. \A i : There(i) => i = EarlierSession
  BY <1>3 DEF There
<1>5. /\ \A r \in Requests : req[r] = Unsent /\ transactions[r] = None
      /\ \A i \in SessionIds : ended[i] = NotEnded
      /\ \A i \in SessionIds : origin[i] = IF i = EarlierSession THEN EarlierLogin ELSE None
      /\ \A i : Audited(i) <=> i = EarlierSession
  BY DEF Audited
<1>6. SessionsTyped
  <2>1. NotEnded \in Ending
    BY DEF NotEnded, Ending
  <2>2. sessions \in [SessionIds -> Session]
    BY <1>3
  <2>3. jar \in [Browsers -> Jar]
    BY <1>2
  <2>4. req \in [Requests -> Request]
    BY <1>1
  <2>5. \A i \in SessionIds : There(i) => sessions[i].principal \in Principals
    BY <1>3 DEF There
  <2> QED BY <1>0, <2>1, <2>2, <2>3, <2>4, <2>5 DEF SessionsTyped, BrowserOf
<1>7. ASSUME NEW r \in Requests PROVE RequestInv(r) /\ Witnessed(r)
  <2>1. r # EarlierSession /\ r \in SessionIds
    BY <1>0 DEF SessionIds
  <2>2. ~There(r) /\ ~Audited(r) /\ origin[r] = None
    BY <1>4, <1>5, <2>1
  <2>3. None \notin Requests
    BY AccessAssumption
  <2> QED BY <1>1, <1>5, <2>2, <2>3 DEF RequestInv, Witnessed
<1>8. OneEach
  BY <1>1, <1>5 DEF OneEach
<1>9. JarInv
  <2>1. None \notin Requests
    BY AccessAssumption
  <2> QED BY <1>0, <1>2, <2>1 DEF JarInv
<1>10. EndedInv
  <2>1. NotEnded.cause = None /\ NotEnded.by = None
    BY DEF NotEnded
  <2>2. None \notin {"signed_in", "failed_sign_in", "logout", "inactive"}
    BY AccessAssumption
  <2> QED BY <1>5, <2>1, <2>2 DEF EndedInv, EndedWell
<1>11. Capacities
  <2> DEFINE S == {i \in SessionIds : There(i)}
             T == {t \in Requests : Began(t)}
             E == {}
  <2>1. S \subseteq E \cup {EarlierSession} /\ T = E
    BY <1>4, <1>5 DEF Began
  <2>2. IsFiniteSet(E) /\ Cardinality(E) = 0
    BY FS_EmptySet
  <2>3. SESSIONS \in Nat /\ TRANSACTIONS \in Nat /\ 0 < SESSIONS /\ 0 <= TRANSACTIONS
    BY AccessAssumption
  <2> HIDE DEF S, T, E
  <2>4. Cardinality(S) <= SESSIONS
    BY <2>1, <2>2, <2>3, OneMore
  <2>5. Cardinality(T) <= TRANSACTIONS
    BY <2>1, <2>2, <2>3
  <2> QED BY <2>4, <2>5 DEF Capacities, S, T
<1> QED BY <1>0, <1>5, <1>6, <1>7, <1>8, <1>9, <1>10, <1>11 DEF SessionInv

-----------------------------------------------------------------------------
(* The theorems.                                                           *)

\* Every step of a request's handler.
LEMMA HandleStep ==
  ASSUME SessionInv, clock \in Nat, NEW r \in Requests, Handle(r),
         UNCHANGED <<asks, active, lapsed, rows, assignments>>
  PROVE  SessionInv'
<1>1. CASE PassCsrf(r) \/ FailCsrf(r) \/ CsrfToken(r) \/ FindSession(r)
  BY <1>1, LookupSteps
<1>2. CASE \/ ProviderRefuses(r) \/ (\E x \in Principals : ProviderVouches(r, x)) \/ FindActive(r) \/ ReadRoles(r)
  BY <1>2, QuietSteps
<1>3. CASE Logout(r) \/ FailSignIn(r) \/ EndInactive(r)
  BY <1>3, EndingSteps
<1>4. CASE AnswerLogin(r) \/ AnswerCallback(r) \/ AnswerLogout(r)
  BY <1>4, AnsweringSteps
<1>5. CASE AuditSession(r)
  <2>1. CASE Log("AUTHENTICATION_SUCCEEDED", r) /\ Answer(r, "welcome") /\ UNCHANGED <<sessions, ended>>
    BY <1>5, <2>1, AnsweringSteps
  <2>2. CASE End({r}, "unaudited", r) /\ FailWith(r, None) /\ UNCHANGED audit
    BY <1>5, <2>2, EndingSteps
  <2> QED BY <1>5, <2>1, <2>2 DEF AuditSession
<1>6. CASE BeginLogin(r)
  BY <1>6, BeginStep
<1>7. CASE CreateSession(r)
  BY <1>7, CreateStep
<1>8. CASE \E t \in {u \in Requests : asks[u].kind = "login"} \cup {None} : Consume(r, t)
  <2>1. PICK t \in Requests \cup {None} : Consume(r, t)
    BY <1>8
  <2> QED BY <2>1, ConsumeStep
<1> QED BY <1>1, <1>2, <1>3, <1>4, <1>5, <1>6, <1>7, <1>8 DEF Handle

\* Every arrival, past admission or not.
LEMMA ArrivalStep ==
  ASSUME SessionInv, clock \in Nat, NEW r \in Requests, UNCHANGED pvars,
         AdmitSignIn(r) \/ AdmitWrite(r) \/ AdmitOther(r)
  PROVE  SessionInv'
<1> DEFINE H == {"begin", "consume", "token", "csrf", "session", "limited"}
<1>1. CASE AdmitSignIn(r)
  <2>1. \E how \in H : Arrive(r, how)
    <3>1. Handler(asks[r].kind) \in H
      BY <1>1 DEF AdmitSignIn, Handler
    <3> QED BY <1>1, <3>1 DEF AdmitSignIn
  <2> QED BY <1>1, <2>1, ArriveStep DEF AdmitSignIn
<1>2. CASE AdmitWrite(r)
  <2>1. \E how \in H : Arrive(r, how)
    BY <1>2 DEF AdmitWrite
  <2>2. \E i : get(i)
    BY <1>2 DEF AdmitWrite
  <2> QED BY <2>1, <2>2, ArriveStep
<1>3. CASE AdmitOther(r)
  <2>1. \E how \in H : Arrive(r, how)
    <3>1. Handler(asks[r].kind) \in H
      BY <1>3 DEF AdmitOther, Handler
    <3> QED BY <1>3, <3>1 DEF AdmitOther
  <2> QED BY <1>3, <2>1, ArriveStep DEF AdmitOther
<1> QED BY <1>1, <1>2, <1>3

\* A step that leaves all of the sessions' state alone.
LEMMA SessionsUntouched ==
  ASSUME SessionInv, UNCHANGED <<asks, transactions, sessions, jar, req, audit, origin, ended, active, lapsed>>,
         UNCHANGED <<rows, assignments>>
  PROVE  SessionInv'
<1>1. SessionsTyped' /\ OneEach' /\ JarInv'
  BY DEF SessionInv, SessionsTyped, OneEach, JarInv, BrowserOf, Audited, There, SessionIds
<1>2. EndedInv'
  BY DEF SessionInv, EndedInv, EndedWell, BrowserOf, SessionIds
<1>3. Capacities'
  BY FewerFit DEF SessionInv, There, Began, SessionIds
<1>4. ASSUME NEW r \in Requests PROVE RequestInv(r)' /\ Witnessed(r)'
  <2>1. RequestInv(r) /\ Witnessed(r)
    BY DEF SessionInv
  <2>2. RequestInv(r)'
    BY <2>1 DEF RequestInv, There, Audited, BrowserOf, SessionIds
  <2>3. Witnessed(r)'
    BY <2>1 DEF Witnessed, Active, RolesOf
  <2> QED BY <2>2, <2>3
<1> QED BY <1>1, <1>2, <1>3, <1>4 DEF SessionInv

\* Every step, for the sessions.
LEMMA SessionStep ==
  ASSUME SessionInv, RatesInv, [Next]_vars
  PROVE  SessionInv'
<1>0. clock \in Nat
  BY DEF RatesInv, BucketsTyped
<1>1. ASSUME NEW r \in Requests, AdmitSignIn(r) \/ AdmitWrite(r) \/ AdmitOther(r), UNCHANGED pvars
      PROVE  SessionInv'
  BY <1>0, <1>1, ArrivalStep
<1>2. ASSUME NEW r \in Requests, Handle(r), UNCHANGED <<avars, pvars, asks, bound, active, lapsed>>
      PROVE  SessionInv'
  BY <1>0, <1>2, HandleStep DEF pvars
<1>3. ASSUME NEW t \in Jobs, Provision(t) PROVE SessionInv'
  BY <1>3, ProvisionStep
<1>4. CASE Tick(bound.until) /\ UNCHANGED <<pvars, svars>>
  BY <1>4, SessionsUntouched DEF pvars, svars
<1>5. CASE Restart /\ UNCHANGED pvars
  BY <1>5, RestartStep
<1>6. CASE UNCHANGED vars
  BY <1>6, SessionsUntouched DEF vars, pvars, svars
<1> QED BY <1>1, <1>2, <1>3, <1>4, <1>5, <1>6 DEF Next

\* Every step, for the roles.
LEMMA RolesStep ==
  ASSUME RolesInv, [Next]_vars
  PROVE  RolesInv'
<1>1. ASSUME NEW t \in Jobs, Provision(t) PROVE RolesInv'
  BY <1>1, OtherRunSteps, ChangeStep DEF Provision, ProvisioningStep
<1>2. CASE UNCHANGED pvars
  BY <1>2 DEF pvars, RolesInv, JobsTyped, RowsHeld, ReadsCurrent, RolesSeparate, RolesOf
<1> QED BY <1>1, <1>2 DEF Next, vars

\* Whatever arrives, expires, restarts or is provisioned, in whatever order, the roles, the
\* rates and the sessions stay as the code means them (auth.py, sessions.py, admission.py,
\* the provisioning procedure).
THEOREM AccessInvariant == Spec => []IInv
<1>1. Init => IInv
  <2>1. Init => RatesInv
    <3> SUFFICES ASSUME Init PROVE RatesInv
      OBVIOUS
    <3>1. /\ clock \in Nat /\ buckets = [s \in Stores |-> <<>>] /\ granted = [s \in Stores |-> <<>>]
          /\ promised = {}
      BY DEF Init, AdmissionInit
    <3> QED BY <3>1, RatesFresh
  <2> QED BY <2>1, InitRoles, InitSessions DEF IInv
<1>2. IInv /\ [Next]_vars => IInv'
  BY RolesStep, RatesStep, SessionStep DEF IInv
<1> QED BY <1>1, <1>2, PTL DEF Spec

\* Every window of a key's admissions is within its capacity and what the time brought, and a
\* Retry-After is kept, for every number of keys and every rate (TokenBuckets.take).
THEOREM RatesAlwaysHold == Spec => []RatesHold
<1>1. IInv => RatesHold
  BY RatesInvHolds DEF IInv
<1> QED BY <1>1, AccessInvariant, PTL

\* Only a principal that held a role while its request ran is served, and ADMINISTRATOR stays
\* apart however many runs race (current_principal, grant_user, grant_administrator).
THEOREM AuthorityAlwaysHolds == Spec => []AuthorityHolds
<1>1. IInv => AuthorityHolds
  BY DEF IInv, RolesInv, SessionInv, RequestInv, AuthorityHolds
<1> QED BY <1>1, AccessInvariant, PTL

\* The stores stay within their capacities, a browser holds an audited session of its own
\* sign-in only, and a session ends for a cause its holder can be told (SessionStore,
\* TransactionStore, callback, current_principal).
THEOREM SessionsStayAccounted == Spec => []SessionsAccounted
<1>1. ASSUME IInv PROVE SessionsAccounted
  <2>1. SessionInv /\ BucketsTyped /\ SessionsTyped
    BY <1>1 DEF IInv, RatesInv, SessionInv
  <2>2. TypeOK
    <3>1. \A b \in Browsers : jar[b].session \in SessionIds \cup {None}
      BY <2>1 DEF SessionsTyped, Jar
    <3> QED BY <2>1, <3>1 DEF TypeOK, SessionInv, SessionsTyped, Session, Capacities, BucketsTyped
  <2>3. SessionsEarned
    <3>1. \A b \in Browsers : LET i == jar[b].session IN i \in Requests =>
             Audited(i) /\ origin[i] \in Requests /\ BrowserOf(origin[i]) = b
      BY <2>1 DEF SessionInv, JarInv
    <3>2. ASSUME NEW i \in SessionIds, NEW j \in SessionIds, i # j, origin[i] # None
          PROVE  origin[i] # origin[j]
      <4>1. \A r \in Requests : /\ origin[r] \in {None, req[r].transaction}
                                /\ req[r].transaction \in Requests \cup {None}
        BY <2>1 DEF SessionInv, RequestInv, SessionsTyped, Request
      <4>2. origin[EarlierSession] = EarlierLogin /\ EarlierLogin \notin Requests /\ EarlierLogin # None
        BY <2>1, AccessAssumption DEF SessionInv
      <4>3. OneEach
        BY <2>1 DEF SessionInv
      <4>4. CASE i = EarlierSession
        BY <3>2, <4>1, <4>2, <4>4 DEF SessionIds
      <4>5. CASE j = EarlierSession
        BY <3>2, <4>1, <4>2, <4>5 DEF SessionIds
      <4>6. CASE i \in Requests /\ j \in Requests
        BY <3>2, <4>1, <4>3, <4>6 DEF OneEach
      <4> QED BY <4>4, <4>5, <4>6 DEF SessionIds
    <3> QED BY <3>1, <3>2 DEF SessionsEarned
  <2>4. SessionsEndForCause
    <3>1. ASSUME NEW i \in SessionIds
          PROVE  LET e == ended[i]
                 IN  /\ e.cause \in {"signed_in", "failed_sign_in", "logout"} => req[e.by].session = i
                     /\ e.cause \in {"signed_in", "failed_sign_in"} =>
                           BrowserOf(req[e.by].transaction) = BrowserOf(e.by)
                     /\ e.cause = "inactive" => req[e.by].principal \in lapsed[e.by]
      BY <2>1 DEF SessionInv, EndedInv, EndedWell
    <3>2. \A r \in Requests : req[r].pc = "not_signed_in" => ~There(req[r].session) /\ ~There(r)
      BY <2>1 DEF SessionInv, RequestInv
    <3> QED BY <3>1, <3>2 DEF SessionsEndForCause
  <2> QED BY <2>2, <2>3, <2>4 DEF SessionsAccounted
<1> QED BY <1>1, AccessInvariant, PTL

=============================================================================

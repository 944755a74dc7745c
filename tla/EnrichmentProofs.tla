-------------------------- MODULE EnrichmentProofs --------------------------
(***************************************************************************)
(* Theorems about Egress and Enrichment, for any policies, addresses,      *)
(* answers, replies, delays and limits: what a lookup may do, what a       *)
(* record of it says; and that the theorems of HistoryProofs still hold    *)
(* with enrichments beside everything else.                                *)
(***************************************************************************)
EXTENDS Enrichment, HistoryProofs, WellFoundedInduction

Fields == {"pc", "policy", "indicator", "time", "attempts", "hop", "target", "answers", "peer", "contacts",
           "result"}
Ends == OVERALL_DEADLINE + Max(Delays)   \* no lookup gets here
Hops == MAX_REDIRECT_HOPS + 1            \* exchanges of an attempt

\* The counts of a lookup are bounded, and it has no target but the approved one.
Counted(l) ==
    /\ DOMAIN l = Fields
    /\ l.time \in Nat /\ l.attempts \in Nat /\ l.hop \in Nat /\ l.contacts \in Nat
    /\ l.attempts <= MAX_ATTEMPTS /\ l.hop <= MAX_REDIRECT_HOPS /\ l.contacts <= l.attempts * Hops
    /\ l.time < Ends /\ l.target = "approved"

Allowed(l) ==
    Policy[l.policy].enabled /\ Policy[l.policy].proxy # "unverified" /\ Policy[l.policy].credential # "missing"

\* What the result of a lookup says was said, and a failure says so.
ResultOK(l, S) ==
    /\ l.result.reputation # "NOT_EVALUATED" =>
          [policy |-> l.policy, indicator |-> l.indicator, entry |-> l.result.outcome,
           reputation |-> l.result.reputation] \in S
    /\ l.result.outcome = "NOT_FOUND" => l.result.reputation = "UNKNOWN"
    /\ l.result.status # "SUCCEEDED" => l.result.category \in FAILURES

LookOK(l, S) ==
    /\ Counted(l)
    /\ l.pc \in {"idle", "prepare", "attempt", "resolve", "connect", "exchange", "done"}
    /\ l.pc = "prepare" => l.attempts = 0 /\ l.time = 0
    /\ l.pc \in {"attempt", "resolve", "connect", "exchange"} => Allowed(l)
    /\ l.pc = "attempt" => l.attempts < MAX_ATTEMPTS /\ l.time < OVERALL_DEADLINE
    /\ l.pc \in {"resolve", "connect", "exchange"} =>
          l.attempts # 0 /\ l.contacts <= (l.attempts - 1) * Hops + l.hop
    /\ l.pc \in {"connect", "exchange"} => l.answers # {} /\ l.answers \subseteq Permitted
    /\ l.pc = "exchange" => Policy[l.policy].proxy = "none" /\ l.peer \in l.answers
    /\ l.pc = "done" => ResultOK(l, S)

WireOK ==
    \A x \in wire :
        /\ x.peer \in x.answers /\ x.answers \subseteq Permitted /\ x.target = "approved"
        /\ Policy[x.policy].enabled /\ Policy[x.policy].proxy = "none" /\ Policy[x.policy].credential # "missing"

GInv ==
    /\ look = [c \in Callers |-> look[c]]
    /\ \A c \in Callers : LookOK(look[c], said)
    /\ WireOK

-----------------------------------------------------------------------------
(* Numbers.                                                                *)

\* The longest delay is one.
LEMMA LongestFacts ==
  /\ Max(Delays) \in Nat /\ \A d \in Delays : d \in Nat /\ d <= Max(Delays)
  /\ Ends \in Nat /\ OVERALL_DEADLINE <= Ends /\ OVERALL_DEADLINE \in Nat \ {0}
  /\ MAX_ATTEMPTS \in Nat \ {0} /\ Hops \in Nat \ {0}
<1>1. \E x \in Delays : \A y \in Delays : x >= y
  BY LimitsAssumption
<1>2. Max(Delays) \in Delays /\ \A y \in Delays : Max(Delays) >= y
  BY <1>1 DEF Max
<1>3. Max(Delays) \in Nat /\ \A d \in Delays : d \in Nat /\ d <= Max(Delays)
  BY <1>2, LimitsAssumption
<1>4. OVERALL_DEADLINE \in Nat \ {0} /\ MAX_ATTEMPTS \in Nat \ {0} /\ MAX_REDIRECT_HOPS \in Nat
  BY LimitsAssumption
<1>5. Hops \in Nat \ {0} /\ Ends \in Nat /\ OVERALL_DEADLINE <= Ends
  BY <1>3, <1>4 DEF Ends, Hops
<1> QED BY <1>3, <1>4, <1>5

\* The first of some addresses is one of them.
LEMMA FirstFacts ==
  ASSUME NEW S \in SUBSET Nat, S # {}
  PROVE  Min(S) \in S
<1> DEFINE Below(x) == {y \in S : y < x}
           Belows == {Below(x) : x \in S}
<1>1. ASSUME NEW x \in S PROVE Below(x) \in FiniteSubsetsOf(Nat)
  <2>1. \A y \in Below(x) : y \in Nat /\ y < x
    OBVIOUS
  <2>2. Below(x) \in SUBSET Nat
    BY <2>1
  <2>3. Below(x) \in SUBSET (0..x)
    <3>1. \A y \in Below(x) : y \in 0..x
      BY <2>1
    <3> HIDE DEF Below
    <3> QED BY <3>1
  <2>4. IsFiniteSet(0..x)
    BY FS_Interval
  <2>5. IsFiniteSet(Below(x))
    <3> HIDE DEF Below
    <3> QED BY ONLY <2>3, <2>4, FS_Subset
  <2> QED BY <2>2, <2>5 DEF FiniteSubsetsOf
<1>2. Belows \subseteq FiniteSubsetsOf(Nat) /\ Belows # {}
  <2> HIDE DEF Below
  <2> QED BY <1>1
<1>3. PICK B \in Belows : \A C \in Belows : ~ <<C, B>> \in StrictSubsetOrdering(Nat)
  <2> HIDE DEF Belows
  <2> QED BY <1>2, FS_StrictSubsetOrderingWellFounded, WFMin
<1>4. PICK m \in S : B = Below(m)
  OBVIOUS
<1>5. ASSUME NEW y \in S, y < m PROVE FALSE
  <2>1. Below(y) \in FiniteSubsetsOf(Nat) /\ Below(m) \in FiniteSubsetsOf(Nat) /\ Below(y) \in Belows
    BY <1>1
  <2>2. Below(y) \subseteq Below(m) /\ y \in Below(m) /\ y \notin Below(y)
    <3>1. \A z \in Below(y) : z \in S /\ z < m
      BY <1>5
    <3>2. y \in Below(m) /\ y \notin Below(y)
      BY <1>5
    <3> QED BY <3>1, <3>2
  <2> HIDE DEF Below, Belows
  <2>3. <<Below(y), Below(m)>> \in StrictSubsetOrdering(Nat)
    BY <2>1, <2>2 DEF StrictSubsetOrdering, FiniteSubsetsOf
  <2> QED BY <1>3, <1>4, <2>1, <2>3
<1>6. \A y \in S : m <= y
  BY <1>5
<1> QED BY <1>6 DEF Min

\* Exchanges of all attempts together.
LEMMA ExchangeFacts ==
  ASSUME NEW a \in Nat, NEW h \in Nat \ {0}
  PROVE  /\ a # 0 => a * h = (a - 1) * h + h
         /\ a * h \in Nat /\ (a + 1 - 1) * h = a * h
         /\ \A b \in Nat : a <= b => a * h <= b * h
<1>1. \A b \in Nat : a <= b => a * h <= b * h
  <2>1. ASSUME NEW b \in Nat, a <= b PROVE a * h <= b * h
    <3>1. PICK d \in Nat : b = a + d
      BY <2>1
    <3>2. d * h \in Nat /\ a * h \in Nat
      OBVIOUS
    <3>3. b * h = a * h + d * h
      BY <3>1
    <3> QED BY <3>2, <3>3
  <2> QED BY <2>1
<1> QED BY <1>1

-----------------------------------------------------------------------------
(* A lookup.                                                               *)

\* The result of a failure.
LEMMA FailedFacts ==
  ASSUME NEW category \in FAILURES, NEW class
  PROVE  LET f == Failed(category, class)
         IN  f.reputation = "NOT_EVALUATED" /\ f.outcome # "NOT_FOUND" /\ f.category = category
  BY DEF Failed

\* A refusal ends the lookup, or lets it sleep in time for another attempt.
LEMMA RefusedFacts ==
  ASSUME NEW l, NEW category \in FAILURES, NEW class, NEW S, Counted(l), Allowed(l)
  PROVE  LET m == Refused(l, category, class)
         IN  LookOK(m, S) /\ m.policy = l.policy /\ m.indicator = l.indicator /\ m.pc # "idle"
<1> DEFINE doubled == BACKOFF_INITIAL * 2 ^ (l.attempts - 1)
           wait == IF doubled \in 0..BACKOFF_MAX THEN doubled ELSE BACKOFF_MAX
           asleep == [l EXCEPT !.pc = "attempt", !.time = l.time + wait]
           ended == [l EXCEPT !.pc = "done", !.result = Failed(category, class)]
           again == /\ category \in Retryable /\ Policy[l.policy].retry_safe
                    /\ l.attempts < MAX_ATTEMPTS /\ l.time + wait < OVERALL_DEADLINE
<1>1. Refused(l, category, class) = IF again THEN asleep ELSE ended
  BY DEF Refused
<1>2. wait \in Nat
  <2> HIDE DEF doubled
  <2> QED BY LimitsAssumption
<1>3. CASE again
  <2>1. l.time + wait \in Nat /\ l.time + wait < OVERALL_DEADLINE /\ l.time + wait < Ends
    <3> HIDE DEF wait
    <3> QED BY <1>2, <1>3, LongestFacts DEF Counted
  <2> HIDE DEF wait
  <2>2. /\ DOMAIN asleep = Fields /\ asleep.pc = "attempt" /\ asleep.time = l.time + wait
        /\ asleep.attempts = l.attempts /\ asleep.hop = l.hop /\ asleep.contacts = l.contacts
        /\ asleep.target = l.target /\ asleep.policy = l.policy /\ asleep.indicator = l.indicator
    BY DEF Counted, Fields
  <2> HIDE DEF asleep
  <2>3. Counted(asleep) /\ Allowed(asleep)
    BY <2>1, <2>2 DEF Counted, Allowed
  <2>4. LookOK(asleep, S)
    BY <1>3, <2>1, <2>2, <2>3 DEF LookOK
  <2> QED BY <1>1, <1>3, <2>2, <2>4
<1>4. CASE ~ again
  <2> HIDE DEF again
  <2>1. /\ DOMAIN ended = Fields /\ ended.pc = "done" /\ ended.time = l.time
        /\ ended.attempts = l.attempts /\ ended.hop = l.hop /\ ended.contacts = l.contacts
        /\ ended.target = l.target /\ ended.policy = l.policy /\ ended.indicator = l.indicator
        /\ ended.result = Failed(category, class)
    BY DEF Counted, Fields
  <2>2. /\ ended.result.reputation = "NOT_EVALUATED" /\ ended.result.outcome # "NOT_FOUND"
        /\ ended.result.category \in FAILURES
    BY <2>1, FailedFacts
  <2> HIDE DEF ended
  <2>3. Counted(ended) /\ ResultOK(ended, S)
    BY <2>1, <2>2 DEF Counted, ResultOK
  <2>4. LookOK(ended, S)
    BY <2>1, <2>3 DEF LookOK
  <2> QED BY <1>1, <1>4, <2>1, <2>4
<1> QED BY <1>3, <1>4

\* One lookup goes on, the others stay.
Goes(c, l) ==
    /\ Set(c, l) /\ LookOK(l, said') /\ l.pc # "idle"
    /\ l.policy = look[c].policy /\ l.indicator = look[c].indicator

\* The categories that the steps refuse with are those of the table.
LEMMA CategoryFacts ==
  {"TIMEOUT", "DNS_FAILURE", "DESTINATION_ADDRESS_REJECTION", "PROXY_ENFORCEMENT_UNVERIFIED", "CONNECTION_FAILURE",
   "REDIRECT_POLICY_REJECTION", "TLS_FAILURE", "RATE_LIMITED", "PROVIDER_CLIENT_ERROR", "PROVIDER_SERVER_ERROR",
   "SCHEMA_INVALID_RESPONSE", "INVALID_CONTENT_TYPE", "OVERSIZED_RESPONSE", "DECOMPRESSION_LIMIT_EXCEEDED",
   "POLICY_REJECTION", "CREDENTIAL_UNAVAILABLE"} \subseteq FAILURES
  BY DEF FAILURES, Retryable, Rejections, Unreadable

\* What a policy forbids ends here.
LEMMA PrepareGoes ==
  ASSUME NEW c \in Callers, LookOK(look[c], said), PrepareLookup(c)
  PROVE  \E l : Goes(c, l)
<1> DEFINE l == look[c]
<1>1. l.pc = "prepare" /\ Counted(l) /\ l.attempts = 0 /\ l.time = 0 /\ said' = said
  BY DEF PrepareLookup, LookOK
<1>2. CASE Allowed(l) /\ Set(c, [l EXCEPT !.pc = "attempt"])
  <2> DEFINE m == [l EXCEPT !.pc = "attempt"]
  <2>1. /\ DOMAIN m = Fields /\ m.pc = "attempt" /\ m.time = l.time
        /\ m.attempts = l.attempts /\ m.hop = l.hop /\ m.contacts = l.contacts
        /\ m.target = l.target /\ m.policy = l.policy /\ m.indicator = l.indicator
    BY <1>1 DEF Counted, Fields
  <2> HIDE DEF m, l
  <2>2. LookOK(m, said')
    BY <1>1, <1>2, <2>1, LongestFacts DEF LookOK, Counted, Allowed
  <2>3. Set(c, m) /\ m.policy = l.policy /\ m.indicator = l.indicator /\ m.pc # "idle"
    BY <1>2, <2>1 DEF m
  <2> QED BY <2>2, <2>3 DEF Goes, l
<1>3. ASSUME NEW category \in FAILURES, Set(c, [l EXCEPT !.pc = "done", !.result = Failed(category, "NO_RESPONSE")])
      PROVE  \E m : Goes(c, m)
  <2> DEFINE m == [l EXCEPT !.pc = "done", !.result = Failed(category, "NO_RESPONSE")]
  <2>1. /\ DOMAIN m = Fields /\ m.pc = "done" /\ m.time = l.time
        /\ m.attempts = l.attempts /\ m.hop = l.hop /\ m.contacts = l.contacts
        /\ m.target = l.target /\ m.policy = l.policy /\ m.indicator = l.indicator
        /\ m.result = Failed(category, "NO_RESPONSE")
    BY <1>1 DEF Counted, Fields
  <2>2. m.result.reputation = "NOT_EVALUATED" /\ m.result.outcome # "NOT_FOUND" /\ m.result.category = category
    BY <2>1, FailedFacts
  <2>3. Set(c, m)
    BY <1>3
  <2> HIDE DEF m, l
  <2>4. ResultOK(m, said') /\ Counted(m)
    BY <1>1, <1>3, <2>1, <2>2 DEF ResultOK, Counted
  <2>5. LookOK(m, said')
    BY <2>1, <2>4 DEF LookOK
  <2> QED BY <2>1, <2>3, <2>5 DEF Goes, l
<1>4. \/ Allowed(l) /\ Set(c, [l EXCEPT !.pc = "attempt"])
      \/ \E category \in FAILURES : Set(c, [l EXCEPT !.pc = "done", !.result = Failed(category, "NO_RESPONSE")])
  BY CategoryFacts DEF PrepareLookup, Allowed
<1> QED BY <1>2, <1>3, <1>4

\* An attempt begins within the limit of attempts.
LEMMA AttemptGoes ==
  ASSUME NEW c \in Callers, LookOK(look[c], said), Attempt(c)
  PROVE  \E l : Goes(c, l)
<1> DEFINE old == look[c]
           l == [old EXCEPT !.attempts = @ + 1, !.hop = 0, !.target = "approved", !.answers = {}]
           m == [l EXCEPT !.pc = "resolve"]
<1>1. /\ Counted(old) /\ Allowed(old) /\ old.attempts < MAX_ATTEMPTS /\ said' = said
      /\ Set(c, IF Remaining(l) THEN m ELSE Refused(l, "TIMEOUT", "NO_RESPONSE"))
  BY DEF Attempt, LookOK, Fields, Counted
<1>2. /\ DOMAIN l = Fields /\ l.attempts = old.attempts + 1 /\ l.hop = 0 /\ l.target = "approved"
      /\ l.time = old.time /\ l.contacts = old.contacts /\ l.policy = old.policy /\ l.indicator = old.indicator
  BY <1>1 DEF Counted, Fields
<1>3. /\ DOMAIN m = Fields /\ m.pc = "resolve" /\ m.attempts = l.attempts /\ m.hop = l.hop /\ m.target = l.target
      /\ m.time = l.time /\ m.contacts = l.contacts /\ m.policy = l.policy /\ m.indicator = l.indicator
  BY <1>2 DEF Fields
<1> HIDE DEF l, m, old
<1>4. old.contacts <= (old.attempts + 1 - 1) * Hops /\ old.attempts * Hops <= (old.attempts + 1) * Hops
      /\ (old.attempts + 1) * Hops \in Nat /\ old.attempts * Hops \in Nat
  <2>1. old.attempts \in Nat /\ old.contacts <= old.attempts * Hops
    BY <1>1 DEF Counted
  <2> QED BY <2>1, LongestFacts, ExchangeFacts
<1>5. Counted(l) /\ Allowed(l) /\ l.attempts # 0 /\ l.contacts <= (l.attempts - 1) * Hops + l.hop
  <2>1. /\ old.attempts \in Nat /\ old.attempts < MAX_ATTEMPTS /\ old.contacts \in Nat
        /\ old.contacts <= old.attempts * Hops /\ MAX_ATTEMPTS \in Nat /\ MAX_REDIRECT_HOPS \in Nat
    BY <1>1, LimitsAssumption DEF Counted
  <2>2. l.attempts \in Nat /\ l.attempts <= MAX_ATTEMPTS /\ l.attempts # 0
    BY <1>2, <2>1
  <2>3. l.contacts <= l.attempts * Hops /\ l.contacts <= (l.attempts - 1) * Hops + l.hop
    <3> DEFINE x == old.attempts * Hops
               y == (old.attempts + 1) * Hops
               z == (old.attempts + 1 - 1) * Hops
    <3>1. l.attempts * Hops = y /\ (l.attempts - 1) * Hops = z /\ z = x
      BY <1>2, <2>1
    <3> HIDE DEF x, y, z
    <3> QED BY <1>2, <1>4, <2>1, <3>1 DEF x, y
  <2>4. l.time \in Nat /\ l.time < Ends /\ l.hop \in Nat /\ l.hop <= MAX_REDIRECT_HOPS
    BY <1>1, <1>2, <2>1 DEF Counted
  <2> QED BY <1>1, <1>2, <2>1, <2>2, <2>3, <2>4 DEF Counted, Allowed
<1>6. LookOK(m, said')
  BY <1>3, <1>5 DEF LookOK, Counted, Allowed
<1>7. LET n == Refused(l, "TIMEOUT", "NO_RESPONSE")
      IN  LookOK(n, said') /\ n.policy = l.policy /\ n.indicator = l.indicator /\ n.pc # "idle"
  BY <1>5, RefusedFacts, CategoryFacts
<1> QED BY <1>1, <1>2, <1>3, <1>6, <1>7 DEF Goes, old

\* An operation takes time, and begins only before the deadline.
LEMMA AfterFacts ==
  ASSUME NEW old, Counted(old), Remaining(old), NEW delay \in Delays
  PROVE  LET l == After(old, delay)
         IN  /\ Counted(l) /\ l.policy = old.policy /\ l.indicator = old.indicator /\ l.pc = old.pc
             /\ l.attempts = old.attempts /\ l.hop = old.hop /\ l.contacts = old.contacts
             /\ l.answers = old.answers /\ l.peer = old.peer
<1> DEFINE l == After(old, delay)
<1>1. /\ DOMAIN l = Fields /\ l.time = old.time + delay /\ l.policy = old.policy /\ l.indicator = old.indicator
      /\ l.pc = old.pc /\ l.attempts = old.attempts /\ l.hop = old.hop /\ l.contacts = old.contacts
      /\ l.answers = old.answers /\ l.peer = old.peer /\ l.target = old.target
  BY DEF After, Counted, Fields
<1>2. old.time + delay \in Nat /\ old.time + delay < Ends
  <2>1. old.time \in Nat /\ old.time < OVERALL_DEADLINE /\ delay \in Nat /\ delay <= Max(Delays) /\ Max(Delays) \in Nat
        /\ OVERALL_DEADLINE \in Nat
    BY LongestFacts DEF Counted, Remaining
  <2> HIDE DEF l
  <2> QED BY <2>1 DEF Ends
<1> HIDE DEF l
<1>3. Counted(l)
  BY <1>1, <1>2 DEF Counted
<1> QED BY <1>1, <1>3 DEF l

\* Names that are resolved: all answers permitted, in time.
LEMMA ResolvedFacts ==
  ASSUME NEW l, NEW answers, NEW S, Counted(l), Allowed(l), l.attempts # 0,
         l.contacts <= (l.attempts - 1) * Hops + l.hop
  PROVE  LET m == Resolved(l, answers)
         IN  LookOK(m, S) /\ m.policy = l.policy /\ m.indicator = l.indicator /\ m.pc # "idle"
<1> DEFINE m == [l EXCEPT !.pc = "connect", !.answers = answers]
<1>1. ASSUME NEW category \in FAILURES
      PROVE  LET n == Refused(l, category, "NO_RESPONSE")
             IN  LookOK(n, S) /\ n.policy = l.policy /\ n.indicator = l.indicator /\ n.pc # "idle"
  BY RefusedFacts
<1>2. CASE Resolved(l, answers) = m /\ answers # {} /\ answers \subseteq Permitted
  <2>1. /\ DOMAIN m = Fields /\ m.pc = "connect" /\ m.answers = answers /\ m.time = l.time
        /\ m.attempts = l.attempts /\ m.hop = l.hop /\ m.contacts = l.contacts
        /\ m.target = l.target /\ m.policy = l.policy /\ m.indicator = l.indicator
    BY DEF Counted, Fields
  <2>2. Resolved(l, answers) = m
    BY <1>2
  <2> HIDE DEF m
  <2>3. LookOK(m, S)
    BY <1>2, <2>1 DEF LookOK, Counted, Allowed
  <2> QED BY <2>1, <2>2, <2>3
<1>3. \/ \E category \in FAILURES : Resolved(l, answers) = Refused(l, category, "NO_RESPONSE")
      \/ Resolved(l, answers) = m /\ answers # {} /\ answers \subseteq Permitted
  BY CategoryFacts DEF Resolved
<1> QED BY <1>1, <1>2, <1>3

\* Resolution.
LEMMA ResolveGoes ==
  ASSUME NEW c \in Callers, LookOK(look[c], said), Resolve(c)
  PROVE  \E l : Goes(c, l)
<1> DEFINE old == look[c]
<1>1. /\ old.pc = "resolve" /\ Counted(old) /\ Allowed(old) /\ old.attempts # 0 /\ said' = said
      /\ old.contacts <= (old.attempts - 1) * Hops + old.hop
  BY DEF Resolve, LookOK
<1>2. ASSUME NEW l, NEW category \in FAILURES, Counted(l), Allowed(l), l.policy = old.policy,
             l.indicator = old.indicator, Set(c, Refused(l, category, "NO_RESPONSE"))
      PROVE  \E m : Goes(c, m)
  BY <1>2, RefusedFacts DEF Goes
<1>3. CASE ~ Remaining(old)
  BY <1>1, <1>2, <1>3, CategoryFacts DEF Resolve
<1>4. ASSUME Remaining(old), NEW delay \in Delays, NEW answers, Set(c, Resolved(After(old, delay), answers))
      PROVE  \E m : Goes(c, m)
  <2> DEFINE l == After(old, delay)
  <2>1. /\ Counted(l) /\ l.policy = old.policy /\ l.indicator = old.indicator /\ l.pc = old.pc
        /\ l.attempts = old.attempts /\ l.hop = old.hop /\ l.contacts = old.contacts
    BY <1>1, <1>4, AfterFacts
  <2>2. Set(c, Resolved(l, answers))
    BY <1>4
  <2> HIDE DEF l, old
  <2>3. Allowed(l) /\ l.attempts # 0 /\ l.contacts <= (l.attempts - 1) * Hops + l.hop
    BY <1>1, <2>1 DEF Allowed
  <2>4. LET m == Resolved(l, answers)
        IN  LookOK(m, said') /\ m.policy = l.policy /\ m.indicator = l.indicator /\ m.pc # "idle"
    BY <2>1, <2>3, ResolvedFacts
  <2> QED BY <2>1, <2>2, <2>4 DEF Goes, old
<1>5. ASSUME Remaining(old), NEW delay \in Delays, Set(c, Refused(After(old, delay), "DNS_FAILURE", "NO_RESPONSE"))
      PROVE  \E m : Goes(c, m)
  <2> DEFINE l == After(old, delay)
  <2>1. Counted(l) /\ l.policy = old.policy /\ l.indicator = old.indicator
    BY <1>1, <1>5, AfterFacts
  <2>2. Allowed(l)
    BY <1>1, <2>1 DEF Allowed
  <2> QED BY <1>2, <1>5, <2>1, <2>2, CategoryFacts
<1> QED BY <1>3, <1>4, <1>5 DEF Resolve

\* A peer that was validated, or none.
LEMMA ConnectedFacts ==
  ASSUME NEW l, NEW peer, NEW S, Counted(l), Allowed(l), l.attempts # 0,
         l.contacts <= (l.attempts - 1) * Hops + l.hop, l.answers # {}, l.answers \subseteq Permitted,
         Policy[l.policy].proxy = "none"
  PROVE  LET m == Connected(l, peer)
         IN  LookOK(m, S) /\ m.policy = l.policy /\ m.indicator = l.indicator /\ m.pc # "idle"
<1> DEFINE m == [l EXCEPT !.pc = "exchange", !.peer = peer]
<1>1. CASE Connected(l, peer) = Refused(l, "DESTINATION_ADDRESS_REJECTION", "NO_RESPONSE")
  BY <1>1, RefusedFacts, CategoryFacts
<1>2. CASE Connected(l, peer) = m /\ peer = Min(l.answers)
  <2>1. Min(l.answers) \in l.answers
    <3>1. l.answers \in SUBSET Nat
      BY LimitsAssumption
    <3> QED BY <3>1, FirstFacts
  <2>2. /\ DOMAIN m = Fields /\ m.pc = "exchange" /\ m.peer = peer /\ m.answers = l.answers /\ m.time = l.time
        /\ m.attempts = l.attempts /\ m.hop = l.hop /\ m.contacts = l.contacts
        /\ m.target = l.target /\ m.policy = l.policy /\ m.indicator = l.indicator
    BY DEF Counted, Fields
  <2>3. Connected(l, peer) = m
    BY <1>2
  <2> HIDE DEF m
  <2>4. LookOK(m, S)
    BY <1>2, <2>1, <2>2 DEF LookOK, Counted, Allowed
  <2> QED BY <2>2, <2>3, <2>4
<1> QED BY <1>1, <1>2 DEF Connected

\* Connection.
LEMMA ConnectGoes ==
  ASSUME NEW c \in Callers, LookOK(look[c], said), Connect(c)
  PROVE  \E l : Goes(c, l)
<1> DEFINE old == look[c]
<1>1. /\ old.pc = "connect" /\ Counted(old) /\ Allowed(old) /\ old.attempts # 0 /\ said' = said
      /\ old.contacts <= (old.attempts - 1) * Hops + old.hop
      /\ old.answers # {} /\ old.answers \subseteq Permitted
  BY DEF Connect, LookOK
<1>2. ASSUME NEW l, NEW category \in FAILURES, Counted(l), Allowed(l), l.policy = old.policy,
             l.indicator = old.indicator, Set(c, Refused(l, category, "NO_RESPONSE"))
      PROVE  \E m : Goes(c, m)
  BY <1>2, RefusedFacts DEF Goes
<1>3. ASSUME NEW category \in FAILURES, Set(c, Refused(old, category, "NO_RESPONSE"))
      PROVE  \E m : Goes(c, m)
  BY <1>1, <1>2, <1>3
<1>4. ASSUME Remaining(old), NEW delay \in Delays, NEW peer, Set(c, Connected(After(old, delay), peer)),
             Policy[old.policy].proxy = "none"
      PROVE  \E m : Goes(c, m)
  <2> DEFINE l == After(old, delay)
  <2>1. /\ Counted(l) /\ l.policy = old.policy /\ l.indicator = old.indicator /\ l.pc = old.pc
        /\ l.attempts = old.attempts /\ l.hop = old.hop /\ l.contacts = old.contacts /\ l.answers = old.answers
    BY <1>1, <1>4, AfterFacts
  <2>2. Set(c, Connected(l, peer))
    BY <1>4
  <2> HIDE DEF l
  <2>3. /\ Allowed(l) /\ l.attempts # 0 /\ l.contacts <= (l.attempts - 1) * Hops + l.hop
        /\ l.answers # {} /\ l.answers \subseteq Permitted /\ Policy[l.policy].proxy = "none"
    <3> HIDE DEF old
    <3> QED BY <1>1, <1>4, <2>1 DEF Allowed
  <2>4. LET m == Connected(l, peer)
        IN  LookOK(m, said') /\ m.policy = l.policy /\ m.indicator = l.indicator /\ m.pc # "idle"
    BY <2>1, <2>3, ConnectedFacts
  <2> QED BY <2>1, <2>2, <2>4 DEF Goes
<1>5. ASSUME Remaining(old), NEW delay \in Delays, NEW category \in FAILURES,
             Set(c, Refused(After(old, delay), category, "NO_RESPONSE"))
      PROVE  \E m : Goes(c, m)
  <2> DEFINE l == After(old, delay)
  <2>1. Counted(l) /\ l.policy = old.policy /\ l.indicator = old.indicator
    BY <1>1, <1>5, AfterFacts
  <2>2. Allowed(l)
    BY <1>1, <2>1 DEF Allowed
  <2> QED BY <1>2, <1>5, <2>1, <2>2
<1>6. \/ \E category \in FAILURES : Set(c, Refused(old, category, "NO_RESPONSE"))
      \/ /\ Remaining(old) /\ Policy[old.policy].proxy = "none"
         /\ \E delay \in Delays : \/ \E peer \in Addresses : Set(c, Connected(After(old, delay), peer))
                                  \/ \E category \in FAILURES : Set(c, Refused(After(old, delay), category, "NO_RESPONSE"))
  <2>1. CASE ~ Remaining(old) \/ Policy[old.policy].proxy # "none"
    BY <2>1, CategoryFacts DEF Connect
  <2>2. CASE Remaining(old) /\ Policy[old.policy].proxy = "none"
    BY <2>2, CategoryFacts DEF Connect
  <2> QED BY <2>1, <2>2
<1> QED BY <1>3, <1>4, <1>5, <1>6

\* A reply that nothing is wrong with is a complete one that parses.
LEMMA ComplaintFacts ==
  ASSUME NEW reply
  PROVE  /\ Complaint(reply) \in FAILURES \cup {"NONE"}
         /\ Complaint(reply) = "NONE" => reply.status = 200 /\ Parses(reply)
<1>1. Complaint(reply) \in FAILURES \cup {"NONE"}
  BY CategoryFacts DEF Complaint
<1>2. ASSUME Complaint(reply) = "NONE" PROVE reply.status = 200 /\ Parses(reply)
  <2> HIDE DEF Parses
  <2> QED BY <1>2, ZenonT(30) DEF Complaint
<1> QED BY <1>1, <1>2

\* A redirect is another hop of the attempt.
LEMMA RedirectedFacts ==
  ASSUME NEW l, NEW reply, NEW S, Counted(l), Allowed(l), l.attempts # 0,
         l.contacts <= (l.attempts - 1) * Hops + l.hop + 1
  PROVE  LET m == Redirected(l, reply)
         IN  LookOK(m, S) /\ m.policy = l.policy /\ m.indicator = l.indicator /\ m.pc # "idle"
<1> DEFINE m == [l EXCEPT !.pc = "resolve", !.hop = @ + 1, !.target = reply.location]
<1>1. CASE Redirected(l, reply) = Refused(l, "REDIRECT_POLICY_REJECTION", "HTTP_3XX")
  BY <1>1, RefusedFacts, CategoryFacts
<1>2. CASE Redirected(l, reply) = m /\ l.hop # MAX_REDIRECT_HOPS /\ reply.location = "approved"
  <2>1. /\ DOMAIN m = Fields /\ m.pc = "resolve" /\ m.answers = l.answers /\ m.time = l.time
        /\ m.attempts = l.attempts /\ m.hop = l.hop + 1 /\ m.contacts = l.contacts
        /\ m.target = reply.location /\ m.policy = l.policy /\ m.indicator = l.indicator
    BY DEF Counted, Fields
  <2>2. Redirected(l, reply) = m
    BY <1>2
  <2> HIDE DEF m
  <2>3. l.hop + 1 \in Nat /\ l.hop + 1 <= MAX_REDIRECT_HOPS
    BY <1>2, LimitsAssumption DEF Counted
  <2>4. Counted(m) /\ Allowed(m)
    BY <1>2, <2>1, <2>3 DEF Counted, Allowed
  <2>5. (l.attempts - 1) * Hops + l.hop + 1 = (l.attempts - 1) * Hops + (l.hop + 1)
    <3>1. (l.attempts - 1) * Hops \in Int /\ l.hop \in Int
      BY LongestFacts DEF Counted
    <3> DEFINE x == (l.attempts - 1) * Hops
    <3> HIDE DEF x
    <3> QED BY <3>1 DEF x
  <2>6. m.attempts # 0 /\ m.contacts <= (m.attempts - 1) * Hops + m.hop
    BY <2>1, <2>5
  <2> HIDE DEF Counted, Allowed
  <2>7. LookOK(m, S)
    BY <2>1, <2>4, <2>6 DEF LookOK
  <2> QED BY <2>1, <2>2, <2>7
<1> QED BY <1>1, <1>2 DEF Redirected

\* A complete reply that parses and came in time is the result.
LEMMA AcceptedFacts ==
  ASSUME NEW l, NEW reply, NEW S, Counted(l), Parses(reply),
         [policy |-> l.policy, indicator |-> l.indicator, entry |-> reply.entry,
          reputation |-> reply.reputation] \in S
  PROVE  LET m == Accepted(l, reply)
         IN  LookOK(m, S) /\ m.policy = l.policy /\ m.indicator = l.indicator /\ m.pc # "idle"
<1> DEFINE m == Accepted(l, reply)
<1>1. /\ DOMAIN m = Fields /\ m.pc = "done" /\ m.time = l.time
      /\ m.attempts = l.attempts /\ m.hop = l.hop /\ m.contacts = l.contacts
      /\ m.target = l.target /\ m.policy = l.policy /\ m.indicator = l.indicator
      /\ m.result.outcome = reply.entry /\ m.result.reputation = reply.reputation
      /\ m.result.status = "SUCCEEDED"
  BY DEF Accepted, Counted, Fields
<1> HIDE DEF m
<1>2. Counted(m)
  BY <1>1 DEF Counted
<1>3. reply.entry = "NOT_FOUND" => reply.reputation = "UNKNOWN"
  BY DEF Parses
<1>4. ResultOK(m, S)
  BY <1>1, <1>3 DEF ResultOK
<1>5. LookOK(m, S)
  BY <1>1, <1>2, <1>4 DEF LookOK
<1> QED BY <1>1, <1>5 DEF m

\* A reply is judged in time.
LEMMA JudgedFacts ==
  ASSUME NEW l, NEW reply, NEW S, Counted(l), Allowed(l), l.attempts # 0,
         l.contacts <= (l.attempts - 1) * Hops + l.hop + 1,
         reply.status = 200 /\ reply.echo /\ Remaining(l) =>
            [policy |-> l.policy, indicator |-> l.indicator, entry |-> reply.entry,
             reputation |-> reply.reputation] \in S
  PROVE  LET m == Judged(l, reply)
         IN  LookOK(m, S) /\ m.policy = l.policy /\ m.indicator = l.indicator /\ m.pc # "idle"
<1>1. ASSUME NEW category \in FAILURES, NEW class, Judged(l, reply) = Refused(l, category, class)
      PROVE  LET m == Judged(l, reply)
             IN  LookOK(m, S) /\ m.policy = l.policy /\ m.indicator = l.indicator /\ m.pc # "idle"
  BY <1>1, RefusedFacts
<1>2. CASE ~ Remaining(l)
  BY <1>1, <1>2, CategoryFacts DEF Judged
<1>3. CASE Remaining(l) /\ reply.status \in 300..399
  <2>1. Judged(l, reply) = Redirected(l, reply)
    BY <1>3 DEF Judged
  <2> QED BY <2>1, RedirectedFacts
<1>4. CASE Remaining(l) /\ reply.status \notin 300..399 /\ Complaint(reply) # "NONE"
  <2>1. Judged(l, reply) = Refused(l, Complaint(reply), ResponseCategory(reply.status))
    BY <1>4 DEF Judged
  <2>2. Complaint(reply) \in FAILURES
    BY <1>4, ComplaintFacts
  <2> QED BY <1>1, <2>1, <2>2
<1>5. CASE Remaining(l) /\ reply.status \notin 300..399 /\ Complaint(reply) = "NONE"
  <2>1. Judged(l, reply) = Accepted(l, reply)
    BY <1>5 DEF Judged
  <2>2. reply.status = 200 /\ Parses(reply) /\ reply.echo
    BY <1>5, ComplaintFacts DEF Parses
  <2> QED BY <1>5, <2>1, <2>2, AcceptedFacts
<1> QED BY <1>2, <1>3, <1>4, <1>5

\* One exchange more, of an attempt that has begun.
LEMMA ContactedFacts ==
  ASSUME NEW old, LookOK(old, said), old.pc = "exchange", Remaining(old), NEW delay \in Delays
  PROVE  LET l == [After(old, delay) EXCEPT !.contacts = @ + 1]
         IN  /\ Counted(l) /\ Allowed(l) /\ l.attempts # 0
             /\ l.contacts <= (l.attempts - 1) * Hops + l.hop + 1
             /\ l.policy = old.policy /\ l.indicator = old.indicator
<1> DEFINE k == After(old, delay)
           l == [k EXCEPT !.contacts = @ + 1]
<1>1. /\ Counted(old) /\ Allowed(old) /\ old.attempts # 0
      /\ old.contacts <= (old.attempts - 1) * Hops + old.hop
  BY DEF LookOK
<1>2. /\ Counted(k) /\ k.policy = old.policy /\ k.indicator = old.indicator
      /\ k.attempts = old.attempts /\ k.hop = old.hop /\ k.contacts = old.contacts
  BY <1>1, AfterFacts
<1> HIDE DEF k
<1>3. /\ DOMAIN l = Fields /\ l.time = k.time /\ l.attempts = k.attempts /\ l.hop = k.hop
      /\ l.contacts = k.contacts + 1 /\ l.target = k.target /\ l.policy = k.policy /\ l.indicator = k.indicator
  BY <1>2 DEF Counted, Fields
<1> HIDE DEF l
<1>4. /\ k.contacts + 1 \in Nat /\ k.contacts + 1 <= (k.attempts - 1) * Hops + k.hop + 1
      /\ k.contacts + 1 <= k.attempts * Hops
  <2>1. /\ k.attempts \in Nat /\ k.attempts # 0 /\ k.hop \in Nat /\ k.hop <= MAX_REDIRECT_HOPS /\ k.contacts \in Nat
        /\ k.contacts <= (k.attempts - 1) * Hops + k.hop /\ MAX_REDIRECT_HOPS \in Nat
    BY <1>1, <1>2, LimitsAssumption DEF Counted
  <2> DEFINE x == (k.attempts - 1) * Hops
             y == k.attempts * Hops
  <2>2. x \in Int /\ y = x + Hops
    BY <2>1, LongestFacts, ExchangeFacts
  <2> HIDE DEF x, y
  <2>3. k.contacts <= x + k.hop
    BY <2>1 DEF x
  <2>4. k.contacts + 1 \in Nat /\ k.contacts + 1 <= x + k.hop + 1 /\ k.contacts + 1 <= y
    BY <2>1, <2>2, <2>3 DEF Hops
  <2> QED BY <2>4 DEF x, y
<1>5. Counted(l)
  BY <1>2, <1>3, <1>4 DEF Counted
<1>6. Allowed(l) /\ l.attempts # 0 /\ l.contacts <= (l.attempts - 1) * Hops + l.hop + 1
  BY <1>1, <1>2, <1>3, <1>4 DEF Allowed
<1> QED BY <1>2, <1>3, <1>5, <1>6 DEF l, k

\* Bytes leave here, to a peer that was validated; what is replied in time is known.
LEMMA ExchangeGoes ==
  ASSUME NEW c \in Callers, LookOK(look[c], said), WireOK, Exchange(c)
  PROVE  (\E l : Goes(c, l)) /\ WireOK' /\ said \subseteq said'
<1> DEFINE old == look[c]
           sentBytes == [policy |-> old.policy, peer |-> old.peer, answers |-> old.answers, target |-> old.target]
<1>1. /\ old.pc = "exchange" /\ Counted(old) /\ Allowed(old)
      /\ old.answers \subseteq Permitted /\ Policy[old.policy].proxy = "none" /\ old.peer \in old.answers
  BY DEF Exchange, LookOK
<1>2. ASSUME NEW l, NEW category \in FAILURES, Counted(l), Allowed(l), l.policy = old.policy,
             l.indicator = old.indicator, Set(c, Refused(l, category, "NO_RESPONSE"))
      PROVE  \E m : Goes(c, m)
  BY <1>2, RefusedFacts DEF Goes
<1>3. CASE ~ Remaining(old)
  <2>1. Set(c, Refused(old, "TIMEOUT", "NO_RESPONSE")) /\ UNCHANGED <<wire, said>>
    BY <1>3 DEF Exchange
  <2> QED BY <1>1, <1>2, <2>1, CategoryFacts DEF WireOK
<1>4. CASE Remaining(old)
  <2>1. wire' = wire \cup {sentBytes}
    BY <1>4 DEF Exchange
  <2>2. PICK delay \in Delays :
            LET l == [After(old, delay) EXCEPT !.contacts = @ + 1]
            IN  \/ \E reply \in Replies :
                      /\ Set(c, Judged(l, reply))
                      /\ said' = IF reply.status # 200 \/ ~ reply.echo \/ ~ Remaining(l) THEN said
                                 ELSE said \cup {[policy |-> l.policy, indicator |-> l.indicator,
                                                  entry |-> reply.entry, reputation |-> reply.reputation]}
                \/ \E category \in {"TLS_FAILURE", "TIMEOUT", "CONNECTION_FAILURE"} :
                      Set(c, Refused(l, category, "NO_RESPONSE")) /\ UNCHANGED said
    BY <1>4 DEF Exchange
  <2> DEFINE l == [After(old, delay) EXCEPT !.contacts = @ + 1]
  <2>3. /\ Counted(l) /\ Allowed(l) /\ l.attempts # 0
        /\ l.contacts <= (l.attempts - 1) * Hops + l.hop + 1
        /\ l.policy = old.policy /\ l.indicator = old.indicator
    BY <1>1, <1>4, ContactedFacts
  <2>4. \/ \E reply \in Replies :
              /\ Set(c, Judged(l, reply))
              /\ said' = IF reply.status # 200 \/ ~ reply.echo \/ ~ Remaining(l) THEN said
                         ELSE said \cup {[policy |-> l.policy, indicator |-> l.indicator,
                                          entry |-> reply.entry, reputation |-> reply.reputation]}
        \/ \E category \in {"TLS_FAILURE", "TIMEOUT", "CONNECTION_FAILURE"} :
              Set(c, Refused(l, category, "NO_RESPONSE")) /\ UNCHANGED said
    BY <2>2
  <2>5. WireOK'
    <3>1. /\ sentBytes.policy = old.policy /\ sentBytes.peer = old.peer /\ sentBytes.answers = old.answers
          /\ sentBytes.target = old.target
      OBVIOUS
    <3>2. old.target = "approved"
      BY <1>1 DEF Counted
    <3> HIDE DEF sentBytes, old
    <3> QED BY <1>1, <2>1, <3>1, <3>2 DEF WireOK, Allowed
  <2> HIDE DEF l, old
  <2>6. CASE \E category \in {"TLS_FAILURE", "TIMEOUT", "CONNECTION_FAILURE"} :
                Set(c, Refused(l, category, "NO_RESPONSE")) /\ UNCHANGED said
    BY <1>2, <2>3, <2>5, <2>6, CategoryFacts
  <2>7. ASSUME NEW reply \in Replies, Set(c, Judged(l, reply)),
               said' = IF reply.status # 200 \/ ~ reply.echo \/ ~ Remaining(l) THEN said
                       ELSE said \cup {[policy |-> l.policy, indicator |-> l.indicator,
                                        entry |-> reply.entry, reputation |-> reply.reputation]}
        PROVE  (\E m : Goes(c, m)) /\ said \subseteq said'
    <3>1. said \subseteq said'
      BY <2>7
    <3>2. reply.status = 200 /\ reply.echo /\ Remaining(l) =>
             [policy |-> l.policy, indicator |-> l.indicator, entry |-> reply.entry,
              reputation |-> reply.reputation] \in said'
      BY <2>7
    <3>3. LET m == Judged(l, reply)
          IN  LookOK(m, said') /\ m.policy = l.policy /\ m.indicator = l.indicator /\ m.pc # "idle"
      BY <2>3, <3>2, JudgedFacts
    <3> QED BY <2>3, <2>7, <3>1, <3>3 DEF Goes, old
  <2> QED BY <2>4, <2>5, <2>6, <2>7
<1> QED BY <1>3, <1>4

\* What was said stays said.
LEMMA SaidStays ==
  ASSUME NEW l, NEW S, NEW T, S \subseteq T, LookOK(l, S)
  PROVE  LookOK(l, T)
<1>1. ResultOK(l, S) => ResultOK(l, T)
  BY DEF ResultOK
<1> HIDE DEF ResultOK
<1> QED BY <1>1 DEF LookOK

\* A step of one lookup keeps the invariant of all.
LEMMA LookupKeeps ==
  ASSUME GInv, NEW c \in Callers, LookupStep(c)
  PROVE  /\ GInv' /\ said \subseteq said'
         /\ look'[c].policy = look[c].policy /\ look'[c].indicator = look[c].indicator /\ look'[c].pc # "idle"
         /\ \A d \in Callers : d # c => look'[d] = look[d]
<1>1. LookOK(look[c], said) /\ WireOK
  BY DEF GInv
<1>2. (\E l : Goes(c, l)) /\ WireOK' /\ said \subseteq said'
  <2>1. CASE PrepareLookup(c)
    BY <1>1, <2>1, PrepareGoes DEF PrepareLookup, WireOK
  <2>2. CASE Attempt(c)
    BY <1>1, <2>2, AttemptGoes DEF Attempt, WireOK
  <2>3. CASE Resolve(c)
    BY <1>1, <2>3, ResolveGoes DEF Resolve, WireOK
  <2>4. CASE Connect(c)
    BY <1>1, <2>4, ConnectGoes DEF Connect, WireOK
  <2>5. CASE Exchange(c)
    BY <1>1, <2>5, ExchangeGoes
  <2> QED BY <2>1, <2>2, <2>3, <2>4, <2>5 DEF LookupStep
<1>3. PICK l : Goes(c, l)
  BY <1>2
<1>4. /\ look' = [look EXCEPT ![c] = l] /\ LookOK(l, said') /\ l.pc # "idle"
      /\ l.policy = look[c].policy /\ l.indicator = look[c].indicator
  BY <1>3 DEF Goes, Set
<1>5. look = [d \in Callers |-> look[d]]
  BY DEF GInv
<1>6. /\ look' = [d \in Callers |-> look'[d]] /\ look'[c] = l
      /\ \A d \in Callers : d # c => look'[d] = look[d]
  BY <1>4, <1>5
<1>7. \A d \in Callers : LookOK(look'[d], said')
  BY <1>2, <1>4, <1>6, SaidStays DEF GInv
<1>8. GInv'
  BY <1>2, <1>6, <1>7 DEF GInv
<1> QED BY <1>2, <1>4, <1>6, <1>8

\* A lookup of which nothing has happened yet.
LEMMA BlankFacts ==
  ASSUME NEW S
  PROVE  /\ LookOK(NoLookup, S)
         /\ \A p, i : LookOK([NoLookup EXCEPT !.pc = "prepare", !.policy = p, !.indicator = i], S)
<1>1. 0 <= MAX_ATTEMPTS /\ 0 <= MAX_REDIRECT_HOPS /\ 0 < Ends /\ 0 <= 0 * Hops
  BY LongestFacts, LimitsAssumption
<1>2. ASSUME NEW l, DOMAIN l = Fields, l.pc \in {"idle", "prepare"}, l.time = 0, l.attempts = 0, l.hop = 0,
             l.contacts = 0, l.target = "approved"
      PROVE  LookOK(l, S)
  BY <1>1, <1>2 DEF LookOK, Counted
<1>3. LookOK(NoLookup, S)
  <2>1. /\ DOMAIN NoLookup = Fields /\ NoLookup.pc = "idle" /\ NoLookup.time = 0 /\ NoLookup.attempts = 0
        /\ NoLookup.hop = 0 /\ NoLookup.contacts = 0 /\ NoLookup.target = "approved"
    BY DEF NoLookup, Fields
  <2> QED BY <1>2, <2>1
<1>4. ASSUME NEW p, NEW i PROVE LookOK([NoLookup EXCEPT !.pc = "prepare", !.policy = p, !.indicator = i], S)
  <2> DEFINE l == [NoLookup EXCEPT !.pc = "prepare", !.policy = p, !.indicator = i]
  <2>1. /\ DOMAIN l = Fields /\ l.pc = "prepare" /\ l.time = 0 /\ l.attempts = 0
        /\ l.hop = 0 /\ l.contacts = 0 /\ l.target = "approved"
    BY DEF NoLookup, Fields
  <2> HIDE DEF l
  <2>2. LookOK(l, S)
    BY <1>2, <2>1
  <2> QED BY <2>2 DEF l
<1> QED BY <1>3, <1>4

\* A lookup that begins, or is forgotten.
LEMMA SetKeeps ==
  ASSUME GInv, NEW c \in Callers, NEW l, UNCHANGED <<wire, said>>, Set(c, l),
         \/ l = NoLookup
         \/ \E p, i : l = [NoLookup EXCEPT !.pc = "prepare", !.policy = p, !.indicator = i]
  PROVE  GInv'
<1>1. LookOK(l, said')
  <2>1. CASE l = NoLookup
    BY <2>1, BlankFacts
  <2>2. ASSUME NEW p, NEW i, l = [NoLookup EXCEPT !.pc = "prepare", !.policy = p, !.indicator = i]
        PROVE  LookOK(l, said')
    <3>1. LookOK([NoLookup EXCEPT !.pc = "prepare", !.policy = p, !.indicator = i], said')
      BY BlankFacts
    <3> QED BY ONLY <2>2, <3>1
  <2> QED BY <2>1, <2>2
<1>2. \A d \in Callers : look'[d] = IF d = c THEN l ELSE look[d]
  BY DEF Set, GInv
<1>3. look' = [d \in Callers |-> look'[d]]
  BY DEF Set, GInv
<1>4. \A d \in Callers : LookOK(look'[d], said')
  BY <1>1, <1>2 DEF GInv
<1>5. WireOK'
  BY DEF GInv, WireOK
<1> QED BY <1>3, <1>4, <1>5 DEF GInv

\* All lookups are forgotten.
LEMMA NoneKeeps ==
  ASSUME WireOK, UNCHANGED wire, look' = [c \in Callers |-> NoLookup]
  PROVE  GInv'
<1>1. LookOK(NoLookup, said')
  BY BlankFacts
<1>2. WireOK' /\ look' = [c \in Callers |-> look'[c]] /\ \A c \in Callers : look'[c] = NoLookup
  BY DEF WireOK
<1> QED BY <1>1, <1>2 DEF GInv

\* What the invariant says of lookups is what is promised.
LEMMA GuardFacts ==
  ASSUME GInv PROVE EgressGuarded
<1>1. ASSUME NEW c \in Callers
      PROVE  look[c].contacts <= MAX_ATTEMPTS * (MAX_REDIRECT_HOPS + 1) /\ look[c].time < OVERALL_DEADLINE + Max(Delays)
  <2>1. /\ look[c].contacts \in Nat /\ look[c].attempts \in Nat /\ look[c].attempts <= MAX_ATTEMPTS
        /\ look[c].contacts <= look[c].attempts * Hops /\ look[c].time < Ends
    BY DEF GInv, LookOK, Counted
  <2>2. /\ look[c].attempts * Hops \in Nat /\ MAX_ATTEMPTS * Hops \in Nat
        /\ look[c].attempts * Hops <= MAX_ATTEMPTS * Hops
    BY <2>1, LongestFacts, ExchangeFacts
  <2> DEFINE x == look[c].attempts * Hops
             y == MAX_ATTEMPTS * Hops
  <2>3. look[c].contacts <= y
    <3>1. x \in Nat /\ y \in Nat /\ x <= y /\ look[c].contacts <= x
      BY <2>1, <2>2
    <3> HIDE DEF x, y
    <3> QED BY <2>1, <3>1
  <2> QED BY <2>1, <2>3 DEF Hops, Ends
<1> QED BY <1>1 DEF GInv, WireOK, EgressGuarded

-----------------------------------------------------------------------------
(* Lookups beside everything else.                                         *)

\* The lookups of requests are as guarded as single ones, whatever else happens.
LEMMA GuardGoesOn ==
  ASSUME GInv, [EnrichmentNext]_allvars
  PROVE  GInv' /\ said \subseteq said'
<1>1. Callers = Requests
  BY EnrichmentAssumption
<1>2. CASE UNCHANGED gvars
  BY <1>2 DEF gvars, GInv, WireOK, LookOK, ResultOK
<1>3. ASSUME NEW r \in Requests, EnrichmentStep(r) \/ EnrichmentFails(r)
      PROVE  GInv' /\ said \subseteq said'
  <2>1. CASE BeginEnrichment(r) \/ ReadEnvelope(r) \/ SelectPolicy(r) \/ ListEnrichments(r)
    BY <1>2, <2>1 DEF BeginEnrichment, ReadEnvelope, SelectPolicy, ListEnrichments
  <2>2. CASE Lookup(r)
    BY <1>1, <2>2, LookupKeeps DEF Lookup
  <2>3. CASE RecordLookup(r) \/ EnrichmentFails(r)
    <3>1. Set(r, NoLookup) /\ UNCHANGED <<wire, said>>
      BY <2>3 DEF RecordLookup, EnrichmentFails
    <3> QED BY <1>1, <3>1, SetKeeps
  <2>4. CASE RequestLookup(r)
    <3>1. CASE enrich[r].todo = {}
      BY <1>2, <2>4, <3>1 DEF RequestLookup, gvars
    <3>2. CASE enrich[r].todo # {}
      <4>1. PICK i \in enrich[r].todo : StartLookup(r, enrich[r].policy, i) /\ UNCHANGED <<wire, said>>
        BY <2>4, <3>2 DEF RequestLookup
      <4> DEFINE l == [NoLookup EXCEPT !.pc = "prepare", !.policy = enrich[r].policy, !.indicator = i]
      <4>2. Set(r, l)
        BY <4>1 DEF StartLookup
      <4>3. \E p, j : l = [NoLookup EXCEPT !.pc = "prepare", !.policy = p, !.indicator = j]
        OBVIOUS
      <4> HIDE DEF l
      <4> QED BY <1>1, <4>1, <4>2, <4>3, SetKeeps
    <3> QED BY <3>1, <3>2
  <2> QED BY <1>3, <2>1, <2>2, <2>3, <2>4 DEF EnrichmentStep
<1>4. ASSUME NEW version, RestartAll(version) PROVE GInv' /\ said \subseteq said'
  BY <1>4, NoneKeeps DEF RestartAll, GInv
<1>5. ASSUME NEW p, Reconfigure(p) PROVE GInv' /\ said \subseteq said'
  BY <1>2, <1>5 DEF Reconfigure
<1> QED BY <1>2, <1>3, <1>4, <1>5 DEF EnrichmentNext, allvars

-----------------------------------------------------------------------------
(* Enrichments and the rest of the application.                            *)

EPcs == {"envelope", "policies", "indicators", "looking"}
Trail == {"ENRICHMENT_REQUESTED", "ENRICHMENT_ACCEPTED", "EGRESS_DENIED", "CREDENTIAL_REFERENCE_FAILURE"}

OwnRows(r) == {row \in rows : row.by = r}
CountOf(r, event) == Cardinality({row \in OwnRows(r) : event \in LookupEvents(row.result)})
Ahead(r) == {enrich[r].policies[i] : i \in DOMAIN enrich[r].policies}

\* The place of an enrichment: what is ahead of it has not been recorded yet.
ProgressInv(r) ==
    LET pc == thread[r].pc
        t == enrich[r]
    IN  /\ DOMAIN t = {"policies", "policy", "todo"}
        /\ asks[r].kind # "enrich" => pc \notin EPcs /\ OwnRows(r) = {}
        /\ pc \in {"start", "envelope"} => OwnRows(r) = {}
        /\ pc \in EPcs =>
              /\ t.policies \in Seq(DOMAIN Policy)
              /\ \A i, j \in DOMAIN t.policies : t.policies[i] = t.policies[j] => i = j
              /\ \A row \in OwnRows(r) : row.policy \notin Ahead(r)
        /\ pc \in {"indicators", "looking"} =>
              /\ t.policy \notin Ahead(r)
              /\ \A row \in OwnRows(r) : row.policy = t.policy => row.indicator \notin t.todo
        /\ pc = "looking" =>
              /\ look[r].policy = t.policy /\ look[r].indicator \notin t.todo
              /\ \A row \in OwnRows(r) : row.policy = t.policy => row.indicator # look[r].indicator

\* The log has the requests and the outcomes of an enrichment.
TrailInv(r) ==
    /\ thread[r].pc # "done" =>
          audit[r]["ENRICHMENT_REQUESTED"] = Cardinality(OwnRows(r)) + IF thread[r].pc = "looking" THEN 1 ELSE 0
    /\ audit[r]["ENRICHMENT_REQUESTED"] \in {Cardinality(OwnRows(r)), Cardinality(OwnRows(r)) + 1}
    /\ \A event \in Trail \ {"ENRICHMENT_REQUESTED"} : audit[r][event] = CountOf(r, event)

\* Records say what was said, one for each lookup of a request; so does what was shown.
RowsInv ==
    /\ IsFiniteSet(rows)
    /\ \A row \in rows : row.by \in Requests /\ ResultOK(row, said)
    /\ \A row, other \in rows :
          row.by = other.by /\ row.policy = other.policy /\ row.indicator = other.indicator => row = other
    /\ \A v \in shown : v.reputation = "NOT_EVALUATED"
          \/ \E s \in said : s.policy = v.policy /\ s.indicator = v.indicator /\ s.reputation = v.reputation

EInv ==
    /\ HInv /\ GInv /\ RowsInv
    /\ enrich = [r \in Requests |-> enrich[r]]
    /\ \A r \in Requests : ProgressInv(r) /\ TrailInv(r)

\* An enrichment has no key, and no policy twice.
LEMMA EnrichAskFacts ==
  ASSUME Typed, NEW r \in Requests, asks[r].kind = "enrich"
  PROVE  /\ asks[r].key = None /\ asks[r].policies \in Seq(DOMAIN Policy)
         /\ \A i, j \in DOMAIN asks[r].policies : asks[r].policies[i] = asks[r].policies[j] => i = j
<1> PICK s \in Scenarios : asks = s.asks
  BY DEF Typed
<1> QED BY EnrichmentAssumption

\* A request that goes to a place that is none of an enrichment's.
LEMMA ApartMove ==
  ASSUME Typed, NEW r \in Requests,
         \/ \E pc : pc \notin EPcs /\ Step(r, pc)
         \/ \E answer : Answer(r, answer)
         \/ \E d : \/ thread' = [thread EXCEPT ![r].pc = "locked", ![r].seen = d]
                   \/ thread' = [thread EXCEPT ![r].pc = "recording", ![r].seen = d]
  PROVE  thread'[r].pc \notin EPcs /\ \A s \in Requests : s # r => thread'[s] = thread[s]
<1>1. ASSUME NEW pc, pc \notin EPcs, Step(r, pc)
      PROVE  thread'[r].pc \notin EPcs /\ \A s \in Requests : s # r => thread'[s] = thread[s]
  BY <1>1, StepMove DEF Moved
<1>2. ASSUME NEW answer, Answer(r, answer)
      PROVE  thread'[r].pc \notin EPcs /\ \A s \in Requests : s # r => thread'[s] = thread[s]
  BY <1>2, AnswerMove DEF Moved, EPcs
<1>3. ASSUME NEW d, thread' = [thread EXCEPT ![r].pc = "locked", ![r].seen = d]
      PROVE  thread'[r].pc \notin EPcs /\ \A s \in Requests : s # r => thread'[s] = thread[s]
  <2>1. /\ thread'[r] = [pc |-> "locked", answer |-> thread[r].answer, seen |-> d]
        /\ \A s \in Requests : s # r => thread'[s] = thread[s]
        /\ DOMAIN thread' = Requests /\ thread' = [s \in Requests |-> thread'[s]]
    BY <1>3, SeenFacts
  <2>2. thread'[r].pc = "locked"
    BY ONLY <2>1
  <2> QED BY <2>1, <2>2 DEF EPcs
<1>4. ASSUME NEW d, thread' = [thread EXCEPT ![r].pc = "recording", ![r].seen = d]
      PROVE  thread'[r].pc \notin EPcs /\ \A s \in Requests : s # r => thread'[s] = thread[s]
  <2>1. /\ thread'[r] = [pc |-> "recording", answer |-> thread[r].answer, seen |-> d]
        /\ \A s \in Requests : s # r => thread'[s] = thread[s]
        /\ DOMAIN thread' = Requests /\ thread' = [s \in Requests |-> thread'[s]]
    BY <1>4, SeenFacts
  <2>2. thread'[r].pc = "recording"
    BY ONLY <2>1
  <2> QED BY <2>1, <2>2 DEF EPcs
<1> QED BY <1>1, <1>2, <1>3, <1>4

\* Events of other operations leave an enrichment's trail alone.
TrailKept == \A s \in Requests, e \in Trail : audit'[s][e] = audit[s][e]

LEMMA TrailKeeps ==
  ASSUME Typed, NEW r \in Requests,
         UNCHANGED audit \/ \E E : audit' = Appended(r, E) /\ E \cap Trail = {}
  PROVE  TrailKept
<1>1. CASE UNCHANGED audit
  BY <1>1 DEF TrailKept
<1>2. ASSUME NEW E, audit' = Appended(r, E), E \cap Trail = {} PROVE TrailKept
  <2>1. /\ \A e \in Events : audit'[r][e] = IF e \in E THEN audit[r][e] + 1 ELSE audit[r][e]
        /\ \A s \in Requests : s # r => audit'[s] = audit[s]
    BY <1>2, AuditFacts
  <2>2. Trail \subseteq Events /\ \A e \in Trail : e \notin E
    BY <1>2 DEF Trail, Events
  <2> QED BY <2>1, <2>2 DEF TrailKept
<1> QED BY <1>1, <1>2

\* An enrichment takes no step of another operation, and no step of another operation enters one.
LEMMA RequestsApart ==
  ASSUME HInv, NEW r \in Requests, RequestStep(r)
  PROVE  /\ asks[r].kind # "enrich" /\ UNCHANGED asks
         /\ thread'[r].pc \notin EPcs /\ \A s \in Requests : s # r => thread'[s] = thread[s]
         /\ TrailKept
<1>1. Typed /\ PlaceInv(r) /\ (asks[r].key # None => asks[r].kind # "enrich")
  BY EnrichAskFacts DEF HInv, ReqInv
<1>2. asks[r].kind # "enrich"
  <2>1. asks[r].key # None \/ asks[r].kind = "download"
    BY <1>1 DEF RequestStep, KnowledgeStep, Claim, StaleClaim, TransactionFails, AuditFails, Prevalidate, RejectNotEligible,
       LockDeployment, RejectPrecondition, RejectWithdrawn, CheckReference, Activate, AnswerReplayAgain, AnswerAgain,
       Conflict, BeginRecording, RefuseRemoved, RecordReplay, FindItems, Extract, EnvelopeDiffers, Correct, ReadItem, ReadContent,
       Send, ReportUnreadable, PlaceInv
  <2> QED BY <1>1, <2>1
<1>3. UNCHANGED asks
  BY DEF RequestStep, KnowledgeStep, Claim, StaleClaim, TransactionFails, AuditFails, Prevalidate, RejectNotEligible, Rejected,
     LockDeployment, RejectPrecondition, RejectWithdrawn, CheckReference, Activate, AnswerReplayAgain, AnswerAgain,
     Conflict, BeginRecording, RefuseRemoved, RecordReplay, FindItems, Extract, EnvelopeDiffers, Correct, ReadItem, ReadContent,
     Send, ReportUnreadable, Own
<1>4. \/ \E pc : pc \notin EPcs /\ Step(r, pc)
      \/ \E answer : Answer(r, answer)
      \/ \E d : \/ thread' = [thread EXCEPT ![r].pc = "locked", ![r].seen = d]
                \/ thread' = [thread EXCEPT ![r].pc = "recording", ![r].seen = d]
  <2>1. \A pc \in {"claimed", "validated", "refusing", "checked", "recording", "extracting", "reading", "sending",
                   "failing", "locked"} : pc \notin EPcs
    BY DEF EPcs
  <2>2. CASE KnowledgeStep(r)
    BY <2>1, <2>2 DEF KnowledgeStep, Claim, StaleClaim, TransactionFails, AuditFails, Prevalidate, RejectNotEligible, Rejected,
       LockDeployment, RejectPrecondition, RejectWithdrawn, CheckReference, Activate
  <2>3. CASE AnswerReplayAgain(r)
    BY <2>3 DEF AnswerReplayAgain, AnswerAgain
  <2>4. CASE Conflict(r) \/ BeginRecording(r) \/ RefuseRemoved(r) \/ RecordReplay(r)
    BY <2>1, <2>4 DEF Conflict, BeginRecording, RefuseRemoved, RecordReplay, Refusal
  <2>5. CASE FindItems(r) \/ Extract(r) \/ EnvelopeDiffers(r) \/ Correct(r)
    BY <2>1, <2>5 DEF FindItems, Extract, EnvelopeDiffers, Correct, Refusal
  <2>6. CASE ReadItem(r) \/ ReadContent(r) \/ Send(r) \/ ReportUnreadable(r)
    BY <2>1, <2>6 DEF ReadItem, ReadContent, Send, ReportUnreadable
  <2> QED BY <2>2, <2>3, <2>4, <2>5, <2>6 DEF RequestStep
<1>5. UNCHANGED audit \/ \E E : audit' = Appended(r, E) /\ E \cap Trail = {}
  <2>1. \A e \in {"KNOWLEDGE_ACTIVATION_REJECTED", "KNOWLEDGE_ACTIVATED", "REPLAY_REQUESTED", "INTEGRITY_FAILURE",
                  "EVIDENCE_ACCESSED", "EVALUATION_STARTED", "USER_CORRECTION"} : e \notin Trail
    BY DEF Trail
  <2>2. CASE KnowledgeStep(r)
    BY <2>1, <2>2 DEF KnowledgeStep, Claim, StaleClaim, TransactionFails, AuditFails, Prevalidate, RejectNotEligible, Rejected,
       LockDeployment, RejectPrecondition, RejectWithdrawn, CheckReference, Activate
  <2>3. CASE AnswerReplayAgain(r)
    BY <2>3 DEF AnswerReplayAgain, AnswerAgain
  <2>4. CASE Conflict(r) \/ BeginRecording(r) \/ RefuseRemoved(r) \/ RecordReplay(r)
    BY <2>1, <2>4 DEF Conflict, BeginRecording, RefuseRemoved, RecordReplay
  <2>5. CASE FindItems(r) \/ Extract(r) \/ EnvelopeDiffers(r) \/ Correct(r)
    BY <2>1, <2>5 DEF FindItems, Extract, EnvelopeDiffers, Correct
  <2>6. CASE ReadItem(r) \/ ReadContent(r) \/ Send(r) \/ ReportUnreadable(r)
    BY <2>1, <2>6 DEF ReadItem, ReadContent, Send, ReportUnreadable
  <2> QED BY <2>2, <2>3, <2>4, <2>5, <2>6 DEF RequestStep
<1> QED BY <1>1, <1>2, <1>3, <1>4, <1>5, ApartMove, TrailKeeps

\* An enrichment stays where it is, and other requests enter none.
Apart(s) ==
    \/ thread'[s] = thread[s]
    \/ asks[s].kind # "enrich" /\ thread'[s].pc \notin EPcs /\ thread[s].pc # "done"

\* Whatever the rest of the application does, enrichments stay where they are.
LEMMA OperateApart ==
  ASSUME HInv, Operate
  PROVE  /\ UNCHANGED asks /\ TrailKept
         /\ \A s \in Requests : Apart(s)
<1>1. Typed
  BY DEF HInv
<1>2. ASSUME NEW r \in Requests, RequestStep(r)
      PROVE  /\ UNCHANGED asks /\ TrailKept
             /\ \A s \in Requests : Apart(s)
  <2>1. thread[r].pc # "done"
    BY <1>2 DEF RequestStep, KnowledgeStep, Claim, StaleClaim, TransactionFails, AuditFails, Prevalidate, RejectNotEligible,
       LockDeployment, RejectPrecondition, RejectWithdrawn, CheckReference, Activate, AnswerReplayAgain, AnswerAgain,
       Conflict, BeginRecording, RefuseRemoved, RecordReplay, FindItems, Extract, EnvelopeDiffers, Correct, ReadItem, ReadContent,
       Send, ReportUnreadable
  <2> QED BY <1>2, <2>1, RequestsApart DEF Apart
<1>3. ASSUME UNCHANGED <<asks, thread>>,
             UNCHANGED audit \/ \E r \in Requests : \E E : audit' = Appended(r, E) /\ E \cap Trail = {}
      PROVE  /\ UNCHANGED asks /\ TrailKept
             /\ \A s \in Requests : Apart(s)
  <2>1. ASSUME UNCHANGED audit PROVE TrailKept
    BY <2>1 DEF TrailKept
  <2>2. ASSUME NEW r \in Requests, NEW E, audit' = Appended(r, E), E \cap Trail = {} PROVE TrailKept
    BY <1>1, <2>2, TrailKeeps
  <2> QED BY <1>3, <2>1, <2>2 DEF Apart
<1>4. ASSUME NEW w \in Runners, Finish(w)
      PROVE  /\ UNCHANGED <<asks, thread>>
             /\ UNCHANGED audit \/ \E r \in Requests : \E E : audit' = Appended(r, E) /\ E \cap Trail = {}
  <2>1. runner[w].replay \in Requests
    BY <1>4 DEF Finish, HInv, RunInv
  <2>2. OutcomeEvents(Outcome(runner[w])) \cap Trail = {}
    BY DEF OutcomeEvents, Trail
  <2> HIDE DEF OutcomeEvents, Outcome
  <2> QED BY <1>4, <2>1, <2>2 DEF Finish, Quiet
<1>5. ASSUME NEW w \in Runners, RunnerStep(w) \/ RunFails(w)
      PROVE  /\ UNCHANGED <<asks, thread>>
             /\ UNCHANGED audit \/ \E r \in Requests : \E E : audit' = Appended(r, E) /\ E \cap Trail = {}
  BY <1>4, <1>5 DEF RunnerStep, RunFails, ReadRows, CheckBytes, CheckBundle, Quiet
<1>6. ASSUME NEW d \in Digests, Withdraw(d) \/ InstallBundle(d) PROVE UNCHANGED <<asks, thread, audit>>
  BY <1>6 DEF Withdraw, InstallBundle
<1>7. ASSUME NEW d, NEW c, Spoil(d, c) PROVE UNCHANGED <<asks, thread, audit>>
  BY <1>7 DEF Spoil, DamageDisk
<1>8. ASSUME NEW e, NEW k, Damage(e, k) PROVE UNCHANGED <<asks, thread, audit>>
  BY <1>8 DEF Damage, kvars
<1>9. ASSUME NEW r, NothingToRun(r) PROVE UNCHANGED <<asks, thread, audit>>
  BY <1>9 DEF NothingToRun, Quiet
<1> QED BY <1>2, <1>3, <1>5, <1>6, <1>7, <1>8, <1>9 DEF Operate

\* A step of an enrichment or a reader is quiet to everything else.
LEMMA EnrichQuiet ==
  ASSUME HInv, NEW r \in Requests, thread[r].pc \in EPcs \cup {"start"}, Aside,
         UNCHANGED audit \/ \E E : audit' = Appended(r, E) /\ E \subseteq Trail \cup {"PROVIDER_POLICY_SELECTED"},
         (\E pc \in EPcs : Step(r, pc)) \/ (\E answer : Answer(r, answer))
  PROVE  HInv'
<1>1. Typed /\ LockInv
  BY DEF HInv
<1>2. Moved(r) /\ PlaceInv(r)' /\ HoldInv(r)'
  <2>1. ASSUME NEW answer, Answer(r, answer) PROVE Moved(r) /\ PlaceInv(r)' /\ HoldInv(r)'
    BY <1>1, <2>1, AnswerMove
  <2>2. ASSUME NEW pc \in EPcs, Step(r, pc) PROVE Moved(r) /\ PlaceInv(r)' /\ HoldInv(r)'
    <3>1. Moved(r) /\ thread'[r].pc \in EPcs
      BY <1>1, <2>2, StepMove
    <3> QED BY <3>1 DEF EPcs, PlaceInv, HoldInv
  <2> QED BY <2>1, <2>2
<1>3. AuditStep(r)
  <2>1. ASSUME NEW E, E \subseteq Trail \cup {"PROVIDER_POLICY_SELECTED"} PROVE Aloof(r, E)
    BY <2>1 DEF Trail, Aloof
  <2> QED BY <2>1 DEF AuditStep
<1>4. UNCHANGED <<asks, disk, cache, idem, tables, lock, damage, engine, replay, tasks, runner, created, sent, spoiled>>
  BY DEF Aside, store, hvars
<1>5. LockStep(r) /\ thread[r].pc # "done"
  BY <1>1, <1>4, LockMove DEF EPcs
<1>6. CacheStep /\ KeyStep(r) /\ tasks' \subseteq Requests
  BY <1>1, <1>4 DEF CacheStep, KeyStep, Typed
<1> QED BY <1>2, <1>3, <1>4, <1>5, <1>6, QuietMove

\* So is one that does not even move.
LEMMA AsideQuiet ==
  ASSUME HInv, Aside, UNCHANGED <<thread, audit>>
  PROVE  HInv'
<1>1. /\ tasks \subseteq Requests /\ reference \in [Digests -> {"NONE", "ELIGIBLE", "WITHDRAWN"}]
      /\ disk = [d \in Digests |-> disk[d]] /\ damage \in [Evaluations -> SUBSET Damages]
      /\ \A d \in Digests : disk[d] # d => d \in spoiled
  BY DEF HInv, Typed, FilesInv
<1> QED BY <1>1, WorldMove DEF Aside, store, tables, hvars

\* The invariant of everything else is kept.
LEMMA RestGoesOn ==
  ASSUME HInv, [EnrichmentNext]_allvars
  PROVE  HInv'
<1>1. CASE Operate \/ UNCHANGED vars
  BY <1>1, HistoryGoesOn DEF Next
<1>2. ASSUME NEW version \in {"pinned", "other"}, RestartAll(version) PROVE HInv'
  BY <1>2, RestartStep DEF RestartAll
<1>3. ASSUME NEW r \in Requests, EnrichmentStep(r) \/ EnrichmentFails(r) PROVE HInv'
  <2>1. CASE Lookup(r)
    BY <2>1, AsideQuiet DEF Lookup
  <2>2. CASE BeginEnrichment(r)
    BY <2>2, EnrichQuiet DEF BeginEnrichment, EPcs
  <2>3. CASE ReadEnvelope(r)
    BY <2>3, EnrichQuiet DEF ReadEnvelope, EPcs
  <2>4. CASE SelectPolicy(r)
    <3>1. CASE UNCHANGED <<thread, audit>>
      BY <2>4, <3>1, AsideQuiet DEF SelectPolicy
    <3>2. CASE ~ UNCHANGED <<thread, audit>>
      <4>1. /\ Aside /\ thread[r].pc \in EPcs
            /\ \/ UNCHANGED audit /\ \E answer : Answer(r, answer)
               \/ Step(r, "indicators") /\ audit' = Appended(r, {"PROVIDER_POLICY_SELECTED"})
        BY <2>4, <3>2 DEF SelectPolicy, EPcs
      <4> QED BY <4>1, EnrichQuiet DEF EPcs
    <3> QED BY <3>1, <3>2
  <2>5. CASE RequestLookup(r)
    <3>1. /\ Aside /\ thread[r].pc \in EPcs
          /\ \/ UNCHANGED audit /\ Step(r, "policies")
             \/ Step(r, "looking") /\ audit' = Appended(r, {"ENRICHMENT_REQUESTED"})
      BY <2>5 DEF RequestLookup, EPcs
    <3> QED BY <3>1, EnrichQuiet DEF EPcs, Trail
  <2>6. CASE RecordLookup(r)
    <3>1. LookupEvents(look[r].result) \subseteq Trail
      BY DEF LookupEvents, Trail
    <3>2. /\ Aside /\ thread[r].pc \in EPcs /\ Step(r, "indicators")
          /\ audit' = Appended(r, LookupEvents(look[r].result))
      BY <2>6 DEF RecordLookup, EPcs
    <3> QED BY <3>1, <3>2, EnrichQuiet DEF EPcs
  <2>7. CASE ListEnrichments(r) \/ EnrichmentFails(r)
    BY <2>7, EnrichQuiet DEF ListEnrichments, EnrichmentFails, EPcs
  <2> QED BY <1>3, <2>1, <2>2, <2>3, <2>4, <2>5, <2>6, <2>7 DEF EnrichmentStep
<1>4. ASSUME NEW p, Reconfigure(p) PROVE HInv'
  BY <1>4, AsideQuiet DEF Reconfigure
<1> QED BY <1>1, <1>2, <1>3, <1>4 DEF EnrichmentNext, allvars

-----------------------------------------------------------------------------
(* Records and their trail.                                                *)

\* What an enrichment's facts speak of has not changed.
Kept(s) ==
    /\ thread'[s].pc = thread[s].pc /\ enrich'[s] = enrich[s]
    /\ look'[s].policy = look[s].policy /\ look'[s].indicator = look[s].indicator
    /\ OwnRows(s)' = OwnRows(s)
    /\ \A e \in Trail : audit'[s][e] = audit[s][e]

LEMMA KeptFacts ==
  ASSUME NEW s \in Requests, ProgressInv(s), TrailInv(s), UNCHANGED asks, Kept(s)
  PROVE  ProgressInv(s)' /\ TrailInv(s)'
<1>1. Ahead(s)' = Ahead(s)
  BY DEF Ahead, Kept
<1>2. ProgressInv(s)'
  BY <1>1 DEF ProgressInv, Kept
<1>3. \A e \in Trail : CountOf(s, e)' = CountOf(s, e)
  BY DEF CountOf, Kept
<1>4. "ENRICHMENT_REQUESTED" \in Trail
  BY DEF Trail
<1>5. TrailInv(s)'
  BY <1>3, <1>4 DEF TrailInv, Kept
<1> QED BY <1>2, <1>5

\* An enrichment has ended; what it has recorded stays.
LEMMA DoneFacts ==
  ASSUME NEW s \in Requests, ProgressInv(s), TrailInv(s), UNCHANGED asks, thread'[s].pc = "done",
         DOMAIN enrich'[s] = {"policies", "policy", "todo"}, OwnRows(s)' = OwnRows(s),
         \A e \in Trail : audit'[s][e] = audit[s][e]
  PROVE  ProgressInv(s)' /\ TrailInv(s)'
<1>1. ProgressInv(s)'
  BY DEF ProgressInv, EPcs
<1>2. \A e \in Trail : CountOf(s, e)' = CountOf(s, e)
  BY DEF CountOf
<1>3. "ENRICHMENT_REQUESTED" \in Trail
  BY DEF Trail
<1>4. TrailInv(s)'
  BY <1>2, <1>3 DEF TrailInv
<1> QED BY <1>1, <1>4

\* What a step of one enrichment leaves of the others.
LEMMA OthersApart ==
  ASSUME EInv, NEW r \in Requests, UNCHANGED asks,
         UNCHANGED thread \/ (\E pc : Step(r, pc)) \/ (\E answer : Answer(r, answer)),
         UNCHANGED enrich \/ \E t : enrich' = [enrich EXCEPT ![r] = t],
         UNCHANGED look \/ \E l : Set(r, l),
         UNCHANGED rows \/ \E row : row.by = r /\ rows' = rows \cup {row},
         UNCHANGED audit \/ \E E : audit' = Appended(r, E)
  PROVE  \A s \in Requests : s # r => ProgressInv(s)' /\ TrailInv(s)'
<1>1. Typed /\ Callers = Requests /\ look = [c \in Callers |-> look[c]] /\ enrich = [q \in Requests |-> enrich[q]]
  BY EnrichmentAssumption DEF EInv, HInv, GInv
<1>2. ASSUME NEW s \in Requests, s # r PROVE Kept(s)
  <2>1. thread'[s] = thread[s]
    BY <1>1, <1>2, StepMove, AnswerMove DEF Moved
  <2>2. enrich'[s] = enrich[s] /\ look'[s] = look[s]
    BY <1>1, <1>2 DEF Set
  <2>3. OwnRows(s)' = OwnRows(s)
    BY <1>2 DEF OwnRows
  <2>4. audit'[s] = audit[s]
    BY <1>1, <1>2, AuditFacts
  <2> QED BY <2>1, <2>2, <2>3, <2>4 DEF Kept
<1> QED BY <1>2, KeptFacts DEF EInv

\* What was recorded and shown stays true.
LEMMA RowsKeep ==
  ASSUME RowsInv, said \subseteq said', UNCHANGED <<rows, shown>>
  PROVE  RowsInv'
  BY DEF RowsInv, ResultOK

\* What is ahead after the next policy.
LEMMA TailFacts ==
  ASSUME NEW S, NEW q \in Seq(S), q # <<>>, \A i, j \in DOMAIN q : q[i] = q[j] => i = j
  PROVE  /\ Tail(q) \in Seq(S) /\ \A i, j \in DOMAIN Tail(q) : Tail(q)[i] = Tail(q)[j] => i = j
         /\ Head(q) \in {q[i] : i \in DOMAIN q} /\ Head(q) \notin {Tail(q)[i] : i \in DOMAIN Tail(q)}
         /\ {Tail(q)[i] : i \in DOMAIN Tail(q)} \subseteq {q[i] : i \in DOMAIN q}
<1>1. /\ Tail(q) \in Seq(S) /\ Len(Tail(q)) = Len(q) - 1 /\ Head(q) = q[1] /\ Len(q) \in Nat /\ Len(q) # 0
      /\ \A i \in 1..Len(Tail(q)) : Tail(q)[i] = q[i + 1]
  BY HeadTailProperties, EmptySeq
<1>2. DOMAIN q = 1..Len(q) /\ DOMAIN Tail(q) = 1..Len(Tail(q))
  BY <1>1
<1>3. \A i \in DOMAIN Tail(q) : Tail(q)[i] = q[i + 1] /\ i + 1 \in DOMAIN q /\ i + 1 # 1
  BY <1>1, <1>2
<1>4. 1 \in DOMAIN q
  BY <1>1, <1>2
<1>5. \A i, j \in DOMAIN Tail(q) : i + 1 = j + 1 => i = j
  BY <1>2
<1> QED BY <1>1, <1>3, <1>4, <1>5

\* The rest of the application records nothing, and a crash ends what was begun.
LEMMA OperateRecords ==
  ASSUME EInv, Operate, UNCHANGED <<gvars, evars>>
  PROVE  RowsInv' /\ \A r \in Requests : ProgressInv(r)' /\ TrailInv(r)'
<1>1. UNCHANGED <<look, said, enrich, rows, shown>>
  BY DEF gvars, evars
<1>2. UNCHANGED asks /\ TrailKept /\ \A s \in Requests : Apart(s)
  BY OperateApart DEF EInv
<1>3. ASSUME NEW r \in Requests PROVE ProgressInv(r)' /\ TrailInv(r)'
  <2>1. ProgressInv(r) /\ TrailInv(r) /\ OwnRows(r)' = OwnRows(r) /\ \A e \in Trail : audit'[r][e] = audit[r][e]
    BY <1>1, <1>2 DEF EInv, OwnRows, TrailKept
  <2>2. CASE thread'[r] = thread[r]
    BY <1>1, <1>2, <2>1, <2>2, KeptFacts DEF Kept
  <2>3. CASE asks[r].kind # "enrich" /\ thread'[r].pc \notin EPcs /\ thread[r].pc # "done"
    <3>1. ProgressInv(r)'
      BY <1>1, <1>2, <2>1, <2>3 DEF ProgressInv, EPcs
    <3>2. thread[r].pc # "looking" /\ thread'[r].pc # "looking" /\ "ENRICHMENT_REQUESTED" \in Trail
      BY <2>1, <2>3 DEF ProgressInv, EPcs, Trail
    <3>3. \A e \in Trail : CountOf(r, e)' = CountOf(r, e)
      BY <2>1 DEF CountOf
    <3>4. OwnRows(r) = {} /\ Cardinality(OwnRows(r)) = 0
      BY <2>1, <2>3, FS_EmptySet DEF ProgressInv
    <3>5. TrailInv(r)'
      BY <2>1, <2>3, <3>2, <3>3, <3>4 DEF TrailInv
    <3> QED BY <3>1, <3>5
  <2> QED BY <1>2, <2>2, <2>3 DEF Apart
<1> QED BY <1>1, <1>3, RowsKeep DEF EInv

LEMMA RestartRecords ==
  ASSUME EInv, NEW version, RestartAll(version)
  PROVE  RowsInv' /\ \A r \in Requests : ProgressInv(r)' /\ TrailInv(r)'
<1>1. /\ UNCHANGED <<said, rows, shown, asks, audit>> /\ enrich' = [r \in Requests |-> NotBegun]
      /\ thread' = [r \in Requests |-> Gone(thread[r])]
  BY DEF RestartAll, Restart, Crash
<1>2. ASSUME NEW r \in Requests PROVE ProgressInv(r)' /\ TrailInv(r)'
  <2>1. ProgressInv(r) /\ TrailInv(r) /\ OwnRows(r)' = OwnRows(r) /\ \A e \in Trail : audit'[r][e] = audit[r][e]
    BY <1>1 DEF EInv, OwnRows
  <2>2. DOMAIN enrich'[r] = {"policies", "policy", "todo"}
    <3>1. enrich'[r] = NotBegun
      BY <1>1
    <3> QED BY <3>1 DEF NotBegun
  <2>3. thread'[r] = Gone(thread[r])
    BY <1>1
  <2>4. CASE thread[r].pc = "start"
    <3>1. thread'[r].pc = "start"
      BY <2>3, <2>4 DEF Gone
    <3>2. ProgressInv(r)'
      BY <1>1, <2>1, <2>2, <2>4, <3>1 DEF ProgressInv, EPcs
    <3>3. \A e \in Trail : CountOf(r, e)' = CountOf(r, e)
      BY <2>1 DEF CountOf
    <3>4. TrailInv(r)'
      BY <2>1, <2>4, <3>1, <3>3 DEF TrailInv, Trail
    <3> QED BY <3>2, <3>4
  <2>5. CASE thread[r].pc # "start"
    <3>1. thread'[r].pc = "done"
      <4>1. CASE thread[r].pc = "done"
        BY <2>3, <4>1 DEF Gone
      <4>2. CASE thread[r].pc # "done"
        <5>1. PICK p, a, s : thread[r] = [pc |-> p, answer |-> a, seen |-> s]
          BY DEF EInv, HInv, Typed
        <5>2. thread'[r] = [thread[r] EXCEPT !.pc = "done", !.answer = "LOST"]
          BY <2>3, <2>5, <4>2 DEF Gone
        <5> DEFINE t == thread[r]
        <5>3. DOMAIN t = {"pc", "answer", "seen"}
          BY <5>1
        <5> HIDE DEF t
        <5>4. [t EXCEPT !.pc = "done", !.answer = "LOST"].pc = "done"
          BY <5>3
        <5> QED BY <5>2, <5>4 DEF t
      <4> QED BY <4>1, <4>2
    <3> QED BY <1>1, <2>1, <2>2, <3>1, DoneFacts
  <2> QED BY <2>4, <2>5
<1> QED BY <1>1, <1>2, RowsKeep DEF EInv

\* An enrichment begins with the policies that are active, and nothing recorded.
LEMMA BeginRecords ==
  ASSUME EInv, NEW r \in Requests, BeginEnrichment(r) \/ ReadEnvelope(r)
  PROVE  RowsInv' /\ \A s \in Requests : ProgressInv(s)' /\ TrailInv(s)'
<1>1. /\ UNCHANGED <<asks, audit, said, look, rows, shown>>
      /\ (\E pc : Step(r, pc)) \/ (\E answer : Answer(r, answer))
      /\ UNCHANGED enrich \/ \E t : enrich' = [enrich EXCEPT ![r] = t]
  BY DEF BeginEnrichment, ReadEnvelope, Aside, gvars, evars
<1>2. /\ Typed /\ ProgressInv(r) /\ TrailInv(r) /\ OwnRows(r)' = OwnRows(r)
      /\ enrich = [s \in Requests |-> enrich[s]]
  BY <1>1 DEF EInv, HInv, OwnRows
<1>3. \A s \in Requests : s # r => ProgressInv(s)' /\ TrailInv(s)'
  BY <1>1, OthersApart
<1>4. DOMAIN enrich'[r] = {"policies", "policy", "todo"}
  <2>1. CASE BeginEnrichment(r)
    BY <1>2, <2>1 DEF BeginEnrichment, ProgressInv
  <2>2. CASE ReadEnvelope(r)
    BY <1>2, <2>2 DEF ReadEnvelope, evars, ProgressInv
  <2> QED BY <2>1, <2>2
<1>5. ASSUME NEW answer, Answer(r, answer) PROVE ProgressInv(r)' /\ TrailInv(r)'
  BY <1>1, <1>2, <1>4, <1>5, AnswerMove, DoneFacts
<1>6. \A e \in Trail : CountOf(r, e)' = CountOf(r, e)
  BY <1>2 DEF CountOf
<1>7. ASSUME BeginEnrichment(r), Step(r, "envelope") PROVE ProgressInv(r)' /\ TrailInv(r)'
  <2>1. thread[r].pc = "start" /\ asks[r].kind = "enrich" /\ thread'[r].pc = "envelope"
    BY <1>2, <1>7, StepMove DEF BeginEnrichment
  <2>2. enrich'[r].policies = asks[r].policies
    BY <1>2, <1>7 DEF BeginEnrichment, ProgressInv
  <2>3. OwnRows(r) = {}
    BY <1>2, <2>1 DEF ProgressInv
  <2>4. ProgressInv(r)'
    <3>1. /\ enrich'[r].policies \in Seq(DOMAIN Policy)
          /\ \A i, j \in DOMAIN enrich'[r].policies : enrich'[r].policies[i] = enrich'[r].policies[j] => i = j
      BY <1>2, <2>1, <2>2, EnrichAskFacts
    <3> QED BY <1>1, <1>2, <1>4, <2>1, <2>3, <3>1 DEF ProgressInv
  <2>5. TrailInv(r)'
    BY <1>1, <1>2, <1>6, <2>1 DEF TrailInv, Trail
  <2> QED BY <2>4, <2>5
<1>8. ASSUME ReadEnvelope(r), Step(r, "policies") PROVE ProgressInv(r)' /\ TrailInv(r)'
  <2>1. thread[r].pc = "envelope" /\ thread'[r].pc = "policies" /\ enrich' = enrich
    BY <1>2, <1>8, StepMove DEF ReadEnvelope, evars
  <2>2. OwnRows(r) = {} /\ asks[r].kind = "enrich"
    BY <1>2, <2>1 DEF ProgressInv, EPcs
  <2>3. ProgressInv(r)'
    BY <1>1, <1>2, <1>4, <2>1, <2>2 DEF ProgressInv, EPcs
  <2>4. TrailInv(r)'
    BY <1>1, <1>2, <1>6, <2>1 DEF TrailInv, Trail
  <2> QED BY <2>3, <2>4
<1>9. ProgressInv(r)' /\ TrailInv(r)'
  BY <1>5, <1>7, <1>8 DEF BeginEnrichment, ReadEnvelope
<1> QED BY <1>1, <1>3, <1>9, RowsKeep DEF EInv

\* The next policy is none that has records.
LEMMA SelectRecords ==
  ASSUME EInv, NEW r \in Requests, SelectPolicy(r)
  PROVE  RowsInv' /\ \A s \in Requests : ProgressInv(s)' /\ TrailInv(s)'
<1> DEFINE left == enrich[r].policies
<1>1. /\ UNCHANGED <<asks, said, look, rows, shown>>
      /\ UNCHANGED thread \/ (\E pc : Step(r, pc)) \/ (\E answer : Answer(r, answer))
      /\ UNCHANGED enrich \/ \E t : enrich' = [enrich EXCEPT ![r] = t]
      /\ UNCHANGED audit \/ \E E : audit' = Appended(r, E)
      /\ thread[r].pc = "policies"
  BY DEF SelectPolicy, Aside, gvars
<1>2. /\ Typed /\ ProgressInv(r) /\ TrailInv(r) /\ OwnRows(r)' = OwnRows(r)
      /\ enrich = [s \in Requests |-> enrich[s]]
  BY <1>1 DEF EInv, HInv, OwnRows
<1>3. \A s \in Requests : s # r => ProgressInv(s)' /\ TrailInv(s)'
  BY <1>1, OthersApart
<1>4. \A e \in Trail : CountOf(r, e)' = CountOf(r, e)
  BY <1>2 DEF CountOf
<1>5. CASE left = <<>>
  <2>1. (\E answer : Answer(r, answer)) /\ UNCHANGED <<audit, enrich>>
    BY <1>5 DEF SelectPolicy
  <2>2. DOMAIN enrich'[r] = {"policies", "policy", "todo"}
    BY <1>2, <2>1 DEF ProgressInv
  <2>3. thread'[r].pc = "done"
    BY <1>2, <2>1, AnswerMove
  <2>4. ProgressInv(r)' /\ TrailInv(r)'
    BY <1>1, <1>2, <2>1, <2>2, <2>3, DoneFacts
  <2> QED BY <1>1, <1>3, <2>4, RowsKeep DEF EInv
<1>6. CASE left # <<>>
  <2> DEFINE found == IndicatorsOf[Head(left)]
             t == [policies |-> Tail(left), policy |-> Head(left), todo |-> found]
  <2>1. /\ enrich' = [enrich EXCEPT ![r] = t]
        /\ \/ UNCHANGED <<thread, audit>>
           \/ Step(r, "indicators") /\ audit' = Appended(r, {"PROVIDER_POLICY_SELECTED"})
    BY <1>6 DEF SelectPolicy
  <2>2. /\ enrich'[r] = t /\ t.policies = Tail(left) /\ t.policy = Head(left)
        /\ DOMAIN t = {"policies", "policy", "todo"}
    BY <1>2, <2>1
  <2>3. /\ asks[r].kind = "enrich" /\ left \in Seq(DOMAIN Policy)
        /\ \A i, j \in DOMAIN left : left[i] = left[j] => i = j
        /\ \A row \in OwnRows(r) : row.policy \notin Ahead(r)
    BY <1>1, <1>2 DEF ProgressInv, EPcs
  <2> HIDE DEF t, found
  <2>4. /\ t.policies \in Seq(DOMAIN Policy)
        /\ \A i, j \in DOMAIN t.policies : t.policies[i] = t.policies[j] => i = j
        /\ t.policy \in Ahead(r) /\ t.policy \notin Ahead(r)' /\ Ahead(r)' \subseteq Ahead(r)
    <3> HIDE DEF left
    <3>1. Ahead(r) = {left[i] : i \in DOMAIN left} /\ Ahead(r)' = {Tail(left)[i] : i \in DOMAIN Tail(left)}
      BY <2>2 DEF Ahead, left
    <3> QED BY <1>6, <2>2, <2>3, <3>1, TailFacts
  <2>5. \A row \in OwnRows(r) : row.policy \notin Ahead(r)' /\ row.policy # t.policy
    BY <2>3, <2>4
  <2>6. thread'[r].pc \in {"policies", "indicators"}
    <3>1. CASE UNCHANGED thread
      BY <1>1, <3>1
    <3>2. CASE Step(r, "indicators")
      BY <1>2, <3>2, StepMove
    <3> QED BY <2>1, <3>1, <3>2
  <2>7. ProgressInv(r)'
    BY <1>1, <1>2, <2>2, <2>3, <2>4, <2>5, <2>6 DEF ProgressInv
  <2>8. TrailInv(r)'
    <3>1. TrailKept
      BY <1>2, <2>1, TrailKeeps DEF Trail
    <3>2. \A e \in Trail : audit'[r][e] = audit[r][e]
      BY <3>1 DEF TrailKept
    <3> QED BY <1>1, <1>2, <1>4, <2>6, <3>2 DEF TrailInv, Trail
  <2> QED BY <1>1, <1>3, <2>7, <2>8, RowsKeep DEF EInv
<1> QED BY <1>5, <1>6

\* A lookup begins with its request in the log; it has no record yet.
LEMMA RequestRecords ==
  ASSUME EInv, NEW r \in Requests, RequestLookup(r)
  PROVE  RowsInv' /\ \A s \in Requests : ProgressInv(s)' /\ TrailInv(s)'
<1>1. /\ UNCHANGED <<asks, said, rows, shown>>
      /\ \E pc : Step(r, pc)
      /\ UNCHANGED enrich \/ \E t : enrich' = [enrich EXCEPT ![r] = t]
      /\ UNCHANGED look \/ \E l : Set(r, l)
      /\ UNCHANGED audit \/ \E E : audit' = Appended(r, E)
      /\ thread[r].pc = "indicators"
  BY DEF RequestLookup, Aside, StartLookup
<1>2. /\ Typed /\ ProgressInv(r) /\ TrailInv(r) /\ OwnRows(r)' = OwnRows(r)
      /\ enrich = [s \in Requests |-> enrich[s]] /\ look = [c \in Requests |-> look[c]]
  BY <1>1, EnrichmentAssumption DEF EInv, HInv, OwnRows, GInv
<1>3. \A s \in Requests : s # r => ProgressInv(s)' /\ TrailInv(s)'
  BY <1>1, OthersApart
<1>4. \A e \in Trail : CountOf(r, e)' = CountOf(r, e)
  BY <1>2 DEF CountOf
<1>5. RowsInv'
  BY <1>1, RowsKeep DEF EInv
<1>6. /\ asks[r].kind = "enrich" /\ DOMAIN enrich[r] = {"policies", "policy", "todo"}
      /\ enrich[r].policies \in Seq(DOMAIN Policy)
      /\ \A i, j \in DOMAIN enrich[r].policies : enrich[r].policies[i] = enrich[r].policies[j] => i = j
      /\ enrich[r].policy \notin Ahead(r)
      /\ \A row \in OwnRows(r) : row.policy \notin Ahead(r)
                                    /\ (row.policy = enrich[r].policy => row.indicator \notin enrich[r].todo)
  BY <1>1, <1>2 DEF ProgressInv, EPcs
<1>7. CASE enrich[r].todo = {}
  <2>1. Step(r, "policies") /\ UNCHANGED <<audit, enrich, look>>
    BY <1>7 DEF RequestLookup
  <2>2. thread'[r].pc = "policies" /\ Ahead(r)' = Ahead(r)
    BY <1>2, <2>1, StepMove DEF Ahead
  <2>3. ProgressInv(r)'
    BY <1>1, <1>2, <1>6, <2>1, <2>2 DEF ProgressInv
  <2>4. TrailInv(r)'
    BY <1>1, <1>2, <1>4, <2>1, <2>2 DEF TrailInv, Trail
  <2> QED BY <1>3, <1>5, <2>3, <2>4
<1>8. CASE enrich[r].todo # {}
  <2>1. PICK i \in enrich[r].todo :
            /\ enrich' = [enrich EXCEPT ![r].todo = @ \ {i}]
            /\ audit' = Appended(r, {"ENRICHMENT_REQUESTED"})
            /\ StartLookup(r, enrich[r].policy, i) /\ Step(r, "looking")
    BY <1>8 DEF RequestLookup
  <2>2. /\ DOMAIN enrich'[r] = {"policies", "policy", "todo"} /\ enrich'[r].policies = enrich[r].policies
        /\ enrich'[r].policy = enrich[r].policy /\ enrich'[r].todo = enrich[r].todo \ {i}
    BY <1>2, <1>6, <2>1
  <2>3. look'[r].policy = enrich[r].policy /\ look'[r].indicator = i
    BY <1>2, <2>1 DEF StartLookup, Set, NoLookup
  <2>4. thread'[r].pc = "looking"
    BY <1>2, <2>1, StepMove
  <2>5. Ahead(r)' = Ahead(r)
    BY <2>2 DEF Ahead
  <2>6. ProgressInv(r)'
    BY <1>1, <1>2, <1>6, <2>1, <2>2, <2>3, <2>4, <2>5 DEF ProgressInv
  <2>7. /\ audit'[r]["ENRICHMENT_REQUESTED"] = audit[r]["ENRICHMENT_REQUESTED"] + 1
        /\ \A e \in Trail \ {"ENRICHMENT_REQUESTED"} : audit'[r][e] = audit[r][e]
    <3>1. \A e \in Events : audit'[r][e] = IF e \in {"ENRICHMENT_REQUESTED"} THEN audit[r][e] + 1 ELSE audit[r][e]
      BY <1>2, <2>1, AuditFacts
    <3> QED BY <3>1 DEF Trail, Events
  <2>8. audit[r]["ENRICHMENT_REQUESTED"] = Cardinality(OwnRows(r)) /\ audit[r]["ENRICHMENT_REQUESTED"] \in Nat
    <3>1. audit[r]["ENRICHMENT_REQUESTED"] \in Nat /\ Cardinality(OwnRows(r)) \in Nat
      <4>1. IsFiniteSet(OwnRows(r))
        BY FS_Subset DEF EInv, RowsInv, OwnRows
      <4> QED BY <1>2, <4>1, FS_CardinalityType DEF Typed, Events
    <3> QED BY <1>1, <1>2, <3>1 DEF TrailInv
  <2>9. TrailInv(r)'
    BY <1>2, <1>4, <2>4, <2>7, <2>8 DEF TrailInv
  <2> QED BY <1>3, <1>5, <2>6, <2>9
<1> QED BY <1>7, <1>8

\* A lookup makes a record that its request had not, with its event.
LEMMA RecordRecords ==
  ASSUME EInv, NEW r \in Requests, RecordLookup(r)
  PROVE  RowsInv' /\ \A s \in Requests : ProgressInv(s)' /\ TrailInv(s)'
<1> DEFINE row == [by |-> r, policy |-> look[r].policy, indicator |-> look[r].indicator, result |-> look[r].result]
<1>1. /\ UNCHANGED <<asks, said, enrich, shown>> /\ rows' = rows \cup {row}
      /\ audit' = Appended(r, LookupEvents(look[r].result)) /\ Set(r, NoLookup) /\ Step(r, "indicators")
      /\ thread[r].pc = "looking" /\ look[r].pc = "done"
  BY DEF RecordLookup, Aside
<1>2. row.by = r /\ row.policy = look[r].policy /\ row.indicator = look[r].indicator /\ row.result = look[r].result
  OBVIOUS
<1>3. PICK new : /\ new.by = r /\ new.policy = look[r].policy /\ new.indicator = look[r].indicator
                 /\ new.result = look[r].result /\ rows' = rows \cup {new}
  <2> HIDE DEF row
  <2> QED BY <1>1, <1>2
<1> HIDE DEF row
<1>4. /\ Typed /\ RowsInv /\ ProgressInv(r) /\ TrailInv(r) /\ thread'[r].pc = "indicators"
      /\ ResultOK(look[r], said)
  <2>1. LookOK(look[r], said)
    BY EnrichmentAssumption DEF EInv, GInv
  <2>2. ResultOK(look[r], said)
    BY <1>1, <2>1 DEF LookOK
  <2> QED BY <1>1, <2>2, StepMove DEF EInv, HInv
<1>5. \A s \in Requests : s # r => ProgressInv(s)' /\ TrailInv(s)'
  BY <1>1, <1>3, OthersApart
<1>6. /\ asks[r].kind = "enrich" /\ DOMAIN enrich[r] = {"policies", "policy", "todo"}
      /\ enrich[r].policies \in Seq(DOMAIN Policy)
      /\ \A i, j \in DOMAIN enrich[r].policies : enrich[r].policies[i] = enrich[r].policies[j] => i = j
      /\ enrich[r].policy \notin Ahead(r) /\ new.policy = enrich[r].policy /\ new.indicator \notin enrich[r].todo
      /\ \A x \in OwnRows(r) : x.policy \notin Ahead(r)
      /\ \A x \in OwnRows(r) : x.policy = new.policy => x.indicator \notin enrich[r].todo /\ x.indicator # new.indicator
  BY <1>1, <1>3, <1>4 DEF ProgressInv, EPcs
<1>7. OwnRows(r)' = OwnRows(r) \cup {new} /\ new \notin OwnRows(r) /\ new \notin rows
  BY <1>3, <1>6 DEF OwnRows
<1>8. ProgressInv(r)'
  <2>1. Ahead(r)' = Ahead(r)
    BY <1>1 DEF Ahead
  <2> QED BY <1>1, <1>4, <1>6, <1>7, <2>1 DEF ProgressInv
<1>9. RowsInv'
  <2>1. IsFiniteSet(rows')
    BY <1>3, <1>4, FS_AddElement DEF RowsInv
  <2>2. \A x \in rows' : x.by \in Requests /\ ResultOK(x, said')
    <3>1. ResultOK(new, said)
      BY <1>3, <1>4 DEF ResultOK
    <3> QED BY <1>1, <1>3, <1>4, <3>1 DEF RowsInv
  <2>3. \A x \in rows : ~ (x.by = new.by /\ x.policy = new.policy /\ x.indicator = new.indicator)
    BY <1>3, <1>6 DEF OwnRows
  <2>4. \A x, y \in rows' : x.by = y.by /\ x.policy = y.policy /\ x.indicator = y.indicator => x = y
    BY <1>3, <1>4, <2>3 DEF RowsInv
  <2>5. \A v \in shown' : v.reputation = "NOT_EVALUATED"
          \/ \E s \in said' : s.policy = v.policy /\ s.indicator = v.indicator /\ s.reputation = v.reputation
    BY <1>1, <1>4 DEF RowsInv
  <2> QED BY <2>1, <2>2, <2>4, <2>5 DEF RowsInv
<1>10. TrailInv(r)'
  <2>1. \A e \in Events : audit'[r][e] = IF e \in LookupEvents(new.result) THEN audit[r][e] + 1 ELSE audit[r][e]
    BY <1>1, <1>3, <1>4, AuditFacts
  <2>2. Trail \subseteq Events /\ "ENRICHMENT_REQUESTED" \notin LookupEvents(new.result)
    BY DEF Trail, Events, LookupEvents
  <2>3. IsFiniteSet(OwnRows(r))
    BY <1>4, FS_Subset DEF OwnRows, RowsInv
  <2>4. Cardinality(OwnRows(r)') = Cardinality(OwnRows(r)) + 1 /\ Cardinality(OwnRows(r)) \in Nat
    BY <1>7, <2>3, FS_AddElement, FS_CardinalityType
  <2>5. audit'[r]["ENRICHMENT_REQUESTED"] = Cardinality(OwnRows(r)')
    BY <1>1, <1>4, <2>1, <2>2, <2>4 DEF TrailInv, Trail
  <2>6. ASSUME NEW e \in Trail \ {"ENRICHMENT_REQUESTED"} PROVE audit'[r][e] = CountOf(r, e)'
    <3> DEFINE with == {x \in OwnRows(r) : e \in LookupEvents(x.result)}
               after == {x \in OwnRows(r)' : e \in LookupEvents(x.result)}
    <3>1. CountOf(r, e) = Cardinality(with) /\ CountOf(r, e)' = Cardinality(after)
      BY DEF CountOf
    <3>2. after = IF e \in LookupEvents(new.result) THEN with \cup {new} ELSE with
      <4> HIDE DEF LookupEvents
      <4> QED BY <1>7
    <3>3. IsFiniteSet(with) /\ new \notin with
      BY <1>7, <2>3, FS_Subset
    <3> HIDE DEF with, after
    <3>4. Cardinality(after) = IF e \in LookupEvents(new.result) THEN Cardinality(with) + 1 ELSE Cardinality(with)
      BY <3>2, <3>3, FS_AddElement
    <3>5. audit[r][e] = CountOf(r, e)
      BY <1>4 DEF TrailInv
    <3> QED BY <2>1, <2>2, <3>1, <3>4, <3>5
  <2> QED BY <1>4, <2>4, <2>5, <2>6 DEF TrailInv
<1> QED BY <1>5, <1>8, <1>9, <1>10

\* What a reader is shown was recorded, under a policy that the process knows.
LEMMA ListRecords ==
  ASSUME EInv, NEW r \in Requests, ListEnrichments(r)
  PROVE  RowsInv' /\ \A s \in Requests : ProgressInv(s)' /\ TrailInv(s)'
<1>1. /\ UNCHANGED <<asks, audit, said, look, enrich, rows>> /\ Answer(r, "200")
      /\ shown' = shown \cup {View(row) : row \in rows}
  BY DEF ListEnrichments, Aside, gvars
<1>2. RowsInv /\ Typed /\ ProgressInv(r) /\ TrailInv(r) /\ OwnRows(r)' = OwnRows(r)
  BY <1>1 DEF EInv, HInv, OwnRows
<1>3. \A s \in Requests : s # r => ProgressInv(s)' /\ TrailInv(s)'
  BY <1>1, OthersApart
<1>4. ProgressInv(r)' /\ TrailInv(r)'
  <2>1. thread'[r].pc = "done"
    BY <1>1, <1>2, AnswerMove
  <2>2. DOMAIN enrich'[r] = {"policies", "policy", "todo"}
    BY <1>1, <1>2 DEF ProgressInv
  <2> QED BY <1>1, <1>2, <2>1, <2>2, DoneFacts
<1>5. ASSUME NEW row \in rows
      PROVE  LET v == View(row)
             IN  \/ v.reputation = "NOT_EVALUATED"
                 \/ \E s \in said : s.policy = v.policy /\ s.indicator = v.indicator /\ s.reputation = v.reputation
  <2> DEFINE v == View(row)
             s == [policy |-> row.policy, indicator |-> row.indicator, entry |-> row.result.outcome,
                   reputation |-> row.result.reputation]
  <2>1. /\ v.policy = row.policy /\ v.indicator = row.indicator
        /\ v.reputation = "NOT_EVALUATED" \/ v.reputation = row.result.reputation
    BY DEF View
  <2>2. row.result.reputation # "NOT_EVALUATED" => s \in said
    BY <1>2 DEF RowsInv, ResultOK
  <2>3. s.policy = row.policy /\ s.indicator = row.indicator /\ s.reputation = row.result.reputation
    OBVIOUS
  <2> HIDE DEF v, s
  <2>4. \/ v.reputation = "NOT_EVALUATED"
        \/ \E x \in said : x.policy = v.policy /\ x.indicator = v.indicator /\ x.reputation = v.reputation
    BY <2>1, <2>2, <2>3
  <2> QED BY <2>4 DEF v
<1>6. RowsInv'
  <2>1. \A v \in shown' : v.reputation = "NOT_EVALUATED"
          \/ \E s \in said' : s.policy = v.policy /\ s.indicator = v.indicator /\ s.reputation = v.reputation
    <3> HIDE DEF View
    <3> QED BY <1>1, <1>2, <1>5 DEF RowsInv
  <2> QED BY <1>1, <1>2, <2>1 DEF RowsInv
<1> QED BY <1>3, <1>4, <1>6

\* A failure is raised; what was recorded before stays.
LEMMA FailsRecords ==
  ASSUME EInv, NEW r \in Requests, EnrichmentFails(r)
  PROVE  RowsInv' /\ \A s \in Requests : ProgressInv(s)' /\ TrailInv(s)'
<1>1. /\ UNCHANGED <<asks, audit, said, rows, shown>> /\ Answer(r, "RAISED")
      /\ Set(r, NoLookup) /\ enrich' = [enrich EXCEPT ![r] = NotBegun]
  BY DEF EnrichmentFails, Aside
<1>2. /\ RowsInv /\ Typed /\ ProgressInv(r) /\ TrailInv(r) /\ OwnRows(r)' = OwnRows(r)
      /\ enrich = [s \in Requests |-> enrich[s]]
  BY <1>1 DEF EInv, HInv, OwnRows
<1>3. \A s \in Requests : s # r => ProgressInv(s)' /\ TrailInv(s)'
  BY <1>1, OthersApart
<1>4. ProgressInv(r)' /\ TrailInv(r)'
  <2>1. thread'[r].pc = "done"
    BY <1>1, <1>2, AnswerMove
  <2>2. enrich'[r] = NotBegun
    BY <1>1, <1>2
  <2>3. DOMAIN enrich'[r] = {"policies", "policy", "todo"}
    BY <2>2 DEF NotBegun
  <2> QED BY <1>1, <1>2, <2>1, <2>3, DoneFacts
<1> QED BY <1>1, <1>2, <1>3, <1>4, RowsKeep

\* A lookup goes on, or another registry is in force, or nothing happens.
LEMMA IdleRecords ==
  ASSUME EInv, said \subseteq said',
         \/ \E r \in Requests : Lookup(r)
         \/ \E p : Reconfigure(p)
         \/ UNCHANGED allvars
  PROVE  RowsInv' /\ \A s \in Requests : ProgressInv(s)' /\ TrailInv(s)'
<1>1. UNCHANGED <<asks, thread, audit, enrich, rows, shown>>
  BY DEF Lookup, Reconfigure, Aside, allvars, vars, kvars, gvars, evars
<1>2. ASSUME NEW s \in Requests
      PROVE  look'[s].policy = look[s].policy /\ look'[s].indicator = look[s].indicator
  <2>1. ASSUME NEW r \in Requests, Lookup(r)
        PROVE  look'[s].policy = look[s].policy /\ look'[s].indicator = look[s].indicator
    BY <2>1, LookupKeeps, EnrichmentAssumption DEF Lookup, EInv
  <2>2. ASSUME NEW p, Reconfigure(p) PROVE look' = look
    BY <2>2 DEF Reconfigure, gvars
  <2>3. ASSUME UNCHANGED allvars PROVE look' = look
    BY <2>3 DEF allvars, gvars
  <2> QED BY <2>1, <2>2, <2>3
<1>3. ASSUME NEW s \in Requests PROVE ProgressInv(s)' /\ TrailInv(s)'
  <2>1. OwnRows(s)' = OwnRows(s)
    BY <1>1 DEF OwnRows
  <2> QED BY <1>1, <1>2, <2>1, KeptFacts DEF Kept, EInv
<1> QED BY <1>1, <1>3, RowsKeep DEF EInv

-----------------------------------------------------------------------------
(* The invariant, and what follows from it.                                *)

\* Nothing was looked up yet.
LEMMA EnrichmentStarts ==
  ASSUME EnrichmentInit PROVE EInv
<1>1. HInv
  BY HistoryStarts DEF EnrichmentInit
<1>2. GInv
  <2>1. look = [c \in Callers |-> look[c]] /\ \A c \in Callers : look[c] = NoLookup
    BY DEF EnrichmentInit, EgressInit
  <2>2. WireOK
    BY DEF EnrichmentInit, EgressInit, WireOK
  <2> QED BY <2>1, <2>2, BlankFacts DEF GInv
<1>3. RowsInv
  BY FS_EmptySet DEF EnrichmentInit, RowsInv
<1>4. ASSUME NEW r \in Requests PROVE ProgressInv(r) /\ TrailInv(r)
  <2>1. thread[r].pc = "start" /\ \A e \in Events : audit[r][e] = 0
    BY DEF EnrichmentInit, Init, KnowledgeInit
  <2>2. OwnRows(r) = {}
    BY DEF OwnRows, EnrichmentInit
  <2>3. DOMAIN enrich[r] = {"policies", "policy", "todo"}
    <3>1. enrich[r] = NotBegun
      BY DEF EnrichmentInit
    <3> QED BY <3>1 DEF NotBegun
  <2>4. ProgressInv(r)
    BY <2>1, <2>2, <2>3 DEF ProgressInv, EPcs
  <2>5. Cardinality(OwnRows(r)) = 0 /\ \A e \in Trail : CountOf(r, e) = 0
    <3>1. \A e \in Trail : {row \in OwnRows(r) : e \in LookupEvents(row.result)} = {}
      BY <2>2
    <3> QED BY <2>2, <3>1, FS_EmptySet DEF CountOf
  <2>6. TrailInv(r)
    BY <2>1, <2>5 DEF TrailInv, Trail, Events
  <2> QED BY <2>4, <2>6
<1>5. enrich = [r \in Requests |-> enrich[r]]
  BY DEF EnrichmentInit
<1> QED BY <1>1, <1>2, <1>3, <1>4, <1>5 DEF EInv

\* Every step.
LEMMA EnrichmentGoesOn ==
  ASSUME EInv, [EnrichmentNext]_allvars PROVE EInv'
<1>1. HInv' /\ GInv' /\ said \subseteq said'
  BY RestGoesOn, GuardGoesOn DEF EInv
<1>2. RowsInv' /\ \A s \in Requests : ProgressInv(s)' /\ TrailInv(s)'
  <2>1. CASE Operate /\ UNCHANGED <<gvars, evars>>
    BY <2>1, OperateRecords
  <2>2. ASSUME NEW version, RestartAll(version)
        PROVE  RowsInv' /\ \A s \in Requests : ProgressInv(s)' /\ TrailInv(s)'
    BY <2>2, RestartRecords
  <2>3. ASSUME NEW r \in Requests, EnrichmentStep(r) \/ EnrichmentFails(r)
        PROVE  RowsInv' /\ \A s \in Requests : ProgressInv(s)' /\ TrailInv(s)'
    BY <1>1, <2>3, BeginRecords, SelectRecords, RequestRecords, IdleRecords, RecordRecords, ListRecords, FailsRecords
       DEF EnrichmentStep
  <2>4. CASE (\E p : Reconfigure(p)) \/ UNCHANGED allvars
    BY <1>1, <2>4, IdleRecords
  <2> QED BY <2>1, <2>2, <2>3, <2>4 DEF EnrichmentNext
<1>3. enrich' = [r \in Requests |-> enrich'[r]]
  <2>1. enrich = [r \in Requests |-> enrich[r]]
    BY DEF EInv
  <2>2. UNCHANGED enrich \/ (\E r, t : enrich' = [enrich EXCEPT ![r] = t]) \/ enrich' = [r \in Requests |-> NotBegun]
    BY DEF EnrichmentNext, EnrichmentStep, BeginEnrichment, ReadEnvelope, SelectPolicy, RequestLookup, Lookup,
       RecordLookup, ListEnrichments, EnrichmentFails, Reconfigure, RestartAll, evars, allvars
  <2> QED BY <2>1, <2>2
<1> QED BY <1>1, <1>2, <1>3 DEF EInv

\* The invariant of lookups and records holds in every reachable state, and that of everything else
\* goes on holding beside them (enrichment.py).
THEOREM EnrichmentInvariant == EnrichmentSpec => []EInv
<1>1. EnrichmentInit => EInv
  BY EnrichmentStarts
<1>2. EInv /\ [EnrichmentNext]_allvars => EInv'
  BY EnrichmentGoesOn
<1> QED BY <1>1, <1>2, PTL DEF EnrichmentSpec

\* Bytes leave only to a peer among the permitted answers of its own hop, to the approved target,
\* under a policy that allows it; exchanges are bounded, and no lookup outlives its deadline by an
\* operation, for any limits, delays, answers and replies (egress.py lookup, _attempt).
THEOREM EgressIsGuarded == EnrichmentSpec => []EgressGuarded
<1>1. EInv => EgressGuarded
  BY GuardFacts DEF EInv
<1> QED BY <1>1, EnrichmentInvariant, PTL

\* A record or a view says what a provider replied in time, with one record for each lookup, and
\* the audit log has its request and its outcome (enrichment.py _lookup_and_record).
THEOREM RecordsAreTruthful == EnrichmentSpec => []AdvisoryTruthful
<1>1. ASSUME EInv PROVE AdvisoryTruthful
  <2>1. RowsInv /\ \A r \in Requests : TrailInv(r)
    BY <1>1 DEF EInv
  <2> QED BY <2>1 DEF AdvisoryTruthful, RowsInv, ResultOK, TrailInv, CountOf, OwnRows, Trail
<1> QED BY <1>1, EnrichmentInvariant, PTL

\* Activations, bundles, replays, downloads and corrections keep their promises with enrichments
\* running beside them (knowledge_seam.py _activate, history.py).
THEOREM HistoryHoldsBeside ==
  EnrichmentSpec => [](ActivationHistory /\ KnowledgeIsExact /\ HistoryAccounted /\ ReplayTruthful)
<1>1. ASSUME EInv PROVE ActivationHistory /\ KnowledgeIsExact /\ HistoryAccounted /\ ReplayTruthful
  <2>1. HInv
    BY <1>1 DEF EInv
  <2> QED BY <2>1, ActivationsChained, BundlesExact, AccountsAgree DEF HInv
<1> QED BY <1>1, EnrichmentInvariant, PTL

=============================================================================

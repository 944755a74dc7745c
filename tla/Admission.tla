----------------------------- MODULE Admission ------------------------------
(***************************************************************************)
(* Admission control (trustlens_backend/admission.py): token buckets kept  *)
(* in memory by store and key, at most MAX_KEYS of them, the least         *)
(* recently used one evicted.  Tokens are counted in units: a request      *)
(* costs unit of them and a tick of the clock brings back one, so both of  *)
(* the code's profiles (6 and 2 seconds a token) are exact.                *)
(***************************************************************************)
EXTENDS Integers, Sequences, FiniteSets

CONSTANTS
    Stores,    \* the buckets of sign-ins and of state-changing requests
    Profile,   \* [capacity, unit] of each
    MAX_KEYS

ASSUME AdmissionAssumption ==
    /\ MAX_KEYS \in Nat \ {0}
    /\ \A s \in Stores : Profile[s].capacity \in Nat \ {0} /\ Profile[s].unit \in Nat \ {0}

VARIABLES
    clock,
    buckets,   \* per store, least recently used first: [key, tokens, updated]
    granted,   \* history: per store, when each key with a bucket was admitted since it has it
    promised   \* history: when a refused key was told to come back, [store, key, at]

avars == <<clock, buckets, granted, promised>>

AdmissionInit ==
    /\ clock = 0
    /\ buckets = [s \in Stores |-> <<>>]
    /\ granted = [s \in Stores |-> <<>>]
    /\ promised = {}

Full(s) == Profile[s].capacity * Profile[s].unit

AtMost(a, b) == IF a <= b THEN a ELSE b

BucketsOf(s, key) == {i \in DOMAIN buckets[s] : buckets[s][i].key = key}

\* The place of a key's only bucket.
PlaceOf(s, key) == CHOOSE i \in BucketsOf(s, key) : TRUE

RefilledUncapped(s, key) ==
    IF BucketsOf(s, key) = {} THEN Full(s)
    ELSE LET b == buckets[s][PlaceOf(s, key)]
         IN b.tokens + (clock - b.updated)

\* The tokens of a key now: a key without a bucket starts with a full one.
Refilled(s, key) ==
    IF BucketsOf(s, key) = {} THEN Full(s)
    ELSE LET b == buckets[s][PlaceOf(s, key)]
         IN AtMost(Full(s), b.tokens + (clock - b.updated))

Allowed(s, key) == Refilled(s, key) >= Profile[s].unit

\* The buckets without that of key.
Popped(s, key) ==
    LET b == buckets[s]  i == PlaceOf(s, key)
    IN IF BucketsOf(s, key) = {} THEN b ELSE SubSeq(b, 1, i - 1) \o SubSeq(b, i + 1, Len(b))

\* The keys that survive a request for key: it becomes the most recent one.
Recent(s, key, tokens) ==
    LET kept == Append(Popped(s, key), [key |-> key, tokens |-> tokens, updated |-> clock])
    IN IF Len(kept) > MAX_KEYS THEN Tail(kept) ELSE kept

KeysOf(bs) == {bs[i].key : i \in DOMAIN bs}
Admitted(s, key) == IF key \in DOMAIN granted[s] THEN granted[s][key] ELSE <<>>

take(s, key) ==
    \E tokens \in {Refilled(s, key) - (IF Allowed(s, key) THEN Profile[s].unit ELSE 0)} :
        /\ buckets' = [buckets EXCEPT ![s] = Recent(s, key, tokens)]
        /\ granted' = [granted EXCEPT ![s] =
              [k \in KeysOf(buckets'[s]) |-> IF k = key /\ Allowed(s, key)
                                             THEN Append(Admitted(s, k), clock) ELSE Admitted(s, k)]]
        /\ promised' =
              {p \in promised : p.store = s =>
                  p.key \in KeysOf(buckets'[s]) /\ ~(p.key = key /\ Allowed(s, key))} \cup
              IF Allowed(s, key) THEN {}
              ELSE {[store |-> s, key |-> key, at |-> clock + Profile[s].unit - tokens]}
        /\ UNCHANGED clock

Tick(limit) ==
    /\ clock < limit
    /\ clock' = clock + 1
    /\ UNCHANGED <<buckets, granted, promised>>

Forget ==
    /\ buckets' = [s \in Stores |-> <<>>]
    /\ granted' = [s \in Stores |-> <<>>]
    /\ promised' = {}
    /\ UNCHANGED clock

\* However its requests are spread over time, a key is admitted at most its capacity
\* plus what the elapsed time brings back in every window (TokenBuckets.take), and a
\* refused key that comes back after the Retry-After it was given is admitted, unless a
\* request under the same key was let in before it.  Eviction is the proviso: an evicted
\* key starts again with a full bucket.
RatesHold ==
    /\ \A s \in Stores : \A key \in DOMAIN granted[s] :
          LET times == granted[s][key]
          IN \A j \in DOMAIN times : \A i \in 1..j :
                (j - i + 1) * Profile[s].unit <= Full(s) + times[j] - times[i]
    /\ \A p \in promised : p.at <= clock => Allowed(p.store, p.key)
=============================================================================

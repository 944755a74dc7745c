------------------------------- MODULE Egress -------------------------------
(***************************************************************************)
(* Adapter.lookup (trustlens_backend/egress.py): one advisory lookup of an *)
(* indicator with an external provider, under a governed policy and a      *)
(* single overall deadline.  DNS, the transport and the provider are       *)
(* external: each hop and each attempt may get other answers, reach        *)
(* another peer, take any time of Delays and reply anything of Replies.    *)
(*                                                                         *)
(* Times count from the start of the lookup.  Addresses are numbers in     *)
(* their lexical order.  A reply is a record [status, media, body,         *)
(* location, echo, entry, reputation].                                     *)
(***************************************************************************)
EXTENDS Naturals, FiniteSetsExt

CONSTANTS
    Callers,             \* threads that look up
    Policy,              \* policy digest -> [enabled, proxy, credential, follows, retry_safe]
    Addresses,
    Permitted,           \* the addresses that address_permitted accepts
    Answers,             \* the sets of addresses that DNS may answer
    Replies,
    Delays,              \* how long a resolution, a connection or an exchange may take
    OVERALL_DEADLINE, MAX_ATTEMPTS, BACKOFF_INITIAL, BACKOFF_MAX, MAX_REDIRECT_HOPS

ASSUME LimitsAssumption ==
    /\ OVERALL_DEADLINE \in Nat \ {0} /\ MAX_ATTEMPTS \in Nat \ {0} /\ MAX_REDIRECT_HOPS \in Nat
    /\ BACKOFF_INITIAL \in Nat \ {0} /\ BACKOFF_MAX \in Nat /\ BACKOFF_INITIAL <= BACKOFF_MAX
    /\ Permitted \subseteq Addresses /\ Answers \subseteq SUBSET Addresses /\ Addresses \subseteq Nat
    /\ Delays \subseteq Nat /\ \E longest \in Delays : \A d \in Delays : d <= longest

VARIABLES
    look,   \* [pc, policy, indicator, time, attempts, hop, target, answers, peer, contacts, result]
    wire,   \* history: what bytes were sent to: [policy, peer, answers, target]
    said    \* history: well-formed replies in time: [policy, indicator, entry, reputation]

gvars == <<look, wire, said>>

NoResult == [outcome |-> "NONE", status |-> "NONE", category |-> "NONE", class |-> "NO_RESPONSE",
             reputation |-> "NOT_EVALUATED"]
NoLookup == [pc |-> "idle", policy |-> "NONE", indicator |-> "NONE", time |-> 0, attempts |-> 0,
             hop |-> 0, target |-> "approved", answers |-> {}, peer |-> 0, contacts |-> 0,
             result |-> NoResult]

EgressInit == look = [c \in Callers |-> NoLookup] /\ wire = {} /\ said = {}

-----------------------------------------------------------------------------
(* The table of failures *)

Retryable == {"DNS_FAILURE", "CONNECTION_FAILURE", "TIMEOUT", "PROVIDER_SERVER_ERROR", "RATE_LIMITED"}
Rejections == {"POLICY_REJECTION", "REDIRECT_POLICY_REJECTION", "DESTINATION_ADDRESS_REJECTION",
               "PROXY_ENFORCEMENT_UNVERIFIED"}
Unreadable == {"INVALID_CONTENT_TYPE", "OVERSIZED_RESPONSE", "DECOMPRESSION_LIMIT_EXCEEDED",
               "SCHEMA_INVALID_RESPONSE"}
FAILURES == Retryable \cup Rejections \cup Unreadable
               \cup {"TLS_FAILURE", "PROVIDER_CLIENT_ERROR", "CREDENTIAL_UNAVAILABLE",
                     "PROVIDER_UNAVAILABLE"}

Failed(category, class) ==
    [outcome |-> IF category \in Rejections THEN "POLICY_REJECTED"
                 ELSE IF category \in Unreadable THEN "INVALID_RESPONSE" ELSE "UNAVAILABLE",
     status |-> IF category \in Rejections THEN "REJECTED"
                ELSE IF category = "TIMEOUT" THEN "TIMED_OUT" ELSE "FAILED",
     category |-> category, class |-> class, reputation |-> "NOT_EVALUATED"]

\* Mutant: every attempt has a deadline and a count of its own.
RefusedAfresh(l, category, class) ==
    IF category \in Retryable /\ Policy[l.policy].retry_safe
    THEN [NoLookup EXCEPT !.pc = "attempt", !.policy = l.policy, !.indicator = l.indicator]
    ELSE [l EXCEPT !.pc = "done", !.result = Failed(category, class)]

\* The lookup after a refusal: ended, or asleep until the next attempt, which must begin in time.
Refused(l, category, class) ==
    LET doubled == BACKOFF_INITIAL * 2 ^ (l.attempts - 1)
        wait == IF doubled \in 0..BACKOFF_MAX THEN doubled ELSE BACKOFF_MAX
    IN  IF /\ category \in Retryable /\ Policy[l.policy].retry_safe
           /\ l.attempts < MAX_ATTEMPTS
           /\ l.time + wait < OVERALL_DEADLINE
        THEN [l EXCEPT !.pc = "attempt", !.time = l.time + wait]
        ELSE [l EXCEPT !.pc = "done", !.result = Failed(category, class)]

Remaining(l) == l.time < OVERALL_DEADLINE
Set(c, l) == look' = [look EXCEPT ![c] = l]
After(l, delay) == [l EXCEPT !.time = @ + delay]

-----------------------------------------------------------------------------
(* lookup *)

StartLookup(c, p, i) ==
    Set(c, [NoLookup EXCEPT !.pc = "prepare", !.policy = p, !.indicator = i])

\* Nothing that the policy forbids gets as far as an attempt.
PrepareLookup(c) ==
    LET l == look[c]
        p == Policy[l.policy]
        category == IF ~ p.enabled THEN "POLICY_REJECTION"
                    ELSE IF p.proxy = "unverified" THEN "PROXY_ENFORCEMENT_UNVERIFIED"
                    ELSE IF p.credential = "missing" THEN "CREDENTIAL_UNAVAILABLE" ELSE "NONE"
    IN  /\ l.pc = "prepare"
        /\ Set(c, IF category = "NONE" THEN [l EXCEPT !.pc = "attempt"]
                  ELSE [l EXCEPT !.pc = "done", !.result = Failed(category, "NO_RESPONSE")])
        /\ UNCHANGED <<wire, said>>

Attempt(c) ==
    LET l == [look[c] EXCEPT !.attempts = @ + 1, !.hop = 0, !.target = "approved", !.answers = {}]
    IN  /\ l.pc = "attempt"
        /\ Set(c, IF Remaining(l) THEN [l EXCEPT !.pc = "resolve"]
                  ELSE Refused(l, "TIMEOUT", "NO_RESPONSE"))
        /\ UNCHANGED <<wire, said>>

\* Every answer must be permitted, and one past the deadline is not used.
Resolved(l, answers) ==
    IF ~ Remaining(l) THEN Refused(l, "TIMEOUT", "NO_RESPONSE")
    ELSE IF answers = {} THEN Refused(l, "DNS_FAILURE", "NO_RESPONSE")
    ELSE IF ~ answers \subseteq Permitted THEN Refused(l, "DESTINATION_ADDRESS_REJECTION", "NO_RESPONSE")
    ELSE [l EXCEPT !.pc = "connect", !.answers = answers]

Resolve(c) ==
    /\ look[c].pc = "resolve"
    /\ IF ~ Remaining(look[c]) THEN Set(c, Refused(look[c], "TIMEOUT", "NO_RESPONSE"))
       ELSE \E delay \in Delays :
               LET l == After(look[c], delay)
               IN  \/ \E answers \in Answers : Set(c, Resolved(l, answers))
                   \/ Set(c, Refused(l, "DNS_FAILURE", "NO_RESPONSE"))
    /\ UNCHANGED <<wire, said>>

\* Mutant: any permitted peer will do.
ConnectedAnywhere(l, peer) ==
    IF peer \notin Permitted
    THEN Refused(l, "DESTINATION_ADDRESS_REJECTION", "NO_RESPONSE")
    ELSE [l EXCEPT !.pc = "exchange", !.peer = peer]

\* The silent socket's peer must be the validated address.
Connected(l, peer) ==
    IF peer # Min(l.answers) \/ peer \notin Permitted
    THEN Refused(l, "DESTINATION_ADDRESS_REJECTION", "NO_RESPONSE")
    ELSE [l EXCEPT !.pc = "exchange", !.peer = peer]

Connect(c) ==
    /\ look[c].pc = "connect"
    /\ IF ~ Remaining(look[c]) THEN Set(c, Refused(look[c], "TIMEOUT", "NO_RESPONSE"))
       ELSE IF Policy[look[c].policy].proxy # "none"
       THEN Set(c, Refused(look[c], "PROXY_ENFORCEMENT_UNVERIFIED", "NO_RESPONSE"))
       ELSE \E delay \in Delays :
               LET l == After(look[c], delay)
               IN  \/ \E peer \in Addresses : Set(c, Connected(l, peer))
                   \/ \E category \in {"CONNECTION_FAILURE", "TIMEOUT"} :
                         Set(c, Refused(l, category, "NO_RESPONSE"))
    /\ UNCHANGED <<wire, said>>

-----------------------------------------------------------------------------
(* The reply *)

ResponseCategory(status) ==
    IF status = 429 THEN "HTTP_429"
    ELSE CASE status \in 200..299 -> "HTTP_2XX" [] status \in 300..399 -> "HTTP_3XX"
           [] status \in 400..499 -> "HTTP_4XX" [] status \in 500..599 -> "HTTP_5XX"
           [] OTHER -> "NO_RESPONSE"

\* fixture_parser_v1: about this indicator, and no reputation without an entry.
Parses(reply) ==
    reply.echo /\ (reply.entry = "NOT_FOUND" => reply.reputation = "UNKNOWN")

Complaint(reply) ==
    IF reply.status = 429 THEN "RATE_LIMITED"
    ELSE IF reply.status \in 400..499 THEN "PROVIDER_CLIENT_ERROR"
    ELSE IF reply.status >= 500 THEN "PROVIDER_SERVER_ERROR"
    ELSE IF reply.status # 200 THEN "SCHEMA_INVALID_RESPONSE"
    ELSE IF ~ reply.media THEN "INVALID_CONTENT_TYPE"
    ELSE IF reply.body = "oversized" THEN "OVERSIZED_RESPONSE"
    ELSE IF reply.body = "expanding" THEN "DECOMPRESSION_LIMIT_EXCEEDED"
    ELSE IF reply.body = "malformed" \/ ~ Parses(reply) THEN "SCHEMA_INVALID_RESPONSE" ELSE "NONE"

\* A redirect stays on the approved host and port and inside the approved prefix, and is
\* resolved and connected anew.
Redirected(l, reply) ==
    IF \/ ~ Policy[l.policy].follows \/ l.hop = MAX_REDIRECT_HOPS
       \/ reply.location # "approved"
    THEN Refused(l, "REDIRECT_POLICY_REJECTION", "HTTP_3XX")
    ELSE [l EXCEPT !.pc = "resolve", !.hop = @ + 1, !.target = reply.location]

Accepted(l, reply) ==
    [l EXCEPT !.pc = "done",
              !.result = [outcome |-> reply.entry, status |-> "SUCCEEDED", category |-> "NONE",
                          class |-> "HTTP_2XX", reputation |-> reply.reputation]]

\* Mutant: a reply is judged however late it is complete.
JudgedLate(l, reply) ==
    IF reply.status \in 300..399 THEN Redirected(l, reply)
    ELSE IF Complaint(reply) # "NONE"
    THEN Refused(l, Complaint(reply), ResponseCategory(reply.status))
    ELSE Accepted(l, reply)

Judged(l, reply) ==
    IF ~ Remaining(l) THEN Refused(l, "TIMEOUT", "NO_RESPONSE")
    ELSE IF reply.status \in 300..399 THEN Redirected(l, reply)
    ELSE IF Complaint(reply) # "NONE"
    THEN Refused(l, Complaint(reply), ResponseCategory(reply.status))
    ELSE Accepted(l, reply)

\* Credentials and the indicator leave the process here, and only here.
Exchange(c) ==
    /\ look[c].pc = "exchange"
    /\ IF ~ Remaining(look[c])
       THEN Set(c, Refused(look[c], "TIMEOUT", "NO_RESPONSE")) /\ UNCHANGED <<wire, said>>
       ELSE /\ wire' = wire \cup {[policy |-> look[c].policy, peer |-> look[c].peer,
                                   answers |-> look[c].answers, target |-> look[c].target]}
            /\ \E delay \in Delays :
                  LET l == [After(look[c], delay) EXCEPT !.contacts = @ + 1]
                  IN  \/ \E reply \in Replies :
                            /\ Set(c, Judged(l, reply))
                            /\ said' = IF reply.status # 200 \/ ~ reply.echo \/ ~ Remaining(l) THEN said
                                       ELSE said \cup {[policy |-> l.policy, indicator |-> l.indicator,
                                                        entry |-> reply.entry, reputation |-> reply.reputation]}
                      \/ \E category \in {"TLS_FAILURE", "TIMEOUT", "CONNECTION_FAILURE"} :
                            Set(c, Refused(l, category, "NO_RESPONSE")) /\ UNCHANGED said

LookupStep(c) == PrepareLookup(c) \/ Attempt(c) \/ Resolve(c) \/ Connect(c) \/ Exchange(c)

-----------------------------------------------------------------------------
(* Properties *)

\* Nothing leaves the process but to an approved target (egress.py _attempt): whatever DNS
\* answers at each hop and each attempt, bytes are only sent to a peer that is one of the answers
\* of its own hop, all of them permitted, under a policy that allows it;
\* the number of exchanges is bounded, and no sleep, retry or redirect begins once the deadline
\* has passed, so that a lookup outlives it by less than one operation.
EgressGuarded ==
    /\ \A x \in wire :
          /\ x.peer \in x.answers /\ x.answers \subseteq Permitted
          /\ x.target = "approved"
          /\ Policy[x.policy].enabled /\ Policy[x.policy].proxy = "none"
          /\ Policy[x.policy].credential # "missing"
    /\ \A c \in Callers :
          /\ look[c].contacts <= MAX_ATTEMPTS * (MAX_REDIRECT_HOPS + 1)
          /\ look[c].time < OVERALL_DEADLINE + Max(Delays)
=============================================================================

----------------------------- MODULE MCAdvisory -----------------------------
(* A small knowledge bundle with every kind of rule, suppressor and override, *)
(* with the rules and suppressors for one-time passwords and receiving money, *)
(* and the texts, host data and provider answers that exercise it.            *)
EXTENDS Extraction

TextIndicators ==
    [CREDENTIAL_REQUEST_OTP |-> 1, UPI_PIN_PROMPT |-> 1, VERIFICATION_PROMPT |-> 1, RECEIVE_FRAMING |-> 2,
     ACCOUNT_BLOCK_THREAT |-> 3, KYC_PRETEXT |-> 4, AUTHORITY_IMPERSONATION |-> 5,
     AUTHORITY_IMPERSONATION_BANK |-> 5, URGENCY |-> 3, URGENCY_DEADLINE |-> 3, SUSPENSION_THREAT |-> 3,
     SECRECY_REQUEST |-> 3, LINK_PRESENT |-> 4, FAKE_VERIFICATION_SITE |-> 4, SHORTENED_URL |-> 4,
     IMMEDIATE_PAYMENT_DEMAND |-> 2, PAYMENT_DEMAND |-> 2, UPFRONT_FEE_DEMAND |-> 2, PAYMENT_CONTEXT |-> 2,
     QR_PRESENT |-> 4, QR_SCAN_REQUEST |-> 1, SCREEN_SHARE_APP_REQUEST |-> 1,
     BENIGN_PRETEXT_FOR_TECHNICAL_ACTION |-> 4]
MCIndicators == [p1 |-> [class |-> 1, strength |-> 3], p2 |-> [class |-> 2, strength |-> 2],
                 p3 |-> [class |-> 3, strength |-> 1], p4 |-> [class |-> 2, strength |-> 3]]
                @@ [p \in DOMAIN TextIndicators |-> [class |-> TextIndicators[p], strength |-> 3]]

Negative(effect, category, blockable, targets, families, cap) ==
    [effect |-> effect, category |-> category, blockable |-> blockable, targets |-> targets,
     families |-> families, cap |-> cap]
MCNegatives ==
    [n1 |-> Negative("SUPPRESS_INDICATOR", "DENIAL", FALSE, {"p1"}, {AnyFamily}, 0),
     n2 |-> Negative("SUPPRESS_RULE", "EDUCATION", TRUE, {}, {AnyFamily}, 0),
     n3 |-> Negative("CAP_SEVERITY", "EDUCATION", TRUE, {}, {"A"}, 2),
     n4 |-> Negative("CONTEXT_ONLY", "CONTEXT", FALSE, {}, {AnyFamily}, 0),
     NEGATED_CREDENTIAL_REQUEST |-> Negative("SUPPRESS_INDICATOR", "DENIAL", FALSE,
                                             {"CREDENTIAL_REQUEST_OTP", "UPI_PIN_PROMPT"}, {AnyFamily}, 0),
     OTP_DELIVERED_NOT_REQUESTED |-> Negative("SUPPRESS_INDICATOR", "DENIAL", FALSE,
                                              {"CREDENTIAL_REQUEST_OTP"}, {AnyFamily}, 0)]
    @@ [n \in {"EDUCATIONAL_CONTENT", "SELF_PROTECTIVE_WARNING", "SUPPORT_NEVER_ASKS",
               "REPORTED_SCAM_NARRATIVE", "PAY_MERCHANT_DIRECTION", "IT_SUPPORT_CONTEXT", "EXPLICIT_NO_FEE"} |->
           Negative("SUPPRESS_RULE", "EDUCATION", TRUE, {}, {AnyFamily}, 0)]

\* The nodes of a condition, operands first.
Leaf(id) == [op |-> "leaf", id |-> id]
Op(op, n, of) == [op |-> op, n |-> n, of |-> of]

MCOverrides ==
    [o1 |-> [rules |-> {}, families |-> {"A"}, blocks |-> {"EDUCATION"},
             cond |-> <<Leaf("p1"), Leaf("p2"), Op("all_of", 0, {1, 2})>>],
     HR_OTP_DISCLOSURE_REQUEST |->
            [rules |-> {}, families |-> {"TAX-01"}, blocks |-> {"EDUCATION"},
             cond |-> <<Leaf("CREDENTIAL_REQUEST_OTP"), Op("all_of", 0, {1})>>]]

Rule(kind, status, family, cond, min, severity, cap, verdict, languages) ==
    [kind |-> kind, status |-> status, categories |-> {family}, cond |-> cond, min_classes |-> min,
     severity |-> severity, severity_cap |-> cap, verdict |-> verdict, languages |-> languages,
     scripts |-> {}, steps |-> cap = 0]
MCRules ==
    <<Rule("COMPOSITE", "PUBLISHED", "A",
           <<Leaf("p1"), Leaf("p2"), Leaf("p3"), Op("any_of", 0, {2, 3}), Op("all_of", 0, {1, 4})>>,
           2, 4, 0, "SUPPORTED", {}),
      Rule("COMPOSITE", "PUBLISHED", "B", <<Leaf("p1"), Leaf("p2"), Leaf("p3"), Op("n_of", 2, {1, 2, 3})>>,
           2, 3, 2, "PARTIAL", {"en"}),
      Rule("COMPOSITE", "PUBLISHED", "B", <<Leaf("p2"), Leaf("p3"), Leaf("p4"), Op("any_of", 0, {1, 2, 3})>>,
           2, 2, 0, "HEURISTIC", {}),
      Rule("COMPOSITE", "APPROVED", "A", <<Leaf("p1")>>, 2, 4, 0, "SUPPORTED", {}),
      Rule("SUPPRESSION", "PUBLISHED", "A", <<Leaf("n2"), Leaf("n4"), Op("all_of", 0, {1, 2})>>,
           0, 0, 0, "HEURISTIC", {}),
      Rule("COMPOSITE", "PUBLISHED", "A", <<Leaf("p2"), Leaf("p3"), Op("all_of", 0, {1, 2})>>,
           2, 1, 0, "SUPPORTED", {}),
      Rule("COMPOSITE", "PUBLISHED", "TAX-01",      \* TL-CRED-001
           <<Leaf("AUTHORITY_IMPERSONATION_BANK"), Leaf("KYC_PRETEXT"), Leaf("ACCOUNT_BLOCK_THREAT"),
             Op("any_of", 0, {1, 2, 3}), Leaf("CREDENTIAL_REQUEST_OTP"), Op("all_of", 0, {4, 5})>>,
           2, 4, 0, "SUPPORTED", {"en"}),
      Rule("COMPOSITE", "PUBLISHED", "TAX-01",      \* TL-PAY-001
           <<Leaf("UPI_PIN_PROMPT"), Leaf("CREDENTIAL_REQUEST_OTP"), Op("any_of", 0, {1, 2}),
             Leaf("RECEIVE_FRAMING"), Op("all_of", 0, {3, 4})>>,
           2, 4, 0, "SUPPORTED", {"en"})>>

Entry(type, id, code, classes) == [type |-> type, id |-> id, code |-> code, classes |-> classes]
MCActionPolicy ==
    <<Entry("OVERRIDE", "o1", "REPORT", {}), Entry("RULE", 1, "STOP", {}),
     Entry("TAXONOMY", "B", "WARN", {}), Entry("NEGATIVE_INDICATOR", "n4", "NOTE", {}),
     Entry("RULE_VERIFICATION_POLICY", 0, "VERIFY", SCAM),
     Entry("SYSTEM_CLASSIFICATION", "NO_SCAM_PATTERN", "RELAX", {}),
     Entry("SYSTEM_SUPPORT_STATUS", "UNSUPPORTED", "EXPLAIN", {})>>

-----------------------------------------------------------------------------
Observation(id, status, polarity, in) ==
    [id |-> id, status |-> status, polarity |-> polarity, attribution |-> "FIRST_PARTY",
     mood |-> "IMPERATIVE", input |-> in]
\* 4 is negated, 5 ambiguous, 6 not observed, 7 of another input, 101 has a mapped identifier.
HostObservations ==
    {Observation(i, "OBSERVED", "AFFIRMED", 1) : i \in {1, 2, 3, 101}}
        \cup {Observation(4, "OBSERVED", "NEGATED", 1), Observation(5, "AMBIGUOUS", "AFFIRMED", 1),
              Observation(6, "NOT_OBSERVED", "AFFIRMED", 1), Observation(7, "OBSERVED", "AFFIRMED", 2)}

Occurrence(ind, matched, conf, polarity, refs, in) ==
    [ind |-> ind, matched |-> matched, conf |-> conf, polarity |-> polarity, refs |-> refs, input |-> in]
Pos(ind, matched, conf, refs) == Occurrence(ind, matched, conf, "POSITIVE", refs, 1)
Neg(ind, refs) == Occurrence(ind, "OBSERVED", 2, "NEGATIVE", refs, 1)
HostOccurrences ==
    {Pos("p1", "OBSERVED", 3, {1}), Pos("p1", "OBSERVED", 3, {2}), Pos("p1", "OBSERVED", 2, {4}),
     Pos("p1", "NOT_OBSERVED", 2, {}), Occurrence("p1", "OBSERVED", 2, "NEGATIVE", {1}, 1),
     Pos("p2", "OBSERVED", 2, {1}), Pos("p2", "OBSERVED", 2, {3}), Pos("p2", "OBSERVED", 0, {5}),
     Pos("p2", "AMBIGUOUS", 1, {}), Pos("p2", "NOT_OBSERVED", 2, {}), Pos("p2", "OBSERVED", 2, {6}),
     Pos("p3", "OBSERVED", 1, {2}), Pos("p3", "OBSERVED", 2, {3}), Pos("p3", "OBSERVED", 2, {}),
     Pos("p3", "OBSERVED", 2, {9}), Pos("p4", "OBSERVED", 2, {2, 3}), Pos("p3", "OBSERVED", 2, {101}),
     Neg("n1", {1}), Neg("n1", {}), Neg("n2", {}), Neg("n3", {2}), Neg("n4", {}),
     Occurrence("p1", "OBSERVED", 2, "NONE", {7}, 2)}

\* Those that AI may meet.
Combined ==
    {Pos("p1", "OBSERVED", 3, {1}), Pos("p1", "OBSERVED", 2, {4}), Pos("p1", "NOT_OBSERVED", 2, {}),
     Pos("p2", "OBSERVED", 2, {1}), Pos("p2", "OBSERVED", 0, {5}), Pos("p2", "NOT_OBSERVED", 2, {}),
     Pos("p3", "OBSERVED", 1, {2}), Pos("p3", "OBSERVED", 2, {101}), Pos("p3", "OBSERVED", 2, {9}),
     Neg("n1", {}), Neg("n2", {}), Occurrence("p1", "OBSERVED", 2, "NONE", {7}, 2)}

Host(s, enabled) ==
    [occs |-> s, obs |-> {o \in HostObservations : o.id \in UNION {io.refs : io \in s}},
     language |-> "en", script |-> "Latn", support |-> "SUPPORTED", whole |-> FALSE, id |-> 1,
     enabled |-> enabled, config |-> "valid"]

UpTo2(S) == {{}} \cup {{a, b} : a, b \in S}
UpTo3(S) == {{}} \cup {{a, b, c} : a, b, c \in S}
Base == Host({Pos("p1", "OBSERVED", 3, {1}), Pos("p2", "OBSERVED", 2, {3})}, TRUE)

\* Without AI up to three occurrences, with AI up to two, and the other kinds of request.
MCInputs ==
    {Host(s, FALSE) : s \in UpTo3(HostOccurrences)}
        \cup {Host(s, TRUE) : s \in UpTo2(Combined)}
        \cup {[Base EXCEPT !.config = c] : c \in {"invalid", "no_run"}}
        \cup {[Base EXCEPT !.language = "hi"], [Base EXCEPT !.support = "PARTIALLY_SUPPORTED"],
              [Base EXCEPT !.whole = TRUE], [Base EXCEPT !.whole = TRUE, !.support = "ERROR"]}
        \cup {[Base EXCEPT !.support = u] : u \in {"UNSUPPORTED", "INSUFFICIENT_INFORMATION", "ERROR"}}

-----------------------------------------------------------------------------
Seen(pid, status, grounded) ==
    [pid |-> pid, status |-> status, polarity |-> "AFFIRMED", attribution |-> "FIRST_PARTY",
     mood |-> "IMPERATIVE", input |-> 1, grounded |-> grounded]
Proposal(pid, ind, polarity, matched, refs) ==
    [pid |-> pid, ind |-> ind, polarity |-> polarity, matched |-> matched, refs |-> refs, input |-> 1]

GoodObs == {Seen(1, "OBSERVED", TRUE), Seen(2, "OBSERVED", TRUE), Seen(3, "AMBIGUOUS", TRUE)}
GoodInds ==
    {Proposal(1, "p1", "POSITIVE", "OBSERVED", {1}), Proposal(2, "p2", "POSITIVE", "OBSERVED", {2}),
     Proposal(3, "p3", "POSITIVE", "OBSERVED", {1, 2}), Proposal(4, "p2", "POSITIVE", "AMBIGUOUS", {3}),
     Proposal(5, "p1", "POSITIVE", "NOT_OBSERVED", {}), Proposal(6, "n1", "NEGATIVE", "OBSERVED", {1}),
     Proposal(7, "n2", "NEGATIVE", "OBSERVED", {2})}
Answer(obs, inds) ==
    [form |-> "schema_valid", request |-> 1, input |-> 1, obs |-> obs, inds |-> inds]
GoodAnswer == Answer(GoodObs, {Proposal(1, "p1", "POSITIVE", "OBSERVED", {1})})

MCResponses ==
    {Answer(GoodObs, s) : s \in UpTo2(GoodInds)} \cup {Answer({}, {})}
        \cup {[GoodAnswer EXCEPT !.form = f] : f \in {"wrong_type", "malformed", "too_large"}}
        \cup {[GoodAnswer EXCEPT !.request = 2], [GoodAnswer EXCEPT !.input = 2]}
        \cup {Answer(GoodObs, {i}) : i \in {Proposal(1, "p9", "POSITIVE", "OBSERVED", {1}),
                                            Proposal(1, "p1", "POSITIVE", "OBSERVED", {9}),
                                            Proposal(1, "p1", "POSITIVE", "OBSERVED", {})}}
        \cup {Answer(GoodObs \cup {o}, {Proposal(1, "p2", "POSITIVE", "OBSERVED", {4})})
                : o \in {Seen(4, "NOT_OBSERVED", TRUE), Seen(4, "OBSERVED", FALSE)}}
        \cup {Answer({Seen(1, "OBSERVED", TRUE), Seen(1, "AMBIGUOUS", TRUE)}, {})}

-----------------------------------------------------------------------------
(* Texts.  Six English words in two sentences, with matches at three of them. *)

Ordinary == [i \in 1..11 |-> IF i % 2 = 1 THEN "e" ELSE "s"]
Match(name, word, detail, after) ==
    [name |-> name, start |-> 2 * word - 1, end |-> 2 * word - 1, sentence |-> IF word <= 3 THEN 1 ELSE 2,
     negation |-> FAR, lifted |-> FALSE, coerced |-> FALSE, quoted |-> FALSE, hypothetical |-> FALSE,
     reported |-> FALSE, question |-> FALSE, directive |-> TRUE, detail |-> detail, after |-> after]
\* The ways in which the same words can be meant.
Ways(x) ==
    {x, [x EXCEPT !.directive = FALSE], [x EXCEPT !.question = TRUE], [x EXCEPT !.negation = 1],
     [x EXCEPT !.negation = 4], [x EXCEPT !.negation = 1, !.lifted = TRUE],
     [x EXCEPT !.negation = 1, !.coerced = TRUE], [x EXCEPT !.quoted = TRUE],
     [x EXCEPT !.hypothetical = TRUE], [x EXCEPT !.reported = TRUE],
     [x EXCEPT !.negation = 1, !.quoted = TRUE]}

Otp(word) == Match("credential_request", word, {"OTP"}, <<>>)
Block(word) == Match("account_block", word, {}, <<>>)
Bare == {"credential_pronoun", "otp_delivered", "account_block", "suspension", "kyc", "urgency_contextual", "deadline",
         "secrecy", "immediate_payment", "payment_demand", "upfront_fee", "payment_context", "qr_mention",
         "attachment", "bank_claim", "authority_claim", "educational", "official_channel", "screen_share",
         "it_support", "benign_cue", "explicit_no_fee"}
At(word) ==
    {Match(name, word, {}, <<>>) : name \in Bare}
        \cup {Match("credential_request", word, d, <<>>) : d \in {{"OTP"}, {"OTP", "plural"}, {"PASSWORD"}}}
        \cup {Match("upi_pin", word, {}, a) : a \in {<<>>, <<"receive">>, <<"merchant">>, <<"pay", "receive">>}}
        \cup {Match("qr_scan", word, {}, a) : a \in {<<>>, <<"merchant", "receive">>, <<"merchant">>}}
        \cup {Match("url", word, {}, <<>>), [Match("url", word, {"verify", "short"}, <<>>) EXCEPT !.end = 2 * word + 1]}

Message(raw, matches, cues) ==
    [raw |-> raw, bytes |-> "utf8", narrative |-> FALSE, matches |-> matches, cues |-> cues]
AllCues == {"verification_context", "otp_mention", "service_subject", "it_support_task"}
Spoken(matches) == Message(Ordinary, matches, AllCues)

\* All sequences of up to n elements of S.
TextsOver(S, n) == UNION {[1..k -> S] : k \in 0..n}

MCMessages ==
    {Spoken({x, y}) : x \in UNION {Ways(z) : z \in At(1)}, y \in {Otp(2), Block(5), Match("upi_pin", 2, {}, <<"receive">>)}}
        \cup {Spoken({x, Otp(2), Block(4)}) : x \in UNION {Ways(z) : z \in At(1) \cup At(5)}}
        \cup {Spoken({x, y, Block(4)}) : x \in Ways(Otp(1)), y \in Ways(Otp(2))}
        \cup {Spoken({x, y, Otp(4)}) : x \in At(1), y \in At(2)}
        \cup {[Spoken({x, Block(2)}) EXCEPT !.narrative = TRUE] : x \in At(1)}
        \cup {[Spoken({x, Block(2)}) EXCEPT !.cues = {}] : x \in At(1)}
        \cup {[Spoken({Otp(1), Block(2)}) EXCEPT !.bytes = b] : b \in {"too_large", "not_utf8"}}
        \cup {Message(t, {}, {}) : t \in TextsOver({"e", "s", "n", "z", "m", "l", "q"}, 4)
                                        \cup {<<"e", "b">>, <<"e", "m", "m", "s", "z", "e">>}}
        \cup {Message(<<a, "s", b, "s", c, "s", d>>, {}, {}) : a, b, c, d \in {"e", "h", "u", "o", "c", "d", "x"}}
=============================================================================

----------------------------- MODULE Extraction -----------------------------
(***************************************************************************)
(* Deterministic extraction (trustlens_backend/extraction.py) in front of  *)
(* the kernel: a text is normalized with the origin of every character     *)
(* kept, its language is assessed, and what the patterns find becomes      *)
(* observations and indicator occurrences, the host data of module         *)
(* Advisory.                                                               *)
(*                                                                         *)
(* A character stands for its class: "e", "h", "u" are letters of words    *)
(* of the English, Hindi and other word lists, "o" is another letter a-z,  *)
(* "x" a Latin letter beyond a-z, "c" a confusable, "d" a Devanagari       *)
(* letter, "m" a combining mark, "l" a ligature, "q" a spacing accent, "z" *)
(* an invisible format character, "b" a control character; "s" and "n" are *)
(* space and line break.  Positions start at 1 and ends are inclusive.     *)
(*                                                                         *)
(* Regular expressions are external: a message carries its matches         *)
(* [name, start, end, sentence, negation, lifted, coerced, quoted,         *)
(* hypothetical, reported, question, directive, after, detail], where      *)
(* negation is the number of words since the last one (FAR: there is       *)
(* none), lifted says that it is exempt, conditional or contrasted, and    *)
(* after lists the payment directions that the sentence goes on with; and  *)
(* its cues, the patterns that are only searched for.                      *)
(***************************************************************************)
EXTENDS Advisory

CONSTANT Messages    \* [raw, bytes, narrative, matches, cues]

Characters == {"e", "h", "u", "o", "x", "c", "d", "m", "l", "q", "z", "b", "s", "n"}

\* The indicators that a text projects for what it denies, quotes or reports.
Safety ==
    {"NEGATED_CREDENTIAL_REQUEST", "EDUCATIONAL_CONTENT", "SUPPORT_NEVER_ASKS",
     "SELF_PROTECTIVE_WARNING", "REPORTED_SCAM_NARRATIVE"}

\* What a pattern finds.
Matches ==
    [name : STRING, start : Nat, end : Nat, sentence : Nat, negation : Nat, lifted : BOOLEAN,
     coerced : BOOLEAN, quoted : BOOLEAN, hypothetical : BOOLEAN, reported : BOOLEAN,
     question : BOOLEAN, directive : BOOLEAN, after : Seq(STRING), detail : SUBSET STRING]

(* Texts are of these characters, and finitely many matches are found in them;  *)
(* the safety indicators are negative ones of the bundle (_validate_artifacts). *)
ASSUME TextShaped ==
    /\ \A msg \in Messages :
          msg.raw \in Seq(Characters) /\ msg.matches \subseteq Matches /\ IsFiniteSet(msg.matches)
    /\ Safety \subseteq DOMAIN Negatives

VARIABLE message     \* the submitted text; Given when the host's data does not come from one

FAR == 7
MIN_WORDS == 3
Given == [bytes |-> "none"]

-----------------------------------------------------------------------------
(* normalize: NFKC by cluster, no invisible characters, collapsed space *)

IsSpace(ch) == ch \in {"s", "n"}
Invisible(ch) == ch = "z"

\* The external NFKC: compatibility decomposition, then a letter composes with a mark after it.
NFKC(cluster) ==
    LET base == IF cluster[1] = "l" THEN <<"o", "o">>
                ELSE IF cluster[1] = "q" THEN <<"s", "m">> ELSE <<cluster[1]>>
        s == base \o Tail(cluster)
        k == {i \in 1..(Len(s) - 1) : s[i] \in {"e", "h", "u", "o"} /\ s[i + 1] = "m"}
    IN  IF k = {} THEN s ELSE ReplaceAt(RemoveAt(s, Min(k) + 1), Min(k), "x")

\* The last position of the run of characters of S after i.
EndOfRun(raw, i, S) ==
    Max({j \in i..Len(raw) : \A k \in (i + 1)..j : raw[k] \in S})

\* Mutant: a cluster ends before its marks.
ClusterOfOne(raw, i) == i

ClusterEnd(raw, i) == EndOfRun(raw, i, {"m"})

SpaceEnd(raw, i) == EndOfRun(raw, i, {"s", "n", "z"})

\* The character at i goes into s = [out, pending, next]: out has the characters so far, pending at
\* most one space; what comes before next is part of the run or cluster that was taken.
Normalized(raw, s, i) ==
    IF i < s.next \/ Invisible(raw[i]) THEN s
    ELSE IF IsSpace(raw[i])
    THEN LET j == SpaceEnd(raw, i)
             ch == IF \E k \in i..j : raw[k] = "n" THEN "n" ELSE "s"
         IN  [s EXCEPT !.next = j + 1,
                       !.pending = IF s.out = <<>> THEN @ ELSE <<[ch |-> ch, from |-> i, to |-> j]>>]
    ELSE LET j == ClusterEnd(raw, i)
             piece == NFKC(SubSeq(raw, i, j))
         IN  [out |-> s.out \o s.pending \o [k \in DOMAIN piece |-> [ch |-> piece[k], from |-> i, to |-> j]],
              pending |-> <<>>, next |-> j + 1]

normalize(raw) ==
    LET after[i \in 0..Len(raw)] ==
            IF i = 0 THEN [out |-> <<>>, pending |-> <<>>, next |-> 1] ELSE Normalized(raw, after[i - 1], i)
    IN  after[Len(raw)].out
Text(n) == [i \in DOMAIN n |-> n[i].ch]

\* The exact submitted text behind a span of the normalized one.
raw_of(raw, n, start, end) == SubSeq(raw, n[start].from, n[end].to)

-----------------------------------------------------------------------------
(* assess_language: Latin script and English function words *)

Plain == {"e", "h", "u", "o"}
Latin == Plain \cup {"x"}
Count(text, S) == Cardinality({i \in DOMAIN text : text[i] \in S})

\* A few look-alikes in Latin text are folded for matching.
Fold(text) ==
    LET c == Count(text, {"c"})
        latin == Count(text, Latin)
    IN  c > 0 /\ Count(text, {"d"}) = 0 /\ latin > 0 /\ 10 * c <= 3 * (latin + c)

match_text(text) ==
    IF Fold(text) THEN [i \in DOMAIN text |-> IF text[i] = "c" THEN "e" ELSE text[i]] ELSE text

\* Words are maximal runs of a-z; one is in a word list when all of its letters are.
Words(view) ==
    {w \in (DOMAIN view) \X (DOMAIN view) :
        /\ w[1] <= w[2] /\ \A k \in w[1]..w[2] : view[k] \in Plain
        /\ w[1] = 1 \/ view[w[1] - 1] \notin Plain
        /\ w[2] = Len(view) \/ view[w[2] + 1] \notin Plain}
Listed(view, ch) ==
    Cardinality({w \in Words(view) : \A k \in w[1]..w[2] : view[k] = ch})

assess_language(text) ==
    LET view == match_text(text)
        words == Cardinality(Words(view))
        en == Listed(view, "e")
        hi == Listed(view, "h")
        eu == Listed(view, "u")
        latin == Count(text, Latin)
        cyrillic == IF Fold(text) THEN 0 ELSE Count(text, {"c"})
        devanagari == Count(text, {"d"})
        most == Max({latin, cyrillic, devanagari})
        \* The most frequent one, ties by name.
        script == IF most = 0 THEN "Zyyy"
                  ELSE IF cyrillic = most THEN "Cyrl"
                  ELSE IF devanagari = most THEN "Deva" ELSE "Latn"
        assessed == [language |-> "und", script |-> script, supported |-> FALSE, words |-> words,
                     too_short |-> FALSE]
    IN  IF cyrillic + devanagari > 0 \/ latin = 0 THEN assessed
        ELSE IF hi >= 2 /\ hi * 2 >= en THEN [assessed EXCEPT !.language = "hi"]
        ELSE IF eu >= 2 /\ eu > en THEN assessed
        ELSE IF words > 0 /\ (en >= 3 \/ 4 * en >= words)
        THEN [assessed EXCEPT !.language = "en", !.supported = TRUE]
        ELSE [assessed EXCEPT !.too_short = words < MIN_WORDS /\ hi < 2 /\ eu < 2]

-----------------------------------------------------------------------------
(* Message.structure: who says it, whether it is denied, and how *)

Structure(polarity, attribution, mood) ==
    [polarity |-> polarity, attribution |-> attribution, mood |-> mood]

structure(msg, x, request) ==
    LET negated == x.negation <= (IF request THEN 6 ELSE 2) /\ ~ x.lifted /\ ~ x.coerced
        attribution == IF x.quoted THEN "QUOTED"
                       ELSE IF x.hypothetical THEN "HYPOTHETICAL"
                       ELSE IF x.reported \/ msg.narrative THEN "REPORTED" ELSE "FIRST_PARTY"
        mood == IF attribution # "FIRST_PARTY" THEN "DESCRIPTIVE"
                ELSE IF x.question THEN "INTERROGATIVE"
                ELSE IF ~ request \/ x.directive \/ x.coerced THEN "DIRECTIVE" ELSE "DESCRIPTIVE"
    IN  Structure(IF negated THEN "NEGATED" ELSE "AFFIRMED", attribution, mood)

\* What the kernel assumes of an observation that states no structure.
Unstated == Structure("AFFIRMED", "FIRST_PARTY", "DIRECTIVE")

claim_structure(msg, x) ==
    LET s == structure(msg, x, FALSE)
    IN  IF s.polarity = "AFFIRMED" /\ s.attribution = "FIRST_PARTY" THEN Unstated
        ELSE [s EXCEPT !.mood = "DESCRIPTIVE"]

\* Mutant: only denial keeps an occurrence from being projected.
NotNegated(s) == s.polarity = "AFFIRMED"

live_first_party(s) == s.polarity = "AFFIRMED" /\ s.attribution = "FIRST_PARTY"

-----------------------------------------------------------------------------
(* Findings: an observation each, and the indicators that it projects.      *)
(* claim says that no structure is stated unless it departs from Unstated;  *)
(* the types that nothing tells apart are all "CLAIM".                      *)

LOW == 1
MEDIUM == 2
HIGH == 3

InUrl(msg, pos) ==
    \E u \in msg.matches : u.name = "url" /\ u.start <= pos /\ pos <= u.end

Find(msg, name) == {x \in msg.matches : x.name = name /\ ~ InUrl(msg, x.start)}
FindAny(msg, names) == UNION {Find(msg, name) : name \in names}
First(xs) == {x \in xs : \A y \in xs : x.start <= y.start}
Outside(xs, covering) ==
    {x \in xs : ~ \E y \in covering : y.start <= x.start /\ x.start <= y.end}

Finding(x, type, s, risky, emits) ==
    [name |-> x.name, start |-> x.start, end |-> x.end, sentence |-> x.sentence, type |-> type,
     s |-> s, claim |-> FALSE, status |-> "OBSERVED", risky |-> risky, emits |-> emits]

Claim(msg, x, type, risky, emits) ==
    [Finding(x, type, claim_structure(msg, x), risky,
             IF live_first_party(claim_structure(msg, x)) THEN emits ELSE {})
        EXCEPT !.claim = TRUE]

\* A request has the confidence of its pattern when it is an instruction.
Request(msg, x, type, ind, conf) ==
    LET s == structure(msg, x, TRUE)
    IN  Finding(x, type, s, TRUE,
                IF live_first_party(s) /\ s.mood # "DESCRIPTIVE"
                THEN {<<ind, IF s.mood = "DIRECTIVE" THEN conf ELSE MEDIUM>>} ELSE {})

\* A demand that is projected in every mood, with less confidence when it only describes.
Demand(msg, x, type, ind) ==
    LET s == structure(msg, x, TRUE)
    IN  Finding(x, type, s, TRUE,
                IF live_first_party(s) THEN {<<ind, IF s.mood # "DESCRIPTIVE" THEN HIGH ELSE MEDIUM>>}
                ELSE {})

\* The claims that differ only in what they are called.
THREATS ==
    [account_block |-> "ACCOUNT_BLOCK_THREAT", suspension |-> "SUSPENSION_THREAT",
     arrest |-> "ARREST_THREAT", legal_accusation |-> "LEGAL_ACCUSATION",
     withdrawal_blocked |-> "WITHDRAWAL_BLOCKED_PRETEXT"]
COERCIONS ==
    [secrecy |-> "SECRECY_REQUEST", isolation |-> "ISOLATION_FROM_FAMILY_OR_LAWYER",
     discourages_verification |-> "DISCOURAGES_VERIFICATION"]
PRETEXTS ==
    [verification_pretext |-> <<"VERIFICATION_PRETEXT", HIGH>>, task_earning |-> <<"TASK_EARNING_LURE", HIGH>>,
     job_guarantee |-> <<"JOB_GUARANTEE", HIGH>>, unsolicited_offer |-> <<"UNSOLICITED_OFFER", MEDIUM>>,
     scarcity |-> <<"SCARCITY_PRESSURE", HIGH>>, investment |-> <<"INVESTMENT_SOLICITATION", MEDIUM>>,
     kyc |-> <<"KYC_PRETEXT", HIGH>>, job_context |-> <<"JOB_CONTEXT", MEDIUM>>,
     parcel |-> <<"PARCEL_PRETEXT", MEDIUM>>, claimed_relative |-> <<"CLAIMED_RELATIVE", MEDIUM>>,
     new_number |-> <<"NEW_NUMBER_CLAIM", MEDIUM>>, return_guarantee |-> <<"RETURN_GUARANTEE", HIGH>>]
ONCE == {"kyc", "job_context", "parcel"}
TECHNICAL ==
    [apk_install |-> "APK_INSTALL_REQUEST", accessibility |-> "ACCESSIBILITY_PERMISSION_REQUEST",
     device_linking |-> "DEVICE_LINKING_CODE_REQUEST", wallet_connect |-> "WALLET_CONNECT_REQUEST"]
URL_FLAGS == [verify |-> "FAKE_VERIFICATION_SITE", short |-> "SHORTENED_URL"]
CREDENTIALS ==
    [OTP |-> "CREDENTIAL_REQUEST_OTP", CVV |-> "CREDENTIAL_REQUEST_CVV", CARD_NUMBER |-> "CREDENTIAL_REQUEST_CARD"]

-----------------------------------------------------------------------------
(* _credential_findings: a denied request is evidence of safety *)

Credential(msg, x, kind) ==
    LET s == structure(msg, x, TRUE)
        conf == IF s.mood = "DIRECTIVE" THEN HIGH ELSE MEDIUM
        safety == {<<"NEGATED_CREDENTIAL_REQUEST", HIGH>>}
                     \cup IF "plural" \in x.detail
                          THEN {<<"EDUCATIONAL_CONTENT", HIGH>>, <<"SUPPORT_NEVER_ASKS", HIGH>>}
                          ELSE {<<"SELF_PROTECTIVE_WARNING", HIGH>>}
        asked == IF kind # "PASSWORD" THEN {<<CREDENTIALS[kind], conf>>}
                 ELSE IF "verification_context" \in msg.cues THEN {<<"VERIFICATION_PROMPT", conf>>} ELSE {}
    IN  Finding(x, "AUTHENTICATION_ACTION", s, s.polarity # "NEGATED",
                IF s.polarity = "NEGATED" THEN safety
                ELSE IF s.attribution = "FIRST_PARTY" THEN asked ELSE {})

CredentialFindings(msg) ==
    LET requests == Find(msg, "credential_request")
        pronouns == {x \in Outside(Find(msg, "credential_pronoun"), requests) :
                        structure(msg, x, TRUE).polarity = "NEGATED" /\ "otp_mention" \in msg.cues}
    IN  {Credential(msg, x, CHOOSE k \in x.detail : k # "plural") : x \in requests}
           \cup {Credential(msg, x, "OTP") : x \in pronouns}

\* A code that is only delivered describes, whatever its clause says.
Delivered(msg) ==
    {LET f == Claim(msg, x, "AUTHENTICATION_ACTION", FALSE, {<<"OTP_DELIVERED_NOT_REQUESTED", HIGH>>})
     IN  [f EXCEPT !.s.mood = "DESCRIPTIVE", !.claim = FALSE] : x \in Find(msg, "otp_delivered")}

ThreatFindings(msg) ==
    LET blocks == Find(msg, "account_block")
        others == FindAny(msg, {"arrest", "legal_accusation", "withdrawal_blocked"})
        suspensions == IF "service_subject" \in msg.cues THEN Outside(Find(msg, "suspension"), blocks) ELSE {}
    IN  {Claim(msg, x, "CLAIM", TRUE, {<<THREATS[x.name], HIGH>>}) : x \in blocks \cup others \cup suspensions}

Threatened(found) == \E f \in found : f.name \in DOMAIN THREATS /\ live_first_party(f.s)

-----------------------------------------------------------------------------
(* _payment_findings: the direction of money is part of the finding *)

\* The finding for what the sentence goes on with; it shares the structure of the action.
Direction(x, f, name, risky, emits) ==
    [f EXCEPT !.name = name, !.start = x.end + 1, !.end = x.end + 1, !.type = "PAYMENT_CONTEXT",
              !.risky = risky, !.emits = IF live_first_party(f.s) THEN emits ELSE {}]

UpiPin(msg, x) ==
    LET f == Demand(msg, x, "AUTHENTICATION_ACTION", "UPI_PIN_PROMPT")
    IN  {f} \cup
        IF x.after = <<>> THEN {}
        ELSE IF Head(x.after) = "receive" THEN {Direction(x, f, "RECEIVE_MONEY", TRUE, {<<"RECEIVE_FRAMING", HIGH>>})}
        ELSE {Direction(x, f, "PAY_OUTBOUND", FALSE,
                        IF Head(x.after) = "merchant" THEN {<<"PAY_MERCHANT_DIRECTION", HIGH>>} ELSE {})}

QrPresent(msg) ==
    Find(msg, "qr_mention") # {} /\ FindAny(msg, {"attachment", "qr_scan"}) # {}

Deposit(msg, x) ==
    LET s == structure(msg, x, TRUE)
    IN  Finding(x, "PAYMENT_CONTEXT", s, TRUE,
                IF live_first_party(s) THEN {<<"DEPOSIT_FOR_EARNINGS", MEDIUM>>} ELSE {})

\* Beside a QR code it is open what a payment is about.
Payment(msg, x) ==
    [Claim(msg, x, "PAYMENT_CONTEXT", TRUE, {<<"PAYMENT_CONTEXT", IF QrPresent(msg) THEN LOW ELSE MEDIUM>>})
        EXCEPT !.status = IF QrPresent(msg) THEN "AMBIGUOUS" ELSE "OBSERVED"]

PaymentFindings(msg, threatened) ==
    LET immediate == Find(msg, "immediate_payment")
        fees == Outside(Find(msg, "upfront_fee"), immediate)
        demands == Outside(Find(msg, "payment_demand"), immediate \cup fees)
        kind == IF threatened THEN "IMMEDIATE_PAYMENT_DEMAND" ELSE "PAYMENT_DEMAND"
    IN  (UNION {UpiPin(msg, x) : x \in Find(msg, "upi_pin")})
           \cup {Demand(msg, x, "PAYMENT_CONTEXT", kind) : x \in immediate}
           \cup {Request(msg, x, "PAYMENT_CONTEXT", "UPFRONT_FEE_DEMAND", MEDIUM) : x \in fees}
           \cup {Request(msg, x, "PAYMENT_CONTEXT", "PAYMENT_DEMAND", MEDIUM) : x \in demands}
           \cup {Payment(msg, x) : x \in Find(msg, "payment_context")}
           \cup {Deposit(msg, x) : x \in Find(msg, "deposit_for_earnings")}

-----------------------------------------------------------------------------
(* Pressure, pretexts, devices, artefacts, links and identities *)

\* A time word is pressure only in a sentence with a live threat or request (among before).
PressureFindings(msg, before) ==
    LET deadlines == Find(msg, "deadline")
        urgent == Outside(Find(msg, "urgency"), deadlines)
        stated == {Claim(msg, x, "CLAIM", TRUE, {<<"URGENCY_DEADLINE", HIGH>>}) : x \in deadlines}
                     \cup {Claim(msg, x, "CLAIM", TRUE, {<<"URGENCY", HIGH>>}) : x \in urgent}
        pressured == {f.sentence : f \in {g \in before \cup stated : g.risky /\ g.emits # {}}}
    IN  stated \cup {Claim(msg, x, "CLAIM", TRUE,
                           IF x.sentence \in pressured THEN {<<"URGENCY", MEDIUM>>} ELSE {})
                        : x \in Outside(Find(msg, "urgency_contextual"), deadlines)}

\* "Do not tell anyone" is coercion and not a denial.
CoercionFindings(msg) ==
    {Claim(msg, [x EXCEPT !.negation = FAR], "CLAIM", TRUE, {<<COERCIONS[x.name], HIGH>>})
        : x \in FindAny(msg, DOMAIN COERCIONS)}

PretextFindings(msg) ==
    LET chosen == UNION {IF name \in ONCE THEN First(Find(msg, name)) ELSE Find(msg, name)
                            : name \in DOMAIN PRETEXTS}
    IN  {Claim(msg, x, "CLAIM", TRUE,
               {PRETEXTS[x.name]} \cup IF "high" \in x.detail THEN {<<"HIGH_RETURN_MENTION", MEDIUM>>} ELSE {})
            : x \in chosen}
        \cup {Claim(msg, x, "CLAIM", FALSE, {<<"EXPLICIT_NO_FEE", HIGH>>}) : x \in Find(msg, "explicit_no_fee")}
        \cup {Request(msg, x, "LINK_ACTION", "OFF_PLATFORM_HANDOFF", MEDIUM) : x \in Find(msg, "off_platform")}
        \cup {Request(msg, x, "DEVICE_ACTION", "USSD_CODE_DIAL_REQUEST", HIGH) : x \in Find(msg, "ussd_dial")}

TechnicalFindings(msg) ==
    {Demand(msg, x, "DEVICE_ACTION", "SCREEN_SHARE_APP_REQUEST") : x \in Find(msg, "screen_share")}
        \cup {Request(msg, x, "DEVICE_ACTION", TECHNICAL[x.name], HIGH) : x \in FindAny(msg, DOMAIN TECHNICAL)}

\* A support context excuses a technical action unless credentials or money are asked for too.
CoverFindings(msg, technical, before) ==
    LET it == IF "it_support_task" \in msg.cues THEN Find(msg, "it_support") ELSE {}
        sensitive == \E f \in before : /\ f.risky /\ f.emits # {}
                                       /\ f.type \in {"AUTHENTICATION_ACTION", "PAYMENT_CONTEXT"}
        pretext == {<<"BENIGN_PRETEXT_FOR_TECHNICAL_ACTION", MEDIUM>>}
    IN  IF technical = {} THEN {}
        ELSE IF it # {}
        THEN {Claim(msg, x, "CLAIM", FALSE,
                    pretext \cup IF sensitive THEN {} ELSE {<<"IT_SUPPORT_CONTEXT", HIGH>>}) : x \in First(it)}
        ELSE {Claim(msg, x, "CLAIM", TRUE, IF \E f \in technical : f.emits # {} THEN pretext ELSE {})
                 : x \in First(Find(msg, "benign_cue"))}

QrScan(msg, x) ==
    LET s == structure(msg, x, TRUE)
        pays == SelectSeq(x.after, LAMBDA d : d # "receive")
        way == IF Contains(x.after, "receive") THEN {<<"RECEIVE_FRAMING", HIGH>>}
               ELSE IF Head(pays) = "merchant" THEN {<<"PAY_MERCHANT_DIRECTION", HIGH>>} ELSE {}
    IN  Finding(x, "PAYMENT_CONTEXT", s, TRUE,
                IF ~ live_first_party(s) THEN {} ELSE {<<"QR_SCAN_REQUEST", MEDIUM>>} \cup way)

\* The artefact is referenced, not seen: it is projected wherever it is mentioned.
QrFindings(msg) ==
    LET attachments == Find(msg, "attachment")
        marker == First(IF attachments # {} THEN attachments ELSE Find(msg, "qr_mention"))
        present(x) == [Finding(x, "CLAIM", Unstated, FALSE, {<<"QR_PRESENT", MEDIUM>>}) EXCEPT !.claim = TRUE]
    IN  IF ~ QrPresent(msg) THEN {}
        ELSE {present(x) : x \in marker}
                \cup {QrScan(msg, x) : x \in {y \in Find(msg, "qr_scan") : y.after # <<>>}}

UrlFindings(msg) ==
    LET flags(x) == x.detail \cap DOMAIN URL_FLAGS
    IN  {Claim(msg, x, "LINK_ACTION", TRUE,
               {<<"LINK_PRESENT", HIGH>>} \cup {<<URL_FLAGS[d], HIGH>> : d \in flags(x)})
            : x \in {y \in msg.matches : y.name = "url"}}

\* An authority is impersonated only beside a live directive, or a live threat.
AuthorityFindings(msg, before) ==
    LET directed == \E f \in before :
            /\ f.emits # {} /\ f.risky
            /\ f.type \in {"AUTHENTICATION_ACTION", "PAYMENT_CONTEXT", "DEVICE_ACTION", "LINK_ACTION"}
            /\ f.s.mood # "DESCRIPTIVE" /\ ~ f.claim
    IN  {Claim(msg, x, "CLAIM", FALSE,
               IF directed THEN {<<"AUTHORITY_IMPERSONATION_BANK", MEDIUM>>} ELSE {}) : x \in Find(msg, "bank_claim")}
        \cup {Claim(msg, x, "CLAIM", FALSE,
               IF directed \/ Threatened(before) THEN {<<"AUTHORITY_IMPERSONATION", MEDIUM>>} ELSE {})
                 : x \in Find(msg, "authority_claim")}

SafetyFindings(msg) ==
    {Finding(x, "CLAIM", Structure("AFFIRMED", "HYPOTHETICAL", "DESCRIPTIVE"), FALSE, {<<"EDUCATIONAL_CONTENT", HIGH>>})
        : x \in First(Find(msg, "educational"))}
        \cup {Claim(msg, x, "CLAIM", FALSE, {}) : x \in Find(msg, "official_channel")}

\* What each part finds, given what was found before it.
Asked(msg, threats) ==
    threats \cup CredentialFindings(msg) \cup Delivered(msg) \cup PaymentFindings(msg, Threatened(threats))
Pressed(msg, before) ==
    before \cup PressureFindings(msg, before) \cup CoercionFindings(msg) \cup PretextFindings(msg)
Described(msg, technical, before) ==
    before \cup technical \cup CoverFindings(msg, technical, before \cup technical)
        \cup QrFindings(msg) \cup UrlFindings(msg)
Identified(msg, before) == before \cup AuthorityFindings(msg, before) \cup SafetyFindings(msg)

FindAll(msg) ==
    Identified(msg, Described(msg, TechnicalFindings(msg), Pressed(msg, Asked(msg, ThreatFindings(msg)))))

-----------------------------------------------------------------------------
(* _materialize and extract_text: identifiers in text order, the support state *)

\* The risky occurrences that someone else's words contain: one narrative about all of them.
Reported(found) ==
    {f \in found : /\ f.risky /\ f.s.attribution \in {"REPORTED", "QUOTED"}
                   /\ f.s.polarity = "AFFIRMED"}

\* By start, then by end.
InTextOrder(found) ==
    LET order[fs \in SUBSET found] ==
            IF fs = {} THEN <<>>
            ELSE LET f == CHOOSE x \in First(fs) : \A y \in First(fs) : x.end <= y.end
                 IN  <<f>> \o order[fs \ {f}]
    IN  order[found]

Polarity(ind) == IF ind \in DOMAIN Indicators THEN "POSITIVE" ELSE "NEGATIVE"

Occur(ind, conf, refs) ==
    [ind |-> ind, matched |-> "OBSERVED", conf |-> conf, polarity |-> Polarity(ind), refs |-> refs, input |-> 1]

Materialized(found) ==
    LET ordered == InTextOrder(found)
        ids(fs) == {i \in DOMAIN ordered : ordered[i] \in fs}
    IN  [obs |-> {[id |-> i, status |-> ordered[i].status, polarity |-> ordered[i].s.polarity,
                   attribution |-> ordered[i].s.attribution, mood |-> ordered[i].s.mood, input |-> 1]
                     : i \in DOMAIN ordered},
         occs |-> (UNION {{Occur(e[1], e[2], {i}) : e \in ordered[i].emits} : i \in DOMAIN ordered})
                     \cup IF Reported(found) = {} THEN {}
                          ELSE {Occur("REPORTED_SCAM_NARRATIVE", HIGH, ids(Reported(found)))}]

Support(text, language, occs, gaps) ==
    IF Count(text, Latin \cup {"c", "d"}) = 0 \/ language.too_short THEN "INSUFFICIENT_INFORMATION"
    ELSE IF ~ language.supported THEN "UNSUPPORTED"
    ELSE IF language.words < MIN_WORDS /\ occs = {} THEN "INSUFFICIENT_INFORMATION"
    ELSE IF gaps THEN "PARTIALLY_SUPPORTED" ELSE "SUPPORTED"

HostData(found, language, script, support, whole) ==
    [obs |-> Materialized(found).obs, occs |-> Materialized(found).occs,
     language |-> language, script |-> script, support |-> support, whole |-> whole, id |-> 1,
     enabled |-> FALSE, config |-> "valid"]

\* Too many bytes, bytes that are not UTF-8, or control characters: an error of the whole evaluation.
Malformed(msg) == msg.bytes # "utf8" \/ \E i \in DOMAIN msg.raw : msg.raw[i] = "b"

Extracted(text, language, found, gaps) ==
    HostData(found, language.language, language.script,
             Support(text, language, Materialized(found).occs, gaps), FALSE)

Evaluated(msg, text, language) ==
    Extracted(text, language, IF language.supported THEN FindAll(msg) ELSE {},
              language.supported /\ Find(msg, "attachment") # {})

extract_text(msg) ==
    LET text == Text(normalize(msg.raw))
    IN  IF Malformed(msg) THEN HostData({}, "und", "Zzzz", "ERROR", TRUE)
        ELSE Evaluated(msg, text, assess_language(text))

-----------------------------------------------------------------------------
(* The evaluation of a message, or of host data from elsewhere *)

ExtractionInit ==
    \/ message = Given /\ Init
    \/ /\ message \in Messages
       /\ input = extract_text(message)
       /\ Started

ExtractionNext == Next /\ UNCHANGED message

ExtractionSpec == ExtractionInit /\ [][ExtractionNext]_<<vars, message>>

-----------------------------------------------------------------------------
(* Properties *)

\* Offsets keep leading to the submitted text (extraction.py normalize, raw_of): every character
\* that is neither space nor invisible is behind some of the normalized ones, in order; the raw
\* text behind a span of whole clusters normalizes to that span again; a letter is composed with
\* its mark, unless an invisible character was between them; and white space is collapsed and
\* trimmed, unless a character decomposes into it.
SpansTraceable ==
    message # Given /\ stage = "gate" =>
        LET raw == message.raw
            n == normalize(raw)
            whole(i, j) == /\ i = 1 \/ n[i - 1].from # n[i].from
                           /\ j = Len(n) \/ n[j + 1].from # n[j].from
                           /\ ~ IsSpace(raw[n[i].from]) /\ ~ IsSpace(raw[n[j].from])
        IN  /\ \A k \in DOMAIN raw : ~ IsSpace(raw[k]) /\ ~ Invisible(raw[k]) =>
                  \E i \in DOMAIN n : n[i].from <= k /\ k <= n[i].to
            /\ \A i \in DOMAIN n, j \in DOMAIN n : i < j =>
                  n[i].to < n[j].from \/ (n[i].from = n[j].from /\ n[i].to = n[j].to)
            /\ \A i \in DOMAIN n : \A j \in i..Len(n) : whole(i, j) =>
                  Text(normalize(raw_of(raw, n, i, j))) = SubSeq(Text(n), i, j)
            /\ \A i \in 1..(Len(n) - 1) :
                  n[i].ch \in Plain /\ n[i + 1].ch = "m" => n[i].to + 1 < n[i + 1].from
            /\ (\A k \in DOMAIN raw : raw[k] # "q") =>
                  \A i \in DOMAIN n : IsSpace(n[i].ch) =>
                      i > 1 /\ i < Len(n) /\ ~ IsSpace(n[i + 1].ch)

FirstParty(o) == o.polarity = "AFFIRMED" /\ o.attribution = "FIRST_PARTY"

\* The matches outside of links that the kernel would count as live, and whether some rule's
\* combination is what a message says.
Live(msg) ==
    {x \in msg.matches :
        /\ x.name = "url" \/ ~ InUrl(msg, x.start)
        /\ observation_verdict([status |-> "OBSERVED"] @@ structure(msg, x, TRUE)) = "LIVE"}
Charged(msg) ==
    \E said \in {{e[1] : e \in UNION {f.emits : f \in FindAll(msg)}}} :
    \E r \in PublishedRules :
        /\ Rules[r].kind = "COMPOSITE"
        /\ eval_condition(Rules[r].cond, [p \in DOMAIN Indicators |-> IF p \in said THEN "TRUE" ELSE "FALSE"])
              = "TRUE"

\* What the text does not say for itself is never held against it (extraction.py _find_all).  The
\* kernel accepts what is extracted; a positive indicator rests on affirmed first-party words, as
\* which the mention of a QR code counts; a text without such words is not found to be a scam;
\* and a text that cannot be evaluated is neither accused nor cleared.
OnlyLiveWordsCount ==
    message # Given =>
        /\ stage = "gate" /\ input.support \in Evaluable =>
              /\ ValidContext(input.occs, input.obs)
              /\ \A io \in input.occs : io.polarity = "POSITIVE" =>
                    \A o \in input.obs : o.id \in io.refs => FirstParty(o)
        /\ stage = "explain" =>
              /\ input.support \notin Evaluable => decision.class \notin SCAM \cup {"NO_SCAM_PATTERN"}
              /\ (\A o \in input.obs : o.status = "OBSERVED" => ~ FirstParty(o))
                    => decision.class \notin SCAM

\* And what it does say is not excused (extraction.py _find_all, the library's overrides): a text
\* with a live request for a one-time password is found to be a scam, if its live words alone
\* complete a rule, whatever safety language, quotation or denial surrounds them.
LiveRequestsCount ==
    /\ message # Given /\ stage = "explain" /\ input.support \in Evaluable
    /\ \E x \in Live(message) : x.name = "credential_request" /\ "OTP" \in x.detail
    /\ \E bare \in {[message EXCEPT !.matches = Live(message)]} : Charged(bare)
    => decision.class \in SCAM
=============================================================================

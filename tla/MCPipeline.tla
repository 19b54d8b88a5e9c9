------------------------------ MODULE MCPipeline ------------------------------
(***************************************************************************)
(* A request through the gateway (Pipeline), and the custom rules it may   *)
(* meet there, from the rule form to the verdict (RuleExpression).  The    *)
(* pipeline takes what a rule decides as an input, so they share no state: *)
(* a behaviour is about one of them and leaves the other as it starts.     *)
(*                                                                         *)
(* Bounds: two configurations that differ in every part the handlers read, *)
(* and scores on both sides of each cap and threshold; three conditions on *)
(* three fields, one of them a boolean and one an alias, and raw texts     *)
(* with NOT, parentheses and AND.                                          *)
(***************************************************************************)
EXTENDS Pipeline

VARIABLES part, view, editing, mode, group, stored, shown

Weight(e, m, q) == [enabled |-> e, maxScore |-> m, multiplier |-> q]

\* The built-in defaults (multipliers in quarters: the WAF weight is 1.5).
DefaultConfig ==
    [thresholds |-> [block |-> 70, challenge |-> 35],
     weights |-> [ip_reputation    |-> Weight(TRUE, 30, 4),
                  bot_detection    |-> Weight(TRUE, 35, 4),
                  waf_anomaly      |-> Weight(TRUE, 40, 6),
                  protocol_anomaly |-> Weight(TRUE, 35, 4)],
     trustedHistory |-> -4, stableSession |-> -2]

\* A stricter one: bot detection off, halved protocol scores, lower thresholds.
StrictConfig ==
    [thresholds |-> [block |-> 40, challenge |-> 10],
     weights |-> [ip_reputation    |-> Weight(TRUE, 20, 8),
                  bot_detection    |-> Weight(FALSE, 35, 4),
                  waf_anomaly      |-> Weight(TRUE, 60, 4),
                  protocol_anomaly |-> Weight(TRUE, 25, 2)],
     trustedHistory |-> -4, stableSession |-> 0]

MCConfigs == {DefaultConfig, StrictConfig}
MCRepScores == {0, 50}
MCBotScores == {-5, 45}
MCWafScores == {0, 25}
MCProtoScores == {0, 15}
MCTrustReductions == [l \in 0..3 |-> -5 * l]
MCSkipSets == {{}, {"bot", "flood"}, {"ip_reputation", "waf", "protocol_anomaly"}}
MCLimitActions == {"block", "challenge"}
-----------------------------------------------------------------------------
(* The rule form *)

RuleRegistry == [f \in {"http.path", "asn", "client.is_mobile", "device.is_mobile"} |->
                 CASE f = "http.path" -> "string" [] f = "asn" -> "int" [] OTHER -> "bool"]
RuleExtracted == DOMAIN RuleRegistry
RuleText == {<<"prefix", "/a", "/a">>, <<"regex", "/a", "/.">>}
RuleToInt == [x \in {"", "/", "/a", "1", "7", "true", "false"} |-> IF x = "7" THEN 7 ELSE IF x = "1" THEN 1 ELSE 0]

Field(path, asn, mobile) == [f \in RuleExtracted |->
    CASE f = "http.path" -> path [] f = "asn" -> asn [] OTHER -> mobile]
Traffic == {Field(p, a, m) : p \in {"/a", "/"}, a \in {"7", "1"}, m \in {"true", "false"}}

C(f, o, v) == [field |-> f, op |-> o, value |-> v, quoted |-> FALSE]
Chosen == {C("http.path", "prefix", <<"/a">>), C("client.is_mobile", "neq", <<>>), C("asn", "in", <<>>)}

\* The tokens of RuleExpression.
Word(w) == [word |-> w, cond |-> <<>>]
Atom(c) == [word |-> "cond", cond |-> <<c>>]

Q(f, o, v) == Atom([field |-> f, op |-> o, value |-> <<v>>, quoted |-> TRUE])
Mobile == Q("device.is_mobile", "eq", "false")
Path == Q("http.path", "regex", "/.")
Asn == Q("asn", "eq", "7")
Bad == Q("http.path", "regex", "(")
Typed == {
    <<Word("NOT"), Word("("), Path, Word("OR"), Mobile, Word(")"), Word("AND"), Path>>,
    <<Word("NOT"), Word("("), Bad, Word("AND"), Mobile, Word(")")>>,
    <<Path, Word("AND"), Mobile, Path>>,
    <<Path, Word("AND"), Asn>>}
RuleBadPatterns == {"("}

Rule == INSTANCE RuleExpression WITH
    Registry <- RuleRegistry, Extracted <- RuleExtracted, Aliases <- {"device.is_mobile"},
    Text <- RuleText, ToInt <- RuleToInt, BadPatterns <- RuleBadPatterns,
    Requests <- Traffic, Conditions <- Chosen, RawExpressions <- Typed, MaxConditions <- 3

formVars == <<view, editing, mode, group, stored, shown>>

GatewayInit == /\ part \in {"request", "form"} /\ Init /\ Rule!Init
               /\ part = "form" => cfg = DefaultConfig
GatewayNext == \/ part = "request" /\ Next /\ UNCHANGED <<part, formVars>>
               \/ part = "form" /\ Rule!Next /\ UNCHANGED <<part, vars>>

GatewaySpec == GatewayInit /\ [][GatewayNext]_<<part, vars, formVars>>

\* A saved rule decides every request as the builder shows it, of RuleExpression.
SavedAsShown == Rule!SavedAsShown

\* What the validator accepts the evaluator can decide, of RuleExpression.
AcceptedIsDecidable == Rule!AcceptedIsDecidable

\* Opening a rule built in the visual builder shows what it does, of RuleExpression.
BuiltReopens == Rule!BuiltReopens
=============================================================================

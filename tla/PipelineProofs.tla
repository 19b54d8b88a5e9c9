--------------------------- MODULE PipelineProofs ---------------------------
(***************************************************************************)
(* Theorems about Pipeline, for every set of scoring configurations, every *)
(* set of scores and every limiter configuration.                          *)
(***************************************************************************)
EXTENDS Pipeline, TLAPS

-----------------------------------------------------------------------------
(* The risk score operators: types, and total = sum of the categories *)

Balanced(rs) == rs.total = SumOfCategories(rs.by)

\* RiskScore.Add keeps the type and the balance of a risk score.
LEMMA AddScoreBalanced ==
    ASSUME NEW rs \in RiskScores, NEW c \in Categories, NEW n \in Int
    PROVE  /\ AddScore(rs, c, n) \in RiskScores
           /\ Balanced(rs) => Balanced(AddScore(rs, c, n))
  BY DEF AddScore, RiskScores, Categories, WeightedCategories, Balanced, SumOfCategories

\* Writing one category moves the total by the same amount.
LEMMA SetCategoryBalanced ==
    ASSUME NEW rs \in RiskScores, NEW c \in Categories, NEW v \in Int
    PROVE  /\ SetCategory(rs, c, v) \in RiskScores
           /\ Balanced(rs) => Balanced(SetCategory(rs, c, v))
  BY DEF SetCategory, RiskScores, Categories, WeightedCategories, Balanced, SumOfCategories

\* The scaled score is an integer.
LEMMA ScaleInt ==
    ASSUME NEW x \in Int, NEW q \in Nat
    PROVE  Scale(x, q) \in Int
  BY DEF Scale

\* The parts of a category weight.
LEMMA WeightTypes ==
    ASSUME NEW w \in Weights
    PROVE  w.multiplier \in Nat /\ w.maxScore \in Int /\ w.enabled \in BOOLEAN
  BY DEF Weights

\* One category's weight (multiplier then cap, or disabled) keeps the balance.
LEMMA ApplyCategoryBalanced ==
    ASSUME NEW rs \in RiskScores, NEW c \in WeightedCategories, NEW w \in Weights
    PROVE  /\ ApplyCategory(rs, c, w) \in RiskScores
           /\ Balanced(rs) => Balanced(ApplyCategory(rs, c, w))
<1> DEFINE scaled == ApplyMultiplier(rs, c, w.multiplier)
<1>1. /\ c \in Categories /\ rs.by[c] \in Int
      /\ w.multiplier \in Nat /\ w.maxScore \in Int /\ w.enabled \in BOOLEAN
  BY WeightTypes DEF Categories, RiskScores
<1>2. scaled \in RiskScores /\ (Balanced(rs) => Balanced(scaled))
  <2>1. Scale(rs.by[c], w.multiplier) \in Int
    BY <1>1, ScaleInt
  <2> QED
    BY <1>1, <2>1, SetCategoryBalanced DEF ApplyMultiplier
<1> HIDE DEF scaled
<1>3. /\ ApplyCap(scaled, c, w.maxScore) \in RiskScores
      /\ Balanced(scaled) => Balanced(ApplyCap(scaled, c, w.maxScore))
  BY <1>1, <1>2, SetCategoryBalanced DEF ApplyCap
<1>4. /\ SetCategory(rs, c, 0) \in RiskScores
      /\ Balanced(rs) => Balanced(SetCategory(rs, c, 0))
  BY <1>1, SetCategoryBalanced
<1> QED
  BY <1>1, <1>2, <1>3, <1>4 DEF ApplyCategory, scaled

\* The four weights of a configuration keep the balance.
LEMMA ApplyWeightsBalanced ==
    ASSUME NEW rs \in RiskScores, NEW ws \in [WeightedCategories -> Weights]
    PROVE  /\ ApplyWeights(rs, ws) \in RiskScores
           /\ Balanced(rs) => Balanced(ApplyWeights(rs, ws))
<1> DEFINE a == ApplyCategory(rs, "ip_reputation", ws["ip_reputation"])
           b == ApplyCategory(a, "bot_detection", ws["bot_detection"])
           d == ApplyCategory(b, "waf_anomaly", ws["waf_anomaly"])
           e == ApplyCategory(d, "protocol_anomaly", ws["protocol_anomaly"])
<1>0. \A c \in WeightedCategories : ws[c] \in Weights
  OBVIOUS
<1>c. /\ "ip_reputation" \in WeightedCategories /\ "bot_detection" \in WeightedCategories
      /\ "waf_anomaly" \in WeightedCategories /\ "protocol_anomaly" \in WeightedCategories
  BY DEF WeightedCategories
<1>1. a \in RiskScores /\ (Balanced(rs) => Balanced(a))
  BY <1>0, <1>c, ApplyCategoryBalanced
<1>2. b \in RiskScores /\ (Balanced(a) => Balanced(b))
  <2> HIDE DEF a
  <2> QED BY <1>0, <1>c, <1>1, ApplyCategoryBalanced
<1>3. d \in RiskScores /\ (Balanced(b) => Balanced(d))
  <2> HIDE DEF b
  <2> QED BY <1>0, <1>c, <1>2, ApplyCategoryBalanced
<1>4. e \in RiskScores /\ (Balanced(d) => Balanced(e))
  <2> HIDE DEF d
  <2> QED BY <1>0, <1>c, <1>3, ApplyCategoryBalanced
<1>5. ApplyWeights(rs, ws) = e
  BY DEF ApplyWeights
<1> HIDE DEF a, b, d, e
<1> QED
  BY <1>1, <1>2, <1>3, <1>4, <1>5

\* The clamp changes the total only, and to the sum clamped when it was balanced.
LEMMA ClampTotalFacts ==
    ASSUME NEW rs \in RiskScores
    PROVE  /\ ClampTotal(rs) \in RiskScores
           /\ ClampTotal(rs).by = rs.by
           /\ ClampTotal(rs).total \in 0..MaxTotal
           /\ Balanced(rs) =>
                ClampTotal(rs).total
                  = ClampTotal([rs EXCEPT !.total = SumOfCategories(rs.by)]).total
  BY DEF ClampTotal, RiskScores, MaxTotal, Balanced

-----------------------------------------------------------------------------
(* Decisions *)

\* ResolveDecision picks one of its arguments and never lowers the rank.
LEMMA ResolveDecisionFacts ==
    ASSUME NEW d \in Actions, NEW a \in Actions
    PROVE  /\ ResolveDecision(d, a) \in {d, a}
           /\ GetActionRank(ResolveDecision(d, a)) >= GetActionRank(d)
           /\ d \in {"challenge", "block"} => ResolveDecision(d, a) \in {"challenge", "block"}
<1> DEFINE rd == GetActionRank(d)
           ra == GetActionRank(a)
<1>0. ASSUME NEW x \in Actions
      PROVE  /\ GetActionRank(x) \in {0, 1, 2, 3, 4}
             /\ x \in {"challenge", "block"} => GetActionRank(x) \in {3, 4}
             /\ x \notin {"challenge", "block"} => GetActionRank(x) \in {0, 1, 2}
  <2>1. GetActionRank(x) \in {0, 1, 2, 3, 4}
    BY DEF GetActionRank, Actions
  <2>2. x \in {"challenge", "block"} => GetActionRank(x) \in {3, 4}
    BY DEF GetActionRank, Actions
  <2>3. x \notin {"challenge", "block"} => GetActionRank(x) \in {0, 1, 2}
    BY DEF GetActionRank, Actions
  <2> QED BY <2>1, <2>2, <2>3
<1>1. /\ rd \in {0, 1, 2, 3, 4} /\ ra \in {0, 1, 2, 3, 4}
      /\ d \in {"challenge", "block"} => rd \in {3, 4}
      /\ a \notin {"challenge", "block"} => ra \in {0, 1, 2}
  BY <1>0
<1>2. ResolveDecision(d, a) = d \/ (ResolveDecision(d, a) = a /\ ra > rd)
  BY Zenon DEF ResolveDecision
<1> HIDE DEF ra, rd
<1>3. ResolveDecision(d, a) \in {d, a}
  BY <1>2
<1>4. CASE ResolveDecision(d, a) = d
  BY <1>1, <1>3, <1>4 DEF rd
<1>5. CASE ResolveDecision(d, a) = a /\ ra > rd
  BY <1>1, <1>3, <1>5 DEF ra, rd
<1> QED
  BY <1>2, <1>4, <1>5

\* AddDecision keeps the type of a context and touches action, decision and source only.
LEMMA AddDecisionFacts ==
    ASSUME NEW c \in Contexts, NEW a \in Actions, NEW s \in Sources
    PROVE  LET n == AddDecision(c, a, s)
           IN  /\ n \in Contexts
               /\ n.action = n.decision
               /\ n.decision = ResolveDecision(c.decision, a)
               /\ n.hard = c.hard /\ n.ipTerminal = c.ipTerminal /\ n.passed = c.passed
               /\ n.skip = c.skip /\ n.wafStatus = c.wafStatus /\ n.rs = c.rs
<1> DEFINE d == ResolveDecision(c.decision, a)
<1>1. c.decision \in Actions
  BY DEF Contexts
<1>2. d \in Actions
  BY <1>1, ResolveDecisionFacts
<1> DEFINE src == IF d = c.decision THEN c.source ELSE s
           n == AddDecision(c, a, s)
<1>3. src \in Sources
  BY DEF Contexts
<1>4. n = [c EXCEPT !.decision = d, !.action = d, !.source = src]
  BY DEF AddDecision, Contexts
<1> HIDE DEF d, src, n
<1>5. n \in Contexts
  BY <1>2, <1>3, <1>4 DEF Contexts
<1>6. /\ n.action = d /\ n.decision = d
      /\ n.hard = c.hard /\ n.ipTerminal = c.ipTerminal /\ n.passed = c.passed
      /\ n.skip = c.skip /\ n.wafStatus = c.wafStatus /\ n.rs = c.rs
  BY <1>4 DEF Contexts
<1> QED
  BY <1>5, <1>6 DEF d, n

\* A hard decision is a decision with the HardDecision flag.
LEMMA HardDecideFacts ==
    ASSUME NEW c \in Contexts, NEW a \in Actions, NEW s \in Sources
    PROVE  LET n == HardDecide(c, a, s)
           IN  /\ n \in Contexts
               /\ n.hard
               /\ n.action = n.decision
               /\ n.decision = ResolveDecision(c.decision, a)
               /\ n.passed = c.passed
               /\ n.skip = c.skip /\ n.wafStatus = c.wafStatus /\ n.rs = c.rs
<1> DEFINE m == AddDecision(c, a, s)
<1>1. /\ m \in Contexts /\ m.action = m.decision
      /\ m.decision = ResolveDecision(c.decision, a) /\ m.passed = c.passed
      /\ m.skip = c.skip /\ m.wafStatus = c.wafStatus /\ m.rs = c.rs
  BY AddDecisionFacts
<1> HIDE DEF m
<1>2. HardDecide(c, a, s) = [m EXCEPT !.hard = TRUE]
  BY DEF HardDecide, m
<1> QED
  BY <1>1, <1>2 DEF Contexts

\* Adding to the score changes nothing else of a context.
LEMMA ScoreFacts ==
    ASSUME NEW c \in Contexts, NEW k \in Categories, NEW n \in Int
    PROVE  LET m == Score(c, k, n)
           IN  /\ m \in Contexts
               /\ m.rs = AddScore(c.rs, k, n)
               /\ m.action = c.action /\ m.decision = c.decision /\ m.hard = c.hard
               /\ m.passed = c.passed
               /\ Balanced(c.rs) => Balanced(m.rs)
<1>1. c.rs \in RiskScores
  BY DEF Contexts
<1>2. AddScore(c.rs, k, n) \in RiskScores /\ (Balanced(c.rs) => Balanced(AddScore(c.rs, k, n)))
  BY <1>1, AddScoreBalanced
<1> QED
  BY <1>1, <1>2 DEF Contexts, Score

-----------------------------------------------------------------------------
(* Type correctness *)

\* A natural number is an integer.
LEMMA NatIsInt == \A n \in Nat : n \in Int
  OBVIOUS

\* The constants that reach the score are integers.
LEMMA InputTypes ==
    /\ \A c \in Configs : /\ c.weights \in [WeightedCategories -> Weights]
                         /\ c.trustedHistory \in Int /\ c.stableSession \in Int
    /\ \A s \in RepScores : s \in Int
    /\ \A s \in BotScores : s \in Int
    /\ \A s \in WafScores : s \in Nat
    /\ \A s \in ProtoScores : s \in Nat
    /\ \A l \in 0..3 : TrustReductions[l] \in Int
    /\ LimitActions \subseteq Actions
  BY ConfigsValid, ScoresAreInts, ReductionsAreInts, LimitActionsAreActions
     DEF ValidScoringConfig

\* A new context has the type of a context.
LEMMA NewContextType == NewContext \in Contexts
<1>1. NewRiskScore \in RiskScores
  BY DEF NewRiskScore, RiskScores
<1>2. "" \in Actions /\ "" \in Sources /\ 0 \in 0..3 /\ {} \in SUBSET Modules
  BY DEF Actions, Sources
<1> QED
  BY <1>1, <1>2 DEF NewContext, Contexts

\* Every action keeps the types.
LEMMA TypeStep == TypeOK /\ [Next]_vars => TypeOK'
<1> SUFFICES ASSUME TypeOK, [Next]_vars PROVE TypeOK'
  OBVIOUS
<1> USE DEF TypeOK
<1>a. /\ RuleActions \subseteq Actions
      /\ "ip_access_rule" \in Sources /\ "flood" \in Sources /\ "rate_limit" \in Sources
      /\ "custom_rule" \in Sources /\ "scoring_engine" \in Sources
      /\ "under_attack_mode" \in Sources
      /\ "challenge" \in Actions /\ "block" \in Actions
  BY DEF RuleActions, Actions, Sources
<1>b. \A st \in Phase1, h \in BOOLEAN : AfterPhase1(st, h) \in Labels
  <2>1. \A st \in Phase1 : st # "rules" => Successor(st) \in Labels
    BY DEF Successor, Phase1, Labels
  <2>2. /\ "ws_verdict" \in Labels /\ "block_handler" \in Labels
        /\ "ip_reputation" \in Labels
    BY DEF Labels, Phase2
  <2> QED
    BY <2>1, <2>2, Zenon DEF AfterPhase1
<1>c. \A st \in Phase2 : Successor(st) \in Labels
  BY DEF Successor, Phase1, Phase2, Labels
<1>d. ASSUME NEW st \in Phase1, NEW c \in Contexts, Leave1(st, c) PROVE TypeOK'
  <2>1. c.hard \in BOOLEAN
    BY DEF Contexts
  <2> QED BY <1>b, <1>d, <2>1 DEF Leave1
<1>e. ASSUME NEW st \in Phase2, NEW c \in Contexts, Leave2(st, c) PROVE TypeOK'
  BY <1>c, <1>e DEF Leave2
<1>f. ASSUME NEW o \in Outputs, Respond(o) PROVE TypeOK'
  BY <1>f DEF Respond, Labels
<1>g. NewContext \in Contexts
  BY NewContextType
<1>h. /\ "ip_reputation" \in Categories /\ "bot_detection" \in Categories
      /\ "waf_anomaly" \in Categories /\ "protocol_anomaly" \in Categories
      /\ "trust" \in Categories /\ "ip_reputation" \in WeightedCategories
  BY DEF Categories, WeightedCategories
<1>1. CASE Arrive
  BY <1>1 DEF Arrive, Labels
<1>2. CASE AnswerEarly
  BY <1>2, <1>f DEF AnswerEarly, Outputs
<1>3. CASE RefuseWebSocket
  BY <1>3, <1>f DEF RefuseWebSocket, Outputs
<1>4. CASE CheckWebSocket
  BY <1>4 DEF CheckWebSocket, Labels, Phase1
<1>5. CASE EnterPipeline
  BY <1>5, <1>a, AddDecisionFacts DEF EnterPipeline, Labels, Phase1
<1>6. CASE ChallengeValidator
  <2>1. \A l \in 0..3 : [ctx EXCEPT !.passed = TRUE, !.trust = l, !.action = ""] \in Contexts
    BY DEF Contexts, Actions
  <2> QED BY <1>6, <1>d, <2>1 DEF ChallengeValidator, Phase1
<1>7. CASE IPAccess
  <2>1. ASSUME NEW a \in RuleActions
        PROVE  [HardDecide(ctx, a, "ip_access_rule")
                    EXCEPT !.ipTerminal = TRUE, !.ipRule = a] \in Contexts
    <3>1. HardDecide(ctx, a, "ip_access_rule") \in Contexts
      BY <1>a, HardDecideFacts
    <3> QED BY <3>1 DEF Contexts
  <2> QED BY <1>7, <1>d, <2>1 DEF IPAccess, Phase1
<1>8. CASE Flood
  <2>1. \A a \in LimitActions \cup {"block", "challenge"} : HardDecide(ctx, a, "flood") \in Contexts
    BY <1>a, HardDecideFacts, InputTypes
  <2> QED BY <1>8, <1>d, <2>1 DEF Flood, Phase1
<1>9. CASE RateLimit
  <2>1. \A a \in LimitActions \cup {"block"} : HardDecide(ctx, a, "rate_limit") \in Contexts
    BY <1>a, HardDecideFacts, InputTypes
  <2> QED BY <1>9, <1>d, <2>1 DEF RateLimit, Phase1
<1>10. CASE CacheCheck
  <2>1. \A a \in {"block", "challenge"} : AddDecision(ctx, a, "custom_rule") \in Contexts
    BY <1>a, AddDecisionFacts
  <2> QED BY <1>10, <1>d, <2>1 DEF CacheCheck, Phase1
<1>11. CASE RulesEngine
  <2>1. ASSUME NEW mods \in SkipSets
        PROVE  [ctx EXCEPT !.skip = @ \cup mods] \in Contexts
    <3>1. mods \subseteq Modules
      BY SkipSetsAreModules
    <3> QED BY <3>1 DEF Contexts
  <2>2. ASSUME NEW mods \in SkipSets, NEW a \in RuleActions
        PROVE  [HardDecide([ctx EXCEPT !.skip = @ \cup mods], a, "custom_rule")
                    EXCEPT !.rule = a] \in Contexts
    <3>1. HardDecide([ctx EXCEPT !.skip = @ \cup mods], a, "custom_rule") \in Contexts
      BY <1>a, <2>1, HardDecideFacts
    <3> QED BY <3>1 DEF Contexts
  <2> QED BY <1>11, <1>d, <2>1, <2>2 DEF RulesEngine, Phase1
<1>12. CASE IPReputation
  <2>1. cfg.weights["ip_reputation"].maxScore \in Int
    <3>1. cfg.weights["ip_reputation"] \in Weights
      BY <1>h, InputTypes
    <3> QED BY <3>1, WeightTypes
  <2>2. ASSUME NEW s \in RepScores
        PROVE  LET m == cfg.weights["ip_reputation"].maxScore
                   n == IF s > m THEN m ELSE s
               IN  (IF n > 0 THEN Score(ctx, "ip_reputation", n) ELSE ctx) \in Contexts
    BY <1>h, <2>1, InputTypes, ScoreFacts
  <2> QED BY <1>12, <1>e, <2>2 DEF IPReputation, Phase2
<1>13. CASE BotDetection
  <2>1. \A s \in BotScores : Score(ctx, "bot_detection", s) \in Contexts
    BY <1>h, InputTypes, ScoreFacts
  <2> QED BY <1>13, <1>e, <2>1 DEF BotDetection, Phase2
<1>14. CASE WAFEngine
  <2>1. ASSUME NEW s \in WafScores
        PROVE  [Score(ctx, "waf_anomaly", s) EXCEPT !.wafStatus = s] \in Contexts
    <3>0. s \in Nat
      BY ScoresAreInts
    <3>1. s \in Nat /\ s \in Int
      BY <3>0, NatIsInt, Zenon
    <3>2. Score(ctx, "waf_anomaly", s) \in Contexts
      BY <1>h, <3>1, ScoreFacts
    <3> QED BY <3>1, <3>2 DEF Contexts
  <2> QED BY <1>14, <1>e, <2>1 DEF WAFEngine, Phase2
<1>15. CASE ProtocolAnomaly
  <2>1. ASSUME NEW s \in ProtoScores PROVE Score(ctx, "protocol_anomaly", s) \in Contexts
    <3>0. s \in Nat
      BY ScoresAreInts
    <3>1. s \in Int
      BY <3>0, NatIsInt, Zenon
    <3> QED BY <1>h, <3>1, ScoreFacts
  <2> QED BY <1>15, <1>e, <2>1 DEF ProtocolAnomaly, Phase2
<1>16. CASE TrustedHistory
  <2>1. Score(ctx, "trust", cfg.trustedHistory) \in Contexts
    BY <1>h, InputTypes, ScoreFacts
  <2> QED BY <1>16, <1>e, <2>1 DEF TrustedHistory, Phase2
<1>17. CASE StableSession
  <2>1. Score(ctx, "trust", cfg.stableSession) \in Contexts
    BY <1>h, InputTypes, ScoreFacts
  <2> QED BY <1>17, <1>e, <2>1 DEF StableSession, Phase2
<1>18. CASE Trust
  <2>1. TrustReductions[ctx.trust] \in Int
    BY InputTypes DEF Contexts
  <2>2. Score(ctx, "trust", TrustReductions[ctx.trust]) \in Contexts
    BY <1>h, <2>1, ScoreFacts
  <2> QED BY <1>18, <1>e, <2>2 DEF Trust, Phase2
<1>19. CASE Weigh
  <2>1. ctx.rs \in RiskScores
    BY DEF Contexts
  <2>2. ClampTotal(ApplyWeights(ctx.rs, cfg.weights)) \in RiskScores
    BY <2>1, InputTypes, ApplyWeightsBalanced, ClampTotalFacts
  <2>3. ctx' \in Contexts
    BY <1>19, <2>2 DEF Weigh, Contexts
  <2> QED BY <1>19, <2>3 DEF Weigh, Labels
<1>20. CASE DecisionEngine
  <2>1. ScoreAction(ctx.rs.total, cfg.thresholds) \in Actions
    BY DEF ScoreAction, Actions
  <2>2. ctx' \in Contexts
    BY <1>20, <1>a, <2>1, AddDecisionFacts DEF DecisionEngine
  <2> QED BY <1>20, <2>2 DEF DecisionEngine, Labels
<1>21. CASE BlockHandler
  BY <1>21 DEF BlockHandler, Labels, Outputs
<1>22. CASE ChallengeHandler
  BY <1>22 DEF ChallengeHandler, Labels, Outputs
<1>23. CASE Finish
  <2>1. FinalAction \in Actions
    BY DEF FinalAction, Contexts, Actions
  <2>2. ctx' \in Contexts
    BY <1>23, <2>1 DEF Finish, Contexts
  <2> QED BY <1>23, <2>2 DEF Finish, Labels, Outputs
<1>24. CASE WebSocketVerdict
  BY <1>24, <1>f DEF WebSocketVerdict, Outputs
<1>25. CASE Return
  BY <1>25, <1>g DEF Return, Labels, Outputs, NoRequest, Requests
<1>26. CASE ReloadConfig
  BY <1>26 DEF ReloadConfig
<1>27. CASE UNCHANGED vars
  BY <1>27 DEF vars
<1> QED
  BY <1>1, <1>2, <1>3, <1>4, <1>5, <1>6, <1>7, <1>8, <1>9, <1>10, <1>11, <1>12, <1>13,
     <1>14, <1>15, <1>16, <1>17, <1>18, <1>19, <1>20, <1>21, <1>22, <1>23, <1>24, <1>25,
     <1>26, <1>27 DEF Next, Serve

\* The initial state has the types of the Go values.
LEMMA TypeInit == Init => TypeOK
<1>1. NoRequest \in Requests
  BY DEF NoRequest, Requests
<1>2. "idle" \in Labels /\ "" \in Outputs
  BY DEF Labels, Outputs
<1> QED
  BY <1>1, <1>2, NewContextType, Zenon DEF Init, TypeOK

\* Type correctness of the pipeline.
THEOREM TypeCorrect == Spec => []TypeOK
  BY TypeInit, TypeStep, PTL DEF Spec

-----------------------------------------------------------------------------
(* Safety.  The inductive invariant says, label by label, what the handlers    *)
(* have and have not done yet.                                                 *)

Scoring2 == Phase2 \cup {"weights", "decision_engine"}
Answering == {"block_handler", "challenge_handler", "finish"}

\* The action is the prevailing decision, unless a cookie has cleared it.
CoherentContext(c) ==
    \/ c.action = c.decision
    \/ c.passed /\ c.action = "" /\ c.decision = "challenge"

Fresh == pc \in {"idle", "arrived"} => ctx = NewContext
Unscored == pc \in Phase1 \cup {"ws_verdict"} => ctx.rs = NewRiskScore /\ ctx.wafStatus = 0
SoftPath == pc \in Scoring2 => ~ctx.hard
HttpOnly == pc \in Scoring2 \cup Answering => ~req.ws
Unanswered == /\ pc \notin {"finish", "done"} => out = ""
              /\ pc # "done" => hist = ""
Coherent == pc # "done" => CoherentContext(ctx)
BeforeCookie == pc = "challenge_validator" => ctx.decision \in {"", "challenge"}
Besieged == pc \in Phase1 \cup Scoring2 \cup Answering /\ req.underAttack /\ ~req.ws
                => ctx.decision \in {"challenge", "block"}
WrittenByPipeline ==
    pc = "finish" /\ out # "" =>
        /\ out \in {"block_page", "challenge_page", "challenge_error"}
        /\ ctx.action \in {"block", "challenge"}

PipelineInv ==
    /\ TypeOK
    /\ Fresh /\ Unscored /\ SoftPath /\ HttpOnly /\ Unanswered
    /\ Coherent /\ BeforeCookie /\ Besieged /\ WrittenByPipeline
    /\ TotalMatchesCategories
    /\ DecisionEnforced /\ UnderAttackHolds
    /\ HardDecisionSkipsScoring /\ HistoryFollowsAnswer

\* An empty score is balanced and already clamped.
LEMMA NewRiskScoreFacts ==
    /\ Balanced(NewRiskScore)
    /\ NewRiskScore.total = 0
    /\ ClampTotal([NewRiskScore EXCEPT !.total = SumOfCategories(NewRiskScore.by)]).total = 0
<1>1. SumOfCategories(NewRiskScore.by) = 0 /\ NewRiskScore.total = 0
  BY DEF NewRiskScore, SumOfCategories, Categories, WeightedCategories
<1>2. ClampTotal([NewRiskScore EXCEPT !.total = 0]).total = 0
  BY DEF ClampTotal, NewRiskScore, MaxTotal
<1> QED
  BY <1>1, <1>2 DEF Balanced

\* A step of a Phase 1 handler that keeps the score empty, keeps action and decision
\* together and does not lower a severe decision preserves the invariant.
LEMMA Leave1Inv ==
    ASSUME PipelineInv, TypeOK',
           NEW st \in Phase1, pc = st, NEW c \in Contexts, Leave1(st, c),
           c.rs = ctx.rs, c.wafStatus = ctx.wafStatus, CoherentContext(c),
           ctx.decision \in {"challenge", "block"} => c.decision \in {"challenge", "block"}
    PROVE  PipelineInv'
<1>1. /\ ctx' = c /\ req' = req /\ out' = out /\ hist' = hist
      /\ pc' = AfterPhase1(st, c.hard)
  BY DEF Leave1
<1>2. /\ pc' \in (Phase1 \ {"challenge_validator"})
                    \cup {"ws_verdict", "block_handler", "ip_reputation"}
      /\ pc' \in {"block_handler", "ip_reputation"} => ~req.ws
      /\ pc' = "ip_reputation" => ~c.hard
  <2>1. st # "rules" => Successor(st) \in Phase1 \ {"challenge_validator"}
    BY DEF Successor, Phase1
  <2>2. "block_handler" \notin Phase1 /\ "ip_reputation" \notin Phase1 /\ "ws_verdict" \notin Phase1
    BY DEF Phase1
  <2> QED
    BY <1>1, <2>1, <2>2 DEF AfterPhase1
<1>3. ctx.rs = NewRiskScore /\ ctx.wafStatus = 0 /\ out = "" /\ hist = ""
  BY DEF PipelineInv, Unscored, Unanswered, Phase1
<1>4. ctx'.rs = NewRiskScore /\ ctx'.wafStatus = 0 /\ out' = "" /\ hist' = ""
  BY <1>1, <1>3
<1>5. pc' \notin {"idle", "arrived", "finish", "done", "challenge_validator"}
  BY <1>2 DEF Phase1
<1>6. Fresh' /\ Unscored' /\ Unanswered' /\ BeforeCookie' /\ WrittenByPipeline'
  BY <1>4, <1>5 DEF Fresh, Unscored, Unanswered, BeforeCookie, WrittenByPipeline
<1>7. pc' \in Scoring2 => pc' = "ip_reputation"
  BY <1>2 DEF Scoring2, Phase1, Phase2
<1>8. pc' \in Answering => pc' = "block_handler"
  BY <1>2 DEF Answering, Phase1
<1>9. SoftPath' /\ HttpOnly'
  BY <1>1, <1>2, <1>7, <1>8 DEF SoftPath, HttpOnly, Scoring2, Answering
<1>10. Coherent'
  BY <1>1 DEF Coherent
<1>11. Besieged'
  BY <1>1 DEF Besieged, PipelineInv
<1>12. TotalMatchesCategories'
  BY <1>4, NewRiskScoreFacts DEF TotalMatchesCategories, Balanced
<1>13. DecisionEnforced' /\ UnderAttackHolds' /\ HardDecisionSkipsScoring' /\ HistoryFollowsAnswer'
  BY <1>4, <1>5 DEF DecisionEnforced, UnderAttackHolds, HardDecisionSkipsScoring,
                    HistoryFollowsAnswer
<1> QED
  BY <1>6, <1>9, <1>10, <1>11, <1>12, <1>13 DEF PipelineInv

\* A step of a Phase 2 handler that only adds to the score preserves the invariant.
LEMMA Leave2Inv ==
    ASSUME PipelineInv, TypeOK',
           NEW st \in Phase2, pc = st, NEW c \in Contexts, Leave2(st, c),
           c.action = ctx.action, c.decision = ctx.decision, c.hard = ctx.hard,
           c.passed = ctx.passed, Balanced(ctx.rs) => Balanced(c.rs)
    PROVE  PipelineInv'
<1>1. /\ ctx' = c /\ req' = req /\ out' = out /\ hist' = hist /\ pc' = Successor(st)
  BY DEF Leave2
<1>2. pc' \in (Phase2 \ {"ip_reputation"}) \cup {"weights"}
  BY <1>1 DEF Successor, Phase2
<1>3. pc \in Scoring2 /\ pc' \in Scoring2
  BY <1>2 DEF Scoring2
<1>4. /\ pc' \notin Phase1 \cup Answering \cup {"idle", "arrived", "finish", "done", "ws_verdict"}
      /\ pc \notin Answering \cup {"finish", "done", "decision_engine"}
      /\ pc' # "decision_engine"
  BY <1>2 DEF Phase1, Phase2, Answering
<1>5. ~ctx.hard /\ ~req.ws /\ out = "" /\ hist = "" /\ CoherentContext(ctx)
  BY <1>3, <1>4 DEF PipelineInv, SoftPath, HttpOnly, Unanswered, Coherent
<1>6. Balanced(ctx.rs)
  BY <1>4 DEF PipelineInv, TotalMatchesCategories, Balanced, Answering
<1>7. Fresh' /\ Unscored' /\ Unanswered' /\ BeforeCookie' /\ WrittenByPipeline'
  BY <1>1, <1>4, <1>5 DEF Fresh, Unscored, Unanswered, BeforeCookie, WrittenByPipeline, Phase1
<1>8. SoftPath' /\ HttpOnly'
  BY <1>1, <1>5 DEF SoftPath, HttpOnly
<1>9. Coherent'
  BY <1>1, <1>5 DEF Coherent, CoherentContext
<1>10. Besieged'
  BY <1>1, <1>3 DEF Besieged, PipelineInv
<1>11. TotalMatchesCategories'
  BY <1>1, <1>4, <1>6 DEF TotalMatchesCategories, Balanced, Answering
<1>12. DecisionEnforced' /\ UnderAttackHolds' /\ HardDecisionSkipsScoring' /\ HistoryFollowsAnswer'
  BY <1>1, <1>4, <1>5 DEF DecisionEnforced, UnderAttackHolds, HardDecisionSkipsScoring,
                          HistoryFollowsAnswer
<1> QED
  BY <1>7, <1>8, <1>9, <1>10, <1>11, <1>12 DEF PipelineInv

\* Answering without touching the context preserves the invariant: an early answer,
\* where the context is still new, or a WebSocket verdict that follows the action.
LEMMA RespondInv ==
    ASSUME PipelineInv, TypeOK', NEW o \in Outputs, Respond(o),
           \/ pc = "arrived" /\ o \notin {"block_page", "challenge_page", "challenge_error"}
           \/ /\ pc = "ws_verdict" /\ o \notin {"block_page", "challenge_page", "challenge_error"}
              /\ o = "tunnel" => ctx.action \notin {"block", "challenge"}
              /\ o # "upstream"
    PROVE  PipelineInv'
<1>1. /\ ctx' = ctx /\ req' = req /\ hist' = hist /\ out' = o /\ pc' = "done"
      /\ pc \in {"arrived", "ws_verdict"}
  BY DEF Respond
<1>2. hist = "" /\ CoherentContext(ctx)
  BY <1>1 DEF PipelineInv, Unanswered, Coherent
<1>n. /\ NewContext.rs = NewRiskScore /\ NewContext.wafStatus = 0
      /\ NewContext.decision = ""
  BY DEF NewContext
<1>3. ctx.rs = NewRiskScore /\ ctx.wafStatus = 0
  BY <1>1, <1>n DEF PipelineInv, Unscored, Fresh
<1>4. /\ pc' \notin Phase1 \cup Scoring2 \cup Answering
      /\ pc' \notin {"idle", "arrived", "finish", "ws_verdict", "challenge_validator"}
  BY <1>1 DEF Phase1, Phase2, Scoring2, Answering
<1>5. /\ Fresh' /\ Unscored' /\ SoftPath' /\ HttpOnly' /\ Unanswered' /\ Coherent'
      /\ BeforeCookie' /\ Besieged' /\ WrittenByPipeline'
  BY <1>1, <1>4 DEF Fresh, Unscored, SoftPath, HttpOnly, Unanswered, Coherent,
                    BeforeCookie, Besieged, WrittenByPipeline
<1>6. TotalMatchesCategories' /\ HardDecisionSkipsScoring'
  BY <1>1, <1>3, NewRiskScoreFacts DEF TotalMatchesCategories, HardDecisionSkipsScoring
<1>7. UnderAttackHolds' /\ HistoryFollowsAnswer'
  BY <1>1, <1>2 DEF UnderAttackHolds, HistoryFollowsAnswer
<1>8. DecisionEnforced'
  <2>1. CASE pc = "arrived"
    BY <1>1, <1>n, <2>1 DEF DecisionEnforced, PipelineInv, Fresh
  <2>2. CASE pc = "ws_verdict"
    BY <1>1, <1>2, <2>2 DEF DecisionEnforced, CoherentContext
  <2> QED BY <1>1, <2>1, <2>2
<1> QED
  BY <1>5, <1>6, <1>7, <1>8 DEF PipelineInv

\* Every step of the gateway preserves the invariant.
LEMMA InvStep == PipelineInv /\ [Next]_vars => PipelineInv'
<1> SUFFICES ASSUME PipelineInv, [Next]_vars PROVE PipelineInv'
  OBVIOUS
<1>t. TypeOK /\ TypeOK'
  BY TypeStep DEF PipelineInv
<1>a. /\ RuleActions \subseteq Actions
      /\ "ip_access_rule" \in Sources /\ "flood" \in Sources /\ "rate_limit" \in Sources
      /\ "custom_rule" \in Sources /\ "scoring_engine" \in Sources
      /\ "under_attack_mode" \in Sources
      /\ "challenge" \in Actions /\ "block" \in Actions
  BY DEF RuleActions, Actions, Sources
<1>b. ctx \in Contexts /\ ctx.decision \in Actions /\ cfg \in Configs
  BY <1>t DEF TypeOK, Contexts
<1>h. /\ "ip_reputation" \in Categories /\ "bot_detection" \in Categories
      /\ "waf_anomaly" \in Categories /\ "protocol_anomaly" \in Categories
      /\ "trust" \in Categories /\ "ip_reputation" \in WeightedCategories
  BY DEF Categories, WeightedCategories
<1>k. pc \notin {"done"} => CoherentContext(ctx)
  BY DEF PipelineInv, Coherent
\* A decision of a Phase 1 handler, with any change of the fields it does not look at.
<1>d. ASSUME NEW st \in Phase1, pc = st, NEW c \in Contexts, NEW a \in Actions, Leave1(st, c),
             c.rs = ctx.rs, c.wafStatus = ctx.wafStatus, c.action = c.decision,
             c.decision = ResolveDecision(ctx.decision, a)
      PROVE  PipelineInv'
  <2>1. ctx.decision \in {"challenge", "block"} => c.decision \in {"challenge", "block"}
    BY <1>b, <1>d, ResolveDecisionFacts
  <2>2. CoherentContext(c)
    BY <1>d DEF CoherentContext
  <2> QED BY <1>t, <1>d, <2>1, <2>2, Leave1Inv
<1>e. ASSUME NEW st \in Phase1, pc = st, Leave1(st, ctx) PROVE PipelineInv'
  <2>1. CoherentContext(ctx)
    BY <1>e, <1>k DEF Phase1
  <2> QED BY <1>t, <1>b, <1>e, <2>1, Leave1Inv
<1>f. ASSUME NEW st \in Phase2, pc = st, Leave2(st, ctx) PROVE PipelineInv'
  BY <1>t, <1>b, <1>f, Leave2Inv
<1>g. ASSUME NEW st \in Phase2, pc = st, NEW k \in Categories, NEW n \in Int,
             Leave2(st, Score(ctx, k, n))
      PROVE  PipelineInv'
  <2> DEFINE c == Score(ctx, k, n)
  <2>1. /\ c \in Contexts /\ c.action = ctx.action /\ c.decision = ctx.decision
        /\ c.hard = ctx.hard /\ c.passed = ctx.passed
        /\ Balanced(ctx.rs) => Balanced(c.rs)
    BY <1>b, ScoreFacts
  <2>2. Leave2(st, c)
    BY <1>g
  <2> HIDE DEF c
  <2> QED BY <1>t, <1>g, <2>1, <2>2, Leave2Inv
<1>1. CASE Arrive
  <2>1. ctx' = NewContext /\ out' = "" /\ hist' = "" /\ pc' = "arrived"
    BY <1>1 DEF Arrive, PipelineInv, Fresh, Unanswered
  <2>2. /\ Fresh' /\ Unscored' /\ SoftPath' /\ HttpOnly' /\ Unanswered'
        /\ BeforeCookie' /\ Besieged' /\ WrittenByPipeline'
    BY <2>1 DEF Fresh, Unscored, SoftPath, HttpOnly, Unanswered,
                BeforeCookie, Besieged, WrittenByPipeline, Phase1, Phase2, Scoring2, Answering
  <2>3. Coherent' /\ HardDecisionSkipsScoring' /\ TotalMatchesCategories'
    BY <2>1, NewRiskScoreFacts DEF Coherent, CoherentContext, HardDecisionSkipsScoring,
                                   TotalMatchesCategories, NewContext, Balanced
  <2>4. DecisionEnforced' /\ UnderAttackHolds' /\ HistoryFollowsAnswer'
    BY <2>1 DEF DecisionEnforced, UnderAttackHolds, HistoryFollowsAnswer
  <2> QED BY <1>t, <2>2, <2>3, <2>4 DEF PipelineInv
<1>2. CASE AnswerEarly
  BY <1>2, <1>t, RespondInv DEF AnswerEarly, Outputs
<1>3. CASE RefuseWebSocket
  BY <1>3, <1>t, RespondInv DEF RefuseWebSocket, Outputs
<1>4. CASE CheckWebSocket
  <2>1. /\ ctx' = NewContext /\ out' = "" /\ hist' = "" /\ pc' = "challenge_validator"
        /\ req' = req /\ req.ws
    BY <1>4 DEF CheckWebSocket, PipelineInv, Fresh, Unanswered
  <2>2. /\ Fresh' /\ Unscored' /\ SoftPath' /\ HttpOnly' /\ Unanswered'
        /\ BeforeCookie' /\ Besieged' /\ WrittenByPipeline'
    BY <2>1 DEF Fresh, Unscored, SoftPath, HttpOnly, Unanswered, NewContext,
                BeforeCookie, Besieged, WrittenByPipeline, Phase1, Phase2, Scoring2, Answering
  <2>3. Coherent' /\ HardDecisionSkipsScoring' /\ TotalMatchesCategories'
    BY <2>1, NewRiskScoreFacts DEF Coherent, CoherentContext, HardDecisionSkipsScoring,
                                   TotalMatchesCategories, NewContext, Balanced
  <2>4. DecisionEnforced' /\ UnderAttackHolds' /\ HistoryFollowsAnswer'
    BY <2>1 DEF DecisionEnforced, UnderAttackHolds, HistoryFollowsAnswer
  <2> QED BY <1>t, <2>2, <2>3, <2>4 DEF PipelineInv
<1>5. CASE EnterPipeline
  <2>1. /\ out' = "" /\ hist' = "" /\ pc' = "challenge_validator" /\ req' = req /\ ctx = NewContext
        /\ ctx' = IF req.underAttack
                  THEN AddDecision(ctx, "challenge", "under_attack_mode") ELSE ctx
    BY <1>5 DEF EnterPipeline, PipelineInv, Fresh, Unanswered
  <2>2. ResolveDecision("", "challenge") = "challenge"
    BY DEF ResolveDecision, GetActionRank
  <2>3. LET n == AddDecision(ctx, "challenge", "under_attack_mode")
        IN  /\ n.decision = "challenge" /\ n.action = "challenge"
            /\ n.rs = NewRiskScore /\ n.wafStatus = 0
    <3>1. ctx.decision = "" /\ ctx.rs = NewRiskScore /\ ctx.wafStatus = 0
      BY <2>1 DEF NewContext
    <3> DEFINE n == AddDecision(ctx, "challenge", "under_attack_mode")
    <3>2. /\ n.action = n.decision /\ n.decision = ResolveDecision(ctx.decision, "challenge")
          /\ n.rs = ctx.rs /\ n.wafStatus = ctx.wafStatus
      BY <1>a, <1>b, AddDecisionFacts
    <3> HIDE DEF n
    <3>3. n.decision = "challenge" /\ n.action = "challenge" /\ n.rs = NewRiskScore /\ n.wafStatus = 0
      BY <2>2, <3>1, <3>2
    <3> QED BY <3>3 DEF n
  <2>4. /\ ctx'.rs = NewRiskScore /\ ctx'.wafStatus = 0 /\ ctx'.action = ctx'.decision
        /\ ctx'.decision \in {"", "challenge"}
        /\ req.underAttack => ctx'.decision = "challenge"
    <3>1. CASE req.underAttack
      BY <2>1, <2>3, <3>1
    <3>2. CASE ~req.underAttack
      BY <2>1, <3>2 DEF NewContext
    <3> QED BY <3>1, <3>2
  <2>5. /\ Fresh' /\ Unscored' /\ SoftPath' /\ HttpOnly' /\ Unanswered'
        /\ BeforeCookie' /\ Besieged' /\ WrittenByPipeline'
    BY <2>1, <2>4 DEF Fresh, Unscored, SoftPath, HttpOnly, Unanswered, BeforeCookie,
                      Besieged, WrittenByPipeline, Phase1, Phase2, Scoring2, Answering
  <2>6. Coherent' /\ HardDecisionSkipsScoring' /\ TotalMatchesCategories'
    BY <2>1, <2>4, NewRiskScoreFacts
       DEF Coherent, CoherentContext, HardDecisionSkipsScoring, TotalMatchesCategories, Balanced
  <2>7. DecisionEnforced' /\ UnderAttackHolds' /\ HistoryFollowsAnswer'
    BY <2>1 DEF DecisionEnforced, UnderAttackHolds, HistoryFollowsAnswer
  <2> QED BY <1>t, <2>5, <2>6, <2>7 DEF PipelineInv
<1>6. CASE ChallengeValidator
  <2>1. ASSUME NEW l \in 0..3,
               Leave1("challenge_validator",
                      [ctx EXCEPT !.passed = TRUE, !.trust = l, !.action = ""])
        PROVE  PipelineInv'
    <3> DEFINE c == [ctx EXCEPT !.passed = TRUE, !.trust = l, !.action = ""]
    <3>1. /\ c \in Contexts /\ c.rs = ctx.rs /\ c.wafStatus = ctx.wafStatus
          /\ c.decision = ctx.decision /\ c.action = "" /\ c.passed
      BY <1>b DEF Contexts, Actions
    <3>2. ctx.decision \in {"", "challenge"}
      BY <1>6 DEF ChallengeValidator, PipelineInv, BeforeCookie
    <3>3. Leave1("challenge_validator", c)
      BY <2>1
    <3> HIDE DEF c
    <3>4. CoherentContext(c)
      BY <3>1, <3>2 DEF CoherentContext
    <3>5. "challenge_validator" \in Phase1 /\ pc = "challenge_validator"
      BY <1>6 DEF ChallengeValidator, Phase1
    <3> QED BY <1>t, <3>1, <3>3, <3>4, <3>5, Leave1Inv
  <2> QED BY <1>6, <1>e, <2>1 DEF ChallengeValidator, Phase1
<1>7. CASE IPAccess
  <2>1. ASSUME NEW a \in RuleActions,
               Leave1("ip_access", [HardDecide(ctx, a, "ip_access_rule")
                                        EXCEPT !.ipTerminal = TRUE, !.ipRule = a])
        PROVE  PipelineInv'
    <3> DEFINE h == HardDecide(ctx, a, "ip_access_rule")
               c == [h EXCEPT !.ipTerminal = TRUE, !.ipRule = a]
    <3>1. /\ h \in Contexts /\ h.action = h.decision /\ h.rs = ctx.rs
          /\ h.wafStatus = ctx.wafStatus /\ h.decision = ResolveDecision(ctx.decision, a)
      BY <1>a, <1>b, HardDecideFacts
    <3>2. Leave1("ip_access", c)
      BY <2>1
    <3> HIDE DEF h
    <3>3. /\ c \in Contexts /\ c.action = c.decision /\ c.rs = ctx.rs
          /\ c.wafStatus = ctx.wafStatus /\ c.decision = ResolveDecision(ctx.decision, a)
      BY <3>1 DEF Contexts
    <3> HIDE DEF c
    <3>4. "ip_access" \in Phase1 /\ pc = "ip_access" /\ a \in Actions
      BY <1>7, <1>a DEF IPAccess, Phase1
    <3> QED BY <1>d, <3>2, <3>3, <3>4
  <2> QED BY <1>7, <1>e, <2>1 DEF IPAccess, Phase1
<1>8. CASE Flood
  <2>1. ASSUME NEW a \in LimitActions \cup {"block", "challenge"},
               Leave1("flood", HardDecide(ctx, a, "flood"))
        PROVE  PipelineInv'
    <3> DEFINE c == HardDecide(ctx, a, "flood")
    <3>0. a \in Actions /\ "flood" \in Phase1 /\ pc = "flood"
      BY <1>8, <1>a, InputTypes DEF Flood, Phase1
    <3>1. /\ c \in Contexts /\ c.action = c.decision /\ c.rs = ctx.rs
          /\ c.wafStatus = ctx.wafStatus /\ c.decision = ResolveDecision(ctx.decision, a)
      BY <1>a, <1>b, <3>0, HardDecideFacts
    <3>2. Leave1("flood", c)
      BY <2>1
    <3> HIDE DEF c
    <3> QED BY <1>d, <3>0, <3>1, <3>2
  <2> QED BY <1>8, <1>e, <2>1 DEF Flood, Phase1
<1>9. CASE RateLimit
  <2>1. ASSUME NEW a \in LimitActions \cup {"block"},
               Leave1("rate_limit", HardDecide(ctx, a, "rate_limit"))
        PROVE  PipelineInv'
    <3> DEFINE c == HardDecide(ctx, a, "rate_limit")
    <3>0. a \in Actions /\ "rate_limit" \in Phase1 /\ pc = "rate_limit"
      BY <1>9, <1>a, InputTypes DEF RateLimit, Phase1
    <3>1. /\ c \in Contexts /\ c.action = c.decision /\ c.rs = ctx.rs
          /\ c.wafStatus = ctx.wafStatus /\ c.decision = ResolveDecision(ctx.decision, a)
      BY <1>a, <1>b, <3>0, HardDecideFacts
    <3>2. Leave1("rate_limit", c)
      BY <2>1
    <3> HIDE DEF c
    <3> QED BY <1>d, <3>0, <3>1, <3>2
  <2> QED BY <1>9, <1>e, <2>1 DEF RateLimit, Phase1
<1>10. CASE CacheCheck
  <2>1. ASSUME NEW a \in {"block", "challenge"},
               Leave1("cache", AddDecision(ctx, a, "custom_rule"))
        PROVE  PipelineInv'
    <3> DEFINE c == AddDecision(ctx, a, "custom_rule")
    <3>0. a \in Actions /\ "cache" \in Phase1 /\ pc = "cache"
      BY <1>10, <1>a DEF CacheCheck, Phase1
    <3>1. /\ c \in Contexts /\ c.action = c.decision /\ c.rs = ctx.rs
          /\ c.wafStatus = ctx.wafStatus /\ c.decision = ResolveDecision(ctx.decision, a)
      BY <1>a, <1>b, <3>0, AddDecisionFacts
    <3>2. Leave1("cache", c)
      BY <2>1
    <3> HIDE DEF c
    <3> QED BY <1>d, <3>0, <3>1, <3>2
  <2> QED BY <1>10, <1>e, <2>1 DEF CacheCheck, Phase1
<1>11. CASE RulesEngine
  <2>0. "rules" \in Phase1 /\ pc = "rules"
    BY <1>11 DEF RulesEngine, Phase1
  <2>1. ASSUME NEW mods \in SkipSets
        PROVE  LET c == [ctx EXCEPT !.skip = @ \cup mods]
               IN  /\ c \in Contexts /\ c.rs = ctx.rs /\ c.wafStatus = ctx.wafStatus
                   /\ c.action = ctx.action /\ c.decision = ctx.decision
                   /\ c.passed = ctx.passed
    <3>1. mods \subseteq Modules
      BY SkipSetsAreModules
    <3> QED BY <1>b, <3>1 DEF Contexts
  <2>2. ASSUME NEW mods \in SkipSets, Leave1("rules", [ctx EXCEPT !.skip = @ \cup mods])
        PROVE  PipelineInv'
    <3> DEFINE c == [ctx EXCEPT !.skip = @ \cup mods]
    <3>1. /\ c \in Contexts /\ c.rs = ctx.rs /\ c.wafStatus = ctx.wafStatus
          /\ c.action = ctx.action /\ c.decision = ctx.decision /\ c.passed = ctx.passed
      BY <2>1
    <3>2. Leave1("rules", c)
      BY <2>2
    <3> HIDE DEF c
    <3>3. CoherentContext(c)
      BY <1>k, <2>0, <3>1 DEF CoherentContext
    <3> QED BY <1>t, <2>0, <3>1, <3>2, <3>3, Leave1Inv
  <2>3. ASSUME NEW mods \in SkipSets, NEW a \in RuleActions,
               Leave1("rules", [HardDecide([ctx EXCEPT !.skip = @ \cup mods], a, "custom_rule")
                                    EXCEPT !.rule = a])
        PROVE  PipelineInv'
    <3> DEFINE b == [ctx EXCEPT !.skip = @ \cup mods]
               h == HardDecide(b, a, "custom_rule")
               c == [h EXCEPT !.rule = a]
    <3>1. /\ b \in Contexts /\ b.rs = ctx.rs /\ b.wafStatus = ctx.wafStatus
          /\ b.decision = ctx.decision
      BY <2>1
    <3>2. Leave1("rules", c)
      BY <2>3
    <3> HIDE DEF b
    <3>3. /\ h \in Contexts /\ h.action = h.decision /\ h.rs = ctx.rs
          /\ h.wafStatus = ctx.wafStatus /\ h.decision = ResolveDecision(ctx.decision, a)
      BY <1>a, <3>1, HardDecideFacts
    <3> HIDE DEF h
    <3>4. /\ c \in Contexts /\ c.action = c.decision /\ c.rs = ctx.rs
          /\ c.wafStatus = ctx.wafStatus /\ c.decision = ResolveDecision(ctx.decision, a)
      BY <3>3 DEF Contexts
    <3> HIDE DEF c
    <3> QED BY <1>a, <1>d, <2>0, <3>2, <3>4
  <2> QED BY <1>11, <1>e, <2>0, <2>2, <2>3 DEF RulesEngine
<1>12. CASE IPReputation
  <2>0. "ip_reputation" \in Phase2 /\ pc = "ip_reputation"
    BY <1>12 DEF IPReputation, Phase2
  <2>1. cfg.weights["ip_reputation"] \in Weights
    BY <1>b, <1>h, InputTypes
  <2>2. ASSUME NEW s \in RepScores,
               LET m == cfg.weights["ip_reputation"].maxScore
                   n == IF s > m THEN m ELSE s
               IN  Leave2("ip_reputation", IF n > 0 THEN Score(ctx, "ip_reputation", n) ELSE ctx)
        PROVE  PipelineInv'
    <3> DEFINE m == cfg.weights["ip_reputation"].maxScore
               n == IF s > m THEN m ELSE s
    <3>1. m \in Int /\ s \in Int
      BY <2>1, WeightTypes, ScoresAreInts
    <3>2. n \in Int
      BY <3>1
    <3>3. Leave2("ip_reputation", IF n > 0 THEN Score(ctx, "ip_reputation", n) ELSE ctx)
      BY <2>2
    <3> HIDE DEF n
    <3>4. CASE n > 0
      BY <1>g, <1>h, <2>0, <3>2, <3>3, <3>4
    <3>5. CASE ~(n > 0)
      BY <1>f, <2>0, <3>3, <3>5
    <3> QED BY <3>4, <3>5
  <2> QED BY <1>12, <1>f, <2>0, <2>2 DEF IPReputation
<1>13. CASE BotDetection
  BY <1>13, <1>f, <1>g, <1>h, ScoresAreInts DEF BotDetection, Phase2
<1>14. CASE WAFEngine
  <2>0. "waf_engine" \in Phase2 /\ pc = "waf_engine"
    BY <1>14 DEF WAFEngine, Phase2
  <2>1. ASSUME NEW s \in WafScores,
               Leave2("waf_engine", [Score(ctx, "waf_anomaly", s) EXCEPT !.wafStatus = s])
        PROVE  PipelineInv'
    <3> DEFINE d == Score(ctx, "waf_anomaly", s)
               c == [d EXCEPT !.wafStatus = s]
    <3>0. s \in Nat
      BY ScoresAreInts
    <3>1. s \in Int
      BY <3>0, NatIsInt, Zenon
    <3>2. /\ d \in Contexts /\ d.action = ctx.action /\ d.decision = ctx.decision
          /\ d.hard = ctx.hard /\ d.passed = ctx.passed
          /\ Balanced(ctx.rs) => Balanced(d.rs)
      BY <1>b, <1>h, <3>1, ScoreFacts
    <3>3. Leave2("waf_engine", c)
      BY <2>1
    <3> HIDE DEF d
    <3>4. /\ c \in Contexts /\ c.action = ctx.action /\ c.decision = ctx.decision
          /\ c.hard = ctx.hard /\ c.passed = ctx.passed
          /\ c.rs = d.rs
      BY <3>0, <3>2 DEF Contexts
    <3> HIDE DEF c
    <3> QED BY <1>t, <2>0, <3>2, <3>3, <3>4, Leave2Inv
  <2> QED BY <1>14, <1>f, <2>0, <2>1 DEF WAFEngine
<1>15. CASE ProtocolAnomaly
  <2>1. \A s \in ProtoScores : s \in Int
    BY ScoresAreInts, NatIsInt, Zenon
  <2> QED BY <1>15, <1>f, <1>g, <1>h, <2>1 DEF ProtocolAnomaly, Phase2
<1>16. CASE TrustedHistory
  <2>1. cfg.trustedHistory \in Int
    BY <1>b, InputTypes
  <2> QED BY <1>16, <1>f, <1>g, <1>h, <2>1 DEF TrustedHistory, Phase2
<1>17. CASE StableSession
  <2>1. cfg.stableSession \in Int
    BY <1>b, InputTypes
  <2> QED BY <1>17, <1>f, <1>g, <1>h, <2>1 DEF StableSession, Phase2
<1>18. CASE Trust
  <2>1. TrustReductions[ctx.trust] \in Int
    BY <1>b, InputTypes DEF Contexts
  <2> QED BY <1>18, <1>f, <1>g, <1>h, <2>1 DEF Trust, Phase2
<1>19. CASE Weigh
  <2> DEFINE w == ApplyWeights(ctx.rs, cfg.weights)
  <2>0. /\ pc = "weights" /\ pc' = "decision_engine"
        /\ req' = req /\ out' = out /\ hist' = hist
        /\ ctx' = [ctx EXCEPT !.rs = ClampTotal(w)]
    BY <1>19 DEF Weigh
  <2>1. ~ctx.hard /\ ~req.ws /\ out = "" /\ hist = "" /\ CoherentContext(ctx)
    BY <2>0 DEF PipelineInv, SoftPath, HttpOnly, Unanswered, Coherent, Scoring2
  <2>2. ctx.rs \in RiskScores /\ Balanced(ctx.rs)
    BY <1>b, <2>0 DEF Contexts, PipelineInv, TotalMatchesCategories, Balanced
  <2>3. w \in RiskScores /\ Balanced(w)
    BY <1>b, <2>2, InputTypes, ApplyWeightsBalanced
  <2> HIDE DEF w
  <2>4. /\ ctx'.rs = ClampTotal(w) /\ ctx'.action = ctx.action /\ ctx'.decision = ctx.decision
        /\ ctx'.hard = ctx.hard /\ ctx'.passed = ctx.passed
    BY <1>b, <2>0 DEF Contexts
  <2>5. /\ Fresh' /\ Unscored' /\ SoftPath' /\ HttpOnly' /\ Unanswered'
        /\ BeforeCookie' /\ WrittenByPipeline'
    BY <2>0, <2>1, <2>4 DEF Fresh, Unscored, SoftPath, HttpOnly, Unanswered, BeforeCookie,
                            WrittenByPipeline, Phase1
  <2>6. Coherent' /\ HardDecisionSkipsScoring'
    BY <2>1, <2>4 DEF Coherent, CoherentContext, HardDecisionSkipsScoring
  <2>7. Besieged'
    BY <2>0, <2>4 DEF Besieged, PipelineInv, Scoring2
  <2>8. TotalMatchesCategories'
    <3>1. ClampTotal(w).by = w.by
      BY <2>3, ClampTotalFacts
    <3>2. /\ ClampTotal(w) \in RiskScores
          /\ ClampTotal(w).total = ClampTotal([w EXCEPT !.total = SumOfCategories(w.by)]).total
      BY <2>3, ClampTotalFacts
    <3>3. [ClampTotal(w) EXCEPT !.total = SumOfCategories(w.by)]
            = [w EXCEPT !.total = SumOfCategories(w.by)]
      BY <2>3, <3>1, <3>2 DEF RiskScores
    <3> QED BY <2>0, <2>4, <3>1, <3>2, <3>3 DEF TotalMatchesCategories
  <2>9. DecisionEnforced' /\ UnderAttackHolds' /\ HistoryFollowsAnswer'
    BY <2>0 DEF DecisionEnforced, UnderAttackHolds, HistoryFollowsAnswer
  <2> QED BY <1>t, <2>5, <2>6, <2>7, <2>8, <2>9 DEF PipelineInv
<1>20. CASE DecisionEngine
  <2> DEFINE a == ScoreAction(ctx.rs.total, cfg.thresholds)
  <2>0. /\ pc = "decision_engine" /\ pc' = "block_handler"
        /\ req' = req /\ out' = out /\ hist' = hist
        /\ ctx' = ctx \/ ctx' = AddDecision(ctx, a, "scoring_engine")
    BY <1>20 DEF DecisionEngine
  <2>1. ~ctx.hard /\ ~req.ws /\ out = "" /\ hist = "" /\ CoherentContext(ctx)
    BY <2>0 DEF PipelineInv, SoftPath, HttpOnly, Unanswered, Coherent, Scoring2
  <2>2. a \in Actions
    BY DEF ScoreAction, Actions
  <2> HIDE DEF a
  <2>3. /\ ctx'.rs = ctx.rs /\ ctx'.hard = ctx.hard /\ CoherentContext(ctx')
        /\ ctx.decision \in {"challenge", "block"} => ctx'.decision \in {"challenge", "block"}
    <3>1. CASE ctx' = ctx
      BY <2>1, <3>1
    <3>2. CASE ctx' = AddDecision(ctx, a, "scoring_engine")
      <4>1. /\ ctx'.rs = ctx.rs /\ ctx'.hard = ctx.hard /\ ctx'.action = ctx'.decision
            /\ ctx'.decision = ResolveDecision(ctx.decision, a)
        BY <1>a, <1>b, <2>2, <3>2, AddDecisionFacts
      <4> QED BY <1>b, <2>2, <4>1, ResolveDecisionFacts DEF CoherentContext
    <3> QED BY <2>0, <3>1, <3>2
  <2>4. /\ Fresh' /\ Unscored' /\ SoftPath' /\ HttpOnly' /\ Unanswered'
        /\ BeforeCookie' /\ WrittenByPipeline'
    BY <2>0, <2>1, <2>3 DEF Fresh, Unscored, SoftPath, HttpOnly, Unanswered, BeforeCookie,
                            WrittenByPipeline, Phase1, Scoring2, Phase2
  <2>5. Coherent' /\ HardDecisionSkipsScoring'
    BY <2>1, <2>3 DEF Coherent, HardDecisionSkipsScoring
  <2>6. Besieged'
    BY <2>0, <2>3 DEF Besieged, PipelineInv, Scoring2
  <2>7. TotalMatchesCategories'
    BY <2>0, <2>3 DEF TotalMatchesCategories, PipelineInv
  <2>8. DecisionEnforced' /\ UnderAttackHolds' /\ HistoryFollowsAnswer'
    BY <2>0 DEF DecisionEnforced, UnderAttackHolds, HistoryFollowsAnswer
  <2> QED BY <1>t, <2>4, <2>5, <2>6, <2>7, <2>8 DEF PipelineInv
\* The two response handlers move the label and may write; the context stays.
<1>m. ASSUME pc \in {"block_handler", "challenge_handler"},
             pc' \in {"challenge_handler", "finish"},
             UNCHANGED <<req, ctx, cfg, hist>>,
             \/ out' = out
             \/ /\ pc' = "finish" /\ ctx.action \in {"block", "challenge"}
                /\ out' \in {"block_page", "challenge_page", "challenge_error"}
      PROVE  PipelineInv'
  <2>1. ~req.ws /\ out = "" /\ hist = "" /\ CoherentContext(ctx)
    BY <1>m DEF PipelineInv, HttpOnly, Unanswered, Coherent, Answering
  <2>2. /\ Fresh' /\ Unscored' /\ SoftPath' /\ HttpOnly' /\ Unanswered'
        /\ BeforeCookie' /\ WrittenByPipeline'
    BY <1>m, <2>1 DEF Fresh, Unscored, SoftPath, HttpOnly, Unanswered, BeforeCookie,
                      WrittenByPipeline, Phase1, Scoring2, Phase2
  <2>3. Coherent' /\ HardDecisionSkipsScoring'
    BY <1>m, <2>1 DEF Coherent, CoherentContext, HardDecisionSkipsScoring, PipelineInv
  <2>4. Besieged'
    BY <1>m DEF Besieged, PipelineInv, Answering
  <2>5. TotalMatchesCategories'
    BY <1>m DEF TotalMatchesCategories, PipelineInv
  <2>6. DecisionEnforced' /\ UnderAttackHolds' /\ HistoryFollowsAnswer'
    BY <1>m DEF DecisionEnforced, UnderAttackHolds, HistoryFollowsAnswer
  <2> QED BY <1>t, <2>2, <2>3, <2>4, <2>5, <2>6 DEF PipelineInv
<1>21. CASE BlockHandler
  BY <1>21, <1>m DEF BlockHandler
<1>22. CASE ChallengeHandler
  BY <1>22, <1>m DEF ChallengeHandler
<1>23. CASE Finish
  <2>0. /\ pc = "finish" /\ pc' = "done" /\ req' = req
        /\ ctx' = [ctx EXCEPT !.action = FinalAction]
        /\ hist' = IF ShouldProxy THEN "recorded" ELSE "reset"
        /\ out' = out \/ (out = "" /\ ShouldProxy /\ out' \in {"upstream", "default_page"})
        /\ out = "" /\ ShouldProxy => out' \in {"upstream", "default_page"}
    BY <1>23 DEF Finish
  <2>1. /\ ctx'.rs = ctx.rs /\ ctx'.hard = ctx.hard /\ ctx'.decision = ctx.decision
        /\ ctx'.passed = ctx.passed /\ ctx'.wafStatus = ctx.wafStatus
    BY <1>b, <2>0 DEF Contexts
  <2>2. ~req.ws /\ CoherentContext(ctx)
    BY <2>0 DEF PipelineInv, HttpOnly, Coherent, Answering
  <2>3. /\ out # "" => /\ out \in {"block_page", "challenge_page", "challenge_error"}
                      /\ ctx.action \in {"block", "challenge"}
    BY <2>0 DEF PipelineInv, WrittenByPipeline
  <2>4. ShouldProxy <=> ctx.action \notin {"block", "challenge"}
    BY DEF ShouldProxy, FinalAction
  <2>5. /\ Fresh' /\ Unscored' /\ SoftPath' /\ HttpOnly' /\ Unanswered' /\ Coherent'
        /\ BeforeCookie' /\ Besieged' /\ WrittenByPipeline'
    BY <2>0 DEF Fresh, Unscored, SoftPath, HttpOnly, Unanswered, Coherent, BeforeCookie,
                Besieged, WrittenByPipeline, Phase1, Phase2, Scoring2, Answering
  <2>6. HardDecisionSkipsScoring' /\ TotalMatchesCategories'
    BY <2>0, <2>1 DEF HardDecisionSkipsScoring, TotalMatchesCategories, PipelineInv
  <2>7. DecisionEnforced'
    BY <2>0, <2>1, <2>2, <2>3, <2>4 DEF DecisionEnforced, CoherentContext
  <2>8. UnderAttackHolds'
    <3>1. req.underAttack => ctx.decision \in {"challenge", "block"}
      BY <2>0, <2>2 DEF PipelineInv, Besieged, Answering
    <3> QED BY <2>0, <2>1, <2>2, <2>3, <2>4, <3>1 DEF UnderAttackHolds, CoherentContext
  <2>9. HistoryFollowsAnswer'
    BY <2>0, <2>3, <2>4 DEF HistoryFollowsAnswer
  <2> QED BY <1>t, <2>5, <2>6, <2>7, <2>8, <2>9 DEF PipelineInv
<1>24. CASE WebSocketVerdict
  BY <1>24, <1>t, RespondInv DEF WebSocketVerdict, Outputs
<1>25. CASE Return
  <2>1. ctx' = NewContext /\ out' = "" /\ hist' = "" /\ pc' = "idle"
    BY <1>25 DEF Return
  <2>2. /\ Fresh' /\ Unscored' /\ SoftPath' /\ HttpOnly' /\ Unanswered'
        /\ BeforeCookie' /\ Besieged' /\ WrittenByPipeline'
    BY <2>1 DEF Fresh, Unscored, SoftPath, HttpOnly, Unanswered,
                BeforeCookie, Besieged, WrittenByPipeline, Phase1, Phase2, Scoring2, Answering
  <2>3. Coherent' /\ HardDecisionSkipsScoring' /\ TotalMatchesCategories'
    BY <2>1, NewRiskScoreFacts DEF Coherent, CoherentContext, HardDecisionSkipsScoring,
                                   TotalMatchesCategories, NewContext, Balanced
  <2>4. DecisionEnforced' /\ UnderAttackHolds' /\ HistoryFollowsAnswer'
    BY <2>1 DEF DecisionEnforced, UnderAttackHolds, HistoryFollowsAnswer
  <2> QED BY <1>t, <2>2, <2>3, <2>4 DEF PipelineInv
<1>26. CASE ReloadConfig \/ UNCHANGED vars
  <2>1. pc' = pc /\ req' = req /\ ctx' = ctx /\ out' = out /\ hist' = hist
    BY <1>26 DEF ReloadConfig, vars
  <2> QED
    BY <1>t, <2>1 DEF PipelineInv, Fresh, Unscored, SoftPath, HttpOnly, Unanswered, Coherent,
       BeforeCookie, Besieged, WrittenByPipeline, TotalMatchesCategories, DecisionEnforced,
       UnderAttackHolds, HardDecisionSkipsScoring, HistoryFollowsAnswer
<1> QED
  BY <1>1, <1>2, <1>3, <1>4, <1>5, <1>6, <1>7, <1>8, <1>9, <1>10, <1>11, <1>12, <1>13,
     <1>14, <1>15, <1>16, <1>17, <1>18, <1>19, <1>20, <1>21, <1>22, <1>23, <1>24, <1>25,
     <1>26 DEF Next, Serve

\* An idle gateway satisfies the invariant.
LEMMA InvInit == Init => PipelineInv
<1> SUFFICES ASSUME Init PROVE PipelineInv
  OBVIOUS
<1>1. ctx = NewContext /\ out = "" /\ hist = "" /\ pc = "idle"
  BY DEF Init
<1>2. /\ Fresh /\ Unscored /\ SoftPath /\ HttpOnly /\ Unanswered
      /\ BeforeCookie /\ Besieged /\ WrittenByPipeline
  BY <1>1 DEF Fresh, Unscored, SoftPath, HttpOnly, Unanswered, BeforeCookie, Besieged,
              WrittenByPipeline, Phase1, Phase2, Scoring2, Answering
<1>3. Coherent /\ HardDecisionSkipsScoring /\ TotalMatchesCategories
  BY <1>1, NewRiskScoreFacts DEF Coherent, CoherentContext, HardDecisionSkipsScoring,
                                 TotalMatchesCategories, NewContext, Balanced
<1>4. DecisionEnforced /\ UnderAttackHolds /\ HistoryFollowsAnswer
  BY <1>1 DEF DecisionEnforced, UnderAttackHolds, HistoryFollowsAnswer
<1> QED BY <1>2, <1>3, <1>4, TypeInit DEF PipelineInv

\* The inductive invariant holds of every behaviour.
THEOREM PipelineInvariant == Spec => []PipelineInv
  BY InvInit, InvStep, PTL DEF Spec

\* A request whose prevailing decision is a block never reaches the application, and
\* a challenged one only with a valid cookie, whatever is configured.
THEOREM DecisionsAreEnforced == Spec => []DecisionEnforced
<1>1. PipelineInv => DecisionEnforced
  BY DEF PipelineInv
<1> QED BY <1>1, PipelineInvariant, PTL

\* Under-attack mode lets no unverified pipeline request through.
THEOREM UnderAttackIsHeld == Spec => []UnderAttackHolds
<1>1. PipelineInv => UnderAttackHolds
  BY DEF PipelineInv
<1> QED BY <1>1, PipelineInvariant, PTL

\* The risk total is the (clamped) sum of its categories for every configuration.
THEOREM TotalIsSumOfCategories == Spec => []TotalMatchesCategories
<1>1. PipelineInv => TotalMatchesCategories
  BY DEF PipelineInv
<1> QED BY <1>1, PipelineInvariant, PTL

\* After a hard decision nothing is scored.
THEOREM HardDecisionsAreNotScored == Spec => []HardDecisionSkipsScoring
<1>1. PipelineInv => HardDecisionSkipsScoring
  BY DEF PipelineInv
<1> QED BY <1>1, PipelineInvariant, PTL

\* The trusted history is credited for exactly the requests that were let through.
THEOREM HistoryIsEarned == Spec => []HistoryFollowsAnswer
<1>1. PipelineInv => HistoryFollowsAnswer
  BY DEF PipelineInv
<1> QED BY <1>1, PipelineInvariant, PTL

-----------------------------------------------------------------------------
(* The action property: decisions only escalate *)

\* What a step inside a request does to the decision: nothing, resolve one more with it
\* and copy it, clear the action of a verified client, or name the final action.
Kept == ctx'.decision = ctx.decision /\ ctx'.action = ctx.action
Resolved == \E a \in Actions : /\ ctx'.decision = ResolveDecision(ctx.decision, a)
                               /\ ctx'.action = ctx'.decision
Cleared == pc = "challenge_validator" /\ ctx'.decision = ctx.decision
Named == ctx'.decision = ctx.decision /\ ctx'.action = FinalAction

\* Ranks are numbers, and naming the final action lowers none.
LEMMA Ranks ==
    /\ \A a \in Actions : GetActionRank(a) \in Int
    /\ \A a \in Actions : GetActionRank(IF a = "" THEN "allow" ELSE a) >= GetActionRank(a)
<1>1. ASSUME NEW a \in Actions
      PROVE  GetActionRank(a) \in Int
  <2>1. GetActionRank(a) \in {0, 1, 2, 3, 4}
    BY DEF GetActionRank, Actions
  <2> QED
    BY <2>1
<1>2. ASSUME NEW a \in Actions
      PROVE  GetActionRank(IF a = "" THEN "allow" ELSE a) >= GetActionRank(a)
  <2>1. CASE a = ""
    <3>1. GetActionRank("") = 0 /\ GetActionRank("allow") = 2
      BY DEF GetActionRank
    <3>2. (IF a = "" THEN "allow" ELSE a) = "allow"
      BY <2>1
    <3>a. 2 >= 0
      OBVIOUS
    <3>3. GetActionRank("allow") >= GetActionRank("")
      BY <3>a, <3>1, Zenon
    <3> QED
      BY <2>1, <3>2, <3>3, Zenon
  <2>2. CASE a # ""
    <3>1. (IF a = "" THEN "allow" ELSE a) = a
      BY <2>2
    <3>2. GetActionRank(a) >= GetActionRank(a)
      BY <1>1
    <3> QED
      BY <3>1, <3>2
  <2> QED
    BY <2>1, <2>2
<1> QED
  BY <1>1, <1>2

\* Every step inside a request is one of the four.
LEMMA StepDecides ==
    ASSUME TypeOK, [Next]_vars, InPipeline
    PROVE  Kept \/ Resolved \/ Cleared \/ Named
<1>a. /\ RuleActions \subseteq Actions /\ LimitActions \subseteq Actions
      /\ "ip_access_rule" \in Sources /\ "flood" \in Sources /\ "rate_limit" \in Sources
      /\ "custom_rule" \in Sources /\ "scoring_engine" \in Sources
      /\ "challenge" \in Actions /\ "block" \in Actions
  BY InputTypes DEF RuleActions, Actions, Sources
<1>b. ctx \in Contexts
  BY DEF TypeOK
<1>s. ASSUME NEW k \in Categories, NEW n \in Int, ctx' = Score(ctx, k, n)
      PROVE  Kept
  BY <1>b, <1>s, ScoreFacts DEF Kept
<1>d. ASSUME NEW a \in Actions, NEW s \in Sources, ctx' = HardDecide(ctx, a, s)
      PROVE  Resolved
  BY <1>b, <1>d, HardDecideFacts DEF Resolved
<1>e. ASSUME NEW a \in Actions, NEW s \in Sources, ctx' = AddDecision(ctx, a, s)
      PROVE  Resolved
  BY <1>b, <1>e, AddDecisionFacts DEF Resolved
<1>k. ASSUME ctx' = ctx
      PROVE  Kept
  BY <1>k DEF Kept
<1>h. /\ "ip_reputation" \in Categories /\ "bot_detection" \in Categories
      /\ "waf_anomaly" \in Categories /\ "protocol_anomaly" \in Categories
      /\ "trust" \in Categories
  BY DEF Categories, WeightedCategories
<1>1. CASE ChallengeValidator
  <2> DEFINE Verified(l) == [ctx EXCEPT !.passed = TRUE, !.trust = l, !.action = ""]
  <2>1. ctx' = ctx \/ \E l \in 0..3 : ctx' = Verified(l)
    BY <1>1 DEF ChallengeValidator, Leave1
  <2>2. \A l \in 0..3 : Verified(l).decision = ctx.decision
    BY <1>b DEF Contexts
  <2> HIDE DEF Verified
  <2>3. ctx'.decision = ctx.decision
    BY <2>1, <2>2
  <2>4. pc = "challenge_validator"
    BY <1>1 DEF ChallengeValidator
  <2> QED
    BY <2>3, <2>4 DEF Cleared
<1>2. CASE IPAccess
  <2>1. ASSUME NEW a \in RuleActions,
               ctx' = [HardDecide(ctx, a, "ip_access_rule") EXCEPT !.ipTerminal = TRUE, !.ipRule = a]
        PROVE  Resolved
    <3> DEFINE c == HardDecide(ctx, a, "ip_access_rule")
    <3>1. c \in Contexts /\ c.action = c.decision /\ c.decision = ResolveDecision(ctx.decision, a)
      BY <1>a, <1>b, HardDecideFacts
    <3>2. ctx' = [c EXCEPT !.ipTerminal = TRUE, !.ipRule = a]
      BY <2>1
    <3> HIDE DEF c
    <3>3. ctx'.decision = c.decision /\ ctx'.action = c.action
      BY <3>1, <3>2 DEF Contexts
    <3> QED
      BY <1>a, <3>1, <3>3 DEF Resolved
  <2> QED
    BY <1>2, <1>k, <2>1 DEF IPAccess, Leave1
<1>3. CASE Flood
  BY <1>3, <1>a, <1>d, <1>k DEF Flood, Leave1
<1>4. CASE RateLimit
  BY <1>4, <1>a, <1>d, <1>k DEF RateLimit, Leave1
<1>5. CASE CacheCheck
  BY <1>5, <1>a, <1>e, <1>k DEF CacheCheck, Leave1
<1>6. CASE RulesEngine
  <2>1. ASSUME NEW mods \in SkipSets
        PROVE  LET c == [ctx EXCEPT !.skip = @ \cup mods]
               IN  c \in Contexts /\ c.decision = ctx.decision /\ c.action = ctx.action
    <3>1. mods \subseteq Modules
      BY SkipSetsAreModules
    <3> QED BY <1>b, <3>1 DEF Contexts
  <2>2. ASSUME NEW mods \in SkipSets, ctx' = [ctx EXCEPT !.skip = @ \cup mods]
        PROVE  Kept
    BY <2>1, <2>2 DEF Kept
  <2>3. ASSUME NEW mods \in SkipSets, NEW a \in RuleActions,
               ctx' = [HardDecide([ctx EXCEPT !.skip = @ \cup mods], a, "custom_rule") EXCEPT !.rule = a]
        PROVE  Resolved
    <3> DEFINE b == [ctx EXCEPT !.skip = @ \cup mods]
               c == HardDecide(b, a, "custom_rule")
    <3>1. b \in Contexts /\ b.decision = ctx.decision
      BY <2>1
    <3>2. ctx' = [c EXCEPT !.rule = a]
      BY <2>3
    <3> HIDE DEF b
    <3>3. c \in Contexts /\ c.action = c.decision /\ c.decision = ResolveDecision(ctx.decision, a)
      BY <1>a, <3>1, HardDecideFacts
    <3> HIDE DEF c
    <3>4. ctx'.decision = c.decision /\ ctx'.action = c.action
      BY <3>2, <3>3 DEF Contexts
    <3> QED
      BY <1>a, <3>3, <3>4 DEF Resolved
  <2> QED
    BY <1>6, <1>k, <2>2, <2>3 DEF RulesEngine, Leave1
<1>7. CASE IPReputation
  <2>1. cfg.weights["ip_reputation"].maxScore \in Int
    <3>1. "ip_reputation" \in WeightedCategories /\ cfg \in Configs
      BY DEF TypeOK, WeightedCategories
    <3>2. cfg.weights["ip_reputation"] \in Weights
      BY <3>1, InputTypes
    <3> QED BY <3>2, WeightTypes
  <2>2. \/ ctx' = ctx
        \/ \E s \in RepScores : LET m == cfg.weights["ip_reputation"].maxScore
                                IN  ctx' = Score(ctx, "ip_reputation", IF s > m THEN m ELSE s)
    BY <1>7 DEF IPReputation, Leave2
  <2> QED
    BY <1>h, <1>k, <1>s, <2>1, <2>2, InputTypes
<1>8. CASE BotDetection
  BY <1>8, <1>h, <1>k, <1>s, InputTypes DEF BotDetection, Leave2
<1>9. CASE WAFEngine
  <2>1. ASSUME NEW s \in WafScores, ctx' = [Score(ctx, "waf_anomaly", s) EXCEPT !.wafStatus = s]
        PROVE  Kept
    <3> DEFINE c == Score(ctx, "waf_anomaly", s)
    <3>1. s \in Int
      BY InputTypes, NatIsInt
    <3>2. c \in Contexts /\ c.action = ctx.action /\ c.decision = ctx.decision
      BY <1>b, <1>h, <3>1, ScoreFacts
    <3>3. ctx' = [c EXCEPT !.wafStatus = s]
      BY <2>1
    <3> HIDE DEF c
    <3> QED
      BY <3>2, <3>3 DEF Contexts, Kept
  <2> QED
    BY <1>9, <1>k, <2>1 DEF WAFEngine, Leave2
<1>10. CASE ProtocolAnomaly
  <2>1. \A s \in ProtoScores : s \in Int
    BY InputTypes, NatIsInt
  <2> QED
    BY <1>10, <1>h, <1>k, <1>s, <2>1 DEF ProtocolAnomaly, Leave2
<1>11. CASE TrustedHistory \/ StableSession \/ Trust
  <2>1. /\ cfg.trustedHistory \in Int /\ cfg.stableSession \in Int
        /\ TrustReductions[ctx.trust] \in Int
    BY <1>b, InputTypes DEF TypeOK, Contexts
  <2> QED
    BY <1>11, <1>h, <1>k, <1>s, <2>1 DEF TrustedHistory, StableSession, Trust, Leave2
<1>12. CASE Weigh
  <2> DEFINE rs == ClampTotal(ApplyWeights(ctx.rs, cfg.weights))
  <2>1. ctx' = [ctx EXCEPT !.rs = rs]
    BY <1>12, <1>b DEF Weigh, Contexts
  <2> HIDE DEF rs
  <2> QED
    BY <1>b, <2>1 DEF Contexts, Kept
<1>13. CASE DecisionEngine
  <2>1. ScoreAction(ctx.rs.total, cfg.thresholds) \in Actions
    BY DEF ScoreAction, Actions
  <2> QED
    BY <1>13, <1>a, <1>e, <1>k, <2>1 DEF DecisionEngine
<1>14. CASE BlockHandler \/ ChallengeHandler \/ ReloadConfig \/ UNCHANGED vars
  BY <1>14, <1>k DEF BlockHandler, ChallengeHandler, ReloadConfig, vars
<1>15. CASE Finish
  BY <1>15, <1>b DEF Finish, Contexts, Named
<1>16. CASE \/ Arrive \/ AnswerEarly \/ RefuseWebSocket \/ CheckWebSocket \/ EnterPipeline
            \/ WebSocketVerdict \/ Return
  <2>1. pc \in {"idle", "arrived", "ws_verdict", "done"}
    BY <1>16 DEF Arrive, AnswerEarly, RefuseWebSocket, CheckWebSocket, EnterPipeline,
                 WebSocketVerdict, Return
  <2> QED
    BY <2>1 DEF InPipeline, Phase1, Phase2
<1> QED
  BY <1>1, <1>2, <1>3, <1>4, <1>5, <1>6, <1>7, <1>8, <1>9, <1>10, <1>11, <1>12, <1>13,
     <1>14, <1>15, <1>16 DEF Next, Serve

\* Inside a request the decision never gets less severe, and the action only when a
\* cookie is accepted: no handler, cache or reload takes a verdict back (AddDecision).
THEOREM DecisionsEscalate == Spec => DecisionOnlyEscalates
<1>1. ASSUME PipelineInv, [Next]_vars, InPipeline
      PROVE  /\ GetActionRank(ctx'.decision) >= GetActionRank(ctx.decision)
             /\ pc # "challenge_validator" =>
                    GetActionRank(ctx'.action) >= GetActionRank(ctx.action)
  <2>1. TypeOK /\ ctx.decision \in Actions /\ ctx.action \in Actions
    BY <1>1 DEF PipelineInv, TypeOK, Contexts
  <2>2. GetActionRank(ctx.decision) \in Int /\ GetActionRank(ctx.action) \in Int
    BY <2>1, Ranks
  <2>3. CASE Kept
    BY <2>2, <2>3 DEF Kept
  <2>4. CASE Resolved
    <3>1. PICK a \in Actions : /\ ctx'.decision = ResolveDecision(ctx.decision, a)
                               /\ ctx'.action = ctx'.decision
      BY <2>4 DEF Resolved
    <3>2. GetActionRank(ctx'.decision) >= GetActionRank(ctx.decision) /\ ctx'.decision \in Actions
      BY <2>1, <3>1, ResolveDecisionFacts
    <3>3. GetActionRank(ctx.decision) >= GetActionRank(ctx.action)
      <4>1. CoherentContext(ctx)
        BY <1>1 DEF PipelineInv, Coherent, InPipeline, Phase1, Phase2
      <4>2. CASE ctx.action = ctx.decision
        BY <2>2, <4>2
      <4>3. CASE ctx.action = "" /\ ctx.decision = "challenge"
        <5>1. GetActionRank("") = 0 /\ GetActionRank("challenge") = 3
          BY DEF GetActionRank
        <5>a. 3 >= 0
          OBVIOUS
        <5>2. GetActionRank("challenge") >= GetActionRank("")
          BY <5>a, <5>1, Zenon
        <5> QED
          BY <4>3, <5>2, Zenon
      <4> QED
        BY <4>1, <4>2, <4>3 DEF CoherentContext
    <3>4. GetActionRank(ctx'.decision) \in Int
      BY <3>2, Ranks
    <3> QED
      BY <2>2, <3>1, <3>2, <3>3, <3>4
  <2>5. CASE Cleared
    BY <2>2, <2>5 DEF Cleared
  <2>6. CASE Named
    <3>1. ctx'.decision = ctx.decision /\ ctx'.action = IF ctx.action = "" THEN "allow" ELSE ctx.action
      BY <2>6 DEF Named, FinalAction
    <3>2. GetActionRank(ctx'.action) >= GetActionRank(ctx.action)
      BY <2>1, <3>1, Ranks
    <3>3. GetActionRank(ctx.decision) >= GetActionRank(ctx.decision)
      BY <2>2
    <3>4. GetActionRank(ctx'.decision) >= GetActionRank(ctx.decision)
      BY <3>1, <3>3, Zenon
    <3> QED
      BY <3>2, <3>4
  <2> QED
    BY <1>1, <2>1, <2>3, <2>4, <2>5, <2>6, StepDecides
<1>2. PipelineInv /\ [Next]_vars =>
        [InPipeline =>
           /\ GetActionRank(ctx'.decision) >= GetActionRank(ctx.decision)
           /\ pc # "challenge_validator" =>
                  GetActionRank(ctx'.action) >= GetActionRank(ctx.action)]_vars
  BY <1>1
<1> QED
  BY <1>2, PipelineInvariant, PTL DEF Spec, DecisionOnlyEscalates
=============================================================================

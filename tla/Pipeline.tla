------------------------------ MODULE Pipeline ------------------------------
(***************************************************************************)
(* One request through the gateway: WAFHandler.ServeHTTP and the four      *)
(* phases of pipeline.Execute, one action per handler, in the order in     *)
(* which main.go registers them.                                           *)
(*                                                                         *)
(*   ctx  the pipeline.Context: the action, the decision it was copied     *)
(*        from, the flags the handlers test, the risk score and the        *)
(*        entries of ctx.Extra that name the rules that matched            *)
(*   cfg  the scoring configuration behind the settings cache.  Handlers   *)
(*        read it at different moments of one request, and the background  *)
(*        reload may replace it in between                                 *)
(*   out  what the client has been sent, "" as long as nothing was written *)
(*   hist what the request did to the trusted history of its address       *)
(*                                                                         *)
(* What a handler learns from its own service (a rule that matches, a      *)
(* limiter that refuses, a score) is an input, chosen with \E; those       *)
(* services have modules of their own.                                     *)
(***************************************************************************)
EXTENDS Scoring

CONSTANTS
    Configs,          \* scoring configurations an administrator may save
    RepScores,        \* manual or MaxMind score of an address
    BotScores,        \* composite bot score, negative for trusted bots
    WafScores,        \* anomaly score of the rule engine
    ProtoScores,      \* sum of the protocol anomaly rules that match
    TrustReductions,  \* reduction per trust level, [0..3 -> Int]
    LimitActions,     \* actions configured for flood and rate limits
    SkipSets          \* modules the matching skip rules of a request name

ASSUME ConfigsValid == \A c \in Configs :
    /\ ValidScoringConfig(c)
    /\ c.trustedHistory \in Int /\ c.stableSession \in Int
ASSUME ScoresAreInts ==
    /\ RepScores \subseteq Int /\ BotScores \subseteq Int
    /\ WafScores \subseteq Nat /\ ProtoScores \subseteq Nat
ASSUME ReductionsAreInts == TrustReductions \in [0..3 -> Int]
ASSUME LimitActionsAreActions == LimitActions \subseteq Actions \ {""}

Modules == {"flood", "rate_limit", "ip_reputation", "bot", "waf", "protocol_anomaly"}

ASSUME SkipSetsAreModules == SkipSets \subseteq SUBSET Modules

VARIABLES pc, req, ctx, cfg, out, hist

vars == <<pc, req, ctx, cfg, out, hist>>

RuleActions == {"allow", "block", "challenge"}
Sources == {"", "under_attack_mode", "ip_access_rule", "flood", "rate_limit",
            "custom_rule", "scoring_engine"}

Phase1 == {"challenge_validator", "ip_access", "flood", "rate_limit", "cache", "rules"}
Phase2 == {"ip_reputation", "bot_detection", "waf_engine", "protocol_anomaly",
           "trusted_history", "stable_session", "trust"}
Labels == Phase1 \cup Phase2 \cup
    {"idle", "arrived", "ws_verdict", "weights", "decision_engine", "block_handler",
     "challenge_handler", "finish", "done"}

\* The registration order of the handlers in main.go.
Successor(stage) ==
    CASE stage = "challenge_validator" -> "ip_access"
      [] stage = "ip_access"           -> "flood"
      [] stage = "flood"               -> "rate_limit"
      [] stage = "rate_limit"          -> "cache"
      [] stage = "cache"               -> "rules"
      [] stage = "ip_reputation"       -> "bot_detection"
      [] stage = "bot_detection"       -> "waf_engine"
      [] stage = "waf_engine"          -> "protocol_anomaly"
      [] stage = "protocol_anomaly"    -> "trusted_history"
      [] stage = "trusted_history"     -> "stable_session"
      [] stage = "stable_session"      -> "trust"
      [] stage = "trust"               -> "weights"

Requests == [app : BOOLEAN, underAttack : BOOLEAN, wsAllowed : BOOLEAN, ws : BOOLEAN]

Outputs == {"", "redirect", "preflight", "upstream", "default_page", "denied",
            "bad_request", "too_many", "tunnel", "block_page", "challenge_page",
            "challenge_error"}

Contexts == [action : Actions, decision : Actions, source : Sources,
             hard : BOOLEAN, ipTerminal : BOOLEAN, ipRule : RuleActions \cup {""},
             rule : RuleActions \cup {""}, passed : BOOLEAN, trust : 0..3,
             skip : SUBSET Modules, wafStatus : Nat, rs : RiskScores]

NewContext ==
    [action |-> "", decision |-> "", source |-> "", hard |-> FALSE,
     ipTerminal |-> FALSE, ipRule |-> "", rule |-> "", passed |-> FALSE,
     trust |-> 0, skip |-> {}, wafStatus |-> 0, rs |-> NewRiskScore]

NoRequest == [app |-> FALSE, underAttack |-> FALSE, wsAllowed |-> FALSE, ws |-> FALSE]

\* Mutant: the decision prevails but is not copied to the action.
DecisionNotCopied(c, a, source) ==
    LET d == ResolveDecision(c.decision, a)
    IN  [c EXCEPT !.decision = d, !.source = IF d = c.decision THEN @ ELSE source]

\* Context.AddDecision: Action is always copied from the decision that prevails.
AddDecision(c, a, source) ==
    LET d == ResolveDecision(c.decision, a)
    IN  [c EXCEPT !.decision = d, !.action = d,
                  !.source = IF d = c.decision THEN @ ELSE source]

\* A Phase 1 handler that decides also sets HardDecision.
HardDecide(c, a, source) == [AddDecision(c, a, source) EXCEPT !.hard = TRUE]

Score(c, category, n) == [c EXCEPT !.rs = AddScore(@, category, n)]

Init ==
    /\ pc = "idle" /\ req = NoRequest /\ ctx = NewContext
    /\ cfg \in Configs /\ out = "" /\ hist = ""

-----------------------------------------------------------------------------
(* ServeHTTP before the pipeline *)

\* The app of the request's host is resolved first; only an app carries flags.
Arrive ==
    /\ pc = "idle"
    /\ req' \in {r \in Requests : r.app \/ (~r.underAttack /\ ~r.wsAllowed)}
    /\ pc' = "arrived"
    /\ UNCHANGED <<ctx, cfg, out, hist>>

Respond(o) == out' = o /\ pc' = "done" /\ UNCHANGED <<req, ctx, cfg, hist>>

\* HTTPS redirect, CORS preflight, static asset bypass and root redirect return early.
AnswerEarly ==
    /\ pc = "arrived"
    /\ \/ req.app /\ Respond("redirect")
       \/ req.app /\ Respond("preflight")
       \/ req.app /\ Respond("upstream")
       \/ Respond("default_page")

RefuseWebSocket ==
    /\ pc = "arrived" /\ req.ws /\ ~(req.app /\ req.wsAllowed)
    /\ Respond("denied")

CheckWebSocket ==
    /\ pc = "arrived" /\ req.ws /\ req.app /\ req.wsAllowed
    /\ pc' = "challenge_validator"
    /\ UNCHANGED <<req, ctx, cfg, out, hist>>

\* Under-attack mode adds its challenge before Execute, after the WebSocket branch.
EnterPipeline ==
    /\ pc = "arrived" /\ ~req.ws
    /\ ctx' = IF req.underAttack
              THEN AddDecision(ctx, "challenge", "under_attack_mode") ELSE ctx
    /\ pc' = "challenge_validator"
    /\ UNCHANGED <<req, cfg, out, hist>>

-----------------------------------------------------------------------------
(* Phase 1.  Execute runs every handler and tests HardDecision at the end;   *)
(* ExecuteWebSocketChecks tests it after every handler.                      *)

\* Mutant: HardDecision is not tested after the loop over Phase 1.
ScoringAlwaysRuns(stage, hard) ==
    IF req.ws
    THEN IF hard \/ stage = "rules" THEN "ws_verdict" ELSE Successor(stage)
    ELSE IF stage # "rules" THEN Successor(stage) ELSE "ip_reputation"

AfterPhase1(stage, hard) ==
    IF req.ws
    THEN IF hard \/ stage = "rules" THEN "ws_verdict" ELSE Successor(stage)
    ELSE IF stage # "rules" THEN Successor(stage)
    ELSE IF hard THEN "block_handler" ELSE "ip_reputation"

Leave1(stage, c) ==
    /\ ctx' = c
    /\ pc' = AfterPhase1(stage, c.hard)
    /\ UNCHANGED <<req, cfg, out, hist>>

\* A valid cookie clears the action, not the decision it was copied from.
ChallengeValidator ==
    /\ pc = "challenge_validator"
    /\ \/ Leave1("challenge_validator", ctx)
       \/ \E level \in 0..3 :
            Leave1("challenge_validator",
                   [ctx EXCEPT !.passed = TRUE, !.trust = level, !.action = ""])

\* No match and a failed lookup both fall through.
IPAccess ==
    /\ pc = "ip_access"
    /\ \/ Leave1("ip_access", ctx)
       \/ \E a \in RuleActions :
            Leave1("ip_access", [HardDecide(ctx, a, "ip_access_rule")
                                     EXCEPT !.ipTerminal = TRUE, !.ipRule = a])

Exempt(module) == ctx.hard \/ module \in ctx.skip \/ ctx.ipTerminal \/ ctx.passed

\* An active penalty, or one of the three counters over its limit.
Flood ==
    /\ pc = "flood"
    /\ \/ Leave1("flood", ctx)
       \/ /\ ~Exempt("flood")
          /\ \E a \in LimitActions \cup {"block", "challenge"} :
               Leave1("flood", HardDecide(ctx, a, "flood"))

RateLimit ==
    /\ pc = "rate_limit"
    /\ \/ Leave1("rate_limit", ctx)
       \/ /\ ~Exempt("rate_limit")
          /\ \E a \in LimitActions \cup {"block"} :
               Leave1("rate_limit", HardDecide(ctx, a, "rate_limit"))

\* A cached decision is added without HardDecision, and even after one.
CacheCheck ==
    /\ pc = "cache"
    /\ \/ Leave1("cache", ctx)
       \/ /\ ~ctx.ipTerminal /\ ~ctx.passed
          /\ \E a \in {"block", "challenge"} :
               Leave1("cache", AddDecision(ctx, a, "custom_rule"))

\* The loop over the matching rules: mods is what the skip rules before the first
\* terminal rule name.  A verified client only gets the skips.
RulesEngine ==
    /\ pc = "rules"
    /\ \/ Leave1("rules", ctx)
       \/ /\ ~ctx.ipTerminal
          /\ \E mods \in SkipSets :
               LET c == [ctx EXCEPT !.skip = @ \cup mods]
               IN  \/ Leave1("rules", c)
                   \/ /\ ~ctx.passed
                      /\ \E a \in RuleActions :
                           Leave1("rules", [HardDecide(c, a, "custom_rule")
                                                EXCEPT !.rule = a])

-----------------------------------------------------------------------------
(* Phase 2: every handler may add to one category of the risk score *)

Leave2(stage, c) ==
    /\ ctx' = c
    /\ pc' = Successor(stage)
    /\ UNCHANGED <<req, cfg, out, hist>>

\* The score is held to the category's maximum of the configuration read here.
IPReputation ==
    /\ pc = "ip_reputation"
    /\ LET w == cfg.weights["ip_reputation"]
       IN  IF ctx.hard \/ "ip_reputation" \in ctx.skip \/ ~w.enabled
           THEN Leave2("ip_reputation", ctx)
           ELSE \E s \in RepScores :
                  LET n == IF s > w.maxScore THEN w.maxScore ELSE s
                  IN  Leave2("ip_reputation",
                             IF n > 0 THEN Score(ctx, "ip_reputation", n) ELSE ctx)

BotDetection ==
    /\ pc = "bot_detection"
    /\ IF ctx.ipTerminal \/ ctx.passed \/ "bot" \in ctx.skip
       THEN Leave2("bot_detection", ctx)
       ELSE \E s \in BotScores : Leave2("bot_detection", Score(ctx, "bot_detection", s))

\* Verified clients are scanned too.
WAFEngine ==
    /\ pc = "waf_engine"
    /\ IF ctx.ipTerminal \/ "waf" \in ctx.skip
       THEN Leave2("waf_engine", ctx)
       ELSE \E s \in WafScores :
              Leave2("waf_engine", [Score(ctx, "waf_anomaly", s) EXCEPT !.wafStatus = s])

ProtocolAnomaly ==
    /\ pc = "protocol_anomaly"
    /\ IF ctx.hard \/ ctx.passed \/ "protocol_anomaly" \in ctx.skip
       THEN Leave2("protocol_anomaly", ctx)
       ELSE \E s \in ProtoScores :
              Leave2("protocol_anomaly", Score(ctx, "protocol_anomaly", s))

\* Enough clean requests on record, or not (or the cache is down).
TrustedHistory ==
    /\ pc = "trusted_history"
    /\ \/ Leave2("trusted_history", ctx)
       \/ ~ctx.hard /\ Leave2("trusted_history", Score(ctx, "trust", cfg.trustedHistory))

\* The fingerprint on record matches, or it does not.
StableSession ==
    /\ pc = "stable_session"
    /\ \/ Leave2("stable_session", ctx)
       \/ ~ctx.hard /\ Leave2("stable_session", Score(ctx, "trust", cfg.stableSession))

Trust ==
    /\ pc = "trust"
    /\ Leave2("trust", IF ctx.hard \/ ~ctx.passed THEN ctx
                       ELSE Score(ctx, "trust", TrustReductions[ctx.trust]))

\* Execute: weights of the configuration read now, then the clamp.
Weigh ==
    /\ pc = "weights"
    /\ ctx' = [ctx EXCEPT !.rs = ClampTotal(ApplyWeights(@, cfg.weights))]
    /\ pc' = "decision_engine"
    /\ UNCHANGED <<req, cfg, out, hist>>

-----------------------------------------------------------------------------
(* Phases 3 and 4 *)

DecisionEngine ==
    /\ pc = "decision_engine"
    /\ LET a == ScoreAction(ctx.rs.total, cfg.thresholds)
       IN  ctx' = IF ctx.hard \/ ctx.action \in {"block", "challenge"} \/ a = ""
                  THEN ctx ELSE AddDecision(ctx, a, "scoring_engine")
    /\ pc' = "block_handler"
    /\ UNCHANGED <<req, cfg, out, hist>>

BlockHandler ==
    /\ pc = "block_handler"
    /\ IF ctx.action = "block"
       THEN out' = "block_page" /\ pc' = "finish"
       ELSE out' = out /\ pc' = "challenge_handler"
    /\ UNCHANGED <<req, ctx, cfg, hist>>

\* Nothing is written for a verified client, whatever the action says.
ChallengeHandler ==
    /\ pc = "challenge_handler"
    /\ IF ctx.passed \/ ctx.action # "challenge"
       THEN out' = out
       ELSE out' \in {"challenge_page", "challenge_error"}
    /\ pc' = "finish"
    /\ UNCHANGED <<req, ctx, cfg, hist>>

-----------------------------------------------------------------------------
(* ServeHTTP after the pipeline *)

FinalAction == IF ctx.action = "" THEN "allow" ELSE ctx.action
ShouldProxy == FinalAction \notin {"block", "challenge"}

\* Mutant: every request counts as clean.
CreditEveryRequest ==
    /\ pc = "finish"
    /\ ctx' = [ctx EXCEPT !.action = FinalAction]
    /\ hist' = "recorded"
    /\ out' = IF out = "" /\ ShouldProxy THEN "default_page" ELSE out
    /\ pc' = "done"
    /\ UNCHANGED <<req, cfg>>

\* History first, then the answer: nothing more when the pipeline wrote one,
\* the upstream (or the default page) when the action allows it.
Finish ==
    /\ pc = "finish"
    /\ ctx' = [ctx EXCEPT !.action = FinalAction]
    /\ hist' = IF ShouldProxy THEN "recorded" ELSE "reset"
    /\ IF out = "" /\ ShouldProxy
       THEN \/ req.app /\ out' = "upstream"
            \/ out' = "default_page"
       ELSE out' = out
    /\ pc' = "done"
    /\ UNCHANGED <<req, cfg>>

\* ServeHTTP's WebSocket branch after the partial checks.
WebSocketVerdict ==
    /\ pc = "ws_verdict"
    /\ IF ctx.action \in {"block", "challenge"}
       THEN Respond("denied")
       ELSE \E o \in {"bad_request", "too_many", "tunnel", "default_page"} : Respond(o)

\* ServeHTTP returns and the context is dropped.
Return ==
    /\ pc = "done"
    /\ pc' = "idle" /\ req' = NoRequest /\ ctx' = NewContext /\ out' = "" /\ hist' = ""
    /\ UNCHANGED cfg

\* The settings cache swaps the configuration, at any moment of a request.
ReloadConfig ==
    /\ cfg' \in Configs
    /\ UNCHANGED <<pc, req, ctx, out, hist>>

Serve ==
    \/ AnswerEarly \/ RefuseWebSocket \/ CheckWebSocket \/ EnterPipeline
    \/ ChallengeValidator \/ IPAccess \/ Flood \/ RateLimit \/ CacheCheck \/ RulesEngine
    \/ IPReputation \/ BotDetection \/ WAFEngine \/ ProtocolAnomaly
    \/ TrustedHistory \/ StableSession \/ Trust \/ Weigh
    \/ DecisionEngine \/ BlockHandler \/ ChallengeHandler
    \/ Finish \/ WebSocketVerdict \/ Return

Next == Arrive \/ Serve \/ ReloadConfig

Spec == Init /\ [][Next]_vars

-----------------------------------------------------------------------------
(* Properties *)

\* The variables keep the shapes of the Go types they stand for.
TypeOK ==
    /\ pc \in Labels
    /\ req \in Requests
    /\ ctx \in Contexts
    /\ cfg \in Configs
    /\ out \in Outputs
    /\ hist \in {"", "recorded", "reset"}

InPipeline == pc \in Phase1 \cup Phase2 \cup
    {"weights", "decision_engine", "block_handler", "challenge_handler", "finish"}

\* The risk total stays the sum of its categories through every AddScore of
\* Phase 2, and after the weights it is that sum clamped to 0..100: caps,
\* multipliers and disabled categories move both by the same amount
\* (RiskScore.Add, ApplyCap, ApplyMultiplier, applyWeightsWithConfig).
TotalMatchesCategories ==
    IF pc \in {"decision_engine", "block_handler", "challenge_handler", "finish", "done"}
    THEN ctx.rs.total = ClampTotal([ctx.rs EXCEPT !.total = SumOfCategories(ctx.rs.by)]).total
    ELSE ctx.rs.total = SumOfCategories(ctx.rs.by)

\* When ServeHTTP is done, whatever any handler decided, a request whose prevailing
\* decision is a block has not reached the application, and one whose prevailing
\* decision is a challenge has only if the client holds a valid challenge cookie.
DecisionEnforced ==
    pc = "done" /\ out \in {"upstream", "tunnel"} =>
        /\ ctx.decision # "block"
        /\ ctx.decision = "challenge" => ctx.passed

\* An application in under-attack mode receives no request that went through the
\* pipeline without a valid challenge cookie: whatever the rules, the cache, the scores
\* and a reload add, the challenge of ServeHTTP prevails (ResolveDecision).  The
\* documentation promises an allow rule the opposite: see AllowIsFullBypass.
UnderAttackHolds ==
    pc = "done" /\ hist # "" /\ req.underAttack /\ ~ctx.passed => out # "upstream"

\* A hard decision of Phase 1 means no scoring: Execute goes straight to the
\* response handlers and no scorer has touched the risk score.
HardDecisionSkipsScoring == ctx.hard => ctx.rs = NewRiskScore /\ ctx.wafStatus = 0

\* The trusted history is credited exactly for the pipeline requests that were let
\* through, and wiped for the others: a client that got a block or a challenge page
\* never collects credit for it (RecordCleanRequest and ResetHistory in ServeHTTP).
HistoryFollowsAnswer ==
    pc = "done" =>
        /\ hist = "recorded" => out \in {"upstream", "default_page"}
        /\ out \in {"block_page", "challenge_page", "challenge_error"} => hist = "reset"

\* Inside a request the prevailing decision only gets more severe, and the action
\* the handlers read never gets less severe except by the cookie check.
DecisionOnlyEscalates ==
    [][InPipeline =>
         /\ GetActionRank(ctx'.decision) >= GetActionRank(ctx.decision)
         /\ pc # "challenge_validator" =>
                GetActionRank(ctx'.action) >= GetActionRank(ctx.action)]_vars

-----------------------------------------------------------------------------
(* What the code and its documentation say and the program does not do.      *)

\* The challenge handler's log line for a verified client: "User already verified,
\* proxying upstream".  ServeHTTP does not proxy it when its action is a challenge.
VerifiedReachesUpstream ==
    pc = "done" /\ ctx.passed /\ ~req.ws /\ ctx.action # "block"
        => out \in {"upstream", "default_page"}

\* docs/pipeline-flow.md on an IP access rule: "Full bypass. No remaining Phase 1, no
\* Phase 2 scoring, no Phase 3 decision. Straight to proxy."  But the
\* challenge that ServeHTTP has added for under-attack mode outranks the allow.
AllowIsFullBypass ==
    pc = "done" /\ ~req.ws /\ ctx.ipRule = "allow" => out \in {"upstream", "default_page"}
=============================================================================

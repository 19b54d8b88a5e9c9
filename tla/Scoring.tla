------------------------------ MODULE Scoring ------------------------------
(***************************************************************************)
(* The pure part of the request pipeline: how decisions are ranked and     *)
(* merged (pipeline/decision.go), how the risk score of a request is kept  *)
(* (pipeline/risk_score.go) and how the category weights of a scoring      *)
(* configuration are applied to it (Pipeline.applyWeightsWithConfig).      *)
(*                                                                         *)
(* A RiskScore is a record with the running total and one score per        *)
(* category.  The list of score entries only feeds the log and is left     *)
(* out.  A multiplier is a float64 in the code; here it is a number of     *)
(* quarters, so that every product is exact and the conversion int(x) is   *)
(* the truncation towards zero that Go performs.                           *)
(***************************************************************************)
EXTENDS Integers

\* The categories the weights apply to, and the trust category, which has none.
WeightedCategories == {"ip_reputation", "bot_detection", "waf_anomaly", "protocol_anomaly"}
Categories == WeightedCategories \cup {"trust"}

\* The actions a Context carries; "" is the zero value of a Decision's Action.
Actions == {"", "log", "allow", "challenge", "block"}

GetActionRank(a) ==
    CASE a = "block"     -> 4
      [] a = "challenge" -> 3
      [] a = "allow"     -> 2
      [] a = "log"       -> 1
      [] OTHER           -> 0

\* Mutant: ties go to the newcomer and lower ranks win as well.
LastDecisionWins(current, new) == IF new = "skip" THEN current ELSE new

\* ResolveDecision on actions: only a strictly higher rank replaces the current one.
ResolveDecision(current, new) ==
    IF new # "skip" /\ GetActionRank(new) > GetActionRank(current) THEN new ELSE current

(***************************************************************************)
(* Risk score                                                              *)
(***************************************************************************)
RiskScores == [total : Int, by : [Categories -> Int]]

NewRiskScore == [total |-> 0, by |-> [c \in Categories |-> 0]]

\* Mutant: the category is overwritten instead of accumulated.
OverwriteCategory(rs, c, score) ==
    [total |-> rs.total + score, by |-> [rs.by EXCEPT ![c] = score]]

AddScore(rs, c, score) ==
    [total |-> rs.total + score, by |-> [rs.by EXCEPT ![c] = @ + score]]

\* Writing the value v into category c moves the total by the difference.
SetCategory(rs, c, v) ==
    [total |-> rs.total + (v - rs.by[c]), by |-> [rs.by EXCEPT ![c] = v]]

\* Mutant: the cap is written to the category but the total keeps the overflow.
CapKeepsOverflow(rs, c, maxScore) ==
    IF rs.by[c] <= maxScore THEN rs ELSE [rs EXCEPT !.by[c] = maxScore]

ApplyCap(rs, c, maxScore) ==
    IF rs.by[c] <= maxScore THEN rs ELSE SetCategory(rs, c, maxScore)

\* int(float64(x) * (q / 4)): Go truncates towards zero, TLA+ \div rounds down.
Scale(x, q) == IF x >= 0 THEN (x * q) \div 4 ELSE -(((-x) * q) \div 4)

ApplyMultiplier(rs, c, q) ==
    IF q = 4 THEN rs ELSE SetCategory(rs, c, Scale(rs.by[c], q))

\* applyCategory: a disabled category loses its score only when it is positive.
ApplyCategory(rs, c, w) ==
    IF w.enabled
    THEN ApplyCap(ApplyMultiplier(rs, c, w.multiplier), c, w.maxScore)
    ELSE IF rs.by[c] > 0 THEN SetCategory(rs, c, 0) ELSE rs

\* Mutant: the cap is applied before the multiplier.
CapThenScale(rs, weights) ==
    LET capped(r, c) == ApplyMultiplier(ApplyCap(r, c, weights[c].maxScore),
                                        c, weights[c].multiplier)
    IN  capped(capped(capped(capped(rs, "ip_reputation"), "bot_detection"),
                      "waf_anomaly"), "protocol_anomaly")

ApplyWeights(rs, weights) ==
    LET step(r, c) == ApplyCategory(r, c, weights[c])
    IN  step(step(step(step(rs, "ip_reputation"), "bot_detection"),
                  "waf_anomaly"), "protocol_anomaly")

MaxTotal == 100

\* Mutant: only the upper bound is enforced.
ClampAbove(rs) == [rs EXCEPT !.total = IF @ > MaxTotal THEN MaxTotal ELSE @]

ClampTotal(rs) ==
    [rs EXCEPT !.total = IF @ < 0 THEN 0 ELSE IF @ > MaxTotal THEN MaxTotal ELSE @]

SumOfCategories(by) ==
    by["ip_reputation"] + by["bot_detection"] + by["waf_anomaly"]
        + by["protocol_anomaly"] + by["trust"]

\* The decision engine's comparison of the total with the thresholds.
ScoreAction(total, thresholds) ==
    IF total >= thresholds.block THEN "block"
    ELSE IF total >= thresholds.challenge THEN "challenge"
    ELSE ""

\* What ValidateScoringConfig accepts (multipliers in quarters: 5.0 is 20).
Weights == [enabled : BOOLEAN, maxScore : 0..100, multiplier : 0..20]

ValidScoringConfig(cfg) ==
    /\ cfg.thresholds.block \in 1..100
    /\ cfg.thresholds.challenge \in 1..100
    /\ cfg.thresholds.challenge < cfg.thresholds.block
    /\ cfg.weights \in [WeightedCategories -> Weights]
=============================================================================

---------------------------- MODULE MCRuleService ----------------------------
(* Bounds for RuleService: two applications, two rules, a reorder of both.    *)
EXTENDS RuleService

MCOrders == {<<2, 1>>}
=============================================================================

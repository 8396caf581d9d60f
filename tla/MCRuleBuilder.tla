--------------------------- MODULE MCRuleBuilder ---------------------------
(* Builders over two selectors.                                            *)
EXTENDS RuleBuilder

CONSTANTS a, b

TwoSelectors == {a, b}
=============================================================================

----------------------------- MODULE MCRuleDag -----------------------------
(***************************************************************************)
(* An instance of RuleDag with three keys: a, b and a/b.                   *)
(***************************************************************************)
EXTENDS RuleDag

MCNames == {"a", "b"}
MCValues == {}
MCPropNames == {"x"}

\* Joins of joins, up to six nodes; or rules on up to four.
MCBounds == {[nodes |-> 6, props |-> 0, constraints |-> 0],
             [nodes |-> 4, props |-> 2, constraints |-> 1]}
=============================================================================

---------------------------- MODULE MCContexts ----------------------------
(***************************************************************************)
(* Contexts built at the same time, under the files whose search order     *)
(* matters most.                                                           *)
(***************************************************************************)
EXTENDS ContextSearch, RuleFiles

OrderDags == {file[2] : file \in {Constrained, Disjunction, Nesting}}

TwoRequests == {KeyA, KeyAvB}
=============================================================================

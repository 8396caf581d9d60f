------------------------------ MODULE MCDomain ------------------------------
(***************************************************************************)
(* Contexts built one after the other, with both parts of a file loaded    *)
(* before them, or the second part somewhere in between.                   *)
(***************************************************************************)
EXTENDS ContextRefinement, RuleFiles

Versions == UNION {{file[1], file[2]} : file \in AllFiles}

FewRequests == {KeyA, KeyB, KeyAvB}
=============================================================================

---------------------------- MODULE Specificity ----------------------------
(***************************************************************************)
(* The ranking of settings (dag/specificity.h and PropertySetting of       *)
(* search_state.h).  A specificity counts the names and the values that a  *)
(* match has used; a setting carries the specificity it was reached with   *)
(* and whether it is marked @override.                                     *)
(***************************************************************************)
EXTENDS Naturals

Specificities == [names : Nat, values : Nat]

Spec0 == [names |-> 0, values |-> 0]

\* Values count first, names only break ties.
Below(a, b) == \/ a.values < b.values
               \/ a.values = b.values /\ a.names < b.names

Plus(a, b) == [names |-> a.names + b.names, values |-> a.values + b.values]

Higher(a, b) == IF Below(a, b) THEN b ELSE a

\* The specificities of S that no other one of S exceeds: a set with one
\* member, or empty when S is.
Highest(S) == {a \in S : \A b \in S : ~Below(a, b)}

(***************************************************************************)
(* PropertySetting::better.  A setting here is any record with the fields  *)
(* spec and override.                                                      *)
(***************************************************************************)
Better(s, t) == \/ s.override /\ ~t.override
                \/ s.override = t.override /\ Below(t.spec, s.spec)
=============================================================================

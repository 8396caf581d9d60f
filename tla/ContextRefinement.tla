------------------------- MODULE ContextRefinement -------------------------
(***************************************************************************)
(* The searches of Domain implement the contexts of AbstractContext:       *)
(* nothing of a construction shows until it ends, and what it ends with is *)
(* exactly what AbstractContext promises.                                  *)
(***************************************************************************)
EXTENDS Domain

\* SearchState::checkCache: the setting that a built context goes by for x.
Applied(c, x) ==
    IF x \in DOMAIN state[c].settings THEN {state[c].settings[x]}
    ELSE Inherited(state[c], x)

\* SearchState::doSearch: its values, which conflict when there are several.
Found(c, x) == UNION {s.values : s \in Applied(c, x)}

\* The value doSearch returns: the last of the conflicting settings.
Returned(found) == {p \in found : \A q \in found : q.num <= p.num}

Visible == [c \in Built |-> [parent  |-> state[c].parent,
                             key     |-> state[c].key,
                             rules   |-> seen[c],
                             answers |-> [x \in PropNames |->
                                           [conflict |-> Found(c, x),
                                            value |-> Returned(Found(c, x))]]]]

Abstract == INSTANCE AbstractContext WITH contexts <- Visible

(***************************************************************************)
(* Whatever order the search visits nodes, children and tallies in, and    *)
(* however the constructions and the loads interleave, a context's key is  *)
(* the least one closed under the constraints of the rules active in it,   *)
(* and every property finds exactly the settings that win over all the     *)
(* rules active at any step of the context, as they were when that step    *)
(* was built: none lost, none stale in part, none outranked.               *)
(***************************************************************************)
ImplementsAbstract == Abstract!Spec

(***************************************************************************)
(* A context built before the latest load, or under one that was, misses   *)
(* rules but never finds what is not there: each setting it finds would    *)
(* still be a candidate in the same context under the latest rules, ranked *)
(* as high at least.  (What a built context finds does not change; looking *)
(* while no other one is built is enough.)                                 *)
(***************************************************************************)
UnderLatest(c, x) ==
    LET ks == Abstract!DownTo(Visible, c, "key")
    IN  Abstract!Candidates([j \in DOMAIN ks |-> dag], ks, x)

StaleOnlyMisses ==
    Building = {} =>
        \A c \in Built, x \in PropNames : \A s \in Applied(c, x) : \A p \in s.values :
            \E now \in UnderLatest(c, x) : now.prop = p /\ ~Below(now.spec, s.spec)
=============================================================================

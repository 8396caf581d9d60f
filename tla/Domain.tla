------------------------------- MODULE Domain -------------------------------
(***************************************************************************)
(* A CcsDomain over time: rules are loaded, contexts are built, more rules *)
(* are loaded, more contexts are built under the older ones.               *)
(*                                                                         *)
(* Contexts and loads share the nodes of one DAG without any lock, so a    *)
(* load may not run while a context is built; between constructions it may *)
(* come at any time.  A context keeps what its construction has found and  *)
(* never hears of a load (CcsContext holds a search state and nothing      *)
(* else), while the constructions under it follow its nodes to whatever    *)
(* children and tallies these have by then.                                *)
(***************************************************************************)
EXTENDS ContextSearch

CONSTANT Loads   \* pairs of DAGs: what a load finds and what it leaves

VARIABLE seen    \* the DAG that the construction of each context has read

domainVars == <<dag, state, run, seen>>

\* Loads make such pairs (OnlyGrows of RuleDagProofs).
ASSUME DomainAssumption ==
    \A l \in Loads : l[1] \in Dags /\ l[2] \in Dags /\ Grown(l[1], l[2])

DomainInit == Init /\ seen = [c \in {} |-> dag]

\* CcsDomain::build, Builder::build and CcsContext::constrain.
Construct(c) ==
    \/ Start(c) /\ seen' = Put(seen, c, dag)
    \/ Step(c) /\ UNCHANGED seen

\* CcsDomain::loadCcsStream, or a RuleBuilder's end.
Load ==
    /\ Building = {}
    /\ \E l \in Loads : l[1] = dag /\ dag' = l[2]
    /\ UNCHANGED <<state, run, seen>>

DomainNext == Load \/ \E c \in Contexts : Construct(c)

DomainSpec == DomainInit /\ [][DomainNext]_domainVars

(***************************************************************************)
(* What a construction finds depends on its parent, its key and the rules  *)
(* of the time, and not on the order of its search, nor on whatever else   *)
(* was built or loaded before, since or in between: of two contexts that   *)
(* agree in these neither has a node, a leg or a setting of its own.       *)
(***************************************************************************)
RulesDecide ==
    \A c, b \in Built :
        /\ state[c].parent = state[b].parent /\ state[c].key = state[b].key
        /\ seen[c] = seen[b]
        => state[c] = state[b]
=============================================================================

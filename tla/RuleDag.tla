------------------------------ MODULE RuleDag ------------------------------
(***************************************************************************)
(* How rules become a DAG: DagBuilder, the build contexts of               *)
(* parser/build_context.cpp and the addTo and traverse methods of          *)
(* parser/ast.cpp.                                                         *)
(*                                                                         *)
(* Traversing a selector creates nodes and tallies one at a time, reusing  *)
(* the ones earlier rules created; a rule's properties and constraints are *)
(* then added to the node its selector ends at.  Any two nodes other than  *)
(* the root can become the legs of a join, since a selector can put the    *)
(* selectors that lead to them side by side in parentheses.                *)
(***************************************************************************)
EXTENDS Dag

CONSTANT Bounds   \* records of how many nodes, props and constraints a
                  \* DAG may have; one of them has to allow it

VARIABLE dag

Init == dag = EmptyDag

WithinBounds(d) ==
    \E b \in Bounds : /\ d.size <= b.nodes
                      /\ d.nextProperty <= b.props
                      /\ Cardinality(d.constraints) <= b.constraints

\* Step::traverse: the node a step of a selector leads to.
AddChild(n, k) ==
    /\ dag' = WithChild(dag, n, k)
    /\ WithinBounds(dag')

\* TallyBuildContext::traverse for a conjunction or a disjunction.
Join(kind, f, s) ==
    /\ Root \notin {f, s}
    /\ dag' = WithJoin(dag, kind, f, s)
    /\ WithinBounds(dag')

\* PropDef::addTo.
AddProperty(n, x, override) ==
    /\ dag' = WithProperty(dag, n, x, override)
    /\ WithinBounds(dag')

\* Constraint::addTo.
AddConstraint(n, k) ==
    /\ dag' = WithConstraint(dag, n, k)
    /\ WithinBounds(dag')

Next ==
    \/ \E n \in NodesOf(dag), k \in Keys \ {EmptyKey} : AddChild(n, k)
    \/ \E n \in NodesOf(dag), k \in Keys \ {EmptyKey} : AddConstraint(n, k)
    \/ \E f, s \in NodesOf(dag), kind \in Kinds : Join(kind, f, s)
    \/ \E n \in NodesOf(dag), x \in PropNames, override \in BOOLEAN :
          AddProperty(n, x, override)

Spec == Init /\ [][Next]_dag

----------------------------------------------------------------------------
TypeOK ==
    dag \in [size : Nat \ {0}, edges : SUBSET Edges, tallies : SUBSET Tallies,
             registered : SUBSET (Nat \X Nat), props : SUBSET Props,
             constraints : SUBSET Constraints, nextProperty : Nat]

(***************************************************************************)
(* Pointers lead from older nodes to newer ones, so the DAG has no cycle   *)
(* although joins tie arbitrary nodes together.  The search of a context   *)
(* relies on it: Node::activate recurses along these pointers, and a cycle *)
(* through a conjunction would free the tally state being used             *)
(* (SearchState::setTallyState).                                           *)
(***************************************************************************)
Acyclic ==
    /\ \A e \in dag.edges : Root <= e.parent /\ e.parent < e.child
    /\ \A r \in dag.registered : Root < r[1] /\ r[1] < r[2]

(***************************************************************************)
(* No two tallies of a kind join the same two nodes, whichever leg is      *)
(* written first: rules that say "a b" and "b a" end at one node.  The     *)
(* comment of TallyBuildContext::traverse, "result will be either empty or *)
(* have exactly one entry", follows from this and LegsRegistered.          *)
(***************************************************************************)
TallyUnique ==
    \A t, u \in dag.tallies :
        t.kind = u.kind /\ {t.first, t.second} = {u.first, u.second} => t = u

(***************************************************************************)
(* Every node but the root hangs off exactly one pointer that owns it: an  *)
(* entry of one children map, or one tally that two nodes share.           *)
(***************************************************************************)
Owners(n) == {e \in dag.edges : e.child = n} \cup
             {t \in dag.tallies : t.node = n}

SingleOwner ==
    \A n \in NodesOf(dag) :
        IF n = Root THEN Owners(n) = {}
        ELSE \E o \in Owners(n) : Owners(n) = {o}

(***************************************************************************)
(* A tally is registered with its two legs and with no other node, so the  *)
(* activation of either leg, and of nothing else, reaches it.              *)
(***************************************************************************)
LegsRegistered ==
    dag.registered = {<<t.first, t.node>> : t \in dag.tallies} \cup
                     {<<t.second, t.node>> : t \in dag.tallies}

(***************************************************************************)
(* What a selector means never changes while more rules are loaded: a step *)
(* or a join that leads to a node now leads to the same node afterwards,   *)
(* and the properties found there are still there.                         *)
(***************************************************************************)
KeepsNodes ==
       /\ \A e \in dag.edges : ChildNode(dag', e.parent, e.key) = e.child
       /\ \A t \in dag.tallies :
             /\ JoinNode(dag', t.kind, t.first, t.second) = t.node
             /\ JoinNode(dag', t.kind, t.second, t.first) = t.node
       /\ dag.props \subseteq dag'.props

NodesAreKept == [][KeepsNodes]_dag

(***************************************************************************)
(* A conflict is settled by property numbers (SearchState::doSearch): a    *)
(* property added later outranks every one that was there, and no two      *)
(* share a number.                                                         *)
(***************************************************************************)
NewOutranks ==
    \A p \in dag'.props \ dag.props : \A q \in dag'.props \ {p} : q.num < p.num

LaterOutranks == [][NewOutranks]_dag

----------------------------------------------------------------------------
(***************************************************************************)
(* The strengthening that makes the invariants above inductive: pointers   *)
(* lead to nodes that exist, a join has two different legs, a children map *)
(* holds one node per key, and properties are at nodes that exist, with    *)
(* numbers below the next one.                                             *)
(***************************************************************************)
InRange ==
    /\ \A e \in dag.edges : e.parent \in NodesOf(dag) /\ e.child \in NodesOf(dag)
    /\ \A t \in dag.tallies : /\ t.first \in NodesOf(dag)
                              /\ t.second \in NodesOf(dag)
                              /\ t.node \in NodesOf(dag)

LegsDiffer == \A t \in dag.tallies : t.first # t.second

OneChildPerKey ==
    \A e, f \in dag.edges : e.parent = f.parent /\ e.key = f.key => e = f

PropsInRange ==
    \A p \in dag.props : p.node \in NodesOf(dag) /\ p.num < dag.nextProperty

StepsSaySomething == \A e \in dag.edges : e.key # EmptyKey

IInv == /\ TypeOK /\ Acyclic /\ TallyUnique /\ SingleOwner /\ LegsRegistered
        /\ InRange /\ LegsDiffer /\ OneChildPerKey /\ PropsInRange
        /\ StepsSaySomething
=============================================================================

-------------------------------- MODULE Dag --------------------------------
(***************************************************************************)
(* The data the whole system is about: keys (dag/key.h) and the rule DAG   *)
(* (dag/node.h, dag/tally.h, dag/dag_builder.h).                           *)
(*                                                                         *)
(* A key is what one step of a context, or of a selector, says: a set of   *)
(* names and a set of <<name, value>> pairs.                               *)
(*                                                                         *)
(* Nodes are numbered in the order the program creates them; Root is the   *)
(* node the DagBuilder owns.  The pointers between nodes are relations:    *)
(*   edges        Node::children, a map from keys to nodes per node        *)
(*   tallies      every AndTally and OrTally; the node that a tally owns   *)
(*                (Tally::node_) identifies it                             *)
(*   registered   which tallies a node has in andTallies_ and orTallies_   *)
(*   props        Node::props, with the number DagBuilder gave each        *)
(*   constraints  the keys given to Node::addConstraint                    *)
(***************************************************************************)
EXTENDS Specificity, FiniteSets

CONSTANTS Names,      \* names a key may use
          Values,     \* values a name may be given in a key
          PropNames   \* names of properties

Root == 1

Keys == {k \in [names : SUBSET Names, values : SUBSET (Names \X Values)] :
            \A v \in k.values : v[1] \in k.names}

EmptyKey == [names |-> {}, values |-> {}]

\* Defect: the values of a key are added without their names.
AddValuesOnly(k, c) == [k EXCEPT !.values = @ \cup c.values]

\* Key::addAll, whose result is whether the key it changes was changed.
AddAll(k, c) == [names |-> k.names \cup c.names,
                 values |-> k.values \cup c.values]

\* Key::matches: the pattern may say less than the key, never more.
Matches(pattern, k) == /\ pattern.names \subseteq k.names
                       /\ pattern.values \subseteq k.values

KeySpecificity(k) == [names |-> Cardinality(k.names),
                      values |-> Cardinality(k.values)]

----------------------------------------------------------------------------
(* Reading a DAG.                                                          *)

Kinds == {"and", "or"}

Edges       == [parent : Nat, key : Keys, child : Nat]
Tallies     == [kind : Kinds, first : Nat, second : Nat, node : Nat]
Props       == [node : Nat, name : PropNames, override : BOOLEAN, num : Nat]
Constraints == [node : Nat, key : Keys]

NodesOf(d) == 1..d.size

\* Pointers lead to nodes that exist.
WellFormed(d) ==
    /\ d.size \in Nat \ {0}
    /\ d.edges \subseteq Edges /\ \A e \in d.edges : e.child \in NodesOf(d)
    /\ d.tallies \subseteq Tallies /\ \A t \in d.tallies : t.node \in NodesOf(d)
    /\ d.props \subseteq Props /\ \A p \in d.props : p.node \in NodesOf(d)
    /\ d.constraints \subseteq Constraints

(***************************************************************************)
(* What loads make has this shape besides (RuleDag): pointers lead from    *)
(* older nodes to newer ones, no step of a selector is empty, each node    *)
(* but the root is reached by one pointer that owns it, and a tally is     *)
(* registered with its two legs and with nothing else.                     *)
(***************************************************************************)
Regular(d) ==
    /\ \A e \in d.edges : /\ Root <= e.parent /\ e.parent < e.child
                          /\ e.key # EmptyKey
    /\ \A t \in d.tallies : /\ Root < t.first /\ t.first < t.node
                            /\ Root < t.second /\ t.second < t.node
    /\ \A e, f \in d.edges : e.child = f.child => e = f
    /\ \A t, u \in d.tallies : t.node = u.node => t = u
    /\ \A e \in d.edges, t \in d.tallies : e.child # t.node
    /\ \A n \in NodesOf(d) \ {Root} : \/ \E e \in d.edges : e.child = n
                                     \/ \E t \in d.tallies : t.node = n
    /\ d.registered = {<<t.first, t.node>> : t \in d.tallies} \cup
                      {<<t.second, t.node>> : t \in d.tallies}

\* What a load may make of d: everything stays, what is new is numbered on.
Grown(d, e) ==
    /\ d.size <= e.size /\ d.nextProperty <= e.nextProperty
    /\ d.edges \subseteq e.edges /\ d.tallies \subseteq e.tallies
    /\ d.registered \subseteq e.registered
    /\ d.props \subseteq e.props /\ d.constraints \subseteq e.constraints
    /\ \A x \in e.edges \ d.edges : d.size < x.child
    /\ \A t \in e.tallies \ d.tallies : d.size < t.node
    /\ \A p \in e.props \ d.props : d.nextProperty <= p.num

EdgesFrom(d, n) == {e \in d.edges : e.parent = n}

PropsOf(d, n) == {p \in d.props : p.node = n}

TalliesOf(d, n, kind) ==
    {t \in d.tallies : t.kind = kind /\ <<n, t.node>> \in d.registered}

\* Node::constraints, the union of all the keys added to it.
ConstraintOf(d, n) ==
    LET added == {c.key : c \in {x \in d.constraints : x.node = n}}
    IN  [names |-> UNION {k.names : k \in added},
         values |-> UNION {k.values : k \in added}]

----------------------------------------------------------------------------
(* Building a DAG.  Each operation yields the node it answers (the ...Node *)
(* operator) and the DAG it leaves behind (the With... operator).          *)

EmptyDag == [size |-> 1, edges |-> {}, tallies |-> {}, registered |-> {},
             props |-> {}, constraints |-> {}, nextProperty |-> 0]

EdgeFor(d, n, k) == {e \in EdgesFrom(d, n) : e.key = k}

ChildNode(d, n, k) ==
    IF EdgeFor(d, n, k) = {} THEN d.size + 1
    ELSE (CHOOSE e \in EdgeFor(d, n, k) : TRUE).child

\* Defect: the entry of the children map is overwritten.
WithChildReplaced(d, n, k) ==
    [d EXCEPT !.size = @ + 1,
              !.edges = (@ \ EdgeFor(d, n, k)) \cup
                        {[parent |-> n, key |-> k, child |-> d.size + 1]}]

\* Defect: the child is an existing node, not a new one.
WithChildUncounted(d, n, k) ==
    IF EdgeFor(d, n, k) # {} THEN d
    ELSE [d EXCEPT !.edges = @ \cup {[parent |-> n, key |-> k,
                                      child |-> d.size]}]

\* Node::addChild: a key the node has already leads to the node it had.
WithChild(d, n, k) ==
    IF EdgeFor(d, n, k) # {} THEN d
    ELSE [d EXCEPT !.size = @ + 1,
                   !.edges = @ \cup {[parent |-> n, key |-> k,
                                      child |-> d.size + 1]}]

\* The intersection TallyBuildContext::traverse takes.
Shared(d, kind, f, s) == TalliesOf(d, f, kind) \cap TalliesOf(d, s, kind)

JoinNode(d, kind, f, s) ==
    IF f = s THEN f
    ELSE IF Shared(d, kind, f, s) = {} THEN d.size + 1
    ELSE (CHOOSE t \in Shared(d, kind, f, s) : TRUE).node

\* Defect: the tally is not registered with the second leg.
WithJoinOneLeg(d, kind, f, s) ==
    IF f = s \/ Shared(d, kind, f, s) # {} THEN d
    ELSE [d EXCEPT !.size = @ + 1,
                   !.tallies = @ \cup {[kind |-> kind, first |-> f,
                                        second |-> s, node |-> d.size + 1]},
                   !.registered = @ \cup {<<f, d.size + 1>>}]

\* Defect: the tally shares the node of its second leg.
WithJoinOnLeg(d, kind, f, s) ==
    IF f = s \/ Shared(d, kind, f, s) # {} THEN d
    ELSE [d EXCEPT !.tallies = @ \cup {[kind |-> kind, first |-> f,
                                        second |-> s, node |-> s]},
                   !.registered = @ \cup {<<f, s>>, <<s, s>>}]

\* TallyBuildContext::traverse, once both legs have been found.
WithJoin(d, kind, f, s) ==
    IF f = s \/ Shared(d, kind, f, s) # {} THEN d
    ELSE [d EXCEPT !.size = @ + 1,
                   !.tallies = @ \cup {[kind |-> kind, first |-> f,
                                        second |-> s, node |-> d.size + 1]},
                   !.registered = @ \cup {<<f, d.size + 1>>,
                                          <<s, d.size + 1>>}]

\* Defect: the number is not advanced.
WithPropertySameNumber(d, n, x, override) ==
    [d EXCEPT !.props = @ \cup {[node |-> n, name |-> x, override |-> override,
                                 num |-> d.nextProperty]}]

\* Defect: the number before the next one is used.
WithPropertyBefore(d, n, x, override) ==
    [d EXCEPT !.props = @ \cup {[node |-> n, name |-> x, override |-> override,
                                 num |-> d.nextProperty - 1]},
              !.nextProperty = @ + 1]

\* BuildContext::addProperty.
WithProperty(d, n, x, override) ==
    [d EXCEPT !.props = @ \cup {[node |-> n, name |-> x, override |-> override,
                                 num |-> d.nextProperty]},
              !.nextProperty = @ + 1]

\* Node::addConstraint.
WithConstraint(d, n, k) ==
    [d EXCEPT !.constraints = @ \cup {[node |-> n, key |-> k]}]
=============================================================================

---------------------------- MODULE RuleBuilder ----------------------------
(***************************************************************************)
(* Rule builders (rule_builder.cpp): rules given by calls instead of files. *)
(*                                                                         *)
(* A RuleBuilder is a handle, a shared pointer to an Impl that collects    *)
(* the rules given to it.  select makes a child Impl, which holds its      *)
(* parent; every call returns one more handle.  When the last pointer to a *)
(* child goes, its destructor adds its rules to the parent, and the root's *)
(* destructor adds everything to the DAG.  Handles are copied, kept and    *)
(* dropped by the program in any order; the destructors that one drop sets *)
(* off run one after another (releasing).                                  *)
(*                                                                         *)
(* Impls are numbered as they are made.  A setting is the number of its    *)
(* call of set, with the selectors it is nested in where it is now.        *)
(***************************************************************************)
EXTENDS Naturals, FiniteSets, Sequences

CONSTANTS Selectors,   \* what select may be called with
          MaxImpls,    \* bound on the Impls made
          MaxSets,     \* bound on the calls of set
          MaxHandles   \* bound on the handles to one Impl

VARIABLES impls,      \* the Impls made: parent, selector and rules
          alive,      \* those not destroyed
          handles,    \* how many handles there are to each
          releasing,  \* the Impl whose destructor is to run, or None
          dag,        \* the settings the DAG was given, in order
          given       \* to which Impl each setting was given

vars == <<impls, alive, handles, releasing, dag, given>>

None == 0

Init == /\ impls = <<>> /\ alive = {} /\ handles = <<>>
        /\ releasing = None /\ dag = <<>> /\ given = <<>>

Children(i) == {c \in alive : impls[c].parent = i}

\* An Impl the program can call.
Held(i) == i \in alive /\ handles[i] > 0 /\ releasing = None

Made(parent, selector) ==
    /\ Len(impls) < MaxImpls
    /\ impls' = Append(impls, [parent |-> parent, selector |-> selector,
                               rules |-> <<>>])
    /\ alive' = alive \cup {Len(impls) + 1}
    /\ handles' = Append(handles, 1)
    /\ UNCHANGED <<releasing, dag, given>>

\* CcsDomain::ruleBuilder.
Create == releasing = None /\ Made(None, <<>>)

Select(i, s) == Held(i) /\ Made(i, <<s>>)

\* set returns a copy of the handle it was called on.
Set(i) ==
    /\ Held(i) /\ Len(given) < MaxSets /\ handles[i] < MaxHandles
    /\ impls' = [impls EXCEPT ![i].rules =
                    Append(@, [set |-> Len(given) + 1, under |-> <<>>])]
    /\ given' = Append(given, i)
    /\ handles' = [handles EXCEPT ![i] = @ + 1]
    /\ UNCHANGED <<alive, releasing, dag>>

\* The rules of Impl i as they appear in its parent's.
Nested(i) == [k \in DOMAIN impls[i].rules |->
                 [impls[i].rules[k] EXCEPT !.under = impls[i].selector \o @]]

\* Defect: the child's rules are added to the parent at once.
PopAdding(i) ==
    /\ Held(i) /\ impls[i].parent # None
    /\ handles[impls[i].parent] < MaxHandles
    /\ handles' = [handles EXCEPT ![impls[i].parent] = @ + 1]
    /\ impls' = [impls EXCEPT ![impls[i].parent].rules = @ \o Nested(i)]
    /\ UNCHANGED <<alive, releasing, dag, given>>

\* pop returns a handle to the parent; on a root it throws.
Pop(i) ==
    /\ Held(i) /\ impls[i].parent # None
    /\ handles[impls[i].parent] < MaxHandles
    /\ handles' = [handles EXCEPT ![impls[i].parent] = @ + 1]
    /\ UNCHANGED <<impls, alive, releasing, dag, given>>

\* A handle is destroyed; with the last pointer goes the Impl.
Drop(i) ==
    /\ Held(i)
    /\ handles' = [handles EXCEPT ![i] = @ - 1]
    /\ releasing' = IF handles[i] = 1 /\ Children(i) = {} THEN i ELSE None
    /\ UNCHANGED <<impls, alive, dag, given>>

\* Defect: a child's rules are merged with the parent's, not nested in them.
HandOnMerged(i) ==
    LET p == impls[i].parent
        emptied == [impls EXCEPT ![i].rules = <<>>]
    IN  IF p = None THEN impls' = emptied /\ dag' = dag \o Nested(i)
        ELSE /\ impls' = [emptied EXCEPT ![p].rules = @ \o impls[i].rules]
             /\ UNCHANGED dag

\* Defect: every Impl adds its rules to the DAG.
HandOnToDag(i) == /\ impls' = [impls EXCEPT ![i].rules = <<>>]
                  /\ dag' = dag \o Nested(i)

\* The bodies of ~Child and ~Root.
HandOn(i) ==
    LET p == impls[i].parent
        emptied == [impls EXCEPT ![i].rules = <<>>]
    IN  IF p = None THEN impls' = emptied /\ dag' = dag \o Nested(i)
        ELSE /\ impls' = [emptied EXCEPT ![p].rules = @ \o Nested(i)]
             /\ UNCHANGED dag

\* Defect: a parent that only its children kept is not destroyed.
NextToGoNone(i) == None

\* The Impl that goes together with i, whose pointer was the last one to it.
NextToGo(i) ==
    LET p == impls[i].parent
    IN  IF p # None /\ handles[p] = 0 /\ Children(p) = {i} THEN p ELSE None

Destroy ==
    /\ releasing # None
    /\ HandOn(releasing)
    /\ alive' = alive \ {releasing}
    /\ releasing' = NextToGo(releasing)
    /\ UNCHANGED <<handles, given>>

Next ==
    \/ Create \/ Destroy
    \/ \E i \in alive : Set(i) \/ Pop(i) \/ Drop(i)
    \/ \E i \in alive, s \in Selectors : Select(i, s)

\* A destructor that was set off runs on.
Spec == Init /\ [][Next]_vars /\ WF_vars(Destroy)

----------------------------------------------------------------------------
\* The selectors each Impl stands for, outermost first.
Paths ==
    LET path[i \in 0..Len(impls)] ==
            IF i = None THEN <<>>
            ELSE path[impls[i].parent] \o impls[i].selector
    IN  path

\* The builder each Impl belongs to: its outermost Impl.
Roots ==
    LET root[i \in 1..Len(impls)] ==
            IF impls[i].parent = None THEN i ELSE root[impls[i].parent]
    IN  root

InDag(n) == \E k \in DOMAIN dag : dag[k].set = n

(***************************************************************************)
(* However handles are copied, kept and dropped, every setting is at one   *)
(* place: waiting in one living Impl, or in the DAG.                       *)
(***************************************************************************)
RulesAt(i) == IF i = None THEN dag ELSE impls[i].rules

Copies(n) ==
    UNION {{<<i, k>> : k \in {j \in DOMAIN RulesAt(i) : RulesAt(i)[j].set = n}} :
           i \in alive \cup {None}}

NoneLostOrDoubled == \A n \in DOMAIN given : Cardinality(Copies(n)) = 1

(***************************************************************************)
(* A setting reaches the DAG under the selectors of the handle it was      *)
(* given to, through however many parents it was handed on.                *)
(***************************************************************************)
LandsWhereGiven ==
    \A k \in DOMAIN dag : dag[k].under = Paths[given[dag[k].set]]

(***************************************************************************)
(* The DAG has all the settings of a builder or none of them, so a context *)
(* built in between never sees half of what one builder says.              *)
(***************************************************************************)
WholeBuilders ==
    \A m, n \in DOMAIN given :
        Roots[given[m]] = Roots[given[n]] => (InDag(m) <=> InDag(n))

(***************************************************************************)
(* When the program has dropped all its handles no Impl stays behind, and  *)
(* with it (NoneLostOrDoubled) no setting.                                 *)
(***************************************************************************)
AllDelivered == (\A i \in alive : handles[i] = 0) ~> alive = {}

(***************************************************************************)
(* LoggingTracer::onConflict says of settings equally specific: "Using     *)
(* most recent value."  The one with the higher place in the DAG is used,  *)
(* so for settings of one selector that should be the one set last.        *)
(***************************************************************************)
MostRecentIsUsed ==
    \A j, k \in DOMAIN dag :
        /\ dag[j].under = dag[k].under /\ j < k
        /\ Roots[given[dag[j].set]] = Roots[given[dag[k].set]]
        => dag[j].set < dag[k].set
=============================================================================

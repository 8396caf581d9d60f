--------------------------- MODULE ContextSearch ---------------------------
(***************************************************************************)
(* Building contexts: SearchState (search_state.h, search_state.cpp), with *)
(* the activation of nodes and tallies that drives it (Node::activate,     *)
(* Node::getChildren, AndTally::activate, OrTally::activate).              *)
(*                                                                         *)
(* Each context under construction is a thread that runs the recursive     *)
(* search one call at a time.  Its SearchState is its own; the states of   *)
(* its ancestors are shared with every other thread and only read.  What   *)
(* the code iterates in the order of pointers (the nodes of an ancestor,   *)
(* the tallies of a node) is iterated in every order, and so are children  *)
(* and properties, whose order depends on names.                           *)
(***************************************************************************)
EXTENDS Dag, Sequences

CONSTANTS Dags,         \* the DAGs considered
          MaxContexts,  \* bound on the contexts built
          MaxBuilding,  \* bound on the contexts under construction at once
          Requests      \* the keys that builders ask for

VARIABLES dag,      \* the rules: no one changes them here
          state,    \* the SearchState of each context
          run       \* how far each construction has come

vars == <<dag, state, run>>

\* Loads make such DAGs (RuleDagProofs), and parsers such keys.
ASSUME SearchAssumption ==
    /\ IsFiniteSet(Names) /\ IsFiniteSet(Values)
    /\ \A d \in Dags : WellFormed(d) /\ Regular(d)
    /\ MaxContexts \in Nat
    /\ Requests \subseteq Keys

Contexts == 1..MaxContexts

None == 0

(***************************************************************************)
(* A SearchState: parent, key, nodes, tallyMap (tallies), properties       *)
(* (settings) and the flag constraintsChanged (changed).  Above holds the  *)
(* contexts that following parent pointers leads to; parents never change. *)
(*                                                                         *)
(* A run: the ancestor being extended with (ancestor), the local flag of   *)
(* newChild that asks for another round (again), the nodes of the ancestor *)
(* not looked at yet (todo), the children not looked at yet of the one     *)
(* being looked at (edges), and the stack of calls of Node::activate, each *)
(* with what it has left to do.                                            *)
(***************************************************************************)
NewState(p, above, k) ==
    [parent |-> p, above |-> above, key |-> k, nodes |-> [n \in {} |-> Spec0],
     tallies |-> [t \in {} |-> Spec0], settings |-> [x \in {} |-> Spec0],
     changed |-> FALSE]

Unused == NewState(None, {}, EmptyKey)

Idle == [phase |-> "unused", ancestor |-> None, again |-> FALSE,
         todo |-> {}, edges |-> {}, stack |-> <<>>]

Finished == [Idle EXCEPT !.phase = "built"]

Built == {c \in Contexts : run[c].phase = "built"}

Building == {c \in Contexts : run[c].phase = "building"}

\* The function f with x mapped to v as well.
Put(f, x, v) == [y \in DOMAIN f \cup {x} |-> IF y = x THEN v ELSE f[y]]

\* The nearest of the contexts cs, all on one path from the root: a parent
\* has a smaller number.  No context when cs is empty.
Nearest(cs) == {c \in cs : \A other \in cs : other <= c}

----------------------------------------------------------------------------
(* Operators on the SearchState s of a context c under construction.       *)

\* Defect: asks for another round even when the key already said it all.
ConstrainAlways(s, k) ==
    [s EXCEPT !.key = AddAll(@, k), !.changed = @ \/ k # EmptyKey]

\* SearchState::constrain.
Constrain(s, k) ==
    [s EXCEPT !.key = AddAll(@, k),
              !.changed = @ \/ AddAll(s.key, k) # s.key]

\* Defect: the specificity a node was first reached with is final.
IsFirst(s, n, spec) == n \notin DOMAIN s.nodes

\* Defect: the specificity a node was last reached with counts.
IsDifferent(s, n, spec) == n \notin DOMAIN s.nodes \/ s.nodes[n] # spec

\* Whether SearchState::add has news: a node new to this context, or one
\* reached with a higher specificity than before.
IsNews(s, n, spec) ==
    n \notin DOMAIN s.nodes \/ Below(s.nodes[n], spec)

(***************************************************************************)
(* SearchState::checkCache for the ancestors of a context: the setting of  *)
(* x that the nearest one to have one holds, or none.                      *)
(***************************************************************************)
Inherited(s, x) ==
    {state[a].settings[x] :
        a \in Nearest({b \in s.above : x \in DOMAIN state[b].settings})}

\* Defect: the inherited setting is looked at, but not carried over.
CachedAfresh(s, p, spec) ==
    LET new == [spec |-> spec, override |-> p.override, values |-> {p}]
        own == p.name \in DOMAIN s.settings
    IN  IF \E old \in IF own THEN {s.settings[p.name]} ELSE Inherited(s, p.name) :
              Better(old, new)
        THEN s ELSE [s EXCEPT !.settings = Put(@, p.name, new)]

(***************************************************************************)
(* SearchState::cacheProperty.  Without a setting of its own the context   *)
(* starts from the inherited one, and keeps nothing if that is better.     *)
(***************************************************************************)
Cached(s, p, spec) ==
    LET new  == [spec |-> spec, override |-> p.override, values |-> {p}]
        own  == p.name \in DOMAIN s.settings
        olds == IF own THEN {s.settings[p.name]} ELSE Inherited(s, p.name)
        merged(old) == IF Better(new, old) THEN new
                       ELSE IF Better(old, new) THEN old
                       ELSE [old EXCEPT !.values = @ \cup {p}]
    IN  IF olds = {}
        THEN [s EXCEPT !.settings = Put(@, p.name, new)]
        ELSE LET old == CHOOSE o \in olds : TRUE
             IN  IF ~own /\ Better(old, new) THEN s
                 ELSE [s EXCEPT !.settings = Put(@, p.name, merged(old))]

EmptyTally == [firstMatched |-> FALSE, secondMatched |-> FALSE,
               firstMatch |-> Spec0, secondMatch |-> Spec0]

\* SearchState::getTallyState: the context's own state, else the nearest
\* ancestor's, else the empty one.
InheritedTally(s, t) ==
    {state[a].tallies[t.node] :
        a \in Nearest({b \in s.above : t.node \in DOMAIN state[b].tallies})}

TallyState(s, t) ==
    IF t.node \in DOMAIN s.tallies THEN s.tallies[t.node]
    ELSE IF InheritedTally(s, t) = {} THEN EmptyTally
    ELSE CHOOSE inherited \in InheritedTally(s, t) : TRUE

\* Defect: a leg counts for the specificity it was last matched with.
LegReplaced(old, t, leg, spec) ==
    [firstMatched  |-> old.firstMatched \/ leg = t.first,
     secondMatched |-> old.secondMatched \/ leg = t.second,
     firstMatch    |-> IF leg = t.first THEN spec ELSE old.firstMatch,
     secondMatch   |-> IF leg = t.second THEN spec ELSE old.secondMatch]

\* TallyState::activate.
LegMatched(old, t, leg, spec) ==
    [firstMatched  |-> old.firstMatched \/ leg = t.first,
     secondMatched |-> old.secondMatched \/ leg = t.second,
     firstMatch    |-> IF leg = t.first THEN Higher(old.firstMatch, spec)
                       ELSE old.firstMatch,
     secondMatch   |-> IF leg = t.second THEN Higher(old.secondMatch, spec)
                       ELSE old.secondMatch]

\* Defect: the state that was found is updated where it is, not copied.
SetTallyInPlace(c, s, t, new) ==
    LET having == {a \in {c} \cup s.above : t.node \in DOMAIN state[a].tallies}
        owners == IF having = {} THEN {c} ELSE Nearest(having)
    IN  [a \in Contexts |->
            IF a \in owners
            THEN [state[a] EXCEPT !.tallies = Put(@, t.node, new)]
            ELSE state[a]]

\* SearchState::setTallyState, on the states of all contexts.
SetTallyState(c, s, t, new) ==
    [state EXCEPT ![c] = [s EXCEPT !.tallies = Put(@, t.node, new)]]

----------------------------------------------------------------------------
(***************************************************************************)
(* Node::activate on node n: what it does to the SearchState at once, and  *)
(* the call it leaves on the stack when it has more to do.                 *)
(***************************************************************************)
Activated(s, n, spec) ==
    LET c == Constrain(s, ConstraintOf(dag, n))
    IN  IF IsNews(s, n, spec) THEN [c EXCEPT !.nodes = Put(@, n, spec)] ELSE c

Call(n, spec) == [node |-> n, spec |-> spec, props |-> PropsOf(dag, n),
                  ands |-> TalliesOf(dag, n, "and"),
                  ors |-> TalliesOf(dag, n, "or")]

CallsAfter(s, stack, n, spec) ==
    IF IsNews(s, n, spec) THEN <<Call(n, spec)>> \o stack ELSE stack

Top(c) == Head(run[c].stack)

----------------------------------------------------------------------------
(* Starting a context.                                                     *)

Init ==
    /\ dag \in Dags
    /\ state = [c \in Contexts |-> Unused]
    /\ run = [c \in Contexts |-> Idle]

\* CcsDomain::build: the root node is activated in a context of its own.
StartRoot(c) ==
    /\ state' = [state EXCEPT ![c] = Activated(Unused, Root, Spec0)]
    /\ run' = [run EXCEPT ![c] =
                  [Idle EXCEPT !.phase = "building",
                               !.stack = CallsAfter(Unused, <<>>, Root, Spec0)]]

\* SearchState::newChild: the search begins with the parent's nodes.
StartChild(c, p, requested) ==
    /\ state' = [state EXCEPT ![c] = NewState(p, {p} \cup state[p].above, requested)]
    /\ run' = [run EXCEPT ![c] = [Idle EXCEPT !.phase = "building",
                                              !.ancestor = p,
                                              !.todo = DOMAIN state[p].nodes]]

Start(c) ==
    /\ run[c].phase = "unused"
    /\ \A b \in Contexts : b < c => run[b].phase # "unused"
    /\ Cardinality(Building) < MaxBuilding
    /\ \/ StartRoot(c)
       \/ \E p \in Built, requested \in Requests : StartChild(c, p, requested)
    /\ UNCHANGED dag

----------------------------------------------------------------------------
(* The steps of a call of Node::activate, the one on top of the stack.     *)

CacheProperty(c) ==
    /\ \E p \in Top(c).props :
          /\ state' = [state EXCEPT ![c] = Cached(@, p, Top(c).spec)]
          /\ run' = [run EXCEPT ![c].stack[1].props = @ \ {p}]
    /\ UNCHANGED dag

\* AndTally::activate for one of the node's conjunctions.
ActivateAnd(c) ==
    /\ Top(c).props = {}
    /\ \E t \in Top(c).ands :
          LET new  == LegMatched(TallyState(state[c], t), t,
                                 Top(c).node, Top(c).spec)
              set  == SetTallyState(c, state[c], t, new)
              spec == Plus(new.firstMatch, new.secondMatch)
              rest == [run[c].stack EXCEPT ![1].ands = @ \ {t}]
          IN  IF new.firstMatched /\ new.secondMatched
              THEN /\ state' = [set EXCEPT ![c] = Activated(@, t.node, spec)]
                   /\ run' = [run EXCEPT ![c].stack =
                                 CallsAfter(set[c], rest, t.node, spec)]
              ELSE /\ state' = set
                   /\ run' = [run EXCEPT ![c].stack = rest]
    /\ UNCHANGED dag

\* OrTally::activate, once all the conjunctions are done.
ActivateOr(c) ==
    /\ Top(c).props = {} /\ Top(c).ands = {}
    /\ \E t \in Top(c).ors :
          LET rest == [run[c].stack EXCEPT ![1].ors = @ \ {t}]
          IN  /\ state' = [state EXCEPT ![c] = Activated(@, t.node, Top(c).spec)]
              /\ run' = [run EXCEPT ![c].stack =
                            CallsAfter(state[c], rest, t.node, Top(c).spec)]
    /\ UNCHANGED dag

Return(c) ==
    /\ Top(c).props = {} /\ Top(c).ands = {} /\ Top(c).ors = {}
    /\ run' = [run EXCEPT ![c].stack = Tail(@)]
    /\ UNCHANGED <<dag, state>>

----------------------------------------------------------------------------
(* The loops around it.                                                    *)

\* SearchState::extendWith goes on to another node of the ancestor.
NextNode(c) ==
    /\ run[c].edges = {}
    /\ \E n \in run[c].todo :
          run' = [run EXCEPT ![c].todo = @ \ {n},
                             ![c].edges = {<<e, state[run[c].ancestor].nodes[n]>> :
                                              e \in EdgesFrom(dag, n)}]
    /\ UNCHANGED <<dag, state>>

(***************************************************************************)
(* Node::getChildren goes on to another child, and matches it against the  *)
(* key as it is now, which activations may have changed since the loop     *)
(* began.                                                                  *)
(***************************************************************************)
NextChild(c) ==
    /\ \E es \in run[c].edges :
          LET n    == es[1].child
              spec == Plus(es[2], KeySpecificity(es[1].key))
          IN  IF Matches(es[1].key, state[c].key)
              THEN /\ state' = [state EXCEPT ![c] = Activated(@, n, spec)]
                   /\ run' = [run EXCEPT ![c].edges = @ \ {es},
                                         ![c].stack = CallsAfter(state[c], @, n, spec)]
              ELSE /\ run' = [run EXCEPT ![c].edges = @ \ {es}]
                   /\ UNCHANGED state
    /\ UNCHANGED dag

Exhausted(c) == run[c].edges = {} /\ run[c].todo = {}

(***************************************************************************)
(* The root context asks the root node for children again as long as the   *)
(* last round has changed its key.                                         *)
(***************************************************************************)
NextRootRound(c) ==
    /\ Exhausted(c) /\ state[c].parent = None
    /\ IF state[c].changed
       THEN /\ state' = [state EXCEPT ![c].changed = FALSE]
            /\ run' = [run EXCEPT ![c].edges = {<<e, Spec0>> : e \in EdgesFrom(dag, Root)}]
       ELSE /\ run' = [run EXCEPT ![c] = Finished]
            /\ UNCHANGED state
    /\ UNCHANGED dag

\* newChild goes on to the next ancestor, and extendWith resets the flag.
NextAncestor(c) ==
    LET p == state[run[c].ancestor].parent
    IN  /\ Exhausted(c) /\ state[c].parent # None /\ p # None
        /\ run' = [run EXCEPT ![c].ancestor = p,
                              ![c].again = @ \/ state[c].changed,
                              ![c].todo = DOMAIN state[p].nodes]
        /\ state' = [state EXCEPT ![c].changed = FALSE]
        /\ UNCHANGED dag

\* Defect: a key that has grown is not matched against the nodes again.
EndRoundOnce(c) ==
    /\ Exhausted(c) /\ state[c].parent # None
    /\ state[run[c].ancestor].parent = None
    /\ run' = [run EXCEPT ![c] = Finished]
    /\ UNCHANGED <<dag, state>>

\* If the key has changed during the round starts over, else it is done.
EndRound(c) ==
    LET p == state[c].parent
    IN  /\ Exhausted(c) /\ p # None /\ state[run[c].ancestor].parent = None
        /\ IF run[c].again \/ state[c].changed
           THEN /\ run' = [run EXCEPT ![c].ancestor = p,
                                      ![c].again = FALSE,
                                      ![c].todo = DOMAIN state[p].nodes]
                /\ state' = [state EXCEPT ![c].changed = FALSE]
           ELSE /\ run' = [run EXCEPT ![c] = Finished]
                /\ UNCHANGED state
        /\ UNCHANGED dag

----------------------------------------------------------------------------
Step(c) ==
    /\ run[c].phase = "building"
    /\ IF run[c].stack # <<>>
       THEN CacheProperty(c) \/ ActivateAnd(c) \/ ActivateOr(c) \/ Return(c)
       ELSE \/ NextNode(c) \/ NextChild(c) \/ NextRootRound(c)
            \/ NextAncestor(c) \/ EndRound(c)

Next == \E c \in Contexts : Start(c) \/ Step(c)

\* Each construction runs in a thread that is given time to run.
Spec == Init /\ [][Next]_vars /\ \A c \in Contexts : WF_vars(Step(c))

----------------------------------------------------------------------------
Calls == [node : NodesOf(dag), spec : Specificities, props : SUBSET dag.props,
          ands : SUBSET dag.tallies, ors : SUBSET dag.tallies]

Settings == [spec : Specificities, override : BOOLEAN, values : SUBSET dag.props]

TallyStates == [firstMatched : BOOLEAN, secondMatched : BOOLEAN,
                firstMatch : Specificities, secondMatch : Specificities]

StateOK(s) ==
    /\ DOMAIN s = {"parent", "above", "key", "nodes", "tallies", "settings", "changed"}
    /\ s.parent \in Contexts \cup {None}
    /\ s.above \subseteq Contexts
    /\ s.key \in Keys
    /\ DOMAIN s.nodes \subseteq NodesOf(dag)
    /\ \A n \in DOMAIN s.nodes : s.nodes[n] \in Specificities
    /\ DOMAIN s.tallies \subseteq NodesOf(dag)
    /\ \A t \in DOMAIN s.tallies : s.tallies[t] \in TallyStates
    /\ DOMAIN s.settings \subseteq PropNames
    /\ \A x \in DOMAIN s.settings : s.settings[x] \in Settings
    /\ s.changed \in BOOLEAN

RunOK(r) ==
    /\ DOMAIN r = {"phase", "ancestor", "again", "todo", "edges", "stack"}
    /\ r.phase \in {"unused", "building", "built"}
    /\ r.ancestor \in Contexts \cup {None}
    /\ r.again \in BOOLEAN
    /\ r.todo \subseteq NodesOf(dag)
    /\ r.edges \subseteq dag.edges \X Specificities
    /\ r.stack \in Seq(Calls)

TypeOK ==
    /\ DOMAIN state = Contexts /\ \A c \in Contexts : StateOK(state[c])
    /\ DOMAIN run = Contexts /\ \A c \in Contexts : RunOK(run[c])

(***************************************************************************)
(* A context looks no further than its own setting of a property           *)
(* (doSearch), so at every moment that setting must be as good as the one  *)
(* it hides, and must name all of the hidden one's values when it is no    *)
(* better: dropping one would lose a conflict.                             *)
(***************************************************************************)
OutdoesHidden(s) ==
    \A x \in DOMAIN s.settings : \A hidden \in Inherited(s, x) :
        \/ Better(s.settings[x], hidden)
        \/ ~Better(hidden, s.settings[x]) /\ hidden.values \subseteq s.settings[x].values

CacheCoherent == \A c \in Contexts : OutdoesHidden(state[c])

(***************************************************************************)
(* A context's own state of a conjunction hides its ancestors' one, so it  *)
(* must remember every leg they have matched, at no less than they have.   *)
(***************************************************************************)
AtLeast(tally, other) ==
    /\ other.firstMatched => tally.firstMatched
    /\ other.secondMatched => tally.secondMatched
    /\ ~Below(tally.firstMatch, other.firstMatch)
    /\ ~Below(tally.secondMatch, other.secondMatch)

RemembersLegs(s) ==
    \A t \in dag.tallies : \A hidden \in InheritedTally(s, t) :
        t.node \in DOMAIN s.tallies => AtLeast(s.tallies[t.node], hidden)

TallyCoherent == \A c \in Contexts : RemembersLegs(state[c])

(***************************************************************************)
(* A built context is immutable: the contexts built under it, at the same  *)
(* time or later, read its search state and leave it alone.                *)
(***************************************************************************)
KeepsBuilt == \A c \in Built : state'[c] = state[c]

BuiltIsKept == [][KeepsBuilt]_vars

(***************************************************************************)
(* The search only ever adds: the key under construction, the nodes, the   *)
(* legs matched and the specificities of settings never fall back, in any  *)
(* order of activations.  This is what makes its rounds come to an end.    *)
(***************************************************************************)
NoWorse(s, t) ==
    /\ Matches(s.key, t.key)
    /\ \A n \in DOMAIN s.nodes :
          n \in DOMAIN t.nodes /\ ~Below(t.nodes[n], s.nodes[n])
    /\ \A a \in DOMAIN s.tallies :
          a \in DOMAIN t.tallies /\ AtLeast(t.tallies[a], s.tallies[a])
    /\ \A x \in DOMAIN s.settings :
          x \in DOMAIN t.settings /\ ~Better(s.settings[x], t.settings[x])

SearchGrows == [][\A c \in Building : NoWorse(state[c], state'[c])]_vars

(***************************************************************************)
(* The order of pointers, different in every process, does not show: two   *)
(* contexts under one parent whose keys come out the same have the same    *)
(* search state, down to the tallies and the sets of conflicting values.   *)
(***************************************************************************)
OrderIndependent ==
    \A c, d \in Built :
        state[c].parent = state[d].parent /\ state[c].key = state[d].key
            => state[c] = state[d]

(***************************************************************************)
(* Every construction ends, although keys grow under the loops that read   *)
(* them and every change of a key starts another round.                    *)
(***************************************************************************)
Terminates ==
    \A c \in Contexts : run[c].phase = "building" ~> run[c].phase = "built"

----------------------------------------------------------------------------
(***************************************************************************)
(* The strengthening of TypeOK that makes it and the coherence of caches   *)
(* inductive: whatever a context looks up to is built, and so no longer    *)
(* changes; and the nodes that a construction goes through are nodes of    *)
(* the ancestor it is at.                                                  *)
(***************************************************************************)
LineageOK(c) ==
    /\ state[c].above \subseteq Built
    /\ state[c].parent # None => state[c].parent \in state[c].above
    /\ run[c].phase = "building" /\ state[c].parent # None => run[c].ancestor # None
    /\ run[c].ancestor # None => run[c].ancestor \in Built
    /\ run[c].todo # {} => /\ run[c].ancestor # None
                           /\ run[c].todo \subseteq DOMAIN state[run[c].ancestor].nodes

IInv == /\ dag \in Dags /\ TypeOK /\ \A c \in Contexts : LineageOK(c)
        /\ CacheCoherent /\ TallyCoherent
=============================================================================

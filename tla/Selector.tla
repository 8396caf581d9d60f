------------------------------ MODULE Selector ------------------------------
(***************************************************************************)
(* What a written selector does to the rule DAG: SelectorLeaf and          *)
(* SelectorBranch (parser/ast.cpp) on top of the build contexts of         *)
(* parser/build_context.cpp, checked against what the README says the      *)
(* operators mean.                                                         *)
(*                                                                         *)
(* A selector is the sequence of the calls that the parser makes to put it *)
(* together, each of which answers a leaf,                                 *)
(*   [op |-> "step", key |-> k]  or  [op |-> o, left |-> l, right |-> r]   *)
(* where o is "descendant", "and" or "or" and l and r are the numbers of   *)
(* the calls that answered the operands; the last leaf is the whole.  A    *)
(* rule is the sequence of the selectors of the blocks around it,          *)
(* outermost first, each with whether it has a trailing '>'.               *)
(***************************************************************************)
EXTENDS Meaning

CONSTANTS FirstRules,   \* rules that may be loaded first
          MoreRules,    \* rules that may be loaded after it
          MaxRules,     \* bound on the rules loaded
          Chains        \* the contexts rules are tried in, as keys of steps

Operators == {"descendant", "and", "or"}

LeafCalls == [op : {"step"}, key : Keys \ {EmptyKey}] \cup
             [op : Operators, left : Nat, right : Nat]

\* A leaf becomes an operand of one operator at most.
IsSelector(sel) ==
    /\ sel \in Seq(LeafCalls) \ {<<>>}
    /\ LET wraps == {i \in DOMAIN sel : sel[i].op # "step"}
           operands(i) == {sel[i].left, sel[i].right}
       IN  /\ \A i \in wraps : operands(i) \subseteq 1..(i - 1) /\ sel[i].left # sel[i].right
           /\ \A i, j \in wraps : i # j => operands(i) \cap operands(j) = {}

IsRule(rule) ==
    /\ rule \in Seq([selector : Seq(LeafCalls), trailing : BOOLEAN]) \ {<<>>}
    /\ \A b \in DOMAIN rule : IsSelector(rule[b].selector)

ASSUME SelectorAssumption ==
    /\ IsFiniteSet(Names) /\ IsFiniteSet(Values)
    /\ \A rule \in FirstRules \cup MoreRules : IsRule(rule)
    /\ Chains \subseteq Seq(Keys) \ {<<>>}

VARIABLES dag,    \* the rule DAG
          loaded  \* the rules loaded, each with the node it ended at

vars == <<dag, loaded>>

----------------------------------------------------------------------------
(***************************************************************************)
(* The AST.  A Step has no branches and a key on its right; a Wrap has the *)
(* operators applied so far, each with the leaf before it, and the leaf    *)
(* after the last one.  A Wrap takes a further operator as one more branch *)
(* (Wrap::push), so what was written in parentheses on the left is not set *)
(* apart: the branches are applied from left to right anyway.              *)
(***************************************************************************)
StepLeaf(k) == [branches |-> <<>>, right |-> k]

IsStep(leaf) == leaf.branches = <<>>

Applied(op, leaf, left, right) ==
    [branches |-> Append(leaf[left].branches,
                         [op |-> op, first |-> IF IsStep(leaf[left]) THEN left
                                               ELSE leaf[left].right]),
     right |-> right]

Leaves(sel) ==
    LET leaf[i \in DOMAIN sel] ==
            IF sel[i].op = "step" THEN StepLeaf(sel[i].key)
            ELSE Applied(sel[i].op, leaf, sel[i].left, sel[i].right)
    IN  leaf

----------------------------------------------------------------------------
(***************************************************************************)
(* Traversal.  A place is a DAG with a node in it.  A build context is the *)
(* node it is at, what it does with a leaf (op), and, for a conjunction or *)
(* disjunction, the node its second leg starts from: base contexts are     *)
(* always of class Descendant, which is no more than a node.  A leaf does  *)
(* nothing but lead from a place to a place: its traverse is a function.   *)
(***************************************************************************)
AnyDag == [size : Nat, edges : SUBSET Edges, tallies : SUBSET Tallies,
           registered : SUBSET (Nat \X Nat), props : SUBSET Props,
           constraints : SUBSET Constraints, nextProperty : Nat]

Places == [dag : AnyDag, node : Nat]

Within(op, node, base) == [op |-> op, node |-> node, base |-> base]

Visits == [dag : AnyDag, ctx : [op : Operators, node : Nat, base : Nat]]

\* What is left of start when every call has had what the one before it left.
Through(start, calls) ==
    LET after[n \in 0..Len(calls)] ==
            IF n = 0 THEN start ELSE calls[n][after[n - 1]]
    IN  after[Len(calls)]

\* Defect: the second leg starts from the first one.
InContextFromLeg(at, traverse) ==
    LET second == traverse[[dag |-> at.dag, node |-> at.ctx.node]]
    IN  IF at.ctx.op = "descendant" THEN second
        ELSE [dag |-> WithJoin(second.dag, at.ctx.op, at.ctx.node, second.node),
              node |-> JoinNode(second.dag, at.ctx.op, at.ctx.node, second.node)]

\* Descendant::traverse and TallyBuildContext::traverse.
InContext(at, traverse) ==
    LET second == traverse[[dag |-> at.dag,
                            node |-> IF at.ctx.op = "descendant" THEN at.ctx.node
                                     ELSE at.ctx.base]]
    IN  IF at.ctx.op = "descendant" THEN second
        ELSE [dag |-> WithJoin(second.dag, at.ctx.op, at.ctx.node, second.node),
              node |-> JoinNode(second.dag, at.ctx.op, at.ctx.node, second.node)]

\* BranchImpl::traverse: the context op makes of the node the leaf ends at.
Branch(op, traverse, base) ==
    [at \in Visits |->
        LET place == InContext(at, traverse)
        IN  [dag |-> place.dag, ctx |-> Within(op, place.node, base)]]

StartAt(d, node) == [dag |-> d, ctx |-> Within("descendant", node, node)]

\* Wrap::traverse, in the context of class Descendant at p.
ThroughWrap(traverse, wrap, p) ==
    LET calls == [b \in DOMAIN wrap.branches |->
                     Branch(wrap.branches[b].op, traverse[wrap.branches[b].first], p.node)]
    IN  InContext(Through(StartAt(p.dag, p.node), calls), traverse[wrap.right])

\* Step::traverse and Wrap::traverse, of each leaf.
Traversals(sel) ==
    LET leaf == Leaves(sel)
        traverse[i \in DOMAIN sel] ==
            [p \in Places |->
                IF IsStep(leaf[i])
                THEN [dag |-> WithChild(p.dag, p.node, leaf[i].right),
                      node |-> ChildNode(p.dag, p.node, leaf[i].right)]
                ELSE ThroughWrap(traverse, leaf[i], p)]
    IN  traverse

(***************************************************************************)
(* Nested::addTo: a block is one more branch, whose base is the root even  *)
(* inside of a block with a trailing '>'.                                  *)
(***************************************************************************)
Nested(block) ==
    Branch(IF block.trailing THEN "descendant" ELSE "and",
           Traversals(block.selector)[Len(block.selector)], Root)

Placed(d, rule) ==
    LET end == Through(StartAt(d, Root), [b \in DOMAIN rule |-> Nested(rule[b])])
    IN  [dag |-> end.dag, node |-> end.ctx.node]

Init == dag = EmptyDag /\ loaded = <<>>

Load(rule) ==
    /\ Len(loaded) < MaxRules
    /\ LET place == Placed(dag, rule)
       IN  /\ dag' = place.dag
           /\ loaded' = Append(loaded, [rule |-> rule, node |-> place.node])

Next == IF loaded = <<>> THEN \E rule \in FirstRules : Load(rule)
        ELSE \E rule \in MoreRules : Load(rule)

Spec == Init /\ [][Next]_vars

----------------------------------------------------------------------------
(***************************************************************************)
(* The README's words.  A conjunction matches in a context that contains   *)
(* both, a disjunction in one that contains either, and a descendant in    *)
(* one that contains the right, itself in a context that contains the      *)
(* left.  SelectorSteps(sel, ks)[i] are the steps of ks, after step i, at  *)
(* which the selector comes to match (again).                              *)
(***************************************************************************)
Both(l, r) == {j \in l \cup r : (\E i \in l : i <= j) /\ (\E i \in r : i <= j)}

\* steps are those that the operands name.
StepsAfter(i, leaf, steps, ks) ==
    CASE leaf.op = "step" -> {j \in (i + 1)..Len(ks) : Matches(leaf.key, ks[j])}
      [] leaf.op = "and"  -> Both(steps[leaf.left][i], steps[leaf.right][i])
      [] leaf.op = "or"   -> steps[leaf.left][i] \cup steps[leaf.right][i]
      [] leaf.op = "descendant" -> UNION {steps[leaf.right][j] : j \in steps[leaf.left][i]}

LeafSteps(sel, ks) ==
    LET steps[n \in DOMAIN sel] == [i \in 0..Len(ks) |-> StepsAfter(i, sel[n], steps, ks)]
    IN  steps

SelectorSteps(sel, ks) == LeafSteps(sel, ks)[Len(sel)]

\* Blocks within blocks: all must match, or follow a trailing '>'.
BlockSteps(block, ks) ==
    LET selected == SelectorSteps(block.selector, ks)
    IN  [at \in [steps : SUBSET (0..Len(ks)), trailing : BOOLEAN] |->
            [steps |-> IF at.trailing THEN UNION {selected[i] : i \in at.steps}
                       ELSE Both(at.steps, selected[0]),
             trailing |-> block.trailing]]

RuleSteps(rule, ks) ==
    Through([steps |-> {0}, trailing |-> TRUE],
            [b \in DOMAIN rule |-> BlockSteps(rule[b], ks)]).steps

(***************************************************************************)
(* Whatever selectors make of the rules has the shape that searches rely   *)
(* on, and no rule ends at the root: its settings would apply everywhere.  *)
(***************************************************************************)
ShapedForSearch ==
    /\ dag \in AnyDag /\ WellFormed(dag) /\ Regular(dag)
    /\ \A i \in DOMAIN loaded : loaded[i].node \in NodesOf(dag) \ {Root}

(***************************************************************************)
(* A rule that is loaded again, after whatever else has been, adds no node *)
(* and ends where it did: addChild and the intersection of tallies find    *)
(* all that there is.                                                      *)
(***************************************************************************)
RulesAreShared ==
    \A i \in DOMAIN loaded :
        Placed(dag, loaded[i].rule) = [dag |-> dag, node |-> loaded[i].node]

(***************************************************************************)
(* Every rule's settings apply in exactly the contexts its selectors name, *)
(* however they are grouped and nested, and whatever was loaded before or  *)
(* is loaded after it into the same DAG.                                   *)
(***************************************************************************)
MeansWhatItSays ==
    \A ks \in Chains :
        LET active == Active([j \in DOMAIN ks |-> dag], ks)
        IN  \A i \in DOMAIN loaded :
                {j \in DOMAIN ks : active[loaded[i].node][j] # {}}
                    = RuleSteps(loaded[i].rule, ks)
=============================================================================

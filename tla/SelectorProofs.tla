--------------------------- MODULE SelectorProofs ---------------------------
(***************************************************************************)
(* That every selector means what it says.                                 *)
(***************************************************************************)
EXTENDS Selector, MeaningProofs

----------------------------------------------------------------------------
(* One call after the other.                                               *)

Moves(S) == [S -> S]

\* The recursive function in Through.
AfterIn(start, calls) ==
    CHOOSE after : after = [n \in 0..Len(calls) |->
                              IF n = 0 THEN start ELSE calls[n][after[n - 1]]]

LEMMA ThroughIsAfter ==
    ASSUME NEW start, NEW calls
    PROVE  Through(start, calls) = AfterIn(start, calls)[Len(calls)]
BY DEF Through, AfterIn

\* What it holds.
Follows(after, S, start, calls) ==
    /\ after \in [0..Len(calls) -> S] /\ after[0] = start
    /\ \A n \in 1..Len(calls) : after[n] = calls[n][after[n - 1]]

LEMMA AfterEach ==
    ASSUME NEW S, NEW start \in S, NEW calls \in Seq(Moves(S))
    PROVE  Follows(AfterIn(start, calls), S, start, calls)
<1> DEFINE N == Len(calls)
           D == 0..N
           value(n, f) == IF n = 0 THEN start ELSE calls[n][f[n - 1]]
           G == [p \in D \X [D -> S] |-> value(p[1], p[2])]
           after == AfterIn(start, calls)
<1>1. N \in Nat /\ D \subseteq 0..N /\ D \subseteq Nat /\ 0 \in D
  OBVIOUS
<1>2. \A n \in D : n # 0 => n - 1 \in D /\ n - 1 < n /\ n \in 1..N
  BY <1>1
<1>3. ASSUME NEW n \in D, NEW f \in [D -> S]
      PROVE  value(n, f) \in S
  <2>1. n # 0 => f[n - 1] \in S /\ calls[n] \in [S -> S]
    BY <1>2 DEF Moves
  <2> QED
    BY <2>1
<1>4. ASSUME NEW n \in D, NEW f, NEW g, \A m \in D : m < n => f[m] = g[m]
      PROVE  value(n, f) = value(n, g)
  BY <1>2, <1>4
<1> HIDE DEF value
<1>5. G \in [D \X [D -> S] -> S] /\ \A n \in D, f \in [D -> S] : G[<<n, f>>] = value(n, f)
  BY <1>3
<1> HIDE DEF G
<1>6. LooksBelow(G, D, S)
  <2> SUFFICES ASSUME NEW n \in D, NEW f \in [D -> S], NEW g \in [D -> S],
                      \A m \in D : m < n => f[m] = g[m]
               PROVE  G[<<n, f>>] = G[<<n, g>>]
    BY DEF LooksBelow
  <2>1. value(n, f) = value(n, g)
    BY <1>4
  <2> QED
    BY <1>5, <2>1
<1> HIDE DEF D
<1>7. PICK f \in [D -> S] : Solves(f, G, D)
  BY <1>1, <1>5, <1>6, RecursiveFunction
<1>8. f = [n \in D |-> value(n, f)]
  BY <1>5, <1>7 DEF Solves
<1>9. after = [n \in D |-> value(n, after)]
  BY <1>8 DEF AfterIn, value, D
<1>10. \A n \in D : after[n] = f[n]
  <2> HIDE DEF after
  <2>1. AgreeOnward(after, f, D)
    BY <1>4, <1>8, <1>9 DEF AgreeOnward
  <2>2. D \in SUBSET Nat
    BY <1>1
  <2> QED
    BY <2>1, <2>2, SameThroughout
<1>11. after \in [D -> S]
  BY <1>9, <1>10
<1>12. after[0] = start
  BY <1>1, <1>9 DEF value
<1>13. \A n \in 1..N : after[n] = calls[n][after[n - 1]]
  <2> SUFFICES ASSUME NEW n \in 1..N PROVE after[n] = calls[n][after[n - 1]]
    OBVIOUS
  <2>1. n \in D /\ n # 0
    BY <1>1 DEF D
  <2>2. after[n] = value(n, after)
    BY <1>9, <2>1
  <2> QED
    BY <2>1, <2>2 DEF value
<1> QED
  BY <1>11, <1>12, <1>13 DEF D, Follows

LEMMA ThroughTyped ==
    ASSUME NEW S, NEW start \in S, NEW calls \in Seq(Moves(S))
    PROVE  Through(start, calls) \in S
<1>1. Len(calls) \in 0..Len(calls)
  <2> Len(calls) \in Nat
    OBVIOUS
  <2> QED
    OBVIOUS
<1> QED
  BY <1>1, AfterEach, ThroughIsAfter DEF Follows

LEMMA ThroughNone ==
    ASSUME NEW start
    PROVE  Through(start, <<>>) = start
<1>1. start \in {start} /\ <<>> \in Seq(Moves({start})) /\ Len(<<>>) = 0
  OBVIOUS
<1> QED
  BY <1>1, AfterEach, ThroughIsAfter DEF Follows

LEMMA ThroughAppend ==
    ASSUME NEW S, NEW start \in S, NEW calls \in Seq(Moves(S)), NEW call \in Moves(S)
    PROVE  Through(start, Append(calls, call)) = call[Through(start, calls)]
<1> DEFINE more == Append(calls, call)
           N == Len(calls)
           a == AfterIn(start, calls)
           b == AfterIn(start, more)
<1>1. /\ more \in Seq(Moves(S)) /\ Len(more) = N + 1 /\ N \in Nat /\ more[N + 1] = call
      /\ \A n \in 1..N : more[n] = calls[n]
  OBVIOUS
<1> HIDE DEF more
<1>2. a[0] = start /\ \A n \in 1..N : a[n] = calls[n][a[n - 1]]
  BY AfterEach DEF Follows
<1>3. b[0] = start /\ \A n \in 1..(N + 1) : b[n] = more[n][b[n - 1]]
  BY <1>1, AfterEach DEF Follows
<1> HIDE DEF a, b
<1>4. ASSUME NEW n \in 0..N, \A m \in 0..N : m < n => a[m] = b[m]
      PROVE  a[n] = b[n]
  <2>1. CASE n = 0
    BY <1>2, <1>3, <2>1
  <2>2. CASE n # 0
    <3>1. n \in 1..N /\ n \in 1..(N + 1) /\ n - 1 \in 0..N /\ n - 1 < n
      BY <1>1, <2>2
    <3> QED
      BY <1>1, <1>2, <1>3, <1>4, <3>1
  <2> QED
    BY <2>1, <2>2
<1>5. \A n \in 0..N : a[n] = b[n]
  <2>1. 0..N \in SUBSET Nat
    BY <1>1
  <2>2. AgreeOnward(a, b, 0..N)
    BY <1>4 DEF AgreeOnward
  <2> QED
    BY <2>1, <2>2, SameThroughout
<1>6. N \in 0..N /\ N + 1 \in 1..(N + 1) /\ (N + 1) - 1 = N
  BY <1>1
<1>7. b[N + 1] = call[b[N]]
  BY <1>1, <1>3, <1>6
<1> QED
  BY <1>1, <1>5, <1>6, <1>7, ThroughIsAfter DEF a, b, more

----------------------------------------------------------------------------
(* The calls that make a selector.                                         *)

\* Leaf i is a step or puts together two leaves before it.
LEMMA LeafIs ==
    ASSUME NEW sel, IsSelector(sel), NEW i \in DOMAIN sel
    PROVE  /\ DOMAIN sel = 1..Len(sel) /\ Len(sel) \in Nat \ {0} /\ i \in Nat
           /\ sel[i].op = "step" => sel[i].key \in Keys /\ sel[i].key # EmptyKey
           /\ sel[i].op # "step" =>
                 /\ sel[i].op \in Operators
                 /\ sel[i].left \in DOMAIN sel /\ sel[i].left < i
                 /\ sel[i].right \in DOMAIN sel /\ sel[i].right < i
<1>1. /\ DOMAIN sel = 1..Len(sel) /\ Len(sel) \in Nat \ {0} /\ i \in Nat /\ i \in 1..Len(sel)
      /\ sel[i] \in LeafCalls
  BY DEF IsSelector
<1>2. CASE sel[i].op = "step"
  <2>1. sel[i] \in [op : {"step"}, key : Keys \ {EmptyKey}]
    BY <1>1, <1>2 DEF LeafCalls, Operators
  <2> QED
    BY <1>1, <1>2, <2>1
<1>3. CASE sel[i].op # "step"
  <2>1. sel[i] \in [op : Operators, left : Nat, right : Nat]
    BY <1>1, <1>3 DEF LeafCalls
  <2>2. {sel[i].left, sel[i].right} \subseteq 1..(i - 1)
    BY <1>3 DEF IsSelector
  <2>3. sel[i].left \in 1..(i - 1) /\ sel[i].right \in 1..(i - 1)
    BY <2>2
  <2> QED
    BY <1>1, <1>3, <2>1, <2>3
<1> QED
  BY <1>2, <1>3

Positions(sel) == 1..Len(sel)

BranchesOf(sel) == [op : Operators, first : Positions(sel)]

AnyLeaf(sel) == {StepLeaf(k) : k \in Keys} \cup
                [branches : Seq(BranchesOf(sel)) \ {<<>>}, right : Positions(sel)]

\* The recursive function in Leaves, whose value at i is
LeafValue(sel, i, leaf) ==
    IF sel[i].op = "step" THEN StepLeaf(sel[i].key)
    ELSE Applied(sel[i].op, leaf, sel[i].left, sel[i].right)

LEMMA LeavesIs ==
    ASSUME NEW sel
    PROVE  Leaves(sel) = CHOOSE leaf : leaf = [i \in DOMAIN sel |-> LeafValue(sel, i, leaf)]
BY DEF Leaves, LeafValue

LEMMA LeafTyped ==
    ASSUME NEW sel, IsSelector(sel), NEW i \in DOMAIN sel, NEW leaf,
           sel[i].op # "step" => leaf[sel[i].left] \in AnyLeaf(sel)
    PROVE  /\ LeafValue(sel, i, leaf) \in AnyLeaf(sel)
           /\ IsStep(LeafValue(sel, i, leaf)) <=> sel[i].op = "step"
<1>1. CASE sel[i].op = "step"
  BY <1>1, LeafIs DEF LeafValue, AnyLeaf, StepLeaf, IsStep
<1>2. CASE sel[i].op # "step"
  <2> DEFINE l == leaf[sel[i].left]
             first == IF IsStep(l) THEN sel[i].left ELSE l.right
             added == [op |-> sel[i].op, first |-> first]
  <2>1. /\ sel[i].op \in Operators /\ sel[i].left \in Positions(sel)
        /\ sel[i].right \in Positions(sel) /\ l \in AnyLeaf(sel)
    BY <1>2, LeafIs DEF Positions
  <2>2. l.branches \in Seq(BranchesOf(sel)) /\ first \in Positions(sel)
    <3>1. CASE \E k \in Keys : l = StepLeaf(k)
      <4>1. l.branches = <<>>
        BY <3>1 DEF StepLeaf
      <4> QED
        BY <2>1, <4>1 DEF IsStep
    <3>2. CASE l \in [branches : Seq(BranchesOf(sel)) \ {<<>>}, right : Positions(sel)]
      BY <2>1, <3>2
    <3> QED
      BY <2>1, <3>1, <3>2 DEF AnyLeaf
  <2> HIDE DEF first
  <2>3. added \in BranchesOf(sel)
    BY <2>1, <2>2 DEF BranchesOf
  <2> HIDE DEF added
  <2>4. Append(l.branches, added) \in Seq(BranchesOf(sel)) /\ Append(l.branches, added) # <<>>
    BY <2>2, <2>3
  <2>5. LeafValue(sel, i, leaf) = [branches |-> Append(l.branches, added), right |-> sel[i].right]
    BY <1>2 DEF LeafValue, Applied, added, first
  <2> QED
    BY <1>2, <2>1, <2>4, <2>5 DEF AnyLeaf, IsStep
<1> QED
  BY <1>1, <1>2

\* Leaves has a value, and it is what its definition says.
LEMMA LeavesAre ==
    ASSUME NEW sel, IsSelector(sel)
    PROVE  /\ Leaves(sel) \in [DOMAIN sel -> AnyLeaf(sel)]
           /\ \A i \in DOMAIN sel : Leaves(sel)[i] = LeafValue(sel, i, Leaves(sel))
<1> DEFINE N == Len(sel)
           D == DOMAIN sel
           V == AnyLeaf(sel)
           G == [p \in D \X [D -> V] |-> LeafValue(sel, p[1], p[2])]
<1>1. N \in Nat /\ D \subseteq 0..N /\ D \in SUBSET Nat
  BY DEF IsSelector
<1>2. \A i \in D : sel[i].op # "step" => sel[i].left \in D /\ sel[i].left < i
  BY LeafIs
<1>3. ASSUME NEW i \in D, NEW f \in [D -> V]
      PROVE  LeafValue(sel, i, f) \in V
  BY <1>2, LeafTyped
<1>4. ASSUME NEW i \in D, NEW f, NEW g, \A j \in D : j < i => f[j] = g[j]
      PROVE  LeafValue(sel, i, f) = LeafValue(sel, i, g)
  BY <1>2, <1>4 DEF LeafValue, Applied
<1> HIDE DEF V
<1>5. G \in [D \X [D -> V] -> V] /\ \A i \in D, f \in [D -> V] : G[<<i, f>>] = LeafValue(sel, i, f)
  BY <1>3
<1> HIDE DEF G
<1>6. LooksBelow(G, D, V)
  <2> SUFFICES ASSUME NEW i \in D, NEW f \in [D -> V], NEW g \in [D -> V],
                      \A j \in D : j < i => f[j] = g[j]
               PROVE  G[<<i, f>>] = G[<<i, g>>]
    BY DEF LooksBelow
  <2>1. LeafValue(sel, i, f) = LeafValue(sel, i, g)
    BY <1>4
  <2> QED
    BY <1>5, <2>1
<1>7. V # {}
  <2>1. EmptyKey \in Keys
    BY DEF Keys, EmptyKey
  <2>2. StepLeaf(EmptyKey) \in V
    BY <2>1 DEF V, AnyLeaf
  <2> QED
    BY <2>2
<1> HIDE DEF D
<1>8. PICK f \in [D -> V] : Solves(f, G, D)
  BY <1>1, <1>5, <1>6, <1>7, RecursiveFunction
<1>9. f = [i \in D |-> LeafValue(sel, i, f)]
  BY <1>5, <1>8 DEF Solves
<1>10. Leaves(sel) = [i \in D |-> LeafValue(sel, i, Leaves(sel))]
  BY <1>9, LeavesIs DEF D
<1>11. \A i \in D : Leaves(sel)[i] = f[i]
  <2>1. AgreeOnward(Leaves(sel), f, D)
    BY <1>4, <1>9, <1>10 DEF AgreeOnward
  <2> QED
    BY <1>1, <2>1, SameThroughout
<1> QED
  BY <1>10, <1>11 DEF D, V

\* What a Wrap holds: only leaves before it.
HoldsBelow(leaf, sel, i) ==
    /\ leaf.right \in DOMAIN sel /\ leaf.right < i
    /\ leaf.branches \in Seq(BranchesOf(sel))
    /\ \A b \in DOMAIN leaf.branches :
          /\ leaf.branches[b].op \in Operators
          /\ leaf.branches[b].first \in DOMAIN sel /\ leaf.branches[b].first < i

LEMMA WrapsHold ==
    ASSUME NEW sel, IsSelector(sel), NEW i \in DOMAIN sel, NEW leaf, leaf = Leaves(sel)
    PROVE  ~IsStep(leaf[i]) => HoldsBelow(leaf[i], sel, i)
<1> DEFINE P(j) == j \in DOMAIN sel /\ ~IsStep(leaf[j]) => HoldsBelow(leaf[j], sel, j)
           S == {j \in Nat : P(j)}
<1>1. ASSUME NEW j \in Nat, \A q \in Nat : q < j => q \in S
      PROVE  j \in S
  <2> SUFFICES ASSUME j \in DOMAIN sel, ~IsStep(leaf[j]) PROVE HoldsBelow(leaf[j], sel, j)
    OBVIOUS
  <2> DEFINE l == sel[j].left
             first == IF IsStep(leaf[l]) THEN l ELSE leaf[l].right
             added == [op |-> sel[j].op, first |-> first]
             before == leaf[l].branches
  <2>1. leaf[j] = LeafValue(sel, j, leaf) /\ \A q \in DOMAIN sel : leaf[q] \in AnyLeaf(sel)
    BY LeavesAre
  <2>2. sel[j].op # "step"
    BY <2>1, LeafTyped, LeafIs
  <2>3. /\ l \in DOMAIN sel /\ l < j /\ l \in Nat /\ sel[j].right \in DOMAIN sel /\ sel[j].right < j
        /\ sel[j].op \in Operators /\ DOMAIN sel = Positions(sel) /\ \A q \in DOMAIN sel : q \in Nat
    BY <2>2, LeafIs DEF Positions
  <2>4. leaf[j].branches = Append(before, added) /\ leaf[j].right = sel[j].right
    BY <2>1, <2>2 DEF LeafValue, Applied
  <2>5. ~IsStep(leaf[l]) => HoldsBelow(leaf[l], sel, l)
    BY <1>1, <2>3
  <2>6. /\ before \in Seq(BranchesOf(sel))
        /\ first \in DOMAIN sel /\ first < j
        /\ \A b \in DOMAIN before : /\ before[b].op \in Operators
                                    /\ before[b].first \in DOMAIN sel /\ before[b].first < j
    <3>1. CASE IsStep(leaf[l])
      <4>1. before = <<>> /\ first = l
        BY <3>1 DEF IsStep
      <4> QED
        BY <2>3, <4>1
    <3>2. CASE ~IsStep(leaf[l])
      <4>1. HoldsBelow(leaf[l], sel, l) /\ first = leaf[l].right
        BY <2>5, <3>2
      <4> HIDE DEF first, l
      <4> QED
        BY <2>3, <4>1 DEF HoldsBelow
    <3> QED
      BY <3>1, <3>2
  <2> HIDE DEF first, before, l
  <2>7. added \in BranchesOf(sel) /\ added.op = sel[j].op /\ added.first = first
    BY <2>3, <2>6 DEF BranchesOf
  <2> HIDE DEF added
  <2>8. /\ Append(before, added) \in Seq(BranchesOf(sel))
        /\ \A b \in DOMAIN Append(before, added) :
              \/ b \in DOMAIN before /\ Append(before, added)[b] = before[b]
              \/ Append(before, added)[b] = added
    BY <2>6, <2>7
  <2> QED
    BY <2>3, <2>4, <2>6, <2>7, <2>8 DEF HoldsBelow
<1>2. Nat \subseteq S
  <2> HIDE DEF S
  <2> QED
    BY <1>1, StrongInduction
<1> QED
  BY <1>2, LeafIs

----------------------------------------------------------------------------
(* The DAGs that selectors make.                                           *)

\* A node has one child per key, two nodes one tally of a kind.
Unique(d) ==
    /\ \A e, f \in d.edges : e.parent = f.parent /\ e.key = f.key => e = f
    /\ \A t, u \in d.tallies :
          t.kind = u.kind /\ {t.first, t.second} = {u.first, u.second} => t = u

Good(d) == d \in AnyDag /\ WellFormed(d) /\ Regular(d) /\ Unique(d)

LEMMA EmptyIsGood == Good(EmptyDag) /\ NodesOf(EmptyDag) = {Root}
<1>1. EmptyDag \in AnyDag
  BY DEF EmptyDag, AnyDag
<1>2. NodesOf(EmptyDag) = {Root}
  BY DEF EmptyDag, NodesOf, Root
<1>3. WellFormed(EmptyDag) /\ Regular(EmptyDag) /\ Unique(EmptyDag)
  BY <1>2 DEF WellFormed, Regular, Unique, EmptyDag
<1> QED
  BY <1>1, <1>2, <1>3 DEF Good

LEMMA ChildTyped ==
    ASSUME NEW d \in AnyDag, NEW n \in Nat, NEW k \in Keys
    PROVE  WithChild(d, n, k) \in AnyDag /\ ChildNode(d, n, k) \in Nat
<1> DEFINE e == [parent |-> n, key |-> k, child |-> d.size + 1]
<1>1. d.size \in Nat /\ d.edges \subseteq Edges
  BY DEF AnyDag
<1>2. e \in Edges
  BY <1>1 DEF Edges
<1>3. EdgeFor(d, n, k) \subseteq Edges
  BY <1>1 DEF EdgeFor, EdgesFrom
<1>4. ChildNode(d, n, k) \in Nat
  BY <1>1, <1>3 DEF ChildNode, Edges
<1>5. WithChild(d, n, k) \in AnyDag
  <2> DEFINE more == d.edges \cup {e}
             size == d.size + 1
  <2>1. more \in SUBSET Edges /\ size \in Nat
    BY <1>1, <1>2
  <2>2. WithChild(d, n, k) = IF EdgeFor(d, n, k) # {} THEN d
                             ELSE [d EXCEPT !.size = size, !.edges = more]
    BY DEF WithChild
  <2> HIDE DEF more, size
  <2> QED
    BY <2>1, <2>2 DEF AnyDag
<1> QED
  BY <1>4, <1>5

LEMMA JoinTyped ==
    ASSUME NEW d \in AnyDag, NEW kind \in Kinds, NEW f \in Nat, NEW s \in Nat
    PROVE  WithJoin(d, kind, f, s) \in AnyDag /\ JoinNode(d, kind, f, s) \in Nat
<1> DEFINE t == [kind |-> kind, first |-> f, second |-> s, node |-> d.size + 1]
<1>1. d.size \in Nat /\ d.tallies \subseteq Tallies /\ d.registered \subseteq Nat \X Nat
  BY DEF AnyDag
<1>2. t \in Tallies
  BY <1>1 DEF Tallies
<1>3. Shared(d, kind, f, s) \subseteq Tallies
  BY <1>1 DEF Shared, TalliesOf
<1>4. JoinNode(d, kind, f, s) \in Nat
  BY <1>1, <1>3 DEF JoinNode, Tallies
<1>5. WithJoin(d, kind, f, s) \in AnyDag
  <2> DEFINE more == d.tallies \cup {t}
             size == d.size + 1
             registered == d.registered \cup {<<f, d.size + 1>>, <<s, d.size + 1>>}
  <2>1. more \in SUBSET Tallies /\ size \in Nat /\ registered \in SUBSET (Nat \X Nat)
    BY <1>1, <1>2
  <2>2. WithJoin(d, kind, f, s) =
            IF f = s \/ Shared(d, kind, f, s) # {} THEN d
            ELSE [d EXCEPT !.size = size, !.tallies = more, !.registered = registered]
    BY DEF WithJoin
  <2> HIDE DEF more, size, registered
  <2> QED
    BY <2>1, <2>2 DEF AnyDag
<1> QED
  BY <1>4, <1>5

\* addChild answers a node other than the root, with an edge to it.
LEMMA ChildMade ==
    ASSUME NEW d, Good(d), NEW n \in NodesOf(d), NEW k \in Keys, k # EmptyKey,
           NEW e, e = WithChild(d, n, k), NEW c, c = ChildNode(d, n, k)
    PROVE  /\ Good(e) /\ PartOf(d, e) /\ c \in NodesOf(e) /\ c # Root
           /\ \E x \in e.edges : x.parent = n /\ x.key = k /\ x.child = c
<1>1. /\ d \in AnyDag /\ WellFormed(d) /\ Regular(d) /\ Unique(d) /\ d.size \in Nat \ {0}
      /\ n \in Nat /\ n \in 1..d.size
  BY DEF Good, WellFormed, NodesOf
<1>2. CASE EdgeFor(d, n, k) # {}
  <2>1. PICK x \in EdgeFor(d, n, k) : c = x.child
    BY <1>2 DEF ChildNode
  <2>2. e = d /\ x \in d.edges /\ x.parent = n /\ x.key = k
    BY <1>2, <2>1 DEF WithChild, EdgeFor, EdgesFrom
  <2>3. c \in NodesOf(d) /\ Root <= n /\ n < c
    BY <1>1, <2>1, <2>2 DEF WellFormed, Regular
  <2>4. c # Root
    BY <1>1, <2>3 DEF Root, NodesOf
  <2>5. PartOf(d, d)
    BY <1>1 DEF PartOf
  <2> QED
    BY <2>1, <2>2, <2>3, <2>4, <2>5
<1>3. CASE EdgeFor(d, n, k) = {}
  <2> DEFINE x == [parent |-> n, key |-> k, child |-> c]
  <2>1. /\ c = d.size + 1 /\ e.size = d.size + 1 /\ e.edges = d.edges \cup {x}
        /\ e.tallies = d.tallies /\ e.registered = d.registered /\ e.props = d.props
        /\ e.constraints = d.constraints
    BY <1>1, <1>3 DEF WithChild, ChildNode, AnyDag
  <2>2. x.parent = n /\ x.key = k /\ x.child = c /\ x \in Edges /\ c \in Nat
    BY <1>1, <2>1 DEF Edges
  <2> HIDE DEF x
  <2>3. e \in AnyDag
    BY <1>1, ChildTyped
  <2>4. PartOf(d, e)
    BY <1>1, <2>1 DEF PartOf
  <2>5. NodesOf(d) \subseteq NodesOf(e) /\ c \in NodesOf(e) /\ c # Root /\ c \notin NodesOf(d)
        /\ NodesOf(e) = NodesOf(d) \cup {c}
    BY <1>1, <2>1 DEF NodesOf, Root
  <2>6. WellFormed(e)
    BY <1>1, <2>1, <2>2, <2>5 DEF WellFormed
  <2>7. \A y \in d.edges : y.child # c
    BY <1>1, <2>5 DEF WellFormed
  <2>8. \A t \in d.tallies : t.node # c
    BY <1>1, <2>5 DEF WellFormed
  <2>9. Root <= n /\ n < c
    BY <1>1, <2>1 DEF Root
  <2>10. Regular(e)
    BY <1>1, <2>1, <2>2, <2>5, <2>7, <2>8, <2>9 DEF Regular
  <2>11. \A y \in d.edges : ~(y.parent = n /\ y.key = k)
    BY <1>3 DEF EdgeFor, EdgesFrom
  <2>12. Unique(e)
    BY <1>1, <2>1, <2>2, <2>11 DEF Unique
  <2> QED
    BY <2>1, <2>2, <2>3, <2>4, <2>5, <2>6, <2>10, <2>12 DEF Good
<1> QED
  BY <1>2, <1>3

\* addChild finds the child of an edge.
LEMMA ChildFound ==
    ASSUME NEW e, Good(e), NEW x \in e.edges
    PROVE  WithChild(e, x.parent, x.key) = e /\ ChildNode(e, x.parent, x.key) = x.child
<1>1. x \in EdgeFor(e, x.parent, x.key)
  BY DEF EdgeFor, EdgesFrom
<1>2. \A y \in EdgeFor(e, x.parent, x.key) : y = x
  BY DEF EdgeFor, EdgesFrom, Good, Unique
<1> QED
  BY <1>1, <1>2 DEF WithChild, ChildNode

\* Node n is f and s, or has a tally of both.
Joins(d, kind, f, s, n) ==
    IF f = s THEN n = f
    ELSE \E t \in d.tallies : t.kind = kind /\ t.node = n /\ {t.first, t.second} = {f, s}

\* A tally that both nodes have is one of theirs.
LEMMA SharedJoins ==
    ASSUME NEW d, Good(d), NEW kind, NEW f, NEW s, f # s, NEW t
    PROVE  t \in Shared(d, kind, f, s) <=>
              t \in d.tallies /\ t.kind = kind /\ {t.first, t.second} = {f, s}
<1>1. ASSUME t \in Shared(d, kind, f, s)
      PROVE  t \in d.tallies /\ t.kind = kind /\ {t.first, t.second} = {f, s}
  <2>1. /\ t \in d.tallies /\ t.kind = kind
        /\ <<f, t.node>> \in d.registered /\ <<s, t.node>> \in d.registered
    BY <1>1 DEF Shared, TalliesOf
  <2>2. ASSUME NEW g, <<g, t.node>> \in d.registered
        PROVE  g \in {t.first, t.second}
    <3>1. PICK u \in d.tallies : u.node = t.node /\ g \in {u.first, u.second}
      BY <2>2 DEF Good, Regular
    <3>2. u = t
      BY <2>1, <3>1 DEF Good, Regular
    <3> QED
      BY <3>1, <3>2
  <2> QED
    BY <2>1, <2>2
<1>2. ASSUME t \in d.tallies, t.kind = kind, {t.first, t.second} = {f, s}
      PROVE  t \in Shared(d, kind, f, s)
  <2>1. <<t.first, t.node>> \in d.registered /\ <<t.second, t.node>> \in d.registered
    BY <1>2 DEF Good, Regular
  <2>2. <<f, t.node>> \in d.registered /\ <<s, t.node>> \in d.registered
    BY <1>2, <2>1
  <2> QED
    BY <1>2, <2>2 DEF Shared, TalliesOf
<1> QED
  BY <1>1, <1>2

LEMMA JoinMade ==
    ASSUME NEW d, Good(d), NEW kind \in Kinds, NEW f \in NodesOf(d), NEW s \in NodesOf(d),
           f # Root, s # Root,
           NEW e, e = WithJoin(d, kind, f, s), NEW n, n = JoinNode(d, kind, f, s)
    PROVE  Good(e) /\ PartOf(d, e) /\ n \in NodesOf(e) /\ n # Root /\ Joins(e, kind, f, s, n)
<1>1. /\ d \in AnyDag /\ WellFormed(d) /\ Regular(d) /\ Unique(d) /\ d.size \in Nat \ {0}
      /\ f \in Nat /\ f \in 1..d.size /\ s \in Nat /\ s \in 1..d.size /\ PartOf(d, d)
  BY DEF Good, WellFormed, NodesOf, PartOf
<1>2. CASE f = s
  BY <1>1, <1>2 DEF WithJoin, JoinNode, Joins
<1>3. CASE f # s /\ Shared(d, kind, f, s) # {}
  <2>1. PICK t \in Shared(d, kind, f, s) : n = t.node
    BY <1>3 DEF JoinNode
  <2>2. e = d /\ t \in d.tallies /\ t.kind = kind /\ {t.first, t.second} = {f, s}
    BY <1>3, <2>1, SharedJoins DEF WithJoin
  <2>3. n \in NodesOf(d) /\ Root < t.first /\ t.first < n /\ t.first \in Nat /\ n \in Nat
    BY <1>1, <2>1, <2>2 DEF WellFormed, Regular, Tallies
  <2>4. n # Root
    BY <2>3 DEF Root
  <2> QED
    BY <1>1, <1>3, <2>1, <2>2, <2>3, <2>4 DEF Joins
<1>4. CASE f # s /\ Shared(d, kind, f, s) = {}
  <2> DEFINE t == [kind |-> kind, first |-> f, second |-> s, node |-> n]
  <2>1. /\ n = d.size + 1 /\ e.size = d.size + 1 /\ e.tallies = d.tallies \cup {t}
        /\ e.registered = d.registered \cup {<<f, n>>, <<s, n>>}
        /\ e.edges = d.edges /\ e.props = d.props /\ e.constraints = d.constraints
    BY <1>1, <1>4 DEF WithJoin, JoinNode, AnyDag
  <2>2. /\ t.kind = kind /\ t.first = f /\ t.second = s /\ t.node = n
        /\ t \in Tallies /\ n \in Nat
    BY <1>1, <2>1 DEF Tallies
  <2> HIDE DEF t
  <2>3. e \in AnyDag
    BY <1>1, JoinTyped
  <2>4. PartOf(d, e)
    BY <1>1, <2>1 DEF PartOf
  <2>5. NodesOf(d) \subseteq NodesOf(e) /\ n \in NodesOf(e) /\ n # Root /\ n \notin NodesOf(d)
        /\ NodesOf(e) = NodesOf(d) \cup {n}
    BY <1>1, <2>1 DEF NodesOf, Root
  <2>6. WellFormed(e)
    BY <1>1, <2>1, <2>2, <2>5 DEF WellFormed
  <2>7. \A y \in d.edges : y.child # n
    BY <1>1, <2>5 DEF WellFormed
  <2>8. \A u \in d.tallies : u.node # n
    BY <1>1, <2>5 DEF WellFormed
  <2>9. Root < f /\ f < n /\ Root < s /\ s < n
    BY <1>1, <2>1 DEF Root
  <2>10. e.registered = {<<u.first, u.node>> : u \in e.tallies} \cup
                        {<<u.second, u.node>> : u \in e.tallies}
    <3>1. /\ {<<u.first, u.node>> : u \in e.tallies} =
                {<<u.first, u.node>> : u \in d.tallies} \cup {<<f, n>>}
          /\ {<<u.second, u.node>> : u \in e.tallies} =
                {<<u.second, u.node>> : u \in d.tallies} \cup {<<s, n>>}
      BY <2>1, <2>2
    <3> QED
      BY <1>1, <2>1, <3>1 DEF Regular
  <2>11. Regular(e)
    BY <1>1, <2>1, <2>2, <2>5, <2>7, <2>8, <2>9, <2>10 DEF Regular
  <2>12. \A u \in d.tallies : ~(u.kind = kind /\ {u.first, u.second} = {f, s})
    BY <1>4, SharedJoins
  <2>13. Unique(e)
    <3>1. \A u, v \in e.tallies :
             u.kind = v.kind /\ {u.first, u.second} = {v.first, v.second} => u = v
      <4> SUFFICES ASSUME NEW u \in e.tallies, NEW v \in e.tallies, u.kind = v.kind,
                          {u.first, u.second} = {v.first, v.second}
                   PROVE  u = v
        OBVIOUS
      <4>1. CASE u \in d.tallies /\ v \in d.tallies
        BY <1>1, <4>1 DEF Unique
      <4>2. CASE u \notin d.tallies /\ v \notin d.tallies
        BY <2>1, <4>2
      <4>3. CASE u \in d.tallies /\ v \notin d.tallies
        <5>1. v = t
          BY <2>1, <4>3
        <5> QED
          BY <2>2, <2>12, <4>3, <5>1
      <4>4. CASE u \notin d.tallies /\ v \in d.tallies
        <5>1. u = t
          BY <2>1, <4>4
        <5> QED
          BY <2>2, <2>12, <4>4, <5>1
      <4> QED
        BY <4>1, <4>2, <4>3, <4>4
    <3> QED
      BY <1>1, <2>1, <3>1 DEF Unique
  <2>14. Joins(e, kind, f, s, n)
    BY <1>4, <2>1, <2>2 DEF Joins
  <2> QED
    BY <2>3, <2>4, <2>5, <2>6, <2>11, <2>13, <2>14 DEF Good
<1> QED
  BY <1>2, <1>3, <1>4

\* What has been joined is found joined.
LEMMA JoinFound ==
    ASSUME NEW e, Good(e), NEW kind, NEW f, NEW s, NEW n, Joins(e, kind, f, s, n)
    PROVE  WithJoin(e, kind, f, s) = e /\ JoinNode(e, kind, f, s) = n
<1>1. CASE f = s
  BY <1>1 DEF Joins, WithJoin, JoinNode
<1>2. CASE f # s
  <2>1. PICK t \in e.tallies : t.kind = kind /\ t.node = n /\ {t.first, t.second} = {f, s}
    BY <1>2 DEF Joins
  <2>2. t \in Shared(e, kind, f, s)
    BY <1>2, <2>1, SharedJoins
  <2>3. \A u \in Shared(e, kind, f, s) : u = t
    BY <1>2, <2>1, SharedJoins DEF Good, Unique
  <2> QED
    BY <1>2, <2>1, <2>2, <2>3 DEF WithJoin, JoinNode
<1> QED
  BY <1>1, <1>2

----------------------------------------------------------------------------
(* Where a node is active.                                                 *)

\* The same rules at every step.
Throughout(d, ks) == [j \in DOMAIN ks |-> d]

\* The steps at which node n is active; the root node is before them all.
ActiveAt(d, ks, n) ==
    IF n = Root THEN {0}
    ELSE {j \in DOMAIN ks : Active(Throughout(d, ks), ks)[n][j] # {}}

LEMMA ThroughoutSteps ==
    ASSUME NEW d, Good(d), NEW ks \in Chains
    PROVE  /\ Steps(Throughout(d, ks), ks, Len(ks)) /\ Len(ks) \in Nat \ {0}
           /\ DOMAIN ks = 1..Len(ks) /\ \A j \in 1..Len(ks) : Throughout(d, ks)[j] = d
<1> DEFINE ds == Throughout(d, ks)
           m == Len(ks)
<1>1. ks \in Seq(Keys) /\ ks # <<>>
  BY SelectorAssumption
<1>2. m \in Nat \ {0} /\ DOMAIN ks = 1..m /\ \A j \in 1..m : ks[j] \in Keys
  BY <1>1
<1>3. ds \in [1..m -> {d}]
  BY <1>2 DEF Throughout
<1>4. DOMAIN ds = 1..m /\ \A j \in 1..m : ds[j] = d
  BY <1>3
<1>5. Len(ds) = m
  BY <1>2, <1>3
<1>6. PartOf(d, d)
  BY DEF PartOf, Good, WellFormed
<1>7. \A j \in 1..m : \A i \in 1..j : PartOf(ds[i], ds[j])
  <2>1. \A j \in 1..m : \A i \in 1..j : i \in 1..m
    BY <1>2
  <2> QED
    BY <1>4, <1>6, <2>1
<1> HIDE DEF ds
<1>8. Steps(ds, ks, m)
  BY <1>2, <1>4, <1>5, <1>7, SelectorAssumption DEF Steps, Good
<1> QED
  BY <1>2, <1>4, <1>8 DEF ds

\* Highest loses nothing but what is not the highest.
LEMMA HighestKeeps ==
    ASSUME NEW U, U \subseteq Specificities, HasTop(U)
    PROVE  Highest(U) = {} <=> U = {}
BY DEF Highest, HasTop

\* A child is active where its key matches after its parent was active.
LEMMA ChildActive ==
    ASSUME NEW d, Good(d), NEW ks \in Chains, NEW e \in d.edges
    PROVE  ActiveAt(d, ks, e.child) =
              UNION {{j \in (i + 1)..Len(ks) : Matches(e.key, ks[j])} :
                        i \in ActiveAt(d, ks, e.parent)}
<1> DEFINE ds == Throughout(d, ks)
           m == Len(ks)
           A == Active(ds, ks)
<1>1. /\ Steps(ds, ks, m) /\ m \in Nat \ {0} /\ DOMAIN ks = 1..m
      /\ \A j \in 1..m : ds[j] = d
  BY ThroughoutSteps
<1>2. m \in 1..m /\ ds[m] = d /\ e \in ds[m].edges /\ e.child # Root
  BY <1>1 DEF Good, WellFormed, Regular, Edges, Root
<1> HIDE DEF ds, m, A
<1>3. ASSUME NEW j \in 1..m
      PROVE  A[e.child][j] # {} <=> Matches(e.key, ks[j]) /\ From(A, e, j) # {}
  <2>1. A[e.child][j] = IF Matches(e.key, ks[j]) THEN EdgeBest(A, e, j) ELSE {}
    BY <1>1, <1>2, EdgeCell DEF A
  <2>2. From(A, e, j) \subseteq Specificities /\ HasTop(From(A, e, j))
    BY <1>1, <1>2, FromHasTop DEF A
  <2>3. KeySpecificity(e.key) \in Specificities
    BY KeysFinite, SelectorAssumption DEF Good, WellFormed, Edges
  <2> DEFINE sums == {Plus(s, KeySpecificity(e.key)) : s \in From(A, e, j)}
  <2>4. sums \subseteq Specificities /\ HasTop(sums)
    BY <2>2, <2>3, SumsHaveTop
  <2>5. EdgeBest(A, e, j) = {} <=> sums = {}
    BY <2>4, HighestKeeps DEF EdgeBest
  <2> QED
    BY <2>1, <2>5
<1>4. ASSUME NEW j \in 1..m
      PROVE  From(A, e, j) # {} <=> \E i \in ActiveAt(d, ks, e.parent) : i < j
  <2>1. CASE e.parent = Root
    <3>1. 1 \in 1..j /\ 1 \in 1..m /\ 0 < j
      BY <1>1
    <3>2. A[Root][1] = {Spec0}
      BY <1>1, <3>1, RootCell DEF A
    <3>3. Spec0 \in From(A, e, j)
      BY <2>1, <3>1, <3>2 DEF From
    <3> QED
      BY <2>1, <3>1, <3>3 DEF ActiveAt
  <2>2. CASE e.parent # Root
    <3>1. ActiveAt(d, ks, e.parent) = {i \in 1..m : A[e.parent][i] # {}}
      BY <1>1, <2>2 DEF ActiveAt, A, ds
    <3>2. From(A, e, j) = UNION {A[e.parent][i] : i \in {i \in 1..j : i < j}}
      BY <2>2 DEF From
    <3>3. \A i \in 1..m : i < j => i \in 1..j
      BY <1>1
    <3>4. \A i \in 1..j : i \in 1..m
      BY <1>1
    <3> QED
      BY <3>1, <3>2, <3>3, <3>4
  <2> QED
    BY <2>1, <2>2
<1>5. ActiveAt(d, ks, e.child) = {j \in 1..m : A[e.child][j] # {}}
  BY <1>1, <1>2 DEF ActiveAt, A, ds
<1>6. ActiveAt(d, ks, e.parent) \subseteq 0..m
  BY <1>1 DEF ActiveAt
<1>7. \A i \in 0..m, j \in 1..m : i < j <=> j \in (i + 1)..m
  BY <1>1
<1>8. \A i \in 0..m : \A j \in (i + 1)..m : j \in 1..m
  BY <1>1
<1> QED
  BY <1>3, <1>4, <1>5, <1>6, <1>7, <1>8 DEF m

SumsOf(G, H) == {Plus(a, b) : a \in G, b \in H}

LEMMA SumsOfBoth ==
    ASSUME NEW G, NEW H
    PROVE  SumsOf(G, H) # {} <=> G # {} /\ H # {}
<1>1. ASSUME NEW g \in G, NEW h \in H
      PROVE  Plus(g, h) \in SumsOf(G, H)
  BY DEF SumsOf
<1>2. ASSUME NEW x \in SumsOf(G, H)
      PROVE  \E g \in G, h \in H : x = Plus(g, h)
  BY DEF SumsOf
<1> QED
  BY <1>1, <1>2

\* A node that joins two is active where they say.
LEMMA JoinActive ==
    ASSUME NEW d, Good(d), NEW ks \in Chains, NEW kind \in Kinds, NEW f, NEW s,
           f # Root, s # Root, NEW n, Joins(d, kind, f, s, n)
    PROVE  ActiveAt(d, ks, n) = IF kind = "and"
                                THEN Both(ActiveAt(d, ks, f), ActiveAt(d, ks, s))
                                ELSE ActiveAt(d, ks, f) \cup ActiveAt(d, ks, s)
<1> DEFINE ds == Throughout(d, ks)
           m == Len(ks)
           A == Active(ds, ks)
           at(q) == {j \in 1..m : A[q][j] # {}}
<1>1. /\ Steps(ds, ks, m) /\ m \in Nat \ {0} /\ DOMAIN ks = 1..m /\ m \in 1..m
      /\ \A j \in 1..m : ds[j] = d
  BY ThroughoutSteps
<1>2. \A q : q # Root => ActiveAt(d, ks, q) = at(q)
  BY <1>1 DEF ActiveAt
<1> HIDE DEF ds, m
<1>3. \A j \in 1..m : j \in Nat /\ j <= j
  BY <1>1
<1>4. CASE f = s
  <2>1. n = f /\ Both(at(f), at(f)) = at(f)
    BY <1>3, <1>4 DEF Joins, Both
  <2> QED
    BY <1>2, <1>4, <2>1
<1>5. CASE f # s
  <2>1. PICK t \in d.tallies : t.kind = kind /\ t.node = n /\ {t.first, t.second} = {f, s}
    BY <1>5 DEF Joins
  <2>2. /\ t \in ds[m].tallies /\ n # Root
        /\ (t.first = f /\ t.second = s) \/ (t.first = s /\ t.second = f)
    <3>1. Root < t.first /\ t.first < n /\ t.first \in Nat /\ n \in Nat
      BY <2>1 DEF Good, WellFormed, Regular, Tallies
    <3>2. n # Root
      BY <3>1 DEF Root
    <3>3. (t.first = f /\ t.second = s) \/ (t.first = s /\ t.second = f)
      BY <1>5, <2>1
    <3> QED
      BY <1>1, <2>1, <3>2, <3>3
  <2> HIDE DEF A
  <2>3. ASSUME NEW w \in {1, 2}, NEW j \in 1..m
        PROVE  /\ Highest(SoFar(A, ds, t, w, j)) = {} <=> SoFar(A, ds, t, w, j) = {}
               /\ SoFar(A, ds, t, w, j) # {} <=> \E i \in at(LegOf(t, w)) : i <= j
    <3>1. SoFar(A, ds, t, w, j) \subseteq Specificities /\ HasTop(SoFar(A, ds, t, w, j))
      BY <1>1, <2>2, SoFarHasTop DEF A
    <3>2. {i \in 1..j : t \in ds[i].tallies} = {i \in 1..m : i <= j}
      BY <1>1
    <3>3. SoFar(A, ds, t, w, j) = UNION {A[LegOf(t, w)][i] : i \in {i \in 1..m : i <= j}}
      BY <3>2 DEF SoFar
    <3>4. Highest(SoFar(A, ds, t, w, j)) = {} <=> SoFar(A, ds, t, w, j) = {}
      BY <3>1, HighestKeeps
    <3>5. SoFar(A, ds, t, w, j) # {} <=> \E i \in {i \in 1..m : i <= j} : A[LegOf(t, w)][i] # {}
      BY <3>3
    <3> QED
      BY <3>4, <3>5
  <2>4. CASE kind = "and"
    <3>1. ASSUME NEW j \in 1..m
          PROVE  A[n][j] # {} <=> /\ j \in at(t.first) \cup at(t.second)
                                  /\ \E i \in at(t.first) : i <= j
                                  /\ \E i \in at(t.second) : i <= j
      <4>1. A[n][j] = IF A[t.first][j] \cup A[t.second][j] = {} THEN {} ELSE AndBest(A, ds, t, j)
        BY <1>1, <2>1, <2>2, <2>4, AndCell DEF A
      <4>2. AndBest(A, ds, t, j) # {} <=> /\ Highest(SoFar(A, ds, t, 1, j)) # {}
                                          /\ Highest(SoFar(A, ds, t, 2, j)) # {}
        <5>1. AndBest(A, ds, t, j) = SumsOf(Highest(SoFar(A, ds, t, 1, j)),
                                            Highest(SoFar(A, ds, t, 2, j)))
          BY DEF AndBest, SumsOf
        <5> QED
          BY <5>1, SumsOfBoth
      <4>3. /\ Highest(SoFar(A, ds, t, 1, j)) # {} <=> \E i \in at(t.first) : i <= j
            /\ Highest(SoFar(A, ds, t, 2, j)) # {} <=> \E i \in at(t.second) : i <= j
        BY <2>3 DEF LegOf
      <4> QED
        BY <4>1, <4>2, <4>3
    <3>2. at(n) = Both(at(t.first), at(t.second))
      BY <3>1 DEF Both
    <3>3. Both(at(f), at(s)) = Both(at(s), at(f))
      BY DEF Both
    <3> QED
      BY <1>2, <2>2, <2>4, <3>2, <3>3
  <2>5. CASE kind # "and"
    <3>1. ASSUME NEW j \in 1..m
          PROVE  A[n][j] # {} <=> A[t.first][j] \cup A[t.second][j] # {}
      <4>1. A[n][j] = Highest(A[t.first][j] \cup A[t.second][j])
        <5>1. t \in ds[m].tallies /\ t \in ds[j].tallies /\ t.kind # "and" /\ t.node = n
          BY <1>1, <2>1, <2>2, <2>5
        <5>2. A[t.node][j] = IF t \in ds[j].tallies
                             THEN Highest(A[t.first][j] \cup A[t.second][j]) ELSE {}
          <6>1. A = Active(ds, ks)
            BY DEF A
          <6>2. Steps(ds, ks, m)
            BY <1>1
          <6>3. t \in ds[m].tallies /\ t.kind # "and"
            BY <5>1
          <6> HIDE DEF at
          <6> QED
            BY <6>1, <6>2, <6>3, OrCell
        <5> QED
          BY <5>1, <5>2
      <4>2. /\ A[t.first] \in RowsOf(m) /\ A[t.second] \in RowsOf(m)
        BY <1>1, <2>2, TallyRow DEF A, LegOf
      <4>3. One(A[t.first][j]) /\ One(A[t.second][j])
        BY <4>2 DEF RowsOf
      <4>4. /\ A[t.first][j] \cup A[t.second][j] \subseteq Specificities
            /\ HasTop(A[t.first][j] \cup A[t.second][j])
        BY <4>3, OneHasTop, TopOfBoth DEF One
      <4> QED
        BY <4>1, <4>4, HighestKeeps
    <3>2. at(n) = at(t.first) \cup at(t.second)
      BY <3>1
    <3> QED
      BY <1>2, <2>2, <2>5, <3>2
  <2> QED
    BY <2>4, <2>5
<1> QED
  BY <1>4, <1>5

----------------------------------------------------------------------------
(* The steps that selectors name.                                          *)

\* For every step, the steps after it at which something comes to match.
Tables(ks) == [0..Len(ks) -> SUBSET (0..Len(ks))]

\* Who starts later sees no more.
Falling(table, ks) == \A i, j \in 0..Len(ks) : i <= j => table[j] \subseteq table[i]

Reached(table, from) == UNION {table[i] : i \in from}

\* So it is the first of several steps to start from that counts.
LEMMA FirstCounts ==
    ASSUME NEW ks, NEW table, Falling(table, ks), NEW from \in SUBSET (0..Len(ks)),
           NEW i \in from, \A j \in from : i <= j
    PROVE  Reached(table, from) = table[i]
BY DEF Reached, Falling

\* The recursive function in LeafSteps, whose value at n is
StepsValue(sel, ks, n, steps) == [i \in 0..Len(ks) |-> StepsAfter(i, sel[n], steps, ks)]

LEMMA LeafStepsIs ==
    ASSUME NEW sel, NEW ks
    PROVE  LeafSteps(sel, ks) =
              CHOOSE steps : steps = [n \in DOMAIN sel |-> StepsValue(sel, ks, n, steps)]
BY DEF LeafSteps, StepsValue

\* What an operator makes of the tables of its operands.
LEMMA StepsAfterIs ==
    ASSUME NEW sel, IsSelector(sel), NEW ks, NEW n \in DOMAIN sel, NEW steps, NEW i
    PROVE  LET leaf == sel[n]
               x == StepsAfter(i, leaf, steps, ks)
           IN  /\ leaf.op = "step" => x = {j \in (i + 1)..Len(ks) : Matches(leaf.key, ks[j])}
               /\ leaf.op = "and" => x = Both(steps[leaf.left][i], steps[leaf.right][i])
               /\ leaf.op = "or" => x = steps[leaf.left][i] \cup steps[leaf.right][i]
               /\ leaf.op = "descendant" => x = Reached(steps[leaf.right], steps[leaf.left][i])
               /\ leaf.op \in {"step", "and", "or", "descendant"}
<1>1. sel[n].op \in {"step", "and", "or", "descendant"}
  BY LeafIs DEF Operators
<1>2. CASE sel[n].op = "step"
  BY <1>2 DEF StepsAfter
<1>3. CASE sel[n].op = "and"
  BY <1>3 DEF StepsAfter
<1>4. CASE sel[n].op = "or"
  BY <1>4 DEF StepsAfter
<1>5. CASE sel[n].op = "descendant"
  BY <1>5 DEF StepsAfter, Reached
<1> QED
  BY <1>1, <1>2, <1>3, <1>4, <1>5

LEMMA StepsTyped ==
    ASSUME NEW sel, IsSelector(sel), NEW ks \in Seq(Keys), NEW n \in DOMAIN sel, NEW steps,
           sel[n].op # "step" => /\ steps[sel[n].left] \in Tables(ks)
                                 /\ steps[sel[n].right] \in Tables(ks)
    PROVE  StepsValue(sel, ks, n, steps) \in Tables(ks)
<1> DEFINE x(i) == StepsAfter(i, sel[n], steps, ks)
           T == 0..Len(ks)
<1>1. StepsValue(sel, ks, n, steps) = [i \in T |-> x(i)]
  BY DEF StepsValue
<1>2. ASSUME NEW i \in T
      PROVE  x(i) \in SUBSET T
  <2>1. CASE sel[n].op = "step"
    <3>1. x(i) = {j \in (i + 1)..Len(ks) : Matches(sel[n].key, ks[j])}
      BY <2>1, StepsAfterIs
    <3>2. \A j \in (i + 1)..Len(ks) : j \in T
      OBVIOUS
    <3> QED
      BY <3>1, <3>2
  <2>2. CASE sel[n].op # "step"
    <3> DEFINE l == steps[sel[n].left]
               r == steps[sel[n].right]
    <3>1. l \in [T -> SUBSET T] /\ r \in [T -> SUBSET T]
      BY <2>2 DEF Tables
    <3>2. \/ x(i) = Both(l[i], r[i]) \/ x(i) = l[i] \cup r[i] \/ x(i) = Reached(r, l[i])
      BY <2>2, StepsAfterIs
    <3> HIDE DEF l, r, x, T
    <3>3. Both(l[i], r[i]) \in SUBSET T
      BY <3>1 DEF Both
    <3>4. Reached(r, l[i]) \in SUBSET T
      BY <3>1 DEF Reached
    <3> QED
      BY <3>1, <3>2, <3>3, <3>4
  <2> QED
    BY <2>1, <2>2
<1> HIDE DEF x
<1> QED
  BY <1>1, <1>2 DEF Tables

LEMMA StepsAre ==
    ASSUME NEW sel, IsSelector(sel), NEW ks \in Seq(Keys)
    PROVE  /\ LeafSteps(sel, ks) \in [DOMAIN sel -> Tables(ks)]
           /\ \A n \in DOMAIN sel :
                 LeafSteps(sel, ks)[n] = StepsValue(sel, ks, n, LeafSteps(sel, ks))
<1> DEFINE N == Len(sel)
           D == DOMAIN sel
           V == Tables(ks)
           G == [p \in D \X [D -> V] |-> StepsValue(sel, ks, p[1], p[2])]
<1>1. N \in Nat /\ D \subseteq 0..N /\ D \in SUBSET Nat
  BY DEF IsSelector
<1>2. \A n \in D : sel[n].op # "step" => /\ sel[n].left \in D /\ sel[n].left < n
                                         /\ sel[n].right \in D /\ sel[n].right < n
  BY LeafIs
<1>3. ASSUME NEW n \in D, NEW f \in [D -> V]
      PROVE  StepsValue(sel, ks, n, f) \in V
  BY <1>2, StepsTyped
<1>4. ASSUME NEW n \in D, NEW f, NEW g, \A m \in D : m < n => f[m] = g[m]
      PROVE  StepsValue(sel, ks, n, f) = StepsValue(sel, ks, n, g)
  <2>1. CASE sel[n].op = "step"
    <3>1. \A i : StepsAfter(i, sel[n], f, ks) = StepsAfter(i, sel[n], g, ks)
      BY <2>1 DEF StepsAfter
    <3> QED
      BY <3>1 DEF StepsValue
  <2>2. CASE sel[n].op # "step"
    <3>1. f[sel[n].left] = g[sel[n].left] /\ f[sel[n].right] = g[sel[n].right]
      BY <1>2, <1>4, <2>2
    <3>2. \A i : StepsAfter(i, sel[n], f, ks) = StepsAfter(i, sel[n], g, ks)
      <4> SUFFICES ASSUME NEW i
                   PROVE  StepsAfter(i, sel[n], f, ks) = StepsAfter(i, sel[n], g, ks)
        OBVIOUS
      <4>1. CASE sel[n].op = "and"
        BY <3>1, <4>1, StepsAfterIs
      <4>2. CASE sel[n].op = "or"
        BY <3>1, <4>2 DEF StepsAfter
      <4>3. CASE sel[n].op = "descendant"
        BY <3>1, <4>3, StepsAfterIs
      <4> QED
        BY <2>2, <4>1, <4>2, <4>3, StepsAfterIs
    <3> QED
      BY <3>2 DEF StepsValue
  <2> QED
    BY <2>1, <2>2
<1>5. V # {}
  <2>1. [i \in 0..Len(ks) |-> {}] \in V
    BY DEF Tables
  <2> QED
    BY <2>1
<1> HIDE DEF V
<1>6. G \in [D \X [D -> V] -> V] /\ \A n \in D, f \in [D -> V] : G[<<n, f>>] = StepsValue(sel, ks, n, f)
  BY <1>3
<1> HIDE DEF G
<1>7. LooksBelow(G, D, V)
  <2> SUFFICES ASSUME NEW n \in D, NEW f \in [D -> V], NEW g \in [D -> V],
                      \A m \in D : m < n => f[m] = g[m]
               PROVE  G[<<n, f>>] = G[<<n, g>>]
    BY DEF LooksBelow
  <2>1. StepsValue(sel, ks, n, f) = StepsValue(sel, ks, n, g)
    BY <1>4
  <2> QED
    BY <1>6, <2>1
<1> HIDE DEF D
<1>8. PICK f \in [D -> V] : Solves(f, G, D)
  BY <1>1, <1>5, <1>6, <1>7, RecursiveFunction
<1>9. f = [n \in D |-> StepsValue(sel, ks, n, f)]
  BY <1>6, <1>8 DEF Solves
<1> DEFINE steps == LeafSteps(sel, ks)
<1>10. steps = [n \in D |-> StepsValue(sel, ks, n, steps)]
  BY <1>9, LeafStepsIs DEF D
<1>11. \A n \in D : steps[n] = f[n]
  <2> HIDE DEF steps
  <2>1. AgreeOnward(steps, f, D)
    BY <1>4, <1>9, <1>10 DEF AgreeOnward
  <2>2. D \in SUBSET Nat
    BY <1>1
  <2> QED
    BY <2>1, <2>2, SameThroughout
<1> QED
  BY <1>10, <1>11 DEF D, V

LEMMA StepsFall ==
    ASSUME NEW sel, IsSelector(sel), NEW ks \in Seq(Keys), NEW n \in DOMAIN sel
    PROVE  Falling(LeafSteps(sel, ks)[n], ks)
<1> DEFINE steps == LeafSteps(sel, ks)
           T == 0..Len(ks)
           S == {m \in Nat : m \in DOMAIN sel => Falling(steps[m], ks)}
<1>1. ASSUME NEW m \in Nat, \A q \in Nat : q < m => q \in S
      PROVE  m \in S
  <2> SUFFICES ASSUME m \in DOMAIN sel, NEW i \in T, NEW j \in T, i <= j
               PROVE  steps[m][j] \subseteq steps[m][i]
    BY DEF Falling
  <2>1. /\ steps[m][i] = StepsAfter(i, sel[m], steps, ks)
        /\ steps[m][j] = StepsAfter(j, sel[m], steps, ks)
    <3>1. steps[m] = StepsValue(sel, ks, m, steps)
      BY StepsAre
    <3> HIDE DEF steps
    <3> QED
      BY <3>1 DEF StepsValue
  <2> DEFINE l == steps[sel[m].left]
             r == steps[sel[m].right]
  <2> HIDE DEF steps
  <2>2. CASE sel[m].op = "step"
    <3>1. /\ steps[m][i] = {q \in (i + 1)..Len(ks) : Matches(sel[m].key, ks[q])}
          /\ steps[m][j] = {q \in (j + 1)..Len(ks) : Matches(sel[m].key, ks[q])}
      BY <2>1, <2>2, StepsAfterIs
    <3>2. \A q \in (j + 1)..Len(ks) : q \in (i + 1)..Len(ks)
      OBVIOUS
    <3> QED
      BY <3>1, <3>2
  <2>3. CASE sel[m].op # "step"
    <3>1. l[j] \subseteq l[i] /\ r[j] \subseteq r[i]
      <4>1. Falling(l, ks) /\ Falling(r, ks)
        BY <1>1, <2>3, LeafIs
      <4> QED
        BY <4>1 DEF Falling
    <3>2. \/ steps[m][i] = Both(l[i], r[i]) /\ steps[m][j] = Both(l[j], r[j])
          \/ steps[m][i] = l[i] \cup r[i] /\ steps[m][j] = l[j] \cup r[j]
          \/ steps[m][i] = Reached(r, l[i]) /\ steps[m][j] = Reached(r, l[j])
      BY <2>1, <2>3, StepsAfterIs
    <3> HIDE DEF l, r
    <3>3. Both(l[j], r[j]) \subseteq Both(l[i], r[i])
      BY <3>1 DEF Both
    <3>4. Reached(r, l[j]) \subseteq Reached(r, l[i])
      BY <3>1 DEF Reached
    <3> QED
      BY <3>1, <3>2, <3>3, <3>4
  <2> QED
    BY <2>2, <2>3
<1>2. Nat \subseteq S
  <2> HIDE DEF S
  <2> QED
    BY <1>1, StrongInduction
<1> QED
  BY <1>2, LeafIs

----------------------------------------------------------------------------
(* Traversals.                                                             *)

LEMMA InContextTyped ==
    ASSUME NEW at \in Visits, NEW g \in Moves(Places)
    PROVE  InContext(at, g) \in Places
<1> DEFINE ctx == at.ctx
           start == [dag |-> at.dag, node |-> IF ctx.op = "descendant" THEN ctx.node ELSE ctx.base]
           second == g[start]
<1>1. /\ at.dag \in AnyDag /\ ctx.op \in Operators /\ ctx.node \in Nat /\ ctx.base \in Nat
  BY DEF Visits
<1>2. start \in Places
  BY <1>1 DEF Places
<1>3. second \in Places
  BY <1>2 DEF Moves
<1>4. second.dag \in AnyDag /\ second.node \in Nat
  BY <1>3 DEF Places
<1>5. CASE ctx.op = "descendant"
  BY <1>3, <1>5 DEF InContext
<1>6. CASE ctx.op # "descendant"
  <2>1. InContext(at, g) = [dag |-> WithJoin(second.dag, ctx.op, ctx.node, second.node),
                            node |-> JoinNode(second.dag, ctx.op, ctx.node, second.node)]
    BY <1>6 DEF InContext
  <2>2. ctx.op \in Kinds
    BY <1>1, <1>6 DEF Operators, Kinds
  <2>3. /\ WithJoin(second.dag, ctx.op, ctx.node, second.node) \in AnyDag
        /\ JoinNode(second.dag, ctx.op, ctx.node, second.node) \in Nat
    BY <1>1, <1>4, <2>2, JoinTyped
  <2> HIDE DEF second, ctx
  <2>4. [dag |-> WithJoin(second.dag, ctx.op, ctx.node, second.node),
         node |-> JoinNode(second.dag, ctx.op, ctx.node, second.node)] \in Places
    BY <2>3 DEF Places
  <2> QED
    BY <2>1, <2>4
<1> QED
  BY <1>5, <1>6

LEMMA BranchTyped ==
    ASSUME NEW op \in Operators, NEW g \in Moves(Places), NEW base \in Nat
    PROVE  Branch(op, g, base) \in Moves(Visits)
<1> SUFFICES ASSUME NEW at \in Visits
             PROVE  LET place == InContext(at, g)
                    IN  [dag |-> place.dag, ctx |-> Within(op, place.node, base)] \in Visits
  BY DEF Branch, Moves
<1>1. InContext(at, g) \in Places
  BY InContextTyped
<1> QED
  BY <1>1 DEF Places, Visits, Within

LEMMA StartTyped ==
    ASSUME NEW d \in AnyDag, NEW n \in Nat
    PROVE  StartAt(d, n) \in Visits
BY DEF StartAt, Visits, Within, Operators

\* The calls of a Wrap's branches.
WrapCalls(traverse, wrap, n) ==
    [b \in DOMAIN wrap.branches |->
        Branch(wrap.branches[b].op, traverse[wrap.branches[b].first], n)]

LEMMA WrapCallsTyped ==
    ASSUME NEW sel, NEW i, NEW wrap, HoldsBelow(wrap, sel, i), NEW n \in Nat, NEW traverse,
           \A q \in DOMAIN sel : q < i => traverse[q] \in Moves(Places)
    PROVE  WrapCalls(traverse, wrap, n) \in Seq(Moves(Visits))
<1> DEFINE m == Len(wrap.branches)
           calls == WrapCalls(traverse, wrap, n)
<1>1. m \in Nat /\ DOMAIN wrap.branches = 1..m
  BY DEF HoldsBelow
<1>2. \A b \in 1..m : calls[b] \in Moves(Visits)
  BY <1>1, BranchTyped DEF HoldsBelow, WrapCalls
<1>3. DOMAIN calls = 1..m /\ calls = [b \in 1..m |-> calls[b]]
  BY <1>1 DEF WrapCalls
<1> HIDE DEF calls
<1>4. calls \in [1..m -> Moves(Visits)]
  BY <1>2, <1>3
<1> QED
  BY <1>1, <1>4 DEF calls

LEMMA ThroughWrapTyped ==
    ASSUME NEW sel, NEW i, NEW wrap, HoldsBelow(wrap, sel, i), NEW p \in Places, NEW traverse,
           \A q \in DOMAIN sel : q < i => traverse[q] \in Moves(Places)
    PROVE  ThroughWrap(traverse, wrap, p) \in Places
<1> DEFINE calls == WrapCalls(traverse, wrap, p.node)
<1>1. p.dag \in AnyDag /\ p.node \in Nat
  BY DEF Places
<1>2. StartAt(p.dag, p.node) \in Visits /\ calls \in Seq(Moves(Visits))
  BY <1>1, StartTyped, WrapCallsTyped
<1>3. Through(StartAt(p.dag, p.node), calls) \in Visits
  BY <1>2, ThroughTyped
<1>4. traverse[wrap.right] \in Moves(Places)
  BY DEF HoldsBelow
<1>5. ThroughWrap(traverse, wrap, p) = InContext(Through(StartAt(p.dag, p.node), calls), traverse[wrap.right])
  BY DEF ThroughWrap, WrapCalls
<1> QED
  BY <1>3, <1>4, <1>5, InContextTyped

\* The recursive function in Traversals, whose value at i is
TraverseValue(leaf, i, traverse) ==
    [p \in Places |->
        IF IsStep(leaf[i])
        THEN [dag |-> WithChild(p.dag, p.node, leaf[i].right),
              node |-> ChildNode(p.dag, p.node, leaf[i].right)]
        ELSE ThroughWrap(traverse, leaf[i], p)]

LEMMA TraversalsIs ==
    ASSUME NEW sel
    PROVE  Traversals(sel) =
              CHOOSE traverse : traverse =
                 [i \in DOMAIN sel |-> TraverseValue(Leaves(sel), i, traverse)]
BY DEF Traversals, TraverseValue

LEMMA TraverseTyped ==
    ASSUME NEW sel, IsSelector(sel), NEW i \in DOMAIN sel, NEW traverse,
           \A q \in DOMAIN sel : q < i => traverse[q] \in Moves(Places)
    PROVE  TraverseValue(Leaves(sel), i, traverse) \in Moves(Places)
<1> DEFINE leaf == Leaves(sel)
<1> SUFFICES ASSUME NEW p \in Places
             PROVE  (IF IsStep(leaf[i])
                     THEN [dag |-> WithChild(p.dag, p.node, leaf[i].right),
                           node |-> ChildNode(p.dag, p.node, leaf[i].right)]
                     ELSE ThroughWrap(traverse, leaf[i], p)) \in Places
  BY DEF TraverseValue, Moves
<1>1. CASE IsStep(leaf[i])
  <2>1. sel[i].op = "step" /\ leaf[i] = StepLeaf(sel[i].key) /\ sel[i].key \in Keys
    BY <1>1, LeavesAre, LeafTyped, LeafIs DEF LeafValue
  <2>2. leaf[i].right \in Keys
    BY <2>1 DEF StepLeaf
  <2> HIDE DEF leaf
  <2> QED
    BY <1>1, <2>2, ChildTyped DEF Places
<1>2. CASE ~IsStep(leaf[i])
  BY <1>2, WrapsHold, ThroughWrapTyped
<1> QED
  BY <1>1, <1>2

LEMMA TraversalsAre ==
    ASSUME NEW sel, IsSelector(sel)
    PROVE  /\ Traversals(sel) \in [DOMAIN sel -> Moves(Places)]
           /\ \A i \in DOMAIN sel :
                 Traversals(sel)[i] = TraverseValue(Leaves(sel), i, Traversals(sel))
<1> DEFINE N == Len(sel)
           D == DOMAIN sel
           V == Moves(Places)
           leaf == Leaves(sel)
           G == [p \in D \X [D -> V] |-> TraverseValue(leaf, p[1], p[2])]
<1>1. N \in Nat /\ D \subseteq 0..N /\ D \in SUBSET Nat
  BY DEF IsSelector
<1>2. \A i \in D : ~IsStep(leaf[i]) => HoldsBelow(leaf[i], sel, i)
  BY WrapsHold
<1>3. ASSUME NEW i \in D, NEW f \in [D -> V]
      PROVE  TraverseValue(leaf, i, f) \in V
  BY TraverseTyped
<1>4. ASSUME NEW i \in D, NEW f, NEW g, \A j \in D : j < i => f[j] = g[j]
      PROVE  TraverseValue(leaf, i, f) = TraverseValue(leaf, i, g)
  <2>1. ASSUME NEW p \in Places, ~IsStep(leaf[i])
        PROVE  ThroughWrap(f, leaf[i], p) = ThroughWrap(g, leaf[i], p)
    <3>1. HoldsBelow(leaf[i], sel, i)
      BY <1>2, <2>1
    <3>2. \A b \in DOMAIN leaf[i].branches : f[leaf[i].branches[b].first] = g[leaf[i].branches[b].first]
      BY <1>4, <3>1 DEF HoldsBelow
    <3>3. WrapCalls(f, leaf[i], p.node) = WrapCalls(g, leaf[i], p.node)
      BY <3>2 DEF WrapCalls
    <3>4. f[leaf[i].right] = g[leaf[i].right]
      BY <1>4, <3>1 DEF HoldsBelow
    <3> QED
      BY <3>3, <3>4 DEF ThroughWrap, WrapCalls
  <2> HIDE DEF leaf
  <2> QED
    BY <2>1 DEF TraverseValue
<1>5. V # {}
  <2>1. [p \in Places |-> p] \in V
    BY DEF Moves
  <2> QED
    BY <2>1
<1> HIDE DEF V, leaf
<1>6. G \in [D \X [D -> V] -> V] /\ \A i \in D, f \in [D -> V] : G[<<i, f>>] = TraverseValue(leaf, i, f)
  BY <1>3
<1> HIDE DEF G
<1>7. LooksBelow(G, D, V)
  <2> SUFFICES ASSUME NEW i \in D, NEW f \in [D -> V], NEW g \in [D -> V],
                      \A j \in D : j < i => f[j] = g[j]
               PROVE  G[<<i, f>>] = G[<<i, g>>]
    BY DEF LooksBelow
  <2>1. TraverseValue(leaf, i, f) = TraverseValue(leaf, i, g)
    BY <1>4
  <2> QED
    BY <1>6, <2>1
<1> HIDE DEF D
<1>8. PICK f \in [D -> V] : Solves(f, G, D)
  BY <1>1, <1>5, <1>6, <1>7, RecursiveFunction
<1>9. f = [i \in D |-> TraverseValue(leaf, i, f)]
  BY <1>6, <1>8 DEF Solves
<1> DEFINE traverse == Traversals(sel)
<1>10. traverse = [i \in D |-> TraverseValue(leaf, i, traverse)]
  BY <1>9, TraversalsIs DEF D, leaf
<1> HIDE DEF traverse
<1>11. \A i \in D : traverse[i] = f[i]
  <2>1. AgreeOnward(traverse, f, D)
    BY <1>4, <1>9, <1>10 DEF AgreeOnward
  <2>2. D \in SUBSET Nat
    BY <1>1
  <2> QED
    BY <2>1, <2>2, SameThroughout
<1> QED
  BY <1>10, <1>11 DEF D, V, traverse, leaf

LEMMA AppendIs ==
    ASSUME NEW S, NEW s \in Seq(S), NEW x \in S
    PROVE  Append(s, x) = [b \in 1..(Len(s) + 1) |-> IF b <= Len(s) THEN s[b] ELSE x]
<1> DEFINE t == Append(s, x)
           m == Len(s)
<1>1. t \in Seq(S) /\ Len(t) = m + 1 /\ m \in Nat /\ DOMAIN t = 1..(m + 1)
  OBVIOUS
<1>2. \A b \in 1..(m + 1) : t[b] = IF b <= m THEN s[b] ELSE x
  OBVIOUS
<1>3. t = [b \in 1..(m + 1) |-> t[b]]
  <2> HIDE DEF t
  <2>1. t \in [1..(m + 1) -> S]
    BY <1>1
  <2> QED
    BY <2>1
<1> HIDE DEF t
<1> QED
  BY <1>2, <1>3 DEF t

\* The leaf of an operator takes its right operand in the context that the
\* left one leads to, whether the left one was a Step or a Wrap.
LEMMA WrapApplies ==
    ASSUME NEW sel, IsSelector(sel), NEW i \in DOMAIN sel, sel[i].op # "step",
           NEW traverse, traverse = Traversals(sel), NEW p \in Places,
           NEW q, q = traverse[sel[i].left][p]
    PROVE  traverse[i][p] =
              InContext([dag |-> q.dag, ctx |-> Within(sel[i].op, q.node, p.node)],
                        traverse[sel[i].right])
<1> DEFINE leaf == Leaves(sel)
           l == sel[i].left
           op == sel[i].op
           before == leaf[l].branches
           first == IF IsStep(leaf[l]) THEN l ELSE leaf[l].right
           added == [op |-> op, first |-> first]
           start == StartAt(p.dag, p.node)
           calls == WrapCalls(traverse, leaf[l], p.node)
           call == Branch(op, traverse[first], p.node)
<1>1. /\ p.dag \in AnyDag /\ p.node \in Nat /\ start \in Visits
      /\ \A j \in DOMAIN sel : traverse[j] \in Moves(Places)
  BY StartTyped, TraversalsAre DEF Places
<1>2. /\ op \in Operators /\ l \in DOMAIN sel /\ l < i /\ leaf[i] = LeafValue(sel, i, leaf)
      /\ leaf[l] \in AnyLeaf(sel) /\ sel[i].right \in DOMAIN sel
  BY LeafIs, LeavesAre
<1>3. ~IsStep(leaf[i])
  BY <1>2, LeafTyped
<1>4. leaf[i].branches = Append(before, added) /\ leaf[i].right = sel[i].right
  BY <1>2 DEF LeafValue, Applied
<1>5. ~IsStep(leaf[l]) => HoldsBelow(leaf[l], sel, l)
  BY <1>2, WrapsHold
<1>6. /\ before \in Seq(BranchesOf(sel)) /\ calls \in Seq(Moves(Visits)) /\ first \in DOMAIN sel
      /\ InContext(Through(start, calls), traverse[first]) = q
  <2>1. CASE IsStep(leaf[l])
    <3>1. before = <<>> /\ first = l
      BY <2>1 DEF IsStep
    <3>2. calls = <<>>
      BY <3>1 DEF WrapCalls
    <3>3. Through(start, calls) = start
      BY <3>2, ThroughNone
    <3>4. [dag |-> p.dag, node |-> p.node] = p
      BY DEF Places
    <3>5. InContext(start, traverse[l]) = q
      BY <3>4 DEF InContext, StartAt, Within
    <3>6. before \in Seq(BranchesOf(sel)) /\ calls \in Seq(Moves(Visits))
      BY <3>1, <3>2
    <3> QED
      BY <1>2, <3>1, <3>3, <3>5, <3>6
  <2>2. CASE ~IsStep(leaf[l])
    <3>1. HoldsBelow(leaf[l], sel, l) /\ first = leaf[l].right
      BY <1>5, <2>2
    <3>2. calls \in Seq(Moves(Visits))
      BY <1>1, <3>1, WrapCallsTyped
    <3>3. traverse[l] = TraverseValue(leaf, l, traverse)
      BY <1>2, TraversalsAre
    <3> HIDE DEF leaf
    <3>4. q = ThroughWrap(traverse, leaf[l], p)
      BY <2>2, <3>3 DEF TraverseValue
    <3>5. q = InContext(Through(start, calls), traverse[leaf[l].right])
      BY <3>4 DEF ThroughWrap, WrapCalls
    <3> QED
      BY <3>1, <3>2, <3>5 DEF HoldsBelow
  <2> QED
    BY <2>1, <2>2
<1> HIDE DEF before, first, call, start
<1>7. call \in Moves(Visits)
  BY <1>1, <1>2, <1>6, BranchTyped DEF call
<1>8. WrapCalls(traverse, leaf[i], p.node) = Append(calls, call)
  <2> DEFINE m == Len(before)
             branches == Append(before, added)
  <2>1. /\ m \in Nat /\ DOMAIN before = 1..m /\ DOMAIN branches = 1..(m + 1)
        /\ branches[m + 1] = added /\ \A b \in 1..m : branches[b] = before[b]
    BY <1>6
  <2>2. added.op = op /\ added.first = first
    OBVIOUS
  <2> DEFINE made(x) == Branch(x.op, traverse[x.first], p.node)
  <2>3. calls = [b \in 1..m |-> made(before[b])]
    BY <2>1 DEF WrapCalls, before
  <2>4. WrapCalls(traverse, leaf[i], p.node) = [b \in 1..(m + 1) |-> made(branches[b])]
    BY <1>4, <2>1 DEF WrapCalls
  <2>5. made(added) = call
    BY <2>2 DEF call
  <2> HIDE DEF branches, made, calls, added
  <2>6. Len(calls) = m
    BY <1>6, <2>1, <2>3
  <2>7. Append(calls, call) = [b \in 1..(m + 1) |-> IF b <= m THEN calls[b] ELSE call]
    BY <1>6, <1>7, <2>6, AppendIs
  <2>8. ASSUME NEW b \in 1..(m + 1)
        PROVE  made(branches[b]) = IF b <= m THEN calls[b] ELSE call
    <3>1. CASE b <= m
      <4>1. b \in 1..m
        BY <2>1, <3>1
      <4> QED
        BY <2>1, <2>3, <3>1, <4>1
    <3>2. CASE ~(b <= m)
      <4>1. b = m + 1
        BY <2>1, <3>2
      <4> QED
        BY <2>1, <2>5, <3>2, <4>1
    <3> QED
      BY <3>1, <3>2
  <2> QED
    BY <2>4, <2>7, <2>8
<1> HIDE DEF calls
<1>9. Through(start, Append(calls, call)) = call[Through(start, calls)]
  BY <1>1, <1>6, <1>7, ThroughAppend
<1>10. Through(start, calls) \in Visits
  BY <1>1, <1>6, ThroughTyped
<1>11. call[Through(start, calls)] = [dag |-> q.dag, ctx |-> Within(op, q.node, p.node)]
  BY <1>6, <1>10 DEF call, Branch
<1>12. traverse[i] = TraverseValue(leaf, i, traverse)
  BY TraversalsAre
<1> HIDE DEF leaf
<1>13. traverse[i][p] = ThroughWrap(traverse, leaf[i], p)
  BY <1>3, <1>12 DEF TraverseValue
<1>14. traverse[i][p] = InContext(Through(start, WrapCalls(traverse, leaf[i], p.node)),
                                  traverse[leaf[i].right])
  BY <1>13 DEF ThroughWrap, WrapCalls, start
<1> QED
  BY <1>4, <1>8, <1>9, <1>11, <1>14

----------------------------------------------------------------------------
(* Where what selectors make leads, in whatever DAG comes of it.           *)

Larger(d) == {e \in AnyDag : Good(e) /\ PartOf(d, e)}

LEMMA LargerIs ==
    ASSUME NEW d, Good(d)
    PROVE  /\ d \in Larger(d)
           /\ \A e \in Larger(d) : /\ Good(e) /\ NodesOf(d) \subseteq NodesOf(e)
                                   /\ Larger(e) \subseteq Larger(d)
<1>1. d \in Larger(d)
  BY DEF Larger, Good, WellFormed, PartOf
<1>2. ASSUME NEW e \in Larger(d)
      PROVE  Good(e) /\ NodesOf(d) \subseteq NodesOf(e) /\ Larger(e) \subseteq Larger(d)
  <2>1. /\ Good(e) /\ PartOf(d, e) /\ d.size \in Nat /\ e.size \in Nat /\ d.size <= e.size
    BY DEF Larger, Good, WellFormed, PartOf
  <2>2. NodesOf(d) \subseteq NodesOf(e)
    BY <2>1 DEF NodesOf
  <2>3. ASSUME NEW f \in Larger(e)
        PROVE  f \in Larger(d)
    <3>1. Good(f) /\ f \in AnyDag /\ PartOf(e, f) /\ f.size \in Nat
      BY DEF Larger, Good, WellFormed
    <3>2. PartOf(d, f)
      BY <2>1, <3>1 DEF PartOf
    <3> QED
      BY <3>1, <3>2 DEF Larger
  <2> QED
    BY <2>1, <2>2, <2>3
<1> QED
  BY <1>1, <1>2

LEMMA MadeIsLarger ==
    ASSUME NEW d, Good(d), NEW e \in Larger(d), NEW f, Good(f), PartOf(e, f)
    PROVE  f \in Larger(d) /\ f \in Larger(e)
<1>1. f \in Larger(e)
  BY DEF Larger, Good
<1> QED
  BY <1>1, LargerIs

LEMMA JoinsStill ==
    ASSUME NEW d, NEW e \in Larger(d), NEW kind, NEW f, NEW s, NEW n, Joins(d, kind, f, s, n)
    PROVE  Joins(e, kind, f, s, n)
BY DEF Larger, PartOf, Joins

LEMMA ActiveTyped ==
    ASSUME NEW d, NEW ks \in Seq(Keys), NEW n
    PROVE  ActiveAt(d, ks, n) \in SUBSET (0..Len(ks))
<1>1. DOMAIN ks \subseteq 0..Len(ks) /\ 0 \in 0..Len(ks)
  OBVIOUS
<1> QED
  BY <1>1 DEF ActiveAt

\* A place made from d, at a node whose settings do not apply everywhere.
MadeFrom(d, q) == /\ Good(q.dag) /\ q.dag \in Larger(d)
                  /\ q.node \in NodesOf(q.dag) /\ q.node # Root

(***************************************************************************)
(* From place p, g leads to a node that it leads to again in every larger  *)
(* DAG, and that is active there where tables, one for each context, say.  *)
(***************************************************************************)
FoundAgain(g, p) ==
    \A e \in Larger(g[p].dag) :
        g[[dag |-> e, node |-> p.node]] = [dag |-> e, node |-> g[p].node]

ActiveAsSaid(g, p, tables) ==
    \A ks \in Chains : \A e \in Larger(g[p].dag) :
        ActiveAt(e, ks, g[p].node) = Reached(tables[ks], ActiveAt(e, ks, p.node))

Leads(g, p, tables) == MadeFrom(p.dag, g[p]) /\ FoundAgain(g, p) /\ ActiveAsSaid(g, p, tables)

Means(g, tables) ==
    \A p \in Places : Good(p.dag) /\ p.node \in NodesOf(p.dag) => Leads(g, p, tables)

\* What a context makes of a leaf.
ContextSteps(op, here, base, table) ==
    IF op = "descendant" THEN Reached(table, here)
    ELSE IF op = "and" THEN Both(here, Reached(table, base))
    ELSE here \cup Reached(table, base)

SameInContext(at, g) ==
    LET q == InContext(at, g)
    IN  \A e \in Larger(q.dag) :
            InContext([dag |-> e, ctx |-> at.ctx], g) = [dag |-> e, node |-> q.node]

ActiveInContext(at, g, tables) ==
    LET q == InContext(at, g)
    IN  \A ks \in Chains : \A e \in Larger(q.dag) :
            ActiveAt(e, ks, q.node) =
                ContextSteps(at.ctx.op, ActiveAt(e, ks, at.ctx.node),
                             ActiveAt(e, ks, at.ctx.base), tables[ks])

\* A context whose nodes there are.
Placeable(at) ==
    /\ at \in Visits /\ Good(at.dag)
    /\ at.ctx.node \in NodesOf(at.dag) /\ at.ctx.base \in NodesOf(at.dag)
    /\ at.ctx.op # "descendant" => at.ctx.node # Root

LEMMA InContextLeads ==
    ASSUME NEW g \in Moves(Places), NEW tables, Means(g, tables), NEW at, Placeable(at)
    PROVE  /\ MadeFrom(at.dag, InContext(at, g))
           /\ SameInContext(at, g) /\ ActiveInContext(at, g, tables)
<1> DEFINE ctx == at.ctx
           from == IF ctx.op = "descendant" THEN ctx.node ELSE ctx.base
           p == [dag |-> at.dag, node |-> from]
           second == g[p]
           q == InContext(at, g)
<1>1. /\ at.dag \in AnyDag /\ Good(at.dag) /\ from \in NodesOf(at.dag) /\ from \in Nat
      /\ ctx.node \in NodesOf(at.dag) /\ ctx.op \in Operators
  BY DEF Placeable, Visits
<1>2. p \in Places /\ p.dag = at.dag /\ p.node = from
  BY <1>1 DEF Places
<1> HIDE DEF p, from
<1>3. MadeFrom(at.dag, second) /\ FoundAgain(g, p) /\ ActiveAsSaid(g, p, tables)
  BY <1>1, <1>2 DEF Means, Leads
<1>4. second \in Places
  BY <1>2 DEF Moves
<1>5. CASE ctx.op = "descendant"
  <2>1. q = second /\ from = ctx.node
    BY <1>5 DEF InContext, p, from
  <2>2. ASSUME NEW e \in Larger(q.dag)
        PROVE  InContext([dag |-> e, ctx |-> at.ctx], g) = [dag |-> e, node |-> q.node]
    <3>1. InContext([dag |-> e, ctx |-> at.ctx], g) = g[[dag |-> e, node |-> ctx.node]]
      BY <1>5 DEF InContext
    <3>2. g[[dag |-> e, node |-> from]] = [dag |-> e, node |-> second.node]
      BY <1>2, <1>3, <2>1 DEF FoundAgain
    <3> QED
      BY <2>1, <3>1, <3>2
  <2>3. ASSUME NEW ks \in Chains, NEW e \in Larger(q.dag)
        PROVE  ActiveAt(e, ks, q.node) = Reached(tables[ks], ActiveAt(e, ks, ctx.node))
    BY <1>2, <1>3, <2>1 DEF ActiveAsSaid
  <2>4. \A here, base, table : ContextSteps(ctx.op, here, base, table) = Reached(table, here)
    BY <1>5 DEF ContextSteps
  <2> QED
    BY <1>3, <2>1, <2>2, <2>3, <2>4 DEF SameInContext, ActiveInContext
<1>6. CASE ctx.op # "descendant"
  <2> DEFINE d == second.dag
             f == ctx.node
             s == second.node
  <2>1. /\ q = [dag |-> WithJoin(d, ctx.op, f, s), node |-> JoinNode(d, ctx.op, f, s)]
        /\ from = ctx.base
    BY <1>6 DEF InContext, p, from
  <2>2. ctx.op \in Kinds /\ f # Root
    BY <1>1, <1>6 DEF Operators, Kinds, Placeable
  <2>3. Good(d) /\ d \in Larger(at.dag) /\ f \in NodesOf(d) /\ s \in NodesOf(d) /\ s # Root
    BY <1>1, <1>3, LargerIs DEF MadeFrom
  <2> DEFINE made == WithJoin(d, ctx.op, f, s)
             n == JoinNode(d, ctx.op, f, s)
  <2>4. Good(made) /\ PartOf(d, made) /\ n \in NodesOf(made) /\ n # Root /\ Joins(made, ctx.op, f, s, n)
    BY <2>2, <2>3, JoinMade
  <2>5. q.dag = made /\ q.node = n
    BY <2>1
  <2> HIDE DEF made, n, q
  <2>6. made \in Larger(at.dag) /\ made \in Larger(d)
    BY <1>1, <2>3, <2>4, MadeIsLarger
  <2>7. ASSUME NEW e \in Larger(made)
        PROVE  Good(e) /\ e \in Larger(d) /\ Joins(e, ctx.op, f, s, n)
    BY <2>3, <2>4, <2>6, <2>7, LargerIs, JoinsStill
  <2>8. ASSUME NEW e \in Larger(made)
        PROVE  InContext([dag |-> e, ctx |-> at.ctx], g) = [dag |-> e, node |-> n]
    <3> DEFINE other == g[[dag |-> e, node |-> ctx.base]]
    <3>1. InContext([dag |-> e, ctx |-> at.ctx], g) =
             [dag |-> WithJoin(other.dag, ctx.op, f, other.node),
              node |-> JoinNode(other.dag, ctx.op, f, other.node)]
      BY <1>6 DEF InContext
    <3>2. other = [dag |-> e, node |-> s]
      BY <1>2, <1>3, <2>1, <2>7 DEF FoundAgain
    <3>3. other.dag = e /\ other.node = s
      BY <3>2
    <3>4. WithJoin(e, ctx.op, f, s) = e /\ JoinNode(e, ctx.op, f, s) = n
      BY <2>7, JoinFound
    <3> QED
      BY <3>1, <3>3, <3>4
  <2>9. ASSUME NEW ks \in Chains, NEW e \in Larger(made)
        PROVE  ActiveAt(e, ks, n) =
                  ContextSteps(ctx.op, ActiveAt(e, ks, f), ActiveAt(e, ks, ctx.base), tables[ks])
    <3>1. ActiveAt(e, ks, n) = IF ctx.op = "and" THEN Both(ActiveAt(e, ks, f), ActiveAt(e, ks, s))
                               ELSE ActiveAt(e, ks, f) \cup ActiveAt(e, ks, s)
      BY <2>2, <2>3, <2>7, JoinActive
    <3>2. ActiveAt(e, ks, s) = Reached(tables[ks], ActiveAt(e, ks, ctx.base))
      BY <1>2, <1>3, <2>1, <2>7 DEF ActiveAsSaid
    <3> QED
      BY <1>6, <3>1, <3>2 DEF ContextSteps
  <2>10. MadeFrom(at.dag, q)
    BY <2>4, <2>5, <2>6 DEF MadeFrom
  <2> QED
    BY <2>5, <2>8, <2>9, <2>10 DEF SameInContext, ActiveInContext, q
<1> QED
  BY <1>5, <1>6

----------------------------------------------------------------------------
(* A leaf leads where its selector says.                                   *)

\* What an operator makes of the tables of its operands.
Combines(op, l, r, both, ks) ==
    \A i \in 0..Len(ks) :
        both[i] = IF op = "descendant" THEN Reached(r, l[i])
                  ELSE IF op = "and" THEN Both(l[i], r[i]) ELSE l[i] \cup r[i]

\* Operators see a set of steps as they see each of its steps.
LEMMA OperatorsReach ==
    ASSUME NEW ks \in Seq(Keys), NEW from \in SUBSET (0..Len(ks)),
           NEW l \in Tables(ks), NEW r \in Tables(ks), NEW both \in Tables(ks),
           Falling(l, ks), Falling(r, ks), Falling(both, ks), NEW op \in Operators,
           Combines(op, l, r, both, ks)
    PROVE  ContextSteps(op, Reached(l, from), from, r) = Reached(both, from)
<1> DEFINE T == 0..Len(ks)
<1>1. \A i \in from : i \in T
  OBVIOUS
<1>2. CASE op = "descendant"
  <2>1. \A i \in from : both[i] = Reached(r, l[i])
    BY <1>1, <1>2 DEF Combines
  <2>2. Reached(both, from) = Reached(r, Reached(l, from))
    BY <2>1 DEF Reached
  <2> QED
    BY <1>2, <2>2 DEF ContextSteps
<1>3. CASE op = "and"
  <2>1. \A i \in from : both[i] = Both(l[i], r[i])
    BY <1>1, <1>3 DEF Combines
  <2>2. CASE from = {}
    BY <1>3, <2>2 DEF ContextSteps, Reached, Both
  <2>3. CASE from # {}
    <3>1. from \subseteq Nat
      OBVIOUS
    <3>2. PICK i \in from : \A j \in from : i <= j
      BY <2>3, <3>1, LeastElement
    <3>3. Reached(l, from) = l[i] /\ Reached(r, from) = r[i] /\ Reached(both, from) = both[i]
      BY <3>2, FirstCounts
    <3> QED
      BY <1>3, <2>1, <3>3 DEF ContextSteps
  <2> QED
    BY <2>2, <2>3
<1>4. CASE op = "or"
  <2>1. \A i \in from : both[i] = l[i] \cup r[i]
    BY <1>1, <1>4 DEF Combines
  <2>2. Reached(both, from) = Reached(l, from) \cup Reached(r, from)
    BY <2>1 DEF Reached
  <2> QED
    BY <1>4, <2>2 DEF ContextSteps
<1> QED
  BY <1>2, <1>3, <1>4 DEF Operators

\* The tables that the README has of call i of a selector.
TablesOf(sel, i) == [ks \in Chains |-> LeafSteps(sel, ks)[i]]

\* A Step leads to the child for its key.
LEMMA StepMeans ==
    ASSUME NEW sel, IsSelector(sel), NEW i \in DOMAIN sel, sel[i].op = "step",
           NEW p \in Places, Good(p.dag), p.node \in NodesOf(p.dag)
    PROVE  Leads(Traversals(sel)[i], p, TablesOf(sel, i))
<1> DEFINE g == Traversals(sel)[i]
           k == sel[i].key
           leaf == Leaves(sel)
           d == WithChild(p.dag, p.node, k)
           c == ChildNode(p.dag, p.node, k)
<1>1. k \in Keys /\ k # EmptyKey
  BY LeafIs
<1>2. leaf[i] = StepLeaf(k) /\ IsStep(leaf[i]) /\ leaf[i].right = k
  BY LeavesAre DEF LeafValue, StepLeaf, IsStep
<1>3. g = TraverseValue(leaf, i, Traversals(sel))
  BY TraversalsAre
<1> HIDE DEF leaf, g, k
<1>4. \A x \in Places : g[x] = [dag |-> WithChild(x.dag, x.node, k),
                                node |-> ChildNode(x.dag, x.node, k)]
  BY <1>2, <1>3 DEF TraverseValue
<1>5. g[p].dag = d /\ g[p].node = c
  <2>1. g[p] = [dag |-> d, node |-> c]
    BY <1>4
  <2> HIDE DEF d, c
  <2> QED
    BY <2>1
<1>6. /\ Good(d) /\ PartOf(p.dag, d) /\ c \in NodesOf(d) /\ c # Root
      /\ \E x \in d.edges : x.parent = p.node /\ x.key = k /\ x.child = c
  BY <1>1, ChildMade
<1>7. PICK x \in d.edges : x.parent = p.node /\ x.key = k /\ x.child = c
  BY <1>6
<1> HIDE DEF d, c
<1>8. MadeFrom(p.dag, g[p])
  BY <1>5, <1>6 DEF MadeFrom, Larger, Good
<1>9. ASSUME NEW e \in Larger(d)
      PROVE  e \in AnyDag /\ Good(e) /\ x \in e.edges
  BY <1>7 DEF Larger, PartOf
<1>10. FoundAgain(g, p)
  <2> SUFFICES ASSUME NEW e \in Larger(d)
               PROVE  g[[dag |-> e, node |-> p.node]] = [dag |-> e, node |-> c]
    BY <1>5 DEF FoundAgain
  <2>1. [dag |-> e, node |-> p.node] \in Places
    BY <1>9 DEF Places
  <2>2. WithChild(e, p.node, k) = e /\ ChildNode(e, p.node, k) = c
    BY <1>7, <1>9, ChildFound
  <2> QED
    BY <1>4, <2>1, <2>2
<1>11. ActiveAsSaid(g, p, TablesOf(sel, i))
  <2> SUFFICES ASSUME NEW ks \in Chains, NEW e \in Larger(d)
               PROVE  ActiveAt(e, ks, c) = Reached(TablesOf(sel, i)[ks], ActiveAt(e, ks, p.node))
    BY <1>5 DEF ActiveAsSaid
  <2> DEFINE table == LeafSteps(sel, ks)[i]
             from == ActiveAt(e, ks, p.node)
  <2>1. ks \in Seq(Keys) /\ TablesOf(sel, i)[ks] = table
    BY SelectorAssumption DEF TablesOf
  <2>2. table = StepsValue(sel, ks, i, LeafSteps(sel, ks))
    BY <2>1, StepsAre
  <2>3. \A j \in 0..Len(ks) : table[j] = {q \in (j + 1)..Len(ks) : Matches(k, ks[q])}
    BY <2>2, StepsAfterIs DEF StepsValue, k
  <2>4. from \in SUBSET (0..Len(ks))
    BY <2>1, ActiveTyped
  <2>5. ActiveAt(e, ks, c) = UNION {{q \in (j + 1)..Len(ks) : Matches(k, ks[q])} : j \in from}
    BY <1>7, <1>9, ChildActive
  <2> HIDE DEF from, table
  <2>6. Reached(table, from) = UNION {{q \in (j + 1)..Len(ks) : Matches(k, ks[q])} : j \in from}
    BY <2>3, <2>4 DEF Reached
  <2> QED
    BY <2>1, <2>5, <2>6 DEF from
<1> QED
  BY <1>8, <1>10, <1>11 DEF Leads, g

\* An operator leads where it and its operands say.
LEMMA OperatorMeans ==
    ASSUME NEW sel, IsSelector(sel), NEW i \in DOMAIN sel, sel[i].op # "step",
           NEW traverse, traverse = Traversals(sel),
           Means(traverse[sel[i].left], TablesOf(sel, sel[i].left)),
           Means(traverse[sel[i].right], TablesOf(sel, sel[i].right)),
           NEW p \in Places, Good(p.dag), p.node \in NodesOf(p.dag)
    PROVE  Leads(traverse[i], p, TablesOf(sel, i))
<1> DEFINE op == sel[i].op
           g == traverse[sel[i].left]
           h == traverse[sel[i].right]
           first == g[p]
           at == [dag |-> first.dag, ctx |-> Within(op, first.node, p.node)]
           q == InContext(at, h)
<1>1. /\ op \in Operators /\ sel[i].left \in DOMAIN sel /\ sel[i].right \in DOMAIN sel
      /\ g \in Moves(Places) /\ h \in Moves(Places)
      /\ p.dag \in AnyDag /\ p.node \in Nat
  BY LeafIs, TraversalsAre DEF Places
<1>2. MadeFrom(p.dag, first) /\ FoundAgain(g, p) /\ ActiveAsSaid(g, p, TablesOf(sel, sel[i].left))
  BY DEF Means, Leads
<1>3. first.dag \in AnyDag /\ first.node \in Nat
  BY <1>1 DEF Moves, Places
<1>4. /\ Good(first.dag) /\ first.dag \in Larger(p.dag) /\ first.node \in NodesOf(first.dag)
      /\ first.node # Root /\ p.node \in NodesOf(first.dag)
  BY <1>2, LargerIs DEF MadeFrom
<1> HIDE DEF op, g, h, first
<1>5. /\ at.dag = first.dag /\ at.ctx = Within(op, first.node, p.node)
      /\ at.ctx.op = op /\ at.ctx.node = first.node /\ at.ctx.base = p.node /\ Placeable(at)
  BY <1>1, <1>3, <1>4 DEF Placeable, Visits, Within
<1> HIDE DEF at
<1>6. /\ MadeFrom(at.dag, q) /\ SameInContext(at, h)
      /\ ActiveInContext(at, h, TablesOf(sel, sel[i].right))
  BY <1>1, <1>5, InContextLeads DEF h
<1>7. ASSUME NEW x \in Places
      PROVE  traverse[i][x] = InContext([dag |-> g[x].dag, ctx |-> Within(op, g[x].node, x.node)], h)
  BY WrapApplies DEF op, g, h
<1>8. traverse[i][p] = q
  BY <1>7 DEF first, at
<1> HIDE DEF q
<1>9. q.dag \in Larger(first.dag) /\ q.dag \in Larger(p.dag) /\ Larger(q.dag) \subseteq Larger(first.dag)
  BY <1>4, <1>5, <1>6, LargerIs DEF MadeFrom
<1>10. MadeFrom(p.dag, q)
  BY <1>6, <1>9 DEF MadeFrom
<1>11. FoundAgain(traverse[i], p)
  <2> SUFFICES ASSUME NEW e \in Larger(q.dag)
               PROVE  traverse[i][[dag |-> e, node |-> p.node]] = [dag |-> e, node |-> q.node]
    BY <1>8 DEF FoundAgain
  <2> DEFINE x == [dag |-> e, node |-> p.node]
  <2>1. x \in Places /\ x.node = p.node
    BY <1>1 DEF Larger, Places
  <2>2. g[x] = [dag |-> e, node |-> first.node]
    BY <1>2, <1>9 DEF FoundAgain, first
  <2> HIDE DEF x
  <2>3. traverse[i][x] = InContext([dag |-> e, ctx |-> at.ctx], h)
    BY <1>5, <1>7, <2>1, <2>2
  <2> QED
    BY <1>6, <2>3 DEF SameInContext, x, q
<1>12. ActiveAsSaid(traverse[i], p, TablesOf(sel, i))
  <2> SUFFICES ASSUME NEW ks \in Chains, NEW e \in Larger(q.dag)
               PROVE  ActiveAt(e, ks, q.node) = Reached(TablesOf(sel, i)[ks], ActiveAt(e, ks, p.node))
    BY <1>8 DEF ActiveAsSaid
  <2> DEFINE steps == LeafSteps(sel, ks)
             from == ActiveAt(e, ks, p.node)
             l == steps[sel[i].left]
             r == steps[sel[i].right]
             both == steps[i]
  <2>1. ks \in Seq(Keys) /\ \A n \in DOMAIN sel : TablesOf(sel, n)[ks] = steps[n]
    BY SelectorAssumption DEF TablesOf
  <2>2. l \in Tables(ks) /\ r \in Tables(ks) /\ both \in Tables(ks)
    BY <1>1, <2>1, StepsAre
  <2>3. Falling(l, ks) /\ Falling(r, ks) /\ Falling(both, ks)
    BY <1>1, <2>1, StepsFall
  <2>4. both = StepsValue(sel, ks, i, steps)
    BY <2>1, StepsAre
  <2> HIDE DEF steps
  <2>5. Combines(op, l, r, both, ks)
    <3> SUFFICES ASSUME NEW j \in 0..Len(ks)
                 PROVE  both[j] = IF op = "descendant" THEN Reached(r, l[j])
                                  ELSE IF op = "and" THEN Both(l[j], r[j]) ELSE l[j] \cup r[j]
      BY DEF Combines
    <3>1. both[j] = StepsAfter(j, sel[i], steps, ks)
      BY <2>4 DEF StepsValue
    <3>2. CASE op = "and"
      BY <3>1, <3>2, StepsAfterIs DEF op
    <3>3. CASE op = "or"
      BY <3>1, <3>3, StepsAfterIs DEF op
    <3>4. CASE op = "descendant"
      BY <3>1, <3>4, StepsAfterIs DEF op
    <3> QED
      BY <1>1, <3>2, <3>3, <3>4 DEF Operators
  <2>6. from \in SUBSET (0..Len(ks))
    BY <2>1, ActiveTyped
  <2> HIDE DEF l, r, both, from
  <2>7. ContextSteps(op, Reached(l, from), from, r) = Reached(both, from)
    BY <1>1, <2>1, <2>2, <2>3, <2>5, <2>6, OperatorsReach
  <2>8. ActiveAt(e, ks, first.node) = Reached(l, from)
    BY <1>1, <1>2, <1>9, <2>1 DEF ActiveAsSaid, first, from, l
  <2>9. ActiveAt(e, ks, q.node) = ContextSteps(op, Reached(l, from), from, r)
    BY <1>1, <1>5, <1>6, <2>1, <2>8 DEF ActiveInContext, q, from, r
  <2> QED
    BY <2>1, <2>7, <2>9 DEF both, from
<1> QED
  BY <1>8, <1>10, <1>11, <1>12 DEF Leads

LEMMA SelectorMeans ==
    ASSUME NEW sel, IsSelector(sel), NEW i \in DOMAIN sel
    PROVE  Traversals(sel)[i] \in Moves(Places) /\ Means(Traversals(sel)[i], TablesOf(sel, i))
<1> DEFINE traverse == Traversals(sel)
           S == {n \in Nat : n \in DOMAIN sel => Means(traverse[n], TablesOf(sel, n))}
<1>1. ASSUME NEW n \in Nat, \A m \in Nat : m < n => m \in S
      PROVE  n \in S
  <2> SUFFICES ASSUME n \in DOMAIN sel, NEW p \in Places, Good(p.dag), p.node \in NodesOf(p.dag)
               PROVE  Leads(traverse[n], p, TablesOf(sel, n))
    BY DEF Means
  <2> HIDE DEF traverse
  <2>1. CASE sel[n].op = "step"
    BY <2>1, StepMeans DEF traverse
  <2>2. CASE sel[n].op # "step"
    <3> DEFINE l == sel[n].left
               r == sel[n].right
    <3>1. /\ l \in DOMAIN sel /\ l < n /\ l \in Nat /\ r \in DOMAIN sel /\ r < n /\ r \in Nat
      BY <2>2, LeafIs
    <3>2. l \in S /\ r \in S
      BY <1>1, <3>1
    <3>3. Means(traverse[l], TablesOf(sel, l)) /\ Means(traverse[r], TablesOf(sel, r))
      BY <3>1, <3>2
    <3> QED
      BY <2>2, <3>3, OperatorMeans DEF traverse
  <2> QED
    BY <2>1, <2>2
<1>2. Nat \subseteq S
  <2> HIDE DEF S
  <2> QED
    BY <1>1, StrongInduction
<1> QED
  BY <1>2, LeafIs, TraversalsAre

----------------------------------------------------------------------------
(* A rule ends where its blocks say.                                       *)

BlockCalls(rule) == [b \in DOMAIN rule |-> Nested(rule[b])]

BlockOp(block) == IF block.trailing THEN "descendant" ELSE "and"

Traverse(block) == Traversals(block.selector)[Len(block.selector)]

LEMMA OneOfSeq ==
    ASSUME NEW S, NEW s \in Seq(S), NEW i \in 1..Len(s)
    PROVE  s[i] \in S
OBVIOUS

LEMMA RuleIs ==
    ASSUME NEW rule, IsRule(rule)
    PROVE  /\ Len(rule) \in Nat \ {0} /\ DOMAIN rule = 1..Len(rule)
           /\ \A b \in 1..Len(rule) :
                 /\ IsSelector(rule[b].selector) /\ rule[b].trailing \in BOOLEAN
                 /\ Len(rule[b].selector) \in DOMAIN rule[b].selector
                 /\ Traverse(rule[b]) \in Moves(Places)
                 /\ Means(Traverse(rule[b]),
                          TablesOf(rule[b].selector, Len(rule[b].selector)))
<1>1. /\ rule \in Seq([selector : Seq(LeafCalls), trailing : BOOLEAN]) /\ rule # <<>>
      /\ Len(rule) \in Nat \ {0} /\ DOMAIN rule = 1..Len(rule)
  BY DEF IsRule
<1>2. ASSUME NEW b \in 1..Len(rule)
      PROVE  /\ IsSelector(rule[b].selector) /\ rule[b].trailing \in BOOLEAN
             /\ Len(rule[b].selector) \in DOMAIN rule[b].selector
  <2>1. rule[b] \in [selector : Seq(LeafCalls), trailing : BOOLEAN]
    BY <1>1, OneOfSeq
  <2>2. IsSelector(rule[b].selector)
    BY <1>1 DEF IsRule
  <2>3. rule[b].selector \in Seq(LeafCalls) /\ rule[b].selector # <<>>
    BY <2>2 DEF IsSelector
  <2>4. Len(rule[b].selector) \in DOMAIN rule[b].selector
    BY <2>3
  <2> QED
    BY <2>1, <2>2, <2>4
<1> QED
  BY <1>1, <1>2, SelectorMeans DEF Traverse

LEMMA BlockCallsAre ==
    ASSUME NEW rule, IsRule(rule)
    PROVE  /\ BlockCalls(rule) \in Seq(Moves(Visits)) /\ Len(BlockCalls(rule)) = Len(rule)
           /\ \A b \in 1..Len(rule) : \A at \in Visits :
                 BlockCalls(rule)[b][at] =
                    [dag |-> InContext(at, Traverse(rule[b])).dag,
                     ctx |-> Within(BlockOp(rule[b]), InContext(at, Traverse(rule[b])).node, Root)]
<1> DEFINE m == Len(rule)
           calls == BlockCalls(rule)
<1>1. m \in Nat /\ DOMAIN rule = 1..m
  BY RuleIs
<1>2. ASSUME NEW b \in 1..m
      PROVE  calls[b] = Branch(BlockOp(rule[b]), Traverse(rule[b]), Root)
  BY <1>1 DEF BlockCalls, Nested, BlockOp, Traverse
<1>3. ASSUME NEW b \in 1..m
      PROVE  calls[b] \in Moves(Visits)
  <2>1. BlockOp(rule[b]) \in Operators /\ Root \in Nat /\ Traverse(rule[b]) \in Moves(Places)
    BY RuleIs DEF BlockOp, Operators, Root
  <2> QED
    BY <1>2, <2>1, BranchTyped
<1>4. DOMAIN calls = 1..m /\ calls = [b \in 1..m |-> calls[b]]
  BY <1>1 DEF BlockCalls
<1> HIDE DEF calls
<1>5. calls \in [1..m -> Moves(Visits)]
  BY <1>3, <1>4
<1>6. calls \in Seq(Moves(Visits)) /\ Len(calls) = m
  BY <1>1, <1>5
<1>7. \A b \in 1..m : \A at \in Visits :
         calls[b][at] = [dag |-> InContext(at, Traverse(rule[b])).dag,
                         ctx |-> Within(BlockOp(rule[b]), InContext(at, Traverse(rule[b])).node, Root)]
  BY <1>2 DEF Branch
<1> QED
  BY <1>6, <1>7 DEF calls

\* What the README says of the blocks so far.
SaidSoFar(ks) == [steps : SUBSET (0..Len(ks)), trailing : BOOLEAN]

StepCalls(rule, ks) == [b \in DOMAIN rule |-> BlockSteps(rule[b], ks)]

TableOf(block, ks) == LeafSteps(block.selector, ks)[Len(block.selector)]

LEMMA StepCallsAre ==
    ASSUME NEW rule, IsRule(rule), NEW ks \in Seq(Keys)
    PROVE  /\ StepCalls(rule, ks) \in Seq(Moves(SaidSoFar(ks)))
           /\ Len(StepCalls(rule, ks)) = Len(rule)
           /\ \A b \in 1..Len(rule) : \A s \in SaidSoFar(ks) :
                 /\ StepCalls(rule, ks)[b][s].trailing = rule[b].trailing
                 /\ StepCalls(rule, ks)[b][s].steps =
                       ContextSteps(IF s.trailing THEN "descendant" ELSE "and",
                                    s.steps, {0}, TableOf(rule[b], ks))
<1> DEFINE m == Len(rule)
           calls == StepCalls(rule, ks)
           T == 0..Len(ks)
           made(b, s) == IF s.trailing THEN UNION {TableOf(rule[b], ks)[i] : i \in s.steps}
                         ELSE Both(s.steps, TableOf(rule[b], ks)[0])
<1>1. m \in Nat /\ DOMAIN rule = 1..m
  BY RuleIs
<1>2. \A b \in 1..m :
         calls[b] = [s \in SaidSoFar(ks) |->
                       [steps |-> IF s.trailing
                                  THEN UNION {TableOf(rule[b], ks)[i] : i \in s.steps}
                                  ELSE Both(s.steps, TableOf(rule[b], ks)[0]),
                        trailing |-> rule[b].trailing]]
  BY <1>1 DEF StepCalls, BlockSteps, SelectorSteps, TableOf, SaidSoFar
<1>3. \A b \in 1..m : calls[b] = [s \in SaidSoFar(ks) |->
                                    [steps |-> made(b, s), trailing |-> rule[b].trailing]]
  BY <1>2
<1>4. ASSUME NEW b \in 1..m, NEW s \in SaidSoFar(ks)
      PROVE  /\ made(b, s) = ContextSteps(IF s.trailing THEN "descendant" ELSE "and",
                                          s.steps, {0}, TableOf(rule[b], ks))
             /\ made(b, s) \in SUBSET T
  <2> DEFINE table == TableOf(rule[b], ks)
  <2>1. table \in Tables(ks)
    BY RuleIs, StepsAre DEF TableOf
  <2>2. \A i \in T : table[i] \in SUBSET T
    BY <2>1 DEF Tables
  <2>3. s.steps \in SUBSET T /\ 0 \in T
    BY DEF SaidSoFar
  <2> HIDE DEF table, T
  <2>4. Reached(table, {0}) = table[0]
    BY DEF Reached
  <2>5. CASE s.trailing
    <3>1. made(b, s) = Reached(table, s.steps)
      BY <2>5 DEF Reached, table
    <3>2. Reached(table, s.steps) \in SUBSET T
      BY <2>2, <2>3 DEF Reached
    <3> QED
      BY <2>5, <3>1, <3>2 DEF ContextSteps, table
  <2>6. CASE ~s.trailing
    <3>1. made(b, s) = Both(s.steps, table[0])
      BY <2>6 DEF table
    <3>2. Both(s.steps, table[0]) \in SUBSET T
      BY <2>2, <2>3 DEF Both
    <3> QED
      BY <2>4, <2>6, <3>1, <3>2 DEF ContextSteps, table
  <2> QED
    BY <2>5, <2>6
<1> HIDE DEF made
<1>5. ASSUME NEW b \in 1..m
      PROVE  calls[b] \in Moves(SaidSoFar(ks))
  <2>1. rule[b].trailing \in BOOLEAN
    BY RuleIs
  <2> HIDE DEF calls
  <2>2. \A s \in SaidSoFar(ks) : [steps |-> made(b, s), trailing |-> rule[b].trailing] \in SaidSoFar(ks)
    BY <1>4, <2>1 DEF SaidSoFar
  <2> QED
    BY <1>3, <2>2 DEF Moves
<1>6. DOMAIN calls = 1..m /\ calls = [b \in 1..m |-> calls[b]]
  BY <1>1 DEF StepCalls
<1> HIDE DEF calls
<1>7. calls \in [1..m -> Moves(SaidSoFar(ks))]
  BY <1>5, <1>6
<1>8. calls \in Seq(Moves(SaidSoFar(ks))) /\ Len(calls) = m
  BY <1>1, <1>7
<1>9. ASSUME NEW b \in 1..m, NEW s \in SaidSoFar(ks)
      PROVE  calls[b][s].trailing = rule[b].trailing /\ calls[b][s].steps = made(b, s)
  <2>1. calls[b][s] = [steps |-> made(b, s), trailing |-> rule[b].trailing]
    BY <1>3
  <2> QED
    BY <2>1
<1> QED
  BY <1>4, <1>8, <1>9 DEF calls

\* The places and the steps after each block, from the root of d.
VisitsOf(d, rule) == AfterIn(StartAt(d, Root), BlockCalls(rule))

SaidOf(rule, ks) == AfterIn([steps |-> {0}, trailing |-> TRUE], StepCalls(rule, ks))

LEMMA VisitsAre ==
    ASSUME NEW rule, IsRule(rule), NEW d \in AnyDag
    PROVE  /\ Follows(VisitsOf(d, rule), Visits, StartAt(d, Root), BlockCalls(rule))
           /\ Placed(d, rule) = [dag |-> VisitsOf(d, rule)[Len(rule)].dag,
                                 node |-> VisitsOf(d, rule)[Len(rule)].ctx.node]
<1>1. StartAt(d, Root) \in Visits
  BY StartTyped DEF Root
<1>2. BlockCalls(rule) \in Seq(Moves(Visits)) /\ Len(BlockCalls(rule)) = Len(rule)
  BY BlockCallsAre
<1>3. Follows(VisitsOf(d, rule), Visits, StartAt(d, Root), BlockCalls(rule))
  BY <1>1, <1>2, AfterEach DEF VisitsOf
<1>4. Through(StartAt(d, Root), BlockCalls(rule)) = VisitsOf(d, rule)[Len(rule)]
  BY <1>2, ThroughIsAfter DEF VisitsOf
<1>5. Placed(d, rule) = [dag |-> Through(StartAt(d, Root), BlockCalls(rule)).dag,
                         node |-> Through(StartAt(d, Root), BlockCalls(rule)).ctx.node]
  BY DEF Placed, BlockCalls
<1> QED
  BY <1>3, <1>4, <1>5

LEMMA SaidAre ==
    ASSUME NEW rule, IsRule(rule), NEW ks \in Seq(Keys)
    PROVE  /\ Follows(SaidOf(rule, ks), SaidSoFar(ks), [steps |-> {0}, trailing |-> TRUE],
                      StepCalls(rule, ks))
           /\ RuleSteps(rule, ks) = SaidOf(rule, ks)[Len(rule)].steps
<1> DEFINE start == [steps |-> {0}, trailing |-> TRUE]
<1>1. start \in SaidSoFar(ks)
  BY DEF SaidSoFar
<1> HIDE DEF start
<1>2. StepCalls(rule, ks) \in Seq(Moves(SaidSoFar(ks))) /\ Len(StepCalls(rule, ks)) = Len(rule)
  BY StepCallsAre
<1>3. Follows(AfterIn(start, StepCalls(rule, ks)), SaidSoFar(ks), start, StepCalls(rule, ks))
  BY <1>1, <1>2, AfterEach
<1>4. Through(start, StepCalls(rule, ks)) = AfterIn(start, StepCalls(rule, ks))[Len(rule)]
  BY <1>2, ThroughIsAfter
<1>5. RuleSteps(rule, ks) = Through(start, StepCalls(rule, ks)).steps
  BY DEF RuleSteps, StepCalls, start
<1> QED
  BY <1>3, <1>4, <1>5 DEF SaidOf, start

\* After n blocks: where they lead, that they lead there again, and that
\* this is active where the README says.
AtBlock(d, rule, n) ==
    LET at == VisitsOf(d, rule)[n]
    IN  /\ Placeable(at) /\ at.dag \in Larger(d) /\ at.ctx.base = Root
        /\ at.ctx.op = IF n = 0 THEN "descendant" ELSE BlockOp(rule[n])
        /\ n # 0 => at.ctx.node # Root

AgainAtBlock(d, rule, n) ==
    LET at == VisitsOf(d, rule)[n]
    IN  \A e \in Larger(at.dag) : VisitsOf(e, rule)[n] = [dag |-> e, ctx |-> at.ctx]

SaidAtBlock(d, rule, n) ==
    LET at == VisitsOf(d, rule)[n]
    IN  \A ks \in Chains :
            /\ SaidOf(rule, ks)[n].trailing <=> at.ctx.op = "descendant"
            /\ \A e \in Larger(at.dag) :
                  ActiveAt(e, ks, at.ctx.node) = SaidOf(rule, ks)[n].steps

LEMMA FirstBlock ==
    ASSUME NEW d, Good(d), NEW rule, IsRule(rule)
    PROVE  AtBlock(d, rule, 0) /\ AgainAtBlock(d, rule, 0) /\ SaidAtBlock(d, rule, 0)
<1> DEFINE at == VisitsOf(d, rule)[0]
<1>1. \A e \in AnyDag : VisitsOf(e, rule)[0] = [dag |-> e, ctx |-> Within("descendant", Root, Root)]
  BY VisitsAre DEF Follows, StartAt
<1>2. d \in AnyDag /\ d.size \in Nat \ {0}
  BY DEF Good, WellFormed
<1>3. at = [dag |-> d, ctx |-> Within("descendant", Root, Root)]
  BY <1>1, <1>2
<1>4. /\ at.dag = d /\ at.ctx = Within("descendant", Root, Root)
      /\ at.ctx.op = "descendant" /\ at.ctx.node = Root /\ at.ctx.base = Root
  BY <1>3 DEF Within
<1>5. Root \in NodesOf(d) /\ Root \in Nat
  BY <1>2 DEF Root, NodesOf
<1>6. at \in Visits
  BY <1>2, <1>3, <1>5 DEF Visits, Within, Operators
<1> HIDE DEF at
<1>7. AtBlock(d, rule, 0)
  BY <1>4, <1>5, <1>6, LargerIs DEF AtBlock, Placeable, at
<1>8. AgainAtBlock(d, rule, 0)
  BY <1>1, <1>4 DEF AgainAtBlock, Larger, at
<1>9. ASSUME NEW ks \in Chains
      PROVE  SaidOf(rule, ks)[0] = [steps |-> {0}, trailing |-> TRUE]
  <2>1. ks \in Seq(Keys)
    BY SelectorAssumption
  <2> QED
    BY <2>1, SaidAre DEF Follows
<1>10. \A ks, e : ActiveAt(e, ks, Root) = {0}
  BY DEF ActiveAt
<1>11. SaidAtBlock(d, rule, 0)
  BY <1>4, <1>9, <1>10 DEF SaidAtBlock, at
<1> QED
  BY <1>7, <1>8, <1>11

LEMMA NextBlock ==
    ASSUME NEW d, Good(d), NEW rule, IsRule(rule), NEW n \in Nat, n + 1 \in 1..Len(rule),
           AtBlock(d, rule, n), AgainAtBlock(d, rule, n), SaidAtBlock(d, rule, n)
    PROVE  AtBlock(d, rule, n + 1) /\ AgainAtBlock(d, rule, n + 1) /\ SaidAtBlock(d, rule, n + 1)
<1> DEFINE at == VisitsOf(d, rule)[n]
           g == Traverse(rule[n + 1])
           op == BlockOp(rule[n + 1])
           q == InContext(at, g)
           next == VisitsOf(d, rule)[n + 1]
           tables == TablesOf(rule[n + 1].selector, Len(rule[n + 1].selector))
<1>1. /\ g \in Moves(Places) /\ Means(g, tables) /\ rule[n + 1].trailing \in BOOLEAN
      /\ Len(rule[n + 1].selector) \in DOMAIN rule[n + 1].selector
      /\ Len(rule) \in Nat
  BY RuleIs
<1>2. /\ Placeable(at) /\ at.dag \in Larger(d) /\ at.ctx.base = Root
      /\ at \in Visits /\ at.dag \in AnyDag /\ Good(at.dag)
      /\ at.ctx.op = IF n = 0 THEN "descendant" ELSE BlockOp(rule[n])
  BY DEF AtBlock, Placeable, Larger
<1>3. /\ MadeFrom(at.dag, q) /\ SameInContext(at, g) /\ ActiveInContext(at, g, tables)
  BY <1>1, <1>2, InContextLeads
<1>4. ASSUME NEW e \in AnyDag
      PROVE  /\ VisitsOf(e, rule)[n] \in Visits
             /\ VisitsOf(e, rule)[n + 1] =
                   [dag |-> InContext(VisitsOf(e, rule)[n], g).dag,
                    ctx |-> Within(op, InContext(VisitsOf(e, rule)[n], g).node, Root)]
  <2>1. Follows(VisitsOf(e, rule), Visits, StartAt(e, Root), BlockCalls(rule))
    BY VisitsAre
  <2>2. Len(BlockCalls(rule)) = Len(rule) /\ n \in 0..Len(rule) /\ (n + 1) - 1 = n
    BY <1>1, BlockCallsAre
  <2>3. /\ VisitsOf(e, rule)[n] \in Visits
        /\ VisitsOf(e, rule)[n + 1] = BlockCalls(rule)[n + 1][VisitsOf(e, rule)[n]]
    BY <2>1, <2>2 DEF Follows
  <2> QED
    BY <2>3, BlockCallsAre
<1>5. d \in AnyDag
  BY DEF Good
<1>6. next = [dag |-> q.dag, ctx |-> Within(op, q.node, Root)]
  BY <1>4, <1>5
<1> HIDE DEF op, q, g, at, next
<1>7. /\ next.dag = q.dag /\ next.ctx = Within(op, q.node, Root)
      /\ next.ctx.op = op /\ next.ctx.node = q.node /\ next.ctx.base = Root
  BY <1>6 DEF Within
<1>8. op \in {"descendant", "and"} /\ (op = "descendant" <=> rule[n + 1].trailing)
  BY <1>1 DEF op, BlockOp
<1>9. /\ Good(q.dag) /\ q.dag \in Larger(at.dag) /\ q.dag \in AnyDag
      /\ q.node \in NodesOf(q.dag) /\ q.node # Root
      /\ q.dag \in Larger(d) /\ Larger(q.dag) \subseteq Larger(at.dag)
  BY <1>2, <1>3, LargerIs DEF MadeFrom, q, Larger
<1>10. q.node \in Nat /\ Root \in Nat /\ Root \in NodesOf(q.dag)
  BY <1>9 DEF NodesOf, Root, Good, WellFormed
<1>11. next \in Visits
  BY <1>6, <1>8, <1>9, <1>10 DEF Visits, Within, Operators
<1>12. n + 1 # 0
  OBVIOUS
<1>13. AtBlock(d, rule, n + 1)
  BY <1>7, <1>9, <1>10, <1>11, <1>12 DEF AtBlock, Placeable, next, op
<1>14. AgainAtBlock(d, rule, n + 1)
  <2> SUFFICES ASSUME NEW e \in Larger(q.dag)
               PROVE  VisitsOf(e, rule)[n + 1] = [dag |-> e, ctx |-> next.ctx]
    BY <1>7 DEF AgainAtBlock, next
  <2>1. VisitsOf(e, rule)[n] = [dag |-> e, ctx |-> at.ctx]
    BY <1>9 DEF AgainAtBlock, at
  <2>2. InContext([dag |-> e, ctx |-> at.ctx], g) = [dag |-> e, node |-> q.node]
    BY <1>3 DEF SameInContext, q
  <2>3. e \in AnyDag
    BY DEF Larger
  <2>4. VisitsOf(e, rule)[n + 1] = [dag |-> e, ctx |-> Within(op, q.node, Root)]
    <3> DEFINE x == [dag |-> e, node |-> q.node]
    <3>1. x.dag = e /\ x.node = q.node
      OBVIOUS
    <3> HIDE DEF x
    <3>2. InContext(VisitsOf(e, rule)[n], g) = x
      BY <2>1, <2>2 DEF x
    <3> QED
      BY <1>4, <2>3, <3>1, <3>2
  <2> QED
    BY <1>7, <2>4
<1>15. SaidAtBlock(d, rule, n + 1)
  <2> SUFFICES ASSUME NEW ks \in Chains
               PROVE  /\ SaidOf(rule, ks)[n + 1].trailing <=> op = "descendant"
                      /\ \A e \in Larger(q.dag) :
                            ActiveAt(e, ks, q.node) = SaidOf(rule, ks)[n + 1].steps
    BY <1>7 DEF SaidAtBlock, next
  <2> DEFINE s == SaidOf(rule, ks)[n]
             table == TableOf(rule[n + 1], ks)
             here == IF s.trailing THEN "descendant" ELSE "and"
  <2>1. ks \in Seq(Keys) /\ tables[ks] = table
    BY SelectorAssumption DEF TablesOf, TableOf
  <2>2. /\ s \in SaidSoFar(ks)
        /\ SaidOf(rule, ks)[n + 1].trailing = rule[n + 1].trailing
        /\ SaidOf(rule, ks)[n + 1].steps = ContextSteps(here, s.steps, {0}, table)
    <3>1. /\ Follows(SaidOf(rule, ks), SaidSoFar(ks), [steps |-> {0}, trailing |-> TRUE],
                     StepCalls(rule, ks))
      BY <2>1, SaidAre
    <3>2. Len(StepCalls(rule, ks)) = Len(rule) /\ n \in 0..Len(rule) /\ (n + 1) - 1 = n
      BY <1>1, <2>1, StepCallsAre
    <3>3. s \in SaidSoFar(ks) /\ SaidOf(rule, ks)[n + 1] = StepCalls(rule, ks)[n + 1][s]
      BY <3>1, <3>2 DEF Follows
    <3> QED
      BY <2>1, <3>3, StepCallsAre
  <2>3. (s.trailing <=> at.ctx.op = "descendant")
        /\ \A e \in Larger(at.dag) : ActiveAt(e, ks, at.ctx.node) = s.steps
    BY DEF SaidAtBlock, at
  <2>4. at.ctx.op \in {"descendant", "and"}
    BY <1>2 DEF BlockOp
  <2>5. here = at.ctx.op
    BY <2>3, <2>4
  <2> HIDE DEF s, table, here, tables
  <2>6. ASSUME NEW e \in Larger(q.dag)
        PROVE  ActiveAt(e, ks, q.node) = ContextSteps(here, s.steps, {0}, table)
    <3>1. ActiveAt(e, ks, at.ctx.node) = s.steps /\ ActiveAt(e, ks, at.ctx.base) = {0}
      BY <1>2, <1>9, <2>3 DEF ActiveAt
    <3>2. ActiveAt(e, ks, q.node) =
             ContextSteps(at.ctx.op, ActiveAt(e, ks, at.ctx.node),
                          ActiveAt(e, ks, at.ctx.base), tables[ks])
      BY <1>3 DEF ActiveInContext, q
    <3> QED
      BY <2>1, <2>5, <3>1, <3>2
  <2> QED
    BY <1>8, <2>2, <2>6
<1> QED
  BY <1>13, <1>14, <1>15

\* A rule ends at a node that it ends at again, active where it says.
EndsAt(d, rule, q) ==
    /\ MadeFrom(d, q)
    /\ \A e \in Larger(q.dag) : Placed(e, rule) = [dag |-> e, node |-> q.node]
    /\ \A ks \in Chains : \A e \in Larger(q.dag) :
          ActiveAt(e, ks, q.node) = RuleSteps(rule, ks)

LEMMA RuleMeans ==
    ASSUME NEW d, Good(d), NEW rule, IsRule(rule)
    PROVE  EndsAt(d, rule, Placed(d, rule))
<1> DEFINE m == Len(rule)
           P(n) == AtBlock(d, rule, n) /\ AgainAtBlock(d, rule, n) /\ SaidAtBlock(d, rule, n)
           S == {n \in Nat : n <= m => P(n)}
           at == VisitsOf(d, rule)[m]
           q == Placed(d, rule)
<1>1. m \in Nat \ {0}
  BY RuleIs
<1>2. 0 \in S
  BY FirstBlock
<1>3. ASSUME NEW n \in Nat, n \in S
      PROVE  n + 1 \in S
  <2> SUFFICES ASSUME n + 1 <= m PROVE P(n + 1)
    OBVIOUS
  <2>1. n + 1 \in 1..m /\ n <= m
    BY <1>1
  <2>2. P(n)
    BY <1>3, <2>1
  <2> HIDE DEF m
  <2> QED
    BY <2>1, <2>2, NextBlock DEF m
<1>4. Nat \subseteq S
  <2> HIDE DEF S
  <2> QED
    BY <1>2, <1>3, SimpleInduction
<1>5. P(m)
  BY <1>1, <1>4
<1>6. d \in AnyDag
  BY DEF Good
<1>7. q = [dag |-> at.dag, node |-> at.ctx.node]
  BY <1>6, VisitsAre
<1> HIDE DEF at, q, m
<1>8. q.dag = at.dag /\ q.node = at.ctx.node
  BY <1>7
<1>9. MadeFrom(d, q)
  BY <1>1, <1>5, <1>8 DEF AtBlock, Placeable, MadeFrom, at
<1>10. ASSUME NEW e \in Larger(q.dag)
       PROVE  Placed(e, rule) = [dag |-> e, node |-> q.node]
  <2>1. VisitsOf(e, rule)[m] = [dag |-> e, ctx |-> at.ctx]
    BY <1>5, <1>8 DEF AgainAtBlock, at
  <2>2. VisitsOf(e, rule)[m].dag = e /\ VisitsOf(e, rule)[m].ctx = at.ctx
    BY <2>1
  <2>3. e \in AnyDag
    BY DEF Larger
  <2>4. Placed(e, rule) = [dag |-> VisitsOf(e, rule)[m].dag, node |-> VisitsOf(e, rule)[m].ctx.node]
    BY <2>3, VisitsAre DEF m
  <2> QED
    BY <1>8, <2>2, <2>4
<1>11. ASSUME NEW ks \in Chains, NEW e \in Larger(q.dag)
       PROVE  ActiveAt(e, ks, q.node) = RuleSteps(rule, ks)
  <2>1. ActiveAt(e, ks, q.node) = SaidOf(rule, ks)[m].steps
    BY <1>5, <1>8 DEF SaidAtBlock, at
  <2>2. ks \in Seq(Keys)
    BY SelectorAssumption
  <2>3. RuleSteps(rule, ks) = SaidOf(rule, ks)[m].steps
    BY <2>2, SaidAre DEF m
  <2> QED
    BY <2>1, <2>3
<1> QED
  BY <1>9, <1>10, <1>11 DEF EndsAt, q

----------------------------------------------------------------------------
(***************************************************************************)
(* The inductive invariant: the DAG is one that selectors make, and every  *)
(* rule loaded ends at its node, in the DAG and in every larger one.  The  *)
(* larger ones are what make it inductive: a load changes the DAG under    *)
(* all the rules loaded before it, and what it does to theirs is only      *)
(* known if they were right about every DAG that could come.               *)
(***************************************************************************)
At(d, node) == [dag |-> d, node |-> node]

Inv ==
    /\ Good(dag) /\ loaded \in Seq([rule : FirstRules \cup MoreRules, node : Nat])
    /\ \A i \in DOMAIN loaded : EndsAt(dag, loaded[i].rule, At(dag, loaded[i].node))

\* A rule that ends at a node still does when the DAG has grown.
LEMMA EndsStill ==
    ASSUME NEW d, NEW rule, NEW q, EndsAt(d, rule, q), NEW e \in Larger(q.dag)
    PROVE  EndsAt(e, rule, At(e, q.node))
<1> DEFINE p == At(e, q.node)
<1>1. p.dag = e /\ p.node = q.node
  BY DEF At
<1> HIDE DEF p
<1>2. Good(q.dag) /\ q.node \in NodesOf(q.dag) /\ q.node # Root
  BY DEF EndsAt, MadeFrom
<1>3. Good(e) /\ e \in Larger(e) /\ q.node \in NodesOf(e) /\ Larger(e) \subseteq Larger(q.dag)
  BY <1>2, LargerIs
<1>4. MadeFrom(e, p)
  BY <1>1, <1>2, <1>3 DEF MadeFrom
<1> QED
  BY <1>1, <1>3, <1>4 DEF EndsAt, p

LEMMA InitInv ==
    ASSUME Init
    PROVE  Inv
<1>1. Good(dag)
  BY EmptyIsGood DEF Init
<1>2. loaded = <<>>
  BY DEF Init
<1> QED
  BY <1>1, <1>2 DEF Inv

LEMMA LoadInv ==
    ASSUME Inv, NEW rule \in FirstRules \cup MoreRules, Load(rule)
    PROVE  Inv'
<1> DEFINE q == Placed(dag, rule)
           added == [rule |-> rule, node |-> q.node]
           m == Len(loaded)
           R == [rule : FirstRules \cup MoreRules, node : Nat]
<1>1. /\ Good(dag) /\ loaded \in Seq(R)
      /\ \A i \in DOMAIN loaded : EndsAt(dag, loaded[i].rule, At(dag, loaded[i].node))
  BY DEF Inv
<1>2. EndsAt(dag, rule, q)
  BY <1>1, SelectorAssumption, RuleMeans
<1>3. dag' = q.dag /\ loaded' = Append(loaded, added)
  BY DEF Load
<1>4. Good(q.dag) /\ q.dag \in Larger(dag) /\ q.node \in NodesOf(q.dag) /\ q.node \in Nat
  BY <1>2 DEF EndsAt, MadeFrom, NodesOf
<1>5. q.dag \in Larger(q.dag)
  BY <1>4, LargerIs
<1>6. added \in R /\ added.rule = rule /\ added.node = q.node
  BY <1>4
<1> HIDE DEF q, added, R
<1>7. loaded' \in Seq(R)
  BY <1>1, <1>3, <1>6
<1>8. /\ m \in Nat /\ DOMAIN loaded = 1..m /\ DOMAIN loaded' = 1..(m + 1)
      /\ loaded'[m + 1] = added /\ \A i \in 1..m : loaded'[i] = loaded[i]
  BY <1>1, <1>3, <1>6
<1>9. ASSUME NEW i \in DOMAIN loaded'
      PROVE  EndsAt(dag', loaded'[i].rule, At(dag', loaded'[i].node))
  <2>1. CASE i = m + 1
    <3>1. EndsAt(q.dag, rule, At(q.dag, q.node))
      BY <1>2, <1>5, EndsStill
    <3> QED
      BY <1>3, <1>6, <1>8, <2>1, <3>1
  <2>2. CASE i # m + 1
    <3>1. i \in DOMAIN loaded /\ loaded'[i] = loaded[i]
      BY <1>8, <2>2
    <3> DEFINE p == At(dag, loaded[i].node)
    <3>2. p.dag = dag /\ p.node = loaded[i].node
      BY DEF At
    <3> HIDE DEF p
    <3>3. EndsAt(dag, loaded[i].rule, p) /\ q.dag \in Larger(p.dag)
      BY <1>1, <1>4, <3>1, <3>2 DEF p
    <3>4. EndsAt(q.dag, loaded[i].rule, At(q.dag, loaded[i].node))
      BY <3>2, <3>3, EndsStill
    <3> QED
      BY <1>3, <3>1, <3>4
  <2> QED
    BY <2>1, <2>2
<1> QED
  BY <1>3, <1>4, <1>7, <1>9 DEF Inv, R

LEMMA NextInv ==
    ASSUME Inv, [Next]_vars
    PROVE  Inv'
<1>1. CASE Next
  BY <1>1, LoadInv DEF Next
<1>2. CASE UNCHANGED vars
  BY <1>2 DEF vars, Inv
<1> QED
  BY <1>1, <1>2

LEMMA InvMeans ==
    ASSUME Inv
    PROVE  ShapedForSearch /\ RulesAreShared /\ MeansWhatItSays
<1>1. Good(dag) /\ dag \in Larger(dag)
  BY LargerIs DEF Inv
<1>2. ASSUME NEW i \in DOMAIN loaded
      PROVE  /\ loaded[i].node \in NodesOf(dag) /\ loaded[i].node # Root
             /\ Placed(dag, loaded[i].rule) = [dag |-> dag, node |-> loaded[i].node]
             /\ \A ks \in Chains : ActiveAt(dag, ks, loaded[i].node) = RuleSteps(loaded[i].rule, ks)
  <2> DEFINE p == At(dag, loaded[i].node)
  <2>1. p.dag = dag /\ p.node = loaded[i].node
    BY DEF At
  <2> HIDE DEF p
  <2>2. EndsAt(dag, loaded[i].rule, p)
    BY DEF Inv, p
  <2> QED
    BY <1>1, <2>1, <2>2 DEF EndsAt, MadeFrom
<1>3. ShapedForSearch
  BY <1>1, <1>2 DEF ShapedForSearch, Good
<1>4. RulesAreShared
  BY <1>2 DEF RulesAreShared
<1>5. MeansWhatItSays
  BY <1>2 DEF MeansWhatItSays, ActiveAt, Throughout
<1> QED
  BY <1>3, <1>4, <1>5

(***************************************************************************)
(* Every rule that has been loaded ends at a node other than the root that *)
(* is active, in the DAG there is and in every larger one, where the       *)
(* README says, and to which loading the rule again leads                  *)
(* (SelectorBranch::addTo and all that it calls).                          *)
(***************************************************************************)
THEOREM RulesEndWhereTheySay == Spec => []Inv
<1>1. Init => Inv
  BY InitInv
<1>2. Inv /\ [Next]_vars => Inv'
  BY NextInv
<1> QED
  BY <1>1, <1>2, PTL DEF Spec

(***************************************************************************)
(* Whatever selectors, grouped and nested in whatever way, the settings of *)
(* a rule apply exactly where its selectors say, whatever is loaded before *)
(* and after it (parser/ast.cpp and parser/build_context.cpp against the   *)
(* README's words).                                                        *)
(***************************************************************************)
THEOREM MeansWhatItSaysAlways == Spec => []MeansWhatItSays
<1>1. Inv => MeansWhatItSays
  BY InvMeans
<1> QED
  BY <1>1, RulesEndWhereTheySay, PTL

(***************************************************************************)
(* What selectors build has the shape that the searches of contexts rely   *)
(* on (Node::addChild and the tallies of build_context.cpp), and no rule   *)
(* ends at the root.                                                       *)
(***************************************************************************)
THEOREM ShapedForSearchAlways == Spec => []ShapedForSearch
<1>1. Inv => ShapedForSearch
  BY InvMeans
<1> QED
  BY <1>1, RulesEndWhereTheySay, PTL

(***************************************************************************)
(* Loading a rule that has been loaded adds no node, whatever was loaded   *)
(* in between: children and tallies are shared (Node::addChild, and the    *)
(* intersection in TallyBuildContext::traverse).                           *)
(***************************************************************************)
THEOREM RulesAreSharedAlways == Spec => []RulesAreShared
<1>1. Inv => RulesAreShared
  BY InvMeans
<1> QED
  BY <1>1, RulesEndWhereTheySay, PTL
=============================================================================

--------------------------- MODULE RuleDagProofs ---------------------------
(***************************************************************************)
(* The shape of the rule DAG, for any names, values and bounds.            *)
(***************************************************************************)
EXTENDS RuleDag, TLAPS

\* The updates that the operations make keep the type of a DAG.
LEMMA RecordUpdated ==
    ASSUME TypeOK
    PROVE  /\ \A size \in Nat \ {0}, edges \in SUBSET Edges :
                 dag' = [dag EXCEPT !.size = size, !.edges = edges] => TypeOK'
           /\ \A size \in Nat \ {0}, tallies \in SUBSET Tallies,
                 registered \in SUBSET (Nat \X Nat) :
                 dag' = [dag EXCEPT !.size = size, !.tallies = tallies,
                                    !.registered = registered] => TypeOK'
           /\ \A props \in SUBSET Props, next \in Nat :
                 dag' = [dag EXCEPT !.props = props,
                                    !.nextProperty = next] => TypeOK'
           /\ \A constraints \in SUBSET Constraints :
                 dag' = [dag EXCEPT !.constraints = constraints] => TypeOK'
<1> DEFINE S1 == Nat \ {0}
           S2 == SUBSET Edges
           S3 == SUBSET Tallies
           S4 == SUBSET (Nat \X Nat)
           S5 == SUBSET Props
           S6 == SUBSET Constraints
           S7 == Nat
           T == [size : S1, edges : S2, tallies : S3, registered : S4,
                 props : S5, constraints : S6, nextProperty : S7]
<1>1. dag \in T /\ (dag' \in T => TypeOK')
  BY DEF TypeOK
<1> HIDE DEF S1, S2, S3, S4, S5, S6, S7
<1>2. \A size \in S1, edges \in S2 :
         [dag EXCEPT !.size = size, !.edges = edges] \in T
  BY <1>1
<1>3. \A size \in S1, tallies \in S3, registered \in S4 :
         [dag EXCEPT !.size = size, !.tallies = tallies,
                     !.registered = registered] \in T
  BY <1>1
<1>4. \A props \in S5, next \in S7 :
         [dag EXCEPT !.props = props, !.nextProperty = next] \in T
  BY <1>1
<1>5. \A constraints \in S6 :
         [dag EXCEPT !.constraints = constraints] \in T
  BY <1>1
<1> HIDE DEF T
<1>6. \A size \in Nat \ {0}, edges \in SUBSET Edges :
         dag' = [dag EXCEPT !.size = size, !.edges = edges] => TypeOK'
  BY <1>1, <1>2, Zenon DEF S1, S2
<1>7. \A size \in Nat \ {0}, tallies \in SUBSET Tallies,
         registered \in SUBSET (Nat \X Nat) :
         dag' = [dag EXCEPT !.size = size, !.tallies = tallies,
                            !.registered = registered] => TypeOK'
  <2> TAKE size \in Nat \ {0}, tallies \in SUBSET Tallies,
           registered \in SUBSET (Nat \X Nat)
  <2>1. size \in S1 /\ tallies \in S3 /\ registered \in S4
    BY DEF S1, S3, S4
  <2>2. [dag EXCEPT !.size = size, !.tallies = tallies,
                    !.registered = registered] \in T
    BY <1>3, <2>1, Zenon
  <2> QED
    BY <1>1, <2>2, Zenon
<1>8. \A props \in SUBSET Props, next \in Nat :
         dag' = [dag EXCEPT !.props = props,
                            !.nextProperty = next] => TypeOK'
  BY <1>1, <1>4, Zenon DEF S5, S7
<1>9. \A constraints \in SUBSET Constraints :
         dag' = [dag EXCEPT !.constraints = constraints] => TypeOK'
  BY <1>1, <1>5, Zenon DEF S6
<1> QED
  BY <1>6, <1>7, <1>8, <1>9, Zenon

\* What a new child changes.
LEMMA NewChild ==
    ASSUME TypeOK, NEW n, NEW k, EdgeFor(dag, n, k) = {},
           dag' = WithChild(dag, n, k)
    PROVE  /\ dag'.size = dag.size + 1
           /\ dag'.edges = dag.edges \cup
                 {[parent |-> n, key |-> k, child |-> dag.size + 1]}
           /\ dag'.tallies = dag.tallies
           /\ dag'.registered = dag.registered
           /\ dag'.props = dag.props
           /\ dag'.constraints = dag.constraints
           /\ dag'.nextProperty = dag.nextProperty
BY DEF TypeOK, WithChild

\* What a new tally changes.
LEMMA NewTally ==
    ASSUME TypeOK, NEW kind, NEW f, NEW s, f # s, Shared(dag, kind, f, s) = {},
           dag' = WithJoin(dag, kind, f, s)
    PROVE  /\ dag'.size = dag.size + 1
           /\ dag'.edges = dag.edges
           /\ dag'.tallies = dag.tallies \cup
                 {[kind |-> kind, first |-> f, second |-> s,
                   node |-> dag.size + 1]}
           /\ dag'.registered = dag.registered \cup
                 {<<f, dag.size + 1>>, <<s, dag.size + 1>>}
           /\ dag'.props = dag.props
           /\ dag'.constraints = dag.constraints
           /\ dag'.nextProperty = dag.nextProperty
BY DEF TypeOK, WithJoin

----------------------------------------------------------------------------
LEMMA InitInv == Init => IInv
BY DEF Init, EmptyDag, IInv, TypeOK, Acyclic, TallyUnique, SingleOwner,
       LegsRegistered, InRange, LegsDiffer, OneChildPerKey, PropsInRange,
       StepsSaySomething, NodesOf, Owners, Root

\* What does not touch nodes and pointers keeps the shape of the DAG.
LEMMA ShapeKept ==
    ASSUME IInv, dag'.size = dag.size, dag'.edges = dag.edges,
           dag'.tallies = dag.tallies, dag'.registered = dag.registered
    PROVE  /\ Acyclic' /\ TallyUnique' /\ SingleOwner' /\ LegsRegistered'
           /\ InRange' /\ LegsDiffer' /\ OneChildPerKey' /\ StepsSaySomething'
<1> USE DEF NodesOf
<1>1. Acyclic'
  BY DEF IInv, Acyclic
<1>2. TallyUnique' /\ LegsRegistered' /\ LegsDiffer'
  BY DEF IInv, TallyUnique, LegsRegistered, LegsDiffer
<1>3. InRange' /\ OneChildPerKey' /\ StepsSaySomething'
  BY DEF IInv, InRange, OneChildPerKey, StepsSaySomething
<1>4. SingleOwner'
  <2>1. \A m : Owners(m)' = Owners(m)
    BY DEF Owners
  <2> QED
    BY <2>1 DEF IInv, SingleOwner
<1> QED
  BY <1>1, <1>2, <1>3, <1>4

LEMMA StutterInv ==
    ASSUME IInv, dag' = dag
    PROVE  IInv'
<1>1. TypeOK' /\ PropsInRange'
  BY DEF IInv, TypeOK, PropsInRange
<1> QED
  BY <1>1, ShapeKept DEF IInv

\* A step of a selector either finds its child or adds one at the end.
LEMMA AddChildInv ==
    ASSUME IInv, NEW n \in NodesOf(dag), NEW k \in Keys \ {EmptyKey}, AddChild(n, k)
    PROVE  IInv'
<1> DEFINE e == [parent |-> n, key |-> k, child |-> dag.size + 1]
<1> USE DEF NodesOf
<1>1. CASE EdgeFor(dag, n, k) # {}
  <2>1. dag' = dag
    BY <1>1 DEF AddChild, WithChild
  <2> QED
    BY <2>1, StutterInv
<1>2. CASE EdgeFor(dag, n, k) = {}
  <2> TypeOK /\ dag.size \in Nat \ {0} /\ n \in 1..dag.size
    BY DEF IInv, TypeOK
  <2>1. /\ dag'.size = dag.size + 1
        /\ dag'.edges = dag.edges \cup {e}
        /\ dag'.tallies = dag.tallies
        /\ dag'.registered = dag.registered
        /\ dag'.props = dag.props
        /\ dag'.constraints = dag.constraints
        /\ dag'.nextProperty = dag.nextProperty
    BY <1>2, NewChild DEF AddChild
  <2>2. TypeOK'
    <3>1. e \in Edges
      BY DEF Edges
    <3>2. dag' = [dag EXCEPT !.size = dag.size + 1,
                             !.edges = dag.edges \cup {e}]
      BY <1>2 DEF AddChild, WithChild
    <3> HIDE DEF e
    <3>3. dag.size + 1 \in Nat \ {0} /\ dag.edges \cup {e} \in SUBSET Edges
      BY <3>1 DEF TypeOK
    <3> QED
      BY <3>2, <3>3, RecordUpdated
  <2>3. Acyclic'
    BY <2>1 DEF IInv, Acyclic, Root
  <2>4. TallyUnique' /\ LegsRegistered' /\ LegsDiffer' /\ PropsInRange'
    BY <2>1 DEF IInv, TallyUnique, LegsRegistered, LegsDiffer,
                PropsInRange
  <2>5. InRange' /\ StepsSaySomething'
    BY <2>1 DEF IInv, InRange, StepsSaySomething
  <2>6. OneChildPerKey'
    BY <1>2, <2>1 DEF IInv, OneChildPerKey, EdgeFor, EdgesFrom
  <2>7. SingleOwner'
    <3> SUFFICES ASSUME NEW m \in 1..(dag.size + 1)
                 PROVE  IF m = Root THEN Owners(m)' = {}
                        ELSE \E o \in Owners(m)' : Owners(m)' = {o}
      BY <2>1 DEF SingleOwner
    <3>1. CASE m = dag.size + 1
      <4>1. Owners(m)' = {e}
        BY <2>1, <3>1 DEF IInv, InRange, Owners
      <4>2. m # Root
        BY <3>1 DEF Root
      <4> QED
        BY <4>1, <4>2
    <3>2. CASE m # dag.size + 1
      <4>1. Owners(m)' = Owners(m) /\ m \in 1..dag.size
        BY <2>1, <3>2 DEF Owners
      <4> QED
        BY <4>1 DEF IInv, SingleOwner
    <3> QED
      BY <3>1, <3>2
  <2> QED
    BY <2>2, <2>3, <2>4, <2>5, <2>6, <2>7 DEF IInv
<1> QED
  BY <1>1, <1>2

\* A join either finds the tally of its two legs or adds one at the end.
LEMMA JoinInv ==
    ASSUME IInv, NEW kind \in Kinds, NEW f \in NodesOf(dag),
           NEW s \in NodesOf(dag), Join(kind, f, s)
    PROVE  IInv'
<1> DEFINE t == [kind |-> kind, first |-> f, second |-> s,
                 node |-> dag.size + 1]
<1> USE DEF NodesOf
<1>1. CASE f = s \/ Shared(dag, kind, f, s) # {}
  <2>1. dag' = dag
    BY <1>1 DEF Join, WithJoin
  <2> QED
    BY <2>1, StutterInv
<1>2. CASE f # s /\ Shared(dag, kind, f, s) = {}
  <2> /\ TypeOK /\ dag.size \in Nat \ {0}
      /\ f \in 1..dag.size /\ s \in 1..dag.size /\ f # Root /\ s # Root
    BY DEF IInv, TypeOK, Join
  <2>1. /\ dag'.size = dag.size + 1
        /\ dag'.edges = dag.edges
        /\ dag'.tallies = dag.tallies \cup {t}
        /\ dag'.registered = dag.registered \cup
              {<<f, dag.size + 1>>, <<s, dag.size + 1>>}
        /\ dag'.props = dag.props
        /\ dag'.constraints = dag.constraints
        /\ dag'.nextProperty = dag.nextProperty
    BY <1>2, NewTally DEF Join
  <2>2. TypeOK'
    <3> DEFINE both == {<<f, dag.size + 1>>, <<s, dag.size + 1>>}
    <3>1. t \in Tallies /\ both \subseteq Nat \X Nat
      BY DEF Tallies
    <3>2. dag' = [dag EXCEPT !.size = dag.size + 1,
                             !.tallies = dag.tallies \cup {t},
                             !.registered = dag.registered \cup both]
      BY <1>2 DEF Join, WithJoin
    <3> HIDE DEF t, both
    <3>3. /\ dag.size + 1 \in Nat \ {0}
          /\ dag.tallies \cup {t} \in SUBSET Tallies
          /\ dag.registered \cup both \in SUBSET (Nat \X Nat)
      BY <3>1 DEF TypeOK
    <3> QED
      BY <3>2, <3>3, RecordUpdated
  <2>3. Acyclic'
    BY <2>1 DEF IInv, Acyclic, Root
  <2>4. OneChildPerKey' /\ PropsInRange'
    BY <2>1 DEF IInv, OneChildPerKey, PropsInRange
  <2>5. InRange' /\ LegsDiffer' /\ StepsSaySomething'
    BY <1>2, <2>1 DEF IInv, InRange, LegsDiffer, StepsSaySomething
  <2>6. LegsRegistered'
    <3> t.first = f /\ t.second = s /\ t.node = dag.size + 1
      OBVIOUS
    <3> HIDE DEF t
    <3>1. /\ {<<u.first, u.node>> : u \in dag'.tallies} =
                {<<u.first, u.node>> : u \in dag.tallies} \cup {<<f, dag.size + 1>>}
          /\ {<<u.second, u.node>> : u \in dag'.tallies} =
                {<<u.second, u.node>> : u \in dag.tallies} \cup {<<s, dag.size + 1>>}
      BY <2>1
    <3> QED
      BY <2>1, <3>1 DEF IInv, LegsRegistered
  <2>7. TallyUnique'
    <3>1. ASSUME NEW u \in dag.tallies, u.kind = kind,
                 {u.first, u.second} = {f, s}
          PROVE  FALSE
      <4>1. <<f, u.node>> \in dag.registered /\ <<s, u.node>> \in dag.registered
        BY <3>1 DEF IInv, LegsRegistered
      <4> QED
        BY <1>2, <3>1, <4>1 DEF Shared, TalliesOf
    <3> t.kind = kind /\ t.first = f /\ t.second = s
      OBVIOUS
    <3> HIDE DEF t
    <3>2. ASSUME NEW u \in dag'.tallies, NEW v \in dag'.tallies,
                 u.kind = v.kind, {u.first, u.second} = {v.first, v.second}
          PROVE  u = v
      <4>1. CASE u \in dag.tallies /\ v \in dag.tallies
        BY <3>2, <4>1 DEF IInv, TallyUnique
      <4>2. CASE u = t
        BY <2>1, <3>1, <3>2, <4>2
      <4>3. CASE v = t
        BY <2>1, <3>1, <3>2, <4>3
      <4> QED
        BY <2>1, <4>1, <4>2, <4>3
    <3> QED
      BY <3>2 DEF TallyUnique
  <2>8. SingleOwner'
    <3> SUFFICES ASSUME NEW m \in 1..(dag.size + 1)
                 PROVE  IF m = Root THEN Owners(m)' = {}
                        ELSE \E o \in Owners(m)' : Owners(m)' = {o}
      BY <2>1 DEF SingleOwner
    <3>1. CASE m = dag.size + 1
      <4>1. Owners(m)' = {t}
        BY <2>1, <3>1 DEF IInv, InRange, Owners
      <4>2. m # Root
        BY <3>1 DEF Root
      <4> QED
        BY <4>1, <4>2
    <3>2. CASE m # dag.size + 1
      <4>1. Owners(m)' = Owners(m) /\ m \in 1..dag.size
        BY <2>1, <3>2 DEF Owners
      <4> QED
        BY <4>1 DEF IInv, SingleOwner
    <3> QED
      BY <3>1, <3>2
  <2> QED
    BY <2>2, <2>3, <2>4, <2>5, <2>6, <2>7, <2>8 DEF IInv
<1> QED
  BY <1>1, <1>2

\* A property gets the next number, and the shape stays as it is.
LEMMA AddPropertyInv ==
    ASSUME IInv, NEW n \in NodesOf(dag), NEW x \in PropNames,
           NEW override \in BOOLEAN, AddProperty(n, x, override)
    PROVE  IInv'
<1> USE DEF NodesOf
<1> DEFINE p == [node |-> n, name |-> x, override |-> override,
                 num |-> dag.nextProperty]
<1> /\ TypeOK /\ dag.nextProperty \in Nat /\ dag.size \in Nat
  BY DEF IInv, TypeOK
<1>1. dag' = [dag EXCEPT !.props = dag.props \cup {p},
                         !.nextProperty = dag.nextProperty + 1]
  BY DEF AddProperty, WithProperty
<1>2. /\ dag'.size = dag.size
      /\ dag'.edges = dag.edges
      /\ dag'.tallies = dag.tallies
      /\ dag'.registered = dag.registered
      /\ dag'.props = dag.props \cup {p}
      /\ dag'.nextProperty = dag.nextProperty + 1
  BY <1>1 DEF TypeOK
<1>3. TypeOK'
  <2>1. p \in Props
    BY DEF Props
  <2> HIDE DEF p
  <2>2. dag.props \cup {p} \in SUBSET Props /\ dag.nextProperty + 1 \in Nat
    BY <2>1 DEF TypeOK
  <2> QED
    BY <1>1, <2>2, RecordUpdated
<1>4. PropsInRange'
  <2>1. \A q \in dag.props : q.num \in Nat /\ q.num < dag.nextProperty /\ q.node \in NodesOf(dag)
    BY DEF IInv, TypeOK, Props, PropsInRange
  <2>2. p.num = dag.nextProperty /\ p.node \in NodesOf(dag)
    OBVIOUS
  <2> HIDE DEF p
  <2> QED
    BY <1>2, <2>1, <2>2 DEF PropsInRange
<1> QED
  BY <1>2, <1>3, <1>4, ShapeKept DEF IInv

\* A constraint touches nothing else.
LEMMA AddConstraintInv ==
    ASSUME IInv, NEW n \in NodesOf(dag), NEW k \in Keys, AddConstraint(n, k)
    PROVE  IInv'
<1> USE DEF NodesOf
<1> DEFINE c == [node |-> n, key |-> k]
<1> /\ TypeOK /\ dag.size \in Nat
  BY DEF IInv, TypeOK
<1>1. dag' = [dag EXCEPT !.constraints = dag.constraints \cup {c}]
  BY DEF AddConstraint, WithConstraint
<1>2. /\ dag'.size = dag.size
      /\ dag'.edges = dag.edges
      /\ dag'.tallies = dag.tallies
      /\ dag'.registered = dag.registered
      /\ dag'.props = dag.props
      /\ dag'.nextProperty = dag.nextProperty
  BY <1>1 DEF TypeOK
<1>3. TypeOK'
  <2>1. c \in Constraints
    BY DEF Constraints
  <2> HIDE DEF c
  <2>2. dag.constraints \cup {c} \in SUBSET Constraints
    BY <2>1 DEF TypeOK
  <2> QED
    BY <1>1, <2>2, RecordUpdated
<1>4. PropsInRange'
  BY <1>2 DEF IInv, PropsInRange
<1> QED
  BY <1>2, <1>3, <1>4, ShapeKept DEF IInv

\* Every rule loaded keeps the whole of the inductive invariant.
THEOREM Invariance == Spec => []IInv
<1>1. IInv /\ [Next]_dag => IInv'
  <2> SUFFICES ASSUME IInv, [Next]_dag PROVE IInv'
    OBVIOUS
  <2>1. ASSUME NEW n \in NodesOf(dag), NEW k \in Keys \ {EmptyKey}, AddChild(n, k)
        PROVE  IInv'
    BY <2>1, AddChildInv
  <2>2. ASSUME NEW n \in NodesOf(dag), NEW k \in Keys, AddConstraint(n, k)
        PROVE  IInv'
    BY <2>2, AddConstraintInv
  <2>3. ASSUME NEW f \in NodesOf(dag), NEW s \in NodesOf(dag),
               NEW kind \in Kinds, Join(kind, f, s)
        PROVE  IInv'
    BY <2>3, JoinInv
  <2>4. ASSUME NEW n \in NodesOf(dag), NEW x \in PropNames,
               NEW override \in BOOLEAN, AddProperty(n, x, override)
        PROVE  IInv'
    BY <2>4, AddPropertyInv
  <2> QED
    BY <2>1, <2>2, <2>3, <2>4, StutterInv DEF Next
<1> QED
  BY InitInv, <1>1, PTL DEF Spec

----------------------------------------------------------------------------
\* The search recurses along pointers that lead from older nodes to newer.
THEOREM AcyclicAlways == Spec => []Acyclic
<1>1. IInv => Acyclic
  BY DEF IInv
<1> QED
  BY Invariance, <1>1, PTL

\* Rules make only well-formed DAGs, which is what the search assumes of them.
THEOREM WellFormedAlways == Spec => [](WellFormed(dag) /\ Regular(dag))
<1>1. IInv => WellFormed(dag)
  BY DEF IInv, TypeOK, InRange, PropsInRange, WellFormed
<1>2. IInv => Regular(dag)
  <2> SUFFICES ASSUME IInv PROVE Regular(dag)
    OBVIOUS
  <2>1. /\ \A e \in dag.edges : Root <= e.parent /\ e.parent < e.child /\ e.key # EmptyKey
        /\ \A e \in dag.edges : e.child \in NodesOf(dag) /\ e.child # Root
    BY DEF IInv, Acyclic, StepsSaySomething, InRange, TypeOK, Edges, NodesOf, Root
  <2>2. /\ \A t \in dag.tallies : /\ Root < t.first /\ t.first < t.node
                                  /\ Root < t.second /\ t.second < t.node
        /\ \A t \in dag.tallies : t.node \in NodesOf(dag) /\ t.node # Root
    <3>1. ASSUME NEW t \in dag.tallies
          PROVE  <<t.first, t.node>> \in dag.registered /\ <<t.second, t.node>> \in dag.registered
      BY DEF IInv, LegsRegistered
    <3>2. ASSUME NEW t \in dag.tallies
          PROVE  /\ Root < t.first /\ t.first < t.node /\ Root < t.second /\ t.second < t.node
                 /\ t.node \in NodesOf(dag) /\ t.first \in Nat /\ t.node \in Nat
      <4>1. /\ Root < <<t.first, t.node>>[1] /\ <<t.first, t.node>>[1] < <<t.first, t.node>>[2]
            /\ Root < <<t.second, t.node>>[1] /\ <<t.second, t.node>>[1] < <<t.second, t.node>>[2]
        BY <3>1 DEF IInv, Acyclic
      <4>2. t.first \in Nat /\ t.node \in Nat
        BY DEF IInv, TypeOK, Tallies
      <4> QED
        BY <4>1, <4>2 DEF IInv, InRange
    <3> QED
      BY <3>2 DEF Root
  <2>3. \A n \in NodesOf(dag) \ {Root} : \A o, p \in Owners(n) : o = p
    BY DEF IInv, SingleOwner
  <2>4. ASSUME NEW e \in dag.edges, NEW t \in dag.tallies
        PROVE  e.child # t.node
    <3> SUFFICES ASSUME e.child = t.node PROVE FALSE
      OBVIOUS
    <3>1. e \in Owners(e.child) /\ t \in Owners(e.child)
      BY DEF Owners
    <3>2. e = t
      BY <2>1, <2>3, <3>1
    <3>3. e \in Edges /\ t \in Tallies
      BY DEF IInv, TypeOK
    <3>4. DOMAIN e = {"parent", "key", "child"} /\ DOMAIN t = {"kind", "first", "second", "node"}
      BY <3>3 DEF Edges, Tallies
    <3> QED
      BY <3>2, <3>4
  <2>5. \A n \in NodesOf(dag) \ {Root} : \/ \E e \in dag.edges : e.child = n
                                        \/ \E t \in dag.tallies : t.node = n
    BY DEF IInv, SingleOwner, Owners
  <2>6. \A e, f \in dag.edges : e.child = f.child => e = f
    BY <2>1, <2>3 DEF Owners
  <2>7. \A t, u \in dag.tallies : t.node = u.node => t = u
    BY <2>2, <2>3 DEF Owners
  <2> QED
    BY <2>1, <2>2, <2>4, <2>5, <2>6, <2>7 DEF Regular, IInv, LegsRegistered
<1> QED
  BY Invariance, <1>1, <1>2, PTL

\* Every node but the root has exactly one owner, the root has none.
THEOREM SingleOwnerAlways == Spec => []SingleOwner
<1>1. IInv => SingleOwner
  BY DEF IInv
<1> QED
  BY Invariance, <1>1, PTL

\* Two nodes have at most one conjunction and one disjunction.
THEOREM TallyUniqueAlways == Spec => []TallyUnique
<1>1. IInv => TallyUnique
  BY DEF IInv
<1> QED
  BY Invariance, <1>1, PTL

\* A tally is registered with its two legs and with nothing else.
THEOREM LegsRegisteredAlways == Spec => []LegsRegistered
<1>1. IInv => LegsRegistered
  BY DEF IInv
<1> QED
  BY Invariance, <1>1, PTL

\* The DAG has its type, for every set of names, values and properties.
THEOREM TypeCorrect == Spec => []TypeOK
<1>1. IInv => TypeOK
  BY DEF IInv
<1> QED
  BY Invariance, <1>1, PTL

\* Two nodes with a tally in common are its two legs.
LEMMA SharedAreLegs ==
    ASSUME IInv, NEW kind, NEW f, NEW s, f # s,
           NEW w \in Shared(dag, kind, f, s)
    PROVE  w \in dag.tallies /\ w.kind = kind /\ {w.first, w.second} = {f, s}
<1>1. /\ w \in dag.tallies /\ w.kind = kind
      /\ <<f, w.node>> \in dag.registered /\ <<s, w.node>> \in dag.registered
  BY DEF Shared, TalliesOf
<1>2. ASSUME NEW leg, <<leg, w.node>> \in dag.registered
      PROVE  leg = w.first \/ leg = w.second
  <2>1. PICK v \in dag.tallies : v.node = w.node /\ (leg = v.first \/ leg = v.second)
    BY <1>2 DEF IInv, LegsRegistered
  <2>2. w.node \in NodesOf(dag) /\ w.node # Root
    BY <1>1, <1>2 DEF IInv, InRange, Acyclic, Root, TypeOK, NodesOf
  <2>3. v \in Owners(w.node) /\ w \in Owners(w.node)
    BY <1>1, <2>1 DEF Owners
  <2>4. v = w
    BY <2>2, <2>3 DEF IInv, SingleOwner
  <2> QED
    BY <2>1, <2>4
<1> QED
  BY <1>1, <1>2

LEMMA SharedOnce ==
    ASSUME IInv, NEW kind, NEW f, NEW s, f # s,
           NEW t \in Shared(dag, kind, f, s), NEW u \in Shared(dag, kind, f, s)
    PROVE  t = u
<1>1. t \in dag.tallies /\ t.kind = kind /\ {t.first, t.second} = {f, s}
  BY SharedAreLegs
<1>2. u \in dag.tallies /\ u.kind = kind /\ {u.first, u.second} = {f, s}
  BY SharedAreLegs
<1>3. t.kind = u.kind /\ {t.first, t.second} = {u.first, u.second}
  BY <1>1, <1>2, Zenon
<1>4. TallyUnique
  BY DEF IInv
<1> QED
  BY <1>1, <1>2, <1>3, <1>4, Zenon DEF TallyUnique

\* The comment of TallyBuildContext::traverse: the intersection it takes "will
\* be either empty or have exactly one entry".
THEOREM IntersectionHasOneEntry ==
    Spec => [](\A kind \in Kinds : \A f, s \in NodesOf(dag) :
                  f # s => \A t, u \in Shared(dag, kind, f, s) : t = u)
<1>1. IInv => \A kind \in Kinds : \A f, s \in NodesOf(dag) :
                 f # s => \A t, u \in Shared(dag, kind, f, s) : t = u
  BY SharedOnce
<1> QED
  BY Invariance, <1>1, PTL

\* Every change of the DAG adds to it, and numbers on what it adds.
LEMMA NextGrown == IInv /\ [Next]_dag => Grown(dag, dag')
<1> SUFFICES ASSUME IInv, [Next]_dag PROVE Grown(dag, dag')
  OBVIOUS
<1> TypeOK
  BY DEF IInv
<1>1. CASE UNCHANGED dag
  BY <1>1 DEF Grown, TypeOK
<1>2. ASSUME NEW n, NEW k, AddChild(n, k)
      PROVE  Grown(dag, dag')
  BY <1>1, <1>2 DEF AddChild, WithChild, TypeOK, Grown
<1>3. ASSUME NEW n, NEW k, AddConstraint(n, k)
      PROVE  Grown(dag, dag')
  BY <1>3 DEF AddConstraint, WithConstraint, TypeOK, Grown
<1>4. ASSUME NEW f, NEW s, NEW kind, Join(kind, f, s)
      PROVE  Grown(dag, dag')
  BY <1>1, <1>4 DEF Join, WithJoin, TypeOK, Grown
<1>5. ASSUME NEW n, NEW x, NEW override, AddProperty(n, x, override)
      PROVE  Grown(dag, dag')
  BY <1>5 DEF AddProperty, WithProperty, TypeOK, Grown
<1> QED
  BY <1>1, <1>2, <1>3, <1>4, <1>5 DEF Next

\* A load is a sequence of such changes, and adds to the DAG as a whole: what
\* Domain assumes of loads.
LEMMA GrownTransitive ==
    ASSUME NEW d, NEW e, NEW g, Grown(d, e), Grown(e, g),
           WellFormed(d), WellFormed(e), WellFormed(g),
           d.nextProperty \in Nat, e.nextProperty \in Nat, g.nextProperty \in Nat
    PROVE  Grown(d, g)
BY DEF Grown, WellFormed, Edges, Tallies, Props

\* Nothing that is in the DAG is ever taken out or renumbered.
THEOREM OnlyGrows == Spec => [][Grown(dag, dag')]_dag
BY Invariance, NextGrown, PTL DEF Spec

\* Loading more rules keeps the node that each selector leads to, because a
\* lookup answers with the only entry there is.
LookupsFind ==
    /\ \A e \in dag.edges : ChildNode(dag, e.parent, e.key) = e.child
    /\ \A t \in dag.tallies :
          /\ JoinNode(dag, t.kind, t.first, t.second) = t.node
          /\ JoinNode(dag, t.kind, t.second, t.first) = t.node

THEOREM NodesAreKeptAlways == Spec => NodesAreKept
<1>1. IInv => LookupsFind
  <2> SUFFICES ASSUME IInv PROVE LookupsFind
    OBVIOUS
  <2>1. ASSUME NEW e \in dag.edges
        PROVE  ChildNode(dag, e.parent, e.key) = e.child
    <3>1. EdgeFor(dag, e.parent, e.key) = {e}
      BY DEF IInv, OneChildPerKey, EdgeFor, EdgesFrom
    <3> QED
      BY <3>1 DEF ChildNode
  <2>2. ASSUME NEW t \in dag.tallies, NEW f, NEW s,
               {f, s} = {t.first, t.second}
        PROVE  JoinNode(dag, t.kind, f, s) = t.node
    <3>1. f # s
      BY <2>2 DEF IInv, LegsDiffer
    <3>2. t \in Shared(dag, t.kind, f, s)
      <4>1. /\ <<t.first, t.node>> \in dag.registered
            /\ <<t.second, t.node>> \in dag.registered
        BY DEF IInv, LegsRegistered
      <4> QED
        BY <2>2, <4>1 DEF Shared, TalliesOf
    <3>3. \A u \in Shared(dag, t.kind, f, s) : u = t
      BY <3>1, <3>2, SharedOnce
    <3> QED
      BY <3>1, <3>2, <3>3 DEF JoinNode
  <2> QED
    BY <2>1, <2>2 DEF LookupsFind
<1>2. IInv /\ [Next]_dag => Grown(dag, dag')
  BY NextGrown
<1>3. IInv /\ LookupsFind' /\ [Next]_dag => [KeepsNodes]_dag
  BY <1>2 DEF LookupsFind, KeepsNodes, Grown
<1> QED
  BY Invariance, <1>1, <1>3, PTL DEF Spec, NodesAreKept

\* A property added later outranks all the others in a conflict.
THEOREM LaterOutranksAlways == Spec => LaterOutranks
<1>1. IInv /\ [Next]_dag => [NewOutranks]_dag
  <2> SUFFICES ASSUME IInv, Next PROVE NewOutranks
    BY DEF NewOutranks
  <2>1. ASSUME dag'.props = dag.props
        PROVE  NewOutranks
    BY <2>1 DEF NewOutranks
  <2>2. ASSUME NEW n \in NodesOf(dag), NEW k \in Keys,
               AddChild(n, k) \/ AddConstraint(n, k)
        PROVE  NewOutranks
    BY <2>1, <2>2 DEF AddChild, WithChild, AddConstraint, WithConstraint,
                      IInv, TypeOK
  <2>3. ASSUME NEW f, NEW s, NEW kind, Join(kind, f, s)
        PROVE  NewOutranks
    BY <2>1, <2>3 DEF Join, WithJoin, IInv, TypeOK
  <2>4. ASSUME NEW n, NEW x, NEW override, AddProperty(n, x, override)
        PROVE  NewOutranks
    <3> DEFINE p == [node |-> n, name |-> x, override |-> override,
                     num |-> dag.nextProperty]
    <3>1. dag'.props = dag.props \cup {p} /\ p.num = dag.nextProperty
      BY <2>4 DEF AddProperty, WithProperty, IInv, TypeOK
    <3>2. \A q \in dag.props : q.num < dag.nextProperty
      BY DEF IInv, PropsInRange
    <3> HIDE DEF p
    <3> QED
      BY <3>1, <3>2 DEF NewOutranks
  <2> QED
    BY <2>2, <2>3, <2>4 DEF Next
<1> QED
  BY Invariance, <1>1, PTL DEF Spec, LaterOutranks
=============================================================================

--------------------------- MODULE MeaningProofs ---------------------------
(***************************************************************************)
(* What the rows of Active are, for every DAG that loads may make: one per *)
(* node, each what Row makes of those before it (ActiveRows), and at each  *)
(* step what the edge or the tally of the node says (RootCell, EdgeCell,   *)
(* AndCell, OrCell).                                                       *)
(***************************************************************************)
EXTENDS Meaning, Induction, FiniteSetTheorems, TLAPS

----------------------------------------------------------------------------
(* Rankings.                                                               *)

\* Below is a strict weak order on specificities.
LEMMA BelowOrder ==
    ASSUME NEW a \in Specificities, NEW b \in Specificities, NEW c \in Specificities
    PROVE  /\ ~Below(a, a)
           /\ Below(a, b) /\ Below(b, c) => Below(a, c)
           /\ Below(a, b) => ~Below(b, a)
           /\ ~Below(a, b) /\ ~Below(b, c) => ~Below(a, c)
BY DEF Specificities, Below

\* The best of two matches, and the sum of both, are specificities.
LEMMA HigherBounds ==
    ASSUME NEW a \in Specificities, NEW b \in Specificities
    PROVE  /\ Higher(a, b) \in Specificities /\ Plus(a, b) \in Specificities
           /\ ~Below(Higher(a, b), a) /\ ~Below(Higher(a, b), b)
<1>1. Higher(a, b) \in Specificities /\ Plus(a, b) \in Specificities
  BY DEF Higher, Plus, Specificities
<1>2. ~Below(Higher(a, b), a) /\ ~Below(Higher(a, b), b)
  BY BelowOrder DEF Higher
<1> QED
  BY <1>1, <1>2

\* Sums keep the order.
LEMMA PlusGrows ==
    ASSUME NEW a \in Specificities, NEW b \in Specificities,
           NEW x \in Specificities, NEW y \in Specificities,
           ~Below(a, x), ~Below(b, y)
    PROVE  ~Below(Plus(a, b), Plus(x, y))
BY DEF Specificities, Below, Plus

\* Specificities neither of which is below the other are the same.
LEMMA SameSpec ==
    ASSUME NEW a \in Specificities, NEW b \in Specificities, ~Below(a, b), ~Below(b, a)
    PROVE  a = b
BY DEF Specificities, Below

\* The counters of a key are finite.
LEMMA KeysFinite ==
    ASSUME IsFiniteSet(Names), IsFiniteSet(Values), NEW k \in Keys
    PROVE  KeySpecificity(k) \in Specificities
<1>1. k.names \subseteq Names /\ k.values \subseteq Names \X Values
  BY DEF Keys
<1>2. IsFiniteSet(Names \X Values)
  BY FS_Product
<1>3. Cardinality(k.names) \in Nat /\ Cardinality(k.values) \in Nat
  BY <1>1, <1>2, FS_Subset, FS_CardinalityType
<1> QED
  BY <1>3 DEF KeySpecificity, Specificities

----------------------------------------------------------------------------
(* DAGs.                                                                   *)

\* A DAG has all that another one has.
PartOf(d, e) ==
    /\ d.size <= e.size /\ d.edges \subseteq e.edges /\ d.tallies \subseteq e.tallies
    /\ d.registered \subseteq e.registered
    /\ d.props \subseteq e.props /\ d.constraints \subseteq e.constraints

----------------------------------------------------------------------------
(* Highest.                                                                *)

\* At most one specificity.
One(S) == S \subseteq Specificities /\ \A a, b \in S : a = b

\* No infinite ascent.
HasTop(U) == U = {} \/ \E h \in U : \A u \in U : ~Below(h, u)

LEMMA OneHasTop ==
    ASSUME NEW S, One(S)
    PROVE  HasTop(S)
BY BelowOrder DEF One, HasTop

LEMMA TopOfBoth ==
    ASSUME NEW A, NEW B, A \subseteq Specificities, B \subseteq Specificities,
           HasTop(A), HasTop(B)
    PROVE  HasTop(A \cup B)
<1>1. CASE A = {} \/ B = {}
  BY <1>1 DEF HasTop
<1>2. CASE A # {} /\ B # {}
  <2>1. PICK a \in A : \A u \in A : ~Below(a, u)
    BY <1>2 DEF HasTop
  <2>2. PICK b \in B : \A u \in B : ~Below(b, u)
    BY <1>2 DEF HasTop
  <2>3. CASE Below(a, b)
    <3>1. \A u \in A : ~Below(b, u)
      BY <2>1, <2>3, BelowOrder
    <3> QED
      BY <2>2, <3>1 DEF HasTop
  <2>4. CASE ~Below(a, b)
    <3>1. \A u \in B : ~Below(a, u)
      BY <2>2, <2>4, BelowOrder
    <3> QED
      BY <2>1, <3>1 DEF HasTop
  <2> QED
    BY <2>3, <2>4
<1> QED
  BY <1>1, <1>2

\* A row of specificities, at most one per step, has a highest among any steps.
LEMMA RowHasTop ==
    ASSUME NEW m \in Nat, NEW row, \A i \in 1..m : One(row[i]), NEW I \in SUBSET (1..m)
    PROVE  /\ UNION {row[i] : i \in I} \subseteq Specificities
           /\ HasTop(UNION {row[i] : i \in I})
<1> DEFINE U(J) == UNION {row[i] : i \in J}
           S == {j \in Nat : j <= m => \A J \in SUBSET (1..j) : HasTop(U(J))}
<1>1. ASSUME NEW J \in SUBSET (1..m)
      PROVE  U(J) \subseteq Specificities
  BY DEF One
<1>2. 0 \in S
  <2>1. \A J \in SUBSET (1..0) : U(J) = {}
    OBVIOUS
  <2> QED
    BY <2>1 DEF HasTop
<1>3. ASSUME NEW j \in Nat, j \in S
      PROVE  j + 1 \in S
  <2> SUFFICES ASSUME j + 1 <= m, NEW J \in SUBSET (1..(j + 1))
               PROVE  HasTop(U(J))
    OBVIOUS
  <2> DEFINE K == J \ {j + 1}
  <2>1. K \in SUBSET (1..j) /\ K \in SUBSET (1..m) /\ j + 1 \in 1..m /\ j <= m
    OBVIOUS
  <2>2. HasTop(U(K)) /\ U(K) \subseteq Specificities
    BY <1>1, <1>3, <2>1
  <2>3. CASE j + 1 \in J
    <3>1. U(J) = U(K) \cup row[j + 1]
      BY <2>3
    <3>2. HasTop(row[j + 1]) /\ row[j + 1] \subseteq Specificities
      BY <2>1, OneHasTop DEF One
    <3> HIDE DEF U
    <3> QED
      BY <2>2, <3>1, <3>2, TopOfBoth
  <2>4. CASE j + 1 \notin J
    <3>1. J = K
      BY <2>4
    <3> QED
      BY <2>2, <3>1
  <2> QED
    BY <2>3, <2>4
<1> HIDE DEF U
<1>4. m \in S
  <2> HIDE DEF S
  <2> QED
    BY <1>2, <1>3, SimpleInduction
<1> QED
  BY <1>1, <1>4 DEF U

LEMMA HighestOne ==
    ASSUME NEW U, U \subseteq Specificities, HasTop(U)
    PROVE  /\ One(Highest(U)) /\ (U = {} <=> Highest(U) = {})
           /\ \A h \in Highest(U) : h \in U /\ \A u \in U : ~Below(h, u)
BY SameSpec DEF Highest, One, HasTop

\* The same for the sums that an edge, or a conjunction, makes of it.
LEMMA SumsHaveTop ==
    ASSUME NEW U, U \subseteq Specificities, HasTop(U), NEW k \in Specificities
    PROVE  /\ {Plus(s, k) : s \in U} \subseteq Specificities
           /\ HasTop({Plus(s, k) : s \in U})
<1>1. {Plus(s, k) : s \in U} \subseteq Specificities
  BY HigherBounds
<1>2. CASE U = {}
  BY <1>2 DEF HasTop
<1>3. CASE U # {}
  <2>1. PICK h \in U : \A u \in U : ~Below(h, u)
    BY <1>3 DEF HasTop
  <2>2. \A u \in U : ~Below(Plus(h, k), Plus(u, k))
    BY <2>1, PlusGrows, BelowOrder
  <2> DEFINE V == {Plus(s, k) : s \in U}
  <2>3. Plus(h, k) \in V /\ \A v \in V : ~Below(Plus(h, k), v)
    BY <2>1, <2>2
  <2> HIDE DEF V
  <2>4. HasTop(V)
    BY <2>3 DEF HasTop
  <2> QED
    BY <1>1, <2>4 DEF V
<1> QED
  BY <1>1, <1>2, <1>3

LEMMA SumsOne ==
    ASSUME NEW A, NEW B, One(A), One(B)
    PROVE  One({Plus(a, b) : a \in A, b \in B})
BY HigherBounds DEF One

----------------------------------------------------------------------------
(* Rows.                                                                   *)

\* The steps that lead to a context: the rules and the key of each.
Steps(ds, ks, m) ==
    /\ IsFiniteSet(Names) /\ IsFiniteSet(Values) /\ m \in Nat \ {0}
    /\ DOMAIN ds = 1..m /\ Len(ds) = m /\ DOMAIN ks = 1..m /\ Len(ks) = m
    /\ \A j \in 1..m : WellFormed(ds[j]) /\ Regular(ds[j]) /\ ks[j] \in Keys
    /\ \A j \in 1..m : \A i \in 1..j : PartOf(ds[i], ds[j])

LEMMA StepsHere ==
    ASSUME NEW ds, NEW ks, NEW m, Steps(ds, ks, m)
    PROVE  /\ m \in Nat \ {0} /\ DOMAIN ds = 1..m /\ DOMAIN ks = 1..m /\ Last(ds) = ds[m]
           /\ Len(ds) = m /\ \A j \in 1..m : ks[j] \in Keys
           /\ \A j \in 1..m : WellFormed(ds[j]) /\ Regular(ds[j]) /\ PartOf(ds[j], ds[m])
           /\ IsFiniteSet(Names) /\ IsFiniteSet(Values)
BY DEF Steps, Last

\* What a node other than the root hangs on.
HangsOn(d, n) ==
    IF IsChild(d, n)
    THEN LET e == EdgeTo(d, n)
         IN  e \in d.edges /\ e.child = n /\ e.parent \in 1..(n - 1)
    ELSE LET t == TallyAt(d, n)
         IN  t \in d.tallies /\ t.node = n /\ t.first \in 1..(n - 1) /\ t.second \in 1..(n - 1)

LEMMA NodesHang ==
    ASSUME NEW d, WellFormed(d), Regular(d), NEW n \in NodesOf(d), n # Root
    PROVE  HangsOn(d, n)
<1>1. CASE IsChild(d, n)
  <2>1. EdgeTo(d, n) \in d.edges /\ EdgeTo(d, n).child = n
    BY <1>1 DEF IsChild, EdgeTo
  <2>2. EdgeTo(d, n).parent \in Nat /\ Root <= EdgeTo(d, n).parent /\ EdgeTo(d, n).parent < n
    BY <2>1 DEF WellFormed, Regular, Edges
  <2>3. EdgeTo(d, n).parent \in 1..(n - 1)
    BY <2>2 DEF Root, NodesOf
  <2> QED
    BY <1>1, <2>1, <2>3 DEF HangsOn
<1>2. CASE ~IsChild(d, n)
  <2>1. TallyAt(d, n) \in d.tallies /\ TallyAt(d, n).node = n
    BY <1>2 DEF IsChild, TallyAt, Regular
  <2>2. /\ TallyAt(d, n).first \in Nat /\ TallyAt(d, n).second \in Nat
        /\ Root < TallyAt(d, n).first /\ TallyAt(d, n).first < n
        /\ Root < TallyAt(d, n).second /\ TallyAt(d, n).second < n
    BY <2>1 DEF WellFormed, Regular, Tallies
  <2>3. TallyAt(d, n).first \in 1..(n - 1) /\ TallyAt(d, n).second \in 1..(n - 1)
    BY <2>2 DEF Root, NodesOf
  <2> QED
    BY <1>2, <2>1, <2>3 DEF HangsOn
<1> QED
  BY <1>1, <1>2

\* A row has at most one specificity per step.
RowsOf(m) == {row \in [1..m -> SUBSET Specificities] : \A j \in 1..m : One(row[j])}

LEMMA ChildRowTyped ==
    ASSUME NEW ds, NEW ks, NEW m, Steps(ds, ks, m), NEW n, NEW rows,
           EdgeTo(Last(ds), n) \in Last(ds).edges, rows[EdgeTo(Last(ds), n).parent] \in RowsOf(m)
    PROVE  ChildRow(ds, ks, rows, n) \in RowsOf(m)
<1> DEFINE e == EdgeTo(Last(ds), n)
           from(j) == UNION {rows[e.parent][i] : i \in {i \in 1..j : i < j \/ e.parent = Root}}
           k == KeySpecificity(e.key)
           best(j) == Highest({Plus(s, k) : s \in from(j)})
           there(j) == j \in There(ds, n) /\ Matches(e.key, ks[j])
<1>1. ChildRow(ds, ks, rows, n) = [j \in 1..m |-> IF there(j) THEN best(j) ELSE {}]
  BY StepsHere DEF ChildRow
<1>2. k \in Specificities /\ m \in Nat
  BY StepsHere, KeysFinite DEF WellFormed, Edges
<1> DEFINE row == rows[e.parent]
<1>3. \A j \in 1..m : One(row[j])
  BY DEF RowsOf
<1>4. ASSUME NEW j \in 1..m
      PROVE  One(best(j))
  <2> DEFINE I == {i \in 1..j : i < j \/ e.parent = Root}
  <2>1. I \in SUBSET (1..m)
    BY <1>2
  <2>2. from(j) = UNION {row[i] : i \in I}
    OBVIOUS
  <2> HIDE DEF row, I
  <2>3. from(j) \subseteq Specificities /\ HasTop(from(j))
    BY <1>2, <1>3, <2>1, <2>2, RowHasTop
  <2> HIDE DEF from, k
  <2> QED
    BY <1>2, <2>3, SumsHaveTop, HighestOne
<1> HIDE DEF best, there
<1>5. One({})
  BY DEF One
<1> QED
  BY <1>1, <1>4, <1>5 DEF RowsOf, One

LEMMA AndRowTyped ==
    ASSUME NEW m \in Nat, NEW there, NEW first \in RowsOf(m), NEW second \in RowsOf(m)
    PROVE  AndRow(there, first, second) \in RowsOf(m)
<1> DEFINE upTo(row, j) == Highest(UNION {row[i] : i \in there \cap 1..j})
           best(j) == {Plus(a, b) : a \in upTo(first, j), b \in upTo(second, j)}
           out(j) == j \notin there \/ first[j] \cup second[j] = {}
<1>1. AndRow(there, first, second) = [j \in 1..m |-> IF out(j) THEN {} ELSE best(j)]
  BY DEF AndRow, RowsOf
<1>2. ASSUME NEW row \in RowsOf(m), NEW j \in 1..m
      PROVE  One(upTo(row, j))
  <2> DEFINE I == there \cap 1..j
  <2>1. I \in SUBSET (1..m) /\ \A i \in 1..m : One(row[i])
    BY DEF RowsOf
  <2>2. upTo(row, j) = Highest(UNION {row[i] : i \in I})
    OBVIOUS
  <2> HIDE DEF I, upTo
  <2>3. /\ UNION {row[i] : i \in I} \subseteq Specificities
        /\ HasTop(UNION {row[i] : i \in I})
    BY <2>1, RowHasTop
  <2> QED
    BY <2>2, <2>3, HighestOne
<1> HIDE DEF upTo, out
<1>3. \A j \in 1..m : One(best(j))
  BY <1>2, SumsOne
<1> HIDE DEF best
<1>4. One({})
  BY DEF One
<1> QED
  BY <1>1, <1>3, <1>4 DEF RowsOf, One

LEMMA OrRowTyped ==
    ASSUME NEW m \in Nat, NEW there, NEW first \in RowsOf(m), NEW second \in RowsOf(m)
    PROVE  OrRow(there, first, second) \in RowsOf(m)
<1> DEFINE best(j) == Highest(first[j] \cup second[j])
<1>1. OrRow(there, first, second) = [j \in 1..m |-> IF j \in there THEN best(j) ELSE {}]
  BY DEF OrRow, RowsOf
<1>2. ASSUME NEW j \in 1..m
      PROVE  One(best(j))
  <2>1. One(first[j]) /\ One(second[j])
    BY DEF RowsOf
  <2>2. first[j] \cup second[j] \subseteq Specificities /\ HasTop(first[j] \cup second[j])
    BY <2>1, OneHasTop, TopOfBoth DEF One
  <2> QED
    BY <2>2, HighestOne
<1> HIDE DEF best
<1>3. One({})
  BY DEF One
<1> QED
  BY <1>1, <1>2, <1>3 DEF RowsOf, One

LEMMA RowTyped ==
    ASSUME NEW ds, NEW ks, NEW m, Steps(ds, ks, m), NEW n \in NodesOf(Last(ds)), NEW rows,
           \A q \in 1..(n - 1) : rows[q] \in RowsOf(m)
    PROVE  Row(ds, ks, rows, n) \in RowsOf(m)
<1>1. m \in Nat /\ WellFormed(Last(ds)) /\ Regular(Last(ds)) /\ DOMAIN ks = 1..m /\ m >= 1
  BY StepsHere
<1>2. CASE n = Root
  <2>1. Row(ds, ks, rows, n) = [j \in 1..m |-> IF j = 1 THEN {Spec0} ELSE {}]
    BY <1>1, <1>2 DEF Row
  <2>2. One({Spec0}) /\ One({})
    BY DEF One, Spec0, Specificities
  <2> QED
    BY <2>1, <2>2 DEF RowsOf, One
<1>3. CASE n # Root
  <2>1. HangsOn(Last(ds), n)
    BY <1>1, <1>3, NodesHang
  <2> QED
    BY <1>1, <1>3, <2>1, ChildRowTyped, AndRowTyped, OrRowTyped DEF Row, HangsOn
<1> QED
  BY <1>2, <1>3

\* A row depends on those of the nodes that its node hangs on.
LEMMA RowLooksBelow ==
    ASSUME NEW ds, NEW ks, NEW m, Steps(ds, ks, m), NEW n \in NodesOf(Last(ds)),
           NEW rows, NEW others, \A q \in 1..(n - 1) : rows[q] = others[q]
    PROVE  Row(ds, ks, rows, n) = Row(ds, ks, others, n)
<1>1. WellFormed(Last(ds)) /\ Regular(Last(ds))
  BY StepsHere
<1>2. CASE n = Root
  BY <1>2 DEF Row
<1>3. CASE n # Root
  <2>1. HangsOn(Last(ds), n)
    BY <1>1, <1>3, NodesHang
  <2>2. CASE IsChild(Last(ds), n)
    <3>1. rows[EdgeTo(Last(ds), n).parent] = others[EdgeTo(Last(ds), n).parent]
      BY <2>1, <2>2 DEF HangsOn
    <3>2. ChildRow(ds, ks, rows, n) = ChildRow(ds, ks, others, n)
      BY <3>1 DEF ChildRow
    <3> QED
      BY <1>3, <2>2, <3>2 DEF Row
  <2>3. CASE ~IsChild(Last(ds), n)
    BY <1>3, <2>1, <2>3 DEF Row, HangsOn
  <2> QED
    BY <2>2, <2>3
<1> QED
  BY <1>2, <1>3

\* The recursive function in Active.
RowsIn(ds, ks) ==
    CHOOSE rows : rows = [n \in 0..Last(ds).size |->
                            IF n = 0 THEN <<>>
                            ELSE Append(rows[n - 1], Row(ds, ks, rows[n - 1], n))]

LEMMA ActiveIsRows ==
    ASSUME NEW ds, NEW ks
    PROVE  Active(ds, ks) = RowsIn(ds, ks)[Last(ds).size]
BY DEF Active, RowsIn

\* Active has one row for each node, what Row makes of those before it.
LEMMA ActiveRows ==
    ASSUME NEW ds, NEW ks, NEW m, Steps(ds, ks, m), NEW n \in NodesOf(Last(ds))
    PROVE  Active(ds, ks)[n] \in RowsOf(m) /\ Active(ds, ks)[n] = Row(ds, ks, Active(ds, ks), n)
<1> DEFINE size == Last(ds).size
           D == 0..size
           V == Seq(RowsOf(m))
           value(i, f) == IF i = 0 THEN <<>> ELSE Append(f[i - 1], Row(ds, ks, f[i - 1], i))
           clip(x) == IF x \in V THEN x ELSE <<>>
           G == [p \in D \X [D -> V] |-> clip(value(p[1], p[2]))]
<1>1. size \in Nat \ {0} /\ NodesOf(Last(ds)) = 1..size /\ <<>> \in V
  BY StepsHere DEF WellFormed, NodesOf
<1>2. G \in [D \X [D -> V] -> V]
  <2> HIDE DEF V
  <2> QED
    BY <1>1
<1>3. \A i \in D, f \in [D -> V] : G[<<i, f>>] = clip(value(i, f))
  OBVIOUS
<1>4. ASSUME NEW i \in D, NEW f, NEW g, \A j \in D : j < i => f[j] = g[j]
      PROVE  value(i, f) = value(i, g)
  <2>1. i # 0 => i - 1 \in D /\ i - 1 < i
    BY <1>1
  <2>2. i # 0 => f[i - 1] = g[i - 1]
    BY <1>4, <2>1
  <2> QED
    BY <2>2
<1> HIDE DEF V, G, value
<1>5. PICK f \in [D -> V] : Solves(f, G, D)
  <2>1. LooksBelow(G, D, V)
    <3> SUFFICES ASSUME NEW i \in D, NEW g \in [D -> V], NEW h \in [D -> V],
                        \A j \in D : j < i => g[j] = h[j]
                 PROVE  G[<<i, g>>] = G[<<i, h>>]
      BY DEF LooksBelow
    <3>1. value(i, g) = value(i, h)
      BY <1>4
    <3> QED
      BY <1>3, <3>1
  <2>2. D \subseteq 0..size /\ V # {} /\ size \in Nat
    BY <1>1
  <2> HIDE DEF D
  <2> QED
    BY <1>2, <2>1, <2>2, RecursiveFunction
<1>6. \A i \in D : f[i] = clip(value(i, f))
  BY <1>3, <1>5 DEF Solves
<1> DEFINE P(i) == f[i] \in V /\ Len(f[i]) = i /\ f[i] = value(i, f)
           S == {i \in Nat : i <= size => P(i)}
<1>7. 0 \in S
  <2>1. value(0, f) = <<>> /\ 0 \in D
    BY <1>1 DEF value
  <2> QED
    BY <1>1, <1>6, <2>1
<1>8. ASSUME NEW i \in Nat, i \in S
      PROVE  i + 1 \in S
  <2> SUFFICES ASSUME i + 1 <= size PROVE P(i + 1)
    OBVIOUS
  <2>1. i + 1 \in D /\ (i + 1) - 1 = i /\ i + 1 # 0 /\ P(i) /\ i + 1 \in NodesOf(Last(ds))
    BY <1>1, <1>8
  <2>2. value(i + 1, f) = Append(f[i], Row(ds, ks, f[i], i + 1))
    BY <2>1 DEF value
  <2>3. \A q \in 1..i : f[i][q] \in RowsOf(m)
    BY <2>1 DEF V
  <2>4. Row(ds, ks, f[i], i + 1) \in RowsOf(m)
    BY <2>1, <2>3, RowTyped
  <2>5. value(i + 1, f) \in V /\ Len(value(i + 1, f)) = i + 1
    BY <2>1, <2>2, <2>4 DEF V
  <2> QED
    BY <1>6, <2>1, <2>5
<1>9. Nat \subseteq S
  <2> HIDE DEF S
  <2> QED
    BY <1>7, <1>8, SimpleInduction
<1>10. \A i \in D : P(i)
  BY <1>1, <1>9
<1>11. f = [i \in D |-> value(i, f)]
  BY <1>5, <1>10
<1> DEFINE R == RowsIn(ds, ks)
<1>12. R = [i \in D |-> value(i, R)]
  <2>1. \E g : g = [i \in D |-> value(i, g)]
    BY <1>11
  <2> QED
    BY <2>1 DEF RowsIn, value
<1> HIDE DEF R
<1> DEFINE Q(i) == R[i] = f[i]
           T == {i \in Nat : i <= size => Q(i)}
<1>13. 0 \in T
  <2>1. 0 \in D /\ value(0, R) = <<>> /\ value(0, f) = <<>>
    BY <1>1 DEF value
  <2> QED
    BY <1>10, <1>12, <2>1
<1>14. ASSUME NEW i \in Nat, i \in T
       PROVE  i + 1 \in T
  <2> SUFFICES ASSUME i + 1 <= size PROVE Q(i + 1)
    OBVIOUS
  <2>1. i + 1 \in D /\ (i + 1) - 1 = i /\ i + 1 # 0 /\ Q(i)
    BY <1>1, <1>14
  <2>2. value(i + 1, f) = value(i + 1, R)
    BY <2>1 DEF value
  <2> QED
    BY <1>10, <1>12, <2>1, <2>2
<1>15. Nat \subseteq T
  <2> HIDE DEF T
  <2> QED
    BY <1>13, <1>14, SimpleInduction
<1>16. Active(ds, ks) = f[size]
  BY <1>1, <1>15, ActiveIsRows DEF R
\* A row does not change when others are appended.
<1> DEFINE Same(i) == \A q \in 1..i : f[i][q] = f[q][q]
           K == {i \in Nat : i <= size => Same(i)}
<1>17. 0 \in K
  OBVIOUS
<1>18. ASSUME NEW i \in Nat, i \in K
       PROVE  i + 1 \in K
  <2> SUFFICES ASSUME i + 1 <= size, NEW q \in 1..(i + 1), q # i + 1
               PROVE  f[i + 1][q] = f[q][q]
    OBVIOUS
  <2>1. q \in 1..i /\ i + 1 \in D /\ (i + 1) - 1 = i /\ i + 1 # 0 /\ P(i) /\ P(i + 1) /\ Same(i)
    BY <1>1, <1>10, <1>18
  <2>2. f[i + 1] = Append(f[i], Row(ds, ks, f[i], i + 1))
    BY <2>1 DEF value
  <2>3. f[i + 1][q] = f[i][q]
    BY <2>1, <2>2 DEF V
  <2> QED
    BY <2>1, <2>3
<1>19. Nat \subseteq K
  <2> HIDE DEF K
  <2> QED
    BY <1>17, <1>18, SimpleInduction
<1>20. ASSUME NEW i \in D
       PROVE  \A q \in 1..i : f[i][q] = f[q][q]
  BY <1>1, <1>19
<1>21. /\ n \in D /\ n - 1 \in D /\ n # 0 /\ n \in 1..n /\ n \in 1..size /\ size \in D
       /\ \A q \in 1..(n - 1) : q \in 1..size
  BY <1>1
<1>22. f[n] = Append(f[n - 1], Row(ds, ks, f[n - 1], n)) /\ f[n - 1] \in V /\ Len(f[n - 1]) = n - 1
  BY <1>10, <1>21 DEF value
<1>23. f[n][n] = Row(ds, ks, f[n - 1], n)
  BY <1>22, <1>21 DEF V
<1>24. f[size][n] = f[n][n] /\ \A q \in 1..(n - 1) : f[size][q] = f[n - 1][q]
  BY <1>20, <1>21
<1>25. Row(ds, ks, f[n - 1], n) = Row(ds, ks, f[size], n)
  BY <1>24, RowLooksBelow
<1>26. f[n][n] \in RowsOf(m)
  <2>1. f[n] \in V /\ Len(f[n]) = n
    BY <1>10, <1>21
  <2> QED
    BY <1>21, <2>1 DEF V
<1> QED
  BY <1>16, <1>23, <1>24, <1>25, <1>26

----------------------------------------------------------------------------
(* One step of the rows.                                                   *)

\* A DAG had the edge, or the tally, as soon as it had its node.
LEMMA EdgeThere ==
    ASSUME NEW d, WellFormed(d), Regular(d), NEW all, WellFormed(all), Regular(all),
           PartOf(d, all), NEW e \in all.edges
    PROVE  e.child \in NodesOf(d) <=> e \in d.edges
<1>1. ASSUME e.child \in NodesOf(d)
      PROVE  e \in d.edges
  <2>1. e.child # Root
    BY DEF WellFormed, Edges, Regular, Root
  <2>2. \/ \E f \in d.edges : f.child = e.child
        \/ \E t \in d.tallies : t.node = e.child
    BY <1>1, <2>1 DEF Regular
  <2> QED
    BY <2>2 DEF Regular, PartOf
<1>2. e \in d.edges => e.child \in NodesOf(d)
  BY DEF WellFormed
<1> QED
  BY <1>1, <1>2

LEMMA TallyThere ==
    ASSUME NEW d, WellFormed(d), Regular(d), NEW all, WellFormed(all), Regular(all),
           PartOf(d, all), NEW t \in all.tallies
    PROVE  t.node \in NodesOf(d) <=> t \in d.tallies
<1>1. ASSUME t.node \in NodesOf(d)
      PROVE  t \in d.tallies
  <2>1. t.node # Root
    BY DEF WellFormed, Tallies, Regular, Root
  <2>2. \/ \E f \in d.edges : f.child = t.node
        \/ \E u \in d.tallies : u.node = t.node
    BY <1>1, <2>1 DEF Regular
  <2> QED
    BY <2>2 DEF Regular, PartOf
<1>2. t \in d.tallies => t.node \in NodesOf(d)
  BY DEF WellFormed
<1> QED
  BY <1>1, <1>2

\* What the parent of an edge is active with where its child is looked for.
From(A, e, j) == UNION {A[e.parent][i] : i \in {i \in 1..j : i < j \/ e.parent = Root}}

\* The leg of a tally, by its number.
LegOf(t, w) == IF w = 1 THEN t.first ELSE t.second

\* What a leg of a conjunction has been active with since it was there.
SoFar(A, ds, t, w, j) == UNION {A[LegOf(t, w)][i] : i \in {i \in 1..j : t \in ds[i].tallies}}

\* What the child of an edge is worth, and a conjunction.
EdgeBest(A, e, j) == Highest({Plus(s, KeySpecificity(e.key)) : s \in From(A, e, j)})

AndBest(A, ds, t, j) == {Plus(a, b) : a \in Highest(SoFar(A, ds, t, 1, j)),
                                      b \in Highest(SoFar(A, ds, t, 2, j))}

LEMMA RootCell ==
    ASSUME NEW ds, NEW ks, NEW m, Steps(ds, ks, m), NEW A, A = Active(ds, ks), NEW j \in 1..m
    PROVE  A[Root][j] = IF j = 1 THEN {Spec0} ELSE {}
<1>1. Root \in NodesOf(Last(ds)) /\ DOMAIN ks = 1..m
  BY StepsHere DEF WellFormed, NodesOf, Root
<1>2. A[Root] = Row(ds, ks, A, Root)
  BY <1>1, ActiveRows
<1> QED
  BY <1>1, <1>2 DEF Row

LEMMA EdgeCell ==
    ASSUME NEW ds, NEW ks, NEW m, Steps(ds, ks, m), NEW A, A = Active(ds, ks), NEW j \in 1..m,
           NEW e \in ds[m].edges
    PROVE  A[e.child][j] = IF e \in ds[j].edges /\ Matches(e.key, ks[j])
                           THEN EdgeBest(A, e, j) ELSE {}
<1> DEFINE n == e.child
<1>1. /\ Last(ds) = ds[m] /\ WellFormed(ds[m]) /\ Regular(ds[m]) /\ DOMAIN ks = 1..m
      /\ WellFormed(ds[j]) /\ Regular(ds[j]) /\ PartOf(ds[j], ds[m]) /\ DOMAIN ds = 1..m
  BY StepsHere
<1>2. n \in NodesOf(ds[m]) /\ n # Root /\ IsChild(ds[m], n)
  BY <1>1 DEF WellFormed, Edges, Regular, IsChild, Root
<1>3. EdgeTo(ds[m], n) = e
  BY <1>1 DEF EdgeTo, Regular
<1>4. A[n] = ChildRow(ds, ks, A, n)
  <2>1. A[n] = Row(ds, ks, A, n)
    BY <1>1, <1>2, ActiveRows
  <2> QED
    BY <1>1, <1>2, <2>1 DEF Row
<1>5. j \in There(ds, n) <=> e \in ds[j].edges
  BY <1>1, EdgeThere DEF There
<1>6. ChildRow(ds, ks, A, n)[j] = IF j \in There(ds, n) /\ Matches(e.key, ks[j])
                                  THEN EdgeBest(A, e, j) ELSE {}
  BY <1>1, <1>3 DEF ChildRow, From, EdgeBest
<1> QED
  BY <1>4, <1>5, <1>6

LEMMA TallyRow ==
    ASSUME NEW ds, NEW ks, NEW m, Steps(ds, ks, m), NEW A, A = Active(ds, ks),
           NEW t \in ds[m].tallies
    PROVE  /\ A[t.node] = IF t.kind = "and"
                          THEN AndRow(There(ds, t.node), A[t.first], A[t.second])
                          ELSE OrRow(There(ds, t.node), A[t.first], A[t.second])
           /\ There(ds, t.node) = {i \in 1..m : t \in ds[i].tallies}
           /\ \A w \in {1, 2} : LegOf(t, w) \in NodesOf(ds[m]) /\ A[LegOf(t, w)] \in RowsOf(m)
           /\ t.node \in NodesOf(ds[m])
<1>1. /\ Last(ds) = ds[m] /\ WellFormed(ds[m]) /\ Regular(ds[m]) /\ DOMAIN ds = 1..m
      /\ \A j \in 1..m : WellFormed(ds[j]) /\ Regular(ds[j]) /\ PartOf(ds[j], ds[m])
  BY StepsHere
<1>2. t.node \in NodesOf(ds[m]) /\ ~IsChild(ds[m], t.node)
  BY <1>1 DEF WellFormed, Regular, IsChild
<1>3. TallyAt(ds[m], t.node) = t
  BY <1>1 DEF TallyAt, Regular
<1>4. /\ t.first \in Nat /\ t.second \in Nat /\ t.node \in Nat
      /\ Root < t.first /\ t.first < t.node /\ Root < t.second /\ t.second < t.node
  BY <1>1 DEF WellFormed, Regular, Tallies
<1>5. t.node # Root /\ t.first \in NodesOf(ds[m]) /\ t.second \in NodesOf(ds[m])
  BY <1>1, <1>2, <1>4 DEF NodesOf, Root, WellFormed
<1>6. A[t.node] = Row(ds, ks, A, t.node) /\ A[t.first] \in RowsOf(m) /\ A[t.second] \in RowsOf(m)
  BY <1>1, <1>2, <1>5, ActiveRows
<1>7. There(ds, t.node) = {i \in 1..m : t \in ds[i].tallies}
  BY <1>1, TallyThere DEF There
<1>8. \A w \in {1, 2} : LegOf(t, w) \in {t.first, t.second}
  BY DEF LegOf
<1> QED
  BY <1>1, <1>2, <1>3, <1>5, <1>6, <1>7, <1>8 DEF Row

LEMMA OrCell ==
    ASSUME NEW ds, NEW ks, NEW m, Steps(ds, ks, m), NEW A, A = Active(ds, ks), NEW j \in 1..m,
           NEW t \in ds[m].tallies, t.kind # "and"
    PROVE  A[t.node][j] = IF t \in ds[j].tallies THEN Highest(A[t.first][j] \cup A[t.second][j])
                          ELSE {}
<1>1. A[t.first] \in RowsOf(m) /\ A[t.node] = OrRow(There(ds, t.node), A[t.first], A[t.second])
  BY TallyRow DEF LegOf
<1>2. DOMAIN A[t.first] = 1..m /\ (j \in There(ds, t.node) <=> t \in ds[j].tallies)
  BY <1>1, TallyRow DEF RowsOf
<1> QED
  BY <1>1, <1>2 DEF OrRow

LEMMA AndCell ==
    ASSUME NEW ds, NEW ks, NEW m, Steps(ds, ks, m), NEW A, A = Active(ds, ks), NEW j \in 1..m,
           NEW t \in ds[m].tallies, t.kind = "and"
    PROVE  A[t.node][j] = IF t \notin ds[j].tallies \/ A[t.first][j] \cup A[t.second][j] = {} THEN {}
                          ELSE AndBest(A, ds, t, j)
<1> DEFINE there == There(ds, t.node)
<1>1. A[t.first] \in RowsOf(m) /\ A[t.node] = AndRow(there, A[t.first], A[t.second])
  BY TallyRow DEF LegOf
<1>2. DOMAIN A[t.first] = 1..m /\ there = {i \in 1..m : t \in ds[i].tallies} /\ m \in Nat
  BY <1>1, TallyRow, StepsHere DEF RowsOf
<1>3. there \cap 1..j = {i \in 1..j : t \in ds[i].tallies}
  BY <1>2
<1>4. /\ SoFar(A, ds, t, 1, j) = UNION {A[t.first][i] : i \in there \cap 1..j}
      /\ SoFar(A, ds, t, 2, j) = UNION {A[t.second][i] : i \in there \cap 1..j}
  BY <1>3 DEF SoFar, LegOf
<1> DEFINE F == A[t.first]
           G == A[t.second]
           U == SoFar(A, ds, t, 1, j)
           W == SoFar(A, ds, t, 2, j)
<1>5. AndRow(there, F, G)[j] = IF j \notin there \/ F[j] \cup G[j] = {} THEN {}
                               ELSE {Plus(a, b) : a \in Highest(U), b \in Highest(W)}
  <2>1. DOMAIN F = 1..m
    BY <1>2
  <2>2. /\ U = UNION {F[i] : i \in there \cap 1..j}
        /\ W = UNION {G[i] : i \in there \cap 1..j}
    BY <1>4
  <2> HIDE DEF there, F, G, U, W
  <2> QED
    BY <2>1, <2>2 DEF AndRow
<1>6. j \in there <=> t \in ds[j].tallies
  BY <1>2
<1> HIDE DEF there, U, W
<1> QED
  BY <1>1, <1>5, <1>6 DEF U, W, AndBest

LEMMA FromHasTop ==
    ASSUME NEW ds, NEW ks, NEW m, Steps(ds, ks, m), NEW A, A = Active(ds, ks), NEW j \in 1..m,
           NEW e \in ds[m].edges
    PROVE  /\ From(A, e, j) \subseteq Specificities /\ HasTop(From(A, e, j))
           /\ e.parent \in NodesOf(ds[m])
<1> DEFINE I == {i \in 1..j : i < j \/ e.parent = Root}
           row == A[e.parent]
<1>1. /\ m \in Nat \ {0} /\ WellFormed(ds[m]) /\ Regular(ds[m]) /\ Last(ds) = ds[m]
  BY StepsHere
<1>2. e.parent \in NodesOf(ds[m])
  <2>1. e.parent \in Nat /\ Root <= e.parent /\ e.parent < e.child /\ e.child \in NodesOf(ds[m])
    BY <1>1 DEF WellFormed, Edges, Regular
  <2> QED
    BY <1>1, <2>1 DEF NodesOf, Root, WellFormed
<1>3. row \in RowsOf(m)
  BY <1>1, <1>2, ActiveRows
<1>4. m \in Nat /\ I \in SUBSET (1..m) /\ \A i \in 1..m : One(row[i])
  BY <1>1, <1>3 DEF RowsOf
<1>5. From(A, e, j) = UNION {row[i] : i \in I}
  BY DEF From
<1> HIDE DEF I, row
<1>6. UNION {row[i] : i \in I} \subseteq Specificities /\ HasTop(UNION {row[i] : i \in I})
  BY ONLY <1>4, RowHasTop
<1> QED
  BY <1>2, <1>5, <1>6

LEMMA SoFarHasTop ==
    ASSUME NEW ds, NEW ks, NEW m, Steps(ds, ks, m), NEW A, A = Active(ds, ks), NEW j \in 1..m,
           NEW t \in ds[m].tallies, NEW w \in {1, 2}
    PROVE  SoFar(A, ds, t, w, j) \subseteq Specificities /\ HasTop(SoFar(A, ds, t, w, j))
<1> DEFINE I == {i \in 1..j : t \in ds[i].tallies}
           row == A[LegOf(t, w)]
<1>1. m \in Nat /\ row \in RowsOf(m)
  BY TallyRow, StepsHere
<1>2. I \in SUBSET (1..m) /\ \A i \in 1..m : One(row[i])
  BY <1>1 DEF RowsOf
<1>3. SoFar(A, ds, t, w, j) = UNION {row[i] : i \in I}
  BY DEF SoFar
<1> HIDE DEF I, row
<1>4. UNION {row[i] : i \in I} \subseteq Specificities /\ HasTop(UNION {row[i] : i \in I})
  BY ONLY <1>1, <1>2, RowHasTop
<1> QED
  BY <1>3, <1>4
=============================================================================

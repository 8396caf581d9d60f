------------------------- MODULE RuleBuilderProofs -------------------------
(***************************************************************************)
(* No setting given to a builder is lost or doubled, however many builders *)
(* and handles there are and in whatever order they go.                    *)
(***************************************************************************)
EXTENDS RuleBuilder, Induction, SequenceTheorems, FiniteSetTheorems, TLAPS

Rule == [set : Nat, under : Seq(Selectors)]

Impl == [parent : Nat, selector : Seq(Selectors), rules : Seq(Rule)]

Typed ==
    /\ impls \in Seq(Impl) /\ alive \subseteq DOMAIN impls
    /\ dag \in Seq(Rule) /\ given \in Seq(Nat)

\* A child holds its parent; a destructor runs when there are no children.
ParentsLive ==
    /\ \A i \in alive : impls[i].parent \in alive \cup {None}
    /\ releasing # None => releasing \in alive /\ Children(releasing) = {}

\* Setting n is the k-th of Impl i, or of the DAG.
At(n, i, k) ==
    i \in alive \cup {None} /\ k \in DOMAIN RulesAt(i) /\ RulesAt(i)[k].set = n

OnlyGiven == \A n, i, k : At(n, i, k) => n \in DOMAIN given

OnePlace ==
    \A n \in DOMAIN given :
        /\ \E i, k : At(n, i, k)
        /\ \A i, k, j, m : At(n, i, k) /\ At(n, j, m) => i = j /\ k = m

IInv == Typed /\ ParentsLive /\ OnlyGiven /\ OnePlace

LEMMA InitInv == Init => IInv
<1> SUFFICES ASSUME Init PROVE IInv
  OBVIOUS
<1>1. Typed
  BY DEF Init, Typed
<1>2. ParentsLive
  BY DEF Init, ParentsLive
<1>3. \A n, i, k : ~At(n, i, k)
  BY DEF Init, At, RulesAt
<1> QED
  BY <1>1, <1>2, <1>3 DEF Init, IInv, OnlyGiven, OnePlace

LEMMA InvImpliesOneCopy == IInv => NoneLostOrDoubled
<1> SUFFICES ASSUME IInv, NEW n \in DOMAIN given
             PROVE  Cardinality(Copies(n)) = 1
  BY DEF NoneLostOrDoubled
<1>1. PICK i, k : At(n, i, k)
  BY DEF IInv, OnePlace
<1>2. Copies(n) = {<<i, k>>}
  <2>1. <<i, k>> \in Copies(n)
    BY <1>1 DEF At, Copies
  <2>2. ASSUME NEW c \in Copies(n)
        PROVE  c = <<i, k>>
    <3>1. PICK j, m : c = <<j, m>> /\ At(n, j, m)
      BY DEF At, Copies
    <3> QED
      BY <1>1, <3>1 DEF IInv, OnePlace
  <2> QED
    BY <2>1, <2>2
<1> QED
  BY <1>2, FS_Singleton

----------------------------------------------------------------------------
\* Nothing moves.
LEMMA PlacesKept ==
    ASSUME IInv, UNCHANGED <<impls, alive, dag, given>>
    PROVE  Typed' /\ OnlyGiven' /\ OnePlace'
<1>1. Typed'
  BY DEF IInv, Typed
<1>2. \A n, i, k : At(n, i, k)' <=> At(n, i, k)
  BY DEF At, RulesAt
<1> QED
  BY <1>1, <1>2 DEF IInv, OnlyGiven, OnePlace

LEMMA MadeInv ==
    ASSUME IInv, NEW parent \in alive \cup {None}, NEW selector \in Seq(Selectors),
           releasing = None, Made(parent, selector)
    PROVE  IInv'
<1> DEFINE made == [parent |-> parent, selector |-> selector, rules |-> <<>>]
<1>1. /\ impls \in Seq(Impl) /\ alive \subseteq 1..Len(impls) /\ Len(impls) \in Nat
  BY DEF IInv, Typed
<1> PICK new \in Nat : new = Len(impls) + 1
  BY <1>1
<1>2. made \in Impl
  <2> parent \in Nat /\ <<>> \in Seq(Rule)
    BY <1>1 DEF None
  <2> QED
    BY DEF Impl
<1>3. /\ impls' = Append(impls, made) /\ alive' = alive \cup {new}
      /\ UNCHANGED <<releasing, dag, given>>
  BY DEF Made
<1> HIDE DEF made
<1>4. /\ impls' \in Seq(Impl) /\ Len(impls') = new /\ impls'[new] = made
      /\ \A i \in 1..Len(impls) : impls'[i] = impls[i]
  BY <1>1, <1>2, <1>3, AppendProperties
<1>5. Typed'
  BY <1>1, <1>3, <1>4 DEF IInv, Typed
<1>6. ParentsLive'
  BY <1>1, <1>3, <1>4 DEF IInv, ParentsLive, made
<1>7. \A n, i, k : At(n, i, k)' <=> At(n, i, k)
  <2>1. \A i \in alive \cup {None} : RulesAt(i)' = RulesAt(i)
    BY <1>1, <1>3, <1>4 DEF RulesAt
  <2>2. RulesAt(new)' = <<>> /\ new \notin alive \cup {None}
    BY <1>1, <1>4 DEF RulesAt, None, made
  <2> QED
    BY <1>3, <2>1, <2>2 DEF At
<1>8. OnlyGiven' /\ OnePlace'
  BY <1>3, <1>7 DEF IInv, OnlyGiven, OnePlace
<1> QED
  BY <1>5, <1>6, <1>8 DEF IInv

LEMMA SetInv ==
    ASSUME IInv, NEW i \in alive, Set(i)
    PROVE  IInv'
<1> DEFINE number == Len(given) + 1
           rule   == [set |-> number, under |-> <<>>]
           longer == [impls[i] EXCEPT !.rules = Append(@, rule)]
           last   == Len(impls[i].rules) + 1
<1>1. /\ impls \in Seq(Impl) /\ alive \subseteq 1..Len(impls) /\ Len(impls) \in Nat
      /\ given \in Seq(Nat) /\ Len(given) \in Nat /\ i \in 1..Len(impls) /\ i # None
      /\ impls[i] \in Impl
  BY DEF IInv, Typed, None
<1>2. rule \in Rule /\ rule.set = number
  BY <1>1 DEF Rule
<1> HIDE DEF rule
<1>3. /\ Append(impls[i].rules, rule) \in Seq(Rule)
      /\ DOMAIN Append(impls[i].rules, rule) = (DOMAIN impls[i].rules) \cup {last}
      /\ last \notin DOMAIN impls[i].rules
      /\ Append(impls[i].rules, rule)[last] = rule
      /\ \A k \in DOMAIN impls[i].rules :
            Append(impls[i].rules, rule)[k] = impls[i].rules[k]
  <2>1. impls[i].rules \in Seq(Rule)
    BY <1>1 DEF Impl
  <2> QED
    BY <1>2, <2>1, AppendProperties
<1>4. /\ longer \in Impl /\ longer.parent = impls[i].parent
      /\ longer.rules = Append(impls[i].rules, rule)
  BY <1>1, <1>3 DEF Impl
<1>5. /\ impls' = [impls EXCEPT ![i] = longer] /\ given' = Append(given, i)
      /\ UNCHANGED <<alive, releasing, dag>> /\ releasing = None
  BY DEF Set, Held, rule
<1> HIDE DEF longer, last
<1>6. /\ impls' \in Seq(Impl) /\ DOMAIN impls' = DOMAIN impls /\ impls'[i] = longer
      /\ \A j \in 1..Len(impls) : j # i => impls'[j] = impls[j]
  BY <1>1, <1>4, <1>5
<1>7. /\ given' \in Seq(Nat) /\ DOMAIN given' = (DOMAIN given) \cup {number}
      /\ number \notin DOMAIN given
  BY <1>1, <1>5, AppendProperties
<1>8. Typed'
  BY <1>5, <1>6, <1>7 DEF IInv, Typed
<1>9. ParentsLive'
  <2>1. \A j \in alive : impls'[j].parent = impls[j].parent
    BY <1>1, <1>4, <1>6
  <2> QED
    BY <1>5, <2>1 DEF IInv, ParentsLive
<1>10. /\ RulesAt(i)' = Append(impls[i].rules, rule) /\ RulesAt(i) = impls[i].rules
       /\ \A j \in alive \cup {None} : j # i => RulesAt(j)' = RulesAt(j)
  BY <1>1, <1>4, <1>5, <1>6 DEF RulesAt
<1>11. \A n, j, k : At(n, j, k)' <=>
             (At(n, j, k) \/ (n = number /\ j = i /\ k = last))
  <2> TAKE n, j, k
  <2>1. CASE j = i
    BY <1>2, <1>3, <1>5, <1>10, <2>1 DEF At
  <2>2. CASE j # i
    BY <1>5, <1>10, <2>2 DEF At
  <2> QED
    BY <2>1, <2>2
<1>12. OnlyGiven'
  BY <1>7, <1>11 DEF IInv, OnlyGiven
<1>13. OnePlace'
  <2> SUFFICES ASSUME NEW n \in DOMAIN given'
               PROVE  /\ \E j, k : At(n, j, k)'
                      /\ \A j, k, l, m : At(n, j, k)' /\ At(n, l, m)'
                                          => j = l /\ k = m
    BY DEF OnePlace
  <2>1. CASE n = number
    <3>1. \A j, k : ~At(n, j, k)
      BY <1>7, <2>1 DEF IInv, OnlyGiven
    <3> QED
      BY <1>11, <2>1, <3>1
  <2>2. CASE n # number
    <3>1. \A j, k : At(n, j, k)' <=> At(n, j, k)
      BY <1>11, <2>2
    <3>2. n \in DOMAIN given
      BY <1>7, <2>2
    <3> QED
      BY <3>1, <3>2 DEF IInv, OnePlace
  <2> QED
    BY <2>1, <2>2
<1> QED
  BY <1>8, <1>9, <1>12, <1>13 DEF IInv

\* Nesting rules in a selector keeps them rules, and which settings they are.
LEMMA NestedRules ==
    ASSUME Typed, NEW i \in alive
    PROVE  /\ Nested(i) \in Seq(Rule) /\ Len(Nested(i)) = Len(impls[i].rules)
           /\ impls[i].rules \in Seq(Rule)
           /\ \A k \in DOMAIN impls[i].rules :
                 Nested(i)[k].set = impls[i].rules[k].set
<1> DEFINE nested(k) == [impls[i].rules[k] EXCEPT !.under = impls[i].selector \o @]
           moved     == Nested(i)
<1>1. impls[i] \in Impl
  BY DEF Typed
<1>2. impls[i].rules \in Seq(Rule) /\ impls[i].selector \in Seq(Selectors)
  BY <1>1 DEF Impl
<1>3. ASSUME NEW k \in DOMAIN impls[i].rules
      PROVE  nested(k) \in Rule /\ nested(k).set = impls[i].rules[k].set
  <2>1. impls[i].rules[k] \in Rule
    BY <1>2
  <2>2. impls[i].selector \o impls[i].rules[k].under \in Seq(Selectors)
    BY <1>2, <2>1, ConcatProperties DEF Rule
  <2> QED
    BY <2>1, <2>2 DEF Rule
<1>4. moved = [k \in 1..Len(impls[i].rules) |-> nested(k)]
  BY <1>2 DEF Nested
<1> HIDE DEF nested, moved
<1>5. /\ moved \in Seq(Rule) /\ Len(moved) = Len(impls[i].rules)
      /\ \A k \in DOMAIN impls[i].rules : moved[k].set = impls[i].rules[k].set
  BY <1>2, <1>3, <1>4
<1> QED
  BY <1>2, <1>5 DEF moved

\* The rules of Impl i, handed on to another Impl or to the DAG (to), go to
\* places behind all others there.
LEMMA HandedOn ==
    ASSUME IInv, NEW i \in alive, NEW to \in alive \cup {None}, to # i,
           alive' = alive \ {i}, given' = given,
           RulesAt(to)' = RulesAt(to) \o Nested(i),
           \A j \in alive \cup {None} : j # i /\ j # to => RulesAt(j)' = RulesAt(j)
    PROVE  OnlyGiven' /\ OnePlace'
<1> DEFINE here  == RulesAt(to)
           moved == Nested(i)
           both  == here \o moved
<1>1. /\ i # None /\ impls[i].rules \in Seq(Rule) /\ here \in Seq(Rule)
      /\ RulesAt(i) = impls[i].rules
  <2>1. i # None /\ \A j \in alive : impls[j] \in Impl
    BY DEF IInv, Typed, None
  <2>2. \A j \in alive : impls[j].rules \in Seq(Rule)
    BY <2>1 DEF Impl
  <2> QED
    BY <2>1, <2>2 DEF RulesAt, IInv, Typed
<1> PICK shift \in Nat : shift = Len(here)
  BY <1>1
<1>2. /\ moved \in Seq(Rule) /\ Len(moved) = Len(impls[i].rules)
      /\ \A k \in DOMAIN impls[i].rules : moved[k].set = impls[i].rules[k].set
  BY NestedRules DEF IInv
<1> HIDE DEF here, moved
<1>3. /\ both \in Seq(Rule) /\ DOMAIN both = 1..(shift + Len(moved))
      /\ \A k \in 1..shift : both[k] = here[k]
      /\ \A k \in 1..Len(moved) : both[shift + k] = moved[k]
  <2>1. both \in Seq(Rule) /\ Len(both) = shift + Len(moved)
    BY <1>1, <1>2, ConcatProperties
  <2>2. ASSUME NEW k \in 1..shift
        PROVE  both[k] = here[k]
    BY <1>1, <1>2, ConcatProperties
  <2>3. ASSUME NEW k \in 1..Len(moved)
        PROVE  both[shift + k] = moved[k]
    <3>1. shift + k \in 1..(Len(here) + Len(moved)) /\ shift + k > Len(here)
      BY <1>1, <1>2
    <3>2. both[shift + k] = moved[(shift + k) - Len(here)]
      BY <1>1, <1>2, <3>1, ConcatProperties
    <3> QED
      BY <1>1, <1>2, <3>2
  <2> QED
    BY <2>1, <2>2, <2>3
<1>4. RulesAt(to)' = both
  BY DEF here, moved
<1> HIDE DEF both
<1>5. \A n, k : At(n, to, k)' <=>
                (At(n, to, k) \/ (\E m : At(n, i, m) /\ k = shift + m))
  <2> TAKE n, k
  <2>1. At(n, to, k)' <=> (k \in 1..(shift + Len(moved)) /\ both[k].set = n)
    BY <1>3, <1>4 DEF At
  <2>2. At(n, to, k) <=> (k \in 1..shift /\ here[k].set = n)
    BY <1>1 DEF At, here
  <2>3. \A m : At(n, i, m) <=> (m \in 1..Len(moved) /\ moved[m].set = n)
    BY <1>1, <1>2 DEF At
  <2>4. Len(moved) \in Nat
    BY <1>2
  <2>5. CASE At(n, to, k)'
    <3>1. CASE k <= shift
      BY <1>3, <2>1, <2>2, <2>4, <2>5, <3>1
    <3>2. CASE k > shift
      <4>1. k - shift \in 1..Len(moved) /\ k = shift + (k - shift)
        BY <2>1, <2>4, <2>5, <3>2
      <4>2. both[k] = moved[k - shift]
        BY <1>3, <4>1
      <4>3. At(n, i, k - shift)
        BY <2>1, <2>3, <2>5, <4>1, <4>2
      <4> QED
        BY <2>5, <4>1, <4>3
    <3> QED
      BY <2>1, <2>4, <2>5, <3>1, <3>2
  <2>6. ASSUME At(n, to, k)
        PROVE  At(n, to, k)'
    <3>1. k \in 1..shift /\ both[k] = here[k] /\ k \in 1..(shift + Len(moved))
      BY <1>3, <2>2, <2>4, <2>6
    <3> QED
      BY <2>1, <2>2, <2>6, <3>1
  <2>7. ASSUME NEW m, At(n, i, m), k = shift + m
        PROVE  At(n, to, k)'
    <3>1. m \in 1..Len(moved) /\ moved[m].set = n
      BY <2>3, <2>7
    <3>2. k \in 1..(shift + Len(moved)) /\ both[k] = moved[m]
      BY <1>3, <2>4, <2>7, <3>1
    <3> QED
      BY <2>1, <3>1, <3>2
  <2> QED
    BY <2>5, <2>6, <2>7
<1>6. \A n, j, k : j # to => (At(n, j, k)' <=> (At(n, j, k) /\ j # i))
  <2> TAKE n, j, k
  <2>1. CASE j = i
    BY <1>1, <2>1 DEF At
  <2>2. CASE j # i /\ j # to /\ j \in alive \cup {None}
    <3>1. RulesAt(j)' = RulesAt(j)
      BY <2>2
    <3> QED
      BY <2>2, <3>1 DEF At
  <2>3. CASE j # i /\ j \notin alive \cup {None}
    BY <2>3 DEF At
  <2> QED
    BY <2>1, <2>2, <2>3
<1>7. \A n, j, k : At(n, j, k)' => \E l, m : At(n, l, m)
  BY <1>5, <1>6
<1>8. OnlyGiven'
  BY <1>7 DEF IInv, OnlyGiven
<1>9. ASSUME NEW n \in DOMAIN given
      PROVE  \E j, k : /\ At(n, j, k)'
                       /\ \A l, m : At(n, l, m)' => l = j /\ m = k
  <2>1. PICK j, k : At(n, j, k)
    BY DEF IInv, OnePlace
  <2>2. \A l, m : At(n, l, m) => l = j /\ m = k
    BY <2>1 DEF IInv, OnePlace
  <2>3. CASE j = i
    <3>1. At(n, to, shift + k)'
      BY <1>5, <2>1, <2>3
    <3>2. ASSUME NEW l, NEW m, At(n, l, m)'
          PROVE  l = to /\ m = shift + k
      <4>1. l = to
        BY <1>6, <2>2, <2>3, <3>2
      <4>2. ~At(n, to, m)
        BY <2>2, <2>3
      <4> QED
        BY <1>5, <2>2, <2>3, <3>2, <4>1, <4>2
    <3> QED
      BY <3>1, <3>2
  <2>4. CASE j # i
    <3>1. At(n, j, k)'
      BY <1>5, <1>6, <2>1, <2>4
    <3>2. ASSUME NEW l, NEW m, At(n, l, m)'
          PROVE  l = j /\ m = k
      <4>1. \A x : ~At(n, i, x)
        BY <2>2, <2>4
      <4>2. At(n, l, m)
        BY <1>5, <1>6, <3>2, <4>1
      <4> QED
        BY <2>2, <4>2
    <3> QED
      BY <3>1, <3>2
  <2> QED
    BY <2>3, <2>4
<1>10. OnePlace'
  <2> SUFFICES ASSUME NEW n \in DOMAIN given
               PROVE  /\ \E j, k : At(n, j, k)'
                      /\ \A j, k, l, m : At(n, j, k)' /\ At(n, l, m)'
                                          => j = l /\ k = m
    BY DEF OnePlace
  <2> QED
    BY <1>9
<1> QED
  BY <1>8, <1>10

\* What a destructor does: the rules of i go to its parent, or to the DAG.
LEMMA DestroyEffect ==
    ASSUME IInv, Destroy, NEW i \in alive, i = releasing,
           NEW to \in alive \cup {None}, to = impls[i].parent
    PROVE  /\ to # i /\ i # None /\ alive' = alive \ {i} /\ given' = given
           /\ Children(i) = {} /\ releasing' = NextToGo(i)
           /\ Typed' /\ Len(impls') = Len(impls)
           /\ RulesAt(to)' = RulesAt(to) \o Nested(i)
           /\ \A j \in alive \cup {None} :
                 j # i /\ j # to => RulesAt(j)' = RulesAt(j)
           /\ \A j \in 1..Len(impls) : /\ impls'[j].parent = impls[j].parent
                                       /\ impls'[j].selector = impls[j].selector
<1>1. /\ impls \in Seq(Impl) /\ alive \subseteq 1..Len(impls) /\ Len(impls) \in Nat
      /\ i \in 1..Len(impls) /\ i # None /\ impls[i] \in Impl
      /\ Children(i) = {} /\ dag \in Seq(Rule)
  BY DEF IInv, Typed, ParentsLive, Destroy, None
<1>2. /\ alive' = alive \ {i} /\ releasing' = NextToGo(i) /\ given' = given
      /\ HandOn(i)
  BY DEF Destroy
<1>3. to # i
  BY <1>1 DEF Children
<1>4. Nested(i) \in Seq(Rule)
  BY NestedRules DEF IInv
<1> DEFINE emptied == [impls EXCEPT ![i].rules = <<>>]
<1>5. /\ emptied \in Seq(Impl) /\ DOMAIN emptied = 1..Len(impls)
      /\ Len(emptied) = Len(impls)
      /\ \A j \in 1..Len(impls) : /\ emptied[j].parent = impls[j].parent
                                  /\ emptied[j].selector = impls[j].selector
      /\ \A j \in 1..Len(impls) : j # i => emptied[j] = impls[j]
  <2> DEFINE last == [impls[i] EXCEPT !.rules = <<>>]
  <2>1. /\ last \in Impl /\ last.parent = impls[i].parent
        /\ last.selector = impls[i].selector
    <3> <<>> \in Seq(Rule)
      OBVIOUS
    <3> QED
      BY <1>1 DEF Impl
  <2>2. emptied = [impls EXCEPT ![i] = last]
    BY <1>1
  <2> HIDE DEF last, emptied
  <2> QED
    BY <1>1, <2>1, <2>2
<1>6. CASE to = None
  <2>1. impls' = emptied /\ dag' = dag \o Nested(i)
    BY <1>2, <1>6 DEF HandOn
  <2> HIDE DEF emptied
  <2>2. Typed'
    BY <1>1, <1>2, <1>4, <1>5, <2>1, ConcatProperties DEF IInv, Typed
  <2>3. RulesAt(to)' = RulesAt(to) \o Nested(i)
    BY <1>6, <2>1 DEF RulesAt
  <2>4. \A j \in alive \cup {None} : j # i /\ j # to => RulesAt(j)' = RulesAt(j)
    BY <1>1, <1>5, <1>6, <2>1 DEF RulesAt
  <2> QED
    BY <1>1, <1>2, <1>3, <1>5, <2>1, <2>2, <2>3, <2>4
<1>7. CASE to # None
  <2> DEFINE taken == [emptied EXCEPT ![to].rules = @ \o Nested(i)]
  <2>1. impls' = taken /\ dag' = dag
    BY <1>2, <1>7 DEF HandOn
  <2>2. to \in 1..Len(impls) /\ emptied[to] = impls[to] /\ impls[to] \in Impl
    BY <1>1, <1>3, <1>5, <1>7
  <2> HIDE DEF emptied
  <2>3. /\ taken \in Seq(Impl) /\ Len(taken) = Len(impls)
        /\ \A j \in 1..Len(impls) : /\ taken[j].parent = impls[j].parent
                                    /\ taken[j].selector = impls[j].selector
        /\ taken[to].rules = impls[to].rules \o Nested(i)
        /\ \A j \in 1..Len(impls) : j # i /\ j # to => taken[j] = impls[j]
    <3>1. impls[to].rules \o Nested(i) \in Seq(Rule)
      BY <1>4, <2>2, ConcatProperties DEF Impl
    <3> DEFINE all == impls[to].rules \o Nested(i)
    <3>2. taken = [emptied EXCEPT ![to].rules = all]
      BY <1>5, <2>2
    <3> HIDE DEF all
    <3>3. /\ [impls[to] EXCEPT !.rules = all] \in Impl
          /\ [impls[to] EXCEPT !.rules = all].rules = all
          /\ [impls[to] EXCEPT !.rules = all].parent = impls[to].parent
          /\ [impls[to] EXCEPT !.rules = all].selector = impls[to].selector
      BY <2>2, <3>1 DEF Impl, all
    <3>4. taken = [emptied EXCEPT ![to] = [impls[to] EXCEPT !.rules = all]]
      BY <2>2, <3>2
    <3> HIDE DEF taken
    <3>5. taken \in Seq(Impl) /\ Len(taken) = Len(impls)
      BY <1>1, <1>5, <2>2, <3>3, <3>4
    <3>6. /\ taken[to] = [impls[to] EXCEPT !.rules = all]
          /\ \A j \in 1..Len(impls) : j # to => taken[j] = emptied[j]
      BY <1>5, <2>2, <3>4
    <3> QED
      BY <1>5, <2>2, <3>3, <3>5, <3>6 DEF all
  <2> HIDE DEF taken
  <2>4. Typed'
    BY <1>1, <1>2, <2>1, <2>3 DEF IInv, Typed
  <2>5. RulesAt(to)' = RulesAt(to) \o Nested(i)
    BY <1>7, <2>1, <2>3 DEF RulesAt
  <2>6. \A j \in alive \cup {None} : j # i /\ j # to => RulesAt(j)' = RulesAt(j)
    BY <1>1, <2>1, <2>3 DEF RulesAt
  <2> QED
    BY <1>1, <1>2, <1>3, <2>1, <2>3, <2>4, <2>5, <2>6
<1> QED
  BY <1>6, <1>7

LEMMA DestroyInv ==
    ASSUME IInv, Destroy
    PROVE  IInv'
<1> PICK i \in alive : i = releasing
  BY DEF IInv, ParentsLive, Destroy
<1> PICK to \in alive \cup {None} : to = impls[i].parent
  BY DEF IInv, ParentsLive
<1>1. /\ to # i /\ i # None /\ alive' = alive \ {i} /\ given' = given
      /\ Children(i) = {} /\ releasing' = NextToGo(i) /\ Typed'
      /\ RulesAt(to)' = RulesAt(to) \o Nested(i)
      /\ \A j \in alive \cup {None} : j # i /\ j # to => RulesAt(j)' = RulesAt(j)
  BY DestroyEffect
<1>2. OnlyGiven' /\ OnePlace'
  BY <1>1, HandedOn
<1>3. \A j \in alive : impls'[j].parent = impls[j].parent
  <2>1. \A j \in 1..Len(impls) : impls'[j].parent = impls[j].parent
    BY DestroyEffect
  <2>2. alive \subseteq 1..Len(impls)
    BY DEF IInv, Typed
  <2> QED
    BY <2>1, <2>2
<1>4. \A j \in alive' : impls'[j].parent \in alive' \cup {None}
  BY <1>1, <1>3 DEF IInv, ParentsLive, Children
<1>5. ASSUME releasing' # None
      PROVE  releasing' \in alive' /\ Children(releasing)' = {}
  <2>1. to # None /\ releasing' = to /\ Children(to) = {i}
    BY <1>1, <1>5 DEF NextToGo
  <2>2. \A j \in alive' : impls'[j].parent # to
    BY <1>1, <1>3, <2>1 DEF Children
  <2> QED
    BY <1>1, <2>1, <2>2 DEF Children
<1>6. ParentsLive'
  BY <1>4, <1>5 DEF ParentsLive
<1> QED
  BY <1>1, <1>2, <1>6 DEF IInv

----------------------------------------------------------------------------
LEMMA NextInv == IInv /\ [Next]_vars => IInv'
<1> SUFFICES ASSUME IInv, [Next]_vars
             PROVE  IInv'
  OBVIOUS
<1>1. CASE Create
  <2>1. releasing = None /\ Made(None, <<>>) /\ <<>> \in Seq(Selectors)
    BY <1>1 DEF Create
  <2> QED
    BY <2>1, MadeInv
<1>2. ASSUME NEW i \in alive, NEW s \in Selectors, Select(i, s)
      PROVE  IInv'
  <2>1. releasing = None /\ Made(i, <<s>>) /\ <<s>> \in Seq(Selectors)
    BY <1>2 DEF Select, Held
  <2> QED
    BY <2>1, MadeInv
<1>3. ASSUME NEW i \in alive, Set(i)
      PROVE  IInv'
  BY <1>3, SetInv
<1>4. ASSUME NEW i \in alive, Pop(i)
      PROVE  IInv'
  <2>1. UNCHANGED <<impls, alive, releasing, dag, given>>
    BY <1>4 DEF Pop
  <2>2. ParentsLive'
    BY <2>1 DEF IInv, ParentsLive, Children
  <2> QED
    BY <2>1, <2>2, PlacesKept DEF IInv
<1>5. ASSUME NEW i \in alive, Drop(i)
      PROVE  IInv'
  <2>1. /\ UNCHANGED <<impls, alive, dag, given>>
        /\ releasing' # None => releasing' = i /\ Children(i) = {}
    BY <1>5 DEF Drop
  <2>2. ParentsLive'
    BY <2>1 DEF IInv, ParentsLive, Children
  <2> QED
    BY <2>1, <2>2, PlacesKept DEF IInv
<1>6. CASE Destroy
  BY <1>6, DestroyInv
<1>7. CASE UNCHANGED vars
  <2>1. UNCHANGED <<impls, alive, releasing, dag, given>>
    BY <1>7 DEF vars
  <2>2. ParentsLive'
    BY <2>1 DEF IInv, ParentsLive, Children
  <2> QED
    BY <2>1, <2>2, PlacesKept DEF IInv
<1> QED
  BY <1>1, <1>2, <1>3, <1>4, <1>5, <1>6, <1>7 DEF Next

\* The invariant the next theorem rests on: a living child's parent lives, a
\* destructor runs when there are no children, and every setting that was given
\* has one place (RuleBuilder::Impl and its destructors).
THEOREM BuilderInvariance == Spec => []IInv
<1>1. Init => IInv
  BY InitInv
<1>2. IInv /\ [Next]_vars => IInv'
  BY NextInv
<1> QED
  BY <1>1, <1>2, PTL DEF Spec

\* Every setting waits in one living Impl or is in the DAG, once, for any
\* number of builders, settings and handles, dropped in any order.
THEOREM NeverLostOrDoubled == Spec => []NoneLostOrDoubled
<1>1. IInv => NoneLostOrDoubled
  BY InvImpliesOneCopy
<1> QED
  BY <1>1, BuilderInvariance, PTL

----------------------------------------------------------------------------
\* Impls are made after their parents, and settings are given to Impls.
Below(is) == \A i \in 1..Len(is) : is[i].parent < i

GivenToImpls == \A n \in DOMAIN given : given[n] \in 1..Len(impls)

\* What rule r is nested in, with what Impl i, where it waits, is nested in, is
\* what the Impl it was given to is nested in; it waits in its own builder, or
\* is in the DAG when the whole builder is gone.
Placed(i, r) ==
    /\ r.set \in DOMAIN given
    /\ Paths[i] \o r.under = Paths[given[r.set]]
    /\ IF i = None THEN Roots[given[r.set]] \notin alive
                   ELSE Roots[given[r.set]] = Roots[i]

Holds(i, r) ==
    i \in alive \cup {None} /\ \E k \in DOMAIN RulesAt(i) : RulesAt(i)[k] = r

AllPlaced == \A i, r : Holds(i, r) => Placed(i, r)

Deep == Below(impls) /\ GivenToImpls /\ AllPlaced

PathsIn(is) ==
    CHOOSE path : path = [i \in 0..Len(is) |->
                             IF i = None THEN <<>>
                             ELSE path[is[i].parent] \o is[i].selector]

RootsIn(is) ==
    CHOOSE root : root = [i \in 1..Len(is) |->
                             IF is[i].parent = None THEN i
                             ELSE root[is[i].parent]]

LEMMA Unfolded == Paths = PathsIn(impls) /\ Roots = RootsIn(impls)
BY DEF Paths, Roots, PathsIn, RootsIn

LEMMA PathsEquation ==
    ASSUME NEW is \in Seq(Impl), Below(is)
    PROVE  /\ PathsIn(is) \in [0..Len(is) -> Seq(Selectors)]
           /\ PathsIn(is)[None] = <<>>
           /\ \A i \in 1..Len(is) :
                 PathsIn(is)[i] = PathsIn(is)[is[i].parent] \o is[i].selector
<1> DEFINE D == 0..Len(is)
           V == Seq(Selectors)
           value(i, f) == IF i = None THEN <<>> ELSE f[is[i].parent] \o is[i].selector
           G == [p \in D \X [D -> V] |-> value(p[1], p[2])]
<1>1. /\ Len(is) \in Nat /\ None \in D /\ <<>> \in V
  BY DEF None
<1>2. ASSUME NEW i \in D, i # None
      PROVE  /\ i \in 1..Len(is) /\ is[i].parent \in D /\ is[i].parent < i
             /\ is[i].selector \in V
  <2>1. i \in 1..Len(is) /\ is[i] \in Impl
    BY <1>1, <1>2 DEF None
  <2> QED
    BY <2>1 DEF Below, Impl
<1>3. ASSUME NEW i \in D, NEW f \in [D -> V]
      PROVE  value(i, f) \in V
  <2>1. CASE i = None
    BY <1>1, <2>1
  <2>2. CASE i # None
    <3>1. f[is[i].parent] \in V /\ is[i].selector \in V
      BY <1>2, <2>2
    <3> QED
      BY <2>2, <3>1, ConcatProperties
  <2> QED
    BY <2>1, <2>2
<1>4. G \in [D \X [D -> V] -> V]
  BY <1>3
<1>5. \A i \in D, f \in [D -> V] : G[<<i, f>>] = value(i, f)
  OBVIOUS
<1>6. ASSUME NEW i \in D, NEW f \in [D -> V], NEW g \in [D -> V],
             \A j \in D : j < i => f[j] = g[j]
      PROVE  value(i, f) = value(i, g)
  BY <1>2, <1>6
<1> HIDE DEF V, G, D
<1>7. PICK f \in [D -> V] : Solves(f, G, D)
  <2>1. LooksBelow(G, D, V)
    BY <1>5, <1>6 DEF LooksBelow
  <2>2. D \subseteq 0..Len(is) /\ V # {}
    BY <1>1 DEF D
  <2> QED
    BY <1>1, <1>4, <2>1, <2>2, RecursiveFunction
<1>8. \A i \in D : f[i] = value(i, f)
  BY <1>5, <1>7 DEF Solves
<1>9. f = [i \in D |-> value(i, f)]
  BY <1>8
<1>10. PathsIn(is) = [i \in D |-> value(i, PathsIn(is))]
  BY <1>9 DEF PathsIn, D
<1>11. PathsIn(is) \in [D -> V]
  <2> DEFINE S == {i \in Nat : i \in D => PathsIn(is)[i] \in V}
  <2>1. ASSUME NEW i \in Nat, \A j \in Nat : j < i => j \in S, i \in D
        PROVE  PathsIn(is)[i] \in V
    <3>1. PathsIn(is)[i] = value(i, PathsIn(is))
      BY <1>10, <2>1
    <3>2. CASE i = None
      BY <1>1, <3>1, <3>2
    <3>3. CASE i # None
      <4>1. PathsIn(is)[is[i].parent] \in V /\ is[i].selector \in V
        BY <1>2, <2>1, <3>3 DEF D
      <4> QED
        BY <3>1, <3>3, <4>1, ConcatProperties DEF V
    <3> QED
      BY <3>2, <3>3
  <2>2. Nat \subseteq S
    <3>1. \A i \in Nat : (\A j \in Nat : j < i => j \in S) => i \in S
      BY <2>1
    <3> HIDE DEF S
    <3> QED
      BY <3>1, StrongInduction
  <2>3. \A i \in D : PathsIn(is)[i] \in V
    BY <1>1, <2>2 DEF D
  <2> QED
    BY <1>10, <2>3
<1>12. ASSUME NEW i \in 1..Len(is)
       PROVE  PathsIn(is)[i] = PathsIn(is)[is[i].parent] \o is[i].selector
  <2>1. i \in D /\ i # None
    BY <1>1 DEF D, None
  <2> QED
    BY <1>10, <2>1
<1> QED
  BY <1>1, <1>10, <1>11, <1>12 DEF D, V

LEMMA RootsEquation ==
    ASSUME NEW is \in Seq(Impl), Below(is)
    PROVE  \A i \in 1..Len(is) :
              /\ RootsIn(is)[i] \in 1..i
              /\ RootsIn(is)[i] = IF is[i].parent = None THEN i
                                  ELSE RootsIn(is)[is[i].parent]
<1> DEFINE D == 1..Len(is)
           value(i, f) == IF is[i].parent = None THEN i ELSE f[is[i].parent]
           G == [p \in D \X [D -> Nat] |-> value(p[1], p[2])]
<1>1. Len(is) \in Nat
  OBVIOUS
<1>2. ASSUME NEW i \in D, is[i].parent # None
      PROVE  is[i].parent \in D /\ is[i].parent < i
  <2>1. is[i] \in Impl
    OBVIOUS
  <2> QED
    BY <1>2, <2>1 DEF Below, Impl, None
<1>3. G \in [D \X [D -> Nat] -> Nat]
  BY <1>1, <1>2
<1>4. \A i \in D, f \in [D -> Nat] : G[<<i, f>>] = value(i, f)
  OBVIOUS
<1>5. ASSUME NEW i \in D, NEW f \in [D -> Nat], NEW g \in [D -> Nat],
             \A j \in D : j < i => f[j] = g[j]
      PROVE  value(i, f) = value(i, g)
  BY <1>2, <1>5
<1> HIDE DEF G, D
<1>6. PICK f \in [D -> Nat] : Solves(f, G, D)
  <2>1. LooksBelow(G, D, Nat)
    <3> SUFFICES ASSUME NEW i \in D, NEW f \in [D -> Nat], NEW g \in [D -> Nat],
                        \A j \in D : j < i => f[j] = g[j]
                 PROVE  G[<<i, f>>] = G[<<i, g>>]
      BY DEF LooksBelow
    <3>1. value(i, f) = value(i, g)
      BY <1>5
    <3> QED
      BY <1>4, <3>1
  <2>2. D \subseteq 0..Len(is) /\ Nat # {}
    BY <1>1 DEF D
  <2> QED
    BY <1>1, <1>3, <2>1, <2>2, RecursiveFunction
<1>7. \A i \in D : f[i] = value(i, f)
  BY <1>4, <1>6 DEF Solves
<1>8. f = [i \in D |-> value(i, f)]
  BY <1>7
<1>9. RootsIn(is) = [i \in D |-> value(i, RootsIn(is))]
  BY <1>8 DEF RootsIn, D
<1> DEFINE S == {i \in Nat : i \in D => RootsIn(is)[i] \in 1..i}
<1>10. ASSUME NEW i \in Nat, \A j \in Nat : j < i => j \in S, i \in D
       PROVE  RootsIn(is)[i] \in 1..i
  <2>1. RootsIn(is)[i] = value(i, RootsIn(is)) /\ i \in 1..i
    BY <1>1, <1>9, <1>10 DEF D
  <2>2. CASE is[i].parent = None
    BY <2>1, <2>2
  <2>3. CASE is[i].parent # None
    <3>1. is[i].parent \in Nat /\ is[i].parent \in D /\ is[i].parent < i
      BY <1>2, <1>10, <2>3 DEF D
    <3>2. RootsIn(is)[is[i].parent] \in 1..is[i].parent
      BY <1>10, <3>1
    <3> QED
      BY <2>1, <2>3, <3>1, <3>2
  <2> QED
    BY <2>2, <2>3
<1>11. Nat \subseteq S
  <2>1. \A i \in Nat : (\A j \in Nat : j < i => j \in S) => i \in S
    BY <1>10
  <2> HIDE DEF S
  <2> QED
    BY <2>1, StrongInduction
<1>12. \A i \in D : RootsIn(is)[i] \in 1..i
  BY <1>1, <1>11 DEF D
<1>13. \A i \in D : RootsIn(is)[i] = value(i, RootsIn(is))
  BY <1>9
<1> QED
  BY <1>12, <1>13 DEF D

\* Impls made later, and rules, do not change where an Impl belongs.
LEMMA Stable ==
    ASSUME NEW is \in Seq(Impl), NEW js \in Seq(Impl), Below(is), Below(js),
           Len(is) <= Len(js),
           \A i \in 1..Len(is) : /\ js[i].parent = is[i].parent
                                 /\ js[i].selector = is[i].selector
    PROVE  /\ \A i \in 0..Len(is) : PathsIn(js)[i] = PathsIn(is)[i]
           /\ \A i \in 1..Len(is) : RootsIn(js)[i] = RootsIn(is)[i]
<1>1. Len(is) \in Nat /\ Len(js) \in Nat
  OBVIOUS
<1> DEFINE P == {i \in Nat : i <= Len(is) => PathsIn(js)[i] = PathsIn(is)[i]}
           R == {i \in Nat : i \in 1..Len(is) => RootsIn(js)[i] = RootsIn(is)[i]}
<1>2. ASSUME NEW i \in 1..Len(is)
      PROVE  /\ i \in 1..Len(js) /\ is[i].parent \in Nat /\ is[i].parent < i
             /\ is[i].parent <= Len(is)
  <2>1. is[i].parent \in Nat
    <3> is[i] \in Impl
      OBVIOUS
    <3> QED
      BY DEF Impl
  <2>2. is[i].parent < i
    BY DEF Below
  <2> QED
    BY <1>1, <2>1, <2>2
<1>3. Nat \subseteq P
  <2>1. ASSUME NEW i \in Nat, \A j \in Nat : j < i => j \in P, i <= Len(is)
        PROVE  PathsIn(js)[i] = PathsIn(is)[i]
    <3>1. CASE i = None
      BY <3>1, PathsEquation
    <3>2. CASE i # None
      <4>1. i \in 1..Len(is)
        BY <1>1, <2>1, <3>2 DEF None
      <4>2. PathsIn(js)[is[i].parent] = PathsIn(is)[is[i].parent]
        BY <1>2, <2>1, <4>1
      <4>3. /\ PathsIn(is)[i] = PathsIn(is)[is[i].parent] \o is[i].selector
            /\ PathsIn(js)[i] = PathsIn(js)[js[i].parent] \o js[i].selector
        BY <1>2, <4>1, PathsEquation
      <4> QED
        BY <4>1, <4>2, <4>3
    <3> QED
      BY <3>1, <3>2
  <2>2. \A i \in Nat : (\A j \in Nat : j < i => j \in P) => i \in P
    BY <2>1
  <2> HIDE DEF P
  <2> QED
    BY <2>2, StrongInduction
<1>4. Nat \subseteq R
  <2>1. ASSUME NEW i \in Nat, \A j \in Nat : j < i => j \in R, i \in 1..Len(is)
        PROVE  RootsIn(js)[i] = RootsIn(is)[i]
    <3>1. /\ js[i].parent = is[i].parent
          /\ RootsIn(js)[i] = IF js[i].parent = None THEN i
                              ELSE RootsIn(js)[js[i].parent]
          /\ RootsIn(is)[i] = IF is[i].parent = None THEN i
                              ELSE RootsIn(is)[is[i].parent]
      BY <1>2, <2>1, RootsEquation
    <3>2. is[i].parent # None =>
             RootsIn(js)[is[i].parent] = RootsIn(is)[is[i].parent]
      BY <1>1, <1>2, <2>1 DEF None
    <3> QED
      BY <3>1, <3>2
  <2>2. \A i \in Nat : (\A j \in Nat : j < i => j \in R) => i \in R
    BY <2>1
  <2> HIDE DEF R
  <2> QED
    BY <2>2, StrongInduction
<1>5. \A i \in 0..Len(is) : PathsIn(js)[i] = PathsIn(is)[i]
  BY <1>1, <1>3
<1> QED
  BY <1>1, <1>4, <1>5

\* While an Impl lives its builder does.
LEMMA RootAlive ==
    ASSUME Typed, ParentsLive, Below(impls), NEW i \in alive
    PROVE  Roots[i] \in alive
<1> DEFINE S == {j \in Nat : j \in alive => Roots[j] \in alive}
<1>1. /\ impls \in Seq(Impl) /\ alive \subseteq 1..Len(impls) /\ Len(impls) \in Nat
  BY DEF Typed
<1>2. ASSUME NEW j \in Nat, \A k \in Nat : k < j => k \in S, j \in alive
      PROVE  Roots[j] \in alive
  <2>1. /\ Roots[j] = IF impls[j].parent = None THEN j ELSE Roots[impls[j].parent]
        /\ impls[j].parent < j
    BY <1>1, <1>2, RootsEquation, Unfolded DEF Below
  <2>2. impls[j].parent \in alive \cup {None}
    BY <1>2 DEF ParentsLive
  <2>3. impls[j].parent # None => impls[j].parent \in alive /\ impls[j].parent \in Nat
    BY <1>1, <2>2
  <2> QED
    BY <1>2, <2>1, <2>3
<1>3. Nat \subseteq S
  <2>1. \A j \in Nat : (\A k \in Nat : k < j => k \in S) => j \in S
    BY <1>2
  <2> HIDE DEF S
  <2> QED
    BY <2>1, StrongInduction
<1>4. i \in Nat
  BY <1>1
<1> QED
  BY <1>3, <1>4

----------------------------------------------------------------------------
\* A step that keeps the Impls made so far keeps where they belong.
LEMMA WhereKept ==
    ASSUME IInv, Deep, impls' \in Seq(Impl), Below(impls)',
           Len(impls) <= Len(impls'),
           \A i \in 1..Len(impls) : /\ impls'[i].parent = impls[i].parent
                                    /\ impls'[i].selector = impls[i].selector
    PROVE  /\ \A i \in 0..Len(impls) : Paths'[i] = Paths[i]
           /\ \A i \in 1..Len(impls) : Roots'[i] = Roots[i]
<1>1. /\ Paths = PathsIn(impls) /\ Paths' = PathsIn(impls')
      /\ Roots = RootsIn(impls) /\ Roots' = RootsIn(impls')
  BY DEF Paths, Roots, PathsIn, RootsIn
<1>2. impls \in Seq(Impl) /\ Below(impls) /\ Below(impls')
  BY DEF IInv, Typed, Deep, Below
<1> QED
  BY <1>1, <1>2, Stable

\* A rule that does not move stays where it belongs, if its builder stays gone.
LEMMA StaysPlaced ==
    ASSUME IInv, Deep, NEW i \in alive \cup {None}, NEW r, Placed(i, r),
           \A j \in 0..Len(impls) : Paths'[j] = Paths[j],
           \A j \in 1..Len(impls) : Roots'[j] = Roots[j],
           DOMAIN given \subseteq DOMAIN given',
           \A n \in DOMAIN given : given'[n] = given[n],
           alive' \subseteq alive \cup {Len(impls) + 1}
    PROVE  Placed(i, r)'
<1> DEFINE g == given[r.set]
<1>1. /\ Len(impls) \in Nat /\ alive \subseteq 1..Len(impls)
      /\ r.set \in DOMAIN given /\ g \in 1..Len(impls)
      /\ i \in 0..Len(impls) /\ (i # None => i \in 1..Len(impls))
  BY DEF IInv, Typed, Deep, GivenToImpls, Placed, None
<1>2. given'[r.set] = g /\ r.set \in DOMAIN given'
  BY <1>1
<1>3. Paths'[i] \o r.under = Paths'[g]
  <2>1. Paths[i] \o r.under = Paths[g]
    BY DEF Placed
  <2>2. Paths'[i] = Paths[i] /\ Paths'[g] = Paths[g]
    BY <1>1
  <2> QED
    BY <2>1, <2>2
<1>4. Roots'[g] = Roots[g] /\ Roots[g] \in 1..Len(impls)
  <2>1. Roots[g] \in 1..g
    BY <1>1, RootsEquation, Unfolded DEF IInv, Typed, Deep
  <2> QED
    BY <1>1, <2>1
<1>5. IF i = None THEN Roots'[g] \notin alive' ELSE Roots'[g] = Roots'[i]
  BY <1>1, <1>4 DEF Placed
<1> QED
  BY <1>2, <1>3, <1>5 DEF Placed

LEMMA MadeDeep ==
    ASSUME IInv, IInv', Deep, NEW parent \in alive \cup {None},
           NEW selector \in Seq(Selectors), releasing = None, Made(parent, selector)
    PROVE  Deep'
<1> DEFINE made == [parent |-> parent, selector |-> selector, rules |-> <<>>]
<1>1. /\ impls \in Seq(Impl) /\ alive \subseteq 1..Len(impls) /\ Len(impls) \in Nat
      /\ impls' \in Seq(Impl) /\ given \in Seq(Nat)
  BY DEF IInv, Typed
<1> PICK new \in Nat : new = Len(impls) + 1
  BY <1>1
<1>2. /\ impls' = Append(impls, made) /\ alive' = alive \cup {new}
      /\ UNCHANGED <<releasing, dag, given>>
  BY DEF Made
<1>3. made.parent = parent /\ made.selector = selector /\ made.rules = <<>>
  OBVIOUS
<1> HIDE DEF made
<1>4. /\ Len(impls') = new /\ impls'[new] = made
      /\ \A i \in 1..Len(impls) : impls'[i] = impls[i]
  BY <1>1, <1>2
<1>5. Below(impls)'
  <2>1. parent \in Nat /\ parent < new
    BY <1>1 DEF None
  <2>2. \A i \in 1..Len(impls) : impls'[i].parent < i
    BY <1>4 DEF Deep, Below
  <2> QED
    BY <1>1, <1>3, <1>4, <2>1, <2>2 DEF Below
<1>6. /\ \A i \in 0..Len(impls) : Paths'[i] = Paths[i]
      /\ \A i \in 1..Len(impls) : Roots'[i] = Roots[i]
  BY <1>1, <1>4, <1>5, WhereKept
<1>7. GivenToImpls'
  BY <1>1, <1>2, <1>4 DEF Deep, GivenToImpls
<1>8. \A i, r : Holds(i, r)' => Holds(i, r)
  <2>1. \A i \in alive \cup {None} : RulesAt(i)' = RulesAt(i)
    BY <1>1, <1>2, <1>4 DEF RulesAt
  <2>2. DOMAIN (RulesAt(new)') = {}
    BY <1>3, <1>4 DEF RulesAt, None
  <2> QED
    BY <1>2, <2>1, <2>2 DEF Holds
<1>9. AllPlaced'
  <2>1. ASSUME NEW i, NEW r, Holds(i, r)'
        PROVE  Placed(i, r)'
    <3>1. i \in alive \cup {None} /\ Placed(i, r)
      BY <1>8, <2>1 DEF Deep, AllPlaced, Holds
    <3> QED
      BY <1>1, <1>2, <1>6, <3>1, StaysPlaced
  <2> QED
    BY <2>1 DEF AllPlaced
<1> QED
  BY <1>5, <1>7, <1>9 DEF Deep

LEMMA SetDeep ==
    ASSUME IInv, IInv', Deep, NEW i \in alive, Set(i)
    PROVE  Deep'
<1> PICK rule : rule = [set |-> Len(given) + 1, under |-> <<>>]
  OBVIOUS
<1>1. /\ impls \in Seq(Impl) /\ alive \subseteq 1..Len(impls) /\ Len(impls) \in Nat
      /\ impls' \in Seq(Impl) /\ given \in Seq(Nat) /\ Len(given) \in Nat
      /\ i \in 1..Len(impls) /\ i # None /\ impls[i] \in Impl
  BY DEF IInv, Typed, None
<1>2. /\ impls' = [impls EXCEPT ![i].rules = Append(@, rule)]
      /\ given' = Append(given, i) /\ UNCHANGED <<alive, releasing, dag>>
  BY DEF Set
<1>3. rule.set = Len(given) + 1 /\ rule.under = <<>>
  OBVIOUS
<1>4. /\ Len(impls') = Len(impls)
      /\ impls'[i].rules = Append(impls[i].rules, rule)
      /\ \A j \in 1..Len(impls) : /\ impls'[j].parent = impls[j].parent
                                  /\ impls'[j].selector = impls[j].selector
                                  /\ j # i => impls'[j].rules = impls[j].rules
  <2> DEFINE longer == [impls[i] EXCEPT !.rules = Append(@, rule)]
  <2>1. /\ longer.rules = Append(impls[i].rules, rule)
        /\ longer.parent = impls[i].parent /\ longer.selector = impls[i].selector
    BY <1>1 DEF Impl
  <2>2. impls' = [impls EXCEPT ![i] = longer]
    BY <1>2
  <2> HIDE DEF longer
  <2> QED
    BY <1>1, <2>1, <2>2
<1>5. Below(impls)'
  <2>1. \A j \in 1..Len(impls) : impls[j].parent < j
    BY DEF Deep, Below
  <2> QED
    BY <1>4, <2>1 DEF Below
<1>6. /\ \A j \in 0..Len(impls) : Paths'[j] = Paths[j]
      /\ \A j \in 1..Len(impls) : Roots'[j] = Roots[j]
  BY <1>1, <1>4, <1>5, WhereKept
<1>7. /\ DOMAIN given' = (DOMAIN given) \cup {Len(given) + 1}
      /\ given'[Len(given) + 1] = i
      /\ \A n \in DOMAIN given : given'[n] = given[n]
  BY <1>1, <1>2, AppendProperties
<1>8. GivenToImpls'
  BY <1>1, <1>4, <1>7 DEF Deep, GivenToImpls
<1>9. \A j, r : Holds(j, r)' => Holds(j, r) \/ (j = i /\ r = rule)
  <2>1. \A j \in alive \cup {None} : j # i => RulesAt(j)' = RulesAt(j)
    BY <1>1, <1>2, <1>4 DEF RulesAt
  <2>2. RulesAt(i)' = Append(RulesAt(i), rule)
    BY <1>1, <1>4 DEF RulesAt
  <2>3. RulesAt(i) \in Seq(Rule)
    BY <1>1 DEF RulesAt, Impl
  <2>4. \A k \in DOMAIN (RulesAt(i)') :
           \/ k \in DOMAIN RulesAt(i) /\ RulesAt(i)'[k] = RulesAt(i)[k]
           \/ RulesAt(i)'[k] = rule
    BY <2>2, <2>3, AppendProperties
  <2> QED
    BY <1>2, <2>1, <2>4 DEF Holds
<1>10. Placed(i, rule)'
  <2>1. Paths'[i] = Paths[i] /\ Paths[i] \in Seq(Selectors)
    <3>1. Paths \in [0..Len(impls) -> Seq(Selectors)]
      BY <1>1, PathsEquation, Unfolded DEF Deep
    <3>2. i \in 0..Len(impls)
      BY <1>1
    <3> QED
      BY <1>6, <3>1, <3>2
  <2>2. Paths'[i] \o <<>> = Paths'[i]
    BY <2>1, ConcatEmptySeq
  <2> QED
    BY <1>1, <1>3, <1>7, <2>2 DEF Placed
<1>11. AllPlaced'
  <2>1. ASSUME NEW j, NEW r, Holds(j, r)', Holds(j, r)
        PROVE  Placed(j, r)'
    <3>1. j \in alive \cup {None} /\ Placed(j, r)
      BY <2>1 DEF Deep, AllPlaced, Holds
    <3> QED
      BY <1>2, <1>6, <1>7, <3>1, StaysPlaced
  <2>2. ASSUME NEW j, NEW r, Holds(j, r)'
        PROVE  Placed(j, r)'
    BY <1>9, <1>10, <2>1, <2>2
  <2> QED
    BY <2>2 DEF AllPlaced
<1> QED
  BY <1>5, <1>8, <1>11 DEF Deep

LEMMA NestedTwice ==
    \A p, s, u \in Seq(Selectors) : \A t : t = p \o s => p \o (s \o u) = t \o u
<1> TAKE p, s, u \in Seq(Selectors)
<1> TAKE t
<1> HAVE t = p \o s
<1> QED
  BY ConcatAssociative

LEMMA DestroyDeep ==
    ASSUME IInv, IInv', Deep, Destroy
    PROVE  Deep'
<1> PICK i \in alive : i = releasing
  BY DEF IInv, ParentsLive, Destroy
<1> PICK to \in alive \cup {None} : to = impls[i].parent
  BY DEF IInv, ParentsLive
<1>1. /\ to # i /\ i # None /\ alive' = alive \ {i} /\ given' = given
      /\ Len(impls') = Len(impls)
      /\ RulesAt(to)' = RulesAt(to) \o Nested(i)
      /\ \A j \in alive \cup {None} : j # i /\ j # to => RulesAt(j)' = RulesAt(j)
      /\ \A j \in 1..Len(impls) : /\ impls'[j].parent = impls[j].parent
                                  /\ impls'[j].selector = impls[j].selector
  BY DestroyEffect
<1>2. /\ impls \in Seq(Impl) /\ alive \subseteq 1..Len(impls) /\ Len(impls) \in Nat
      /\ impls' \in Seq(Impl) /\ i \in 1..Len(impls) /\ impls[i] \in Impl
      /\ dag \in Seq(Rule) /\ to \in 0..Len(impls) /\ (to # None => to \in 1..Len(impls))
  BY DEF IInv, Typed, None
<1>3. Below(impls)'
  <2>1. \A j \in 1..Len(impls) : impls[j].parent < j
    BY DEF Deep, Below
  <2> QED
    BY <1>1, <2>1 DEF Below
<1>4. /\ \A j \in 0..Len(impls) : Paths'[j] = Paths[j]
      /\ \A j \in 1..Len(impls) : Roots'[j] = Roots[j]
  BY <1>1, <1>2, <1>3, WhereKept
<1>5. GivenToImpls'
  BY <1>1 DEF Deep, GivenToImpls
<1>6. \A j, r : Holds(j, r)' =>
          \/ Holds(j, r)
          \/ j = to /\ \E k \in DOMAIN Nested(i) : Nested(i)[k] = r
  <2>1. RulesAt(to) \in Seq(Rule) /\ Nested(i) \in Seq(Rule)
    <3>1. to # None => impls[to] \in Impl
      BY <1>2
    <3>2. RulesAt(to) \in Seq(Rule)
      BY <1>2, <3>1 DEF RulesAt, Impl
    <3> QED
      BY <3>2, NestedRules DEF IInv
  <2> DEFINE here  == RulesAt(to)
             moved == Nested(i)
  <2>2. RulesAt(to)' = here \o moved
    BY <1>1
  <2> HIDE DEF here, moved
  <2>3. \A k \in DOMAIN (here \o moved) :
           \/ k \in DOMAIN here /\ (here \o moved)[k] = here[k]
           \/ \E m \in DOMAIN moved : (here \o moved)[k] = moved[m]
    BY <2>1, ConcatProperties DEF here, moved
  <2>4. \A r : Holds(to, r)' =>
           Holds(to, r) \/ \E m \in DOMAIN moved : moved[m] = r
    BY <2>2, <2>3 DEF Holds, here
  <2>5. \A j, r : j # to /\ Holds(j, r)' => Holds(j, r)
    BY <1>1 DEF Holds
  <2> QED
    BY <2>4, <2>5 DEF moved
<1>7. ASSUME NEW q, NEW k \in DOMAIN Nested(i), Nested(i)[k] = q
      PROVE  Placed(to, q)'
  <2> PICK r : r = impls[i].rules[k]
    OBVIOUS
  <2> PICK n : n = r.set
    OBVIOUS
  <2> PICK u : u = r.under
    OBVIOUS
  <2> PICK s : s = impls[i].selector
    OBVIOUS
  <2> PICK p : p = Paths[to]
    OBVIOUS
  <2>1. r \in Rule /\ k \in DOMAIN impls[i].rules
    <3>1. impls[i].rules \in Seq(Rule) /\ DOMAIN Nested(i) = DOMAIN impls[i].rules
      BY <1>2 DEF Impl, Nested
    <3> QED
      BY <3>1
  <2>2. q.set = n /\ q.under = s \o u
    BY <1>7, <2>1 DEF Nested, Rule
  <2>3. Placed(i, r)
    BY <1>1, <2>1 DEF Deep, AllPlaced, Holds, RulesAt
  <2>4. n \in DOMAIN given /\ given[n] \in 1..Len(impls)
    BY <2>3 DEF Placed, Deep, GivenToImpls
  <2>5. Paths'[to] \o q.under = Paths'[given[n]]
    <3>1. Paths[i] = p \o s /\ p \in Seq(Selectors)
      BY <1>2, PathsEquation, Unfolded DEF Deep
    <3>2. s \in Seq(Selectors) /\ u \in Seq(Selectors)
      BY <1>2, <2>1 DEF Impl, Rule
    <3>3. p \o (s \o u) = Paths[i] \o u
      <4>1. PICK t : t = Paths[i]
        OBVIOUS
      <4>2. p \in Seq(Selectors) /\ t = p \o s
        BY <3>1, <4>1
      <4> HIDE <3>1
      <4>3. p \o (s \o u) = t \o u
        BY ONLY <3>2, <4>2, NestedTwice
      <4> QED
        BY <4>1, <4>3
    <3>4. Paths[i] \o u = Paths[given[n]]
      BY <2>3 DEF Placed
    <3>5. Paths'[to] = Paths[to] /\ Paths'[given[n]] = Paths[given[n]]
      BY <1>2, <1>4, <2>4
    <3> QED
      BY <2>2, <3>3, <3>4, <3>5
  <2>6. IF to = None THEN Roots'[given[n]] \notin alive'
                     ELSE Roots'[given[n]] = Roots'[to]
    <3>1. Roots[given[n]] = Roots[i] /\ Roots'[given[n]] = Roots[given[n]]
      BY <1>1, <1>4, <2>3, <2>4 DEF Placed
    <3>2. Roots[i] = IF to = None THEN i ELSE Roots[to]
      BY <1>2, RootsEquation, Unfolded DEF Deep
    <3> QED
      BY <1>1, <1>2, <1>4, <3>1, <3>2
  <2> QED
    BY <1>1, <2>2, <2>4, <2>5, <2>6 DEF Placed
<1>8. AllPlaced'
  <2>1. ASSUME NEW j, NEW r, Holds(j, r)', Holds(j, r)
        PROVE  Placed(j, r)'
    <3>1. j \in alive \cup {None} /\ Placed(j, r)
      BY <2>1 DEF Deep, AllPlaced, Holds
    <3> QED
      BY <1>1, <1>4, <3>1, StaysPlaced
  <2>2. ASSUME NEW j, NEW r, Holds(j, r)'
        PROVE  Placed(j, r)'
    BY <1>6, <1>7, <2>1, <2>2
  <2> QED
    BY <2>2 DEF AllPlaced
<1> QED
  BY <1>3, <1>5, <1>8 DEF Deep

\* Where nothing moves, everything stays where it belongs.
LEMMA StillDeep ==
    ASSUME Deep, UNCHANGED <<impls, alive, dag, given>>
    PROVE  Deep'
<1>1. Paths' = Paths /\ Roots' = Roots
  BY DEF Paths, Roots
<1>2. \A i, r : Holds(i, r)' <=> Holds(i, r)
  BY DEF Holds, RulesAt
<1>3. \A i, r : Placed(i, r)' <=> Placed(i, r)
  BY <1>1 DEF Placed
<1>4. AllPlaced'
  BY <1>2, <1>3 DEF Deep, AllPlaced
<1> QED
  BY <1>4 DEF Deep, GivenToImpls, Below

LEMMA NextDeep == IInv /\ IInv' /\ Deep /\ [Next]_vars => Deep'
<1> SUFFICES ASSUME IInv, IInv', Deep, [Next]_vars
             PROVE  Deep'
  OBVIOUS
<1>1. CASE Create
  <2>1. releasing = None /\ Made(None, <<>>) /\ <<>> \in Seq(Selectors)
    BY <1>1 DEF Create
  <2> QED
    BY <2>1, MadeDeep
<1>2. ASSUME NEW i \in alive, NEW s \in Selectors, Select(i, s)
      PROVE  Deep'
  <2>1. releasing = None /\ Made(i, <<s>>) /\ <<s>> \in Seq(Selectors)
    BY <1>2 DEF Select, Held
  <2> QED
    BY <2>1, MadeDeep
<1>3. ASSUME NEW i \in alive, Set(i)
      PROVE  Deep'
  BY <1>3, SetDeep
<1>4. ASSUME NEW i \in alive, Pop(i) \/ Drop(i)
      PROVE  Deep'
  BY <1>4, StillDeep DEF Pop, Drop
<1>5. CASE Destroy
  BY <1>5, DestroyDeep
<1>6. CASE UNCHANGED vars
  BY <1>6, StillDeep DEF vars
<1> QED
  BY <1>1, <1>2, <1>3, <1>4, <1>5, <1>6 DEF Next

LEMMA InitDeep == Init => Deep
<1> SUFFICES ASSUME Init PROVE Deep
  OBVIOUS
<1>1. \A i, r : ~Holds(i, r)
  BY DEF Init, Holds, RulesAt
<1> QED
  BY <1>1 DEF Init, Deep, Below, GivenToImpls, AllPlaced

\* Where every rule waits, it waits under the selectors and in the builder of
\* the handle it was given to (RuleBuilder::set and the destructors).
THEOREM PlacesInvariance == Spec => [](IInv /\ Deep)
<1>1. Init => Deep
  BY InitDeep
<1>2. IInv /\ IInv' /\ Deep /\ [Next]_vars => Deep'
  BY NextDeep
<1> QED
  BY <1>1, <1>2, BuilderInvariance, PTL DEF Spec

LEMMA DeepImpliesLands ==
    ASSUME IInv, Deep
    PROVE  LandsWhereGiven
<1> SUFFICES ASSUME NEW k \in DOMAIN dag
             PROVE  dag[k].under = Paths[given[dag[k].set]]
  BY DEF LandsWhereGiven
<1> PICK r : r = dag[k]
  OBVIOUS
<1>1. Placed(None, r)
  BY DEF Deep, AllPlaced, Holds, RulesAt
<1>2. Paths[None] = <<>>
  BY PathsEquation, Unfolded DEF IInv, Typed, Deep
<1>3. r.under \in Seq(Selectors)
  <2>1. r \in Rule
    BY DEF IInv, Typed
  <2> QED
    BY <2>1 DEF Rule
<1>4. <<>> \o r.under = r.under
  BY <1>3, ConcatEmptySeq
<1> QED
  BY <1>1, <1>2, <1>4 DEF Placed

LEMMA DeepImpliesWhole ==
    ASSUME IInv, Deep
    PROVE  WholeBuilders
<1> SUFFICES ASSUME NEW m \in DOMAIN given, NEW n \in DOMAIN given,
                    Roots[given[m]] = Roots[given[n]], InDag(m)
             PROVE  InDag(n)
  BY DEF WholeBuilders
<1> PICK k \in DOMAIN dag : dag[k].set = m
  BY DEF InDag
<1> PICK r : r = dag[k]
  OBVIOUS
<1>1. Placed(None, r)
  BY DEF Deep, AllPlaced, Holds, RulesAt
<1>2. Roots[given[n]] \notin alive
  BY <1>1 DEF Placed
<1>3. PICK i, l : At(n, i, l)
  BY DEF IInv, OnePlace
<1> PICK q : q = RulesAt(i)[l]
  OBVIOUS
<1>4. Placed(i, q) /\ q.set = n /\ i \in alive \cup {None}
  BY <1>3 DEF Deep, AllPlaced, Holds, At
<1>5. CASE i # None
  <2>1. Roots[i] = Roots[given[n]] /\ i \in alive
    BY <1>4, <1>5 DEF Placed
  <2>2. Roots[i] \in alive
    BY <2>1, RootAlive DEF IInv, Deep
  <2> QED
    BY <1>2, <2>1, <2>2
<1>6. CASE i = None
  BY <1>3, <1>6 DEF At, RulesAt, InDag
<1> QED
  BY <1>5, <1>6

\* Every setting reaches the DAG under the selectors of the handle it was given
\* to, through however many parents it was handed on.
THEOREM AlwaysLandsWhereGiven == Spec => []LandsWhereGiven
<1>1. IInv /\ Deep => LandsWhereGiven
  BY DeepImpliesLands
<1> QED
  BY <1>1, PlacesInvariance, PTL

\* The DAG never has some of the settings of a builder without the others.
THEOREM AlwaysWholeBuilders == Spec => []WholeBuilders
<1>1. IInv /\ Deep => WholeBuilders
  BY DeepImpliesWhole
<1> QED
  BY <1>1, PlacesInvariance, PTL
=============================================================================

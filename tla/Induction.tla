----------------------------- MODULE Induction -----------------------------
(***************************************************************************)
(* Induction over the naturals, and what it takes to reason about a        *)
(* recursive function, for the other proofs.  A recursive definition       *)
(* f[n \in D] == e is CHOOSE f : f = [n \in D |-> e]: nothing is known of  *)
(* it before such an f is shown to exist.  And lemmas on sequences.        *)
(***************************************************************************)
EXTENDS Naturals, SequencesExt, SequenceTheorems, WellFoundedInduction,
        NaturalsInduction, TLAPS

LEMMA StrongInduction ==
    ASSUME NEW S,
           \A n \in Nat : (\A m \in Nat : m < n => m \in S) => n \in S
    PROVE  Nat \subseteq S
<1> DEFINE T == Nat \ S
<1> SUFFICES ASSUME T # {}
             PROVE  FALSE
  OBVIOUS
<1>1. PICK x \in T : \A y \in T : <<y, x>> \notin OpToRel(<, Nat)
  <2>1. T \subseteq Nat
    OBVIOUS
  <2> HIDE DEF T
  <2> QED
    BY <2>1, NatLessThanWellFounded, WFMin
<1>2. \A y \in T : ~(y < x)
  BY <1>1 DEF OpToRel
<1> QED
  BY <1>2

LEMMA SimpleInduction ==
    ASSUME NEW S, 0 \in S, \A n \in Nat : n \in S => n + 1 \in S
    PROVE  Nat \subseteq S
<1>1. ASSUME NEW n \in Nat, \A m \in Nat : m < n => m \in S
      PROVE  n \in S
  <2>1. CASE n = 0
    BY <2>1
  <2>2. CASE n # 0
    <3>1. n - 1 \in Nat /\ n - 1 < n /\ (n - 1) + 1 = n
      BY <2>2
    <3>2. n - 1 \in S
      BY <1>1, <3>1
    <3> QED
      BY <3>1, <3>2
  <2> QED
    BY <2>1, <2>2
<1> QED
  BY <1>1, StrongInduction

LEMMA LeastElement ==
    ASSUME NEW T, T \subseteq Nat, T # {}
    PROVE  \E n \in T : \A m \in T : n <= m
<1> DEFINE S == Nat \ T
<1> SUFFICES ASSUME \A n \in T : \E m \in T : ~(n <= m)
             PROVE  FALSE
  OBVIOUS
<1>1. ASSUME NEW n \in Nat, \A m \in Nat : m < n => m \in S
      PROVE  n \in S
  BY <1>1
<1>2. Nat \subseteq S
  <2> HIDE DEF S
  <2> QED
    BY <1>1, StrongInduction
<1> QED
  BY <1>2

LEMMA GreatestElement ==
    ASSUME NEW last \in Nat, NEW T \in SUBSET (0..last), T # {}
    PROVE  \E n \in T : \A m \in T : ~(m > n)
<1> DEFINE U == {n \in Nat : last - n \in T}
<1>1. U # {}
  <2>1. PICK n \in T : TRUE
    OBVIOUS
  <2>2. n \in 0..last
    OBVIOUS
  <2>3. last - n \in Nat /\ last - (last - n) = n
    BY <2>2
  <2> QED
    BY <2>1, <2>3
<1>2. PICK n \in U : \A m \in U : n <= m
  <2>1. U \subseteq Nat
    OBVIOUS
  <2> HIDE DEF U
  <2> QED
    BY <1>1, <2>1, LeastElement
<1>3. ASSUME NEW m \in T
      PROVE  ~(m > last - n)
  <2>1. m \in 0..last /\ n \in Nat
    OBVIOUS
  <2>2. last - m \in Nat /\ last - (last - m) = m
    BY <2>1
  <2>3. n <= last - m
    BY <1>2, <2>2
  <2> QED
    BY <2>1, <2>3
<1> QED
  BY <1>3

\* G[<<n, f>>], what the value at n is when f has the others, depends on the
\* values of f below n only.
LooksBelow(G, D, V) ==
    \A n \in D : \A f, g \in [D -> V] :
        (\A m \in D : m < n => f[m] = g[m]) => G[<<n, f>>] = G[<<n, g>>]

Solves(f, G, D) == \A n \in D : f[n] = G[<<n, f>>]

LEMMA RecursiveFunction ==
    ASSUME NEW N \in Nat, NEW D, D \subseteq 0..N, NEW V, V # {},
           NEW G, G \in [D \X [D -> V] -> V], LooksBelow(G, D, V)
    PROVE  \E f \in [D -> V] : Solves(f, G, D)
<1> USE DEF LooksBelow, Solves
<1> DEFINE Below(n, f) == \A m \in D : m < n => f[m] = G[<<m, f>>]
           S == {n \in Nat : \E f \in [D -> V] : Below(n, f)}
<1> \A m \in D : m \in Nat
  OBVIOUS
<1>1. 0 \in S
  <2>1. PICK v : v \in V
    OBVIOUS
  <2>2. [m \in D |-> v] \in [D -> V] /\ Below(0, [m \in D |-> v])
    BY <2>1
  <2> QED
    BY <2>2
<1>2. ASSUME NEW n \in Nat, n \in S
      PROVE  n + 1 \in S
  <2>1. PICK f \in [D -> V] : Below(n, f)
    BY <1>2
  <2>2. CASE n \notin D
    <3>1. ASSUME NEW m \in D, m < n + 1
          PROVE  m < n
      <4>1. m \in Nat /\ m # n
        BY <2>2
      <4> QED
        BY <3>1, <4>1
    <3>2. Below(n + 1, f)
      BY <2>1, <3>1
    <3> QED
      BY <3>2
  <2>3. CASE n \in D
    <3> DEFINE g == [f EXCEPT ![n] = G[<<n, f>>]]
    <3>1. g \in [D -> V] /\ g[n] = G[<<n, f>>]
      BY <2>3
    <3>2. \A m \in D : m < n => g[m] = f[m]
      OBVIOUS
    <3> HIDE DEF g
    <3>3. ASSUME NEW m \in D, m < n + 1
          PROVE  g[m] = G[<<m, g>>]
      <4>1. m <= n /\ G[<<m, f>>] = G[<<m, g>>]
        <5>1. m \in Nat /\ m <= n
          <6> m \in Nat
            OBVIOUS
          <6> QED
            BY <3>3
        <5>2. ASSUME NEW l \in D, l < m
              PROVE  f[l] = g[l]
          <6>1. l \in Nat
            OBVIOUS
          <6> QED
            BY <3>2, <5>1, <5>2, <6>1
        <5> QED
          BY <3>1, <5>1, <5>2
      <4>2. CASE m = n
        BY <3>1, <4>1, <4>2
      <4>3. CASE m < n
        BY <2>1, <3>2, <4>1, <4>3
      <4> QED
        BY <4>1, <4>2, <4>3
    <3> QED
      BY <3>1, <3>3
  <2> QED
    BY <2>2, <2>3
<1>3. N + 1 \in S
  <2> HIDE DEF S
  <2> QED
    BY <1>1, <1>2, SimpleInduction
<1>4. PICK f \in [D -> V] : Below(N + 1, f)
  BY <1>3
<1> QED
  BY <1>4

\* Whatever f and g agree on below n, they agree on at n.
AgreeOnward(f, g, D) ==
    \A n \in D : (\A m \in D : m < n => f[m] = g[m]) => f[n] = g[n]

LEMMA SameThroughout ==
    ASSUME NEW D \in SUBSET Nat, NEW f, NEW g, AgreeOnward(f, g, D)
    PROVE  \A n \in D : f[n] = g[n]
<1> DEFINE S == {n \in Nat : n \in D => f[n] = g[n]}
<1>1. ASSUME NEW n \in Nat, \A m \in Nat : m < n => m \in S
      PROVE  n \in S
  BY <1>1 DEF AgreeOnward
<1>2. Nat \subseteq S
  <2> HIDE DEF S
  <2> QED
    BY <1>1, StrongInduction
<1> QED
  BY <1>2

----------------------------------------------------------------------------
(* The same where arguments are not numbers, or there is no largest one:   *)
(* mu says how far each is from the end of the recursion.                  *)

LooksDown(G, D, V, mu) ==
    \A x \in D : \A f, g \in [D -> V] :
        (\A y \in D : mu[y] < mu[x] => f[y] = g[y]) => G[<<x, f>>] = G[<<x, g>>]

\* f is a solution as far as arguments of a measure below n go.
SolvesBelow(f, G, D, mu, n) == \A x \in D : mu[x] < n => f[x] = G[<<x, f>>]

LEMMA SolvedBelow ==
    ASSUME NEW D, NEW mu \in [D -> Nat], NEW V, V # {},
           NEW G, G \in [D \X [D -> V] -> V], LooksDown(G, D, V, mu)
    PROVE  \A n \in Nat : \E f \in [D -> V] : SolvesBelow(f, G, D, mu, n)
<1> USE DEF SolvesBelow
<1> DEFINE S == {n \in Nat : \E f \in [D -> V] : SolvesBelow(f, G, D, mu, n)}
<1>1. 0 \in S
  <2>1. PICK v : v \in V
    OBVIOUS
  <2>2. [x \in D |-> v] \in [D -> V] /\ SolvesBelow([x \in D |-> v], G, D, mu, 0)
    BY <2>1
  <2> QED
    BY <2>2
<1>2. ASSUME NEW n \in Nat, n \in S
      PROVE  n + 1 \in S
  <2>1. PICK f \in [D -> V] : SolvesBelow(f, G, D, mu, n)
    BY <1>2
  <2> DEFINE g == [x \in D |-> G[<<x, f>>]]
  <2>2. g \in [D -> V] /\ \A x \in D : g[x] = G[<<x, f>>]
    OBVIOUS
  <2> HIDE DEF g
  <2>3. \A x \in D : mu[x] < n => g[x] = f[x]
    BY <2>1, <2>2
  <2>4. ASSUME NEW x \in D, mu[x] < n + 1
        PROVE  g[x] = G[<<x, g>>]
    <3>1. \A y \in D : mu[y] < mu[x] => f[y] = g[y]
      BY <2>3, <2>4
    <3>2. G[<<x, f>>] = G[<<x, g>>]
      BY <2>2, <3>1 DEF LooksDown
    <3> QED
      BY <2>2, <3>2
  <2> QED
    BY <2>2, <2>4
<1>3. Nat \subseteq S
  <2> HIDE DEF S
  <2> QED
    BY <1>1, <1>2, SimpleInduction
<1> QED
  BY <1>3

LEMMA SolutionsAgree ==
    ASSUME NEW D, NEW mu \in [D -> Nat], NEW V,
           NEW G, LooksDown(G, D, V, mu),
           NEW m \in Nat, NEW n \in Nat, m <= n,
           NEW f \in [D -> V], SolvesBelow(f, G, D, mu, m),
           NEW g \in [D -> V], SolvesBelow(g, G, D, mu, n)
    PROVE  \A x \in D : mu[x] < m => f[x] = g[x]
<1> DEFINE S == {k \in Nat : \A x \in D : mu[x] = k /\ k < m => f[x] = g[x]}
<1>1. ASSUME NEW k \in Nat, \A l \in Nat : l < k => l \in S
      PROVE  k \in S
  <2> SUFFICES ASSUME NEW x \in D, mu[x] = k, k < m
               PROVE  f[x] = g[x]
    OBVIOUS
  <2>1. \A y \in D : mu[y] < mu[x] => f[y] = g[y]
    BY <1>1
  <2>2. G[<<x, f>>] = G[<<x, g>>]
    BY <2>1 DEF LooksDown
  <2> QED
    BY <2>2 DEF SolvesBelow
<1>2. Nat \subseteq S
  <2> HIDE DEF S
  <2> QED
    BY <1>1, StrongInduction
<1> QED
  BY <1>2

LEMMA MeasuredRecursion ==
    ASSUME NEW D, NEW mu \in [D -> Nat], NEW V, V # {},
           NEW G, G \in [D \X [D -> V] -> V], LooksDown(G, D, V, mu)
    PROVE  \E f \in [D -> V] : Solves(f, G, D)
<1> DEFINE F(n) == CHOOSE f \in [D -> V] : SolvesBelow(f, G, D, mu, n)
<1>1. \A n \in Nat : F(n) \in [D -> V] /\ SolvesBelow(F(n), G, D, mu, n)
  BY SolvedBelow
<1> HIDE DEF F
<1> DEFINE h == [x \in D |-> F(mu[x] + 1)[x]]
<1>2. h \in [D -> V] /\ \A x \in D : h[x] = F(mu[x] + 1)[x]
  <2>1. \A x \in D : mu[x] + 1 \in Nat
    OBVIOUS
  <2> QED
    BY <1>1, <2>1
<1> HIDE DEF h
<1>3. ASSUME NEW x \in D
      PROVE  h[x] = G[<<x, h>>]
  <2> DEFINE n == mu[x] + 1
  <2>1. n \in Nat /\ mu[x] < n /\ mu[x] \in Nat
    OBVIOUS
  <2>2. ASSUME NEW y \in D, mu[y] < mu[x]
        PROVE  F(n)[y] = h[y]
    <3>1. mu[y] + 1 \in Nat /\ mu[y] + 1 <= n /\ mu[y] < mu[y] + 1
      BY <2>1, <2>2
    <3>2. F(mu[y] + 1)[y] = F(n)[y]
      <4> HIDE DEF n
      <4> QED
        BY <1>1, <2>1, <3>1, SolutionsAgree
    <3> QED
      BY <1>2, <3>2
  <2> HIDE DEF n
  <2>3. G[<<x, F(n)>>] = G[<<x, h>>]
    BY <1>1, <1>2, <2>1, <2>2 DEF LooksDown
  <2>4. F(n)[x] = G[<<x, F(n)>>]
    BY <1>1, <2>1 DEF SolvesBelow
  <2> QED
    BY <1>2, <2>3, <2>4 DEF n
<1> QED
  BY <1>2, <1>3 DEF Solves

\* Value by value from the one at zero.
Iterates(f, first, next) ==
    f[0] = first /\ \A n \in Nat : f[n + 1] = next[n][f[n]]

LEMMA ValueByValue ==
    ASSUME NEW V, NEW first \in V, NEW next \in [Nat -> [V -> V]]
    PROVE  \E f \in [Nat -> V] : Iterates(f, first, next)
<1> DEFINE value(n, f) == IF n = 0 THEN first ELSE next[n - 1][f[n - 1]]
           mu == [n \in Nat |-> n]
           G == [p \in Nat \X [Nat -> V] |-> value(p[1], p[2])]
<1>1. ASSUME NEW n \in Nat, NEW f \in [Nat -> V]
      PROVE  value(n, f) \in V
  <2>1. n # 0 => n - 1 \in Nat
    OBVIOUS
  <2> QED
    BY <2>1
<1>2. ASSUME NEW n \in Nat, NEW f, NEW g, \A m \in Nat : mu[m] < mu[n] => f[m] = g[m]
      PROVE  value(n, f) = value(n, g)
  <2>1. n # 0 => n - 1 \in Nat /\ mu[n - 1] < mu[n]
    OBVIOUS
  <2> QED
    BY <1>2, <2>1
<1>3. mu \in [Nat -> Nat]
  OBVIOUS
<1>4. \A n \in Nat : \A f : value(n + 1, f) = next[n][f[n]] /\ value(0, f) = first
  <2>1. \A n \in Nat : n + 1 # 0 /\ (n + 1) - 1 = n
    OBVIOUS
  <2> QED
    BY <2>1
<1> HIDE DEF value, mu
<1>5. G \in [Nat \X [Nat -> V] -> V] /\ \A n \in Nat, f \in [Nat -> V] : G[<<n, f>>] = value(n, f)
  BY <1>1
<1> HIDE DEF G
<1>6. LooksDown(G, Nat, V, mu)
  <2> SUFFICES ASSUME NEW n \in Nat, NEW f \in [Nat -> V], NEW g \in [Nat -> V],
                      \A m \in Nat : mu[m] < mu[n] => f[m] = g[m]
               PROVE  G[<<n, f>>] = G[<<n, g>>]
    BY DEF LooksDown
  <2>1. value(n, f) = value(n, g)
    BY <1>2
  <2> QED
    BY <1>5, <2>1
<1>7. PICK f \in [Nat -> V] : Solves(f, G, Nat)
  BY <1>3, <1>5, <1>6, MeasuredRecursion
<1>8. \A n \in Nat : f[n] = value(n, f)
  BY <1>5, <1>7 DEF Solves
<1>9. ASSUME NEW n \in Nat
      PROVE  f[n + 1] = next[n][f[n]]
  <2>1. n + 1 \in Nat
    OBVIOUS
  <2>2. f[n + 1] = value(n + 1, f)
    BY <1>8, <2>1
  <2> QED
    BY <1>4, <2>2
<1>10. f[0] = first
  BY <1>4, <1>8
<1> QED
  BY <1>9, <1>10 DEF Iterates

\* A function of positions in a text of so many characters: what it is at one
\* of them depends on what it is further on, and at 0.
LooksForward(G, last, V) ==
    \A i \in Nat : \A f, g \in [Nat -> V] :
        (i \in 1..last => \A j \in Nat : j = 0 \/ j > i => f[j] = g[j])
            => G[<<i, f>>] = G[<<i, g>>]

LEMMA ForwardRecursion ==
    ASSUME NEW last \in Nat, NEW V, V # {},
           NEW G, G \in [Nat \X [Nat -> V] -> V], LooksForward(G, last, V)
    PROVE  \E f \in [Nat -> V] : Solves(f, G, Nat)
<1> DEFINE mu == [i \in Nat |-> IF i \in 1..last THEN last + 1 - i ELSE 0]
<1>1. mu \in [Nat -> Nat]
  OBVIOUS
<1>2. ASSUME NEW i \in Nat, i \in 1..last, NEW j \in Nat, j = 0 \/ j > i
      PROVE  mu[j] < mu[i]
  <2>1. mu[i] = last + 1 - i /\ mu[i] > 0
    BY <1>2
  <2>2. CASE j \in 1..last
    <3>1. mu[j] = last + 1 - j /\ j > i
      BY <1>2, <2>2
    <3> QED
      BY <2>1, <3>1
  <2>3. CASE j \notin 1..last
    BY <2>1, <2>3
  <2> QED
    BY <2>2, <2>3
<1> HIDE DEF mu
<1>3. LooksDown(G, Nat, V, mu)
  BY <1>2 DEF LooksDown, LooksForward
<1> QED
  BY <1>1, <1>3, MeasuredRecursion

LEMMA ForwardInduction ==
    ASSUME NEW last \in Nat, NEW S,
           \A i \in Nat : (i \in 1..last => \A j \in Nat : j = 0 \/ j > i => j \in S)
                            => i \in S
    PROVE  Nat \subseteq S
<1> DEFINE mu == [i \in Nat |-> IF i \in 1..last THEN last + 1 - i ELSE 0]
           T == {n \in Nat : \A i \in Nat : mu[i] = n => i \in S}
<1>1. \A i \in Nat : mu[i] \in Nat
  OBVIOUS
<1>2. ASSUME NEW i \in Nat, i \in 1..last, NEW j \in Nat, j = 0 \/ j > i
      PROVE  mu[j] < mu[i]
  <2>1. mu[i] = last + 1 - i /\ mu[i] > 0
    BY <1>2
  <2>2. CASE j \in 1..last
    <3>1. mu[j] = last + 1 - j /\ j > i
      BY <1>2, <2>2
    <3> QED
      BY <2>1, <3>1
  <2>3. CASE j \notin 1..last
    BY <2>1, <2>3
  <2> QED
    BY <2>2, <2>3
<1> HIDE DEF mu
<1>3. ASSUME NEW n \in Nat, \A m \in Nat : m < n => m \in T
      PROVE  n \in T
  <2> SUFFICES ASSUME NEW i \in Nat, mu[i] = n
               PROVE  i \in S
    OBVIOUS
  <2>1. ASSUME i \in 1..last, NEW j \in Nat, j = 0 \/ j > i
        PROVE  j \in S
    BY <1>1, <1>2, <1>3, <2>1
  <2> QED
    BY <2>1
<1>4. Nat \subseteq T
  <2> HIDE DEF T
  <2> QED
    BY <1>3, StrongInduction
<1> QED
  BY <1>1, <1>4

\* Functions of positions that agree at one wherever they do further on.
AgreeForward(f, g, last) ==
    \A i \in Nat : (i \in 1..last => \A j \in Nat : j = 0 \/ j > i => f[j] = g[j])
                       => f[i] = g[i]

LEMMA ForwardAgreement ==
    ASSUME NEW last \in Nat, NEW f, NEW g, AgreeForward(f, g, last)
    PROVE  \A i \in Nat : f[i] = g[i]
<1> DEFINE S == {i \in Nat : f[i] = g[i]}
<1>1. \A i \in Nat : (i \in 1..last => \A j \in Nat : j = 0 \/ j > i => j \in S) => i \in S
  BY DEF AgreeForward
<1> HIDE DEF S
<1>2. Nat \subseteq S
  BY <1>1, ForwardInduction
<1> QED
  BY <1>2 DEF S

----------------------------------------------------------------------------
(* Sequences.                                                              *)

\* The first so many elements of a sequence.
LEMMA PrefixFacts ==
    ASSUME NEW S, NEW s \in Seq(S), NEW n \in Nat, n < Len(s)
    PROVE  /\ SubSeq(s, 1, n) \in Seq(S) /\ Len(SubSeq(s, 1, n)) = n
           /\ s[n + 1] \in S
           /\ SubSeq(s, 1, n + 1) = Append(SubSeq(s, 1, n), s[n + 1])
           /\ SubSeq(s, 1, 0) = <<>>
           /\ SubSeq(s, 1, Len(s)) = s
  OBVIOUS

\* f has, for every number of sequences, what so many of them are together.
Flattens(f, seqs) ==
    /\ f[0] = <<>>
    /\ \A n \in Nat : n < Len(seqs) => f[n + 1] = f[n] \o seqs[n + 1]

LEMMA FlattenTable ==
    ASSUME NEW S, NEW seqs \in Seq(Seq(S))
    PROVE  \E f \in [Nat -> Seq(S)] : Flattens(f, seqs)
<1> DEFINE next == [n \in Nat |-> [v \in Seq(S) |->
                       IF n < Len(seqs) THEN v \o seqs[n + 1] ELSE v]]
<1>1. ASSUME NEW n \in Nat, n < Len(seqs)
      PROVE  seqs[n + 1] \in Seq(S)
  <2>1. n + 1 \in 1..Len(seqs)
    BY <1>1
  <2> QED
    BY <2>1
<1>2. next \in [Nat -> [Seq(S) -> Seq(S)]]
  BY <1>1
<1>3. \A n \in Nat, v \in Seq(S) : n < Len(seqs) => next[n][v] = v \o seqs[n + 1]
  OBVIOUS
<1>4. <<>> \in Seq(S)
  OBVIOUS
<1> HIDE DEF next
<1>5. PICK f \in [Nat -> Seq(S)] : Iterates(f, <<>>, next)
  BY <1>2, <1>4, ValueByValue
<1> QED
  BY <1>3, <1>5 DEF Iterates, Flattens

LEMMA FlattenIs ==
    ASSUME NEW S, NEW seqs \in Seq(Seq(S)), NEW f, Flattens(f, seqs)
    PROVE  FlattenSeq(seqs) = f[Len(seqs)]
<1>1. CASE Len(seqs) = 0
  <2>1. seqs = <<>>
    BY <1>1
  <2> QED
    BY <1>1, <2>1 DEF FlattenSeq, Flattens
<1>2. CASE Len(seqs) # 0
  <2> DEFINE D == 1..Len(seqs)
             value(i, g) == IF i = 1 THEN seqs[i] ELSE g[i - 1] \o seqs[i]
             flatten[i \in D] == IF i = 1 THEN seqs[i] ELSE flatten[i - 1] \o seqs[i]
             h == [i \in D |-> f[i]]
  <2>1. FlattenSeq(seqs) = flatten[Len(seqs)]
    BY <1>2 DEF FlattenSeq
  <2>2. ASSUME NEW i \in D
        PROVE  h[i] = value(i, h)
    <3>1. i - 1 \in Nat /\ i - 1 < Len(seqs) /\ (i - 1) + 1 = i
      OBVIOUS
    <3>2. f[i] = f[i - 1] \o seqs[i]
      BY <3>1 DEF Flattens
    <3>3. CASE i = 1
      <4>1. <<>> \o seqs[1] = seqs[1]
        <5>1. seqs[1] \in Seq(S)
          BY <3>3
        <5> QED
          BY <5>1
      <4>2. f[1] = seqs[1]
        <5>1. i - 1 = 0 /\ f[0] = <<>>
          BY <3>3 DEF Flattens
        <5> QED
          BY <3>2, <3>3, <4>1, <5>1
      <4> QED
        BY <3>3, <4>2
    <3>4. CASE i # 1
      <4>1. i - 1 \in D
        BY <3>4
      <4> QED
        BY <3>2, <3>4, <4>1
    <3> QED
      BY <3>3, <3>4
  <2>3. h = [i \in D |-> value(i, h)]
    <3> HIDE DEF value
    <3>1. h = [i \in D |-> h[i]]
      OBVIOUS
    <3> HIDE DEF h
    <3> QED
      BY <2>2, <3>1
  <2>4. \A i \in D : h[i] = f[i]
    OBVIOUS
  <2> HIDE DEF h
  <2>5. flatten = [i \in D |-> value(i, flatten)]
    BY <2>3
  <2> HIDE DEF flatten
  <2>6. AgreeOnward(flatten, h, D)
    <3> SUFFICES ASSUME NEW n \in D, \A m \in D : m < n => flatten[m] = h[m]
                 PROVE  flatten[n] = h[n]
      BY DEF AgreeOnward
    <3>1. n # 1 => n - 1 \in D /\ n - 1 < n
      OBVIOUS
    <3> QED
      BY ZenonT(40), <2>2, <2>5, <3>1
  <2>7. D \in SUBSET Nat /\ Len(seqs) \in D
    BY <1>2
  <2> HIDE DEF D
  <2> QED
    BY <2>1, <2>4, <2>6, <2>7, SameThroughout
<1> QED
  BY <1>1, <1>2

\* Associativity, as a predicate: by the law itself provers never stop regrouping.
Regroups(x, y, z) == x \o (y \o z) = (x \o y) \o z

LEMMA Together ==
    ASSUME NEW T, NEW x \in Seq(T), NEW y \in Seq(T), NEW z \in Seq(T)
    PROVE  Regroups(x, y, z)
  BY ConcatAssociative DEF Regroups

LEMMA ConsIs ==
    ASSUME NEW T, NEW a \in T, NEW s \in Seq(T)
    PROVE  /\ <<a>> \o s \in Seq(T) /\ Len(<<a>> \o s) = Len(s) + 1 /\ Len(s) \in Nat
           /\ (<<a>> \o s)[1] = a
           /\ \A n \in 1..Len(s) : (<<a>> \o s)[n + 1] = s[n]
  OBVIOUS

LEMMA FlattenCons ==
    ASSUME NEW S, NEW a \in Seq(S), NEW seqs \in Seq(Seq(S))
    PROVE  /\ FlattenSeq(seqs) \in Seq(S)
           /\ FlattenSeq(<<a>> \o seqs) = a \o FlattenSeq(seqs)
           /\ FlattenSeq(<<>>) = <<>>
<1>1. PICK f \in [Nat -> Seq(S)] : Flattens(f, seqs)
  BY FlattenTable
<1> DEFINE all == <<a>> \o seqs
           g == [n \in Nat |-> IF n = 0 THEN <<>> ELSE a \o f[n - 1]]
<1>2. Len(seqs) \in Nat
  OBVIOUS
<1>3. FlattenSeq(seqs) = f[Len(seqs)] /\ f[Len(seqs)] \in Seq(S)
  BY <1>1, <1>2, FlattenIs
<1>4. /\ all \in Seq(Seq(S)) /\ Len(all) = Len(seqs) + 1 /\ all[1] = a
      /\ \A n \in 1..Len(seqs) : all[n + 1] = seqs[n]
  BY ConsIs
<1>5. g[0] = <<>> /\ \A n \in Nat : g[n + 1] = a \o f[n]
  <2>1. \A n \in Nat : n + 1 \in Nat /\ n + 1 # 0 /\ (n + 1) - 1 = n
    OBVIOUS
  <2> QED
    BY <2>1
<1> HIDE DEF g, all
<1>6. Flattens(g, all)
  <2> SUFFICES ASSUME NEW n \in Nat, n < Len(all)
               PROVE  g[n + 1] = g[n] \o all[n + 1]
    BY <1>5 DEF Flattens
  <2>1. CASE n = 0
    <3>1. g[1] = a \o f[0] /\ f[0] = <<>>
      <4>1. 0 \in Nat /\ 0 + 1 = 1
        OBVIOUS
      <4> QED
        BY <1>1, <1>5, <4>1 DEF Flattens
    <3>2. a \o <<>> = a /\ <<>> \o a = a
      OBVIOUS
    <3>3. g[0] = <<>> /\ all[1] = a /\ 0 + 1 = 1
      BY <1>4, <1>5
    <3> QED
      BY <2>1, <3>1, <3>2, <3>3
  <2>2. CASE n # 0
    <3> DEFINE m == n - 1
    <3>1. m \in Nat /\ m + 1 = n /\ m < Len(seqs) /\ n \in 1..Len(seqs)
      <4>1. Len(all) = Len(seqs) + 1
        BY <1>4
      <4>2. n < Len(seqs) + 1
        BY <4>1
      <4>3. \A x, l \in Nat : x # 0 /\ x < l + 1 =>
                x - 1 \in Nat /\ (x - 1) + 1 = x /\ x - 1 < l /\ x \in 1..l
        OBVIOUS
      <4> QED
        BY <1>2, <2>2, <4>2, <4>3
    <3>2. f[m + 1] = f[m] \o seqs[m + 1]
      BY <1>1, <3>1 DEF Flattens
    <3>3. g[n + 1] = a \o f[n] /\ g[n] = a \o f[m] /\ all[n + 1] = seqs[n]
      BY <1>4, <1>5, <3>1
    <3>4. f[m] \in Seq(S) /\ seqs[n] \in Seq(S)
      BY <3>1
    <3> HIDE DEF m
    <3>5. a \o (f[m] \o seqs[n]) = (a \o f[m]) \o seqs[n]
      <4> DEFINE x == f[m]
                 y == seqs[n]
      <4>1. x \in Seq(S) /\ y \in Seq(S)
        BY <3>4
      <4> HIDE DEF x, y
      <4>2. Regroups(a, x, y)
        BY <4>1, Together
      <4> QED
        BY <4>2 DEF x, y, Regroups
    <3> QED
      BY <3>1, <3>2, <3>3, <3>5
  <2> QED
    BY <2>1, <2>2
<1>7. FlattenSeq(all) = g[Len(all)]
  BY <1>4, <1>6, FlattenIs
<1>8. FlattenSeq(all) = a \o f[Len(seqs)]
  BY <1>2, <1>4, <1>5, <1>7
<1>9. FlattenSeq(<<>>) = <<>>
  <2>1. Len(<<>>) = 0
    OBVIOUS
  <2> QED
    BY <2>1 DEF FlattenSeq
<1> QED
  BY <1>3, <1>8, <1>9 DEF all

LEMMA JoinIs ==
    ASSUME NEW D, NEW x \in Seq(D), NEW y \in Seq(D)
    PROVE  x \o y \in Seq(D) /\ Len(x \o y) = Len(x) + Len(y) /\ Len(x) \in Nat
  OBVIOUS
=============================================================================

------------------------------ MODULE Meaning ------------------------------
(***************************************************************************)
(* What a context promises, said without the search that computes it: for  *)
(* the keys of the steps from the root context to a context, and the rules *)
(* at the time each of these was built, which nodes are active at which    *)
(* step and with which specificity, and which settings of a property win.  *)
(*                                                                         *)
(* ks is the sequence of those keys, ds that of the DAGs, each grown from  *)
(* the one before it; ks[1] is the root context's.                         *)
(***************************************************************************)
EXTENDS Dag, Sequences, SequencesExt

IsChild(d, n) == \E e \in d.edges : e.child = n

EdgeTo(d, n) == CHOOSE e \in d.edges : e.child = n

TallyAt(d, n) == CHOOSE t \in d.tallies : t.node = n

(***************************************************************************)
(* Row(ds, ks, rows, n)[j] holds the specificity with which node n is      *)
(* active at step j, and is empty when n is not active there.  rows are    *)
(* those of the nodes created before n, the only ones n depends on.        *)
(*                                                                         *)
(* A child is active where its key matches if its parent was active at an  *)
(* earlier step.  The root node alone has children at its own step: that   *)
(* is how constraints met while the root context is built take effect.  A  *)
(* conjunction is active where one leg is, once both have been, and counts *)
(* the best that each leg has been worth so far; a disjunction is as good  *)
(* as its better leg.  What was loaded after a step is not active there,   *)
(* and a conjunction has not seen its legs matched there either.           *)
(***************************************************************************)
There(ds, n) == {j \in DOMAIN ds : n \in NodesOf(ds[j])}

ChildRow(ds, ks, rows, n) ==
    LET e == EdgeTo(Last(ds), n)
        from(j) == UNION {rows[e.parent][i] :
                             i \in {i \in 1..j : i < j \/ e.parent = Root}}
    IN  [j \in DOMAIN ks |->
            IF j \in There(ds, n) /\ Matches(e.key, ks[j])
            THEN Highest({Plus(s, KeySpecificity(e.key)) : s \in from(j)})
            ELSE {}]

AndRow(there, first, second) ==
    LET upTo(row, j) == Highest(UNION {row[i] : i \in there \cap 1..j})
    IN  [j \in DOMAIN first |->
            IF j \notin there \/ first[j] \cup second[j] = {} THEN {}
            ELSE {Plus(a, b) : a \in upTo(first, j), b \in upTo(second, j)}]

OrRow(there, first, second) ==
    [j \in DOMAIN first |->
        IF j \in there THEN Highest(first[j] \cup second[j]) ELSE {}]

Row(ds, ks, rows, n) ==
    IF n = Root THEN [j \in DOMAIN ks |-> IF j = 1 THEN {Spec0} ELSE {}]
    ELSE IF IsChild(Last(ds), n) THEN ChildRow(ds, ks, rows, n)
    ELSE LET t == TallyAt(Last(ds), n)
         IN  IF t.kind = "and"
             THEN AndRow(There(ds, n), rows[t.first], rows[t.second])
             ELSE OrRow(There(ds, n), rows[t.first], rows[t.second])

\* Active(ds, ks)[n][j]: the rows of all the nodes.
Active(ds, ks) ==
    LET rows[n \in 0..Last(ds).size] ==
            IF n = 0 THEN <<>>
            ELSE LET before == rows[n - 1]
                 IN  Append(before, Row(ds, ks, before, n))
    IN  rows[Last(ds).size]

----------------------------------------------------------------------------
(***************************************************************************)
(* A step whose key is k satisfies its constraints when every node active  *)
(* at that step asks for no more than k says.  The key of a context is the *)
(* smallest such key that says what was requested.  prior are the keys of  *)
(* the steps above it.                                                     *)
(***************************************************************************)
Satisfied(ds, prior, k) ==
    LET active == Active(ds, Append(prior, k))
    IN  \A n \in NodesOf(Last(ds)) :
            active[n][Len(ds)] # {} => Matches(ConstraintOf(Last(ds), n), k)

ClosedKey(ds, prior, requested) ==
    LET closed == {k \in Keys : Matches(requested, k) /\ Satisfied(ds, prior, k)}
    IN  CHOOSE k \in closed : \A other \in closed : Matches(k, other)

----------------------------------------------------------------------------
(* The settings of property x that apply in a context, each at the steps   *)
(* that were built when it was there, and those among them that no other   *)
(* one is better than.                                                     *)

Candidates(ds, ks, x) ==
    LET active == Active(ds, ks)
        props  == {p \in Last(ds).props : p.name = x}
        at(p)  == {j \in DOMAIN ks : p \in ds[j].props}
    IN  UNION {{[spec |-> s, override |-> p.override, prop |-> p] :
                   s \in UNION {active[p.node][j] : j \in at(p)}} :
                p \in props}

Winners(ds, ks, x) ==
    LET all == Candidates(ds, ks, x)
    IN  {c.prop : c \in {b \in all : \A a \in all : ~Better(a, b)}}
=============================================================================

----------------------------- MODULE RuleFiles -----------------------------
(***************************************************************************)
(* Small rule files, as the DAGs that loading them makes.  Each comes in   *)
(* two parts, as if split over two files: the rules before and after the   *)
(* semicolon that stands alone.                                            *)
(***************************************************************************)
EXTENDS Dag, SequencesExt

Key(names, values) == [names |-> names, values |-> values]
KeyA   == Key({"a"}, {})
KeyB   == Key({"b"}, {})
KeyC   == Key({"c"}, {})
KeyAv  == Key({"a"}, {<<"a", "v">>})
KeyAB  == Key({"a", "b"}, {})
KeyAvB == Key({"a", "b"}, {<<"a", "v">>})

(* Operations on the DAG; Loaded performs a sequence of them in order.     *)
Child(n, k)   == [op |-> "child", node |-> n, key |-> k]
And(f, s)     == [op |-> "join", kind |-> "and", first |-> f, second |-> s]
Or(f, s)      == [op |-> "join", kind |-> "or", first |-> f, second |-> s]
Set(n, x)     == [op |-> "prop", node |-> n, name |-> x, override |-> FALSE]
Force(n, x)   == [op |-> "prop", node |-> n, name |-> x, override |-> TRUE]
Require(n, k) == [op |-> "constrain", node |-> n, key |-> k]

Perform(d, o) ==
    CASE o.op = "child"     -> WithChild(d, o.node, o.key)
      [] o.op = "join"      -> WithJoin(d, o.kind, o.first, o.second)
      [] o.op = "prop"      -> WithProperty(d, o.node, o.name, o.override)
      [] o.op = "constrain" -> WithConstraint(d, o.node, o.key)

Loaded(d, ops) == FoldLeft(Perform, d, ops)

File(ops, more) == LET first == Loaded(EmptyDag, ops)
                   IN  <<first, Loaded(first, more)>>

\* x = 0;  a : x = 1;  b : x = 2  ;  a b : x = 3;  a b : y = 4
\* The root's setting is outranked; a and b conflict unless met together.
\* The conjunction is there too late for the legs matched before it.
Conjunction ==
    File(<<Set(1, "x"), Child(1, KeyA), Set(2, "x"), Child(1, KeyB), Set(3, "x")>>,
         <<And(2, 3), Set(4, "x"), Set(4, "y")>>)

\* a : @constrain b;  c > b : x = 2  ;  b : @constrain c;  a c : x = 1
\* A constraint brings in a node with another one, and then a conjunction.
Constrained ==
    File(<<Child(1, KeyA), Require(2, KeyB), Child(1, KeyC), Child(3, KeyB),
           Set(4, "x")>>,
         <<Child(1, KeyB), Require(5, KeyC), And(2, 3), Set(6, "x")>>)

\* a, a.v, a.v/b : x = 1  ;  a.v : x = 2;  (a, a.v, a.v/b) > b : y = 3
\* (a, a.v, a.v/b) > b : @constrain a.v
\* One node reached with several specificities, in any order.
Disjunction ==
    File(<<Child(1, KeyA), Child(1, KeyAv), Or(2, 3), Child(1, KeyAvB), Or(4, 5),
           Set(6, "x")>>,
         <<Set(3, "x"), Child(6, KeyB), Set(7, "y"), Require(7, KeyAv)>>)

\* a : @override x = 1;  a, b : y = 2  ;  a.v : x = 3;  b > a : @override x = 4
\* a, b : x = 5
Overrides ==
    File(<<Child(1, KeyA), Force(2, "x"), Child(1, KeyB), Or(2, 3), Set(4, "y")>>,
         <<Child(1, KeyAv), Set(5, "x"), Child(3, KeyA), Force(6, "x"),
           Set(4, "x")>>)

\* @constrain a;  a > b : x = 1  ;  a (b, c) : x = 2;  a : @constrain c
\* The root context is constrained by nodes it activates itself.
RootConstraint ==
    File(<<Require(1, KeyA), Child(1, KeyA), Child(2, KeyB), Set(3, "x")>>,
         <<Child(1, KeyB), Child(1, KeyC), Or(4, 5), And(2, 6), Set(7, "x"),
           Require(2, KeyC)>>)

\* (a > b) a : x = 1  ;  (a, a.v) (a > b) : x = 2;  a > a : x = 3
\* Conjunctions whose legs lie under one another and improve in turn.
Nesting ==
    File(<<Child(1, KeyA), Child(2, KeyB), And(3, 2), Set(4, "x")>>,
         <<Child(1, KeyAv), Or(2, 5), And(6, 3), Set(7, "x"), Child(2, KeyA),
           Set(8, "x")>>)

AllFiles == {Conjunction, Constrained, Disjunction, Overrides, RootConstraint,
             Nesting}

FileNames == {"a", "b", "c"}
FileValues == {"v"}
FileProps == {"x", "y"}
=============================================================================

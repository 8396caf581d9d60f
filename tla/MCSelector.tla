----------------------------- MODULE MCSelector -----------------------------
(* Selectors over two names, of up to three steps.                         *)
EXTENDS Selector

CONSTANTS a, b

TwoNames == {a, b}

K(names) == [names |-> names, values |-> {}]

Step(n) == [op |-> "step", key |-> K({n})]

Join(o, l, r) == [op |-> o, left |-> l, right |-> r]

Ops == {"descendant", "and", "or"}

Steps == {Step(n) : n \in TwoNames}

One == {<<x>> : x \in Steps}

Two == {<<x, y, Join(o, 1, 2)>> : x, y \in Steps, o \in Ops}

\* Grouped to the left and to the right.
Three == {<<x, y, Join(o, 1, 2), z, Join(q, 3, 4)>> : x, y, z \in Steps, o, q \in Ops}
         \cup {<<x, y, z, Join(o, 2, 3), Join(q, 1, 4)>> : x, y, z \in Steps, o, q \in Ops}

Blocks(sels) == [selector : sels, trailing : BOOLEAN]

Alone(sels) == {<<[selector |-> s, trailing |-> FALSE]>> : s \in sels}

\* One block of up to three steps, two of up to two, or three of one each.
Written == Alone(One \cup Two \cup Three)
           \cup {<<x, y>> : x \in Blocks(One \cup Two), y \in Blocks(One \cup Two)}
           \cup {<<x, y, z>> : x, y, z \in Blocks(One)}

Simple == Alone(One \cup Two)

\* A root context with or without a key of its own, and three steps below.
FourSteps == {<<root>> \o steps :
                 root \in {EmptyKey, K({a})},
                 steps \in [1..3 -> {K({a}), K({b}), K({a, b})}]}
=============================================================================

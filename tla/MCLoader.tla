------------------------------ MODULE MCLoader ------------------------------
(* Files of up to two rules each, with every way to import each other.     *)
EXTENDS Loader

CONSTANTS a, b, c, s

TwoFiles == {a, b}

ThreeFiles == {a, b, c}

Contents(n) ==
    [rules : UNION {[1..k -> Files \cup {s}] : k \in 0..n},
     broken : BOOLEAN, exists : {TRUE}]
    \cup {[rules |-> <<>>, broken |-> FALSE, exists |-> FALSE]}

TwoRules == Contents(2)

OneRule == Contents(1)

\* The resolver offers the file that has the name of the location.
ByName == [f \in Files |-> <<f>>]

\* When a is not accepted, the resolver tries b.
WithFallback == [f \in Files |-> IF f = a THEN <<a, b>> ELSE <<f>>]
=============================================================================

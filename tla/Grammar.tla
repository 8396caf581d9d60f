------------------------------ MODULE Grammar ------------------------------
(***************************************************************************)
(* The language of rule files as the documentation gives it: the grammar   *)
(* of misc/grammar.txt, and the precedence of operators in selectors of    *)
(* README.md.  Parser.tla is checked against both.                         *)
(***************************************************************************)
EXTENDS Naturals, Sequences

CONSTANT ValueTokens  \* the tokens that are values of properties

(***************************************************************************)
(* The productions, with a nonterminal of its own for what the grammar     *)
(* repeats or makes optional.  misc/grammar.txt leaves out that there may  *)
(* be no rules at all.                                                     *)
(***************************************************************************)
Productions ==
    [ruleset    |-> {<<"@context", "(", "selector", ")", "semi", "rules">>, <<"rules">>},
     semi       |-> {<<";">>, <<>>},
     rules      |-> {<<"rule", "rules">>, <<>>},
     rule       |-> {<<"prule", "semi">>, <<"selector", "body">>},
     body       |-> {<<":", "prule", "semi">>, <<"{", "rules", "}">>},
     prule      |-> {<<"@import", "string">>, <<"@constrain", "singlestep">>,
                     <<"@override", "setting">>, <<"setting">>},
     setting    |-> {<<"ident", "=", "val">>},
     selector   |-> {<<"sum", "arrow">>},
     arrow      |-> {<<>>, <<">">>},
     sum        |-> {<<"product", "sums">>},
     sums       |-> {<<>>, <<",", "product", "sums">>},
     product    |-> {<<"term", "terms">>},
     terms      |-> {<<>>, <<"term", "terms">>},
     term       |-> {<<"step", "steps">>},
     steps      |-> {<<>>, <<">", "step", "steps">>},
     step       |-> {<<"singlestep">>, <<"(", "sum", ")">>},
     singlestep |-> {<<"ident", "dots", "slash">>},
     dots       |-> {<<>>, <<".", "ident", "dots">>},
     slash      |-> {<<>>, <<"/", "singlestep">>},
     ident      |-> {<<"ID">>, <<"string">>},
     string     |-> {<<"STRING">>, <<"EMPTY">>},
     val        |-> {<<t>> : t \in ValueTokens}]

Nonterminals == DOMAIN Productions

(***************************************************************************)
(* A derivation in progress is what is left to derive; these are all that  *)
(* some derivations can come to before they read another token.            *)
(***************************************************************************)
RECURSIVE Expanded(_)
Expanded(derivations) ==
    LET open == {d \in derivations : d # <<>> /\ Head(d) \in Nonterminals}
    IN  IF open = {} THEN derivations
        ELSE Expanded((derivations \ open) \cup
                UNION {{body \o Tail(d) : body \in Productions[Head(d)]} : d \in open})

Start == {<<"ruleset">>}

\* The derivations that read token t next.
After(derivations, t) ==
    {Tail(d) : d \in {e \in Expanded(derivations) : e # <<>> /\ Head(e) = t}}

Complete(derivations) == <<>> \in Expanded(derivations)

----------------------------------------------------------------------------
(***************************************************************************)
(* A selector, as the sequence of its steps, operators and parentheses,    *)
(* read by precedence: '>' binds tighter than juxtaposition, which binds   *)
(* tighter than ','; operators of a kind apply from left to right, so the  *)
(* last of the loosest ones is applied last.  The result is in postfix     *)
(* order.                                                                  *)
(***************************************************************************)
Depth(ts, p) ==
    Len(SelectSeq(SubSeq(ts, 1, p), LAMBDA t : t = "("))
    - Len(SelectSeq(SubSeq(ts, 1, p), LAMBDA t : t = ")"))

Outside(ts, p) == Depth(ts, p) = 0

LastOf(ps) == CHOOSE p \in ps : \A q \in ps : q <= p

RECURSIVE Postfix(_)
Postfix(ts) ==
    LET commas == {p \in DOMAIN ts : ts[p] = "," /\ Outside(ts, p)}
        juxtaposed == {p \in 1..(Len(ts) - 1) :
                          /\ ts[p] \in {"step", ")"} /\ Outside(ts, p)
                          /\ ts[p + 1] \in {"step", "("}}
        arrows == {p \in DOMAIN ts : ts[p] = ">" /\ Outside(ts, p)}
        around(p, op) == Postfix(SubSeq(ts, 1, p - 1))
                         \o Postfix(SubSeq(ts, p + 1, Len(ts))) \o <<op>>
        between(p) == Postfix(SubSeq(ts, 1, p))
                      \o Postfix(SubSeq(ts, p + 1, Len(ts))) \o <<"and">>
    IN  IF commas # {} THEN around(LastOf(commas), "or")
        ELSE IF juxtaposed # {} THEN between(LastOf(juxtaposed))
        ELSE IF arrows # {} THEN around(LastOf(arrows), "descendant")
        ELSE IF Len(ts) = 1 THEN ts
        ELSE Postfix(SubSeq(ts, 2, Len(ts) - 1))

\* A '>' at the very end is no operator between steps.
Reading(ts) == IF ts[Len(ts)] = ">" THEN Append(Postfix(SubSeq(ts, 1, Len(ts) - 1)), "trailing")
               ELSE Postfix(ts)
=============================================================================

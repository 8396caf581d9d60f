-------------------------- MODULE AbstractContext --------------------------
(***************************************************************************)
(* Contexts and rules as their users see them.  A context comes into being *)
(* at once, under another one or as a root, and from then on answers each  *)
(* property with the settings that win there; a step without a winner      *)
(* finds nothing, one with several reports a conflict.  Nothing that       *)
(* happens later changes the answer of a context: rules may be added at    *)
(* any time, and each context goes by the rules that each step down to it  *)
(* was built with.                                                         *)
(***************************************************************************)
EXTENDS Meaning

CONSTANTS Dags,      \* the DAGs considered
          Contexts,  \* identifiers of contexts, 1..n for some n
          Requests   \* the keys that builders ask for

VARIABLES dag,      \* the rules
          contexts  \* the contexts built: parent (0 for a root), key, rules
                    \* it was built with, answers

None == 0

\* What field f says of the contexts from the root one down to c.
DownTo(ctxs, c, f) ==
    LET path[x \in DOMAIN ctxs] ==
            IF ctxs[x].parent = None THEN <<ctxs[x][f]>>
            ELSE Append(path[ctxs[x].parent], ctxs[x][f])
    IN  IF c = None THEN <<>> ELSE path[c]

\* The value answered is that of the winner that was added last.
Answers(ds, ks) ==
    [x \in PropNames |->
        LET w == Winners(ds, ks, x)
        IN  [conflict |-> w,
             value |-> {p \in w : ~\E q \in w : p.num < q.num}]]

Init == dag \in Dags /\ contexts = [c \in {} |-> 0]

Build(c) ==
    /\ c \notin DOMAIN contexts
    /\ c \in DOMAIN contexts'
    /\ UNCHANGED dag
    /\ \E p \in DOMAIN contexts \cup {None} :
       \E requested \in IF p = None THEN {EmptyKey} ELSE Requests :
          LET ds    == Append(DownTo(contexts, p, "rules"), dag)
              prior == DownTo(contexts, p, "key")
              k     == ClosedKey(ds, prior, requested)
          IN  contexts' =
                 [x \in DOMAIN contexts \cup {c} |->
                     IF x = c
                     THEN [parent |-> p, key |-> k, rules |-> dag,
                           answers |-> Answers(ds, Append(prior, k))]
                     ELSE contexts[x]]

AddRules ==
    /\ dag' \in Dags /\ Grown(dag, dag')
    /\ UNCHANGED contexts

Next == AddRules \/ \E c \in Contexts : Build(c)

Spec == Init /\ [][Next]_<<dag, contexts>>
=============================================================================

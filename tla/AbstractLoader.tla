--------------------------- MODULE AbstractLoader ---------------------------
(***************************************************************************)
(* What loading a file promises: its rules, with those of the files it     *)
(* imports in the place of the imports, are added to the DAG; or, if any   *)
(* of these files cannot be had, has an error or imports itself, an error  *)
(* is reported and the DAG stays as it is.                                 *)
(*                                                                         *)
(* A file is a sequence of rules, each a setting or an import.  A setting  *)
(* is identified by its place, and the DAG is the sequence of the settings *)
(* it was given, in the order of their property numbers.                   *)
(***************************************************************************)
EXTENDS Naturals, FiniteSets, Sequences, SequencesExt

CONSTANTS Files,   \* names of files, which are the locations of imports
          Setting  \* a rule that is no import

Text == [rules : Seq(Files \cup {Setting}), broken : BOOLEAN, exists : BOOLEAN]

(***************************************************************************)
(* sound[d]: the files that can be loaded with all they import, at most d  *)
(* files deep.  A chain of imports longer than there are files repeats one *)
(* of them.                                                                *)
(***************************************************************************)
Loadable(says, sound) ==
    {f \in Files :
        /\ ~says[f].broken
        /\ \A i \in DOMAIN says[f].rules :
              LET g == says[f].rules[i]
              IN  g # Setting => says[g].exists /\ g \in sound}

Sound(says, file) ==
    LET sound[d \in 0..Cardinality(Files)] ==
            IF d = 0 THEN {} ELSE Loadable(says, sound[d - 1])
    IN  file \in sound[Cardinality(Files)]

\* The settings of a sound file, imports expanded where they are written.
Expanded(says, f, included) ==
    FlattenSeq([i \in DOMAIN says[f].rules |->
        IF says[f].rules[i] = Setting THEN << <<f, i>> >>
        ELSE included[says[f].rules[i]]])

Inclusion(says, file) ==
    LET included[d \in 0..Cardinality(Files)] ==
            IF d = 0 THEN [f \in Files |-> <<>>]
            ELSE [f \in Files |-> Expanded(says, f, included[d - 1])]
    IN  included[Cardinality(Files)][file]

VARIABLES texts,   \* what the files say
          dag,     \* the settings given to the DAG
          failed   \* the files whose load reported an error, in order

vars == <<texts, dag, failed>>

Init == dag = <<>> /\ failed = <<>> /\ texts \in [Files -> Text]

\* The caller has the contents of f.
Load(f) ==
    /\ texts[f].exists
    /\ IF Sound(texts, f)
       THEN dag' = dag \o Inclusion(texts, f) /\ UNCHANGED failed
       ELSE failed' = Append(failed, f) /\ UNCHANGED dag
    /\ UNCHANGED texts

Spec == Init /\ [][\E f \in Files : Load(f)]_vars
=============================================================================

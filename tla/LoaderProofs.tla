---------------------------- MODULE LoaderProofs ----------------------------
(***************************************************************************)
(* What holds of every load, whatever the files say, however they import   *)
(* each other and whatever the resolver does: the ASTs are a forest, the   *)
(* imports in progress are those being resolved, and none is resolved      *)
(* within itself.                                                          *)
(*                                                                         *)
(* And that a load is all or nothing (AbstractLoader), when the resolver   *)
(* offers for a location the file of that name (ByLocation).               *)
(***************************************************************************)
EXTENDS Loader, Induction, SequenceTheorems, FiniteSetTheorems, TLAPS

NoRepeats == \A m, n \in DOMAIN inProgress : inProgress[m] = inProgress[n] => m = n

\* Between loads nothing is left of them.
CleanBetween ==
    top = NoFile => asts = << <<>> >> /\ frames = <<>> /\ inProgress = <<>>

IInv == TypeOK /\ InProgressIsStack /\ NoRepeats /\ CleanBetween

----------------------------------------------------------------------------
(* Parsing.                                                                *)

LEMMA TextsAreTexts ==
    ASSUME texts \in [Files -> Library], NEW f \in Files
    PROVE  texts[f].rules \in Seq(Files \cup {Setting})
BY LoaderAssumption DEF Abstract!Text

\* A number of imports is a number, and grows from import to import.
LEMMA ImportsCounted ==
    ASSUME NEW f \in Files, NEW n \in Nat, NEW i \in 0..n
    PROVE  /\ ImportsUpTo(f, i) \in 0..ImportsUpTo(f, n)
           /\ ImportsUpTo(f, n) \in Nat
           /\ i > 0 /\ texts[f].rules[i] # Setting => ImportsUpTo(f, i) > 0
<1> DEFINE S(m) == {j \in 1..m : texts[f].rules[j] # Setting}
<1>1. IsFiniteSet(S(n))
  <2>1. IsFiniteSet(1..n)
    BY FS_Interval
  <2> QED
    BY <2>1, FS_Subset
<1>2. S(i) \in SUBSET S(n)
  OBVIOUS
<1>3. IsFiniteSet(S(i)) /\ Cardinality(S(i)) <= Cardinality(S(n))
  BY <1>1, <1>2, FS_Subset
<1>4. Cardinality(S(i)) \in Nat /\ Cardinality(S(n)) \in Nat
  BY <1>1, <1>3, FS_CardinalityType
<1>5. i > 0 /\ texts[f].rules[i] # Setting => Cardinality(S(i)) > 0
  <2> SUFFICES ASSUME i > 0, texts[f].rules[i] # Setting, Cardinality(S(i)) = 0
               PROVE  FALSE
    BY <1>4
  <2>1. S(i) = {}
    BY <1>3, FS_EmptySet
  <2> QED
    BY <2>1
<1> QED
  BY <1>3, <1>4, <1>5 DEF ImportsUpTo

\* The rules of a file, with ASTs for its imports beyond those there are.
LEMMA ParsedRules ==
    ASSUME texts \in [Files -> Library], NEW f \in Files, NEW known \in Nat
    PROVE  /\ Parsed(f, known) \in Seq(RuleRecords)
           /\ \A j \in DOMAIN Parsed(f, known) :
                 LET r == Parsed(f, known)[j]
                 IN  IF r.location = Setting THEN r.ast = 0
                     ELSE r.ast \in (known + 1)..
                            (known + ImportsUpTo(f, Len(texts[f].rules)))
<1> DEFINE rules == texts[f].rules
           all   == ImportsUpTo(f, Len(rules))
<1>1. rules \in Seq(Files \cup {Setting}) /\ Len(rules) \in Nat
  BY TextsAreTexts
<1>2. ASSUME NEW j \in 1..Len(rules)
      PROVE  /\ ImportsUpTo(f, j) \in 0..all /\ all \in Nat
             /\ rules[j] # Setting => ImportsUpTo(f, j) > 0
  BY <1>1, ImportsCounted
<1> DEFINE rule(j) == [place |-> <<f, j>>, location |-> rules[j],
                       ast |-> IF rules[j] = Setting THEN 0
                               ELSE known + ImportsUpTo(f, j)]
<1>3. Parsed(f, known) = [j \in 1..Len(rules) |-> rule(j)]
  BY <1>1 DEF Parsed
<1> HIDE DEF rules, all
<1>4. ASSUME NEW j \in 1..Len(rules)
      PROVE  /\ rule(j) \in RuleRecords
             /\ IF rule(j).location = Setting THEN rule(j).ast = 0
                ELSE rule(j).ast \in (known + 1)..(known + all)
  BY <1>1, <1>2 DEF RuleRecords
<1> HIDE DEF rule
<1>5. Parsed(f, known) \in Seq(RuleRecords)
  BY <1>1, <1>3, <1>4
<1>6. \A j \in DOMAIN Parsed(f, known) :
         LET r == Parsed(f, known)[j]
         IN  IF r.location = Setting THEN r.ast = 0
             ELSE r.ast \in (known + 1)..(known + all)
  BY <1>1, <1>3, <1>4
<1> QED
  BY <1>5, <1>6 DEF all, rules

\* Parsing a file keeps the ASTs a forest, and loses none.
LEMMA WithFileOK ==
    ASSUME TypeOK, NEW f \in Files, NEW ast \in DOMAIN asts
    PROVE  /\ WithFile(f, ast) \in Seq(Seq(RuleRecords))
           /\ DOMAIN asts \subseteq DOMAIN WithFile(f, ast)
           /\ Forest(WithFile(f, ast))
<1> DEFINE known  == Len(asts)
           more   == ImportsUpTo(f, Len(texts[f].rules))
           parsed == Parsed(f, known)
           new    == WithFile(f, ast)
<1>1. /\ asts \in Seq(Seq(RuleRecords)) /\ Forest(asts)
      /\ known \in Nat /\ DOMAIN asts = 1..known
  BY DEF TypeOK
<1>2. texts[f].rules \in Seq(Files \cup {Setting})
  BY TextsAreTexts DEF TypeOK
<1>3. more \in Nat
  BY <1>2, ImportsCounted
<1>4. /\ parsed \in Seq(RuleRecords)
      /\ \A j \in DOMAIN parsed :
            IF parsed[j].location = Setting THEN parsed[j].ast = 0
            ELSE parsed[j].ast \in (known + 1)..(known + more)
  BY <1>1, ParsedRules DEF TypeOK
<1>5. new = [i \in 1..(known + more) |->
                IF i = ast THEN asts[i] \o parsed
                ELSE IF i <= known THEN asts[i] ELSE <<>>]
  BY DEF WithFile
<1> HIDE DEF known, more, parsed, new
<1>6. ASSUME NEW i \in 1..(known + more)
      PROVE  /\ new[i] \in Seq(RuleRecords)
             /\ \A j \in DOMAIN new[i] :
                   IF new[i][j].location = Setting THEN new[i][j].ast = 0
                   ELSE new[i][j].ast \in (i + 1)..(known + more)
  <2>1. CASE i = ast
    <3>1. new[i] = asts[i] \o parsed /\ asts[i] \in Seq(RuleRecords)
      BY <1>1, <1>5, <2>1
    <3>2. asts[i] \o parsed \in Seq(RuleRecords)
      BY <1>4, <3>1, ConcatProperties
    <3>3. ASSUME NEW j \in DOMAIN new[i]
          PROVE  \/ j \in DOMAIN asts[i] /\ new[i][j] = asts[i][j]
                 \/ \E k \in DOMAIN parsed : new[i][j] = parsed[k]
      <4>1. j \in 1..(Len(asts[i]) + Len(parsed))
        BY <1>4, <3>1, <3>2, ConcatProperties
      <4>2. CASE j <= Len(asts[i])
        BY <1>4, <3>1, <4>1, <4>2, ConcatProperties
      <4>3. CASE j > Len(asts[i])
        <5>1. new[i][j] = parsed[j - Len(asts[i])]
          BY <1>4, <3>1, <4>1, <4>3, ConcatProperties
        <5>2. j - Len(asts[i]) \in DOMAIN parsed
          BY <1>4, <3>1, <4>1, <4>3
        <5> QED
          BY <5>1, <5>2
      <4> QED
        BY <3>1, <4>1, <4>2, <4>3
    <3>4. ASSUME NEW j \in DOMAIN new[i]
          PROVE  IF new[i][j].location = Setting THEN new[i][j].ast = 0
                 ELSE new[i][j].ast \in (i + 1)..(known + more)
      <4>1. CASE j \in DOMAIN asts[i] /\ new[i][j] = asts[i][j]
        <5>1. IF asts[i][j].location = Setting THEN asts[i][j].ast = 0
              ELSE asts[i][j].ast \in (i + 1)..known
          BY <1>1, <2>1, <4>1 DEF Forest, known
        <5> QED
          BY <1>1, <1>3, <4>1, <5>1
      <4>2. CASE \E k \in DOMAIN parsed : new[i][j] = parsed[k]
        BY <1>1, <1>3, <1>4, <2>1, <4>2
      <4> QED
        BY <3>3, <4>1, <4>2
    <3> QED
      BY <3>1, <3>2, <3>4
  <2>2. CASE i # ast /\ i <= known
    <3>1. new[i] = asts[i] /\ i \in DOMAIN asts
      BY <1>1, <1>5, <2>2
    <3>2. ASSUME NEW j \in DOMAIN asts[i]
          PROVE  IF asts[i][j].location = Setting THEN asts[i][j].ast = 0
                 ELSE asts[i][j].ast \in (i + 1)..known
      BY <1>1, <3>1 DEF Forest, known
    <3> QED
      BY <1>1, <1>3, <3>1, <3>2
  <2>3. CASE i # ast /\ i > known
    <3>1. new[i] = <<>>
      BY <1>1, <1>5, <2>3
    <3> QED
      BY <3>1
  <2> QED
    BY <1>1, <1>3, <2>1, <2>2, <2>3
<1>7. new \in Seq(Seq(RuleRecords)) /\ Len(new) = known + more
  <2>1. DOMAIN new = 1..(known + more) /\ known + more \in Nat
    BY <1>1, <1>3, <1>5
  <2>2. new = [i \in 1..(known + more) |-> new[i]]
    BY <1>5, <2>1
  <2> QED
    BY <1>6, <2>1, <2>2
<1>8. DOMAIN asts \subseteq DOMAIN new
  BY <1>1, <1>3, <1>7
<1>9. Forest(new)
  <2> SUFFICES ASSUME NEW i \in DOMAIN new, NEW j \in DOMAIN new[i]
               PROVE  IF new[i][j].location = Setting THEN new[i][j].ast = 0
                      ELSE new[i][j].ast \in (i + 1)..Len(new)
    BY DEF Forest
  <2>1. i \in 1..(known + more)
    BY <1>7
  <2> QED
    BY <1>6, <1>7, <2>1
<1> QED
  BY <1>7, <1>8, <1>9 DEF new

----------------------------------------------------------------------------
(* The stack of calls.                                                     *)

LEMMA Pushed ==
    ASSUME NEW calls \in Seq(Frames), NEW c \in Frames
    PROVE  LET new == <<c>> \o calls
           IN  /\ new \in Seq(Frames) /\ Len(new) = Len(calls) + 1
               /\ new # <<>> /\ new[1] = c
               /\ \A i \in 1..Len(calls) : new[i + 1] = calls[i]
<1>1. <<c>> \in Seq(Frames) /\ Len(<<c>>) = 1 /\ <<c>>[1] = c
  OBVIOUS
<1> QED
  BY <1>1, ConcatProperties

LEMMA Popped ==
    ASSUME NEW calls \in Seq(Frames), calls # <<>>
    PROVE  /\ Tail(calls) \in Seq(Frames) /\ Len(Tail(calls)) = Len(calls) - 1
           /\ Len(calls) > 0
           /\ \A i \in 1..(Len(calls) - 1) : Tail(calls)[i] = calls[i + 1]
BY HeadTailProperties, EmptySeq

\* The innermost call tells how many there are.
LEMMA InnermostCall ==
    ASSUME NEW calls \in Seq(Frames), NEW locations \in Seq(Files),
           Stacked(calls, locations)
    PROVE  /\ calls = <<>> => locations = <<>>
           /\ calls # <<>> /\ calls[1].call = "resolveImports"
                 => Len(calls) = 2 * Len(locations) + 1
           /\ calls # <<>> /\ calls[1].call = "resolve"
                 => /\ Len(calls) = 2 * Len(locations) /\ Len(locations) > 0
                    /\ calls[1].location = locations[Len(locations)]
<1>1. Len(calls) \in Nat /\ Len(locations) \in Nat
  OBVIOUS
<1>2. CASE calls = <<>>
  BY <1>1, <1>2, EmptySeq DEF Stacked
<1>3. CASE calls # <<>>
  <2>1. Len(calls) > 0
    BY <1>3, EmptySeq
  <2>2. CASE Len(calls) = 2 * Len(locations)
    <3>1. Len(locations) \in 1..Len(locations)
      BY <1>1, <2>1, <2>2
    <3>2. /\ calls[Len(calls) + 1 - 2 * Len(locations)].call = "resolve"
          /\ calls[Len(calls) + 1 - 2 * Len(locations)].location
                = locations[Len(locations)]
      BY <3>1 DEF Stacked
    <3> QED
      BY <1>1, <1>3, <2>2, <3>1, <3>2
  <2>3. CASE Len(calls) = 2 * Len(locations) + 1
    <3>1. Len(locations) + 1 \in 1..(Len(calls) - Len(locations))
      BY <1>1, <2>3
    <3>2. calls[Len(calls) + 1 - (2 * (Len(locations) + 1) - 1)].call
             = "resolveImports"
      BY <3>1 DEF Stacked
    <3>3. Len(calls) + 1 - (2 * (Len(locations) + 1) - 1) = 1
      BY <1>1, <2>3
    <3> QED
      BY <1>3, <2>3, <3>2, <3>3
  <2> QED
    BY <2>2, <2>3 DEF Stacked
<1> QED
  BY <1>2, <1>3

\* A call that goes on keeps its place.
LEMMA StackedOn ==
    ASSUME NEW calls \in Seq(Frames), NEW locations \in Seq(Files),
           Stacked(calls, locations), calls # <<>>,
           NEW new \in Seq(Frames), Len(new) = Len(calls),
           \A i \in 2..Len(calls) : new[i] = calls[i],
           new[1].call = calls[1].call,
           calls[1].call = "resolve" => new[1].location = calls[1].location
    PROVE  Stacked(new, locations)
<1>1. Len(calls) \in Nat /\ Len(locations) \in Nat
  OBVIOUS
<1>2. ASSUME NEW i \in 1..Len(calls)
      PROVE  /\ new[i].call = calls[i].call
             /\ calls[i].call = "resolve" => new[i].location = calls[i].location
  <2> i = 1 \/ i \in 2..Len(calls)
    BY <1>1
  <2> QED
    OBVIOUS
<1>3. \A n \in 1..(Len(calls) - Len(locations)) :
         Len(calls) + 1 - (2 * n - 1) \in 1..Len(calls)
  BY <1>1 DEF Stacked
<1>4. \A n \in 1..Len(locations) : Len(calls) + 1 - 2 * n \in 1..Len(calls)
  BY <1>1 DEF Stacked
<1>5. ASSUME NEW n \in 1..(Len(new) - Len(locations))
      PROVE  new[Len(new) + 1 - (2 * n - 1)].call = "resolveImports"
  <2>1. Len(calls) + 1 - (2 * n - 1) \in 1..Len(calls)
    BY <1>3
  <2>2. calls[Len(calls) + 1 - (2 * n - 1)].call = "resolveImports"
    BY DEF Stacked
  <2> QED
    BY <1>2, <2>1, <2>2
<1>6. ASSUME NEW n \in 1..Len(locations)
      PROVE  /\ new[Len(new) + 1 - 2 * n].call = "resolve"
             /\ new[Len(new) + 1 - 2 * n].location = locations[n]
  <2>1. /\ calls[Len(calls) + 1 - 2 * n].call = "resolve"
        /\ calls[Len(calls) + 1 - 2 * n].location = locations[n]
    BY DEF Stacked
  <2> QED
    BY <1>2, <1>4, <2>1
<1> QED
  BY <1>5, <1>6 DEF Stacked

\* A file's rules are resolved within the resolver that parsed it.
LEMMA StackedRules ==
    ASSUME NEW calls \in Seq(Frames), NEW locations \in Seq(Files),
           Stacked(calls, locations), Len(calls) = 2 * Len(locations),
           NEW c \in Frames, c.call = "resolveImports"
    PROVE  Stacked(<<c>> \o calls, locations)
<1> DEFINE new == <<c>> \o calls
<1>1. Len(calls) \in Nat /\ Len(locations) \in Nat
  OBVIOUS
<1>2. /\ Len(new) = Len(calls) + 1 /\ new[1] = c
      /\ \A i \in 1..Len(calls) : new[i + 1] = calls[i]
  BY Pushed
<1> HIDE DEF new
<1>3. ASSUME NEW n \in 1..(Len(new) - Len(locations))
      PROVE  new[Len(new) + 1 - (2 * n - 1)].call = "resolveImports"
  <2>1. CASE n = Len(locations) + 1
    BY <1>1, <1>2, <2>1
  <2>2. CASE n # Len(locations) + 1
    <3>1. n \in 1..(Len(calls) - Len(locations))
      BY <1>1, <1>2, <2>2
    <3>2. calls[Len(calls) + 1 - (2 * n - 1)].call = "resolveImports"
      BY <3>1 DEF Stacked
    <3>3. /\ Len(calls) + 1 - (2 * n - 1) \in 1..Len(calls)
          /\ Len(new) + 1 - (2 * n - 1) = (Len(calls) + 1 - (2 * n - 1)) + 1
      BY <1>1, <1>2, <3>1
    <3> QED
      BY <1>2, <3>2, <3>3
  <2> QED
    BY <2>1, <2>2
<1>4. ASSUME NEW n \in 1..Len(locations)
      PROVE  /\ new[Len(new) + 1 - 2 * n].call = "resolve"
             /\ new[Len(new) + 1 - 2 * n].location = locations[n]
  <2>1. /\ Len(calls) + 1 - 2 * n \in 1..Len(calls)
        /\ Len(new) + 1 - 2 * n = (Len(calls) + 1 - 2 * n) + 1
    BY <1>1, <1>2
  <2>2. /\ calls[Len(calls) + 1 - 2 * n].call = "resolve"
        /\ calls[Len(calls) + 1 - 2 * n].location = locations[n]
    BY DEF Stacked
  <2> QED
    BY <1>2, <2>1, <2>2
<1>5. Len(new) = 2 * Len(locations) + 1
  BY <1>2
<1> QED
  BY <1>3, <1>4, <1>5 DEF Stacked, new

\* A resolver runs within the rules that import its location.
LEMMA StackedResolver ==
    ASSUME NEW calls \in Seq(Frames), NEW locations \in Seq(Files),
           Stacked(calls, locations), Len(calls) = 2 * Len(locations) + 1,
           NEW c \in Frames, c.call = "resolve", NEW location \in Files,
           c.location = location
    PROVE  Stacked(<<c>> \o calls, Append(locations, location))
<1> DEFINE new  == <<c>> \o calls
           open == Append(locations, location)
<1>1. Len(calls) \in Nat /\ Len(locations) \in Nat
  OBVIOUS
<1>2. /\ Len(new) = Len(calls) + 1 /\ new[1] = c
      /\ \A i \in 1..Len(calls) : new[i + 1] = calls[i]
  BY Pushed
<1>3. /\ open \in Seq(Files) /\ Len(open) = Len(locations) + 1
      /\ open[Len(locations) + 1] = location
      /\ \A n \in 1..Len(locations) : open[n] = locations[n]
  BY AppendProperties
<1> HIDE DEF new, open
<1>4. ASSUME NEW n \in 1..(Len(new) - Len(open))
      PROVE  new[Len(new) + 1 - (2 * n - 1)].call = "resolveImports"
  <2>1. /\ n \in 1..(Len(calls) - Len(locations))
        /\ Len(calls) + 1 - (2 * n - 1) \in 1..Len(calls)
        /\ Len(new) + 1 - (2 * n - 1) = (Len(calls) + 1 - (2 * n - 1)) + 1
    BY <1>1, <1>2, <1>3
  <2>2. calls[Len(calls) + 1 - (2 * n - 1)].call = "resolveImports"
    BY <2>1 DEF Stacked
  <2> QED
    BY <1>2, <2>1, <2>2
<1>5. ASSUME NEW n \in 1..Len(open)
      PROVE  /\ new[Len(new) + 1 - 2 * n].call = "resolve"
             /\ new[Len(new) + 1 - 2 * n].location = open[n]
  <2>1. CASE n = Len(locations) + 1
    <3>1. Len(new) + 1 - 2 * n = 1
      BY <1>1, <1>2, <2>1
    <3> QED
      BY <1>2, <1>3, <2>1, <3>1
  <2>2. CASE n # Len(locations) + 1
    <3>1. /\ n \in 1..Len(locations)
          /\ Len(calls) + 1 - 2 * n \in 1..Len(calls)
          /\ Len(new) + 1 - 2 * n = (Len(calls) + 1 - 2 * n) + 1
      BY <1>1, <1>2, <1>3, <2>2
    <3>2. /\ calls[Len(calls) + 1 - 2 * n].call = "resolve"
          /\ calls[Len(calls) + 1 - 2 * n].location = locations[n]
      BY <3>1 DEF Stacked
    <3> QED
      BY <1>2, <1>3, <3>1, <3>2
  <2> QED
    BY <2>1, <2>2
<1>6. Len(new) = 2 * Len(open)
  BY <1>1, <1>2, <1>3
<1> QED
  BY <1>4, <1>5, <1>6 DEF Stacked, new, open

\* A call that returns leaves its caller's place as it was.
LEMMA RulesReturn ==
    ASSUME NEW calls \in Seq(Frames), NEW locations \in Seq(Files),
           Stacked(calls, locations), Len(calls) = 2 * Len(locations) + 1
    PROVE  Stacked(Tail(calls), locations)
<1>1. Len(calls) \in Nat /\ Len(locations) \in Nat /\ calls # <<>>
  BY EmptySeq
<1>2. /\ Len(Tail(calls)) = Len(calls) - 1
      /\ \A i \in 1..(Len(calls) - 1) : Tail(calls)[i] = calls[i + 1]
  BY <1>1, Popped
<1> DEFINE rest == Tail(calls)
<1>5. /\ Len(calls) = 2 * Len(locations) + 1 /\ Len(rest) = 2 * Len(locations)
      /\ Len(rest) - Len(locations) = Len(locations)
  BY <1>1, <1>2
<1> HIDE DEF rest
<1>3. ASSUME NEW n \in 1..Len(locations)
      PROVE  rest[Len(rest) + 1 - (2 * n - 1)].call = "resolveImports"
  <2>1. calls[Len(calls) + 1 - (2 * n - 1)].call = "resolveImports"
    BY <1>1 DEF Stacked
  <2>2. /\ Len(rest) + 1 - (2 * n - 1) \in 1..(Len(calls) - 1)
        /\ (Len(rest) + 1 - (2 * n - 1)) + 1 = Len(calls) + 1 - (2 * n - 1)
    BY <1>1, <1>5
  <2> QED
    BY <1>2, <2>1, <2>2 DEF rest
<1>4. ASSUME NEW n \in 1..Len(locations)
      PROVE  /\ rest[Len(rest) + 1 - 2 * n].call = "resolve"
             /\ rest[Len(rest) + 1 - 2 * n].location = locations[n]
  <2>1. /\ calls[Len(calls) + 1 - 2 * n].call = "resolve"
        /\ calls[Len(calls) + 1 - 2 * n].location = locations[n]
    BY <1>1 DEF Stacked
  <2>2. /\ Len(rest) + 1 - 2 * n \in 1..(Len(calls) - 1)
        /\ (Len(rest) + 1 - 2 * n) + 1 = Len(calls) + 1 - 2 * n
    BY <1>1, <1>5
  <2> QED
    BY <1>2, <2>1, <2>2 DEF rest
<1> QED
  BY <1>3, <1>4, <1>5 DEF Stacked, rest

LEMMA ResolverReturned ==
    ASSUME NEW calls \in Seq(Frames), NEW locations \in Seq(Files),
           Stacked(calls, locations), Len(calls) = 2 * Len(locations),
           Len(locations) > 0
    PROVE  /\ Stacked(Tail(calls), Front(locations))
           /\ Front(locations) \in Seq(Files)
           /\ Len(Front(locations)) = Len(locations) - 1
           /\ \A n \in 1..(Len(locations) - 1) :
                 Front(locations)[n] = locations[n]
<1>1. Len(calls) \in Nat /\ Len(locations) \in Nat /\ calls # <<>>
  BY EmptySeq
<1>2. /\ Len(Tail(calls)) = Len(calls) - 1
      /\ \A i \in 1..(Len(calls) - 1) : Tail(calls)[i] = calls[i + 1]
  BY <1>1, Popped
<1>3. /\ Front(locations) \in Seq(Files)
      /\ Len(Front(locations)) = Len(locations) - 1
      /\ \A n \in 1..(Len(locations) - 1) : Front(locations)[n] = locations[n]
  <2>1. \A n \in 1..(Len(locations) - 1) : locations[n] \in Files
    OBVIOUS
  <2>2. Len(locations) - 1 \in Int /\ 1 \in Int
    BY <1>1
  <2> QED
    <3> DEFINE last == Len(locations) - 1
    <3>1. last \in Int /\ \A n \in 1..last : locations[n] \in Files
      BY <2>1, <2>2
    <3> HIDE DEF last
    <3>2. /\ SubSeq(locations, 1, last) \in Seq(Files)
          /\ Len(SubSeq(locations, 1, last)) = IF 1 <= last THEN last - 1 + 1 ELSE 0
          /\ \A n \in 1..(last - 1 + 1) :
                SubSeq(locations, 1, last)[n] = locations[1 + n - 1]
      BY <3>1, SubSeqProperties
    <3>3. /\ Len(SubSeq(locations, 1, last)) = last
          /\ \A n \in 1..last : SubSeq(locations, 1, last)[n] = locations[n]
      <4>1. last >= 0
        BY <1>1 DEF last
      <4>2. last - 1 + 1 = last
        BY <3>1
      <4>3. \A n \in 1..last : 1 + n - 1 = n
        BY <3>1
      <4> QED
        BY <3>1, <3>2, <4>1, <4>2, <4>3
    <3> QED
      BY <3>2, <3>3 DEF Front, last
<1>4. ASSUME NEW n \in 1..Len(locations)
      PROVE  Tail(calls)[Len(Tail(calls)) + 1 - (2 * n - 1)].call
                = "resolveImports"
  <2>1. calls[Len(calls) + 1 - (2 * n - 1)].call = "resolveImports"
    BY <1>1 DEF Stacked
  <2>2. /\ Len(Tail(calls)) + 1 - (2 * n - 1) \in 1..(Len(calls) - 1)
        /\ (Len(Tail(calls)) + 1 - (2 * n - 1)) + 1 = Len(calls) + 1 - (2 * n - 1)
    BY <1>1, <1>2
  <2> QED
    BY <1>2, <2>1, <2>2
<1>5. ASSUME NEW n \in 1..(Len(locations) - 1)
      PROVE  /\ Tail(calls)[Len(Tail(calls)) + 1 - 2 * n].call = "resolve"
             /\ Tail(calls)[Len(Tail(calls)) + 1 - 2 * n].location
                   = Front(locations)[n]
  <2>1. /\ n \in 1..Len(locations)
        /\ Len(Tail(calls)) + 1 - 2 * n \in 1..(Len(calls) - 1)
        /\ (Len(Tail(calls)) + 1 - 2 * n) + 1 = Len(calls) + 1 - 2 * n
    BY <1>1, <1>2
  <2>2. /\ calls[Len(calls) + 1 - 2 * n].call = "resolve"
        /\ calls[Len(calls) + 1 - 2 * n].location = locations[n]
    BY <2>1 DEF Stacked
  <2> QED
    BY <1>2, <1>3, <2>1, <2>2
<1>6. /\ Len(Tail(calls)) = 2 * Len(Front(locations)) + 1
      /\ Len(Tail(calls)) - Len(Front(locations)) = Len(locations)
  BY <1>1, <1>2, <1>3
<1> QED
  BY <1>3, <1>4, <1>5, <1>6 DEF Stacked

----------------------------------------------------------------------------
(* Every step keeps the invariant.                                         *)

\* A loader that has nothing to do.
LEMMA IdleInv ==
    ASSUME texts \in [Files -> Library], top = NoFile, asts = << <<>> >>,
           inProgress = <<>>, frames = <<>>
    PROVE  IInv
<1>1. asts \in Seq(Seq(RuleRecords)) /\ Forest(asts)
  BY DEF Forest
<1>2. inProgress \in Seq(Files) /\ frames \in Seq(Frames) /\ DOMAIN frames = {}
  OBVIOUS
<1>3. TypeOK
  BY <1>1, <1>2 DEF TypeOK
<1>4. InProgressIsStack /\ NoRepeats
  BY DEF InProgressIsStack, Stacked, NoRepeats
<1> QED
  BY <1>3, <1>4 DEF IInv, CleanBetween

LEMMA LeaveInv ==
    ASSUME IInv, Leave, texts' = texts
    PROVE  IInv'
<1>1. /\ texts' \in [Files -> Library] /\ top' = NoFile /\ asts' = << <<>> >>
      /\ inProgress' = <<>> /\ frames' = <<>>
  BY DEF IInv, TypeOK, Leave
<1>2. asts' \in Seq(Seq(RuleRecords)) /\ Forest(asts)'
  BY <1>1 DEF Forest
<1>3. /\ inProgress' \in Seq(Files) /\ frames' \in Seq(Frames)
      /\ DOMAIN frames' = {}
  BY <1>1
<1>4. TypeOK'
  BY <1>1, <1>2, <1>3 DEF TypeOK
<1>5. InProgressIsStack' /\ NoRepeats'
  BY <1>1 DEF InProgressIsStack, Stacked, NoRepeats
<1> QED
  BY <1>1, <1>4, <1>5 DEF IInv, CleanBetween

\* A file is parsed into an AST there is, by a resolver or for the load.
LEMMA ParseInv ==
    ASSUME IInv, NEW f \in Files, NEW ast \in DOMAIN asts,
           NEW below \in Seq(Frames),
           \A i \in DOMAIN below : below[i].ast \in DOMAIN asts,
           Stacked(below, inProgress), Len(below) = 2 * Len(inProgress),
           Parse(f, ast, below), top' # NoFile,
           texts' = texts, inProgress' = inProgress
    PROVE  IInv'
<1> DEFINE c == Resolving(ast)
<1>1. TypeOK /\ asts' = WithFile(f, ast)
  BY DEF IInv, Parse
<1>2. /\ asts' \in Seq(Seq(RuleRecords)) /\ DOMAIN asts \subseteq DOMAIN asts'
      /\ Forest(asts)'
  <2>1. \A new : new = WithFile(f, ast) => /\ new \in Seq(Seq(RuleRecords))
                                          /\ DOMAIN asts \subseteq DOMAIN new
                                          /\ Forest(new)
    BY <1>1, WithFileOK
  <2>2. Forest(asts)' <=> Forest(asts')
    BY DEF Forest
  <2> QED
    BY <1>1, <2>1, <2>2
<1>3. c \in Frames /\ c.call = "resolveImports" /\ c.ast = ast
  <2> ast \in Nat
    BY <1>1 DEF TypeOK
  <2> QED
    BY DEF Resolving, Frames
<1>4. inProgress \in Seq(Files)
  BY <1>1 DEF TypeOK
<1>5. CASE frames' = below
  <2>1. TypeOK'
    BY <1>1, <1>2, <1>5 DEF TypeOK
  <2>2. InProgressIsStack' /\ NoRepeats'
    BY <1>5 DEF IInv, InProgressIsStack, Stacked, NoRepeats
  <2> QED
    BY <2>1, <2>2 DEF IInv, CleanBetween
<1>6. CASE frames' = <<c>> \o below
  <2> HIDE DEF c
  <2>1. /\ frames' \in Seq(Frames) /\ Len(frames') = Len(below) + 1
        /\ frames'[1] = c
        /\ \A i \in 1..Len(below) : frames'[i + 1] = below[i]
    BY <1>3, <1>6, Pushed
  <2>2. ASSUME NEW i \in DOMAIN frames'
        PROVE  frames'[i].ast \in DOMAIN asts'
    <3>1. CASE i = 1
      BY <1>2, <1>3, <2>1, <3>1
    <3>2. CASE i # 1
      <4>1. i - 1 \in 1..Len(below) /\ i = (i - 1) + 1
        BY <2>1, <3>2
      <4>2. frames'[i] = below[i - 1] /\ i - 1 \in DOMAIN below
        BY <2>1, <4>1
      <4> QED
        BY <1>2, <4>2
    <3> QED
      BY <3>1, <3>2
  <2>3. TypeOK'
    BY <1>1, <1>2, <2>1, <2>2 DEF TypeOK
  <2>4. Stacked(<<c>> \o below, inProgress)
    BY <1>3, <1>4, StackedRules
  <2>5. InProgressIsStack' /\ NoRepeats'
    BY <1>6, <2>4 DEF IInv, InProgressIsStack, Stacked, NoRepeats
  <2> QED
    BY <2>3, <2>5 DEF IInv, CleanBetween
<1> QED
  BY <1>5, <1>6 DEF Parse

LEMMA BeginLoadInv ==
    ASSUME IInv, NEW f \in Files, BeginLoad(f)
    PROVE  IInv'
<1>1. asts = << <<>> >> /\ inProgress = <<>> /\ top' # NoFile
  BY LoaderAssumption DEF BeginLoad, IInv, CleanBetween
<1>2. 1 \in DOMAIN asts
  BY <1>1
<1>3. <<>> \in Seq(Frames) /\ DOMAIN <<>> = {} /\ Len(<<>>) = 2 * Len(inProgress)
  BY <1>1
<1>4. Stacked(<<>>, inProgress)
  BY <1>1 DEF Stacked
<1> QED
  BY <1>1, <1>2, <1>3, <1>4, ParseInv DEF BeginLoad

\* A call that goes on to its next rule or its next file.
LEMMA GoesOn ==
    ASSUME IInv, frames # <<>>, NEW c \in Frames,
           c.call = frames[1].call, c.ast = frames[1].ast,
           c.call = "resolve" => c.location = frames[1].location
    PROVE  LET new == [frames EXCEPT ![1] = c]
           IN  /\ new \in Seq(Frames) /\ Len(new) = Len(frames)
               /\ \A i \in DOMAIN new : new[i].ast \in DOMAIN asts
               /\ Stacked(new, inProgress)
<1> DEFINE new == [frames EXCEPT ![1] = c]
<1>1. /\ TypeOK /\ Stacked(frames, inProgress)
      /\ frames \in Seq(Frames) /\ inProgress \in Seq(Files)
  BY DEF IInv, TypeOK, InProgressIsStack
<1>2. Len(frames) \in Nat /\ Len(frames) > 0 /\ 1 \in DOMAIN frames
  BY <1>1, EmptySeq
<1>3. new \in Seq(Frames) /\ Len(new) = Len(frames)
  BY <1>1
<1>4. new[1] = c /\ \A i \in 2..Len(frames) : new[i] = frames[i]
  BY <1>1, <1>2
<1>5. \A i \in DOMAIN new : new[i].ast \in DOMAIN asts
  BY <1>1, <1>2 DEF TypeOK
<1> HIDE DEF new
<1>6. Stacked(new, inProgress)
  BY <1>1, <1>3, <1>4, StackedOn
<1> QED
  BY <1>3, <1>5, <1>6 DEF new

\* A step within the innermost call.
LEMMA StepInCall ==
    ASSUME IInv, frames' \in Seq(Frames),
           \A i \in DOMAIN frames' : frames'[i].ast \in DOMAIN asts,
           inProgress' \in Seq(Files), Stacked(frames', inProgress'), NoRepeats',
           top # NoFile, UNCHANGED <<texts, top, asts>>
    PROVE  IInv'
<1>1. TypeOK'
  BY DEF IInv, TypeOK, Forest
<1>2. InProgressIsStack'
  BY DEF InProgressIsStack, Stacked
<1> QED
  BY <1>1, <1>2 DEF IInv, CleanBetween

\* What the innermost call looks like.
LEMMA Innermost ==
    ASSUME IInv, frames # <<>>
    PROVE  /\ Head(frames) = frames[1] /\ frames[1] \in Frames
           /\ frames \in Seq(Frames) /\ inProgress \in Seq(Files)
           /\ asts \in Seq(Seq(RuleRecords)) /\ frames[1].ast \in DOMAIN asts
           /\ Len(frames) \in Nat /\ Len(frames) > 0
           /\ top # NoFile
           /\ frames[1].call = "resolveImports" => frames[1].next \in Nat \ {0}
           /\ frames[1].call = "resolve"
                 => frames[1].location \in Files /\ frames[1].offered \in Nat
<1>1. /\ frames \in Seq(Frames) /\ inProgress \in Seq(Files)
      /\ asts \in Seq(Seq(RuleRecords))
  BY DEF IInv, TypeOK
<1>2. Len(frames) \in Nat /\ Len(frames) > 0 /\ 1 \in DOMAIN frames
  BY <1>1, EmptySeq
<1>3. Head(frames) = frames[1] /\ frames[1] \in Frames
  BY <1>1, <1>2
<1>4. frames[1].ast \in DOMAIN asts /\ top # NoFile
  BY <1>2 DEF IInv, TypeOK, CleanBetween
<1> QED
  BY <1>1, <1>2, <1>3, <1>4 DEF Frames

\* The callers of the innermost call keep their ASTs.
LEMMA CallersKept ==
    ASSUME IInv, frames # <<>>
    PROVE  /\ Caller \in Seq(Frames)
           /\ \A i \in DOMAIN Caller : Caller[i].ast \in DOMAIN asts
<1>1. /\ Caller \in Seq(Frames) /\ Len(Caller) = Len(frames) - 1
      /\ \A i \in 1..(Len(frames) - 1) : Caller[i] = frames[i + 1]
  BY Innermost, Popped DEF Caller
<1>2. /\ Len(frames) \in Nat
      /\ \A i \in 1..Len(frames) : frames[i].ast \in DOMAIN asts
  BY Innermost DEF IInv, TypeOK
<1> HIDE DEF Caller
<1>3. ASSUME NEW i \in DOMAIN Caller
      PROVE  Caller[i].ast \in DOMAIN asts
  <2>1. i \in 1..(Len(frames) - 1) /\ i + 1 \in 1..Len(frames)
    BY <1>1, <1>2
  <2> QED
    BY <1>1, <1>2, <2>1
<1> QED
  BY <1>1, <1>3

\* The loop over the rules goes on to the next one.
LEMMA AdvancedInv ==
    ASSUME IInv, InCall("resolveImports"), frames' = Advanced,
           UNCHANGED <<texts, top, asts, inProgress>>
    PROVE  IInv'
<1> DEFINE c == [frames[1] EXCEPT !.next = @ + 1]
<1>1. frames # <<>> /\ frames[1].call = "resolveImports"
  BY Innermost DEF InCall
<1>2. frames[1] \in [call : {"resolveImports"}, ast : Nat, next : Nat \ {0}]
  BY <1>1, Innermost DEF Frames
<1>3. /\ c \in Frames /\ c.call = frames[1].call /\ c.ast = frames[1].ast
      /\ c.call # "resolve"
  BY <1>2 DEF Frames
<1>4. frames' = [frames EXCEPT ![1] = c]
  BY DEF Advanced
<1> HIDE DEF c
<1>5. /\ frames' \in Seq(Frames) /\ Stacked(frames', inProgress)
      /\ \A i \in DOMAIN frames' : frames'[i].ast \in DOMAIN asts
  BY <1>1, <1>3, <1>4, GoesOn
<1>6. NoRepeats' /\ inProgress' \in Seq(Files) /\ Stacked(frames', inProgress')
  BY <1>1, <1>5, Innermost DEF IInv, NoRepeats
<1> QED
  BY <1>1, <1>5, <1>6, Innermost, StepInCall

\* The loop over the rules ends.
LEMMA RulesReturnInv ==
    ASSUME IInv, InCall("resolveImports"), frames' = Caller,
           UNCHANGED <<texts, top, asts, inProgress>>
    PROVE  IInv'
<1>1. frames # <<>> /\ frames[1].call = "resolveImports"
  BY Innermost DEF InCall
<1>2. Stacked(frames, inProgress)
  BY DEF IInv, InProgressIsStack
<1>3. Len(frames) = 2 * Len(inProgress) + 1
  BY <1>1, <1>2, Innermost, InnermostCall
<1>4. Stacked(frames', inProgress)
  BY <1>1, <1>2, <1>3, Innermost, RulesReturn DEF Caller
<1>5. /\ frames' \in Seq(Frames)
      /\ \A i \in DOMAIN frames' : frames'[i].ast \in DOMAIN asts
  BY <1>1, CallersKept
<1>6. NoRepeats' /\ inProgress' \in Seq(Files) /\ Stacked(frames', inProgress')
  BY <1>1, <1>4, Innermost DEF IInv, NoRepeats
<1> QED
  BY <1>1, <1>5, <1>6, Innermost, StepInCall

LEMMA StartImportInv ==
    ASSUME IInv, StartImport
    PROVE  IInv'
<1>1. /\ frames # <<>> /\ frames[1].call = "resolveImports"
      /\ InCall("resolveImports")
  BY Innermost DEF StartImport, InCall
<1>2. CASE Circular(Rule.location)
  BY <1>1, <1>2, RulesReturnInv DEF StartImport
<1>3. CASE ~Circular(Rule.location)
  <2> DEFINE location == Rule.location
             c        == Resolver(location, Rule.ast)
  <2>1. /\ inProgress' = Append(inProgress, location)
        /\ frames' = <<c>> \o frames
        /\ UNCHANGED <<texts, top, asts>>
        /\ Head(frames).next <= Len(Rules) /\ location # Setting
    BY <1>3 DEF StartImport
  <2>2. /\ Rules = asts[frames[1].ast] /\ Rules \in Seq(RuleRecords)
        /\ Head(frames).next \in DOMAIN Rules
    BY <1>1, <2>1, Innermost DEF Rules
  <2>3. Rule \in RuleRecords /\ Rule = asts[frames[1].ast][frames[1].next]
    BY <1>1, <2>2, Innermost DEF Rule
  <2>4. location \in Files
    BY <2>1, <2>3 DEF RuleRecords
  <2>5. Rule.ast \in DOMAIN asts
    <3>1. Rule.ast \in (frames[1].ast + 1)..Len(asts)
      BY <1>1, <2>1, <2>2, <2>3, Innermost DEF IInv, TypeOK, Forest
    <3>2. frames[1].ast \in 1..Len(asts) /\ DOMAIN asts = 1..Len(asts)
      BY <1>1, Innermost
    <3> QED
      BY <3>1, <3>2
  <2>6. /\ c \in Frames /\ c.call = "resolve" /\ c.location = location
        /\ c.ast = Rule.ast
    <3> Rule.ast \in Nat
      BY <2>3 DEF RuleRecords
    <3> QED
      BY <2>4 DEF Resolver, Frames
  <2> HIDE DEF location, c
  <2>7. /\ frames' \in Seq(Frames) /\ Len(frames') = Len(frames) + 1
        /\ frames'[1] = c
        /\ \A i \in 1..Len(frames) : frames'[i + 1] = frames[i]
    BY <1>1, <2>1, <2>6, Innermost, Pushed
  <2>8. ASSUME NEW i \in DOMAIN frames'
        PROVE  frames'[i].ast \in DOMAIN asts
    <3>1. CASE i = 1
      BY <2>5, <2>6, <2>7, <3>1
    <3>2. CASE i # 1
      <4>1. i - 1 \in 1..Len(frames) /\ i = (i - 1) + 1
        BY <2>7, <3>2
      <4>2. frames'[i] = frames[i - 1] /\ i - 1 \in DOMAIN frames
        BY <2>7, <4>1
      <4> QED
        BY <4>2 DEF IInv, TypeOK
    <3> QED
      BY <3>1, <3>2
  <2>9. Stacked(frames', inProgress')
    <3>1. Stacked(frames, inProgress)
      BY DEF IInv, InProgressIsStack
    <3>2. Len(frames) = 2 * Len(inProgress) + 1
      BY <1>1, <3>1, Innermost, InnermostCall
    <3> QED
      BY <1>1, <2>1, <2>4, <2>6, <3>1, <3>2, Innermost, StackedResolver
  <2>10. inProgress' \in Seq(Files) /\ NoRepeats'
    <3>1. /\ inProgress' \in Seq(Files)
          /\ Len(inProgress') = Len(inProgress) + 1
          /\ \A n \in 1..Len(inProgress) : inProgress'[n] = inProgress[n]
          /\ inProgress'[Len(inProgress) + 1] = location
      BY <1>1, <2>1, <2>4, Innermost, AppendProperties
    <3>2. \A n \in 1..Len(inProgress) : inProgress[n] # location
      BY <1>1, <1>3, Innermost DEF Circular, location
    <3>3. \A m, n \in 1..Len(inProgress) : inProgress[m] = inProgress[n] => m = n
      BY <1>1, Innermost DEF IInv, NoRepeats
    <3>4. Len(inProgress) \in Nat
      BY <1>1, Innermost
    <3> SUFFICES ASSUME NEW m \in 1..(Len(inProgress) + 1),
                        NEW n \in 1..(Len(inProgress) + 1),
                        inProgress'[m] = inProgress'[n]
                 PROVE  m = n
      BY <3>1 DEF NoRepeats
    <3> QED
      BY <3>1, <3>2, <3>3, <3>4
  <2> QED
    BY <1>1, <2>1, <2>7, <2>8, <2>9, <2>10, Innermost, StepInCall
<1> QED
  BY <1>2, <1>3

LEMMA OfferFileInv ==
    ASSUME IInv, OfferFile
    PROVE  IInv'
<1> DEFINE c       == [frames[1] EXCEPT !.offered = @ + 1]
           offered == [frames EXCEPT ![1].offered = @ + 1]
           f       == Path[Head(frames).offered + 1]
<1>1. frames # <<>> /\ frames[1].call = "resolve"
  BY Innermost DEF OfferFile, InCall
<1>2. frames[1] \in [call : {"resolve"}, ast : Nat, location : Files, offered : Nat]
  BY <1>1, Innermost DEF Frames
<1>3. f \in Files
  <2>1. Path \in Seq(Files) /\ Head(frames).offered \in Nat
    BY <1>1, Innermost, LoaderAssumption DEF Path
  <2>2. Head(frames).offered < Len(Path)
    BY DEF OfferFile
  <2>3. Head(frames).offered + 1 \in 1..Len(Path)
    BY <2>1, <2>2
  <2> QED
    BY <2>1, <2>3
<1>4. /\ c \in Frames /\ c.call = frames[1].call /\ c.ast = frames[1].ast
      /\ c.location = frames[1].location
  BY <1>2 DEF Frames
<1>5. offered = [frames EXCEPT ![1] = c]
  OBVIOUS
<1>6. /\ UNCHANGED <<texts, top, inProgress>>
      /\ IF texts[f].exists THEN Parse(f, Head(frames).ast, offered)
         ELSE frames' = offered /\ UNCHANGED asts
  BY DEF OfferFile
<1> HIDE DEF c, offered, f
<1>7. /\ offered \in Seq(Frames) /\ Len(offered) = Len(frames)
      /\ Stacked(offered, inProgress)
      /\ \A i \in DOMAIN offered : offered[i].ast \in DOMAIN asts
  BY <1>1, <1>4, <1>5, GoesOn
<1>8. Len(offered) = 2 * Len(inProgress)
  BY <1>1, <1>7, Innermost, InnermostCall DEF IInv, InProgressIsStack
<1>9. CASE texts[f].exists
  BY <1>1, <1>3, <1>6, <1>7, <1>8, <1>9, Innermost, ParseInv
<1>10. CASE ~texts[f].exists
  <2>1. NoRepeats' /\ inProgress' \in Seq(Files) /\ Stacked(frames', inProgress')
    BY <1>1, <1>6, <1>7, <1>10, Innermost DEF IInv, NoRepeats
  <2> QED
    BY <1>1, <1>6, <1>7, <1>10, <2>1, Innermost, StepInCall
<1> QED
  BY <1>9, <1>10

LEMMA ResolverReturnsInv ==
    ASSUME IInv, ResolverReturns
    PROVE  IInv'
<1>1. frames # <<>> /\ frames[1].call = "resolve"
  BY Innermost DEF ResolverReturns, InCall
<1>2. /\ frames' = Caller /\ inProgress' = Front(inProgress)
      /\ UNCHANGED <<texts, top, asts>>
  BY DEF ResolverReturns
<1>3. Stacked(frames, inProgress)
  BY DEF IInv, InProgressIsStack
<1>4. Len(frames) = 2 * Len(inProgress) /\ Len(inProgress) > 0
  BY <1>1, <1>3, Innermost, InnermostCall
<1>5. /\ Stacked(frames', inProgress')
      /\ inProgress' \in Seq(Files)
      /\ Len(inProgress') = Len(inProgress) - 1
      /\ \A n \in 1..(Len(inProgress) - 1) : inProgress'[n] = inProgress[n]
  BY <1>1, <1>2, <1>3, <1>4, Innermost, ResolverReturned DEF Caller
<1>6. /\ frames' \in Seq(Frames)
      /\ \A i \in DOMAIN frames' : frames'[i].ast \in DOMAIN asts
  BY <1>1, <1>2, CallersKept
<1>7. NoRepeats'
  <2>1. /\ \A n \in 1..(Len(inProgress) - 1) : n \in 1..Len(inProgress)
        /\ DOMAIN inProgress' = 1..(Len(inProgress) - 1)
        /\ DOMAIN inProgress = 1..Len(inProgress)
    BY <1>1, <1>5, Innermost
  <2> QED
    BY <1>5, <2>1 DEF IInv, NoRepeats
<1> QED
  BY <1>1, <1>2, <1>5, <1>6, <1>7, Innermost, StepInCall

LEMMA NextInv == IInv /\ [Next]_vars => IInv'
<1> SUFFICES ASSUME IInv, [Next]_vars
             PROVE  IInv'
  OBVIOUS
<1>1. ASSUME NEW f \in Files, BeginLoad(f)
      PROVE  IInv'
  BY <1>1, BeginLoadInv
<1>2. CASE SkipRule
  BY <1>2, AdvancedInv DEF SkipRule
<1>3. CASE StartImport
  BY <1>3, StartImportInv
<1>4. CASE FinishImport
  BY <1>4, AdvancedInv, RulesReturnInv DEF FinishImport
<1>5. CASE FinishRules
  BY <1>5, RulesReturnInv DEF FinishRules
<1>6. CASE OfferFile
  BY <1>6, OfferFileInv
<1>7. CASE ResolverReturns
  BY <1>7, ResolverReturnsInv
<1>8. CASE ResolverThrows
  BY <1>8, LeaveInv DEF ResolverThrows
<1>9. CASE EndLoad
  BY <1>9, LeaveInv DEF EndLoad
<1>10. CASE UNCHANGED vars
  BY <1>10 DEF vars, loading, IInv, TypeOK, Forest, InProgressIsStack, Stacked,
               NoRepeats, CleanBetween
<1> QED
  BY <1>1, <1>2, <1>3, <1>4, <1>5, <1>6, <1>7, <1>8, <1>9, <1>10
     DEF Next, Resolve

\* The calls alternate, so the resolvers are those of the imports in progress,
\* and these are all different.
LEMMA InvImpliesNoReentry == IInv => NoReentry
<1> SUFFICES ASSUME IInv, NEW i \in DOMAIN frames, NEW j \in DOMAIN frames,
                    frames[i].call = "resolve", frames[j].call = "resolve",
                    frames[i].location = frames[j].location
             PROVE  i = j
  BY DEF NoReentry
<1> DEFINE all  == Len(frames)
           open == Len(inProgress)
<1>1. /\ frames \in Seq(Frames) /\ inProgress \in Seq(Files)
      /\ all \in Nat /\ open \in Nat
      /\ DOMAIN frames = 1..all /\ DOMAIN inProgress = 1..open
  BY DEF IInv, TypeOK
<1>2. /\ all \in {2 * open, 2 * open + 1}
      /\ \A n \in 1..(all - open) : frames[all + 1 - (2 * n - 1)].call
                                        = "resolveImports"
      /\ \A n \in 1..open : frames[all + 1 - 2 * n].location = inProgress[n]
  BY DEF IInv, InProgressIsStack, Stacked
<1> HIDE DEF all, open
<1>3. ASSUME NEW k \in 1..all, frames[k].call = "resolve"
      PROVE  \E n \in 1..open : k = all + 1 - 2 * n
  <2>1. PICK n \in Nat : all + 1 - k = 2 * n \/ all + 1 - k = 2 * n - 1
    <3>1. all + 1 - k \in Nat
      BY <1>1
    <3>2. \A m \in Nat : \E n \in Nat : m = 2 * n \/ m = 2 * n - 1
      <4> TAKE m \in Nat
      <4> (m + 1) \div 2 \in Nat
        OBVIOUS
      <4> WITNESS (m + 1) \div 2 \in Nat
      <4> QED
        OBVIOUS
    <3> QED
      BY <3>1, <3>2
  <2>2. CASE all + 1 - k = 2 * n - 1
    <3>1. n \in 1..(all - open) /\ k = all + 1 - (2 * n - 1)
      BY <1>1, <1>2, <2>2
    <3> QED
      BY <1>2, <1>3, <3>1
  <2>3. CASE all + 1 - k = 2 * n
    <3>1. n \in 1..open /\ k = all + 1 - 2 * n
      BY <1>1, <1>2, <2>3
    <3> QED
      BY <3>1
  <2> QED
    BY <2>1, <2>2, <2>3
<1>4. PICK m \in 1..open : i = all + 1 - 2 * m
  BY <1>1, <1>3
<1>5. PICK n \in 1..open : j = all + 1 - 2 * n
  BY <1>1, <1>3
<1>6. inProgress[m] = inProgress[n]
  BY <1>2, <1>4, <1>5
<1>7. m = n
  BY <1>1, <1>6 DEF IInv, NoRepeats
<1> QED
  BY <1>4, <1>5, <1>7

----------------------------------------------------------------------------
LEMMA InitInv == Init => IInv
BY IdleInv DEF Init

\* The invariant the theorems below rest on: the calls of rules and resolvers
\* alternate with the locations in progress, which are all different, and
\* nothing is left between loads (Loader::loadCcsStream, resolveImports).
THEOREM LoaderInvariance == Spec => []IInv
<1>1. Init => IInv
  BY InitInv
<1>2. IInv /\ [Next]_vars => IInv'
  BY NextInv
<1> QED
  BY <1>1, <1>2, PTL DEF Spec

\* Whatever the files say, every import has an AST of its own, made after the
\* AST it stands in, so that adding them to the DAG ends.
THEOREM LoaderTypeCorrect == Spec => []TypeOK
<1>1. IInv => TypeOK
  BY DEF IInv
<1> QED
  BY <1>1, LoaderInvariance, PTL

\* No location is resolved within itself, whatever its resolver offers
\* (Import::resolveImports).
THEOREM NeverReentered == Spec => []NoReentry
<1>1. IInv => NoReentry
  BY InvImpliesNoReentry
<1> QED
  BY <1>1, LoaderInvariance, PTL

\* No location is left in progress by an import that succeeded or failed.
THEOREM StackAlwaysCurrent == Spec => []InProgressIsStack
<1>1. IInv => InProgressIsStack
  BY DEF IInv
<1> QED
  BY <1>1, LoaderInvariance, PTL

----------------------------------------------------------------------------
(* Resolvers.                                                              *)

\* A resolver that has one file for a location.
ByLocation == SearchPath = [f \in Files |-> <<f>>]

----------------------------------------------------------------------------
(* What AbstractLoader says of files.                                      *)

SoundIn(ts) ==
    CHOOSE sound : sound = [d \in 0..Cardinality(Files) |->
        IF d = 0 THEN {} ELSE Abstract!Loadable(ts, sound[d - 1])]

IncludedIn(ts) ==
    CHOOSE included : included = [d \in 0..Cardinality(Files) |->
        IF d = 0 THEN [f \in Files |-> <<>>]
        ELSE [f \in Files |-> Abstract!Expanded(ts, f, included[d - 1])]]

LEMMA SameCardinality == Abstract!Cardinality(Files) = Cardinality(Files)
BY DEF Abstract!Cardinality, Cardinality

LEMMA AbstractUnfolded ==
    ASSUME NEW ts, NEW f
    PROVE  /\ Abstract!Sound(ts, f) <=> f \in SoundIn(ts)[Cardinality(Files)]
           /\ Abstract!Inclusion(ts, f) = IncludedIn(ts)[Cardinality(Files)][f]
BY SameCardinality DEF Abstract!Sound, Abstract!Inclusion, SoundIn, IncludedIn

LEMMA SoundEquation ==
    ASSUME IsFiniteSet(Files), NEW ts
    PROVE  /\ Cardinality(Files) \in Nat
           /\ SoundIn(ts)[0] = {}
           /\ \A d \in 1..Cardinality(Files) :
                 SoundIn(ts)[d] = Abstract!Loadable(ts, SoundIn(ts)[d - 1])
<1> DEFINE value(d, s) == IF d = 0 THEN {} ELSE Abstract!Loadable(ts, s[d - 1])
           S == {n \in Nat : \E s : s = [d \in 0..n |-> value(d, s)]}
<1>1. Cardinality(Files) \in Nat
  BY FS_CardinalityType
<1>2. 0 \in S
  <2> DEFINE s == [d \in 0..0 |-> {}]
  <2>1. s = [d \in 0..0 |-> value(d, s)]
    OBVIOUS
  <2> QED
    BY <2>1
<1>3. ASSUME NEW n \in Nat, n \in S
      PROVE  n + 1 \in S
  <2> PICK s : s = [d \in 0..n |-> value(d, s)]
    BY <1>3
  <2> DEFINE t == [d \in 0..(n + 1) |->
                      IF d = n + 1 THEN Abstract!Loadable(ts, s[n]) ELSE s[d]]
  <2>1. ASSUME NEW d \in 0..(n + 1)
        PROVE  t[d] = value(d, t)
    <3>1. CASE d = 0
      <4>1. t[0] = s[0] /\ s[0] = {}
        OBVIOUS
      <4> QED
        BY <3>1, <4>1
    <3>2. CASE d # 0
      <4>1. d - 1 \in 0..n /\ d - 1 # n + 1
        BY <3>2
      <4>2. t[d - 1] = s[d - 1]
        BY <4>1
      <4>3. t[d] = Abstract!Loadable(ts, s[d - 1])
        <5>1. CASE d = n + 1
          BY <5>1
        <5>2. CASE d # n + 1
          <6>1. d \in 0..n
            BY <5>2
          <6> QED
            BY <3>2, <5>2, <6>1
        <5> QED
          BY <5>1, <5>2
      <4> QED
        BY <3>2, <4>2, <4>3
    <3> QED
      BY <3>1, <3>2
  <2>2. t = [d \in 0..(n + 1) |-> value(d, t)]
    BY <2>1
  <2> HIDE DEF t, value
  <2> QED
    BY <2>2
<1>4. PICK s : s = [d \in 0..Cardinality(Files) |-> value(d, s)]
  <2>1. Nat \subseteq S
    <3> HIDE DEF S
    <3> QED
      BY <1>2, <1>3, SimpleInduction
  <2> QED
    BY <1>1, <2>1
<1>5. SoundIn(ts) = [d \in 0..Cardinality(Files) |-> value(d, SoundIn(ts))]
  BY <1>4 DEF SoundIn
<1>6. \A d \in 0..Cardinality(Files) : SoundIn(ts)[d] = value(d, SoundIn(ts))
  BY <1>5
<1>7. 0 \in 0..Cardinality(Files) /\ \A d \in 1..Cardinality(Files) :
                                       d \in 0..Cardinality(Files) /\ d # 0
  BY <1>1
<1> QED
  BY <1>1, <1>6, <1>7

\* Nothing is sound less deep only.
LEMMA SoundGrows ==
    ASSUME IsFiniteSet(Files), NEW ts
    PROVE  /\ \A d \in 0..Cardinality(Files) : SoundIn(ts)[d] \subseteq Files
           /\ \A d \in 1..Cardinality(Files) :
                 SoundIn(ts)[d - 1] \subseteq SoundIn(ts)[d]
<1> DEFINE N == Cardinality(Files)
           sound == SoundIn(ts)
           S == {d \in Nat : d \in 1..N => sound[d - 1] \subseteq sound[d]}
<1>1. N \in Nat /\ sound[0] = {}
      /\ \A d \in 1..N : sound[d] = Abstract!Loadable(ts, sound[d - 1])
  BY SoundEquation
<1> HIDE DEF N, sound
<1>2. \A d \in 0..N : sound[d] \subseteq Files
  <2> TAKE d \in 0..N
  <2> d = 0 \/ d \in 1..N
    BY <1>1
  <2> QED
    BY <1>1 DEF Abstract!Loadable
<1>3. 0 \in S
  OBVIOUS
<1>4. ASSUME NEW d \in Nat, d \in S, d + 1 \in 1..N
      PROVE  sound[(d + 1) - 1] \subseteq sound[d + 1]
  <2>1. (d + 1) - 1 = d /\ sound[d + 1] = Abstract!Loadable(ts, sound[d])
    BY <1>1, <1>4
  <2>2. CASE d = 0
    BY <1>1, <2>1, <2>2
  <2>3. CASE d # 0
    <3>1. /\ sound[d] = Abstract!Loadable(ts, sound[d - 1])
          /\ sound[d - 1] \subseteq sound[d]
      BY <1>1, <1>4, <2>3
    <3> QED
      BY <2>1, <3>1 DEF Abstract!Loadable
  <2> QED
    BY <2>2, <2>3
<1>5. Nat \subseteq S
  <2>1. \A d \in Nat : d \in S => d + 1 \in S
    BY <1>4
  <2> HIDE DEF S
  <2> QED
    BY <1>3, <2>1, SimpleInduction
<1>6. \A d \in 1..N : sound[d - 1] \subseteq sound[d]
  BY <1>1, <1>5
<1> QED
  BY <1>2, <1>6 DEF N, sound

\* Files of which each has an error or imports one that there is not, or
\* another of them.
Doomed(ts, Z) ==
    \A f \in Z : \/ ts[f].broken
                 \/ \E i \in DOMAIN ts[f].rules :
                       /\ ts[f].rules[i] # Setting
                       /\ ~ts[ts[f].rules[i]].exists \/ ts[f].rules[i] \in Z

LEMMA DoomedUnsound ==
    ASSUME IsFiniteSet(Files), NEW ts, NEW Z, Doomed(ts, Z), NEW f \in Z
    PROVE  ~Abstract!Sound(ts, f)
<1> DEFINE N == Cardinality(Files)
           sound == SoundIn(ts)
           S == {d \in Nat : d <= N => \A g \in Z : g \notin sound[d]}
<1>1. N \in Nat /\ sound[0] = {}
      /\ \A d \in 1..N : sound[d] = Abstract!Loadable(ts, sound[d - 1])
  BY SoundEquation
<1> HIDE DEF N, sound
<1>2. 0 \in S
  BY <1>1
<1>3. ASSUME NEW d \in Nat, d \in S, d + 1 <= N, NEW g \in Z
      PROVE  g \notin sound[d + 1]
  <2>1. \A h \in Z : h \notin sound[d]
    BY <1>1, <1>3
  <2>2. sound[d + 1] = Abstract!Loadable(ts, sound[d])
    <3> d + 1 \in 1..N /\ (d + 1) - 1 = d
      BY <1>1, <1>3
    <3> QED
      BY <1>1
  <2> QED
    BY <2>1, <2>2 DEF Doomed, Abstract!Loadable
<1>4. Nat \subseteq S
  <2>1. \A d \in Nat : d \in S => d + 1 \in S
    BY <1>1, <1>3
  <2> HIDE DEF S
  <2> QED
    BY <1>2, <2>1, SimpleInduction
<1> QED
  BY <1>1, <1>4, AbstractUnfolded DEF N, sound

----------------------------------------------------------------------------
(* What a load has come to.                                                *)

(***************************************************************************)
(* held[a] is the file that AST a was filled with, if it was.  The model   *)
(* needs no such variable; here it tells an empty file from an AST that is *)
(* still to be filled.                                                     *)
(***************************************************************************)
HoldsFile(as, ts, a, f) ==
    /\ DOMAIN as[a] = DOMAIN ts[f].rules
    /\ \A j \in DOMAIN as[a] : /\ as[a][j].place = <<f, j>>
                               /\ as[a][j].location = ts[f].rules[j]

Filled(as, ts, held) ==
    /\ held \in [DOMAIN as -> Files \cup {NoFile}]
    /\ \A a \in DOMAIN as :
          IF held[a] = NoFile THEN as[a] = <<>>
          ELSE HoldsFile(as, ts, a, held[a]) /\ ~ts[held[a]].broken /\ ts[held[a]].exists

IsImport(as, a, j) ==
    a \in DOMAIN as /\ j \in DOMAIN as[a] /\ as[a][j].location # Setting

\* An import's AST is filled with the file it names, or not yet.
Named(as, held) ==
    \A a, j : IsImport(as, a, j) => held[as[a][j].ast] \in {NoFile, as[a][j].location}

Complete(as, held) ==
    \A a, j : IsImport(as, a, j) => held[as[a][j].ast] # NoFile

\* Each AST is that of one import.
OwnASTs(as) ==
    \A a, b, i, j : /\ IsImport(as, a, i) /\ IsImport(as, b, j)
                    /\ as[a][i].ast = as[b][j].ast
                    => a = b /\ i = j

OfRules(call) == call.call = "resolveImports"

OfResolver(call) == call.call = "resolve"

\* A resolver fills the AST of the import its caller has come to; the rules it
\* parsed are those of that AST.
Calls(caller, callee, as) ==
    IF OfResolver(callee)
    THEN /\ OfRules(caller) /\ IsImport(as, caller.ast, caller.next)
         /\ callee.ast = as[caller.ast][caller.next].ast
         /\ callee.location = as[caller.ast][caller.next].location
    ELSE OfResolver(caller) /\ callee.ast = caller.ast

\* Callers work on ASTs made before.
Linked(calls, as) ==
    /\ \A k \in 1..(Len(calls) - 1) : Calls(calls[k + 1], calls[k], as)
    /\ calls # <<>> => OfRules(calls[Len(calls)]) /\ calls[Len(calls)].ast = 1
    /\ \A k, l \in 1..Len(calls) :
          k < l /\ OfRules(calls[l]) => calls[l].ast < calls[k].ast

\* A resolver has offered its only file when it is called back, or has answered.
Offers(calls, said) ==
    \A k \in 1..Len(calls) :
        OfResolver(calls[k]) => /\ calls[k].offered \in {0, 1}
                                /\ k # 1 \/ said # NoAnswer => calls[k].offered = 1

\* An import that is not filled is still to be come to by a loop.
Reached(calls, as, held) ==
    \A a, j : IsImport(as, a, j) =>
       \/ held[as[a][j].ast] # NoFile
       \/ \E k \in 1..Len(calls) : /\ OfRules(calls[k]) /\ calls[k].ast = a
                                   /\ calls[k].next <= j

\* Those the loop of the k-th call is still to come to are not filled.
Ahead(call, said, k, j) ==
    j > call.next \/ (j = call.next /\ k = 1 /\ said = NoAnswer)

Untouched(call, as, held, said, k) ==
    \A j : IsImport(as, call.ast, j) /\ Ahead(call, said, k, j)
              => held[as[call.ast][j].ast] = NoFile

Progress(calls, as, held, said) ==
    /\ Reached(calls, as, held)
    /\ \A k \in 1..Len(calls) : OfRules(calls[k]) =>
          held[calls[k].ast] # NoFile /\ Untouched(calls[k], as, held, said, k)

\* What the innermost call knows of the file it resolves.
Knows(call, ts, as, held, said) ==
    /\ OfResolver(call) =>
          /\ said = "yes" => held[call.ast] # NoFile
          /\ said = NoAnswer => /\ held[call.ast] = NoFile
                                /\ call.offered = 1 => ~ts[call.location].exists
    /\ OfRules(call) /\ said = "yes" =>
          /\ IsImport(as, call.ast, call.next)
          /\ held[as[call.ast][call.next].ast] # NoFile

Going(calls, ts, as, held, said) ==
    /\ Filled(as, ts, held) /\ Named(as, held)
    /\ Progress(calls, as, held, said)
    /\ calls # <<>> => Knows(calls[1], ts, as, held, said)

Alive(held) ==
    /\ 1 \in DOMAIN asts /\ OwnASTs(asts) /\ Linked(frames, asts)
    /\ Going(frames, texts, asts, held, answer)
    /\ held[1] = top

LoadInv ==
    IF top = NoFile THEN answer = NoAnswer /\ ~reported
    ELSE /\ top \in Files /\ texts[top].exists
         /\ answer \in {NoAnswer, "yes", "no"} /\ (reported <=> answer = "no")
         /\ Offers(frames, answer)
         /\ IF answer = "no" THEN \E Z \in SUBSET Files : top \in Z /\ Doomed(texts, Z)
            ELSE \E held : Alive(held)

----------------------------------------------------------------------------
(* A load that comes through.                                              *)

\* Files that import only files further on are sound: if not all of them are
\* known to be d files deep, the last one that is not shows one more that is
\* sound one file deeper.
LEMMA OnwardIsSound ==
    ASSUME IsFiniteSet(Files), NEW ts, NEW last \in Nat,
           NEW A \in SUBSET (1..last), NEW held,
           \A a \in A :
              /\ held[a] \in Files /\ ~ts[held[a]].broken
              /\ \A i \in DOMAIN ts[held[a]].rules :
                    LET g == ts[held[a]].rules[i]
                    IN  g # Setting =>
                           ts[g].exists /\ \E b \in A : b > a /\ held[b] = g
    PROVE  \A a \in A : held[a] \in SoundIn(ts)[Cardinality(Files)]
<1> DEFINE N == Cardinality(Files)
           sound == SoundIn(ts)
           All(d) == \A a \in A : held[a] \in sound[d]
           S == {d \in Nat : d <= N => All(d) \/ Cardinality(sound[d]) >= d}
<1>1. N \in Nat /\ sound[0] = {}
      /\ \A d \in 1..N : sound[d] = Abstract!Loadable(ts, sound[d - 1])
  BY SoundEquation
<1>2. /\ \A d \in 0..N : sound[d] \subseteq Files
      /\ \A d \in 1..N : sound[d - 1] \subseteq sound[d]
  BY SoundGrows
<1>3. \A d \in 0..N : IsFiniteSet(sound[d]) /\ Cardinality(sound[d]) \in Nat
  BY <1>2, FS_Subset, FS_CardinalityType
<1> HIDE DEF N, sound
<1>4. 0 \in S
  <2> 0 \in 0..N /\ 0 \in Nat
    BY <1>1
  <2> QED
    BY <1>3
<1>5. ASSUME NEW d \in Nat, d + 1 <= N, All(d) \/ Cardinality(sound[d]) >= d
      PROVE  All(d + 1) \/ Cardinality(sound[d + 1]) >= d + 1
  <2>1. /\ d \in 0..N /\ d + 1 \in 0..N /\ d + 1 \in 1..N /\ (d + 1) - 1 = d
        /\ sound[d] \subseteq sound[d + 1]
        /\ sound[d + 1] = Abstract!Loadable(ts, sound[d])
    <3>1. d + 1 \in 1..N /\ (d + 1) - 1 = d /\ d \in 0..N /\ d + 1 \in 0..N
      BY <1>1, <1>5
    <3>2. /\ sound[(d + 1) - 1] \subseteq sound[d + 1]
          /\ sound[d + 1] = Abstract!Loadable(ts, sound[(d + 1) - 1])
      BY <1>1, <1>2, <3>1
    <3> QED
      BY <3>1, <3>2
  <2>2. CASE All(d)
    BY <2>1, <2>2
  <2>3. CASE ~All(d)
    <3>1. PICK a \in A : held[a] \notin sound[d]
                         /\ \A b \in A : held[b] \notin sound[d] => ~(b > a)
      <4> DEFINE T == {a \in A : held[a] \notin sound[d]}
      <4>1. T # {}
        BY <2>3
      <4>2. T \in SUBSET (0..last)
        <5> \A b \in A : b \in 1..last
          OBVIOUS
        <5> \A b \in A : b \in 0..last
          OBVIOUS
        <5> QED
          OBVIOUS
      <4>3. PICK a \in T : \A b \in T : ~(b > a)
        <5> HIDE DEF T
        <5> QED
          BY <4>1, <4>2, GreatestElement
      <4> QED
        BY <4>3
    <3>3. held[a] \in sound[d + 1]
      BY <2>1, <3>1 DEF Abstract!Loadable
    <3>4. Cardinality(sound[d]) < Cardinality(sound[d + 1])
      <4>1. sound[d] # sound[d + 1] /\ sound[d] \in SUBSET sound[d + 1]
        BY <2>1, <3>1, <3>3
      <4>2. Cardinality(sound[d]) <= Cardinality(sound[d + 1])
        BY <1>3, <2>1, <4>1, FS_Subset
      <4>3. Cardinality(sound[d]) # Cardinality(sound[d + 1])
        BY <1>3, <2>1, <4>1, FS_Subset
      <4> QED
        BY <1>3, <2>1, <4>2, <4>3
    <3>5. Cardinality(sound[d]) \in Nat /\ Cardinality(sound[d + 1]) \in Nat
      BY <1>3, <2>1
    <3> HIDE DEF All
    <3> QED
      BY <1>5, <2>3, <3>4, <3>5
  <2> QED
    BY <2>2, <2>3
<1>6. Nat \subseteq S
  <2>1. \A d \in Nat : d \in S => d + 1 \in S
    <3> TAKE d \in Nat
    <3> SUFFICES ASSUME d \in S, d + 1 <= N
                 PROVE  All(d + 1) \/ Cardinality(sound[d + 1]) >= d + 1
      OBVIOUS
    <3>1. d <= N
      BY <1>1
    <3> HIDE DEF All
    <3> QED
      BY <1>5, <3>1
  <2> HIDE DEF S
  <2> QED
    BY <1>4, <2>1, SimpleInduction
<1>7. CASE All(N)
  BY <1>7 DEF N, sound
<1>8. CASE Cardinality(sound[N]) >= N
  <2>1. N \in 0..N
    BY <1>1
  <2>2. sound[N] \in SUBSET Files /\ Cardinality(sound[N]) \in Nat
    BY <1>2, <1>3, <2>1
  <2>3. Cardinality(sound[N]) <= N
    BY <2>2, FS_Subset DEF N
  <2>4. Cardinality(sound[N]) = N
    BY <1>1, <1>8, <2>2, <2>3
  <2>5. sound[N] = Files
    BY <2>2, <2>4, FS_Subset DEF N
  <2>6. All(N)
    BY <2>5
  <2> QED
    BY <1>7, <2>6
<1>9. All(N) \/ Cardinality(sound[N]) >= N
  <2> HIDE DEF All
  <2> QED
    BY <1>1, <1>6
<1> QED
  BY <1>7, <1>8, <1>9

\* Complete ASTs are those of such files.
LEMMA CompleteIsSound ==
    ASSUME IsFiniteSet(Files), NEW ts, NEW as \in Seq(Seq(RuleRecords)),
           Forest(as), NEW held,
           Filled(as, ts, held), Named(as, held), Complete(as, held),
           NEW a \in DOMAIN as, held[a] # NoFile
    PROVE  held[a] \in SoundIn(ts)[Cardinality(Files)]
<1> DEFINE A == {b \in DOMAIN as : held[b] # NoFile}
<1> PICK last \in Nat : DOMAIN as = 1..last /\ last = Len(as)
  BY LenProperties
<1>1. A \in SUBSET (1..last) /\ a \in A
  OBVIOUS
<1>2. ASSUME NEW b \in A, NEW i \in DOMAIN ts[held[b]].rules,
             ts[held[b]].rules[i] # Setting
      PROVE  /\ ts[ts[held[b]].rules[i]].exists
             /\ \E x \in A : x > b /\ held[x] = ts[held[b]].rules[i]
  <2> PICK f : f = held[b]
    OBVIOUS
  <2>1. b \in DOMAIN as /\ held[b] # NoFile
    OBVIOUS
  <2>2. /\ as[b][i].location = ts[f].rules[i]
        /\ as[b][i].ast \in (b + 1)..Len(as)
        /\ held[as[b][i].ast] = as[b][i].location
        /\ held[as[b][i].ast] # NoFile
    <3>1. /\ DOMAIN as[b] = DOMAIN ts[f].rules
          /\ \A j \in DOMAIN as[b] : as[b][j].location = ts[f].rules[j]
      BY <2>1 DEF Filled, HoldsFile
    <3>2. i \in DOMAIN as[b] /\ as[b][i].location # Setting
      BY <1>2, <3>1
    <3>3. as[b][i].ast \in (b + 1)..Len(as)
      BY <2>1, <3>2 DEF Forest
    <3>4. /\ held[as[b][i].ast] \in {NoFile, as[b][i].location}
          /\ held[as[b][i].ast] # NoFile
      BY <2>1, <3>2 DEF Named, Complete, IsImport
    <3> QED
      BY <3>1, <3>2, <3>3, <3>4
  <2> PICK x : x = as[b][i].ast
    OBVIOUS
  <2>3. x \in (b + 1)..last /\ b \in 1..last
    BY <2>1, <2>2
  <2>4. x \in 1..last /\ x > b
    BY ONLY <2>3
  <2>5. x \in DOMAIN as /\ held[x] # NoFile /\ held[x] = ts[f].rules[i]
    BY <2>2, <2>4
  <2>6. ts[held[x]].exists
    BY <2>5 DEF Filled
  <2> QED
    BY <2>4, <2>5, <2>6
<1>3. \A b \in A : held[b] \in Files /\ ~ts[held[b]].broken
  BY DEF Filled
<1> HIDE DEF A
<1> QED
  BY <1>1, <1>2, <1>3, OnwardIsSound

LEMMA IncludedEquation ==
    ASSUME IsFiniteSet(Files), NEW ts
    PROVE  \A d \in 1..Cardinality(Files), f \in Files :
              IncludedIn(ts)[d][f] = Abstract!Expanded(ts, f, IncludedIn(ts)[d - 1])
<1> DEFINE none == [f \in Files |-> <<>>]
           more(g) == [f \in Files |-> Abstract!Expanded(ts, f, g)]
           value(d, s) == IF d = 0 THEN none ELSE more(s[d - 1])
           S == {n \in Nat : \E s : s = [d \in 0..n |-> value(d, s)]}
<1>1. Cardinality(Files) \in Nat
  BY FS_CardinalityType
<1>e. IncludedIn(ts) = CHOOSE s : s = [d \in 0..Cardinality(Files) |-> value(d, s)]
  BY DEF IncludedIn
<1>m. \A g, f : f \in Files => more(g)[f] = Abstract!Expanded(ts, f, g)
  OBVIOUS
<1> HIDE DEF none, more
<1>2. 0 \in S
  <2> DEFINE s == [d \in 0..0 |-> none]
  <2>1. s = [d \in 0..0 |-> value(d, s)]
    OBVIOUS
  <2> QED
    BY <2>1
<1>3. ASSUME NEW n \in Nat, n \in S
      PROVE  n + 1 \in S
  <2> PICK s : s = [d \in 0..n |-> value(d, s)]
    BY <1>3
  <2> DEFINE t == [d \in 0..(n + 1) |-> IF d = n + 1 THEN more(s[n]) ELSE s[d]]
  <2>1. ASSUME NEW d \in 0..(n + 1)
        PROVE  t[d] = value(d, t)
    <3>1. CASE d = 0
      <4>1. t[0] = s[0] /\ s[0] = none
        OBVIOUS
      <4> QED
        BY <3>1, <4>1
    <3>2. CASE d # 0
      <4>1. d - 1 \in 0..n /\ d - 1 # n + 1
        BY <3>2
      <4>2. t[d - 1] = s[d - 1]
        BY <4>1
      <4>3. t[d] = more(s[d - 1])
        <5>1. CASE d = n + 1
          BY <5>1
        <5>2. CASE d # n + 1
          <6>1. d \in 0..n
            BY <5>2
          <6> QED
            BY <3>2, <5>2, <6>1
        <5> QED
          BY <5>1, <5>2
      <4> QED
        BY <3>2, <4>2, <4>3
    <3> QED
      BY <3>1, <3>2
  <2>2. t = [d \in 0..(n + 1) |-> value(d, t)]
    BY <2>1
  <2> HIDE DEF t, value
  <2> QED
    BY <2>2
<1>4. PICK s : s = [d \in 0..Cardinality(Files) |-> value(d, s)]
  <2>1. Nat \subseteq S
    <3> HIDE DEF S
    <3> QED
      BY <1>2, <1>3, SimpleInduction
  <2> QED
    BY <1>1, <2>1
<1>5. IncludedIn(ts) = [d \in 0..Cardinality(Files) |-> value(d, IncludedIn(ts))]
  BY <1>4, <1>e
<1>6. \A d \in 0..Cardinality(Files) : IncludedIn(ts)[d] = value(d, IncludedIn(ts))
  BY <1>5
<1>7. \A d \in 1..Cardinality(Files) : d \in 0..Cardinality(Files) /\ d # 0
  BY <1>1
<1> QED
  BY <1>6, <1>7, <1>m

\* Adding ASTs to the DAG.
PlacesOf(as, flat, i) ==
    FlattenSeq([j \in DOMAIN as[i] |->
        IF as[i][j].ast = 0 THEN <<as[i][j].place>> ELSE flat[as[i][j].ast]])

FlatsIn(as) == CHOOSE flat : flat = [i \in DOMAIN as |-> PlacesOf(as, flat, i)]

LEMMA FlatUnfolded == Flat = FlatsIn(asts)[1]
BY DEF Flat, FlatsIn, PlacesOf

\* A forest can be added from its leaves up.
LEMMA FlatEquation ==
    ASSUME NEW as, NEW last \in Nat, DOMAIN as = 1..last,
           \A i \in 1..last : \A j \in DOMAIN as[i] :
              as[i][j].ast = 0 \/ as[i][j].ast \in (i + 1)..last
    PROVE  \A i \in DOMAIN as : FlatsIn(as)[i] = PlacesOf(as, FlatsIn(as), i)
<1>1. ASSUME NEW i \in 1..last, NEW f, NEW g, \A x \in (i + 1)..last : f[x] = g[x]
      PROVE  PlacesOf(as, f, i) = PlacesOf(as, g, i)
  <2>1. ASSUME NEW j \in DOMAIN as[i]
        PROVE  as[i][j].ast = 0 \/ f[as[i][j].ast] = g[as[i][j].ast]
    BY <1>1
  <2> QED
    BY <2>1 DEF PlacesOf
<1> DEFINE Solved(flat, n) ==
              \A i \in 1..last : i > last - n => flat[i] = PlacesOf(as, flat, i)
           S == {n \in Nat : \E flat : /\ flat = [i \in 1..last |-> flat[i]]
                                       /\ Solved(flat, n)}
<1>2. 0 \in S
  <2>1. \A i \in 1..last : ~(i > last - 0)
    OBVIOUS
  <2> QED
    BY <2>1
<1>3. ASSUME NEW n \in Nat, n \in S
      PROVE  n + 1 \in S
  <2> PICK flat : flat = [i \in 1..last |-> flat[i]] /\ Solved(flat, n)
    BY <1>3
  <2> DEFINE at == last - n
             new == [i \in 1..last |->
                        IF i = at THEN PlacesOf(as, flat, i) ELSE flat[i]]
  <2>1. at \in Int /\ n \in Int /\ last - (n + 1) = at - 1
    OBVIOUS
  <2>2. \A i \in 1..last : i > last - (n + 1) => i > at \/ i = at
    <3> HIDE DEF at
    <3> QED
      BY <2>1
  <2>3. \A i \in 1..last : i > at => new[i] = flat[i] /\ i # at
    <3> \A i \in 1..last : i > at => i # at
      <4> HIDE DEF at
      <4> QED
        BY <2>1
    <3> QED
      OBVIOUS
  <2>4. at \in 1..last => new[at] = PlacesOf(as, flat, at)
    OBVIOUS
  <2>5. new = [i \in 1..last |-> new[i]]
    OBVIOUS
  <2> HIDE DEF at, new
  <2>6. ASSUME NEW i \in 1..last, i > last - (n + 1)
        PROVE  new[i] = PlacesOf(as, new, i)
    <3>1. ASSUME NEW x \in (i + 1)..last
          PROVE  flat[x] = new[x]
      <4>1. x \in 1..last /\ x > at
        BY <2>1, <2>2, <2>6
      <4> QED
        BY <2>3, <4>1
    <3>2. PlacesOf(as, flat, i) = PlacesOf(as, new, i)
      BY <1>1, <3>1
    <3>3. CASE i = at
      BY <2>4, <3>2, <3>3
    <3>4. CASE i > at
      <4>1. flat[i] = PlacesOf(as, flat, i)
        BY <3>4 DEF at
      <4> QED
        BY <2>3, <3>2, <3>4, <4>1
    <3> QED
      BY <2>2, <2>6, <3>3, <3>4
  <2>7. Solved(new, n + 1)
    BY <2>6
  <2> HIDE DEF Solved
  <2> QED
    BY <2>5, <2>7
<1>4. PICK flat : flat = [i \in 1..last |-> flat[i]] /\ Solved(flat, last)
  <2>1. Nat \subseteq S
    <3> HIDE DEF S
    <3> QED
      BY <1>2, <1>3, SimpleInduction
  <2> HIDE DEF Solved
  <2> QED
    BY <2>1
<1>5. \A i \in 1..last : flat[i] = PlacesOf(as, flat, i)
  <2> \A i \in 1..last : i > last - last
    OBVIOUS
  <2> QED
    BY <1>4
<1>6. flat = [i \in DOMAIN as |-> PlacesOf(as, flat, i)]
  BY <1>4, <1>5
<1>7. FlatsIn(as) = [i \in DOMAIN as |-> PlacesOf(as, FlatsIn(as), i)]
  BY <1>6 DEF FlatsIn
<1> QED
  BY <1>7

LEMMA SameFlattening ==
    ASSUME NEW s
    PROVE  Abstract!FlattenSeq(s) = FlattenSeq(s)
BY DEF Abstract!FlattenSeq, FlattenSeq

\* What is added for an AST is its file with the files it imports.
LEMMA FlatIsInclusion ==
    ASSUME IsFiniteSet(Files), NEW ts, NEW as \in Seq(Seq(RuleRecords)),
           Forest(as), NEW held,
           Filled(as, ts, held), Named(as, held), Complete(as, held),
           NEW a \in DOMAIN as, held[a] # NoFile
    PROVE  FlatsIn(as)[a] = IncludedIn(ts)[Cardinality(Files)][held[a]]
<1> DEFINE N == Cardinality(Files)
           sound == SoundIn(ts)
           included == IncludedIn(ts)
           flat == FlatsIn(as)
           A == {b \in DOMAIN as : held[b] # NoFile}
           S == {d \in Nat : d <= N => \A b \in A : held[b] \in sound[d] =>
                                          flat[b] = included[d][held[b]]}
<1>1. N \in Nat /\ sound[0] = {}
      /\ \A d \in 1..N : sound[d] = Abstract!Loadable(ts, sound[d - 1])
  BY SoundEquation
<1>2. \A d \in 1..N, f \in Files :
         included[d][f] = Abstract!Expanded(ts, f, included[d - 1])
  BY IncludedEquation
<1>3. \A b \in A : flat[b] = PlacesOf(as, flat, b)
  <2>1. PICK last \in Nat : DOMAIN as = 1..last /\ last = Len(as)
    BY LenProperties
  <2>2. \A i \in 1..last : \A j \in DOMAIN as[i] :
           as[i][j].ast = 0 \/ as[i][j].ast \in (i + 1)..last
    BY <2>1 DEF Forest
  <2>3. \A i \in DOMAIN as : flat[i] = PlacesOf(as, flat, i)
    BY <2>1, <2>2, FlatEquation
  <2> QED
    BY <2>3
<1>4. ASSUME NEW b \in A
      PROVE  /\ held[b] \in Files
             /\ DOMAIN as[b] = DOMAIN ts[held[b]].rules
             /\ \A j \in DOMAIN as[b] :
                   /\ as[b][j].location = ts[held[b]].rules[j]
                   /\ as[b][j].place = <<held[b], j>>
                   /\ ts[held[b]].rules[j] = Setting => as[b][j].ast = 0
                   /\ ts[held[b]].rules[j] # Setting =>
                         /\ as[b][j].ast # 0 /\ as[b][j].ast \in A
                         /\ held[as[b][j].ast] = ts[held[b]].rules[j]
  <2> PICK last \in Nat : DOMAIN as = 1..last /\ last = Len(as)
    BY LenProperties
  <2>1. /\ held[b] \in Files
        /\ DOMAIN as[b] = DOMAIN ts[held[b]].rules
        /\ \A j \in DOMAIN as[b] : /\ as[b][j].location = ts[held[b]].rules[j]
                                   /\ as[b][j].place = <<held[b], j>>
    BY DEF Filled, HoldsFile
  <2>2. ASSUME NEW j \in DOMAIN as[b]
        PROVE  /\ as[b][j].location = Setting => as[b][j].ast = 0
               /\ as[b][j].location # Setting =>
                     /\ as[b][j].ast # 0 /\ as[b][j].ast \in A
                     /\ held[as[b][j].ast] = as[b][j].location
    <3>1. as[b][j].location = Setting => as[b][j].ast = 0
      BY DEF Forest
    <3>2. CASE as[b][j].location # Setting
      <4>1. as[b][j].ast \in (b + 1)..Len(as)
        BY <3>2 DEF Forest
      <4>2. /\ held[as[b][j].ast] \in {NoFile, as[b][j].location}
            /\ held[as[b][j].ast] # NoFile
        BY <3>2 DEF Named, Complete, IsImport
      <4>3. as[b][j].ast \in DOMAIN as /\ as[b][j].ast # 0
        <5> PICK x : x = as[b][j].ast
          OBVIOUS
        <5>1. b \in 1..last /\ x \in (b + 1)..last
          BY <4>1
        <5>2. x \in 1..last /\ x # 0
          BY ONLY <5>1
        <5> QED
          BY <5>2
      <4> QED
        BY ONLY <3>2, <4>2, <4>3
    <3> QED
      BY <3>1, <3>2
  <2> QED
    BY <2>1, <2>2
<1>5. a \in A /\ held[a] \in sound[N]
  BY CompleteIsSound
<1> HIDE DEF N, sound, included, flat, A
<1>6. 0 \in S
  BY <1>1
<1>7. ASSUME NEW d \in Nat, d + 1 <= N,
             \A b \in A : held[b] \in sound[d] => flat[b] = included[d][held[b]],
             NEW b \in A, held[b] \in sound[d + 1]
      PROVE  flat[b] = included[d + 1][held[b]]
  <2>1. /\ sound[d + 1] = Abstract!Loadable(ts, sound[d])
        /\ included[d + 1][held[b]] = Abstract!Expanded(ts, held[b], included[d])
    <3>1. d + 1 \in 1..N /\ (d + 1) - 1 = d
      BY <1>1, <1>7
    <3>2. \A f \in Files :
             included[d + 1][f] = Abstract!Expanded(ts, f, included[(d + 1) - 1])
      BY <1>2, <3>1
    <3>3. sound[d + 1] = Abstract!Loadable(ts, sound[(d + 1) - 1])
      BY <1>1, <3>1
    <3> QED
      BY <1>4, <3>1, <3>2, <3>3
  <2>2. ASSUME NEW j \in DOMAIN as[b]
        PROVE  (IF as[b][j].ast = 0 THEN <<as[b][j].place>> ELSE flat[as[b][j].ast])
               = IF ts[held[b]].rules[j] = Setting THEN << <<held[b], j>> >>
                 ELSE included[d][ts[held[b]].rules[j]]
    <3>1. CASE ts[held[b]].rules[j] = Setting
      BY <1>4, <3>1
    <3>2. CASE ts[held[b]].rules[j] # Setting
      <4>1. ts[held[b]].rules[j] \in sound[d]
        BY <1>4, <1>7, <2>1, <3>2 DEF Abstract!Loadable
      <4>2. /\ as[b][j].ast # 0 /\ as[b][j].ast \in A
            /\ held[as[b][j].ast] = ts[held[b]].rules[j]
        BY <1>4, <3>2
      <4>3. flat[as[b][j].ast] = included[d][ts[held[b]].rules[j]]
        BY <1>7, <4>1, <4>2
      <4> QED
        BY <3>2, <4>2, <4>3
    <3> QED
      BY <3>1, <3>2
  <2>3. [j \in DOMAIN as[b] |->
            IF as[b][j].ast = 0 THEN <<as[b][j].place>> ELSE flat[as[b][j].ast]]
        = [j \in DOMAIN ts[held[b]].rules |->
            IF ts[held[b]].rules[j] = Setting THEN << <<held[b], j>> >>
            ELSE included[d][ts[held[b]].rules[j]]]
    BY <1>4, <2>2
  <2>4. PlacesOf(as, flat, b) = Abstract!Expanded(ts, held[b], included[d])
    BY <2>3, SameFlattening DEF PlacesOf, Abstract!Expanded
  <2> QED
    BY <1>3, <2>1, <2>4
<1>8. Nat \subseteq S
  <2>1. \A d \in Nat : d \in S => d + 1 \in S
    <3> TAKE d \in Nat
    <3> SUFFICES ASSUME d \in S, d + 1 <= N
                 PROVE  d + 1 \in S
      OBVIOUS
    <3>1. d <= N
      BY <1>1
    <3> QED
      BY <1>7, <3>1
  <2> HIDE DEF S
  <2> QED
    BY <1>6, <2>1, SimpleInduction
<1>9. N \in S /\ N <= N
  <2> HIDE DEF S
  <2> QED
    BY <1>1, <1>8
<1> QED
  BY <1>5, <1>9 DEF N, included, flat

----------------------------------------------------------------------------
(* The calls of a load that goes on.                                       *)

LEMMA LinkedPop ==
    ASSUME NEW as, NEW calls \in Seq(Frames), calls # <<>>, Linked(calls, as)
    PROVE  Linked(Tail(calls), as)
<1> DEFINE rest == Tail(calls)
<1> PICK n \in Nat : n = Len(calls)
  BY LenProperties
<1>1. /\ rest \in Seq(Frames) /\ Len(rest) = n - 1 /\ n > 0
      /\ \A i \in 1..(n - 1) : rest[i] = calls[i + 1]
  BY Popped
<1>2. /\ \A k \in 1..(n - 1) : Calls(calls[k + 1], calls[k], as)
      /\ OfRules(calls[n]) /\ calls[n].ast = 1
      /\ \A k, l \in 1..n :
            k < l /\ OfRules(calls[l]) => calls[l].ast < calls[k].ast
  BY DEF Linked
<1>3. rest # <<>> => n - 1 > 0
  BY <1>1, EmptySeq
<1> HIDE DEF rest
<1>4. ASSUME NEW k \in 1..(n - 2)
      PROVE  Calls(rest[k + 1], rest[k], as)
  <2>1. k + 1 \in 1..(n - 1) /\ k \in 1..(n - 1)
    OBVIOUS
  <2>2. rest[k + 1] = calls[(k + 1) + 1] /\ rest[k] = calls[k + 1]
    BY <1>1, <2>1
  <2> QED
    BY <1>2, <2>1, <2>2
<1>5. rest # <<>> => OfRules(rest[n - 1]) /\ rest[n - 1].ast = 1
  <2> SUFFICES ASSUME rest # <<>>
               PROVE  OfRules(rest[n - 1]) /\ rest[n - 1].ast = 1
    OBVIOUS
  <2>1. n - 1 \in 1..(n - 1) /\ (n - 1) + 1 = n
    BY <1>3
  <2> QED
    BY <1>1, <1>2, <2>1
<1>6. ASSUME NEW k \in 1..(n - 1), NEW l \in 1..(n - 1), k < l, OfRules(rest[l])
      PROVE  rest[l].ast < rest[k].ast
  <2>1. k + 1 \in 1..n /\ l + 1 \in 1..n /\ k + 1 < l + 1
    BY <1>6
  <2>2. rest[k] = calls[k + 1] /\ rest[l] = calls[l + 1]
    BY <1>1
  <2> QED
    BY <1>2, <1>6, <2>1, <2>2
<1>7. (n - 1) - 1 = n - 2
  OBVIOUS
<1> QED
  BY <1>1, <1>4, <1>5, <1>6, <1>7 DEF Linked, rest

LEMMA LinkedPush ==
    ASSUME NEW as, NEW calls \in Seq(Frames), Linked(calls, as),
           NEW c \in Frames,
           calls # <<>> => Calls(calls[1], c, as) /\ calls[1].ast <= c.ast,
           \A l \in 1..Len(calls) : OfRules(calls[l]) => calls[l].ast < c.ast,
           calls = <<>> => OfRules(c) /\ c.ast = 1
    PROVE  Linked(<<c>> \o calls, as)
<1> DEFINE new == <<c>> \o calls
<1> PICK n \in Nat : n = Len(calls)
  BY LenProperties
<1>1. /\ new \in Seq(Frames) /\ Len(new) = n + 1 /\ new # <<>> /\ new[1] = c
      /\ \A i \in 1..n : new[i + 1] = calls[i]
  BY Pushed
<1>2. /\ \A k \in 1..(n - 1) : Calls(calls[k + 1], calls[k], as)
      /\ calls # <<>> => OfRules(calls[n]) /\ calls[n].ast = 1
      /\ \A k, l \in 1..n :
            k < l /\ OfRules(calls[l]) => calls[l].ast < calls[k].ast
  BY DEF Linked
<1>3. (calls = <<>>) <=> n = 0
  BY EmptySeq
<1> HIDE DEF new
<1>4. ASSUME NEW k \in 1..n
      PROVE  Calls(new[k + 1], new[k], as)
  <2>1. CASE k = 1
    <3>1. new[1 + 1] = calls[1] /\ calls # <<>>
      BY <1>1, <1>3, <2>1
    <3> QED
      BY <1>1, <2>1, <3>1
  <2>2. CASE k # 1
    <3>1. k - 1 \in 1..(n - 1) /\ k - 1 \in 1..n /\ (k - 1) + 1 = k
      BY <2>2
    <3>2. new[k + 1] = calls[k] /\ new[k] = calls[k - 1]
      BY <1>1, <3>1
    <3> QED
      BY <1>2, <3>1, <3>2
  <2> QED
    BY <2>1, <2>2
<1>5. OfRules(new[n + 1]) /\ new[n + 1].ast = 1
  <2>1. CASE n = 0
    BY <1>1, <1>3, <2>1
  <2>2. CASE n # 0
    <3>1. n \in 1..n
      BY <2>2
    <3> QED
      BY <1>1, <1>2, <1>3, <2>2, <3>1
  <2> QED
    BY <2>1, <2>2
<1>6. ASSUME NEW k \in 1..(n + 1), NEW l \in 1..(n + 1), k < l, OfRules(new[l])
      PROVE  new[l].ast < new[k].ast
  <2>1. l - 1 \in 1..n /\ (l - 1) + 1 = l
    BY <1>6
  <2>2. new[l] = calls[l - 1]
    BY <1>1, <2>1
  <2>3. CASE k = 1
    BY <1>1, <1>6, <2>1, <2>2, <2>3
  <2>4. CASE k # 1
    <3>1. k - 1 \in 1..n /\ (k - 1) + 1 = k /\ k - 1 < l - 1
      BY <1>6, <2>4
    <3>2. new[k] = calls[k - 1]
      BY <1>1, <3>1
    <3> QED
      BY <1>2, <1>6, <2>1, <2>2, <3>1, <3>2
  <2> QED
    BY <2>3, <2>4
<1>7. (n + 1) - 1 = n
  OBVIOUS
<1> QED
  BY <1>1, <1>4, <1>5, <1>6, <1>7 DEF Linked, new

\* The innermost call goes on.
LEMMA LinkedOn ==
    ASSUME NEW as, NEW calls \in Seq(Frames), calls # <<>>, Linked(calls, as),
           NEW c \in Frames, c.call = calls[1].call, c.ast = calls[1].ast,
           OfResolver(c) => c.location = calls[1].location
    PROVE  /\ Linked([calls EXCEPT ![1] = c], as)
           /\ Len([calls EXCEPT ![1] = c]) = Len(calls)
           /\ [calls EXCEPT ![1] = c][1] = c
           /\ \A k \in 2..Len(calls) : [calls EXCEPT ![1] = c][k] = calls[k]
<1> DEFINE new == [calls EXCEPT ![1] = c]
<1> PICK n \in Nat : n = Len(calls)
  BY LenProperties
<1>0. n > 0 /\ DOMAIN calls = 1..n
  BY EmptySeq
<1>1. /\ new \in Seq(Frames) /\ Len(new) = n /\ new[1] = c
      /\ \A k \in 2..n : new[k] = calls[k]
  BY <1>0
<1>2. /\ \A k \in 1..(n - 1) : Calls(calls[k + 1], calls[k], as)
      /\ OfRules(calls[n]) /\ calls[n].ast = 1
      /\ \A k, l \in 1..n :
            k < l /\ OfRules(calls[l]) => calls[l].ast < calls[k].ast
  BY DEF Linked
<1> HIDE DEF new
<1>3. \A k \in 1..n : /\ OfRules(new[k]) <=> OfRules(calls[k])
                      /\ OfResolver(new[k]) <=> OfResolver(calls[k])
                      /\ new[k].ast = calls[k].ast
                      /\ OfResolver(new[k]) => new[k].location = calls[k].location
  <2> TAKE k \in 1..n
  <2>1. k = 1 \/ k \in 2..n
    OBVIOUS
  <2> QED
    BY <1>1, <2>1 DEF OfRules, OfResolver
<1>4. ASSUME NEW k \in 1..(n - 1)
      PROVE  Calls(new[k + 1], new[k], as)
  <2>1. k \in 1..n /\ k + 1 \in 2..n
    OBVIOUS
  <2>2. new[k + 1] = calls[k + 1]
    BY <1>1, <2>1
  <2> QED
    BY <1>2, <1>3, <2>1, <2>2 DEF Calls
<1>5. OfRules(new[n]) /\ new[n].ast = 1
  <2> n \in 1..n
    BY <1>0
  <2> QED
    BY <1>2, <1>3
<1>6. \A k, l \in 1..n : k < l /\ OfRules(new[l]) => new[l].ast < new[k].ast
  BY <1>2, <1>3
<1> QED
  BY <1>1, <1>4, <1>5, <1>6 DEF Linked, new

\* Filling an empty AST leaves the imports of the others.
Grown(as, new) ==
    \A a, j : IsImport(as, a, j) => IsImport(new, a, j) /\ new[a][j] = as[a][j]

LEMMA LinkedGrown ==
    ASSUME NEW as, NEW new, Grown(as, new), NEW calls, Linked(calls, as)
    PROVE  Linked(calls, new)
<1>1. ASSUME NEW c, NEW d, Calls(c, d, as)
      PROVE  Calls(c, d, new)
  BY <1>1 DEF Calls, Grown
<1> QED
  BY <1>1 DEF Linked

----------------------------------------------------------------------------
(* How far a load that goes on has come.                                   *)

LEMMA ImportTyped ==
    ASSUME NEW as \in Seq(Seq(RuleRecords)), NEW a, NEW j, IsImport(as, a, j)
    PROVE  /\ a \in Nat /\ j \in Nat \ {0} /\ j <= Len(as[a])
           /\ as[a][j].location \in Files
<1>1. a \in DOMAIN as /\ j \in DOMAIN as[a] /\ as[a][j].location # Setting
  BY DEF IsImport
<1>2. a \in 1..Len(as) /\ Len(as) \in Nat
  BY <1>1, LenProperties
<1>3. as[a] \in Seq(RuleRecords)
  BY <1>2, ElementOfSeq
<1>4. j \in 1..Len(as[a]) /\ Len(as[a]) \in Nat
  BY <1>1, <1>3, LenProperties
<1>5. as[a][j] \in RuleRecords
  BY <1>3, <1>4, ElementOfSeq
<1>6. as[a][j].location \in Files
  BY <1>1, <1>5 DEF RuleRecords
<1>7. a \in Nat /\ j \in Nat \ {0} /\ j <= Len(as[a])
  <2>1. PICK m \in Nat : m = Len(as[a])
    BY <1>4
  <2>2. PICK n \in Nat : n = Len(as)
    BY <1>2
  <2>3. j \in 1..m /\ a \in 1..n
    BY <1>2, <1>4, <2>1, <2>2
  <2>4. a \in Nat /\ j \in Nat \ {0} /\ j <= m
    BY ONLY m \in Nat, n \in Nat, <2>3
  <2> QED
    BY ONLY <2>1, <2>4
<1> QED
  BY <1>6, <1>7

LEMMA FrameTyped ==
    ASSUME NEW calls \in Seq(Frames), NEW k \in 1..Len(calls)
    PROVE  /\ calls[k] \in Frames /\ calls[k].ast \in Nat
           /\ OfRules(calls[k]) <=> ~OfResolver(calls[k])
           /\ OfRules(calls[k]) => calls[k].next \in Nat \ {0}
           /\ OfResolver(calls[k]) =>
                 calls[k].location \in Files /\ calls[k].offered \in Nat
<1>1. calls[k] \in Frames
  OBVIOUS
<1> QED
  BY <1>1 DEF Frames, OfRules, OfResolver

\* The loop goes on past a rule that is no import, or whose import is filled.
LEMMA ProgressOn ==
    ASSUME NEW as \in Seq(Seq(RuleRecords)), NEW held, NEW said,
           NEW n \in Nat \ {0}, NEW calls \in Seq(Frames), Len(calls) = n,
           NEW new, Len(new) = n, \A k \in 2..n : new[k] = calls[k],
           OfRules(calls[1]), OfRules(new[1]), new[1].ast = calls[1].ast,
           new[1].next = calls[1].next + 1,
           Progress(calls, as, held, said),
           IsImport(as, calls[1].ast, calls[1].next) =>
              held[as[calls[1].ast][calls[1].next].ast] # NoFile
    PROVE  Progress(new, as, held, NoAnswer)
<1>1. \A a, j : IsImport(as, a, j) => j \in Nat
  BY ImportTyped
<1>2. \A k \in 1..n : k = 1 \/ k \in 2..n
  OBVIOUS
<1>3. \A k \in 1..n : OfRules(calls[k]) => calls[k].next \in Nat
  BY FrameTyped
<1>4. 1 \in 1..n /\ calls[1].next \in Nat
  BY <1>3
<1>5. ASSUME NEW a, NEW j, IsImport(as, a, j), held[as[a][j].ast] = NoFile
      PROVE  \E k \in 1..n : /\ OfRules(new[k]) /\ new[k].ast = a
                             /\ new[k].next <= j
  <2>1. PICK k \in 1..n : /\ OfRules(calls[k]) /\ calls[k].ast = a
                          /\ calls[k].next <= j
    BY <1>5 DEF Progress, Reached
  <2>2. CASE k = 1
    <3>1. calls[1].next # j
      BY <1>5, <2>1, <2>2
    <3>2. new[1].next <= j
      <4>1. j \in Nat /\ calls[1].next \in Nat /\ calls[1].next <= j
        BY <1>1, <1>4, <1>5, <2>1, <2>2
      <4> QED
        BY <3>1, <4>1
    <3> QED
      BY <1>4, <2>1, <2>2, <3>2
  <2>3. CASE k \in 2..n
    BY <2>1, <2>3
  <2> QED
    BY <1>2, <2>2, <2>3
<1>6. ASSUME NEW k \in 1..n, OfRules(new[k])
      PROVE  /\ held[new[k].ast] # NoFile
             /\ Untouched(new[k], as, held, NoAnswer, k)
  <2>1. /\ new[k].ast = calls[k].ast /\ OfRules(calls[k])
        /\ calls[k].next \in Nat /\ (k # 1 => new[k] = calls[k])
    BY <1>2, <1>3, <1>4, <1>6
  <2>2. ASSUME NEW j, IsImport(as, new[k].ast, j), Ahead(new[k], NoAnswer, k, j)
        PROVE  Ahead(calls[k], said, k, j)
    <3>1. j \in Nat
      BY <1>1, <2>2
    <3>2. CASE k = 1
      BY <1>4, <2>2, <3>1, <3>2 DEF Ahead
    <3>3. CASE k # 1
      BY <2>1, <2>2, <3>3 DEF Ahead
    <3> QED
      BY <3>2, <3>3
  <2>3. held[calls[k].ast] # NoFile /\ Untouched(calls[k], as, held, said, k)
    BY <2>1 DEF Progress
  <2>4. Untouched(new[k], as, held, NoAnswer, k)
    BY <2>1, <2>2, <2>3 DEF Untouched
  <2> QED
    BY <2>1, <2>3, <2>4
<1> QED
  BY <1>5, <1>6 DEF Progress, Reached

\* Calls that return, or are made, where nothing else changes.
LEMMA ProgressPop ==
    ASSUME NEW as \in Seq(Seq(RuleRecords)), NEW held, NEW said,
           NEW calls \in Seq(Frames), calls # <<>>,
           Progress(calls, as, held, said),
           \A j : IsImport(as, calls[1].ast, j) /\ OfRules(calls[1]) =>
                     j < calls[1].next
    PROVE  Progress(Tail(calls), as, held, "yes")
<1> DEFINE rest == Tail(calls)
<1> PICK n \in Nat : n = Len(calls)
  BY LenProperties
<1>1. /\ Len(rest) = n - 1 /\ n > 0
      /\ \A i \in 1..(n - 1) : rest[i] = calls[i + 1]
  BY Popped
<1> HIDE DEF rest
<1>2. \A a, j : IsImport(as, a, j) => j \in Nat
  BY ImportTyped
<1>3. \A k \in 1..n : OfRules(calls[k]) => calls[k].next \in Nat
  BY FrameTyped
<1>4. ASSUME NEW a, NEW j, IsImport(as, a, j), held[as[a][j].ast] = NoFile
      PROVE  \E k \in 1..(n - 1) : /\ OfRules(rest[k]) /\ rest[k].ast = a
                                   /\ rest[k].next <= j
  <2>1. PICK k \in 1..n : /\ OfRules(calls[k]) /\ calls[k].ast = a
                          /\ calls[k].next <= j
    BY <1>4 DEF Progress, Reached
  <2>2. k # 1
    <3> SUFFICES ASSUME k = 1
                 PROVE  FALSE
      OBVIOUS
    <3>1. j < calls[1].next /\ calls[1].next <= j
      BY <1>4, <2>1
    <3>2. j \in Nat /\ calls[1].next \in Nat
      BY <1>2, <1>3, <1>4, <2>1
    <3> QED
      BY <3>1, <3>2
  <2>3. k - 1 \in 1..(n - 1) /\ (k - 1) + 1 = k
    BY <2>2
  <2> QED
    BY <1>1, <2>1, <2>3
<1>5. ASSUME NEW k \in 1..(n - 1), OfRules(rest[k])
      PROVE  /\ held[rest[k].ast] # NoFile
             /\ Untouched(rest[k], as, held, "yes", k)
  <2>1. k + 1 \in 1..n /\ rest[k] = calls[k + 1]
    BY <1>1
  <2>2. \A j : Ahead(rest[k], "yes", k, j) => Ahead(calls[k + 1], said, k + 1, j)
    BY <2>1 DEF Ahead, NoAnswer
  <2> QED
    BY <1>5, <2>1, <2>2 DEF Progress, Untouched
<1>6. Reached(rest, as, held)
  BY <1>1, <1>4 DEF Reached
<1> QED
  BY <1>1, <1>5, <1>6 DEF Progress, rest

LEMMA ProgressResolver ==
    ASSUME NEW as, NEW held, NEW calls \in Seq(Frames),
           Progress(calls, as, held, NoAnswer), NEW c \in Frames, OfResolver(c)
    PROVE  Progress(<<c>> \o calls, as, held, NoAnswer)
<1> DEFINE new == <<c>> \o calls
<1> PICK n \in Nat : n = Len(calls)
  BY LenProperties
<1>1. /\ Len(new) = n + 1 /\ new[1] = c /\ \A i \in 1..n : new[i + 1] = calls[i]
  BY Pushed
<1> HIDE DEF new
<1>2. ~OfRules(new[1])
  BY <1>1 DEF OfRules, OfResolver
<1>3. ASSUME NEW a, NEW j, IsImport(as, a, j), held[as[a][j].ast] = NoFile
      PROVE  \E k \in 1..(n + 1) : /\ OfRules(new[k]) /\ new[k].ast = a
                                   /\ new[k].next <= j
  <2>1. PICK k \in 1..n : /\ OfRules(calls[k]) /\ calls[k].ast = a
                          /\ calls[k].next <= j
    BY <1>3 DEF Progress, Reached
  <2>2. k + 1 \in 1..(n + 1)
    OBVIOUS
  <2> QED
    BY <1>1, <2>1, <2>2
<1>4. ASSUME NEW k \in 1..(n + 1), OfRules(new[k])
      PROVE  /\ held[new[k].ast] # NoFile
             /\ Untouched(new[k], as, held, NoAnswer, k)
  <2>1. k - 1 \in 1..n /\ (k - 1) + 1 = k /\ k # 1
    BY <1>2, <1>4
  <2>2. new[k] = calls[k - 1]
    BY <1>1, <2>1
  <2>3. \A j : Ahead(new[k], NoAnswer, k, j)
                  => Ahead(calls[k - 1], NoAnswer, k - 1, j)
    BY <2>1, <2>2 DEF Ahead
  <2> QED
    BY <1>4, <2>1, <2>2, <2>3 DEF Progress, Untouched
<1>5. Reached(new, as, held)
  BY <1>1, <1>3 DEF Reached
<1> QED
  BY <1>1, <1>4, <1>5 DEF Progress, new

LEMMA ProgressSame ==
    ASSUME NEW as, NEW held, NEW said, NEW n \in Nat \ {0},
           NEW calls, Len(calls) = n, NEW new, Len(new) = n,
           \A k \in 2..n : new[k] = calls[k],
           ~OfRules(calls[1]), ~OfRules(new[1]),
           Progress(calls, as, held, said)
    PROVE  Progress(new, as, held, said)
<1>1. \A k \in 1..n : (k = 1 \/ k \in 2..n)
  OBVIOUS
<1>2. \A k \in 1..n : OfRules(new[k]) \/ OfRules(calls[k]) => new[k] = calls[k]
  BY <1>1
<1>3. ASSUME NEW a, NEW j, IsImport(as, a, j), held[as[a][j].ast] = NoFile
      PROVE  \E k \in 1..n : /\ OfRules(new[k]) /\ new[k].ast = a
                             /\ new[k].next <= j
  <2>1. PICK k \in 1..n : /\ OfRules(calls[k]) /\ calls[k].ast = a
                          /\ calls[k].next <= j
    BY <1>3 DEF Progress, Reached
  <2> QED
    BY <1>2, <2>1
<1>4. ASSUME NEW k \in 1..n, OfRules(new[k])
      PROVE  held[new[k].ast] # NoFile /\ Untouched(new[k], as, held, said, k)
  <2>1. new[k] = calls[k]
    BY <1>2, <1>4
  <2> QED
    BY <1>4, <2>1 DEF Progress
<1> QED
  BY <1>3, <1>4 DEF Progress, Reached

----------------------------------------------------------------------------
(* Parsing a file into an empty AST.                                       *)

LEMMA ImportsDiffer ==
    ASSUME NEW f \in Files, NEW i \in Nat, NEW j \in Nat, i < j,
           texts[f].rules[j] # Setting
    PROVE  ImportsUpTo(f, i) # ImportsUpTo(f, j)
<1> DEFINE S(m) == {k \in 1..m : texts[f].rules[k] # Setting}
<1>1. IsFiniteSet(S(j))
  <2>1. IsFiniteSet(1..j)
    BY FS_Interval
  <2> QED
    BY <2>1, FS_Subset
<1>2. S(i) \in SUBSET S(j) /\ S(i) # S(j)
  <2>1. j \in S(j) /\ j \notin S(i)
    OBVIOUS
  <2> QED
    BY <2>1
<1>3. Cardinality(S(i)) # Cardinality(S(j))
  <2> HIDE DEF S
  <2> QED
    BY <1>1, <1>2, FS_Subset
<1> QED
  BY <1>3 DEF ImportsUpTo

NewImports(as, new, x) ==
    /\ \A j : IsImport(new, x, j) =>
          new[x][j].ast \in DOMAIN new /\ new[x][j].ast \notin DOMAIN as
    /\ \A i, j : /\ IsImport(new, x, i) /\ IsImport(new, x, j)
                 /\ new[x][i].ast = new[x][j].ast
                 => i = j

OldImports(as, new, x) ==
    \A a, j : IsImport(new, a, j) /\ a # x =>
       IsImport(as, a, j) /\ new[a][j] = as[a][j]

\* The file is in its AST, every import of it has an AST that is new, and the
\* other ASTs are as they were.
ParsedTo(as, new, ts, x, f) ==
    /\ DOMAIN as \subseteq DOMAIN new
    /\ \A i \in DOMAIN new : i # x =>
          new[i] = IF i \in DOMAIN as THEN as[i] ELSE <<>>
    /\ HoldsFile(new, ts, x, f)
    /\ NewImports(as, new, x)

LEMMA ParsedIntoEmpty ==
    ASSUME TypeOK, NEW f \in Files, NEW x \in DOMAIN asts, asts[x] = <<>>
    PROVE  ParsedTo(asts, WithFile(f, x), texts, x, f)
<1> DEFINE known  == Len(asts)
           rules  == texts[f].rules
           more   == ImportsUpTo(f, Len(rules))
           parsed == Parsed(f, known)
           new    == WithFile(f, x)
<1>1. known \in Nat /\ DOMAIN asts = 1..known /\ x \in 1..known
  BY LenProperties DEF TypeOK
<1>2. rules \in Seq(Files \cup {Setting})
  BY TextsAreTexts DEF TypeOK
<1>3. more \in Nat
  BY <1>2, ImportsCounted
<1>4. /\ parsed \in Seq(RuleRecords)
      /\ \A j \in DOMAIN parsed :
            IF parsed[j].location = Setting THEN parsed[j].ast = 0
            ELSE parsed[j].ast \in (known + 1)..(known + more)
  BY <1>1, ParsedRules DEF TypeOK
<1>5. new = [i \in 1..(known + more) |->
                IF i = x THEN asts[i] \o parsed
                ELSE IF i <= known THEN asts[i] ELSE <<>>]
  BY DEF WithFile
<1>6. /\ DOMAIN parsed = DOMAIN rules
      /\ \A j \in DOMAIN rules :
            /\ parsed[j].place = <<f, j>> /\ parsed[j].location = rules[j]
            /\ rules[j] # Setting => parsed[j].ast = known + ImportsUpTo(f, j)
  BY DEF Parsed
<1>7. DOMAIN rules \subseteq Nat
  BY <1>2, LenProperties
<1>8. \A i \in Nat : ImportsUpTo(f, i) \in Nat
  BY ImportsCounted
<1> HIDE DEF known, more, parsed, new
<1>9. /\ DOMAIN asts \subseteq DOMAIN new
      /\ \A i \in DOMAIN new : i # x =>
            new[i] = IF i \in DOMAIN asts THEN asts[i] ELSE <<>>
  <2>1. DOMAIN new = 1..(known + more)
    BY <1>5
  <2>2. \A i \in 1..(known + more) : i \in 1..known <=> i <= known
    BY <1>1, <1>3
  <2>3. \A i \in 1..known : i \in 1..(known + more)
    BY <1>1, <1>3
  <2> QED
    BY <1>1, <1>5, <2>1, <2>2, <2>3
<1>10. new[x] = parsed /\ x \in DOMAIN new
  <2>1. new[x] = <<>> \o parsed
    BY <1>1, <1>5, <1>9
  <2> QED
    BY <1>1, <1>4, <1>9, <2>1, ConcatEmptySeq
<1>11. HoldsFile(new, texts, x, f)
  BY <1>6, <1>10 DEF HoldsFile
<1>12. ASSUME NEW j, IsImport(new, x, j)
       PROVE  /\ j \in DOMAIN rules /\ rules[j] # Setting
              /\ new[x][j].ast \in DOMAIN new /\ new[x][j].ast \notin DOMAIN asts
  <2>1. j \in DOMAIN rules /\ rules[j] # Setting
    BY <1>6, <1>10, <1>12 DEF IsImport
  <2>2. parsed[j].ast \in (known + 1)..(known + more)
    BY <1>4, <1>6, <2>1
  <2>3. \A n \in (known + 1)..(known + more) :
           n \in 1..(known + more) /\ n \notin 1..known
    BY <1>1, <1>3
  <2>4. DOMAIN new = 1..(known + more)
    BY <1>5
  <2> QED
    BY <1>1, <1>10, <2>1, <2>2, <2>3, <2>4
<1>13. ASSUME NEW i, NEW j, IsImport(new, x, i), IsImport(new, x, j),
              new[x][i].ast = new[x][j].ast
       PROVE  i = j
  <2>1. /\ i \in DOMAIN rules /\ rules[i] # Setting
        /\ j \in DOMAIN rules /\ rules[j] # Setting
    BY <1>12, <1>13
  <2>2. known + ImportsUpTo(f, i) = known + ImportsUpTo(f, j)
    BY <1>6, <1>10, <1>13, <2>1
  <2>3. i \in Nat /\ j \in Nat
    BY <1>7, <2>1
  <2>4. ImportsUpTo(f, i) = ImportsUpTo(f, j)
    <3> ImportsUpTo(f, i) \in Nat /\ ImportsUpTo(f, j) \in Nat
      BY <1>8, <2>3
    <3> QED
      BY <1>1, <2>2
  <2>5. ~(i < j) /\ ~(j < i)
    BY <2>1, <2>3, <2>4, ImportsDiffer
  <2> QED
    BY <2>3, <2>5
<1>14. ParsedTo(asts, new, texts, x, f)
  <2>1. NewImports(asts, new, x)
    BY <1>12, <1>13 DEF NewImports
  <2> QED
    BY <1>9, <1>11, <2>1 DEF ParsedTo
<1> QED
  BY <1>14 DEF new

\* The imports of the others are as they were.
LEMMA ImportsKept ==
    ASSUME NEW as, NEW new, NEW ts, NEW x, NEW f, as[x] = <<>>,
           ParsedTo(as, new, ts, x, f)
    PROVE  Grown(as, new) /\ OldImports(as, new, x)
<1>0. DOMAIN <<>> = {}
  OBVIOUS
<1>1. ASSUME NEW a, NEW j, IsImport(as, a, j)
      PROVE  IsImport(new, a, j) /\ new[a][j] = as[a][j]
  <2>1. a # x
    BY <1>0, <1>1, Zenon DEF IsImport
  <2>2. a \in DOMAIN as /\ a \in DOMAIN new /\ new[a] = as[a]
    BY <1>1, <2>1 DEF IsImport, ParsedTo
  <2> QED
    BY <1>1, <2>2 DEF IsImport
<1>2. ASSUME NEW a, NEW j, IsImport(new, a, j), a # x
      PROVE  IsImport(as, a, j) /\ new[a][j] = as[a][j]
  <2>1. a \in DOMAIN new /\ new[a] = IF a \in DOMAIN as THEN as[a] ELSE <<>>
    BY <1>2 DEF IsImport, ParsedTo
  <2>2. j \in DOMAIN new[a] /\ new[a][j].location # Setting
    BY <1>2 DEF IsImport
  <2>3. a \in DOMAIN as
    BY <1>0, <2>1, <2>2
  <2> QED
    BY <2>1, <2>2, <2>3 DEF IsImport
<1> QED
  BY <1>1, <1>2 DEF Grown, OldImports

LEMMA OwnASTsParsed ==
    ASSUME NEW as, NEW new, NEW ts, NEW x, NEW f, as[x] = <<>>,
           ParsedTo(as, new, ts, x, f), OwnASTs(as),
           \A a, j : IsImport(as, a, j) => as[a][j].ast \in DOMAIN as
    PROVE  OwnASTs(new)
<1> SUFFICES ASSUME NEW a, NEW b, NEW i, NEW j,
                    IsImport(new, a, i), IsImport(new, b, j),
                    new[a][i].ast = new[b][j].ast
             PROVE  a = b /\ i = j
  BY DEF OwnASTs
<1>1. OldImports(as, new, x) /\ NewImports(as, new, x)
  BY ImportsKept DEF ParsedTo
<1>2. ASSUME NEW c, NEW k, IsImport(new, c, k), c # x
      PROVE  /\ IsImport(as, c, k) /\ new[c][k] = as[c][k]
             /\ new[c][k].ast \in DOMAIN as
  <2>1. IsImport(as, c, k) /\ new[c][k] = as[c][k]
    BY <1>1, <1>2 DEF OldImports
  <2> QED
    BY <2>1
<1>3. ASSUME NEW k, IsImport(new, x, k)
      PROVE  new[x][k].ast \notin DOMAIN as
  BY <1>1, <1>3 DEF NewImports
<1>4. CASE a = x /\ b = x
  BY <1>1, <1>4 DEF NewImports
<1>5. CASE a # x /\ b # x
  <2>1. /\ IsImport(as, a, i) /\ IsImport(as, b, j)
        /\ as[a][i].ast = as[b][j].ast
    BY <1>2, <1>5
  <2> QED
    BY <2>1 DEF OwnASTs
<1>6. CASE a = x /\ b # x
  <2>1. IsImport(new, x, i)
    BY <1>6
  <2>2. new[x][i].ast \notin DOMAIN as /\ new[b][j].ast \in DOMAIN as
    BY <1>2, <1>3, <1>6, <2>1
  <2> QED
    BY <1>6, <2>2
<1>7. CASE a # x /\ b = x
  <2>1. IsImport(new, x, j)
    BY <1>7
  <2>2. new[x][j].ast \notin DOMAIN as /\ new[a][i].ast \in DOMAIN as
    BY <1>2, <1>3, <1>7, <2>1
  <2> QED
    BY <1>7, <2>2
<1> QED
  BY <1>4, <1>5, <1>6, <1>7

Filling(new, as, held, x, f) ==
    [i \in DOMAIN new |-> IF i = x THEN f ELSE IF i \in DOMAIN as THEN held[i]
                          ELSE NoFile]

LEMMA FilledParsed ==
    ASSUME NEW as, NEW new, NEW ts, NEW x \in DOMAIN as, NEW f \in Files,
           as[x] = <<>>, ParsedTo(as, new, ts, x, f),
           ~ts[f].broken, ts[f].exists,
           NEW held, Filled(as, ts, held), Named(as, held),
           \A a, j : IsImport(as, a, j) =>
              /\ as[a][j].ast \in DOMAIN as
              /\ as[a][j].ast = x => as[a][j].location = f
    PROVE  /\ Filled(new, ts, Filling(new, as, held, x, f))
           /\ Named(new, Filling(new, as, held, x, f))
<1> DEFINE g == Filling(new, as, held, x, f)
<1>0. DOMAIN as \subseteq DOMAIN new
  BY DEF ParsedTo
<1>1. /\ g[x] = f
      /\ \A i \in DOMAIN as : i # x => g[i] = held[i]
      /\ \A i \in DOMAIN new : i \notin DOMAIN as => g[i] = NoFile
      /\ g \in [DOMAIN new -> Files \cup {NoFile}]
  BY <1>0 DEF Filling, Filled
<1> HIDE DEF g
<1>2. ASSUME NEW a \in DOMAIN new
      PROVE  IF g[a] = NoFile THEN new[a] = <<>>
             ELSE /\ HoldsFile(new, ts, a, g[a])
                  /\ ~ts[g[a]].broken /\ ts[g[a]].exists
  <2>1. CASE a = x
    BY <1>1, <2>1, LoaderAssumption DEF ParsedTo
  <2>2. CASE a # x /\ a \in DOMAIN as
    <3>1. g[a] = held[a] /\ new[a] = as[a]
      BY <1>1, <2>2 DEF ParsedTo
    <3>2. IF held[a] = NoFile THEN as[a] = <<>>
          ELSE /\ HoldsFile(as, ts, a, held[a])
               /\ ~ts[held[a]].broken /\ ts[held[a]].exists
      BY <2>2 DEF Filled
    <3>3. HoldsFile(new, ts, a, held[a]) <=> HoldsFile(as, ts, a, held[a])
      BY <3>1 DEF HoldsFile
    <3> QED
      BY <3>1, <3>2, <3>3
  <2>3. CASE a # x /\ a \notin DOMAIN as
    BY <1>1, <2>3 DEF ParsedTo
  <2> QED
    BY <2>1, <2>2, <2>3
<1>3. ASSUME NEW a, NEW j, IsImport(new, a, j)
      PROVE  g[new[a][j].ast] \in {NoFile, new[a][j].location}
  <2>1. CASE a = x
    BY <1>1, <1>3, <2>1 DEF ParsedTo, NewImports
  <2>2. CASE a # x
    <3>1. IsImport(as, a, j) /\ new[a][j] = as[a][j]
      <4>1. OldImports(as, new, x)
        BY ImportsKept
      <4> QED
        BY <1>3, <2>2, <4>1 DEF OldImports
    <3>2. held[as[a][j].ast] \in {NoFile, as[a][j].location}
      BY <3>1 DEF Named
    <3>3. /\ as[a][j].ast \in DOMAIN as
          /\ as[a][j].ast = x => as[a][j].location = f
      BY <3>1
    <3> QED
      BY <1>1, <3>1, <3>2, <3>3
  <2> QED
    BY <2>1, <2>2
<1> QED
  BY <1>1, <1>2, <1>3 DEF Filled, Named, g

LEMMA ProgressParsed ==
    ASSUME NEW as \in Seq(Seq(RuleRecords)), NEW new \in Seq(Seq(RuleRecords)),
           NEW ts, NEW x \in DOMAIN as, NEW f \in Files, as[x] = <<>>,
           ParsedTo(as, new, ts, x, f), NEW held, NEW said,
           NEW calls \in Seq(Frames), Progress(calls, as, held, said),
           \A a, j : IsImport(as, a, j) => as[a][j].ast \in DOMAIN as,
           \A k \in 1..Len(calls) : OfRules(calls[k]) =>
              /\ calls[k].ast \in DOMAIN as /\ calls[k].ast # x
              /\ \A j : IsImport(as, calls[k].ast, j) /\ j > calls[k].next
                           => as[calls[k].ast][j].ast # x,
           NEW c \in Frames, OfRules(c), c.ast = x, c.next = 1
    PROVE  Progress(<<c>> \o calls, new, Filling(new, as, held, x, f), NoAnswer)
<1> DEFINE calls2 == <<c>> \o calls
           g == Filling(new, as, held, x, f)
<1> PICK n \in Nat : n = Len(calls)
  BY LenProperties
<1>1. /\ Len(calls2) = n + 1 /\ calls2[1] = c
      /\ \A i \in 1..n : calls2[i + 1] = calls[i]
  BY Pushed
<1>2. /\ g[x] = f /\ f # NoFile /\ \A i \in DOMAIN as : i # x => g[i] = held[i]
      /\ \A i \in DOMAIN new : i \notin DOMAIN as => g[i] = NoFile
  BY LoaderAssumption DEF Filling, ParsedTo
<1>3. OldImports(as, new, x) /\ NewImports(as, new, x)
  BY ImportsKept DEF ParsedTo
<1>4. \A a, j : IsImport(new, a, j) => j \in Nat \ {0}
  BY ImportTyped
<1> HIDE DEF calls2, g
<1>5. ASSUME NEW a, NEW j, IsImport(new, a, j), g[new[a][j].ast] = NoFile
      PROVE  \E k \in 1..(n + 1) : /\ OfRules(calls2[k]) /\ calls2[k].ast = a
                                   /\ calls2[k].next <= j
  <2>1. CASE a = x
    <3>1. 1 <= j /\ 1 \in 1..(n + 1)
      BY <1>4, <1>5
    <3> QED
      BY <1>1, <2>1, <3>1
  <2>2. CASE a # x
    <3>1. /\ IsImport(as, a, j) /\ new[a][j] = as[a][j]
          /\ as[a][j].ast \in DOMAIN as
      <4>1. IsImport(as, a, j) /\ new[a][j] = as[a][j]
        BY <1>3, <1>5, <2>2 DEF OldImports
      <4> QED
        BY <4>1
    <3>2. held[as[a][j].ast] = NoFile
      BY <1>2, <1>5, <3>1
    <3>3. PICK k \in 1..n : /\ OfRules(calls[k]) /\ calls[k].ast = a
                            /\ calls[k].next <= j
      BY <3>1, <3>2 DEF Progress, Reached
    <3>4. k + 1 \in 1..(n + 1)
      OBVIOUS
    <3> QED
      BY <1>1, <3>3, <3>4
  <2> QED
    BY <2>1, <2>2
<1>6. Reached(calls2, new, g)
  BY <1>1, <1>5 DEF Reached
<1>7. ASSUME NEW k \in 1..(n + 1), OfRules(calls2[k])
      PROVE  g[calls2[k].ast] # NoFile /\ Untouched(calls2[k], new, g, NoAnswer, k)
  <2>1. CASE k = 1
    <3>1. ASSUME NEW j, IsImport(new, x, j)
          PROVE  g[new[x][j].ast] = NoFile
      BY <1>2, <1>3, <3>1 DEF NewImports
    <3> QED
      BY <1>1, <1>2, <2>1, <3>1 DEF Untouched
  <2>2. CASE k # 1
    <3>1. k - 1 \in 1..n /\ (k - 1) + 1 = k
      BY <2>2
    <3> PICK l \in 1..n : l = k - 1
      BY <3>1
    <3>2. calls2[k] = calls[l]
      BY <1>1, <3>1
    <3>3. /\ OfRules(calls[l]) /\ calls[l].ast \in DOMAIN as /\ calls[l].ast # x
          /\ held[calls[l].ast] # NoFile /\ Untouched(calls[l], as, held, said, l)
          /\ \A j : IsImport(as, calls[l].ast, j) /\ j > calls[l].next
                       => as[calls[l].ast][j].ast # x
      BY <1>7, <3>2 DEF Progress
    <3>4. ASSUME NEW j, IsImport(new, calls[l].ast, j), Ahead(calls[l], NoAnswer, k, j)
          PROVE  g[new[calls[l].ast][j].ast] = NoFile
      <4>1. IsImport(as, calls[l].ast, j) /\ new[calls[l].ast][j] = as[calls[l].ast][j]
        BY <1>3, <3>3, <3>4 DEF OldImports
      <4>2. j > calls[l].next
        BY <2>2, <3>4 DEF Ahead
      <4>3. held[as[calls[l].ast][j].ast] = NoFile
        BY <3>3, <4>1, <4>2 DEF Untouched, Ahead
      <4>4. as[calls[l].ast][j].ast \in DOMAIN as /\ as[calls[l].ast][j].ast # x
        BY <3>3, <4>1, <4>2
      <4> QED
        BY <1>2, <4>1, <4>3, <4>4
    <3> QED
      BY <1>2, <3>2, <3>3, <3>4 DEF Untouched
  <2> QED
    BY <2>1, <2>2
<1> QED
  BY <1>1, <1>6, <1>7 DEF Progress, calls2, g

----------------------------------------------------------------------------
(* A load that fails.                                                      *)

\* The files whose rules are being resolved.
OpenFiles(calls, held) ==
    {held[calls[k].ast] : k \in {l \in 1..Len(calls) : OfRules(calls[l])}}

\* If the innermost call can get no further, neither can the files that wait
\* for it: each of them imports the next.
LEMMA OpenDoomed ==
    ASSUME NEW as \in Seq(Seq(RuleRecords)), NEW ts, NEW held,
           Filled(as, ts, held), Named(as, held),
           NEW calls \in Seq(Frames), calls # <<>>, Linked(calls, as),
           NEW said, Progress(calls, as, held, said),
           NEW bad \in SUBSET Files, Doomed(ts, bad),
           OfRules(calls[1]) =>
              /\ IsImport(as, calls[1].ast, calls[1].next)
              /\ as[calls[1].ast][calls[1].next].location
                    \in OpenFiles(calls, held) \cup bad,
           OfResolver(calls[1]) =>
              ~ts[calls[1].location].exists \/ calls[1].location \in bad
    PROVE  /\ Doomed(ts, OpenFiles(calls, held) \cup bad)
           /\ OpenFiles(calls, held) \in SUBSET Files
           /\ held[1] \in OpenFiles(calls, held)
<1> DEFINE Z == OpenFiles(calls, held)
<1> PICK n \in Nat : n = Len(calls)
  BY LenProperties
<1>1. n > 0 /\ n \in 1..n
  BY EmptySeq
<1>2. /\ \A k \in 1..(n - 1) : Calls(calls[k + 1], calls[k], as)
      /\ OfRules(calls[n]) /\ calls[n].ast = 1
  BY DEF Linked
<1>3. \A k \in 1..n : OfRules(calls[k]) => held[calls[k].ast] # NoFile
  BY DEF Progress
<1>4. \A k \in 1..n : OfRules(calls[k]) <=> ~OfResolver(calls[k])
  BY FrameTyped
<1>5. \A f : f \in Z <=> \E k \in 1..n : OfRules(calls[k]) /\ f = held[calls[k].ast]
  BY DEF OpenFiles
<1> HIDE DEF Z
<1>6. held[1] \in Z
  BY <1>1, <1>2, <1>5
<1>7. ASSUME NEW k \in 1..n, OfRules(calls[k])
      PROVE  /\ IsImport(as, calls[k].ast, calls[k].next)
             /\ LET g == as[calls[k].ast][calls[k].next].location
                IN  ~ts[g].exists \/ g \in Z \cup bad
  <2>1. CASE k = 1
    BY <1>7, <2>1 DEF Z
  <2>2. CASE k # 1
    <3> PICK l \in 1..(n - 1) : k = l + 1
      <4> k - 1 \in 1..(n - 1) /\ k = (k - 1) + 1
        BY <2>2
      <4> QED
        OBVIOUS
    <3>1. Calls(calls[k], calls[l], as)
      BY <1>2
    <3>2. OfResolver(calls[l])
      <4>1. ~OfResolver(calls[k])
        BY <1>4, <1>7
      <4> QED
        BY <3>1, <4>1 DEF Calls
    <3>3. /\ IsImport(as, calls[k].ast, calls[k].next)
          /\ calls[l].ast = as[calls[k].ast][calls[k].next].ast
          /\ calls[l].location = as[calls[k].ast][calls[k].next].location
      BY <3>1, <3>2 DEF Calls
    <3>4. CASE l = 1
      BY <3>2, <3>3, <3>4
    <3>5. CASE l # 1
      <4> PICK m \in 1..(n - 1) : l = m + 1
        <5> l - 1 \in 1..(n - 1) /\ l = (l - 1) + 1
          BY <3>5
        <5> QED
          OBVIOUS
      <4>1. Calls(calls[l], calls[m], as)
        BY <1>2
      <4>2. m \in 1..n /\ l \in 1..n
        OBVIOUS
      <4>3. OfRules(calls[m]) /\ calls[m].ast = calls[l].ast
        BY <1>4, <3>2, <4>1, <4>2 DEF Calls
      <4>4. held[calls[l].ast] # NoFile
        BY <1>3, <4>2, <4>3
      <4>5. held[calls[l].ast] = calls[l].location
        <5>1. held[as[calls[k].ast][calls[k].next].ast]
                 \in {NoFile, as[calls[k].ast][calls[k].next].location}
          BY <3>3 DEF Named
        <5> QED
          BY <3>3, <4>4, <5>1
      <4>6. calls[l].location \in Z
        BY <1>5, <4>2, <4>3, <4>5
      <4> QED
        BY <3>3, <4>6
    <3> QED
      BY <3>4, <3>5
  <2> QED
    BY <2>1, <2>2
<1>8. ASSUME NEW f \in Z
      PROVE  /\ f \in Files
             /\ \E i \in DOMAIN ts[f].rules :
                   /\ ts[f].rules[i] # Setting
                   /\ ~ts[ts[f].rules[i]].exists \/ ts[f].rules[i] \in Z \cup bad
  <2>1. PICK k \in 1..n : OfRules(calls[k]) /\ f = held[calls[k].ast]
    BY <1>5
  <2> PICK a, i : a = calls[k].ast /\ i = calls[k].next
    OBVIOUS
  <2>2. a \in DOMAIN as /\ i \in DOMAIN as[a] /\ as[a][i].location # Setting
    BY <1>7, <2>1 DEF IsImport
  <2>3. f \in Files /\ HoldsFile(as, ts, a, f)
    BY <1>3, <2>1, <2>2 DEF Filled
  <2>4. i \in DOMAIN ts[f].rules /\ ts[f].rules[i] = as[a][i].location
    BY <2>2, <2>3 DEF HoldsFile
  <2>5. ~ts[as[a][i].location].exists \/ as[a][i].location \in Z \cup bad
    BY <1>7, <2>1
  <2> QED
    BY <2>2, <2>3, <2>4, <2>5
<1>9. Doomed(ts, Z \cup bad)
  BY <1>8 DEF Doomed
<1> QED
  BY <1>6, <1>8, <1>9 DEF Z

----------------------------------------------------------------------------
(* Every step keeps the load invariant.                                    *)

LEMMA Primed ==
    /\ Offers(frames, answer)' <=> Offers(frames', answer')
    /\ \A h : Alive(h)' <=> /\ 1 \in DOMAIN asts' /\ OwnASTs(asts') /\ Linked(frames', asts')
                            /\ Going(frames', texts', asts', h, answer')
                            /\ h[1] = top'
    /\ \A Z : Doomed(texts, Z)' <=> Doomed(texts', Z)
<1>1. Offers(frames, answer)' <=> Offers(frames', answer')
  BY DEF Offers, OfResolver
<1>2. OwnASTs(asts)' <=> OwnASTs(asts')
  BY DEF OwnASTs, IsImport
<1>3. Linked(frames, asts)' <=> Linked(frames', asts')
  BY DEF Linked, Calls, OfRules, OfResolver, IsImport
<1>4. ASSUME NEW h
      PROVE  Going(frames, texts, asts, h, answer)'
                <=> Going(frames', texts', asts', h, answer')
  <2>1. Filled(asts, texts, h)' <=> Filled(asts', texts', h)
    BY DEF Filled, HoldsFile
  <2>2. Named(asts, h)' <=> Named(asts', h)
    BY DEF Named, IsImport
  <2>3. Progress(frames, asts, h, answer)' <=> Progress(frames', asts', h, answer')
    BY DEF Progress, Reached, Untouched, Ahead, OfRules, IsImport
  <2>4. Knows(frames[1], texts, asts, h, answer)'
           <=> Knows(frames'[1], texts', asts', h, answer')
    BY DEF Knows, OfRules, OfResolver, IsImport
  <2> QED
    BY <2>1, <2>2, <2>3, <2>4 DEF Going
<1>5. \A Z : Doomed(texts, Z)' <=> Doomed(texts', Z)
  BY DEF Doomed
<1> QED
  BY <1>1, <1>2, <1>3, <1>4, <1>5 DEF Alive

LEMMA GoesOnLoading ==
    ASSUME top' \in Files, texts'[top'].exists, answer' \in {NoAnswer, "yes"},
           ~reported', Offers(frames', answer'),
           1 \in DOMAIN asts', OwnASTs(asts'), Linked(frames', asts'),
           NEW h, Going(frames', texts', asts', h, answer'), h[1] = top'
    PROVE  LoadInv'
<1>1. answer' # "no" /\ answer' \in {NoAnswer, "yes", "no"}
  BY DEF NoAnswer
<1>2. Alive(h)' /\ Offers(frames, answer)'
  BY Primed
<1>3. top' # NoFile
  BY LoaderAssumption
<1> QED
  BY <1>1, <1>2, <1>3 DEF LoadInv

LEMMA FailsLoading ==
    ASSUME top' \in Files, texts'[top'].exists, answer' = "no", reported',
           Offers(frames', answer'),
           NEW Z \in SUBSET Files, top' \in Z, Doomed(texts', Z)
    PROVE  LoadInv'
<1>1. Doomed(texts, Z)' /\ Offers(frames, answer)'
  BY Primed
<1>2. top' # NoFile
  BY LoaderAssumption
<1> QED
  BY <1>1, <1>2 DEF LoadInv

\* What is known while a call is in progress.
LEMMA Loading ==
    ASSUME IInv, LoadInv, frames # <<>>
    PROVE  /\ top \in Files /\ texts[top].exists
           /\ answer \in {NoAnswer, "yes", "no"} /\ (reported <=> answer = "no")
           /\ Offers(frames, answer)
           /\ answer = "no" => \E Z \in SUBSET Files : top \in Z /\ Doomed(texts, Z)
           /\ answer # "no" => \E held : Alive(held)
           /\ asts \in Seq(Seq(RuleRecords)) /\ Forest(asts)
           /\ frames \in Seq(Frames)
BY Innermost DEF LoadInv, IInv, TypeOK

LEMMA ImportASTs ==
    ASSUME NEW as \in Seq(Seq(RuleRecords)), Forest(as), NEW a, NEW j,
           IsImport(as, a, j)
    PROVE  as[a][j].ast \in DOMAIN as /\ as[a][j].ast > a /\ as[a][j].ast \in Nat
<1> PICK n \in Nat : n = Len(as) /\ DOMAIN as = 1..n
  BY LenProperties
<1>1. as[a][j].ast \in (a + 1)..n
  BY DEF IsImport, Forest
<1>2. a \in 1..n
  BY DEF IsImport
<1> PICK x : x = as[a][j].ast
  OBVIOUS
<1>3. x \in 1..n /\ x > a /\ x \in Nat
  <2> x \in (a + 1)..n
    BY <1>1
  <2> QED
    BY ONLY n \in Nat, a \in 1..n, x \in (a + 1)..n, <1>2
<1> QED
  BY <1>3

\* All the resolvers have offered what they have.
AllOffered(calls) ==
    \A k \in 1..Len(calls) : OfResolver(calls[k]) => calls[k].offered = 1

LEMMA OffersAll ==
    ASSUME NEW calls, NEW said, Offers(calls, said),
           OfRules(calls[1]) \/ said # NoAnswer
    PROVE  AllOffered(calls)
BY DEF Offers, AllOffered, OfRules, OfResolver

LEMMA AllOffers ==
    ASSUME NEW calls, AllOffered(calls), NEW said
    PROVE  Offers(calls, said)
BY DEF Offers, AllOffered

LEMMA OffersPop ==
    ASSUME NEW calls \in Seq(Frames), calls # <<>>, NEW said, Offers(calls, said)
    PROVE  AllOffered(Tail(calls))
<1> PICK n \in Nat : n = Len(calls)
  BY LenProperties
<1>1. /\ Len(Tail(calls)) = n - 1
      /\ \A i \in 1..(n - 1) : Tail(calls)[i] = calls[i + 1]
  BY Popped
<1>2. ASSUME NEW k \in 1..(n - 1), OfResolver(Tail(calls)[k])
      PROVE  Tail(calls)[k].offered = 1
  <2>1. k + 1 \in 1..n /\ k + 1 # 1
    OBVIOUS
  <2> QED
    BY <1>1, <1>2, <2>1 DEF Offers
<1> QED
  BY <1>1, <1>2 DEF AllOffered

LEMMA OffersPush ==
    ASSUME NEW calls \in Seq(Frames), AllOffered(calls), NEW c \in Frames,
           OfResolver(c) => c.offered = 0
    PROVE  Offers(<<c>> \o calls, NoAnswer) /\ (OfRules(c) => AllOffered(<<c>> \o calls))
<1> DEFINE new == <<c>> \o calls
<1> PICK n \in Nat : n = Len(calls)
  BY LenProperties
<1>1. /\ Len(new) = n + 1 /\ new[1] = c /\ \A i \in 1..n : new[i + 1] = calls[i]
  BY Pushed
<1> HIDE DEF new
<1>2. ASSUME NEW k \in 1..(n + 1), OfResolver(new[k]), k # 1
      PROVE  new[k].offered = 1
  <2>1. k - 1 \in 1..n /\ (k - 1) + 1 = k
    BY <1>2
  <2> QED
    BY <1>1, <1>2, <2>1 DEF AllOffered
<1>3. Offers(new, NoAnswer)
  BY <1>1, <1>2 DEF Offers
<1>4. OfRules(c) => AllOffered(new)
  BY <1>1, <1>2 DEF AllOffered, OfRules, OfResolver
<1> QED
  BY <1>3, <1>4 DEF new

\* The innermost call in the terms used here.
LEMMA InnermostIs ==
    ASSUME IInv, frames # <<>>
    PROVE  /\ Head(frames) = frames[1] /\ frames[1] \in Frames
           /\ 1 \in 1..Len(frames) /\ Len(frames) \in Nat \ {0}
           /\ frames[1].ast \in DOMAIN asts
           /\ Head(frames).call = "resolveImports" <=> OfRules(frames[1])
           /\ Head(frames).call = "resolve" <=> OfResolver(frames[1])
           /\ OfRules(frames[1]) <=> ~OfResolver(frames[1])
           /\ OfRules(frames[1]) => frames[1].next \in Nat \ {0}
           /\ OfResolver(frames[1]) =>
                 frames[1].location \in Files /\ frames[1].offered \in Nat
<1>1. 1 \in 1..Len(frames) /\ Len(frames) \in Nat \ {0}
  BY Innermost
<1> QED
  BY <1>1, Innermost, FrameTyped DEF OfRules, OfResolver

\* Whether the rule a loop has come to is an import.
LEMMA RuleIs ==
    ASSUME IInv, InCall("resolveImports")
    PROVE  /\ Rule = asts[frames[1].ast][frames[1].next]
           /\ Head(frames).next <= Len(Rules)
                 <=> frames[1].next \in DOMAIN asts[frames[1].ast]
           /\ IsImport(asts, frames[1].ast, frames[1].next)
                 <=> Head(frames).next <= Len(Rules) /\ Rule.location # Setting
           /\ Head(frames).next > Len(Rules) =>
                 \A j : IsImport(asts, frames[1].ast, j) => j < frames[1].next
<1>1. frames # <<>> /\ OfRules(frames[1]) /\ Head(frames) = frames[1]
  BY InnermostIs DEF InCall
<1>2. /\ frames[1].next \in Nat \ {0} /\ frames[1].ast \in DOMAIN asts
      /\ asts \in Seq(Seq(RuleRecords))
  BY <1>1, InnermostIs, Innermost
<1>3. Rule = asts[frames[1].ast][frames[1].next] /\ Rules = asts[frames[1].ast]
  BY <1>1 DEF Rule, Rules
<1>4. Rules \in Seq(RuleRecords)
  BY <1>2, <1>3
<1> PICK n \in Nat : n = Len(Rules) /\ DOMAIN Rules = 1..n
  BY <1>4, LenProperties
<1> PICK i \in Nat \ {0} : i = frames[1].next
  BY <1>2
<1>5. i <= n <=> i \in 1..n
  OBVIOUS
<1>6. i > n => \A j \in 1..n : j < i
  OBVIOUS
<1>7. IsImport(asts, frames[1].ast, frames[1].next)
         <=> i \in 1..n /\ Rule.location # Setting
  BY <1>2, <1>3 DEF IsImport
<1>8. \A j : IsImport(asts, frames[1].ast, j) => j \in 1..n
  BY <1>3 DEF IsImport
<1> QED
  BY <1>1, <1>3, <1>5, <1>6, <1>7, <1>8

\* The loop goes on, past a rule that is no import or one that succeeded.
LEMMA AdvancedLoad ==
    ASSUME IInv, LoadInv, InCall("resolveImports"), answer # "no",
           IsImport(asts, frames[1].ast, frames[1].next) => answer = "yes",
           frames' = Advanced, answer' = NoAnswer,
           UNCHANGED <<texts, top, asts, reported>>
    PROVE  LoadInv'
<1>1. frames # <<>> /\ OfRules(frames[1])
  BY InnermostIs DEF InCall
<1> DEFINE c == [frames[1] EXCEPT !.next = @ + 1]
<1>2. frames[1] \in [call : {"resolveImports"}, ast : Nat, next : Nat \ {0}]
  BY <1>1, InnermostIs DEF Frames, OfRules
<1>3. /\ c \in Frames /\ OfRules(c) /\ ~OfResolver(c) /\ c.call = frames[1].call
      /\ c.ast = frames[1].ast /\ c.next = frames[1].next + 1
  BY <1>2 DEF Frames, OfRules, OfResolver
<1>4. frames' = [frames EXCEPT ![1] = c]
  BY DEF Advanced
<1> HIDE DEF c
<1>5. PICK h : Alive(h)
  BY <1>1, Loading
<1> PICK n \in Nat \ {0} : n = Len(frames)
  BY <1>1, InnermostIs
<1>6. /\ top \in Files /\ texts[top].exists /\ ~reported
      /\ Offers(frames, answer)
      /\ frames \in Seq(Frames) /\ asts \in Seq(Seq(RuleRecords))
  BY <1>1, Loading
<1>7. /\ Linked(frames', asts) /\ Len(frames') = n /\ frames'[1] = c
      /\ \A k \in 2..n : frames'[k] = frames[k]
  <2>1. Linked(frames, asts)
    BY <1>5 DEF Alive
  <2> DEFINE new == [frames EXCEPT ![1] = c]
  <2>2. /\ Linked(new, asts) /\ Len(new) = Len(frames) /\ new[1] = c
        /\ \A k \in 2..Len(frames) : new[k] = frames[k]
    <3>1. OfResolver(c) => c.location = frames[1].location
      BY <1>3
    <3>2. /\ frames \in Seq(Frames) /\ frames # <<>> /\ c \in Frames
          /\ c.call = frames[1].call /\ c.ast = frames[1].ast
      BY <1>1, <1>3, <1>6
    <3> QED
      BY ONLY <2>1, <3>1, <3>2, LinkedOn
  <2> HIDE DEF new
  <2>3. frames' = new
    BY <1>4 DEF new
  <2> QED
    BY <2>2, <2>3
<1>8. Progress(frames', asts, h, NoAnswer)
  <2>1. Progress(frames, asts, h, answer)
    BY <1>5 DEF Alive, Going
  <2>2. IsImport(asts, frames[1].ast, frames[1].next) =>
           h[asts[frames[1].ast][frames[1].next].ast] # NoFile
    BY <1>1, <1>5 DEF Alive, Going, Knows
  <2> QED
    BY <1>1, <1>3, <1>6, <1>7, <2>1, <2>2, ProgressOn
<1>9. Knows(frames'[1], texts, asts, h, NoAnswer)
  BY <1>3, <1>7 DEF Knows, NoAnswer
<1>10. Going(frames', texts', asts', h, answer')
  BY <1>5, <1>8, <1>9 DEF Alive, Going
<1>11. Offers(frames', answer')
  <2>1. AllOffered(frames)
    BY <1>1, <1>6, OffersAll
  <2>2. ASSUME NEW k \in 1..n, OfResolver(frames'[k])
        PROVE  frames'[k].offered = 1
    <3>1. k = 1 \/ k \in 2..n
      OBVIOUS
    <3> QED
      BY <1>3, <1>7, <2>1, <2>2, <3>1 DEF AllOffered
  <2>3. AllOffered(frames')
    BY <1>7, <2>2 DEF AllOffered
  <2> QED
    BY <2>3, AllOffers
<1> QED
  BY <1>5, <1>6, <1>7, <1>10, <1>11, GoesOnLoading DEF Alive

\* A file whose imports are all loaded is loaded.
LEMMA FinishRulesLoad ==
    ASSUME IInv, LoadInv, FinishRules
    PROVE  LoadInv'
<1>1. /\ frames # <<>> /\ OfRules(frames[1]) /\ InCall("resolveImports")
      /\ answer = NoAnswer /\ answer # "no"
      /\ frames' = Tail(frames) /\ answer' = "yes"
      /\ UNCHANGED <<texts, top, asts, reported>>
  BY InnermostIs DEF FinishRules, InCall, Caller, NoAnswer
<1>2. PICK h : Alive(h)
  BY <1>1, Loading
<1>3. /\ top \in Files /\ texts[top].exists /\ ~reported
      /\ Offers(frames, answer)
      /\ frames \in Seq(Frames) /\ asts \in Seq(Seq(RuleRecords))
  BY <1>1, Loading
<1>4. Linked(frames', asts) /\ AllOffered(frames')
  BY <1>1, <1>2, <1>3, LinkedPop, OffersPop DEF Alive
<1>5. Progress(frames', asts, h, "yes")
  <2>1. \A j : IsImport(asts, frames[1].ast, j) => j < frames[1].next
    BY <1>1, RuleIs DEF FinishRules
  <2>2. Progress(frames, asts, h, answer)
    BY <1>2 DEF Alive, Going
  <2> QED
    BY <1>1, <1>3, <2>1, <2>2, ProgressPop
<1>6. ASSUME frames' # <<>>
      PROVE  Knows(frames'[1], texts, asts, h, "yes")
  <2> PICK n \in Nat : n = Len(frames)
    BY <1>1, InnermostIs
  <2>1. n - 1 > 0 /\ frames'[1] = frames[2] /\ 1 \in 1..(n - 1)
    <3>1. /\ Tail(frames) \in Seq(Frames) /\ Len(Tail(frames)) = n - 1
          /\ \A i \in 1..(n - 1) : Tail(frames)[i] = frames[i + 1]
      BY <1>1, <1>3, Popped
    <3>2. n - 1 > 0
      BY <1>1, <1>6, <3>1, EmptySeq
    <3>3. 1 \in 1..(n - 1) /\ 1 + 1 = 2
      BY <3>2
    <3> QED
      BY <1>1, <3>1, <3>2, <3>3
  <2>2. Calls(frames[1 + 1], frames[1], asts)
    BY <1>2, <2>1 DEF Alive, Linked
  <2>3. OfResolver(frames[2]) /\ frames[2].ast = frames[1].ast
    <3>1. ~OfResolver(frames[1])
      BY <1>1 DEF OfRules, OfResolver
    <3> QED
      BY <2>2, <3>1 DEF Calls
  <2>4. h[frames[1].ast] # NoFile
    <3>1. 1 \in 1..Len(frames)
      BY <1>1, InnermostIs
    <3> QED
      BY <1>1, <1>2, <3>1 DEF Alive, Going, Progress
  <2> QED
    BY <2>1, <2>3, <2>4 DEF Knows, OfRules, OfResolver, NoAnswer
<1>7. Going(frames', texts', asts', h, answer')
  BY <1>1, <1>2, <1>5, <1>6 DEF Alive, Going
<1>8. Offers(frames', answer')
  BY <1>4, AllOffers
<1> QED
  BY <1>1, <1>2, <1>3, <1>4, <1>7, <1>8, GoesOnLoading DEF Alive

\* A call that failed makes its caller fail.
LEMMA FailedLoad ==
    ASSUME IInv, LoadInv, frames # <<>>, answer = "no", frames' = Tail(frames),
           answer' = "no", reported', UNCHANGED <<texts, top>>
    PROVE  LoadInv'
<1>1. PICK Z \in SUBSET Files : top \in Z /\ Doomed(texts, Z)
  BY Loading
<1>2. /\ top \in Files /\ texts[top].exists
      /\ Offers(frames, answer) /\ frames \in Seq(Frames)
  BY Loading
<1>3. Offers(frames', answer')
  BY <1>2, OffersPop, AllOffers
<1> QED
  BY <1>1, <1>2, <1>3, FailsLoading

\* No import is resolved in itself.
LEMMA CircularLoad ==
    ASSUME IInv, LoadInv, StartImport, Circular(Rule.location)
    PROVE  LoadInv'
<1>1. /\ frames # <<>> /\ OfRules(frames[1]) /\ InCall("resolveImports")
      /\ answer = NoAnswer /\ answer # "no"
      /\ frames' = Tail(frames) /\ answer' = "no" /\ reported'
      /\ UNCHANGED <<texts, top, asts>>
  BY InnermostIs DEF StartImport, InCall, Caller, NoAnswer
<1>2. PICK h : Alive(h)
  BY <1>1, Loading
<1>3. /\ top \in Files /\ texts[top].exists
      /\ Offers(frames, answer)
      /\ frames \in Seq(Frames) /\ asts \in Seq(Seq(RuleRecords))
  BY <1>1, Loading
<1>4. /\ IsImport(asts, frames[1].ast, frames[1].next)
      /\ Rule = asts[frames[1].ast][frames[1].next]
  BY <1>1, RuleIs DEF StartImport
<1> PICK n \in Nat : n = Len(frames)
  BY <1>1, InnermostIs
<1>5. PICK k \in 1..n : OfResolver(frames[k]) /\ frames[k].location = Rule.location
  <2>1. PICK m \in 1..Len(inProgress) : inProgress[m] = Rule.location
    <3>1. inProgress \in Seq(Files)
      BY DEF IInv, TypeOK
    <3> QED
      BY <3>1, LenProperties DEF Circular
  <2>2. Stacked(frames, inProgress) /\ Len(inProgress) \in Nat
    BY LenProperties DEF IInv, InProgressIsStack, TypeOK
  <2>3. /\ frames[n + 1 - 2 * m].call = "resolve"
        /\ frames[n + 1 - 2 * m].location = inProgress[m]
    BY <2>1, <2>2 DEF Stacked
  <2>4. n + 1 - 2 * m \in 1..n
    <3>1. n = 2 * Len(inProgress) \/ n = 2 * Len(inProgress) + 1
      BY <2>2 DEF Stacked
    <3> QED
      BY <2>2, <3>1
  <2> QED
    BY <2>1, <2>3, <2>4 DEF OfResolver
<1>6. Rule.location \in OpenFiles(frames, h)
  <2>1. k # 1
    BY <1>1, <1>5 DEF OfRules, OfResolver
  <2> PICK l \in 1..(n - 1) : k = l + 1
    <3> k - 1 \in 1..(n - 1) /\ k = (k - 1) + 1
      BY <2>1
    <3> QED
      OBVIOUS
  <2>2. Calls(frames[l + 1], frames[l], asts)
    BY <1>2 DEF Alive, Linked
  <2>3. ~OfRules(frames[k])
    BY <1>5 DEF OfRules, OfResolver
  <2>4. ~OfResolver(frames[l])
    BY <2>2, <2>3 DEF Calls
  <2>5. l \in 1..n
    OBVIOUS
  <2>6. OfRules(frames[l]) /\ frames[l].ast = frames[k].ast
    BY <1>3, <2>2, <2>4, <2>5, FrameTyped DEF Calls
  <2>7. h[frames[k].ast] # NoFile
    BY <1>2, <2>5, <2>6 DEF Alive, Going, Progress
  <2>8. k # n
    <3>1. OfRules(frames[n])
      BY <1>1, <1>2 DEF Alive, Linked
    <3> QED
      BY <2>3, <3>1
  <2>9. k \in 1..(n - 1)
    BY <2>8
  <2>10. Calls(frames[k + 1], frames[k], asts)
    BY <1>2, <2>9 DEF Alive, Linked
  <2>11. h[frames[k].ast] \in {NoFile, frames[k].location}
    BY <1>2, <1>5, <2>10 DEF Calls, Alive, Going, Named
  <2>12. h[frames[l].ast] = Rule.location
    BY <1>5, <2>6, <2>7, <2>11
  <2> QED
    BY <2>5, <2>6, <2>12 DEF OpenFiles
<1>7. /\ Doomed(texts, OpenFiles(frames, h) \cup {})
      /\ OpenFiles(frames, h) \in SUBSET Files
      /\ h[1] \in OpenFiles(frames, h)
  <2>1. Doomed(texts, {}) /\ {} \in SUBSET Files
    BY DEF Doomed
  <2>2. /\ Filled(asts, texts, h) /\ Named(asts, h)
        /\ Progress(frames, asts, h, answer) /\ Linked(frames, asts)
    BY <1>2 DEF Alive, Going
  <2>3. ~OfResolver(frames[1])
    BY <1>1 DEF OfRules, OfResolver
  <2>4. asts[frames[1].ast][frames[1].next].location
           \in OpenFiles(frames, h) \cup {}
    BY <1>4, <1>6
  <2> QED
    BY <1>1, <1>3, <1>4, <2>1, <2>2, <2>3, <2>4, OpenDoomed
<1>8. Doomed(texts, OpenFiles(frames, h)) /\ top \in OpenFiles(frames, h)
  <2> OpenFiles(frames, h) \cup {} = OpenFiles(frames, h)
    OBVIOUS
  <2> QED
    BY <1>2, <1>7 DEF Alive
<1>9. Offers(frames', answer')
  BY <1>1, <1>3, OffersPop, AllOffers
<1> QED
  BY <1>1, <1>3, <1>7, <1>8, <1>9, FailsLoading

\* An import's resolver is called, and has an empty AST to fill.
LEMMA ImportLoad ==
    ASSUME IInv, LoadInv, StartImport, ~Circular(Rule.location)
    PROVE  LoadInv'
<1> DEFINE c == Resolver(Rule.location, Rule.ast)
           a == frames[1].ast
           i == frames[1].next
<1>1. /\ frames # <<>> /\ OfRules(frames[1]) /\ InCall("resolveImports")
      /\ answer = NoAnswer /\ answer # "no" /\ answer' = answer
      /\ frames' = <<c>> \o frames
      /\ UNCHANGED <<texts, top, asts, reported>>
  BY InnermostIs DEF StartImport, InCall, NoAnswer
<1>2. PICK h : Alive(h)
  BY <1>1, Loading
<1>3. /\ top \in Files /\ texts[top].exists /\ ~reported
      /\ Offers(frames, answer) /\ Forest(asts)
      /\ frames \in Seq(Frames) /\ asts \in Seq(Seq(RuleRecords))
  BY <1>1, Loading
<1>4. IsImport(asts, a, i) /\ Rule = asts[a][i]
  BY <1>1, RuleIs DEF StartImport
<1>5. /\ asts[a][i].location \in Files /\ a \in Nat
      /\ asts[a][i].ast > a /\ asts[a][i].ast \in Nat
  BY <1>3, <1>4, ImportTyped, ImportASTs
<1>6. /\ c \in Frames /\ OfResolver(c) /\ ~OfRules(c) /\ c.offered = 0
      /\ c.ast = asts[a][i].ast /\ c.location = asts[a][i].location
  BY <1>4, <1>5 DEF Resolver, Frames, OfResolver, OfRules
<1> HIDE DEF c
<1> PICK n \in Nat : n = Len(frames)
  BY <1>1, InnermostIs
<1>7. Linked(frames', asts)
  <2>1. Calls(frames[1], c, asts)
    BY <1>1, <1>4, <1>6 DEF Calls
  <2>2. frames[1].ast <= c.ast
    BY <1>5, <1>6
  <2>3. ASSUME NEW l \in 1..n, OfRules(frames[l])
        PROVE  frames[l].ast < c.ast
    <3>1. frames[l].ast \in Nat
      BY <1>3, FrameTyped
    <3>2. CASE l = 1
      BY <1>5, <1>6, <3>2
    <3>3. CASE l # 1
      <4>1. 1 < l /\ 1 \in 1..n
        BY <3>3
      <4>2. frames[l].ast < a
        BY <1>2, <2>3, <4>1 DEF Alive, Linked
      <4> QED
        BY <1>5, <1>6, <3>1, <4>2
    <3> QED
      BY <3>2, <3>3
  <2>4. Linked(<<c>> \o frames, asts)
    <3>1. Linked(frames, asts)
      BY <1>2 DEF Alive
    <3>2. \A l \in 1..Len(frames) : OfRules(frames[l]) => frames[l].ast < c.ast
      BY <2>3
    <3>3. frames # <<>> => Calls(frames[1], c, asts) /\ frames[1].ast <= c.ast
      BY <2>1, <2>2
    <3>4. frames \in Seq(Frames) /\ frames # <<>> /\ c \in Frames
      BY <1>1, <1>3, <1>6
    <3> QED
      BY ONLY <3>1, <3>2, <3>3, <3>4, LinkedPush
  <2> QED
    BY <1>1, <2>4
<1>8. Progress(frames, asts, h, NoAnswer)
  BY <1>1, <1>2 DEF Alive, Going
<1>9. Progress(frames', asts, h, NoAnswer)
  BY <1>1, <1>3, <1>6, <1>8, ProgressResolver
<1>10. Knows(frames'[1], texts, asts, h, NoAnswer)
  <2>1. frames'[1] = c
    BY <1>1, <1>3, <1>6, Pushed
  <2>2. h[c.ast] = NoFile
    <3>1. 1 \in 1..Len(frames)
      BY <1>1, InnermostIs
    <3>2. Untouched(frames[1], asts, h, NoAnswer, 1)
      BY <1>1, <1>8, <3>1 DEF Progress
    <3>3. Ahead(frames[1], NoAnswer, 1, i)
      BY DEF Ahead
    <3> QED
      BY <1>4, <1>6, <3>2, <3>3 DEF Untouched
  <2> QED
    BY <1>6, <2>1, <2>2 DEF Knows, NoAnswer
<1>11. Going(frames', texts', asts', h, answer')
  BY <1>1, <1>2, <1>9, <1>10 DEF Alive, Going
<1>12. Offers(frames', answer')
  <2>1. AllOffered(frames)
    BY <1>1, <1>3, OffersAll
  <2> QED
    BY <1>1, <1>3, <1>6, <2>1, OffersPush
<1> QED
  BY <1>1, <1>2, <1>3, <1>7, <1>11, <1>12, GoesOnLoading DEF Alive

\* A resolver answers for its import.
LEMMA ResolverReturnsLoad ==
    ASSUME IInv, LoadInv, ByLocation, ResolverReturns
    PROVE  LoadInv'
<1>1. /\ frames # <<>> /\ OfResolver(frames[1]) /\ ~OfRules(frames[1])
      /\ frames' = Tail(frames) /\ UNCHANGED <<texts, top, asts>>
      /\ answer' = IF answer = "yes" THEN "yes" ELSE "no"
      /\ reported' = (reported \/ answer # "yes")
  BY InnermostIs DEF ResolverReturns, InCall, Caller
<1>2. /\ top \in Files /\ texts[top].exists
      /\ answer \in {NoAnswer, "yes", "no"} /\ (reported <=> answer = "no")
      /\ Offers(frames, answer)
      /\ frames \in Seq(Frames) /\ asts \in Seq(Seq(RuleRecords))
  BY <1>1, Loading
<1>3. AllOffered(frames')
  BY <1>1, <1>2, OffersPop
<1>4. CASE answer = "no"
  <2>1. reported'
    BY <1>1, <1>4
  <2> QED
    BY <1>1, <1>4, <2>1, FailedLoad
<1>5. CASE answer = "yes"
  <2>1. PICK h : Alive(h)
    BY <1>1, <1>5, Loading
  <2>2. Linked(frames', asts)
    BY <1>1, <1>2, <2>1, LinkedPop DEF Alive
  <2>3. Progress(frames', asts, h, "yes")
    <3>1. Progress(frames, asts, h, answer)
      BY <2>1 DEF Alive, Going
    <3> QED
      BY <1>1, <1>2, <3>1, ProgressPop
  <2>4. ASSUME frames' # <<>>
        PROVE  Knows(frames'[1], texts, asts, h, "yes")
    <3> PICK n \in Nat : n = Len(frames)
      BY <1>1, InnermostIs
    <3>1. /\ Tail(frames) \in Seq(Frames) /\ Len(Tail(frames)) = n - 1
          /\ \A k \in 1..(n - 1) : Tail(frames)[k] = frames[k + 1]
      BY <1>1, <1>2, Popped
    <3>2. n - 1 > 0
      BY <1>1, <2>4, <3>1, EmptySeq
    <3>3. 1 \in 1..(n - 1) /\ 1 + 1 = 2
      BY <3>2
    <3>4. frames'[1] = frames[2]
      BY <1>1, <3>1, <3>3
    <3>5. Calls(frames[1 + 1], frames[1], asts)
      BY <2>1, <3>3 DEF Alive, Linked
    <3>6. /\ OfRules(frames[2]) /\ IsImport(asts, frames[2].ast, frames[2].next)
          /\ frames[1].ast = asts[frames[2].ast][frames[2].next].ast
      BY <1>1, <3>3, <3>5 DEF Calls
    <3>7. h[frames[1].ast] # NoFile
      BY <1>1, <1>5, <2>1 DEF Alive, Going, Knows
    <3> QED
      BY <3>4, <3>6, <3>7 DEF Knows, OfRules, OfResolver
  <2>5. Going(frames', texts', asts', h, answer')
    BY <1>1, <1>5, <2>1, <2>3, <2>4 DEF Alive, Going
  <2>6. Offers(frames', answer')
    BY <1>3, AllOffers
  <2>7. ~reported'
    BY <1>1, <1>2, <1>5
  <2> QED
    BY <1>1, <1>2, <1>5, <2>1, <2>2, <2>5, <2>6, <2>7, GoesOnLoading DEF Alive
<1>6. CASE answer = NoAnswer
  <2>1. PICK h : Alive(h)
    BY <1>1, <1>6, Loading DEF NoAnswer
  <2>2. /\ frames[1].offered = 1 /\ answer # "yes"
    <3>1. Len(Path) = 1
      <4>1. Path = <<frames[1].location>> /\ frames[1].location \in Files
        BY <1>1, InnermostIs DEF Path, ByLocation
      <4> QED
        BY <4>1
    <3> QED
      BY <1>1, <1>6, <3>1, InnermostIs DEF ResolverReturns, NoAnswer
  <2>3. ~texts[frames[1].location].exists
    BY <1>1, <1>6, <2>1, <2>2 DEF Alive, Going, Knows
  <2>4. /\ Doomed(texts, OpenFiles(frames, h) \cup {})
        /\ OpenFiles(frames, h) \in SUBSET Files
        /\ h[1] \in OpenFiles(frames, h)
    <3>1. Doomed(texts, {}) /\ {} \in SUBSET Files
      BY DEF Doomed
    <3>2. /\ Filled(asts, texts, h) /\ Named(asts, h)
          /\ Progress(frames, asts, h, answer) /\ Linked(frames, asts)
      BY <2>1 DEF Alive, Going
    <3> QED
      BY <1>1, <1>2, <2>3, <3>1, <3>2, OpenDoomed
  <2>5. Doomed(texts, OpenFiles(frames, h)) /\ top \in OpenFiles(frames, h)
    <3> OpenFiles(frames, h) \cup {} = OpenFiles(frames, h)
      OBVIOUS
    <3> QED
      BY <2>1, <2>4 DEF Alive
  <2>6. Offers(frames', answer')
    BY <1>3, AllOffers
  <2>7. answer' = "no" /\ reported'
    BY <1>1, <2>2
  <2> QED
    BY <1>1, <1>2, <2>4, <2>5, <2>6, <2>7, FailsLoading
<1> QED
  BY <1>2, <1>4, <1>5, <1>6

\* A file without errors is parsed into an empty AST, within calls that wait
\* for it.
LEMMA ParsedLoad ==
    ASSUME TypeOK, NEW f \in Files, NEW x \in DOMAIN asts,
           NEW below \in Seq(Frames), NEW h, NEW said,
           Parse(f, x, below), ~texts[f].broken, texts[f].exists,
           texts' = texts, top' \in Files, texts[top'].exists, ~reported,
           h[x] = NoFile, Filled(asts, texts, h), Named(asts, h),
           OwnASTs(asts), Linked(below, asts), AllOffered(below),
           Progress(below, asts, h, said),
           \A k \in 1..Len(below) : OfRules(below[k]) =>
              /\ below[k].ast \in DOMAIN asts /\ below[k].ast < x
              /\ \A j : IsImport(asts, below[k].ast, j) /\ j > below[k].next
                           => asts[below[k].ast][j].ast # x,
           \A a, j : IsImport(asts, a, j) /\ asts[a][j].ast = x =>
                        asts[a][j].location = f,
           below = <<>> => x = 1,
           below # <<>> => OfResolver(below[1]) /\ below[1].ast = x,
           IF x = 1 THEN f = top' ELSE h[1] = top'
    PROVE  LoadInv'
<1> DEFINE c == Resolving(x)
           new == WithFile(f, x)
           g == Filling(new, asts, h, x, f)
<1>1. /\ asts' = new /\ frames' = <<c>> \o below /\ answer' = NoAnswer
      /\ reported' = reported
  BY DEF Parse
<1>2. /\ asts \in Seq(Seq(RuleRecords)) /\ Forest(asts) /\ DOMAIN asts \subseteq Nat
      /\ 1 \in DOMAIN asts
  <2>1. asts \in Seq(Seq(RuleRecords)) /\ Forest(asts)
    BY DEF TypeOK
  <2> PICK n \in Nat : n = Len(asts) /\ DOMAIN asts = 1..n
    BY <2>1, LenProperties
  <2>2. 1 \in 1..n
    OBVIOUS
  <2> QED
    BY <2>1, <2>2
<1>3. new \in Seq(Seq(RuleRecords))
  BY WithFileOK
<1>4. asts[x] = <<>>
  BY DEF Filled
<1>5. ParsedTo(asts, new, texts, x, f)
  BY <1>4, ParsedIntoEmpty
<1>6. /\ c \in Frames /\ OfRules(c) /\ ~OfResolver(c) /\ c.ast = x /\ c.next = 1
  <2> x \in Nat
    BY <1>2
  <2> QED
    BY DEF Resolving, Frames, OfRules, OfResolver
<1> HIDE DEF c, new
<1>7. \A a, j : IsImport(asts, a, j) => asts[a][j].ast \in DOMAIN asts
  BY <1>2, ImportASTs
<1>8. OwnASTs(new)
  BY <1>4, <1>5, <1>7, OwnASTsParsed
<1>9. Filled(new, texts, g) /\ Named(new, g)
  BY <1>4, <1>5, <1>7, FilledParsed
<1>10. Linked(<<c>> \o below, new)
  <2>1. Linked(below, new)
    <3>1. Grown(asts, new)
      BY <1>4, <1>5, ImportsKept
    <3> QED
      BY <3>1, LinkedGrown
  <2>2. below # <<>> => Calls(below[1], c, new) /\ below[1].ast <= c.ast
    <3>1. x <= x
      BY <1>2
    <3> QED
      BY <1>6, <3>1 DEF Calls
  <2>3. \A l \in 1..Len(below) : OfRules(below[l]) => below[l].ast < c.ast
    BY <1>6
  <2>4. below = <<>> => OfRules(c) /\ c.ast = 1
    BY <1>6
  <2>5. below \in Seq(Frames) /\ c \in Frames
    BY <1>6
  <2> QED
    BY ONLY <2>1, <2>2, <2>3, <2>4, <2>5, LinkedPush
<1>11. Progress(<<c>> \o below, new, g, NoAnswer)
  <2>1. \A k \in 1..Len(below) : OfRules(below[k]) =>
           /\ below[k].ast \in DOMAIN asts /\ below[k].ast # x
           /\ \A j : IsImport(asts, below[k].ast, j) /\ j > below[k].next
                        => asts[below[k].ast][j].ast # x
    <3> x \in Nat
      BY <1>2
    <3> QED
      OBVIOUS
  <2> QED
    BY <1>2, <1>3, <1>4, <1>5, <1>6, <1>7, <2>1, ProgressParsed
<1>12. Knows((<<c>> \o below)[1], texts, new, g, NoAnswer)
  <2>1. (<<c>> \o below)[1] = c
    BY <1>6, Pushed
  <2> QED
    BY <1>6, <2>1 DEF Knows, NoAnswer
<1>13. Going(frames', texts', asts', g, answer')
  BY <1>1, <1>9, <1>11, <1>12 DEF Going
<1>14. g[1] = top'
  <2>1. 1 \in DOMAIN new
    BY <1>2, <1>5 DEF ParsedTo
  <2> QED
    BY <1>2, <2>1 DEF Filling
<1>15. Offers(frames', answer')
  BY <1>1, <1>6, OffersPush
<1> HIDE DEF g
<1>16. /\ 1 \in DOMAIN asts' /\ OwnASTs(asts') /\ Linked(frames', asts') /\ ~reported'
       /\ answer' \in {NoAnswer, "yes"} /\ texts'[top'].exists
  <2>1. 1 \in DOMAIN new
    BY <1>2, <1>5 DEF ParsedTo
  <2> QED
    BY <1>1, <1>8, <1>10, <2>1
<1> QED
  BY <1>13, <1>14, <1>15, <1>16, GoesOnLoading

\* The import that the innermost resolver answers for.
LEMMA ResolverFor ==
    ASSUME NEW n \in Nat \ {0}, n = Len(frames), frames \in Seq(Frames),
           OfResolver(frames[1]), OwnASTs(asts), Linked(frames, asts),
           \A k \in 1..n : frames[k].ast \in DOMAIN asts
    PROVE  /\ \A k \in 2..n : OfRules(frames[k]) =>
                 /\ frames[k].ast < frames[1].ast
                 /\ \A j : IsImport(asts, frames[k].ast, j) /\ j > frames[k].next
                              => asts[frames[k].ast][j].ast # frames[1].ast
           /\ \A a, j : IsImport(asts, a, j) /\ asts[a][j].ast = frames[1].ast
                           => asts[a][j].location = frames[1].location
<1>1. /\ \A k \in 1..(n - 1) : Calls(frames[k + 1], frames[k], asts)
      /\ OfRules(frames[n])
      /\ \A k, l \in 1..n :
            k < l /\ OfRules(frames[l]) => frames[l].ast < frames[k].ast
  <2> frames # <<>>
    BY EmptySeq
  <2> QED
    BY DEF Linked
<1>2. \A k \in 1..n : /\ OfRules(frames[k]) <=> ~OfResolver(frames[k])
                      /\ frames[k].ast \in Nat
                      /\ OfRules(frames[k]) => frames[k].next \in Nat
  BY FrameTyped
<1>3. 1 \in 1..n /\ n \in 1..n
  OBVIOUS
<1>4. n # 1
  BY <1>1, <1>2, <1>3
<1>5. 1 \in 1..(n - 1) /\ 1 + 1 = 2 /\ 2 \in 1..n
  BY <1>4
<1>6. Calls(frames[1 + 1], frames[1], asts)
  BY <1>1, <1>5
<1>7. /\ OfRules(frames[2]) /\ IsImport(asts, frames[2].ast, frames[2].next)
      /\ frames[1].ast = asts[frames[2].ast][frames[2].next].ast
      /\ frames[1].location = asts[frames[2].ast][frames[2].next].location
  BY <1>5, <1>6 DEF Calls
<1>8. ASSUME NEW a, NEW j, IsImport(asts, a, j), asts[a][j].ast = frames[1].ast
      PROVE  a = frames[2].ast /\ j = frames[2].next
  BY <1>7, <1>8 DEF OwnASTs
<1>9. ASSUME NEW k \in 2..n, OfRules(frames[k])
      PROVE  /\ frames[k].ast < frames[1].ast
             /\ \A j : IsImport(asts, frames[k].ast, j) /\ j > frames[k].next
                          => asts[frames[k].ast][j].ast # frames[1].ast
  <2>1. k \in 1..n /\ 1 < k
    OBVIOUS
  <2>2. frames[k].ast < frames[1].ast
    BY <1>1, <1>3, <1>9, <2>1
  <2>3. ASSUME NEW j, IsImport(asts, frames[k].ast, j), j > frames[k].next,
               asts[frames[k].ast][j].ast = frames[1].ast
        PROVE  FALSE
    <3>1. frames[k].ast = frames[2].ast /\ j = frames[2].next
      BY <1>8, <2>3
    <3>2. CASE k = 2
      <4>1. frames[2].next \in Nat
        BY <1>2, <1>5, <1>7
      <4> QED
        BY <2>3, <3>1, <3>2, <4>1
    <3>3. CASE k # 2
      <4>1. 2 < k
        BY <3>3
      <4>2. frames[k].ast < frames[2].ast
        BY <1>1, <1>5, <1>9, <2>1, <4>1
      <4>3. frames[2].ast \in Nat
        BY <1>2, <1>5
      <4> QED
        BY <3>1, <4>2, <4>3
    <3> QED
      BY <3>2, <3>3
  <2> QED
    BY <2>2, <2>3
<1>10. \A a, j : IsImport(asts, a, j) /\ asts[a][j].ast = frames[1].ast
                    => asts[a][j].location = frames[1].location
  BY <1>7, <1>8
<1> QED
  BY <1>9, <1>10

\* The resolver calls back with its file: there is no such file, or it has an
\* error, or its rules are parsed into the import's AST.
LEMMA OfferFileLoad ==
    ASSUME IInv, LoadInv, ByLocation, OfferFile
    PROVE  LoadInv'
<1> DEFINE c       == [frames[1] EXCEPT !.offered = @ + 1]
           offered == [frames EXCEPT ![1] = c]
           f       == frames[1].location
           x       == frames[1].ast
<1>1. frames # <<>> /\ OfResolver(frames[1]) /\ ~OfRules(frames[1])
  BY InnermostIs DEF OfferFile, InCall
<1>2. /\ top \in Files /\ texts[top].exists
      /\ (reported <=> answer = "no") /\ Offers(frames, answer)
      /\ frames \in Seq(Frames) /\ asts \in Seq(Seq(RuleRecords)) /\ Forest(asts)
  BY <1>1, Loading
<1> PICK n \in Nat \ {0} : n = Len(frames)
  BY <1>1, InnermostIs
<1>3. /\ frames[1] \in [call : {"resolve"}, ast : Nat, location : Files, offered : Nat]
      /\ f \in Files /\ x \in DOMAIN asts /\ Head(frames) = frames[1]
      /\ \A k \in 1..n : frames[k].ast \in DOMAIN asts
  <2>1. \A k \in DOMAIN frames : frames[k].ast \in DOMAIN asts
    BY DEF IInv, TypeOK
  <2>2. DOMAIN frames = 1..n
    BY <1>2
  <2> QED
    BY <1>1, <2>1, <2>2, InnermostIs DEF Frames, OfResolver
<1>4. Path = <<f>> /\ Len(Path) = 1
  <2>1. Path = <<f>>
    BY <1>3 DEF Path, ByLocation
  <2> QED
    BY <2>1
<1>5. frames[1].offered = 0 /\ answer = NoAnswer
  <2>1. frames[1].offered < 1 /\ frames[1].offered \in Nat
    BY <1>3, <1>4 DEF OfferFile
  <2>2. 1 \in 1..Len(frames)
    BY <1>1, InnermostIs
  <2>3. answer # NoAnswer => frames[1].offered = 1
    BY <1>1, <1>2, <2>2 DEF Offers
  <2> QED
    BY <2>1, <2>3
<1>6. /\ IF texts[f].exists THEN Parse(f, x, offered)
         ELSE frames' = offered /\ UNCHANGED <<asts, answer, reported>>
      /\ UNCHANGED <<texts, top>>
  <2>1. Path[Head(frames).offered + 1] = f
    BY <1>3, <1>4, <1>5
  <2>2. [frames EXCEPT ![1].offered = @ + 1] = offered
    OBVIOUS
  <2> HIDE DEF offered
  <2> QED
    BY <1>3, <2>1, <2>2 DEF OfferFile
<1>7. PICK h : Alive(h)
  BY <1>1, <1>5, Loading DEF NoAnswer
<1>8. /\ 1 \in DOMAIN asts
      /\ OwnASTs(asts) /\ Linked(frames, asts) /\ h[1] = top
      /\ Filled(asts, texts, h) /\ Named(asts, h)
      /\ Progress(frames, asts, h, answer) /\ h[x] = NoFile
  BY <1>1, <1>5, <1>7 DEF Alive, Going, Knows
<1>9. /\ c \in Frames /\ OfResolver(c) /\ ~OfRules(c) /\ c.call = frames[1].call
      /\ c.ast = x /\ c.location = f /\ c.offered = 1
  BY <1>3, <1>5 DEF Frames, OfResolver, OfRules
<1> HIDE DEF c
<1>10. /\ offered \in Seq(Frames) /\ Linked(offered, asts) /\ Len(offered) = n
       /\ offered[1] = c /\ \A k \in 2..n : offered[k] = frames[k]
  <2>1. OfResolver(c) => c.location = frames[1].location
    BY <1>9
  <2>2. /\ frames \in Seq(Frames) /\ frames # <<>> /\ c \in Frames
        /\ c.call = frames[1].call /\ c.ast = frames[1].ast
    BY <1>1, <1>2, <1>9
  <2>3. /\ Linked(offered, asts) /\ Len(offered) = Len(frames) /\ offered[1] = c
        /\ \A k \in 2..Len(frames) : offered[k] = frames[k]
    BY ONLY <1>8, <2>1, <2>2, LinkedOn
  <2>4. offered \in Seq(Frames)
    BY <2>2
  <2> HIDE DEF offered
  <2> QED
    BY <2>3, <2>4
<1> HIDE DEF offered
<1>11. AllOffered(offered)
  <2>1. \A k \in 1..n : k = 1 \/ k \in 2..n
    OBVIOUS
  <2>2. \A k \in 2..n : k \in 1..n /\ k # 1
    OBVIOUS
  <2>3. \A k \in 2..n : OfResolver(frames[k]) => frames[k].offered = 1
    BY <1>2, <2>2 DEF Offers
  <2> QED
    BY <1>9, <1>10, <2>1, <2>3 DEF AllOffered
<1>12. Progress(offered, asts, h, NoAnswer)
  <2>1. ~OfRules(offered[1])
    BY <1>9, <1>10
  <2> QED
    BY <1>1, <1>5, <1>8, <1>10, <2>1, ProgressSame
<1>13. CASE ~texts[f].exists
  <2>1. /\ frames' = offered /\ asts' = asts /\ answer' = NoAnswer
        /\ reported' = reported /\ texts' = texts /\ top' = top
    BY <1>5, <1>6, <1>13
  <2>2. Knows(offered[1], texts, asts, h, NoAnswer)
    BY <1>8, <1>9, <1>10, <1>13 DEF Knows, NoAnswer
  <2>3. Going(frames', texts', asts', h, answer')
    BY <1>8, <1>12, <2>1, <2>2 DEF Going
  <2>4. Offers(frames', answer')
    BY <1>11, <2>1, AllOffers
  <2>5. ~reported'
    BY <1>2, <1>5, <2>1 DEF NoAnswer
  <2>6. /\ 1 \in DOMAIN asts' /\ OwnASTs(asts') /\ Linked(frames', asts')
        /\ h[1] = top' /\ top' \in Files /\ texts'[top'].exists
        /\ answer' \in {NoAnswer, "yes"}
    BY <1>2, <1>8, <1>10, <2>1
  <2> QED
    BY <2>3, <2>4, <2>5, <2>6, GoesOnLoading
<1>14. CASE texts[f].exists /\ texts[f].broken
  <2>1. /\ frames' = offered /\ answer' = "no" /\ reported'
        /\ texts' = texts /\ top' = top
    BY <1>6, <1>14 DEF Parse
  <2>2. Doomed(texts, {f}) /\ {f} \in SUBSET Files
    BY <1>3, <1>14 DEF Doomed
  <2>3. /\ Doomed(texts, OpenFiles(frames, h) \cup {f})
        /\ OpenFiles(frames, h) \in SUBSET Files
        /\ h[1] \in OpenFiles(frames, h)
    BY <1>1, <1>2, <1>8, <2>2, OpenDoomed
  <2> PICK Z \in SUBSET Files : Z = OpenFiles(frames, h) \cup {f}
    BY <1>3, <2>3
  <2>4. top' \in Z /\ Doomed(texts', Z)
    BY <1>8, <2>1, <2>3
  <2>5. Offers(frames', answer')
    BY <1>11, <2>1, AllOffers
  <2>6. top' \in Files /\ texts'[top'].exists
    BY <1>2, <2>1
  <2> QED
    BY <2>1, <2>4, <2>5, <2>6, FailsLoading
<1>15. CASE texts[f].exists /\ ~texts[f].broken
  <2>1. Parse(f, x, offered) /\ texts' = texts /\ top' = top
    BY <1>6, <1>15
  <2>2. TypeOK /\ ~reported /\ top' \in Files /\ texts[top'].exists
    BY <1>2, <1>5, <2>1 DEF IInv, NoAnswer
  <2>3. /\ \A k \in 2..n : OfRules(frames[k]) =>
              /\ frames[k].ast < x
              /\ \A j : IsImport(asts, frames[k].ast, j) /\ j > frames[k].next
                           => asts[frames[k].ast][j].ast # x
        /\ \A a, j : IsImport(asts, a, j) /\ asts[a][j].ast = x =>
                        asts[a][j].location = f
    BY <1>1, <1>2, <1>3, <1>8, ResolverFor
  <2>4. \A k \in 1..Len(offered) : OfRules(offered[k]) =>
           /\ offered[k].ast \in DOMAIN asts /\ offered[k].ast < x
           /\ \A j : IsImport(asts, offered[k].ast, j) /\ j > offered[k].next
                        => asts[offered[k].ast][j].ast # x
    <3> SUFFICES ASSUME NEW k \in 1..n, OfRules(offered[k])
                 PROVE  /\ offered[k].ast \in DOMAIN asts /\ offered[k].ast < x
                        /\ \A j : IsImport(asts, offered[k].ast, j)
                                  /\ j > offered[k].next
                                     => asts[offered[k].ast][j].ast # x
      BY <1>10
    <3>1. k \in 2..n
      BY <1>9, <1>10
    <3>2. offered[k] = frames[k]
      BY <1>10, <3>1
    <3> QED
      BY <1>3, <2>3, <3>1, <3>2
  <2>5. offered # <<>>
    BY <1>10, EmptySeq
  <2>6. OfResolver(offered[1]) /\ offered[1].ast = x
    BY <1>9, <1>10
  <2>7. x # 1 /\ h[1] = top'
    BY <1>2, <1>8, <2>1, LoaderAssumption
  <2> HIDE DEF f, x
  <2> QED
    BY <1>3, <1>8, <1>10, <1>11, <1>12, <1>15, <2>1, <2>2, <2>3, <2>4, <2>5,
       <2>6, <2>7, ParsedLoad
<1> QED
  BY <1>13, <1>14, <1>15

\* A load begins with the file its caller has.
LEMMA BeginLoadLoad ==
    ASSUME IInv, LoadInv, NEW f \in Files, BeginLoad(f)
    PROVE  LoadInv'
<1> DEFINE h == [i \in {1} |-> NoFile]
<1>1. /\ top = NoFile /\ top' = f /\ texts' = texts /\ texts[f].exists
      /\ Parse(f, 1, <<>>)
  BY DEF BeginLoad
<1>2. /\ asts = << <<>> >> /\ answer = NoAnswer /\ ~reported /\ TypeOK
      /\ DOMAIN asts = {1} /\ asts[1] = <<>>
  BY <1>1 DEF LoadInv, IInv, CleanBetween
<1>3. /\ <<>> \in Seq(Frames) /\ Len(<<>>) = 0 /\ DOMAIN <<>> = {}
      /\ 1..0 = {} /\ 1..(0 - 1) = {}
  OBVIOUS
<1>4. CASE texts[f].broken
  <2>1. answer' = "no" /\ reported' /\ frames' = <<>>
    BY <1>1, <1>4 DEF Parse
  <2>2. Doomed(texts', {f}) /\ {f} \in SUBSET Files /\ top' \in {f}
    BY <1>1, <1>4 DEF Doomed
  <2>3. Offers(frames', answer')
    BY <1>3, <2>1 DEF Offers
  <2>4. top' \in Files /\ texts'[top'].exists
    BY <1>1
  <2> QED
    BY <2>1, <2>2, <2>3, <2>4, FailsLoading
<1>5. CASE ~texts[f].broken
  <2>1. h[1] = NoFile /\ Filled(asts, texts, h)
    BY <1>2 DEF Filled
  <2>2. \A a, j : ~IsImport(asts, a, j)
    BY <1>2, <1>3 DEF IsImport
  <2> HIDE DEF h
  <2>3. Named(asts, h) /\ OwnASTs(asts)
    BY <2>2 DEF Named, OwnASTs
  <2>4. Linked(<<>>, asts)
    BY <1>3 DEF Linked
  <2>5. AllOffered(<<>>)
    BY <1>3 DEF AllOffered
  <2>6. Progress(<<>>, asts, h, NoAnswer)
    BY <1>3, <2>2 DEF Progress, Reached
  <2>7. 1 \in DOMAIN asts /\ top' \in Files /\ texts[top'].exists /\ f = top'
    BY <1>1, <1>2
  <2>8. \A k \in 1..Len(<<>>) : OfRules((<<>>)[k]) =>
           /\ (<<>>)[k].ast \in DOMAIN asts /\ (<<>>)[k].ast < 1
           /\ \A j : IsImport(asts, (<<>>)[k].ast, j) /\ j > (<<>>)[k].next
                        => asts[(<<>>)[k].ast][j].ast # 1
    BY <1>3
  <2>9. \A a, j : IsImport(asts, a, j) /\ asts[a][j].ast = 1 =>
                     asts[a][j].location = f
    BY <2>2
  <2> QED
    BY <1>1, <1>2, <1>3, <1>5, <2>1, <2>3, <2>4, <2>5, <2>6, <2>7, <2>8, <2>9,
       ParsedLoad
<1> QED
  BY <1>4, <1>5

\* Between loads there is nothing to know.
LEMMA LeaveLoad ==
    ASSUME Leave
    PROVE  LoadInv'
BY DEF Leave, LoadInv, NoAnswer

LEMMA InitLoad == Init => LoadInv
BY DEF Init, LoadInv, NoAnswer

LEMMA NextLoad == ByLocation /\ IInv /\ LoadInv /\ [Next]_vars => LoadInv'
<1> SUFFICES ASSUME ByLocation, IInv, LoadInv, [Next]_vars
             PROVE  LoadInv'
  OBVIOUS
<1>1. ASSUME NEW f \in Files, BeginLoad(f)
      PROVE  LoadInv'
  BY <1>1, BeginLoadLoad
<1>2. CASE SkipRule
  <2>1. /\ InCall("resolveImports") /\ answer # "no" /\ answer' = NoAnswer
        /\ frames' = Advanced /\ UNCHANGED <<texts, top, asts, reported>>
    BY <1>2 DEF SkipRule, NoAnswer
  <2>2. ~IsImport(asts, frames[1].ast, frames[1].next)
    BY <1>2, <2>1, RuleIs DEF SkipRule
  <2> QED
    BY <2>1, <2>2, AdvancedLoad
<1>3. CASE StartImport
  BY <1>3, CircularLoad, ImportLoad
<1>4. CASE FinishImport
  <2>1. /\ InCall("resolveImports") /\ frames # <<>> /\ answer # NoAnswer
        /\ UNCHANGED <<texts, top, asts, reported>>
    BY <1>4 DEF FinishImport, InCall
  <2>2. answer \in {NoAnswer, "yes", "no"} /\ (reported <=> answer = "no")
    BY <2>1, Loading
  <2>3. CASE answer = "yes"
    <3>1. frames' = Advanced /\ answer' = NoAnswer /\ answer # "no"
      BY <1>4, <2>3 DEF FinishImport
    <3> QED
      BY <2>1, <2>3, <3>1, AdvancedLoad
  <2>4. CASE answer = "no"
    <3>1. frames' = Tail(frames) /\ answer' = "no" /\ reported'
      BY <1>4, <2>1, <2>2, <2>4 DEF FinishImport, Caller
    <3> QED
      BY <2>1, <2>4, <3>1, FailedLoad
  <2> QED
    BY <2>1, <2>2, <2>3, <2>4
<1>5. CASE FinishRules
  BY <1>5, FinishRulesLoad
<1>6. CASE OfferFile
  BY <1>6, OfferFileLoad
<1>7. CASE ResolverReturns
  BY <1>7, ResolverReturnsLoad
<1>8. CASE ResolverThrows
  BY <1>8, LeaveLoad DEF ResolverThrows
<1>9. CASE EndLoad
  BY <1>9, LeaveLoad DEF EndLoad
<1>10. CASE UNCHANGED vars
  <2>1. /\ UNCHANGED <<texts, top, asts, frames, answer, reported>>
    BY <1>10 DEF vars, loading
  <2>2. Offers(frames, answer)' <=> Offers(frames, answer)
    BY <2>1, Primed
  <2>3. \A h : Alive(h)' <=> Alive(h)
    BY <2>1, Primed DEF Alive
  <2>4. \A Z : Doomed(texts, Z)' <=> Doomed(texts, Z)
    BY <2>1, Primed
  <2> QED
    BY <2>1, <2>2, <2>3, <2>4 DEF LoadInv
<1> QED
  BY <1>1, <1>2, <1>3, <1>4, <1>5, <1>6, <1>7, <1>8, <1>9, <1>10
     DEF Next, Resolve

\* What is known of a load while it runs, when the resolver has one file for a
\* location: which files fill the ASTs, and that every import not yet filled is
\* one that a call in progress will come to; or, once it failed, which files
\* cannot be loaded (Loader::parseCcsStream, Import::resolveImports).
THEOREM LoadInvariance == ByLocation => (Spec => [](IInv /\ LoadInv))
<1> SUFFICES ASSUME ByLocation
             PROVE  Spec => [](IInv /\ LoadInv)
  OBVIOUS
<1>1. Init => IInv /\ LoadInv
  BY InitInv, InitLoad
<1>2. (IInv /\ LoadInv) /\ [Next]_vars => (IInv /\ LoadInv)'
  BY NextInv, NextLoad
<1> QED
  BY <1>1, <1>2, PTL DEF Spec

----------------------------------------------------------------------------
(* Every load is one step of AbstractLoader.                               *)

\* What a load adds when it comes through.
LEMMA LoadSucceeds ==
    ASSUME IsFiniteSet(Files), IInv, LoadInv, top # NoFile, frames = <<>>,
           answer = "yes"
    PROVE  Abstract!Sound(texts, top) /\ Flat = Abstract!Inclusion(texts, top)
<1>1. PICK h : Alive(h)
  BY DEF LoadInv
<1>2. /\ asts \in Seq(Seq(RuleRecords)) /\ Forest(asts)
      /\ Filled(asts, texts, h) /\ Named(asts, h)
      /\ Progress(frames, asts, h, answer) /\ h[1] = top
  BY <1>1 DEF IInv, TypeOK, Alive, Going
<1>3. Complete(asts, h)
  <2>1. 1..Len(frames) = {}
    <3> Len(<<>>) = 0 /\ 1..0 = {}
      OBVIOUS
    <3> QED
      OBVIOUS
  <2> QED
    BY <1>2, <2>1 DEF Progress, Reached, Complete
<1>4. 1 \in DOMAIN asts
  BY <1>1 DEF Alive
<1>5. h[1] # NoFile
  BY <1>2
<1>6. h[1] \in SoundIn(texts)[Cardinality(Files)]
  BY <1>2, <1>3, <1>4, <1>5, CompleteIsSound
<1>7. FlatsIn(asts)[1] = IncludedIn(texts)[Cardinality(Files)][h[1]]
  BY <1>2, <1>3, <1>4, <1>5, FlatIsInclusion
<1> QED
  BY <1>2, <1>6, <1>7, AbstractUnfolded, FlatUnfolded

\* The end of a load, in one step.
LEMMA EndLoadRefines ==
    ASSUME IsFiniteSet(Files), IInv, LoadInv, EndLoad
    PROVE  (\E f \in Files : Abstract!Load(f)) \/ UNCHANGED Abstract!vars
<1>1. /\ top # NoFile /\ frames = <<>> /\ texts' = texts
      /\ dag' = IF answer = "yes" THEN dag \o Flat ELSE dag
      /\ failed' = IF reported THEN Append(failed, top) ELSE failed
  BY DEF EndLoad
<1>2. /\ top \in Files /\ texts[top].exists
      /\ answer \in {NoAnswer, "yes", "no"} /\ (reported <=> answer = "no")
      /\ answer = "no" => \E Z \in SUBSET Files : top \in Z /\ Doomed(texts, Z)
  BY <1>1 DEF LoadInv
<1>3. CASE answer = "yes"
  <2>1. Abstract!Sound(texts, top) /\ Flat = Abstract!Inclusion(texts, top)
    BY <1>1, <1>3, LoadSucceeds
  <2>2. dag' = dag \o Flat /\ failed' = failed
    BY <1>1, <1>2, <1>3
  <2>3. Abstract!Load(top)
    BY <1>1, <1>2, <2>1, <2>2 DEF Abstract!Load
  <2> QED
    BY <1>2, <2>3
<1>4. CASE answer = "no"
  <2>1. ~Abstract!Sound(texts, top)
    BY <1>2, <1>4, DoomedUnsound
  <2>2. dag' = dag /\ failed' = Append(failed, top)
    BY <1>1, <1>2, <1>4
  <2>3. Abstract!Load(top)
    BY <1>1, <1>2, <2>1, <2>2 DEF Abstract!Load
  <2> QED
    BY <1>2, <2>3
<1>5. CASE answer = NoAnswer
  <2>1. answer # "yes" /\ ~reported
    BY <1>2, <1>5 DEF NoAnswer
  <2> QED
    BY <1>1, <2>1 DEF Abstract!vars
<1> QED
  BY <1>2, <1>3, <1>4, <1>5

LEMMA NextRefines ==
    ASSUME IsFiniteSet(Files), IInv, LoadInv, [Next]_vars
    PROVE  (\E f \in Files : Abstract!Load(f)) \/ UNCHANGED Abstract!vars
<1>1. ASSUME NEW f \in Files, BeginLoad(f)
      PROVE  UNCHANGED Abstract!vars
  BY <1>1 DEF BeginLoad, Abstract!vars
<1>2. CASE Resolve
  BY <1>2 DEF Resolve, SkipRule, StartImport, FinishImport, FinishRules,
              OfferFile, ResolverReturns, ResolverThrows, Abstract!vars
<1>3. CASE EndLoad
  BY <1>3, EndLoadRefines
<1>4. CASE UNCHANGED vars
  BY <1>4 DEF vars, Abstract!vars
<1> QED
  BY <1>1, <1>2, <1>3, <1>4 DEF Next

\* A load adds its file with all it imports, each import expanded where it
\* stands, or reports an error and adds nothing: Loader::loadCcsStream,
\* Import::resolveImports and Nested::addTo implement AbstractLoader, when the
\* resolver has for every location the one file of that name.
THEOREM AllOrNothing ==
    ByLocation /\ IsFiniteSet(Files) => (Spec => ImplementsAbstract)
<1> SUFFICES ASSUME ByLocation, IsFiniteSet(Files)
             PROVE  Spec => ImplementsAbstract
  OBVIOUS
<1>1. Init => Abstract!Init
  <2> SUFFICES ASSUME Init
               PROVE  Abstract!Init
    OBVIOUS
  <2>1. texts \in [Files -> Library] /\ Library \subseteq Abstract!Text
    BY LoaderAssumption DEF Init
  <2>2. texts \in [Files -> Abstract!Text]
    BY <2>1
  <2> QED
    BY <2>2 DEF Init, Abstract!Init
<1>2. IInv /\ LoadInv /\ [Next]_vars
         => [\E f \in Files : Abstract!Load(f)]_(Abstract!vars)
  BY NextRefines
<1>3. Spec => [](IInv /\ LoadInv)
  BY LoadInvariance
<1> QED
  BY <1>1, <1>2, <1>3, PTL DEF Spec, ImplementsAbstract, Abstract!Spec

\* Then what Loader::loadCcsStream says where it adds to the DAG, "everything
\* parsed, no errors", is true; with a second file to fall back on it is not.
THEOREM NoErrorsThen == ByLocation => (Spec => AddsOnlyWithoutErrors)
<1> SUFFICES ASSUME ByLocation
             PROVE  Spec => AddsOnlyWithoutErrors
  OBVIOUS
<1>1. IInv /\ LoadInv /\ [Next]_vars => [dag' # dag => ~reported]_vars
  <2> SUFFICES ASSUME LoadInv, Next, dag' # dag
               PROVE  ~reported
    OBVIOUS
  <2>1. ~(\E f \in Files : BeginLoad(f)) /\ ~Resolve
    BY DEF BeginLoad, Resolve, SkipRule, StartImport, FinishImport, FinishRules,
           OfferFile, ResolverReturns, ResolverThrows
  <2>2. EndLoad
    BY <2>1 DEF Next
  <2>3. top # NoFile /\ answer = "yes"
    BY <2>2 DEF EndLoad
  <2> QED
    BY <2>3 DEF LoadInv
<1>2. Spec => [](IInv /\ LoadInv)
  BY LoadInvariance
<1> QED
  BY <1>1, <1>2, PTL DEF Spec, AddsOnlyWithoutErrors
=============================================================================

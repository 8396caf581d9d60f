------------------------------- MODULE Loader -------------------------------
(***************************************************************************)
(* Loading a file: Loader (parser/loader.h), resolveImports of             *)
(* parser/ast.cpp and the resolver the user provides.                      *)
(*                                                                         *)
(* A load parses the file into an AST, then resolves the AST's imports.    *)
(* Each import has an AST of its own, which the resolver fills by calling  *)
(* back with a stream: the stream is parsed, and its imports resolved,     *)
(* before the callback returns.  So parser and resolver are on the stack   *)
(* many times at once (frames).  Only when all this went well are the      *)
(* rules added to the DAG.                                                 *)
(*                                                                         *)
(* The resolver is the user's.  It offers the files of its search path for *)
(* a location, in that order, until the callback accepts one; or it throws. *)
(* Nesting is left out: imports inside of blocks are resolved in the same  *)
(* order and in the same way.                                              *)
(***************************************************************************)
EXTENDS Naturals, FiniteSets, Sequences, SequencesExt

CONSTANTS Files, Setting,  \* as in AbstractLoader
          Library,    \* the contents the files may have
          SearchPath, \* the files a resolver offers for a location
          MaxLoads    \* bound on the files loaded

VARIABLES texts, dag, failed,  \* as in AbstractLoader
          top,         \* the file being loaded, or NoFile
          asts,        \* the ASTs of this load; asts[1] is that of top
          inProgress,  \* Loader's stack of the locations being imported
          frames,      \* the calls in progress, innermost first
          answer,      \* what the call that just returned answers
          reported,    \* whether this load reported an error
          loads        \* how many loads were begun

loading == <<top, asts, inProgress, frames, answer, reported>>

vars == <<texts, dag, failed, loading, loads>>

Abstract == INSTANCE AbstractLoader

NoFile == "no file"

\* A resolver looks for locations only, and offers files.
ASSUME LoaderAssumption ==
    /\ Setting \notin Files /\ NoFile \notin Files
    /\ Library \subseteq Abstract!Text
    /\ SearchPath \in [Files -> Seq(Files)]

NoAnswer == "none"

\* A call of Nested::resolveImports, at rule number next.
Resolving(ast) == [call |-> "resolveImports", ast |-> ast, next |-> 1]

\* A call of ImportResolver::resolve for an import; it offered this many files.
Resolver(location, ast) ==
    [call |-> "resolve", ast |-> ast, location |-> location, offered |-> 0]

Init ==
    /\ texts \in [Files -> Library] /\ dag = <<>> /\ failed = <<>>
    /\ loads = 0 /\ top = NoFile /\ asts = << <<>> >> /\ inProgress = <<>>
    /\ frames = <<>> /\ answer = NoAnswer /\ reported = FALSE

\* Nothing is left of a load when it is over.
Leave ==
    /\ top' = NoFile /\ asts' = << <<>> >> /\ inProgress' = <<>>
    /\ frames' = <<>> /\ answer' = NoAnswer /\ reported' = FALSE

----------------------------------------------------------------------------
\* How many of the first i rules of file f are imports.
ImportsUpTo(f, i) == Cardinality({j \in 1..i : texts[f].rules[j] # Setting})

(***************************************************************************)
(* Parser::parseCcsStream adds the rules of file f to an AST as it goes,   *)
(* also those before an error; every import gets an empty AST.             *)
(***************************************************************************)
Parsed(f, known) ==
    LET rules == texts[f].rules
    IN  [i \in DOMAIN rules |->
            [place |-> <<f, i>>, location |-> rules[i],
             ast |-> IF rules[i] = Setting THEN 0 ELSE known + ImportsUpTo(f, i)]]

\* Defect: all the imports of a file share one AST.
WithFileShared(f, ast) ==
    [i \in DOMAIN asts |->
        IF i = ast THEN asts[i] \o Parsed(f, Len(asts)) ELSE asts[i]]

WithFile(f, ast) ==
    [i \in 1..(Len(asts) + ImportsUpTo(f, Len(texts[f].rules))) |->
        IF i = ast THEN asts[i] \o Parsed(f, Len(asts))
        ELSE IF i <= Len(asts) THEN asts[i] ELSE <<>>]

\* Loader::parseCcsStream, up to the resolution of the imports.
Parse(f, ast, below) ==
    /\ asts' = WithFile(f, ast)
    /\ IF texts[f].broken
       THEN /\ reported' = TRUE
            /\ frames' = below /\ answer' = "no"
       ELSE /\ frames' = <<Resolving(ast)>> \o below
            /\ answer' = NoAnswer /\ UNCHANGED reported

\* CcsDomain::loadCcsStream.
BeginLoad(f) ==
    /\ top = NoFile /\ loads < MaxLoads /\ texts[f].exists
    /\ loads' = loads + 1 /\ top' = f
    /\ Parse(f, 1, <<>>)
    /\ UNCHANGED <<texts, dag, failed, inProgress>>

----------------------------------------------------------------------------
(* Nested::resolveImports and Import::resolveImports.                      *)

Caller == Tail(frames)

Rules == asts[Head(frames).ast]

Rule == Rules[Head(frames).next]

InCall(call) == frames # <<>> /\ Head(frames).call = call

Advanced == [frames EXCEPT ![1].next = @ + 1]

\* PropDef and Constraint have nothing to resolve.
SkipRule ==
    /\ InCall("resolveImports") /\ answer = NoAnswer
    /\ Head(frames).next <= Len(Rules) /\ Rule.location = Setting
    /\ frames' = Advanced
    /\ UNCHANGED <<texts, dag, failed, top, asts, inProgress, answer, reported, loads>>

\* Defect: an import is circular only if it imports its own file.
CircularAtOnce(location) ==
    inProgress # <<>> /\ inProgress[Len(inProgress)] = location

Circular(location) == \E i \in DOMAIN inProgress : inProgress[i] = location

StartImport ==
    /\ InCall("resolveImports") /\ answer = NoAnswer
    /\ Head(frames).next <= Len(Rules) /\ Rule.location # Setting
    /\ IF Circular(Rule.location)
       THEN /\ reported' = TRUE /\ answer' = "no"
            /\ frames' = Caller
            /\ UNCHANGED inProgress
       ELSE /\ inProgress' = Append(inProgress, Rule.location)
            /\ frames' = <<Resolver(Rule.location, Rule.ast)>> \o frames
            /\ UNCHANGED <<reported, answer>>
    /\ UNCHANGED <<texts, dag, failed, top, asts, loads>>

\* Defect: an import that failed is tried again.
FinishImportRetry ==
    /\ InCall("resolveImports") /\ answer # NoAnswer
    /\ answer' = NoAnswer
    /\ frames' = IF answer = "yes" THEN Advanced ELSE frames
    /\ UNCHANGED <<texts, dag, failed, top, asts, inProgress, reported, loads>>

\* An import answered: the loop goes on to the next rule, or fails.
FinishImport ==
    /\ InCall("resolveImports") /\ answer # NoAnswer
    /\ IF answer = "yes" THEN frames' = Advanced /\ answer' = NoAnswer
       ELSE frames' = Caller /\ UNCHANGED answer
    /\ UNCHANGED <<texts, dag, failed, top, asts, inProgress, reported, loads>>

FinishRules ==
    /\ InCall("resolveImports") /\ answer = NoAnswer
    /\ Head(frames).next > Len(Rules)
    /\ frames' = Caller /\ answer' = "yes"
    /\ UNCHANGED <<texts, dag, failed, top, asts, inProgress, reported, loads>>

----------------------------------------------------------------------------
(* The user's resolver.                                                    *)

Path == SearchPath[Head(frames).location]

\* It calls back with the next file of its path, if there is such a file.
OfferFile ==
    /\ InCall("resolve") /\ Head(frames).offered < Len(Path)
    /\ answer \in {NoAnswer, "no"}
    /\ LET f == Path[Head(frames).offered + 1]
           offered == [frames EXCEPT ![1].offered = @ + 1]
       IN  IF texts[f].exists THEN Parse(f, Head(frames).ast, offered)
           ELSE frames' = offered /\ UNCHANGED <<asts, answer, reported>>
    /\ UNCHANGED <<texts, dag, failed, top, inProgress, loads>>

\* Defect: only an import that succeeded is taken off the stack.
ResolverReturnsInProgress ==
    /\ InCall("resolve")
    /\ answer = "yes" \/ Head(frames).offered = Len(Path)
    /\ answer' = IF answer = "yes" THEN "yes" ELSE "no"
    /\ reported' = (reported \/ answer # "yes")
    /\ inProgress' = IF answer = "yes" THEN Front(inProgress) ELSE inProgress
    /\ frames' = Caller
    /\ UNCHANGED <<texts, dag, failed, top, asts, loads>>

\* It returns, and the import is no longer in progress.
ResolverReturns ==
    /\ InCall("resolve")
    /\ answer = "yes" \/ Head(frames).offered = Len(Path)
    /\ answer' = IF answer = "yes" THEN "yes" ELSE "no"
    /\ reported' = (reported \/ answer # "yes")
    /\ frames' = Caller
    /\ inProgress' = Front(inProgress)
    /\ UNCHANGED <<texts, dag, failed, top, asts, loads>>

\* The load is abandoned before anything was added.
ResolverThrows ==
    /\ InCall("resolve")
    /\ Leave
    /\ UNCHANGED <<texts, dag, failed, loads>>

----------------------------------------------------------------------------
(* Nested::addTo and Import::addTo: the settings in the order of the ASTs. *)

Flat == LET flat[i \in DOMAIN asts] ==
                FlattenSeq([j \in DOMAIN asts[i] |->
                    IF asts[i][j].ast = 0 THEN <<asts[i][j].place>>
                    ELSE flat[asts[i][j].ast]])
        IN  flat[1]

\* Defect: what was parsed is added even when the load has failed.
EndLoadAnyway ==
    /\ top # NoFile /\ frames = <<>>
    /\ dag' = dag \o Flat
    /\ failed' = IF reported THEN Append(failed, top) ELSE failed
    /\ Leave
    /\ UNCHANGED <<texts, loads>>

\* The end of Loader::loadCcsStream.
EndLoad ==
    /\ top # NoFile /\ frames = <<>>
    /\ dag' = IF answer = "yes" THEN dag \o Flat ELSE dag
    /\ failed' = IF reported THEN Append(failed, top) ELSE failed
    /\ Leave
    /\ UNCHANGED <<texts, loads>>

Resolve == \/ SkipRule \/ StartImport \/ FinishImport \/ FinishRules
           \/ OfferFile \/ ResolverReturns \/ ResolverThrows

Next == (\E f \in Files : BeginLoad(f)) \/ Resolve \/ EndLoad

\* A load runs as long as its caller's thread does, and resolvers return.
Spec == Init /\ [][Next]_vars /\ WF_vars(Resolve \/ EndLoad)

----------------------------------------------------------------------------
RuleRecords == [place : Files \X Nat, location : Files \cup {Setting}, ast : Nat]

Frames == [call : {"resolveImports"}, ast : Nat, next : Nat \ {0}] \cup
          [call : {"resolve"}, ast : Nat, location : Files, offered : Nat]

\* The ASTs of imports are made after those they are imported by.
Forest(known) ==
    \A i \in DOMAIN known : \A j \in DOMAIN known[i] :
        IF known[i][j].location = Setting THEN known[i][j].ast = 0
        ELSE known[i][j].ast \in (i + 1)..Len(known)

(***************************************************************************)
(* The variables have their types.  Every call works on an AST that there  *)
(* is, and the ASTs are a forest, so that adding them to the DAG ends.     *)
(***************************************************************************)
TypeOK ==
    /\ texts \in [Files -> Library]
    /\ asts \in Seq(Seq(RuleRecords))
    /\ inProgress \in Seq(Files)
    /\ frames \in Seq(Frames)
    /\ \A i \in DOMAIN frames : frames[i].ast \in DOMAIN asts
    /\ Forest(asts)

(***************************************************************************)
(* All or nothing: a load adds a file with all it imports, each import     *)
(* expanded where it stands, or reports an error and adds nothing.         *)
(***************************************************************************)
ImplementsAbstract == Abstract!Spec

(***************************************************************************)
(* No location is being resolved twice at the same time, whatever the      *)
(* resolver answers, so parser and resolver cannot call each other without *)
(* end; yet a location may be imported again when it is no longer in       *)
(* progress (Import::resolveImports).                                      *)
(***************************************************************************)
NoReentry ==
    \A i, j \in DOMAIN frames :
        /\ frames[i].call = "resolve" /\ frames[j].call = "resolve"
        /\ frames[i].location = frames[j].location
        => i = j

(***************************************************************************)
(* The calls of a file's rules and of resolvers alternate, and the stack   *)
(* inProgress names exactly the imports whose resolvers are running, in    *)
(* every order in which callbacks succeed and fail: a location left behind *)
(* would make a later import of it look circular.                          *)
(***************************************************************************)
Stacked(calls, locations) ==
    LET up(n) == calls[Len(calls) + 1 - n]   \* the n-th call, outermost first
        open  == Len(locations)
    IN  /\ Len(calls) \in {2 * open, 2 * open + 1}
        /\ \A n \in 1..(Len(calls) - open) : up(2 * n - 1).call = "resolveImports"
        /\ \A n \in 1..open : /\ up(2 * n).call = "resolve"
                              /\ up(2 * n).location = locations[n]

InProgressIsStack == Stacked(frames, inProgress)

(***************************************************************************)
(* Every load comes to its end, although files import each other.          *)
(***************************************************************************)
LoadEnds == top # NoFile ~> top = NoFile

(***************************************************************************)
(* What Loader::loadCcsStream says of the moment it adds to the DAG:       *)
(* "everything parsed, no errors".                                         *)
(***************************************************************************)
AddsOnlyWithoutErrors == [][dag' # dag => ~reported]_vars
=============================================================================

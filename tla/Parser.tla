------------------------------- MODULE Parser -------------------------------
(***************************************************************************)
(* The recursive descent of ParserImpl (parser/parser.cpp), token by token. *)
(*                                                                         *)
(* The calls in progress are a stack of what is still to be done: tokens   *)
(* that are expected, functions to be called, loops to be gone on with,    *)
(* and operators to be applied to the selectors parsed.  The parser looks  *)
(* at the current token and at the one after it (lex_.peek()).  Tokens     *)
(* come from the lexer in any order, one at a time.  How long the input    *)
(* is does not matter, only how deeply it is nested.                       *)
(*                                                                         *)
(* A NAME in capitals is a class of tokens: ID an identifier, NUMID a name *)
(* that begins like a number, STRING a literal without interpolation,      *)
(* EXPANDED one with interpolation, EMPTY one with nothing in it, NUMBER,  *)
(* EOS the end of the input, and BAD a character sequence that makes the   *)
(* lexer throw.                                                            *)
(***************************************************************************)
EXTENDS Grammar

CONSTANTS Tokens,       \* the tokens the lexer may come up with
          MaxStack,     \* bound on the calls in progress
          MaxSelector   \* bound on the length of a selector

VARIABLES last, cur, next,  \* last_, cur_ and the token after it
          stack,            \* what is still to be done, the nearest first
          written,          \* the selector being parsed, as it is written
          built,            \* the calls that built it, in order
          verdict,          \* whether the parse is over, and how
          derivations       \* what misc/grammar.txt derives from the tokens read

vars == <<last, cur, next, stack, written, built, verdict, derivations>>

Init ==
    /\ cur \in Tokens /\ next \in IF cur = "EOS" THEN {"EOS"} ELSE Tokens
    /\ last = "none" /\ stack = <<"ruleset">>
    /\ written = <<>> /\ built = <<>>
    /\ verdict = "none"
    /\ derivations = Start

\* Parsing goes on with these in the place of what is on top of the stack.
GoOn(todo) ==
    /\ Len(todo) + Len(stack) <= MaxStack + 1
    /\ stack' = todo \o Tail(stack)
    /\ UNCHANGED <<last, cur, next, verdict, derivations>>

Plain == UNCHANGED <<written, built>>

Throw == /\ verdict' = "rejected"
         /\ UNCHANGED <<last, cur, next, stack, derivations>> /\ Plain

(***************************************************************************)
(* StringVal::interpolation on a literal that has no elements looks at the *)
(* first one, so that anything may happen.                                 *)
(***************************************************************************)
Undefined == /\ verdict' = "undefined"
             /\ UNCHANGED <<last, cur, next, stack, derivations>> /\ Plain

At(todo) == stack # <<>> /\ Head(stack) = todo

----------------------------------------------------------------------------
(* Tokens.                                                                 *)

Terminals == {"(", ")", "{", "}", ";", ":", ",", ".", ">", "=", "/",
              "@constrain", "@context", "@import", "@override",
              "NUMBER", "ID", "NUMID", "STRING", "EXPANDED", "EMPTY"}

InSelector == \E i \in DOMAIN stack : stack[i] \in {"branch", "done"}

\* expect and advance; the lexer is one token ahead.
Expect ==
    /\ stack # <<>> /\ Head(stack) \in Terminals
    /\ IF cur # Head(stack) THEN Throw
       ELSE /\ stack' = Tail(stack)
            /\ last' = cur /\ cur' = next
            /\ next' \in IF next = "EOS" THEN {"EOS"} ELSE Tokens
            /\ derivations' = After(derivations, cur)
            /\ UNCHANGED <<built, verdict>>
            /\ IF InSelector /\ cur \in {"(", ")", ",", ">"}
               THEN Len(written) < MaxSelector /\ written' = Append(written, cur)
               ELSE UNCHANGED written

\* Lexer::nextToken throws while it looks ahead.
LexerThrows == "BAD" \in {cur, next} /\ Throw

----------------------------------------------------------------------------
(* Rules.                                                                  *)

CouldBePrim == \/ cur \in {"@import", "@constrain", "@override"}
               \/ cur \in {"ID", "STRING", "EXPANDED", "EMPTY"} /\ next = "="

ParseRuleset ==
    /\ At("ruleset") /\ Plain
    /\ IF cur = "@context" THEN GoOn(<<"@context", "context", "rules">>)
       ELSE GoOn(<<"rules">>)

ParseContext == At("context") /\ Plain /\ GoOn(<<"(", "selector", ")", "semi">>)

OptionalSemi == At("semi") /\ Plain /\ GoOn(IF cur = ";" THEN <<";">> ELSE <<>>)

ParseRules ==
    /\ At("rules") /\ cur # "EOS" /\ Plain
    /\ GoOn(<<"rule", "rules">>)

Accept ==
    /\ At("rules") /\ cur = "EOS"
    /\ verdict' = "accepted"
    /\ UNCHANGED <<last, cur, next, stack, derivations>> /\ Plain

ParseRule ==
    /\ At("rule") /\ Plain
    /\ GoOn(IF CouldBePrim THEN <<"prim", "semi">> ELSE <<"selector", "body">>)

ParseBody ==
    /\ At("body")
    /\ CASE cur = ":" -> GoOn(<<":", "prim", "semi">>) /\ Plain
         [] cur = "{" -> GoOn(<<"{", "block">>) /\ Plain
         [] OTHER     -> Throw

ParseBlock ==
    /\ At("block") /\ Plain
    /\ GoOn(IF cur = "}" THEN <<"}">> ELSE <<"rule", "block">>)

ParsePrimRule ==
    /\ At("prim")
    /\ IF ~CouldBePrim THEN Throw
       ELSE /\ Plain
            /\ GoOn(CASE cur = "@import"    -> <<"@import", "location">>
                      [] cur = "@constrain" -> <<"@constrain", "singlestep">>
                      [] cur = "@override"  -> <<"@override", "property">>
                      [] OTHER              -> <<"property">>)

ParseProperty ==
    \/ At("property") /\ Plain /\ GoOn(<<"ident", "=", "value">>)
    \/ /\ At("value")
       /\ IF cur \in {"NUMBER", "STRING", "EXPANDED", "EMPTY", "NUMID", "ID"}
          THEN Plain /\ GoOn(<<cur>>)
          ELSE Throw

----------------------------------------------------------------------------
(* Selectors.  "and", "or" and "descendant" apply SelectorLeaf's methods   *)
(* to the two selectors parsed last.                                       *)

CouldStartStep(t) == t \in {"ID", "STRING", "EXPANDED", "EMPTY", "("}

ParseSelector == At("selector") /\ Plain /\ GoOn(<<"sum", "branch">>)

\* The rest of parseSelector: a '>' makes the branch one of descendants.
ParseBranch ==
    /\ At("branch")
    /\ IF cur = ">" THEN GoOn(<<">", "trailing", "done">>) /\ Plain
       ELSE GoOn(<<"done">>) /\ Plain

ParseSum ==
    /\ Plain
    /\ \/ At("sum") /\ GoOn(<<"product", "sums">>)
       \/ At("sums") /\ GoOn(IF cur = "," THEN <<",", "product", "or", "sums">> ELSE <<>>)

\* Defect: a step is joined with the product of all the steps after it.
ParseProductRight ==
    /\ Plain
    /\ \/ At("product") /\ GoOn(<<"term", "terms">>)
       \/ At("terms") /\ GoOn(IF CouldStartStep(cur) THEN <<"product", "and">> ELSE <<>>)

ParseProduct ==
    /\ Plain
    /\ \/ At("product") /\ GoOn(<<"term", "terms">>)
       \/ At("terms") /\ GoOn(IF CouldStartStep(cur) THEN <<"term", "and", "terms">>
                              ELSE <<>>)

\* Defect: a '>' always leads to another step.
ParseTermGreedy ==
    /\ Plain
    /\ \/ At("term") /\ GoOn(<<"step", "steps">>)
       \/ At("steps") /\ GoOn(IF cur = ">" THEN <<">", "step", "descendant", "steps">>
                              ELSE <<>>)

\* A '>' that no step follows is left to parseSelector.
ParseTerm ==
    /\ Plain
    /\ \/ At("term") /\ GoOn(<<"step", "steps">>)
       \/ At("steps") /\ GoOn(IF cur = ">" /\ CouldStartStep(next)
                              THEN <<">", "step", "descendant", "steps">>
                              ELSE <<>>)

ParseStep ==
    /\ At("step") /\ Plain
    /\ GoOn(IF cur = "(" THEN <<"(", "sum", ")">> ELSE <<"singlestep", "leaf">>)

Apply ==
    /\ stack # <<>> /\ Head(stack) \in {"and", "or", "descendant", "trailing"}
    /\ built' = Append(built, Head(stack))
    /\ UNCHANGED written
    /\ GoOn(<<>>)

\* SelectorLeaf::step.
ApplyStep ==
    /\ At("leaf") /\ Len(written) < MaxSelector
    /\ built' = Append(built, "step")
    /\ written' = Append(written, "step")
    /\ GoOn(<<>>)

\* The selector is handed over to its rule.
FinishSelector ==
    /\ At("done") /\ written' = <<>> /\ built' = <<>>
    /\ GoOn(<<>>)

ParseSingleStep ==
    \/ At("singlestep") /\ Plain /\ GoOn(<<"ident", "values">>)
    \/ /\ At("values") /\ Plain
       /\ GoOn(CASE cur = "." -> <<".", "ident", "values">>
                 [] cur = "/" -> <<"/", "singlestep">>
                 [] OTHER     -> <<>>)

\* A literal is read before it is looked at for interpolation.
ParseIdent ==
    \/ /\ At("ident") \/ At("location")
       /\ CASE cur = "ID" /\ At("ident")             -> GoOn(<<cur>>) /\ Plain
            [] cur \in {"STRING", "EXPANDED", "EMPTY"} -> GoOn(<<cur, "literal">>) /\ Plain
            [] OTHER                                  -> Throw
    \/ /\ At("literal")
       /\ CASE last = "STRING"   -> GoOn(<<>>) /\ Plain
            [] last = "EXPANDED" -> Throw
            [] last = "EMPTY"    -> Undefined

----------------------------------------------------------------------------
Next ==
    /\ verdict = "none"
    /\ IF "BAD" \in {cur, next} THEN LexerThrows
       ELSE \/ Expect \/ Accept \/ ParseRuleset \/ ParseContext \/ OptionalSemi
            \/ ParseRules \/ ParseRule \/ ParseBody \/ ParseBlock
            \/ ParsePrimRule \/ ParseProperty \/ ParseSelector \/ ParseBranch
            \/ ParseSum \/ ParseProduct \/ ParseTerm \/ ParseStep \/ Apply
            \/ ApplyStep \/ FinishSelector \/ ParseSingleStep \/ ParseIdent

Spec == Init /\ [][Next]_vars

----------------------------------------------------------------------------
(***************************************************************************)
(* The parser accepts an input only if the grammar derives it, and rejects *)
(* one only where no input of the grammar goes on with the tokens it sees. *)
(* This is what its two tokens of lookahead must be enough for.            *)
(***************************************************************************)
FollowsGrammar ==
    /\ verdict = "accepted" => Complete(derivations)
    /\ verdict = "rejected" =>
          IF cur = "EOS" THEN ~Complete(derivations)
          ELSE /\ After(After(derivations, cur), next) = {}
               /\ next = "EOS" => ~Complete(After(derivations, cur))

(***************************************************************************)
(* The operators of a selector are applied in the order the README's       *)
(* precedence and parentheses give them.                                   *)
(***************************************************************************)
FollowsPrecedence == At("done") => built = Reading(written)

(***************************************************************************)
(* README.md says that rules "may be separated by semicolons for clarity,  *)
(* but this is always completely optional and will never affect the way    *)
(* the ruleset is parsed": then a semicolon after the block that ends a    *)
(* rule is no error.                                                       *)
(***************************************************************************)
SemicolonsSeparateRules ==
    ~(verdict = "rejected" /\ last = "}" /\ cur = ";")

(***************************************************************************)
(* misc/grammar.txt has any STRING as an ident and as the location of an   *)
(* import, the one with nothing between its quotes among them: then the    *)
(* program knows what to do with that one as well.                         *)
(***************************************************************************)
EmptyStringsAreStrings ==
    verdict = "undefined" => derivations = {}
=============================================================================

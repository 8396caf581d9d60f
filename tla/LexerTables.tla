----------------------------- MODULE LexerTables -----------------------------
(***************************************************************************)
(* What the proofs about the lexer speak of: its recursive functions one   *)
(* position at a time, and texts that it reads alike.                      *)
(***************************************************************************)
EXTENDS Lexer

\* What AfterBlock's table has for a position, by what it has further on.
BlockEntry(s, j, after) ==
    [d \in Nat |->
        CASE Char(s, j) = "EOF" -> 0
          [] Char(s, j) = "*" /\ Char(s, j + 1) = "/" ->
                IF d <= 1 THEN j + 2 ELSE after[j + 2][d - 1]
          [] Char(s, j) = "/" /\ Char(s, j + 1) = "*" -> after[j + 2][d + 1]
          [] OTHER -> after[j + 1][d]]

\* What Skipped's table has for a position, by what it has further on.
SkipEntry(s, j, skip) ==
    IF j = 0 THEN 0
    ELSE CASE Char(s, j) \in Blanks -> skip[j + 1]
           [] Char(s, j) = "/" /\ Char(s, j + 1) = "/" ->
                 skip[AfterLine(s, j + 2)]
           [] Char(s, j) = "/" /\ Char(s, j + 1) = "*" ->
                 skip[AfterBlock(s, j + 2, 1)]
           [] OTHER -> j

\* What StringFrom's table has for a position, by what it has further on.
StringEntry(s, j, first, from) ==
    LET c     == Char(s, j)
        brace == RunEnd(s, j + 2, InterpolantChars)
    IN  CASE c = first -> Token("STRING", <<>>, j + 1)
          [] c = "EOF" -> CutOff
          [] c = "$" ->
                IF Char(s, j + 1) = "EOF" THEN CutOff
                ELSE IF Char(s, j + 1) # "{" THEN Thrown
                ELSE IF Char(s, brace) = "EOF" THEN CutOff
                ELSE IF Char(s, brace) # "}" THEN Thrown
                ELSE WithInterpolant(SubSeq(s, j + 2, brace - 1), from[brace + 1])
          [] c = "\\" ->
                IF Char(s, j + 1) = "EOF" THEN CutOff
                ELSE IF Char(s, j + 1) \notin DOMAIN Escapes THEN Thrown
                ELSE WithPlain(Escapes[Char(s, j + 1)], from[j + 2])
          [] OTHER -> WithPlain(<<c>>, from[j + 1])

\* The token that is next at a position.
NextToken(s, j) == TokenAt(s, Skipped(s, j))

\* What TokensFrom's table has for a position, by what it has further on.
TokensEntry(s, j, from) ==
    LET token == TokenAt(s, Skipped(s, j))
    IN  <<token>> \o (IF token.end = 0 THEN <<>> ELSE from[token.end])

----------------------------------------------------------------------------
(* Texts that go on alike.  Of two tables, a is that of s and b that of t.  *)

\* What a blank and a comment begin with, and what comes after the text.
Gaps == {"EOF", " ", "/"}

(***************************************************************************)
(* What s has from m on, t has d further on.  At the end of s there may be *)
(* more in t, after a blank or a comment.                                  *)
(***************************************************************************)
GoesOn(s, t, m, d) ==
    /\ Len(s) + d <= Len(t)
    /\ \A k \in m..Len(s) : Char(t, k + d) = Char(s, k)
    /\ Char(t, Len(s) + 1 + d) \in Gaps

\* There is no more.
EndsTo(s, t, d) == Len(t) = Len(s) + d

\* Where position n of s is in t; there is none of 0.
Moved(n, d) == IF n = 0 THEN 0 ELSE n + d

\* Comments end alike if they do in s, or s and t end alike.
BlocksAgree(s, t, a, b, d, j, e) ==
    EndsTo(s, t, d) \/ a[j][e] # 0 => b[j + d][e] = Moved(a[j][e], d)

LineEnds == {"\n", "EOF"}

\* Where a token begins that s has: not a slash that may begin a comment in t.
Reaches(s, t, d, p) ==
    \/ EndsTo(s, t, d)
    \/ p \in 1..Len(s) /\ ~(p = Len(s) /\ Char(s, p) = "/")

SkipsAlike(s, t, a, b, d, j) == Reaches(s, t, d, a[j]) => b[j + d] = Moved(a[j], d)

\* Tokens that differ in where they end only.
SameToken(x, y, d) == x.type = y.type /\ x.value = y.value /\ y.end = Moved(x.end, d)

\* Literals are alike if s has all of them, or s and t end alike.
StringsAlike(s, t, a, b, d, j) ==
    EndsTo(s, t, d) \/ a[j].end # 0 => SameToken(a[j], b[j + d], d)

\* A run of characters from k on, in a token that begins at j.
RunsAlike(s, t, d, C, j, k) ==
    /\ RunEnd(s, k, C) \in Nat \ {0}
    /\ RunEnd(t, k + d, C) = RunEnd(s, k, C) + d
    /\ SubSeq(t, j + d, RunEnd(t, k + d, C) - 1) = SubSeq(s, j, RunEnd(s, k, C) - 1)

\* A token that s has to its end, and that t has too.
Keeps(s, t, d, token) ==
    \/ EndsTo(s, t, d)
    \/ token.end # 0 /\ ~(token.type = "/" /\ token.end = Len(s) + 1)

\* Where the tokens from j on come to the end of s, but not with a slash.
WholeFrom(s, j) ==
    \E k \in DOMAIN TokensFrom(s, j) :
       TokensFrom(s, j)[k].end = Len(s) + 1 /\ TokensFrom(s, j)[k].type # "/"
=============================================================================

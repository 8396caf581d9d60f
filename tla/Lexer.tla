------------------------------- MODULE Lexer -------------------------------
(***************************************************************************)
(* The lexer of parser/parser.cpp: from the characters of a stream to      *)
(* tokens.  A character is a string of length one; a word stands for the   *)
(* letters it is made of.  What the code keeps in the stream (get, peek)   *)
(* is a position here: the next character of s to be read, s[i].           *)
(***************************************************************************)
EXTENDS Integers, Sequences, FiniteSetsExt

CONSTANTS Letters,   \* the letters and words that texts are made of
          LongBits   \* the width of int64_t

Digits == {"0", "1", "2", "3", "4", "5", "6", "7", "8", "9"}

DigitsInOrder == <<"0", "1", "2", "3", "4", "5", "6", "7", "8", "9",
                   "a", "b", "c", "d", "e", "f">>

HexDigits == {DigitsInOrder[n] : n \in DOMAIN DigitsInOrder}

DigitValue == [c \in HexDigits |->
                  (CHOOSE n \in DOMAIN DigitsInOrder : DigitsInOrder[n] = c) - 1]

Blanks == {" ", "\n"}
IdentInitChars == Letters \cup {"$", "_"}
IdentChars == IdentInitChars \cup Digits
InterpolantChars == Letters \cup Digits \cup {"_"}
NumIdInitChars == Digits \cup {"-", "+"}
NumIdChars == NumIdInitChars \cup IdentChars \cup {"."}

Quotes == {"'", "\""}
Punctuation == {"(", ")", "{", "}", ";", ":", ",", ".", ">", "=", "/"}
ASSUME LexerAssumption ==
    /\ LongBits \in Nat \ {0, 1}
    /\ Letters \cap (Blanks \cup Punctuation \cup NumIdInitChars
                     \cup Quotes \cup {"$", "_", "@", "\\", "*", "EOF"}) = {}

Commands == [constrain |-> "CONSTRAIN", context |-> "CONTEXT",
             import |-> "IMPORT", override |-> "OVERRIDE"]

\* b multiplied n times: what b^n is, by a definition that proofs can use.
Power(b, n) ==
    LET to[k \in Nat] == IF k = 0 THEN 1 ELSE b * to[k - 1]
    IN  to[n]

LongMax == Power(2, LongBits - 1) - 1
LongMin == -LongMax - 1

\* Overflow of a signed integer, as two's complement hardware does it.
Wrapped(n) == ((n - LongMin) % Power(2, LongBits)) + LongMin

Clamped(n) == IF n > LongMax THEN LongMax ELSE IF n < LongMin THEN LongMin ELSE n

Char(s, i) == IF i \in DOMAIN s THEN s[i] ELSE "EOF"

\* Where the characters of set C that begin at i come to an end.
RunEnd(s, i, C) == Min({j \in i..(Len(s) + 1) : Char(s, j) \notin C})

----------------------------------------------------------------------------
(* White space and comments.  A position of 0 says that the lexer threw.   *)

\* Defect: the first end of a comment ends all of them.
AfterBlockFlat(s, i, depth) ==
    LET ends == {j \in i..Len(s) : s[j] = "*" /\ Char(s, j + 1) = "/"}
    IN  IF ends = {} THEN 0 ELSE Min(ends) + 2

\* multilineComment, called so many times within itself.
AfterBlock(s, i, depth) ==
    LET after[j \in Nat] == [d \in Nat |->
            CASE Char(s, j) = "EOF" -> 0
              [] Char(s, j) = "*" /\ Char(s, j + 1) = "/" ->
                    IF d <= 1 THEN j + 2 ELSE after[j + 2][d - 1]
              [] Char(s, j) = "/" /\ Char(s, j + 1) = "*" -> after[j + 2][d + 1]
              [] OTHER -> after[j + 1][d]]
    IN  after[i][depth]

\* comment, its two slashes behind: where the line ends, or the text.
AfterLine(s, i) == Min({j \in i..(Len(s) + 1) : Char(s, j) \in {"\n", "EOF"}})

\* The loop of nextToken and comment: where the next token begins.
Skipped(s, i) ==
    LET skip[j \in Nat] ==
            IF j = 0 THEN 0
            ELSE CASE Char(s, j) \in Blanks -> skip[j + 1]
                   [] Char(s, j) = "/" /\ Char(s, j + 1) = "/" ->
                         skip[AfterLine(s, j + 2)]
                   [] Char(s, j) = "/" /\ Char(s, j + 1) = "*" ->
                         skip[AfterBlock(s, j + 2, 1)]
                   [] OTHER -> j
    IN  skip[i]

----------------------------------------------------------------------------
(* Tokens: what they are, what they say, and where the next one begins.    *)

Token(type, value, end) == [type |-> type, value |-> value, end |-> end]

\* A parse_error; an OPEN token is one the end of the input came too early for.
Thrown == Token("BAD", <<>>, 0)
CutOff == Token("OPEN", <<>>, 0)

Plain(chars)   == [text |-> chars, isInterpolant |-> FALSE]
FromEnv(chars) == [text |-> chars, isInterpolant |-> TRUE]

\* A string token that has more plain text before what it has.
WithPlain(chars, token) ==
    IF token.type # "STRING" \/ chars = <<>> THEN token
    ELSE [token EXCEPT !.value =
             IF @ # <<>> /\ ~Head(@).isInterpolant
             THEN <<Plain(chars \o Head(@).text)>> \o Tail(@)
             ELSE <<Plain(chars)>> \o @]

\* A string token that has an interpolant before what it has.
WithInterpolant(chars, token) ==
    IF token.type # "STRING" THEN token
    ELSE [token EXCEPT !.value = <<FromEnv(chars)>> \o @]

\* Defect: a dollar sign keeps the backslash before it.
EscapesVerbatim == [c \in {"$", "'", "\"", "\\", "n", "\n"} |->
                      IF c = "n" THEN <<"\n">> ELSE IF c = "\n" THEN <<>>
                      ELSE IF c = "$" THEN <<"\\", "$">> ELSE <<c>>]

\* What the character after a backslash stands for; a newline for nothing.
Escapes == [c \in {"$", "'", "\"", "\\", "n", "\n"} |->
              IF c = "n" THEN <<"\n">> ELSE IF c = "\n" THEN <<>> ELSE <<c>>]

\* string: the rest of a string literal, and what it is a literal of.
StringFrom(s, i, first) ==
    LET from[j \in Nat] ==
          LET c     == Char(s, j)
              brace == RunEnd(s, j + 2, InterpolantChars)
          IN  CASE c = first -> Token("STRING", <<>>, j + 1)
                [] c = "EOF" -> CutOff
                [] c = "$" ->
                      IF Char(s, j + 1) = "EOF" THEN CutOff
                      ELSE IF Char(s, j + 1) # "{" THEN Thrown
                      ELSE IF Char(s, brace) = "EOF" THEN CutOff
                      ELSE IF Char(s, brace) # "}" THEN Thrown
                      ELSE WithInterpolant(SubSeq(s, j + 2, brace - 1),
                                           from[brace + 1])
                [] c = "\\" ->
                      IF Char(s, j + 1) = "EOF" THEN CutOff
                      ELSE IF Char(s, j + 1) \notin DOMAIN Escapes THEN Thrown
                      ELSE WithPlain(Escapes[Char(s, j + 1)], from[j + 2])
                [] OTHER -> WithPlain(<<c>>, from[j + 1])
    IN  from[i]

----------------------------------------------------------------------------
(* Numbers.                                                                *)

Horner(base, chars, Fit(_)) ==
    LET upTo[n \in 0..Len(chars)] ==
            IF n = 0 THEN 0 ELSE Fit(upTo[n - 1] * base + DigitValue[chars[n]])
    IN  upTo[Len(chars)]

Signed(chars) == chars # <<>> /\ Head(chars) \in {"-", "+"}
Unsigned(chars) == IF Signed(chars) THEN Tail(chars) ELSE chars
Negative(chars) == chars # <<>> /\ Head(chars) = "-"

AllIn(chars, C) == \A i \in DOMAIN chars : chars[i] \in C

\* intRe.
IsInt(chars) == Unsigned(chars) # <<>> /\ AllIn(Unsigned(chars), Digits)

\* The integer that such characters denote.
IntOf(chars) ==
    LET n == Horner(10, Unsigned(chars), LAMBDA m : m)
    IN  IF Negative(chars) THEN -n ELSE n

\* The parts of a floating point number: whole digits, fraction, exponent.
Parts(chars) ==
    LET u     == Unsigned(chars)
        dot   == RunEnd(u, 1, Digits)
        point == Char(u, dot) = "."
        tail  == IF point THEN RunEnd(u, dot + 1, Digits) ELSE dot
    IN  [whole    |-> SubSeq(u, 1, dot - 1),
         fraction |-> IF point THEN SubSeq(u, dot + 1, tail - 1) ELSE <<>>,
         rest     |-> SubSeq(u, tail, Len(u))]

HasExponent(parts) ==
    \/ parts.rest = <<>>
    \/ Head(parts.rest) \in {"e", "E"} /\ IsInt(Tail(parts.rest))

\* doubleRe.
IsDouble(chars) == Parts(chars).whole # <<>> /\ HasExponent(Parts(chars))

(***************************************************************************)
(* A double as the decimal number it was written as: coef * 10^exp, where  *)
(* coef is not a multiple of ten.  Binary fractions and the range of       *)
(* exponents are left out.                                                 *)
(***************************************************************************)
Decimal(neg, coef, exp) ==
    LET plain[c \in Nat \ {0}] ==
            IF c % 10 = 0 THEN [plain[c \div 10] EXCEPT !.exp = @ + 1]
            ELSE [neg |-> neg, coef |-> c, exp |-> exp]
    IN  IF coef = 0 THEN [neg |-> neg, coef |-> 0, exp |-> 0] ELSE plain[coef]

DecimalOf(neg, parts, exponent) ==
    Decimal(neg, IntOf(parts.whole \o parts.fraction),
            exponent - Len(parts.fraction))

\* strtod.
DoubleOf(chars) ==
    LET parts == Parts(chars)
    IN  DecimalOf(Negative(chars), parts,
                  IF parts.rest = <<>> THEN 0 ELSE IntOf(Tail(parts.rest)))

\* Defect: a literal that is too large wraps around.
IntLiteralWraps(chars) == Wrapped(IntOf(chars))

\* strtoll in numId.
IntLiteral(chars) == Clamped(IntOf(chars))

\* numId.
NumId(s, i) ==
    LET end   == RunEnd(s, i + 1, NumIdChars)
        chars == SubSeq(s, i, end - 1)
    IN  IF IsInt(chars) THEN Token("INT", IntLiteral(chars), end)
        ELSE IF IsDouble(chars) THEN Token("DOUBLE", DoubleOf(chars), end)
        ELSE Token("NUMID", chars, end)

\* Defect: hexadecimal digits count beyond the width of int64_t.
HexLiteralUnsized(s, i) ==
    LET end == RunEnd(s, i, HexDigits)
    IN  Token("INT", Horner(16, SubSeq(s, i, end - 1), LAMBDA n : n), end)

\* hexLiteral, after its 0x.
HexLiteral(s, i) ==
    LET end == RunEnd(s, i, HexDigits)
    IN  Token("INT", Horner(16, SubSeq(s, i, end - 1), Wrapped), end)

----------------------------------------------------------------------------
Ident(s, i) == LET end == RunEnd(s, i + 1, IdentChars)
               IN  Token("IDENT", SubSeq(s, i, end - 1), end)

Command(s, i) ==
    LET ident == Ident(s, i)
    IN  IF Len(ident.value) = 2 /\ ident.value[2] \in DOMAIN Commands
        THEN Token(Commands[ident.value[2]], <<>>, ident.end)
        ELSE Thrown

\* nextToken, once white space and comments are behind.
TokenAt(s, i) ==
    LET c == Char(s, i)
    IN  CASE i = 0 -> CutOff
          [] i # 0 /\ c = "EOF" -> Token("EOS", <<>>, 0)
          [] c \in Punctuation -> Token(c, <<>>, i + 1)
          [] c = "@" -> Command(s, i)
          [] c \in Quotes -> StringFrom(s, i + 1, c)
          [] c \in NumIdInitChars ->
                IF c = "0" /\ Char(s, i + 1) = "x" THEN HexLiteral(s, i + 2)
                ELSE NumId(s, i)
          [] c \in IdentInitChars -> Ident(s, i)
          [] OTHER -> Thrown

\* Lexer: all tokens, the last one EOS or what ended the lexer.
TokensFrom(s, i) ==
    LET from[j \in Nat] ==
            LET token == TokenAt(s, Skipped(s, j))
            IN  <<token>> \o (IF token.end = 0 THEN <<>> ELSE from[token.end])
    IN  from[i]

Tokens(s) == TokensFrom(s, 1)
=============================================================================

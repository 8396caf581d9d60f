----------------------------- MODULE MCLiterals -----------------------------
(***************************************************************************)
(* An instance of Literals: int of 7 bits, int64_t of 11, two digits of a  *)
(* double printed, so that short texts pass every limit.                   *)
(***************************************************************************)
EXTENDS Literals

MCLetters == {"a", "b", "e", "f", "n", "x", "true", "false"}

\* Decimal and floating point numbers; hexadecimal ones; numbers in quotes;
\* strings; escaped newlines; words; comments in a text.
MCAlphabets == {
    <<{"0", "1", "5", "9", "-", ".", "e"}, 5>>,
    <<{"0", "x", "1", "9", "f"}, 5>>,
    <<{"'", " ", "0", "9", "-", "."}, 5>>,
    <<{"'", "\"", "\\", "$", "{", "}", "a"}, 6>>,
    <<{"'", "\\", "n", "\n"}, 5>>,
    <<{"true", "false", "a", "1", "."}, 3>>,
    <<{"/", "*", "'", "1", "\n"}, 4>>}

MCVariables == {<<"a">>}
MCContents == {<<>>, <<"$", "{", "a", "}", "'", "\\">>}

\* A line with a quote; a comment within a comment, quotes in both.
MCComments == {<<"/", "/", "'", "*", "\n">>,
               <<"/", "*", "'", "/", "*", "'", "*", "/", "\n", "*", "/">>}
=============================================================================

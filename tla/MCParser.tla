------------------------------ MODULE MCParser ------------------------------
(* All the tokens, and those a few rules need.                             *)
EXTENDS Parser

AllTokens == Terminals \cup {"EOS", "BAD"}

RuleTokens == {"ID", "=", "NUMBER", ";", "{", "}", "EOS"}

NameTokens == {"ID", "EMPTY", "=", "NUMBER", "@import", "{", "}", "EOS"}

(***************************************************************************)
(* misc/grammar.txt has INT, DOUBLE, BOOL and STRING as values; identifiers *)
(* and names that begin like numbers are taken as strings as well          *)
(* (test/parser/parser_test.cpp, "value=12asdf.foo nextsel {}").           *)
(***************************************************************************)
TestedValues == {"NUMBER", "ID", "NUMID", "STRING", "EXPANDED", "EMPTY"}
=============================================================================

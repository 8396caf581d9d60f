------------------------------ MODULE Literals ------------------------------
(***************************************************************************)
(* One setting of a rule file, from its characters to what the lookups of  *)
(* CcsContext answer.  The value after the equals sign is written a        *)
(* character at a time, then the file is loaded; the environment variables *)
(* that strings may mention change at any time.                            *)
(***************************************************************************)
EXTENDS Values

CONSTANTS Alphabets,  \* pairs of a set of characters and of how many to write
          Variables,  \* names of environment variables
          Contents,   \* what they may be set to
          Comments    \* comments, line ends included

\* Characters, and how deep in comments they lead: a mark that begins or ends
\* one is two characters, neither of them of another mark before.
Nesting(chars) ==
    LET upTo[n \in 0..Len(chars)] ==
            IF n = 0 THEN [depth |-> 0, last |-> "none"]
            ELSE LET mark  == <<upTo[n - 1].last, chars[n]>>
                     depth == upTo[n - 1].depth
                 IN  IF mark = <<"/", "*">> THEN [depth |-> depth + 1, last |-> "none"]
                     ELSE IF mark = <<"*", "/">>
                     THEN [depth |-> depth - 1, last |-> "none"]
                     ELSE [depth |-> depth, last |-> chars[n]]
    IN  upTo

\* A comment that ends where all those within it have, or with the line.
IsComment(chars) ==
    /\ Len(chars) > 2
    /\ \/ /\ SubSeq(chars, 1, 2) = <<"/", "*">>
          /\ Nesting(chars)[Len(chars)].depth = 0
          /\ \A n \in 2..(Len(chars) - 1) : Nesting(chars)[n].depth > 0
       \/ /\ SubSeq(chars, 1, 2) = <<"/", "/">>
          /\ \A n \in 3..Len(chars) : (chars[n] = "\n") <=> (n = Len(chars))

ASSUME LiteralsAssumption ==
    /\ \A alphabet \in Alphabets : "EOF" \notin alphabet[1]
    /\ \A comment \in Comments :
          comment \in Seq(STRING) /\ "EOF" \notin ToSet(comment) /\ IsComment(comment)
    /\ \A v \in Variables : v \in Seq(InterpolantChars)
    /\ \A content \in Contents : content \in Seq(STRING)

VARIABLES text,   \* the value as written so far
          prop,   \* the property, once loaded; None before
          env

vars == <<text, prop, env>>

Init == /\ text = <<>>
        /\ prop = None
        /\ env = [v \in {} |-> <<>>]

\* Whether more characters can make a value of a text, which then is all of
\* one token, perhaps with white space and comments, whole or not.
CouldBeValue(s) ==
    LET tokens == Tokens(s)
    IN  /\ tokens[1].type \in ValueTokens \cup {"OPEN", "EOS", "/"}
        /\ Len(tokens) > 1 => tokens[2].type \in {"OPEN", "EOS", "/"}

Write ==
    \E alphabet \in Alphabets : \E c \in alphabet[1] :
        /\ prop = None
        /\ DOMAIN env = {}
        /\ Len(text) < alphabet[2]
        /\ ToSet(text) \subseteq alphabet[1]
        /\ CouldBeValue(text)
        /\ text' = Append(text, c)
        /\ UNCHANGED <<prop, env>>

\* loadCcsStream of a file with this one setting.
LoadSetting ==
    LET tokens == Tokens(text)
    IN  /\ prop = None
        /\ Len(tokens) = 2
        /\ tokens[1].type \in ValueTokens
        /\ tokens[2].type = "EOS"
        /\ prop' = ValueOf(tokens[1], env)
        /\ UNCHANGED <<text, env>>

\* The process sets a variable.  Before the load only texts that mention it.
SetVariable ==
    \E v \in Variables, content \in Contents :
        /\ \E i \in DOMAIN text : text[i] = "$"
        /\ v \in DOMAIN env => env[v] # content
        /\ env' = [w \in DOMAIN env \cup {v} |-> IF w = v THEN content ELSE env[w]]
        /\ UNCHANGED <<text, prop>>

Next == Write \/ LoadSetting \/ SetVariable

Spec == Init /\ [][Next]_vars

----------------------------------------------------------------------------
(* The lookups of one name, the one that the setting defines.              *)

Answers(says, x) == [says |-> says, x |-> x]

Exists == prop # None

Text == AsString(prop, env)

\* getString, getInt, getDouble, getBool: those without a default.
Get(T) ==
    IF ~Exists THEN Answers("no_such_property", None)
    ELSE IF T = "string" THEN Answers("value", Text)
    ELSE IF Cast(T, prop, env).ok THEN Answers("value", Cast(T, prop, env).dest)
    ELSE Answers("bad_coercion", None)

\* The same with a default, which a value of another type does not ask for.
GetOr(T, default) == IF Exists THEN Get(T) ELSE Answers("value", default)

\* getInto: whether there was a value, and the destination afterwards.
GetInto(T, dest) ==
    IF ~Exists THEN Answers(FALSE, dest)
    ELSE IF Get(T).says = "value" THEN Answers(TRUE, Get(T).x)
    ELSE Answers("bad_coercion", dest)

\* The templates get and getInto, which read what getString answers.
GetT(T) ==
    IF ~Exists THEN Answers("no_such_property", None)
    ELSE IF CoerceString(T, Text).ok THEN Answers("value", CoerceString(T, Text).dest)
    ELSE Answers("bad_coercion", None)

GetTOr(T, default) ==
    IF ~Exists \/ ~CoerceString(T, Text).ok THEN Answers("value", default)
    ELSE Answers("value", CoerceString(T, Text).dest)

GetTInto(T, dest) ==
    IF ~Exists THEN Answers(FALSE, dest)
    ELSE LET read == CoerceString(T, Text)
         IN  Answers(read.ok, IF read.dest = None THEN dest ELSE read.dest)

----------------------------------------------------------------------------
(* Properties.                                                             *)

\* The variables have their types: a text, a value if one was loaded, texts.
TypeOK ==
    LET chars == UNION {alphabet[1] : alphabet \in Alphabets}
        texts == chars \cup HexDigits \cup {"-", "+", "e", ".", "true", "false", "\n"}
                       \cup UNION {ToSet(c) : c \in Contents}
    IN  /\ AllIn(text, chars)
        /\ Exists => /\ prop.which \in {"String", "Int", "Double", "Bool"}
                     /\ AllIn(prop.text, texts)
                     /\ prop.which = "Int" => prop.raw \in LongMin..LongMax
        /\ DOMAIN env \subseteq Variables
        /\ \A v \in DOMAIN env : env[v] \in Contents

\* Digits with their weights.
Denoted(base, chars) ==
    LET upTo[n \in 0..Len(chars)] ==
            IF n = 0 THEN 0
            ELSE upTo[n - 1] + DigitValue[chars[n]] * Power(base, Len(chars) - n)
    IN  upTo[Len(chars)]

Quoted(chars) ==
    /\ Len(chars) > 2
    /\ chars[1] = chars[Len(chars)]
    /\ chars[1] \in Quotes

Unquoted(chars) == IF Quoted(chars) THEN SubSeq(chars, 2, Len(chars) - 1) ELSE chars

WrittenInt(chars) ==
    LET n == Denoted(10, Unsigned(chars)) IN IF Negative(chars) THEN -n ELSE n

IsHex(chars) ==
    /\ Len(chars) > 2
    /\ SubSeq(chars, 1, 2) = <<"0", "x">>
    /\ AllIn(SubSeq(chars, 3, Len(chars)), HexDigits)

\* An integer as a double, of which there are two zeros.
AsDoubles(n) ==
    {Decimal(neg, IF n < 0 THEN -n ELSE n, 0) :
        neg \in IF n = 0 THEN BOOLEAN ELSE {n < 0}}

Exactly(n) ==
    /\ IF n \in IntMin..IntMax THEN Get("int") = Answers("value", n)
       ELSE Get("int").says = "bad_coercion"
    /\ n \in LongMin..LongMax =>
          /\ GetT("long") = Answers("value", n)
          /\ \E d \in AsDoubles(n) : Get("double") = Answers("value", d)

(***************************************************************************)
(* getInt answers the integer that the file has, in decimal or in          *)
(* hexadecimal digits or within quotes, or refuses it as too large for an  *)
(* int; it never answers another one.  get<int64_t> and getDouble answer   *)
(* it within the range of int64_t.  Numbers beyond are for getInt to       *)
(* refuse, if decimal; hexLiteral does not look whether there are more     *)
(* digits than int64_t holds.                                              *)
(***************************************************************************)
IntegersAsWritten ==
    Exists =>
        /\ IsInt(Unquoted(text)) => Exactly(WrittenInt(Unquoted(text)))
        /\ LET n == Denoted(16, SubSeq(text, 3, Len(text)))
           IN  IsHex(text) /\ n <= LongMax => Exactly(n)

Spread(d) == Len(DigitsOf(d.coef)) - Precision

\* Twice how far integer n is from d, in units of d's last digit.
TwiceOff(n, d) ==
    LET off == n * Power(10, -d.exp) - (IF d.neg THEN -d.coef ELSE d.coef)
    IN  2 * (IF off < 0 THEN -off ELSE off)

\* The integers of at most Precision digits that d may be rounded to.
Nearby(d, ties) ==
    LET whole == Len(DigitsOf(d.coef)) + d.exp   \* digits before the point
        ints  == {n \in (1 - Power(10, Precision))..(Power(10, Precision) - 1) :
                     n \in IntMin..IntMax}
        room  == IF Spread(d) > 0 THEN Power(10, Spread(d)) ELSE 0
    IN  IF d.coef = 0 THEN {0}
        ELSE IF whole \notin 0..Precision THEN {}
        ELSE IF d.exp >= 0
        THEN {n \in ints : n = (IF d.neg THEN -1 ELSE 1) * d.coef * Power(10, d.exp)}
        ELSE {n \in ints : \/ TwiceOff(n, d) < room
                           \/ TwiceOff(n, d) = room /\ (ties \/ room = 0)}

(***************************************************************************)
(* getDouble answers a floating point number as the file has it.  getInt   *)
(* answers it where, rounded to the digits that a stream prints, it is an  *)
(* integer of no more digits than that: 2.9999999 is 3 to it, 1.5 and      *)
(* 1000000.0 are refused.  It cuts off no fraction.                        *)
(***************************************************************************)
DoublesRounded ==
    Exists /\ IsDouble(text) /\ ~IsInt(text) =>
        LET d == DoubleOf(text)
        IN  /\ Get("double") = Answers("value", d)
            /\ IF Get("int").says = "value" THEN Get("int").x \in Nearby(d, TRUE)
               ELSE Nearby(d, FALSE) = {}

\* More digits than a stream prints.
Long(T) == T = "double" /\ Exists /\ prop.which = "Double" /\ Spread(prop.raw) > 0

(***************************************************************************)
(* The lookups of one type agree on which values they can answer, and on   *)
(* the value, but for floating point numbers with more digits than a       *)
(* stream prints, of which get<double> answers the digits printed.  A      *)
(* default is answered for a property of another type only by the template *)
(* get, and a destination is written to without a value only by the        *)
(* template getInto.                                                       *)
(***************************************************************************)
FlavoursAgree ==
    \A T \in Types :
        LET good == Get(T).says = "value"
        IN  /\ Get(T).says = GetT(T).says
            /\ ~Long(T) => Get(T) = GetT(T)
            /\ Exists => GetOr(T, None) = Get(T)
            /\ good => /\ GetInto(T, None) = Answers(TRUE, Get(T).x)
                       /\ GetTOr(T, None) = GetT(T)
                       /\ GetTInto(T, None) = Answers(TRUE, GetT(T).x)
            /\ ~good => /\ GetInto(T, None).x = None
                        /\ GetTOr(T, None) = Answers("value", None)
                        /\ GetTInto(T, None).says = FALSE

\* These are of texts alone: once is enough.
Unread == prop = None /\ DOMAIN env = {}

Escaped(chars) ==
    FlattenSeq([k \in DOMAIN chars |->
        CASE chars[k] = "\n" -> <<"\\", "n">>
          [] chars[k] \in {"$", "\\", "'", "\""} -> <<"\\", chars[k]>>
          [] OTHER -> <<chars[k]>>])

(***************************************************************************)
(* Every text can be written as a string literal, between quotes of either *)
(* sort, and is read back as it was; a variable between two such texts is  *)
(* replaced by what it is set to, quotes, dollar signs and backslashes     *)
(* included.                                                               *)
(***************************************************************************)
StringsReadBack ==
    Unread => \A quote \in Quotes, v \in Variables, content \in Contents :
        LET tokens == Tokens(<<quote>> \o Escaped(text) \o <<"$", "{">> \o v
                             \o <<"}">> \o Escaped(text) \o <<quote>>)
        IN  /\ Len(tokens) = 2
            /\ tokens[1].type = "STRING"
            /\ ValueOf(tokens[1], [w \in {v} |-> content]).text
                  = text \o content \o text

Said(tokens) == [k \in DOMAIN tokens |-> <<tokens[k].type, tokens[k].value>>]

\* So many characters of text are whole tokens, none of them a slash.
WholeTokens(i) ==
    \/ i = 0
    \/ \E k \in DOMAIN Tokens(SubSeq(text, 1, i)) :
          LET token == Tokens(SubSeq(text, 1, i))[k]
          IN  token.end = i + 1 /\ token.type # "/"

(***************************************************************************)
(* A comment between two tokens is to the lexer what a blank is, whatever  *)
(* quotes, newlines or other comments there are in it.                     *)
(***************************************************************************)
CommentsAreBlanks ==
    Unread => \A i \in 0..Len(text) : WholeTokens(i) =>
            LET with(between) == Said(Tokens(SubSeq(text, 1, i) \o between
                                             \o SubSeq(text, i + 1, Len(text))))
            IN  \A comment \in Comments : with(comment) = with(<<" ">>)

\* Lookups of a property that was loaded answer the same for good: a string
\* has the variables' contents of the time of its load.
LoadedOnce ==
    [][Exists => \A T \in Types : /\ Get(T)' = Get(T)
                                  /\ GetT(T)' = GetT(T)]_vars
=============================================================================

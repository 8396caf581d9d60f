------------------------------- MODULE Values -------------------------------
(***************************************************************************)
(* Values of properties and the lookups that convert them (dag/property,   *)
(* context.cpp, context.h).  An env gives the environment variables that   *)
(* are set their texts; texts are sequences of characters, as in Lexer.    *)
(***************************************************************************)
EXTENDS Lexer, SequencesExt

CONSTANTS IntBits,     \* the width of int
          Precision,   \* digits that a stream prints of a double: 6
          None         \* no value

ASSUME ValuesAssumption == IntBits \in 2..(LongBits - 1) /\ Precision \in Nat \ {0}

MaxOf(bits) == Power(2, bits - 1) - 1
MinOf(bits) == -MaxOf(bits) - 1
IntMax == MaxOf(IntBits)
IntMin == MinOf(IntBits)

----------------------------------------------------------------------------
(* Texts of values.                                                        *)

\* StringVal::str, with getenv.
Expanded(elements, env) ==
    FlattenSeq([k \in DOMAIN elements |->
        IF ~elements[k].isInterpolant THEN elements[k].text
        ELSE IF elements[k].text \in DOMAIN env THEN env[elements[k].text]
        ELSE <<>>])

DigitsOf(n) ==
    LET of[m \in Nat] ==
            IF m < 10 THEN <<DigitsInOrder[m + 1]>>
            ELSE Append(of[m \div 10], DigitsInOrder[(m % 10) + 1])
    IN  of[n]

Minus(negative) == IF negative THEN <<"-">> ELSE <<>>

IntText(n) == Minus(n < 0) \o DigitsOf(IF n < 0 THEN -n ELSE n)

Zeros(n) == [k \in 1..n |-> "0"]

\* Defect: digits that are not printed are dropped.
RoundedDown(d) ==
    LET excess == Len(DigitsOf(d.coef)) - Precision
    IN  IF excess <= 0 THEN d
        ELSE Decimal(d.neg, d.coef \div Power(10, excess), d.exp + excess)

(***************************************************************************)
(* A double rounded to Precision digits.  Ties go to the even digit, as    *)
(* those do that a binary fraction holds exactly.                          *)
(***************************************************************************)
Rounded(d) ==
    LET excess == Len(DigitsOf(d.coef)) - Precision
        kept   == d.coef \div Power(10, excess)
        twice  == 2 * (d.coef % Power(10, excess))
        up     == \/ twice > Power(10, excess)
                  \/ twice = Power(10, excess) /\ kept % 2 = 1
    IN  IF excess <= 0 THEN d
        ELSE Decimal(d.neg, IF up THEN kept + 1 ELSE kept, d.exp + excess)

\* Digits with a decimal point after the first so many of them.
Pointed(digits, n) ==
    IF n >= Len(digits) THEN digits \o Zeros(n - Len(digits))
    ELSE IF n <= 0 THEN <<"0", ".">> \o Zeros(-n) \o digits
    ELSE SubSeq(digits, 1, n) \o <<".">> \o SubSeq(digits, n + 1, Len(digits))

\* What follows the mantissa in scientific notation; at least two digits.
ExponentText(x) ==
    LET digits == DigitsOf(IF x < 0 THEN -x ELSE x)
    IN  <<"e", IF x < 0 THEN "-" ELSE "+">> \o Zeros(2 - Len(digits)) \o digits

\* operator<< of a double with the default format, that of printf's %g.
DoubleText(d) ==
    LET r      == Rounded(d)
        digits == DigitsOf(r.coef)
        x      == Len(digits) - 1 + r.exp
    IN  Minus(d.neg) \o (IF x < -4 \/ x >= Precision
                         THEN Pointed(digits, 1) \o ExponentText(x)
                         ELSE Pointed(digits, x + 1))

----------------------------------------------------------------------------
(* Values.  A value's text is made when the value is set (Value::str).     *)

Value(which, raw, text) == [which |-> which, raw |-> raw, text |-> text]

IntValue(n)             == Value("Int", n, IntText(n))
DoubleValue(d)          == Value("Double", d, DoubleText(d))
BoolValue(b)            == Value("Bool", b, IF b THEN <<"true">> ELSE <<"false">>)
StringValue(elems, env) == Value("String", elems, Expanded(elems, env))

\* The value that parseProperty makes of a token, its type already checked.
ValueOf(token, env) ==
    CASE token.type = "INT"    -> IntValue(token.value)
      [] token.type = "DOUBLE" -> DoubleValue(token.value)
      [] token.type = "STRING" -> StringValue(token.value, env)
      [] token.type = "IDENT" /\ token.value = <<"true">>  -> BoolValue(TRUE)
      [] token.type = "IDENT" /\ token.value = <<"false">> -> BoolValue(FALSE)
      [] OTHER -> StringValue(<<Plain(token.value)>>, env)

ValueTokens == {"INT", "DOUBLE", "STRING", "NUMID", "IDENT"}

\* Defect: the environment is looked at whenever the text is wanted.
AsStringNow(v, env) == IF v.which = "String" THEN Expanded(v.raw, env) ELSE v.text

\* asString: whatever the environment is by now.
AsString(v, env) == v.text

----------------------------------------------------------------------------
(* coerceString: what operator>> leaves in the destination, and whether    *)
(* the text was all there is to it.  None: the destination is untouched.   *)

Read(ok, dest) == [ok |-> ok, dest |-> dest]

Zero == Decimal(FALSE, 0, 0)

Trimmed(chars) ==
    SubSeq(chars, RunEnd(chars, 1, Blanks), Len(chars))

\* The longest beginning of a text that an integer could have.
IntPart(chars) ==
    SubSeq(chars, 1, RunEnd(chars, IF Signed(chars) THEN 2 ELSE 1, Digits) - 1)

ReadInt(chars, bits) ==
    LET part == IntPart(Trimmed(chars))
        n    == IntOf(part)
    IN  IF Trimmed(chars) = <<>> THEN Read(FALSE, None)
        ELSE IF ~IsInt(part)     THEN Read(FALSE, 0)
        ELSE IF n > MaxOf(bits)  THEN Read(FALSE, MaxOf(bits))
        ELSE IF n < MinOf(bits)  THEN Read(FALSE, MinOf(bits))
        ELSE Read(part = Trimmed(chars), n)

\* What is read of a text without the blanks before it, cut into its parts.
DoubleRead(neg, parts) ==
    LET digits   == parts.whole \o parts.fraction # <<>>
        sci      == digits /\ Char(parts.rest, 1) \in {"e", "E"}
        exponent == IF sci THEN IntPart(Tail(parts.rest)) ELSE <<>>
        length   == IF sci THEN 1 + Len(exponent) ELSE 0
    IN  IF ~digits \/ (sci /\ ~IsInt(exponent)) THEN Read(FALSE, Zero)
        ELSE Read(Len(parts.rest) = length, DecimalOf(neg, parts, IntOf(exponent)))

ReadDouble(chars) ==
    LET t == Trimmed(chars)
    IN  IF t = <<>> THEN Read(FALSE, None) ELSE DoubleRead(Negative(t), Parts(t))

ReadBool(chars) == CASE chars = <<"true">>  -> Read(TRUE, TRUE)
                     [] chars = <<"false">> -> Read(TRUE, FALSE)
                     [] OTHER -> Read(FALSE, None)

Types == {"int", "double", "bool", "string"}

\* The template lookups have int64_t, too.
CoerceString(T, chars) == CASE T = "int"    -> ReadInt(chars, IntBits)
                            [] T = "long"   -> ReadInt(chars, LongBits)
                            [] T = "double" -> ReadDouble(chars)
                            [] T = "bool"   -> ReadBool(chars)
                            [] T = "string" -> Read(TRUE, chars)

\* Defect: a double is made an integer by cutting off its fraction.
CastTruncates(T, v, env) ==
    IF T = "int" /\ v.which = "Double"
    THEN Read(TRUE, LET n == IF v.raw.exp >= 0 THEN v.raw.coef * Power(10, v.raw.exp)
                             ELSE v.raw.coef \div Power(10, -v.raw.exp)
                    IN  IF v.raw.neg THEN -n ELSE n)
    ELSE CoerceString(T, AsString(v, env))

\* Defect: an integer is cut to the width of int.
CastNarrows(T, v, env) ==
    IF <<T, v.which>> = <<"int", "Int">>
    THEN Read(TRUE, ((v.raw - IntMin) % Power(2, IntBits)) + IntMin)
    ELSE CoerceString(T, AsString(v, env))

(***************************************************************************)
(* Caster: a value of the very type that is asked for is answered as it    *)
(* is, any other one by way of its text.  An integer is held as int64_t,   *)
(* which is not int, so that integers always go by way of their text.      *)
(***************************************************************************)
Cast(T, v, env) ==
    IF <<T, v.which>> \in {<<"double", "Double">>, <<"bool", "Bool">>}
    THEN Read(TRUE, v.raw)
    ELSE CoerceString(T, AsString(v, env))
=============================================================================

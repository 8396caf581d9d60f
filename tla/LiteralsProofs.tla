--------------------------- MODULE LiteralsProofs ---------------------------
(***************************************************************************)
(* That what lookups answer is what the file says, for texts of any length *)
(* and integers of any width.                                              *)
(***************************************************************************)
EXTENDS Literals, LexerTables, Induction

----------------------------------------------------------------------------
(* Powers.                                                                 *)

LEMMA PowerIs ==
    ASSUME NEW b \in Nat
    PROVE  /\ Power(b, 0) = 1
           /\ \A n \in Nat : /\ Power(b, n) \in Nat
                             /\ Power(b, n + 1) = b * Power(b, n)
<1> DEFINE value(k, f) == IF k = 0 THEN 1 ELSE b * f[k - 1]
           to[k \in Nat] == IF k = 0 THEN 1 ELSE b * to[k - 1]
           next == [m \in Nat |-> [n \in Nat |-> b * n]]
<1>0. next \in [Nat -> [Nat -> Nat]] /\ \A m, n \in Nat : next[m][n] = b * n
  OBVIOUS
<1> HIDE DEF next
<1>1. PICK f \in [Nat -> Nat] : Iterates(f, 1, next)
  <2>1. 1 \in Nat
    OBVIOUS
  <2> QED
    BY <1>0, <2>1, ValueByValue
<1>2. f[0] = 1 /\ \A n \in Nat : f[n + 1] = b * f[n]
  BY <1>0, <1>1 DEF Iterates
<1>3. ASSUME NEW k \in Nat
      PROVE  f[k] = value(k, f)
  <2>1. CASE k = 0
    BY <1>2, <2>1
  <2>2. CASE k # 0
    <3>1. k - 1 \in Nat /\ (k - 1) + 1 = k
      BY <2>2
    <3> QED
      BY <1>2, <2>2, <3>1
  <2> QED
    BY <2>1, <2>2
<1>4. f = [k \in Nat |-> value(k, f)]
  BY <1>3
<1>5. to = [k \in Nat |-> value(k, to)]
  BY <1>4
<1>6. \A n : Power(b, n) = to[n]
  BY DEF Power
<1> HIDE DEF to
<1>7. AgreeOnward(to, f, Nat)
  <2> SUFFICES ASSUME NEW n \in Nat, \A m \in Nat : m < n => to[m] = f[m]
               PROVE  to[n] = f[n]
    BY DEF AgreeOnward
  <2>1. n # 0 => n - 1 \in Nat /\ n - 1 < n
    OBVIOUS
  <2> QED
    BY <1>3, <1>5, <2>1
<1>8. \A n \in Nat : to[n] = f[n]
  <2>1. Nat \in SUBSET Nat
    OBVIOUS
  <2> QED
    BY <1>7, <2>1, SameThroughout
<1>9. ASSUME NEW n \in Nat
      PROVE  Power(b, n) \in Nat /\ Power(b, n + 1) = b * Power(b, n)
  <2>1. n + 1 \in Nat
    OBVIOUS
  <2>2. Power(b, n) = f[n] /\ Power(b, n + 1) = f[n + 1]
    BY <1>6, <1>8, <2>1
  <2> QED
    BY <1>1, <1>2, <2>2
<1> QED
  BY <1>2, <1>6, <1>8, <1>9

LEMMA PowerPositive ==
    ASSUME NEW b \in Nat, b # 0
    PROVE  \A n \in Nat : Power(b, n) # 0
<1> DEFINE S == {n \in Nat : Power(b, n) # 0}
<1>1. 0 \in S
  BY PowerIs
<1>2. ASSUME NEW n \in Nat, n \in S
      PROVE  n + 1 \in S
  <2>1. Power(b, n) \in Nat /\ Power(b, n) # 0 /\ Power(b, n + 1) = b * Power(b, n)
    BY <1>2, PowerIs
  <2>2. \A m \in Nat : m # 0 => b * m # 0
    OBVIOUS
  <2> QED
    BY <2>1, <2>2
<1>3. Nat \subseteq S
  <2> HIDE DEF S
  <2> QED
    BY <1>1, <1>2, SimpleInduction
<1> QED
  BY <1>3

----------------------------------------------------------------------------
(* Digits, and the numbers that they denote.                               *)

LEMMA DigitFacts ==
    /\ Digits \subseteq HexDigits
    /\ \A c \in HexDigits : DigitValue[c] \in 0..15
    /\ \A c \in Digits : DigitValue[c] \in 0..9
    /\ \A n \in 0..9 : /\ DigitsInOrder[n + 1] \in Digits
                       /\ DigitValue[DigitsInOrder[n + 1]] = n
<1> DEFINE D == DigitsInOrder
<1>1. DOMAIN D = 1..16
  BY DEF DigitsInOrder
<1>2. /\ D[1] = "0" /\ D[2] = "1" /\ D[3] = "2" /\ D[4] = "3" /\ D[5] = "4"
      /\ D[6] = "5" /\ D[7] = "6" /\ D[8] = "7" /\ D[9] = "8" /\ D[10] = "9"
      /\ D[11] = "a" /\ D[12] = "b" /\ D[13] = "c" /\ D[14] = "d" /\ D[15] = "e"
      /\ D[16] = "f"
  BY DEF DigitsInOrder
<1> HIDE DEF D
<1>3. \A m, n \in 1..16 : D[m] = D[n] => m = n
  BY <1>2
<1>4. HexDigits = {D[n] : n \in 1..16}
  BY <1>1 DEF HexDigits, D
<1>5. \A n \in 1..16 : DigitValue[D[n]] = n - 1
  <2> SUFFICES ASSUME NEW n \in 1..16
               PROVE  DigitValue[D[n]] = n - 1
    OBVIOUS
  <2>1. DigitValue[D[n]] = (CHOOSE m \in 1..16 : D[m] = D[n]) - 1
    BY <1>1, <1>4 DEF DigitValue, D
  <2>2. (CHOOSE m \in 1..16 : D[m] = D[n]) = n
    BY <1>3
  <2> QED
    BY <2>1, <2>2
<1>6. \A c \in Digits : \E n \in 1..10 : c = D[n]
  BY <1>2 DEF Digits
<1>7. \A n \in 1..10 : D[n] \in Digits
  BY <1>2 DEF Digits
<1>8. Digits \subseteq HexDigits
  BY <1>4, <1>6
<1>9. ASSUME NEW c \in HexDigits
      PROVE  DigitValue[c] \in 0..15
  BY <1>4, <1>5
<1>10. ASSUME NEW c \in Digits
       PROVE  DigitValue[c] \in 0..9
  BY <1>5, <1>6
<1>11. ASSUME NEW n \in 0..9
       PROVE  /\ DigitsInOrder[n + 1] \in Digits
              /\ DigitValue[DigitsInOrder[n + 1]] = n
  <2>1. n + 1 \in 1..10 /\ n + 1 \in 1..16 /\ (n + 1) - 1 = n
    OBVIOUS
  <2>2. DigitValue[D[n + 1]] = n
    BY <1>5, <2>1
  <2>3. D[n + 1] \in Digits
    BY <1>7, <2>1
  <2> QED
    BY <2>2, <2>3 DEF D
<1> QED
  BY <1>8, <1>9, <1>10, <1>11

\* f has, for every number of digits, what so many of them denote.
Tabulates(f, base, chars, fit) ==
    /\ f[0] = 0
    /\ \A n \in 0..(Len(chars) - 1) :
          f[n + 1] = fit[f[n] * base + DigitValue[chars[n + 1]]]

LEMMA TableExists ==
    ASSUME NEW base \in Nat, NEW chars \in Seq(HexDigits), NEW V \in SUBSET Int,
           0 \in V, NEW fit, \A v \in V, d \in 0..15 : fit[v * base + d] \in V
    PROVE  \E f \in [Nat -> V] : Tabulates(f, base, chars, fit)
<1> DEFINE next == [n \in Nat |-> [v \in V |->
                       IF n < Len(chars) THEN fit[v * base + DigitValue[chars[n + 1]]]
                       ELSE v]]
<1>1. ASSUME NEW n \in Nat, n < Len(chars)
      PROVE  DigitValue[chars[n + 1]] \in 0..15
  <2>1. n + 1 \in 1..Len(chars)
    BY <1>1
  <2> QED
    BY <2>1, DigitFacts
<1>2. next \in [Nat -> [V -> V]]
  BY <1>1
<1>3. \A n \in Nat, v \in V :
         n < Len(chars) => next[n][v] = fit[v * base + DigitValue[chars[n + 1]]]
  OBVIOUS
<1> HIDE DEF next
<1>4. PICK f \in [Nat -> V] : Iterates(f, 0, next)
  BY <1>2, ValueByValue
<1>5. ASSUME NEW n \in 0..(Len(chars) - 1)
      PROVE  f[n + 1] = fit[f[n] * base + DigitValue[chars[n + 1]]]
  <2>1. n \in Nat /\ n < Len(chars)
    OBVIOUS
  <2> QED
    BY <1>3, <1>4, <2>1 DEF Iterates
<1> QED
  BY <1>4, <1>5 DEF Iterates, Tabulates

\* The number that digits denote, and what is left of it in so many bits.
Denotes(base, chars) == Horner(base, chars, LAMBDA m : m)

Same == [m \in Int |-> m]
Wrap == [m \in Int |-> Wrapped(m)]

LEMMA NextValue ==
    ASSUME NEW base \in Nat, NEW chars \in Seq(HexDigits), NEW v \in Int,
           NEW n \in Nat, n < Len(chars)
    PROVE  /\ DigitValue[chars[n + 1]] \in 0..15
           /\ v * base + DigitValue[chars[n + 1]] \in Int
<1>1. n + 1 \in 1..Len(chars)
  OBVIOUS
<1>2. DigitValue[chars[n + 1]] \in 0..15
  BY <1>1, DigitFacts
<1>3. \A d \in 0..15 : v * base + d \in Int
  OBVIOUS
<1> QED
  BY <1>2, <1>3

LEMMA DenotesIs ==
    ASSUME NEW base \in Nat, NEW chars \in Seq(HexDigits),
           NEW f \in [Nat -> Int], Tabulates(f, base, chars, Same)
    PROVE  Denotes(base, chars) = f[Len(chars)]
<1> DEFINE value(n, g) ==
        IF n = 0 THEN 0 ELSE g[n - 1] * base + DigitValue[chars[n]]
           D == 0..Len(chars)
           upTo[n \in D] ==
        IF n = 0 THEN 0 ELSE upTo[n - 1] * base + DigitValue[chars[n]]
<1>1. Denotes(base, chars) = upTo[Len(chars)]
  BY DEF Denotes, Horner
<1>2. ASSUME NEW n \in Nat, n < Len(chars)
      PROVE  f[n + 1] = f[n] * base + DigitValue[chars[n + 1]]
  <2>1. n \in 0..(Len(chars) - 1)
    BY <1>2
  <2>2. f[n] * base + DigitValue[chars[n + 1]] \in Int
    BY <1>2, NextValue
  <2> QED
    BY <2>1, <2>2 DEF Tabulates, Same
<1>3. ASSUME NEW n \in D
      PROVE  f[n] = value(n, f)
  <2>1. CASE n = 0
    BY <2>1 DEF Tabulates
  <2>2. CASE n # 0
    <3>1. n - 1 \in Nat /\ n - 1 < Len(chars) /\ (n - 1) + 1 = n
      BY <2>2
    <3> QED
      BY <1>2, <2>2, <3>1
  <2> QED
    BY <2>1, <2>2
<1> DEFINE h == [n \in D |-> f[n]]
<1>4. h = [n \in D |-> value(n, h)]
  <2>1. \A n \in D : n # 0 => n - 1 \in D
    OBVIOUS
  <2>2. \A n \in D : value(n, h) = value(n, f)
    BY <2>1
  <2> HIDE DEF value
  <2> QED
    BY <1>3, <2>2
<1> HIDE DEF h
<1>5. upTo = [n \in D |-> value(n, upTo)]
  BY <1>4
<1> HIDE DEF upTo
<1>6. ASSUME NEW n \in D
      PROVE  upTo[n] = f[n]
  <2>1. D \in SUBSET Nat
    OBVIOUS
  <2>2. AgreeOnward(upTo, f, D)
    <3> SUFFICES ASSUME NEW m \in D, \A l \in D : l < m => upTo[l] = f[l]
                 PROVE  upTo[m] = f[m]
      BY DEF AgreeOnward
    <3>1. m # 0 => m - 1 \in D /\ m - 1 < m
      OBVIOUS
    <3> QED
      BY <1>3, <1>5, <3>1
  <2> HIDE DEF D
  <2> QED
    BY ZenonT(40), <2>1, <2>2, SameThroughout
<1>7. Len(chars) \in D
  OBVIOUS
<1> QED
  BY <1>1, <1>6, <1>7

LEMMA WrappedIs ==
    ASSUME NEW base \in Nat, NEW chars \in Seq(HexDigits),
           NEW f \in [Nat -> Int], Tabulates(f, base, chars, Wrap)
    PROVE  Horner(base, chars, Wrapped) = f[Len(chars)]
<1> DEFINE value(n, g) ==
        IF n = 0 THEN 0 ELSE Wrapped(g[n - 1] * base + DigitValue[chars[n]])
           D == 0..Len(chars)
           upTo[n \in D] ==
        IF n = 0 THEN 0 ELSE Wrapped(upTo[n - 1] * base + DigitValue[chars[n]])
<1>1. Horner(base, chars, Wrapped) = upTo[Len(chars)]
  BY DEF Horner
<1>2. ASSUME NEW n \in Nat, n < Len(chars)
      PROVE  f[n + 1] = Wrapped(f[n] * base + DigitValue[chars[n + 1]])
  <2>1. n \in 0..(Len(chars) - 1)
    BY <1>2
  <2>2. f[n] * base + DigitValue[chars[n + 1]] \in Int
    BY <1>2, NextValue
  <2> QED
    BY <2>1, <2>2 DEF Tabulates, Wrap
<1>3. ASSUME NEW n \in D
      PROVE  f[n] = value(n, f)
  <2>1. CASE n = 0
    BY <2>1 DEF Tabulates
  <2>2. CASE n # 0
    <3>1. n - 1 \in Nat /\ n - 1 < Len(chars) /\ (n - 1) + 1 = n
      BY <2>2
    <3> QED
      BY <1>2, <2>2, <3>1
  <2> QED
    BY <2>1, <2>2
<1> DEFINE h == [n \in D |-> f[n]]
<1>4. h = [n \in D |-> value(n, h)]
  <2>1. \A n \in D : n # 0 => n - 1 \in D
    OBVIOUS
  <2>2. \A n \in D : value(n, h) = value(n, f)
    BY <2>1
  <2> HIDE DEF value
  <2> QED
    BY <1>3, <2>2
<1> HIDE DEF h
<1>5. upTo = [n \in D |-> value(n, upTo)]
  BY <1>4
<1> HIDE DEF upTo
<1>6. ASSUME NEW n \in D
      PROVE  upTo[n] = f[n]
  <2>1. D \in SUBSET Nat
    OBVIOUS
  <2>2. AgreeOnward(upTo, f, D)
    <3> SUFFICES ASSUME NEW m \in D, \A l \in D : l < m => upTo[l] = f[l]
                 PROVE  upTo[m] = f[m]
      BY DEF AgreeOnward
    <3>1. m # 0 => m - 1 \in D /\ m - 1 < m
      OBVIOUS
    <3> QED
      BY <1>3, <1>5, <3>1
  <2> HIDE DEF D
  <2> QED
    BY ZenonT(40), <2>1, <2>2, SameThroughout
<1>7. Len(chars) \in D
  OBVIOUS
<1> QED
  BY <1>1, <1>6, <1>7

LEMMA DenotesNat ==
    ASSUME NEW base \in Nat, NEW chars \in Seq(HexDigits)
    PROVE  /\ Denotes(base, chars) \in Nat
           /\ chars = <<>> => Denotes(base, chars) = 0
<1>1. PICK f \in [Nat -> Nat] : Tabulates(f, base, chars, Same)
  <2>1. \A v \in Nat, d \in 0..15 : v * base + d \in Nat /\ v * base + d \in Int
    OBVIOUS
  <2>2. \A v \in Nat, d \in 0..15 : Same[v * base + d] \in Nat
    BY <2>1 DEF Same
  <2>3. Nat \in SUBSET Int /\ 0 \in Nat
    OBVIOUS
  <2> QED
    BY <2>2, <2>3, TableExists
<1>2. f \in [Nat -> Int] /\ Len(chars) \in Nat
  OBVIOUS
<1>3. Denotes(base, chars) = f[Len(chars)]
  BY <1>1, <1>2, DenotesIs
<1>4. chars = <<>> => Len(chars) = 0
  OBVIOUS
<1> QED
  BY <1>1, <1>2, <1>3, <1>4 DEF Tabulates

LEMMA DenotesAppend ==
    ASSUME NEW base \in Nat, NEW chars \in Seq(HexDigits), NEW c \in HexDigits
    PROVE  Denotes(base, Append(chars, c)) = Denotes(base, chars) * base + DigitValue[c]
<1> DEFINE more == Append(chars, c)
<1>1. /\ more \in Seq(HexDigits) /\ Len(more) = Len(chars) + 1 /\ Len(chars) \in Nat
      /\ more[Len(chars) + 1] = c
      /\ \A n \in 1..Len(chars) : more[n] = chars[n]
  OBVIOUS
<1> HIDE DEF more
<1>2. PICK f \in [Nat -> Int] : Tabulates(f, base, more, Same)
  <2>1. \A v \in Int, d \in 0..15 : v * base + d \in Int
    OBVIOUS
  <2>2. \A v \in Int, d \in 0..15 : Same[v * base + d] \in Int
    BY <2>1 DEF Same
  <2>3. Int \in SUBSET Int /\ 0 \in Int
    OBVIOUS
  <2> QED
    BY <1>1, <2>2, <2>3, TableExists
<1>3. Tabulates(f, base, chars, Same)
  <2>1. \A n \in 0..(Len(chars) - 1) : n \in 0..(Len(more) - 1) /\ n + 1 \in 1..Len(chars)
    BY <1>1
  <2> QED
    BY <1>1, <1>2, <2>1 DEF Tabulates
<1>4. Denotes(base, chars) = f[Len(chars)] /\ Denotes(base, more) = f[Len(chars) + 1]
  BY <1>1, <1>2, <1>3, DenotesIs
<1>5. f[Len(chars) + 1] = Same[f[Len(chars)] * base + DigitValue[c]]
  <2>1. Len(chars) \in 0..(Len(more) - 1)
    BY <1>1
  <2> QED
    BY <1>1, <1>2, <2>1 DEF Tabulates
<1>6. f[Len(chars)] * base + DigitValue[c] \in Int
  <2>1. f[Len(chars)] \in Int /\ DigitValue[c] \in 0..15
    BY <1>1, DigitFacts
  <2>2. \A v \in Int, d \in 0..15 : v * base + d \in Int
    OBVIOUS
  <2> QED
    BY <2>1, <2>2
<1> QED
  BY <1>4, <1>5, <1>6 DEF more, Same

LEMMA DenotesConcat ==
    ASSUME NEW base \in Nat, NEW s \in Seq(HexDigits), NEW t \in Seq(HexDigits)
    PROVE  Denotes(base, s \o t)
              = Denotes(base, s) * Power(base, Len(t)) + Denotes(base, t)
<1> DEFINE T(n) == SubSeq(t, 1, n)
           Holds(n) == Denotes(base, s \o T(n))
                          = Denotes(base, s) * Power(base, n) + Denotes(base, T(n))
           S == {n \in Nat : n <= Len(t) => Holds(n)}
<1>1. 0 \in S
  <2>1. T(0) = <<>> /\ s \o T(0) = s /\ T(0) \in Seq(HexDigits)
    OBVIOUS
  <2> HIDE DEF T
  <2>2. Denotes(base, T(0)) = 0 /\ Power(base, 0) = 1 /\ Denotes(base, s) \in Nat
    BY <2>1, DenotesNat, PowerIs
  <2>3. \A x \in Nat : x = x * 1 + 0
    OBVIOUS
  <2> QED
    BY <2>1, <2>2, <2>3
<1>2. ASSUME NEW n \in Nat, n \in S
      PROVE  n + 1 \in S
  <2> SUFFICES ASSUME n + 1 <= Len(t)
               PROVE  Holds(n + 1)
    OBVIOUS
  <2>1. n < Len(t) /\ Holds(n)
    BY <1>2
  <2>2. /\ T(n) \in Seq(HexDigits) /\ t[n + 1] \in HexDigits
        /\ T(n + 1) = Append(T(n), t[n + 1])
    <3> HIDE DEF Holds
    <3>1. n < Len(t)
      BY <2>1
    <3> HIDE <2>1
    <3> QED
      BY <3>1, PrefixFacts
  <2> DEFINE c == t[n + 1]
             d == DigitValue[c]
             x == Denotes(base, s)
             y == Denotes(base, T(n))
             p == Power(base, n)
  <2>3. s \o T(n + 1) = Append(s \o T(n), c) /\ s \o T(n) \in Seq(HexDigits)
    BY <2>2
  <2> HIDE DEF T
  <2>4. Denotes(base, s \o T(n + 1)) = Denotes(base, s \o T(n)) * base + d
    BY <2>2, <2>3, DenotesAppend
  <2>5. Denotes(base, T(n + 1)) = y * base + d
    BY <2>2, DenotesAppend
  <2>6. Power(base, n + 1) = base * p /\ p \in Nat
    BY PowerIs
  <2>7. x \in Nat /\ y \in Nat /\ d \in Nat
    <3>1. d \in 0..15
      BY <2>2, DigitFacts
    <3>2. x \in Nat /\ y \in Nat
      BY <2>2, DenotesNat
    <3> HIDE DEF x, y, d
    <3> QED
      BY <3>1, <3>2
  <2>8. Denotes(base, s \o T(n + 1)) = (x * p + y) * base + d
    BY <2>1, <2>4
  <2>9. (x * p + y) * base + d = x * (base * p) + (y * base + d)
    <3> HIDE DEF x, y, p, d
    <3> QED
      BY <2>6, <2>7
  <2> QED
    BY <2>5, <2>6, <2>8, <2>9
<1>3. Nat \subseteq S
  <2> HIDE DEF S
  <2> QED
    BY <1>1, <1>2, SimpleInduction
<1>4. Len(t) \in Nat /\ T(Len(t)) = t
  OBVIOUS
<1>5. Holds(Len(t))
  BY <1>3, <1>4
<1> QED
  BY <1>4, <1>5

----------------------------------------------------------------------------
(* The digits of a number.                                                 *)

LEMMA TenthIsLess ==
    ASSUME NEW n \in Nat, n >= 10
    PROVE  /\ n \div 10 \in Nat \ {0} /\ n \div 10 < n
           /\ n % 10 \in 0..9
           /\ n = (n \div 10) * 10 + (n % 10)
  OBVIOUS

LEMMA DigitsOfIs ==
    \A n \in Nat :
        /\ DigitsOf(n) \in Seq(Digits)
        /\ n < 10 => DigitsOf(n) = <<DigitsInOrder[n + 1]>>
        /\ n >= 10 => DigitsOf(n) = Append(DigitsOf(n \div 10), DigitsInOrder[(n % 10) + 1])
<1> DEFINE value(m, f) == IF m < 10 THEN <<DigitsInOrder[m + 1]>>
                          ELSE Append(f[m \div 10], DigitsInOrder[(m % 10) + 1])
           of[m \in Nat] == IF m < 10 THEN <<DigitsInOrder[m + 1]>>
                            ELSE Append(of[m \div 10], DigitsInOrder[(m % 10) + 1])
           V == Seq(Digits)
           mu == [m \in Nat |-> m]
           G == [p \in Nat \X [Nat -> V] |-> value(p[1], p[2])]
<1>1. ASSUME NEW m \in Nat, NEW f \in [Nat -> V]
      PROVE  value(m, f) \in V
  <2>1. CASE m < 10
    <3> DEFINE c == DigitsInOrder[m + 1]
    <3>1. m \in 0..9
      BY <2>1
    <3>2. c \in Digits
      BY <3>1, DigitFacts
    <3>3. <<c>> \in Seq(Digits)
      <4> HIDE DEF c
      <4> QED
        BY <3>2
    <3> QED
      BY <2>1, <3>3
  <2>2. CASE ~(m < 10)
    <3> DEFINE c == DigitsInOrder[(m % 10) + 1]
    <3>1. m % 10 \in 0..9 /\ m \div 10 \in Nat
      BY <2>2, TenthIsLess
    <3>2. c \in Digits
      BY <3>1, DigitFacts
    <3>3. Append(f[m \div 10], c) \in Seq(Digits)
      <4> HIDE DEF c
      <4> QED
        BY <3>1, <3>2
    <3> QED
      BY <2>2, <3>3
  <2> QED
    BY <2>1, <2>2
<1>2. ASSUME NEW m \in Nat, NEW f, NEW g, \A l \in Nat : mu[l] < mu[m] => f[l] = g[l]
      PROVE  value(m, f) = value(m, g)
  <2>1. m >= 10 => m \div 10 \in Nat /\ mu[m \div 10] < mu[m]
    BY TenthIsLess
  <2> QED
    BY <1>2, <2>1
<1>3. mu \in [Nat -> Nat]
  OBVIOUS
<1> HIDE DEF value, mu
<1>4. /\ G \in [Nat \X [Nat -> V] -> V]
      /\ \A m \in Nat, f \in [Nat -> V] : G[<<m, f>>] = value(m, f)
  BY <1>1
<1> HIDE DEF G
<1>5. LooksDown(G, Nat, V, mu)
  <2> SUFFICES ASSUME NEW m \in Nat, NEW f \in [Nat -> V], NEW g \in [Nat -> V],
                      \A l \in Nat : mu[l] < mu[m] => f[l] = g[l]
               PROVE  G[<<m, f>>] = G[<<m, g>>]
    BY DEF LooksDown
  <2>1. value(m, f) = value(m, g)
    BY <1>2
  <2> QED
    BY <1>4, <2>1
<1>6. V # {}
  <2>1. <<>> \in Seq(Digits)
    OBVIOUS
  <2> QED
    BY <2>1
<1> HIDE DEF V
<1>7. PICK f \in [Nat -> V] : Solves(f, G, Nat)
  BY <1>3, <1>4, <1>5, <1>6, MeasuredRecursion
<1>8. f = [m \in Nat |-> value(m, f)]
  BY <1>4, <1>7 DEF Solves
<1>9. of = [m \in Nat |-> value(m, of)]
  BY <1>8 DEF value
<1>10. \A n : DigitsOf(n) = of[n]
  BY DEF DigitsOf
<1> HIDE DEF of
<1>11. AgreeOnward(of, f, Nat)
  <2> SUFFICES ASSUME NEW m \in Nat, \A l \in Nat : l < m => of[l] = f[l]
               PROVE  of[m] = f[m]
    BY DEF AgreeOnward
  <2>1. value(m, of) = value(m, f)
    BY <1>2 DEF mu
  <2> QED
    BY <1>8, <1>9, <2>1
<1>12. \A m \in Nat : of[m] = f[m]
  <2>1. Nat \in SUBSET Nat
    OBVIOUS
  <2> QED
    BY <1>11, <2>1, SameThroughout
<1>13. ASSUME NEW n \in Nat
       PROVE  /\ DigitsOf(n) \in Seq(Digits)
              /\ DigitsOf(n) = value(n, of)
  <2>1. of[n] = value(n, of) /\ of[n] = f[n] /\ f[n] \in V
    BY <1>9, <1>12
  <2> QED
    BY <1>10, <2>1 DEF V
<1>14. ASSUME NEW n \in Nat
       PROVE  /\ n < 10 => value(n, of) = <<DigitsInOrder[n + 1]>>
              /\ n >= 10 => value(n, of) = Append(DigitsOf(n \div 10), DigitsInOrder[(n % 10) + 1])
  BY <1>10 DEF value
<1> QED
  BY <1>13, <1>14

LEMMA DigitsDenote ==
    \A n \in Nat : /\ DigitsOf(n) \in Seq(Digits) /\ DigitsOf(n) # <<>>
                   /\ Denotes(10, DigitsOf(n)) = n
<1> DEFINE S == {n \in Nat : DigitsOf(n) # <<>> /\ Denotes(10, DigitsOf(n)) = n}
<1>1. ASSUME NEW n \in Nat, \A m \in Nat : m < n => m \in S
      PROVE  n \in S
  <2>0. Digits \subseteq HexDigits /\ 10 \in Nat
    BY DigitFacts
  <2>1. CASE n < 10
    <3> DEFINE c == DigitsInOrder[n + 1]
    <3>1. c \in Digits /\ DigitValue[c] = n
      <4>1. n \in 0..9
        BY <2>1
      <4> QED
        BY <4>1, DigitFacts
    <3>2. DigitsOf(n) = Append(<<>>, c) /\ DigitsOf(n) # <<>> /\ <<>> \in Seq(HexDigits)
      <4>1. DigitsOf(n) = <<c>>
        BY <2>1, DigitsOfIs
      <4> HIDE DEF c
      <4> QED
        BY <4>1
    <3>3. Denotes(10, <<>>) = 0
      BY <2>0, <3>2, DenotesNat
    <3>4. Denotes(10, Append(<<>>, c)) = Denotes(10, <<>>) * 10 + DigitValue[c]
      <4> HIDE DEF c
      <4> QED
        BY <2>0, <3>1, <3>2, DenotesAppend
    <3>5. Denotes(10, DigitsOf(n)) = 0 * 10 + n
      BY <3>1, <3>2, <3>3, <3>4
    <3> QED
      BY <3>2, <3>5
  <2>2. CASE n >= 10
    <3> DEFINE c == DigitsInOrder[(n % 10) + 1]
               m == n \div 10
    <3>1. m \in Nat /\ m < n /\ n % 10 \in 0..9 /\ n = m * 10 + (n % 10)
      BY <2>2, TenthIsLess
    <3>2. c \in Digits /\ DigitValue[c] = n % 10
      BY <3>1, DigitFacts
    <3>3. DigitsOf(n) = Append(DigitsOf(m), c) /\ DigitsOf(m) \in Seq(Digits)
      BY <2>2, <3>1, DigitsOfIs
    <3>4. DigitsOf(n) # <<>> /\ DigitsOf(m) \in Seq(HexDigits)
      BY <2>0, <3>3
    <3>5. Denotes(10, DigitsOf(m)) = m
      BY <1>1, <3>1
    <3>6. Denotes(10, Append(DigitsOf(m), c)) = Denotes(10, DigitsOf(m)) * 10 + DigitValue[c]
      <4> HIDE DEF c, m
      <4> QED
        BY <2>0, <3>2, <3>4, DenotesAppend
    <3> QED
      BY <3>1, <3>2, <3>3, <3>4, <3>5, <3>6
  <2> QED
    BY <2>1, <2>2
<1>2. Nat \subseteq S
  <2> HIDE DEF S
  <2> QED
    BY <1>1, StrongInduction
<1> QED
  BY <1>2, DigitsOfIs

----------------------------------------------------------------------------
(* Decimal numbers.                                                        *)

Decimals == [neg : BOOLEAN, coef : Nat, exp : Int]

\* As Decimal makes them: the coefficient is not a multiple of ten.
Stripped(d) == IF d.coef = 0 THEN d.exp = 0 ELSE d.coef % 10 # 0

DecimalValue(neg, exp, c, f) ==
    IF c % 10 = 0 THEN [f[c \div 10] EXCEPT !.exp = @ + 1]
    ELSE [neg |-> neg, coef |-> c, exp |-> exp]

LEMMA DecimalTable ==
    ASSUME NEW neg \in BOOLEAN, NEW exp \in Int
    PROVE  \E f \in [Nat \ {0} -> Decimals] :
              /\ \A c \in Nat \ {0} : f[c] = DecimalValue(neg, exp, c, f)
              /\ \A c \in Nat \ {0} : Decimal(neg, c, exp) = f[c]
<1> DEFINE D == Nat \ {0}
           V == Decimals
           plain[c \in Nat \ {0}] ==
              IF c % 10 = 0 THEN [plain[c \div 10] EXCEPT !.exp = @ + 1]
              ELSE [neg |-> neg, coef |-> c, exp |-> exp]
           mu == [c \in D |-> c]
           G == [p \in D \X [D -> V] |-> DecimalValue(neg, exp, p[1], p[2])]
<1>0. ASSUME NEW c \in D, c % 10 = 0
      PROVE  c \div 10 \in D /\ c \div 10 < c
  <2>1. c >= 10
    BY <1>0
  <2> QED
    BY <2>1, TenthIsLess
<1>1. ASSUME NEW c \in D, NEW f \in [D -> V]
      PROVE  DecimalValue(neg, exp, c, f) \in V
  <2>1. CASE c % 10 = 0
    <3>1. f[c \div 10] \in Decimals
      BY <1>0, <2>1
    <3>2. \A d \in Decimals : [d EXCEPT !.exp = @ + 1] \in Decimals
      BY DEF Decimals
    <3> QED
      BY <2>1, <3>1, <3>2 DEF DecimalValue
  <2>2. CASE c % 10 # 0
    BY <2>2 DEF DecimalValue, Decimals
  <2> QED
    BY <2>1, <2>2
<1>2. ASSUME NEW c \in D, NEW f, NEW g, \A l \in D : l < c => f[l] = g[l]
      PROVE  DecimalValue(neg, exp, c, f) = DecimalValue(neg, exp, c, g)
  BY <1>0, <1>2 DEF DecimalValue
<1>3. mu \in [D -> Nat] /\ \A c \in D : mu[c] = c
  OBVIOUS
<1> HIDE DEF mu
<1>4. /\ G \in [D \X [D -> V] -> V]
      /\ \A c \in D, f \in [D -> V] : G[<<c, f>>] = DecimalValue(neg, exp, c, f)
  <2> HIDE DEF D, V
  <2> QED
    BY <1>1
<1> HIDE DEF G
<1>5. LooksDown(G, D, V, mu)
  <2> SUFFICES ASSUME NEW c \in D, NEW f \in [D -> V], NEW g \in [D -> V],
                      \A l \in D : mu[l] < mu[c] => f[l] = g[l]
               PROVE  G[<<c, f>>] = G[<<c, g>>]
    BY DEF LooksDown
  <2>1. DecimalValue(neg, exp, c, f) = DecimalValue(neg, exp, c, g)
    BY <1>2, <1>3
  <2> QED
    BY <1>4, <2>1
<1>6. V # {}
  <2>1. [neg |-> TRUE, coef |-> 0, exp |-> 0] \in V
    BY DEF Decimals
  <2> QED
    BY <2>1
<1>7. PICK f \in [D -> V] : Solves(f, G, D)
  <2> HIDE DEF D, V
  <2> QED
    BY <1>3, <1>4, <1>5, <1>6, MeasuredRecursion
<1>8. \A c \in D : f[c] = DecimalValue(neg, exp, c, f)
  BY <1>4, <1>7 DEF Solves
<1>9. f = [c \in D |-> DecimalValue(neg, exp, c, f)]
  <2> HIDE DEF D
  <2> QED
    BY <1>8
<1>10. plain = [c \in D |-> DecimalValue(neg, exp, c, plain)]
  BY <1>9 DEF DecimalValue
<1>11. \A c \in D : Decimal(neg, c, exp) = plain[c]
  BY DEF Decimal
<1> HIDE DEF plain
<1>12. AgreeOnward(plain, f, D)
  <2> SUFFICES ASSUME NEW c \in D, \A l \in D : l < c => plain[l] = f[l]
               PROVE  plain[c] = f[c]
    BY DEF AgreeOnward
  <2>1. DecimalValue(neg, exp, c, plain) = DecimalValue(neg, exp, c, f)
    BY <1>2
  <2>2. plain[c] = DecimalValue(neg, exp, c, plain)
    <3> HIDE DEF D
    <3> QED
      BY <1>10
  <2> QED
    BY <1>8, <2>1, <2>2
<1>13. \A c \in D : plain[c] = f[c]
  <2>1. D \in SUBSET Nat
    OBVIOUS
  <2> HIDE DEF D
  <2> QED
    BY <1>12, <2>1, SameThroughout
<1> QED
  BY <1>8, <1>11, <1>13

LEMMA DecimalIs ==
    ASSUME NEW neg \in BOOLEAN, NEW coef \in Nat, NEW exp \in Int
    PROVE  /\ Decimal(neg, coef, exp) \in Decimals
           /\ Stripped(Decimal(neg, coef, exp))
           /\ Decimal(neg, coef, exp).neg = neg
           /\ coef % 10 # 0 => Decimal(neg, coef, exp) = [neg |-> neg, coef |-> coef, exp |-> exp]
           /\ coef = 0 => Decimal(neg, coef, exp) = [neg |-> neg, coef |-> 0, exp |-> 0]
           /\ Decimal(neg, coef * 10, exp) = Decimal(neg, coef, exp + 1)
<1> DEFINE D == Nat \ {0}
<1>1. PICK f \in [D -> Decimals] :
              /\ \A c \in D : f[c] = DecimalValue(neg, exp, c, f)
              /\ \A c \in D : Decimal(neg, c, exp) = f[c]
  BY DecimalTable
<1>2. PICK g \in [D -> Decimals] :
              /\ \A c \in D : g[c] = DecimalValue(neg, exp + 1, c, g)
              /\ \A c \in D : Decimal(neg, c, exp + 1) = g[c]
  BY DecimalTable
<1>3. ASSUME NEW c \in D, c % 10 = 0
      PROVE  c \div 10 \in D /\ c \div 10 < c
  <2>1. c >= 10
    BY <1>3
  <2> QED
    BY <2>1, TenthIsLess
<1> DEFINE S == {c \in Nat : c # 0 => /\ Stripped(f[c]) /\ f[c].neg = neg /\ f[c].coef # 0
                                      /\ g[c] = [f[c] EXCEPT !.exp = @ + 1]}
<1>4. ASSUME NEW c \in Nat, \A l \in Nat : l < c => l \in S
      PROVE  c \in S
  <2> SUFFICES ASSUME c # 0
               PROVE  c \in S
    OBVIOUS
  <2>1. f[c] = DecimalValue(neg, exp, c, f) /\ g[c] = DecimalValue(neg, exp + 1, c, g)
    BY <1>1, <1>2
  <2>2. CASE c % 10 = 0
    <3> DEFINE l == c \div 10
    <3>1. l \in D /\ l < c
      BY <1>3, <2>2
    <3>2. f[c] = [f[l] EXCEPT !.exp = @ + 1] /\ g[c] = [g[l] EXCEPT !.exp = @ + 1]
      BY <2>1, <2>2 DEF DecimalValue
    <3> HIDE DEF l
    <3>3. l \in S /\ f[l] \in Decimals
      BY <1>1, <1>4, <3>1
    <3> QED
      BY <3>1, <3>2, <3>3 DEF Stripped, Decimals
  <2>3. CASE c % 10 # 0
    BY <2>1, <2>3 DEF DecimalValue, Stripped
  <2> QED
    BY <2>2, <2>3
<1>5. Nat \subseteq S
  <2> HIDE DEF S
  <2> QED
    BY <1>4, StrongInduction
<1>6. CASE coef = 0
  <2>1. coef * 10 = 0 /\ coef % 10 = 0
    BY <1>6
  <2> QED
    BY <1>6, <2>1 DEF Decimal, Decimals, Stripped
<1>7. CASE coef # 0
  <2>1. coef \in D /\ coef * 10 \in D /\ (coef * 10) % 10 = 0 /\ (coef * 10) \div 10 = coef
    BY <1>7
  <2>2. coef \in S
    BY <1>5
  <2>3. Decimal(neg, coef, exp) = f[coef] /\ f[coef] = DecimalValue(neg, exp, coef, f)
    BY <1>1, <2>1
  <2>4. Decimal(neg, coef * 10, exp) = f[coef * 10]
        /\ f[coef * 10] = DecimalValue(neg, exp, coef * 10, f)
    BY <1>1, <2>1
  <2>5. f[coef * 10] = [f[coef] EXCEPT !.exp = @ + 1]
    BY <2>1, <2>4 DEF DecimalValue
  <2>6. Decimal(neg, coef * 10, exp) = Decimal(neg, coef, exp + 1)
    BY <1>2, <1>7, <2>1, <2>2, <2>4, <2>5
  <2>7. f[coef] \in Decimals /\ Stripped(f[coef]) /\ f[coef].neg = neg
    BY <1>1, <1>7, <2>1, <2>2
  <2>8. coef % 10 # 0 => f[coef] = [neg |-> neg, coef |-> coef, exp |-> exp]
    BY <2>3 DEF DecimalValue
  <2> QED
    BY <1>7, <2>3, <2>6, <2>7, <2>8
<1> QED
  BY <1>6, <1>7

LEMMA DecimalShift ==
    ASSUME NEW neg \in BOOLEAN, NEW coef \in Nat
    PROVE  \A k \in Nat : \A exp \in Int :
              Decimal(neg, coef * Power(10, k), exp) = Decimal(neg, coef, exp + k)
<1> DEFINE Holds(k) == \A exp \in Int :
              Decimal(neg, coef * Power(10, k), exp) = Decimal(neg, coef, exp + k)
           S == {k \in Nat : Holds(k)}
<1>1. 0 \in S
  BY PowerIs
<1>2. ASSUME NEW k \in Nat, k \in S
      PROVE  k + 1 \in S
  <2> DEFINE p == Power(10, k)
  <2> SUFFICES ASSUME NEW exp \in Int
               PROVE  Decimal(neg, coef * Power(10, k + 1), exp) = Decimal(neg, coef, exp + (k + 1))
    OBVIOUS
  <2>1. p \in Nat /\ Power(10, k + 1) = 10 * p
    BY PowerIs
  <2>2. Decimal(neg, coef * p, exp + 1) = Decimal(neg, coef, (exp + 1) + k)
    BY <1>2
  <2> HIDE DEF p
  <2>3. coef * p \in Nat /\ coef * (10 * p) = (coef * p) * 10
    BY <2>1
  <2>4. Decimal(neg, (coef * p) * 10, exp) = Decimal(neg, coef * p, exp + 1)
    BY <2>3, DecimalIs
  <2>5. (exp + 1) + k = exp + (k + 1)
    OBVIOUS
  <2> QED
    BY <2>1, <2>2, <2>3, <2>4, <2>5
<1>3. Nat \subseteq S
  <2> HIDE DEF S
  <2> QED
    BY <1>1, <1>2, SimpleInduction
<1> QED
  BY <1>3

----------------------------------------------------------------------------
(* Runs of characters.                                                     *)

LEMMA MinIs ==
    ASSUME NEW T \in SUBSET Nat, T # {}
    PROVE  Min(T) \in T /\ \A n \in T : Min(T) <= n
<1>1. \E n \in T : \A m \in T : n <= m
  BY LeastElement
<1> QED
  BY <1>1 DEF Min

LEMMA RunEndFacts ==
    ASSUME NEW S, NEW s \in Seq(S), NEW i \in 1..(Len(s) + 1), NEW C, "EOF" \notin C
    PROVE  /\ RunEnd(s, i, C) \in i..(Len(s) + 1)
           /\ Char(s, RunEnd(s, i, C)) \notin C
           /\ \A k \in i..(RunEnd(s, i, C) - 1) : k \in 1..Len(s) /\ s[k] \in C
<1> DEFINE T == {j \in i..(Len(s) + 1) : Char(s, j) \notin C}
<1>1. Len(s) \in Nat /\ DOMAIN s = 1..Len(s)
  OBVIOUS
<1>2. Len(s) + 1 \in T
  BY <1>1 DEF Char
<1>3. T \in SUBSET Nat
  BY <1>1
<1>4. Min(T) \in T /\ \A n \in T : Min(T) <= n
  BY <1>2, <1>3, MinIs
<1>5. RunEnd(s, i, C) = Min(T)
  BY DEF RunEnd
<1>6. ASSUME NEW k \in i..(Min(T) - 1)
      PROVE  k \in 1..Len(s) /\ s[k] \in C
  <2>1. Min(T) \in i..(Len(s) + 1)
    BY <1>4
  <2>2. k \in i..(Len(s) + 1) /\ k < Min(T) /\ k \in 1..Len(s)
    BY <1>1, <2>1
  <2>3. k \notin T
    BY <1>3, <1>4, <2>1, <2>2
  <2>4. Char(s, k) \in C /\ Char(s, k) = s[k]
    BY <1>1, <2>2, <2>3 DEF Char
  <2> QED
    BY <2>2, <2>4
<1> QED
  BY <1>4, <1>5, <1>6

LEMMA RunEndIs ==
    ASSUME NEW S, NEW s \in Seq(S), NEW i \in 1..(Len(s) + 1), NEW C,
           NEW e \in i..(Len(s) + 1), \A k \in i..(e - 1) : s[k] \in C,
           Char(s, e) \notin C
    PROVE  RunEnd(s, i, C) = e
<1> DEFINE T == {j \in i..(Len(s) + 1) : Char(s, j) \notin C}
<1>1. Len(s) \in Nat /\ DOMAIN s = 1..Len(s)
  OBVIOUS
<1>2. e \in T /\ T \in SUBSET Nat
  BY <1>1
<1>3. Min(T) \in T /\ Min(T) <= e
  BY <1>2, MinIs
<1>4. ASSUME Min(T) < e
      PROVE  FALSE
  <2>1. Min(T) \in i..(Len(s) + 1)
    BY <1>3
  <2>2. Min(T) \in i..(e - 1) /\ Min(T) \in 1..Len(s)
    BY <1>1, <1>4, <2>1
  <2>3. Char(s, Min(T)) = s[Min(T)]
    BY <1>1, <2>2 DEF Char
  <2> QED
    BY <1>3, <2>2, <2>3
<1>5. Min(T) \in Nat /\ e \in Nat
  BY <1>2, <1>3
<1>6. RunEnd(s, i, C) = Min(T)
  BY DEF RunEnd
<1> QED
  BY <1>3, <1>4, <1>5, <1>6

----------------------------------------------------------------------------
(* The parts of a floating point number.                                   *)

Signs == {<<>>, <<"-">>, <<"+">>}

LEMMA SignedIs ==
    ASSUME NEW S, NEW sign \in Signs, NEW u \in Seq(S), u = <<>> \/ u[1] \notin {"-", "+"}
    PROVE  /\ Unsigned(sign \o u) = u
           /\ Negative(sign \o u) <=> sign = <<"-">>
           /\ Signed(sign \o u) <=> sign # <<>>
<1>1. CASE sign = <<>>
  BY <1>1 DEF Unsigned, Signed, Negative
<1>2. CASE sign = <<"-">>
  <2>1. Head(sign \o u) = "-" /\ Tail(sign \o u) = u /\ sign \o u # <<>>
    BY <1>2
  <2> QED
    BY <1>2, <2>1 DEF Unsigned, Signed, Negative
<1>3. CASE sign = <<"+">>
  <2>1. Head(sign \o u) = "+" /\ Tail(sign \o u) = u /\ sign \o u # <<>>
    BY <1>3
  <2> QED
    BY <1>3, <2>1 DEF Unsigned, Signed, Negative
<1> QED
  BY <1>1, <1>2, <1>3 DEF Signs

\* A number as a sign, the digits before the point, the point if there is one,
\* and the digits after it; and as a text that goes on.
Written(sign, whole, dot, fraction) ==
    /\ sign \in Signs
    /\ whole \in Seq(Digits) /\ whole # <<>>
    /\ dot \in {<<>>, <<".">>}
    /\ fraction \in Seq(Digits)
    /\ dot = <<>> => fraction = <<>>

NumberText(sign, whole, dot, fraction, rest) ==
    sign \o (whole \o (dot \o (fraction \o rest)))

LEMMA PartsIs ==
    ASSUME NEW sign, NEW whole, NEW dot, NEW fraction,
           Written(sign, whole, dot, fraction),
           NEW S, "." \in S, Digits \subseteq S,
           NEW rest \in Seq(S), rest = <<>> \/ rest[1] \notin Digits \cup {"."}
    PROVE  /\ Parts(NumberText(sign, whole, dot, fraction, rest))
                 = [whole |-> whole, fraction |-> fraction, rest |-> rest]
           /\ Negative(NumberText(sign, whole, dot, fraction, rest)) <=> sign = <<"-">>
<1> USE DEF Written, NumberText
<1> DEFINE t == dot \o (fraction \o rest)
           u == whole \o t
           a == Len(whole)
           n == Len(fraction)
<1>0. a \in Nat \ {0} /\ n \in Nat /\ "EOF" \notin Digits /\ "." \notin Digits
      /\ \A c \in Digits : c \notin {"-", "+"}
  BY DEF Digits
<1>1. fraction \o rest \in Seq(S)
  OBVIOUS
<1>2. t \in Seq(S) /\ Len(t) \in Nat
  <2> DEFINE x == fraction \o rest
  <2>1. dot \in Seq(S)
    <3> HIDE DEF x
    <3>1. <<>> \in Seq(S)
      OBVIOUS
    <3>2. \A c \in S : <<c>> \in Seq(S)
      OBVIOUS
    <3> QED
      BY <3>1, <3>2
  <2> HIDE DEF x
  <2> QED
    BY <1>1, <2>1
<1>3. /\ u \in Seq(S) /\ Len(u) = a + Len(t)
      /\ \A k \in 1..a : u[k] = whole[k] /\ u[k] \in Digits
      /\ \A k \in 1..Len(t) : u[a + k] = t[k]
      /\ u # <<>> /\ u[1] \notin {"-", "+"}
  <2> HIDE DEF t
  <2>1. whole \in Seq(S)
    OBVIOUS
  <2>2. u \in Seq(S) /\ Len(u) = a + Len(t)
    BY <1>2, <2>1
  <2>3. \A k \in 1..a : u[k] = whole[k] /\ u[k] \in Digits
    BY <1>2, <2>1
  <2>4. \A k \in 1..Len(t) : u[a + k] = t[k]
    BY <1>2, <2>1
  <2>5. u # <<>> /\ u[1] \in Digits
    BY <1>0, <2>2, <2>3, <1>2
  <2> QED
    BY <1>0, <2>2, <2>3, <2>4, <2>5
<1>4. Unsigned(sign \o u) = u /\ (Negative(sign \o u) <=> sign = <<"-">>)
  <2> HIDE DEF u
  <2> QED
    BY <1>3, SignedIs
<1>5. Char(u, a + 1) = IF t = <<>> THEN "EOF" ELSE t[1]
  <2> HIDE DEF t, u, a
  <2> QED
    BY <1>0, <1>2, <1>3 DEF Char
<1>6. t = <<>> \/ t[1] = "." \/ (t = rest /\ t[1] \notin Digits \cup {"."})
  <2>1. CASE dot = <<".">>
    <3>1. t[1] = "."
      BY <1>1, <2>1
    <3> QED
      BY <3>1
  <2>2. CASE dot = <<>>
    <3>1. t = rest
      BY <2>2
    <3> HIDE DEF t
    <3> QED
      BY <3>1
  <2> QED
    BY <2>1, <2>2
<1>7. RunEnd(u, 1, Digits) = a + 1
  <2> HIDE DEF t, u, a
  <2>1. Char(u, a + 1) \notin Digits
    BY <1>0, <1>5, <1>6
  <2>2. 1 \in 1..(Len(u) + 1) /\ a + 1 \in 1..(Len(u) + 1)
    BY <1>0, <1>2, <1>3
  <2>3. \A k \in 1..((a + 1) - 1) : u[k] \in Digits
    BY <1>0, <1>3
  <2> QED
    BY <1>3, <2>1, <2>2, <2>3, RunEndIs
<1>8. SubSeq(u, 1, (a + 1) - 1) = whole
  <2> HIDE DEF t
  <2> QED
    BY <1>0, <1>2
<1>9. CASE dot = <<".">>
  <2>1. /\ Len(t) = 1 + n + Len(rest) /\ t[1] = "." /\ Len(rest) \in Nat
        /\ \A k \in 1..n : t[1 + k] = fraction[k] /\ t[1 + k] \in Digits
        /\ rest # <<>> => t[1 + n + 1] = rest[1]
    BY <1>9
  <2>2. Char(u, a + 1) = "."
    <3> HIDE DEF u, t
    <3>1. t # <<>>
      BY <2>1, <1>0
    <3> QED
      BY <1>5, <2>1, <3>1
  <2> DEFINE e == a + 1 + n + 1
  <2>3. RunEnd(u, (a + 1) + 1, Digits) = e
    <3> HIDE DEF t, u, a, n
    <3>1. \A k \in ((a + 1) + 1)..(e - 1) : u[k] \in Digits
      <4> SUFFICES ASSUME NEW k \in ((a + 1) + 1)..(e - 1)
                   PROVE  u[k] \in Digits
        OBVIOUS
      <4> DEFINE l == k - a - 1
      <4>1. l \in 1..n /\ 1 + l \in 1..Len(t) /\ k = a + (1 + l)
        BY <1>0, <2>1
      <4>2. t[1 + l] \in Digits
        BY <2>1, <4>1
      <4> HIDE DEF l
      <4> QED
        BY <1>3, <4>1, <4>2
    <3>2. Char(u, e) \notin Digits
      <4>1. CASE rest = <<>>
        <5>1. Len(rest) = 0
          BY <4>1
        <5>2. e \notin 1..Len(u)
          BY <1>0, <1>3, <2>1, <5>1
        <5> QED
          BY <1>0, <1>3, <5>2 DEF Char
      <4>2. CASE rest # <<>>
        <5>1. Len(rest) > 0
          BY <4>2
        <5>2. 1 + n + 1 \in 1..Len(t) /\ e = a + (1 + n + 1) /\ e \in 1..Len(u)
          BY <1>0, <1>3, <2>1, <5>1
        <5>3. u[e] = rest[1]
          BY <1>3, <2>1, <4>2, <5>2
        <5> QED
          BY <1>3, <4>2, <5>2, <5>3 DEF Char
      <4> QED
        BY <4>1, <4>2
    <3>3. (a + 1) + 1 \in 1..(Len(u) + 1) /\ e \in ((a + 1) + 1)..(Len(u) + 1)
      BY <1>0, <1>3, <2>1
    <3> HIDE DEF e
    <3> QED
      BY <1>3, <3>1, <3>2, <3>3, RunEndIs
  <2>4. SubSeq(u, (a + 1) + 1, e - 1) = fraction
    BY <1>9, <1>0
  <2>5. SubSeq(u, e, Len(u)) = rest
    BY <1>9, <1>0
  <2>6. Parts(sign \o u) = [whole |-> whole, fraction |-> fraction, rest |-> rest]
    <3> HIDE DEF t, u, a, n, e
    <3> QED
      BY <1>4, <1>7, <1>8, <2>2, <2>3, <2>4, <2>5 DEF Parts
  <2> QED
    BY <1>4, <2>6
<1>10. CASE dot = <<>>
  <2>1. t = rest /\ fraction = <<>>
    BY <1>10
  <2>2. Char(u, a + 1) # "."
    <3> HIDE DEF u, t
    <3>1. "." # "EOF"
      OBVIOUS
    <3> QED
      BY <1>5, <2>1, <3>1
  <2>3. SubSeq(u, a + 1, Len(u)) = rest
    <3> HIDE DEF t
    <3> QED
      BY <2>1, <1>0
  <2>4. Parts(sign \o u) = [whole |-> whole, fraction |-> fraction, rest |-> rest]
    <3> HIDE DEF t, u, a, n
    <3> QED
      BY <1>4, <1>7, <1>8, <2>1, <2>2, <2>3 DEF Parts
  <2> QED
    BY <1>4, <2>4
<1> QED
  BY <1>9, <1>10

----------------------------------------------------------------------------
(* Reading numbers.                                                        *)

LEMMA IntOfIs ==
    ASSUME NEW sign \in Signs, NEW u \in Seq(Digits)
    PROVE  /\ IntOf(sign \o u) = IF sign = <<"-">> THEN -Denotes(10, u) ELSE Denotes(10, u)
           /\ Denotes(10, u) \in Nat
           /\ IsInt(sign \o u) <=> u # <<>>
           /\ Negative(sign \o u) <=> sign = <<"-">>
           /\ Unsigned(sign \o u) = u
<1>1. u = <<>> \/ u[1] \notin {"-", "+"}
  <2>1. \A c \in Digits : c \notin {"-", "+"}
    BY DEF Digits
  <2>2. u = <<>> \/ u[1] \in Digits
    OBVIOUS
  <2> QED
    BY <2>1, <2>2
<1>2. /\ Unsigned(sign \o u) = u
      /\ Negative(sign \o u) <=> sign = <<"-">>
  BY <1>1, SignedIs
<1>3. IntOf(sign \o u) = IF sign = <<"-">> THEN -Denotes(10, u) ELSE Denotes(10, u)
  BY <1>2 DEF IntOf, Denotes
<1>4. u \in Seq(HexDigits) /\ 10 \in Nat
  BY DigitFacts
<1>5. Denotes(10, u) \in Nat
  BY <1>4, DenotesNat
<1>6. AllIn(u, Digits)
  BY DEF AllIn
<1>7. IsInt(sign \o u) <=> u # <<>>
  BY <1>2, <1>6 DEF IsInt
<1> QED
  BY <1>2, <1>3, <1>5, <1>7

LEMMA IntPartIs ==
    ASSUME NEW sign \in Signs, NEW u \in Seq(Digits)
    PROVE  IntPart(sign \o u) = sign \o u
<1> DEFINE s == sign \o u
           S == Digits \cup {"-", "+"}
           i == IF Signed(s) THEN 2 ELSE 1
<1>0. "EOF" \notin Digits /\ \A c \in Digits : c \notin {"-", "+"}
  BY DEF Digits
<1>1. u = <<>> \/ u[1] \notin {"-", "+"}
  <2>1. u = <<>> \/ u[1] \in Digits
    OBVIOUS
  <2> QED
    BY <1>0, <2>1
<1>2. Signed(s) <=> sign # <<>>
  BY <1>1, SignedIs
<1>3. /\ s \in Seq(S)
      /\ i \in 1..(Len(s) + 1)
      /\ \A k \in i..((Len(s) + 1) - 1) : s[k] \in Digits
  <2>1. CASE sign = <<>>
    <3>1. s = u /\ i = 1
      BY <1>2, <2>1
    <3> QED
      BY <3>1
  <2>2. CASE sign # <<>>
    <3>1. PICK c \in S : sign = <<c>>
      BY <2>2 DEF Signs
    <3>2. s = <<c>> \o u /\ i = 2
      BY <1>2, <2>2, <3>1
    <3>3. s \in Seq(S) /\ Len(s) = 1 + Len(u) /\ \A k \in 1..Len(u) : s[1 + k] = u[k]
      <4>1. u \in Seq(S)
        OBVIOUS
      <4> HIDE DEF S, s
      <4> QED
        BY <3>2, <4>1
    <3>4. ASSUME NEW k \in 2..Len(s)
          PROVE  s[k] \in Digits
      <4>1. k - 1 \in 1..Len(u) /\ 1 + (k - 1) = k
        BY <3>3
      <4> QED
        BY <3>3, <4>1
    <3> HIDE DEF s
    <3> QED
      BY <3>2, <3>3, <3>4
  <2> QED
    BY <2>1, <2>2
<1> HIDE DEF s, S, i
<1>4. Len(s) \in Nat /\ DOMAIN s = 1..Len(s)
  BY <1>3
<1>5. Char(s, Len(s) + 1) \notin Digits /\ Len(s) + 1 \in i..(Len(s) + 1)
  BY <1>0, <1>3, <1>4 DEF Char
<1>6. RunEnd(s, i, Digits) = Len(s) + 1
  BY <1>3, <1>5, RunEndIs
<1>7. SubSeq(s, 1, (Len(s) + 1) - 1) = s
  BY <1>3
<1> QED
  BY <1>6, <1>7 DEF IntPart, i, s

\* What may be in a number.
NumberChars == Digits \cup {".", "e", "-", "+"}

LEMMA TrimmedIs ==
    ASSUME NEW S, NEW s \in Seq(S), s # <<>>, s[1] \notin Blanks
    PROVE  Trimmed(s) = s
<1>1. Len(s) \in Nat \ {0} /\ 1 \in 1..(Len(s) + 1) /\ DOMAIN s = 1..Len(s)
  OBVIOUS
<1>2. RunEnd(s, 1, Blanks) = 1
  <2>1. Char(s, 1) \notin Blanks
    BY <1>1 DEF Char
  <2>2. \A k \in 1..(1 - 1) : s[k] \in Blanks
    OBVIOUS
  <2> QED
    BY <1>1, <2>1, <2>2, RunEndIs
<1> QED
  BY <1>2 DEF Trimmed

\* The exponent of a number, if there is one, and what it says.
Exponent(rest, x) ==
    \/ rest = <<>> /\ x = 0
    \/ \E sign \in {<<"-">>, <<"+">>}, u \in Seq(Digits) \ {<<>>} :
          rest = <<"e">> \o (sign \o u) /\ x = IntOf(sign \o u)

\* A number's text, and what it is read as.
Reads(number, neg, coef, exp) ==
    \E sign, whole, dot, fraction, rest :
        /\ number = NumberText(sign, whole, dot, fraction, rest)
        /\ Written(sign, whole, dot, fraction)
        /\ neg \in BOOLEAN /\ neg = (sign = <<"-">>)
        /\ coef = Denotes(10, whole \o fraction)
        /\ rest \in Seq(NumberChars) /\ Exponent(rest, exp + Len(fraction))
        /\ exp \in Int

LEMMA ReadDoubleIs ==
    ASSUME NEW number, NEW neg, NEW coef, NEW exp, Reads(number, neg, coef, exp)
    PROVE  ReadDouble(number) = Read(TRUE, Decimal(neg, coef, exp))
<1>0a. PICK sign, whole, dot, fraction, rest :
          /\ number = NumberText(sign, whole, dot, fraction, rest)
          /\ Written(sign, whole, dot, fraction)
          /\ neg \in BOOLEAN /\ neg = (sign = <<"-">>)
          /\ coef = Denotes(10, whole \o fraction)
          /\ rest \in Seq(NumberChars) /\ Exponent(rest, exp + Len(fraction))
          /\ exp \in Int
  BY DEF Reads
<1> DEFINE x == exp + Len(fraction)
<1>a. Written(sign, whole, dot, fraction) /\ rest \in Seq(NumberChars)
  BY <1>0a
<1>b. Exponent(rest, x) /\ neg \in BOOLEAN /\ neg = (sign = <<"-">>)
  BY <1>0a
<1>c. coef = Denotes(10, whole \o fraction)
  BY <1>0a
<1>d. exp = x - Len(fraction)
  <2>1. Len(fraction) \in Nat /\ exp \in Int
    BY <1>0a DEF Written
  <2> QED
    BY <2>1
<1> HIDE DEF x
<1> DEFINE s == NumberText(sign, whole, dot, fraction, rest)
           S == NumberChars
<1>0. /\ "." \in S /\ Digits \subseteq S /\ "e" \notin Digits \cup {"."}
      /\ "EOF" \notin {"e", "E"} /\ "e" \in {"e", "E"}
      /\ \A c \in S : c \notin Blanks
  BY DEF NumberChars, Digits, Blanks
<1>1. /\ s \in Seq(S) /\ s # <<>>
  <2> USE <1>a DEF Written, NumberText
  <2> DEFINE y == fraction \o rest
             z == dot \o y
             w == whole \o z
  <2>1. y \in Seq(S)
    BY <1>0
  <2>2. dot \in Seq(S) /\ sign \in Seq(S)
    <3>1. <<>> \in Seq(S) /\ \A c \in S : <<c>> \in Seq(S)
      OBVIOUS
    <3>2. "-" \in S /\ "+" \in S
      BY DEF NumberChars
    <3> QED
      BY <1>0, <3>1, <3>2 DEF Signs
  <2> HIDE DEF y
  <2>3. z \in Seq(S)
    BY <2>1, <2>2
  <2> HIDE DEF z
  <2>4. w \in Seq(S) /\ w # <<>>
    BY <1>0, <2>3
  <2>5. s = sign \o w
    BY DEF z, y
  <2> HIDE DEF w, s
  <2> QED
    BY <2>2, <2>4, <2>5
<1>2. rest = <<>> \/ rest[1] = "e"
  BY <1>a, <1>b DEF Exponent
<1>3. /\ Parts(s) = [whole |-> whole, fraction |-> fraction, rest |-> rest]
      /\ Negative(s) <=> sign = <<"-">>
  <2>1. rest = <<>> \/ rest[1] \notin Digits \cup {"."}
    BY <1>0, <1>2
  <2>2. rest \in Seq(S)
    BY <1>a
  <2>3. "." \in S /\ Digits \subseteq S
    BY <1>0
  <2> HIDE DEF S
  <2> QED
    BY <1>a, <2>1, <2>2, <2>3, PartsIs
<1> HIDE DEF s, S
<1>4. Trimmed(s) = s
  <2>1. s[1] \in S
    BY <1>1
  <2> QED
    BY <1>0, <1>1, <2>1, TrimmedIs
<1> DEFINE sci == Char(rest, 1) \in {"e", "E"}
           exponent == IF sci THEN IntPart(Tail(rest)) ELSE <<>>
           length == IF sci THEN 1 + Len(exponent) ELSE 0
<1>5. whole \o fraction # <<>> /\ whole \o fraction \in Seq(Digits)
  BY <1>a DEF Written
<1>6. /\ sci => IsInt(exponent)
      /\ Len(rest) = length
      /\ IntOf(exponent) = x
  <2>1. CASE rest = <<>> /\ x = 0
    <3>1. ~sci
      BY <1>0, <2>1 DEF Char
    <3>2. IntOf(<<>> \o <<>>) = Denotes(10, <<>>) /\ <<>> \o <<>> = <<>>
      <4>1. <<>> \in Signs /\ <<>> \in Seq(Digits) /\ <<>> # <<"-">>
        BY DEF Signs
      <4>2. <<>> \o <<>> = <<>>
        OBVIOUS
      <4> QED
        BY <4>1, <4>2, IntOfIs
    <3>3. Denotes(10, <<>>) = 0
      <4>1. <<>> \in Seq(HexDigits) /\ 10 \in Nat
        OBVIOUS
      <4> QED
        BY <4>1, DenotesNat
    <3> QED
      BY <2>1, <3>1, <3>2, <3>3
  <2>2. ASSUME NEW es \in {<<"-">>, <<"+">>}, NEW u \in Seq(Digits) \ {<<>>},
               rest = <<"e">> \o (es \o u), x = IntOf(es \o u)
        PROVE  /\ sci => IsInt(exponent)
               /\ Len(rest) = length
               /\ IntOf(exponent) = x
    <3> DEFINE v == es \o u
    <3>1. es \in Signs
      BY DEF Signs
    <3>2. IntPart(v) = v /\ IsInt(v)
      BY <3>1, IntPartIs, IntOfIs
    <3>3. v \in Seq(Digits \cup {"-", "+"})
      <4>1. es \in Seq({"-", "+"})
        <5>1. \A c \in {"-", "+"} : <<c>> \in Seq({"-", "+"})
          OBVIOUS
        <5> QED
          BY <5>1
      <4> QED
        BY <4>1
    <3>4. rest[1] = "e" /\ Tail(rest) = v /\ Len(rest) = 1 + Len(v) /\ 1 \in DOMAIN rest
      <4> HIDE DEF v
      <4>1. rest = <<"e">> \o v
        BY <2>2 DEF v
      <4> QED
        BY <3>3, <4>1
    <3>5. sci
      BY <1>0, <3>4 DEF Char
    <3> HIDE DEF v, sci
    <3>6. exponent = v
      BY <3>2, <3>4, <3>5
    <3> QED
      BY <2>2, <3>2, <3>4, <3>5, <3>6 DEF v
  <2> QED
    BY <1>b, <2>1, <2>2 DEF Exponent
<1>7. IntOf(whole \o fraction) = Denotes(10, whole \o fraction)
  <2> DEFINE w == whole \o fraction
  <2>1. <<>> \in Signs /\ <<>> \o w = w /\ <<>> # <<"-">>
    BY <1>5 DEF Signs
  <2> HIDE DEF w
  <2>2. w \in Seq(Digits)
    BY <1>5 DEF w
  <2>3. IntOf(<<>> \o w) = Denotes(10, w)
    BY <2>1, <2>2, IntOfIs
  <2> QED
    BY <2>1, <2>3 DEF w
<1>8. ReadDouble(s) = Read(Len(rest) = length,
                           DecimalOf(Negative(s), Parts(s), IntOf(exponent)))
  <2>1. s # <<>>
    BY <1>1
  <2>2. Parts(s).whole \o Parts(s).fraction # <<>>
    BY <1>3, <1>5
  <2>3. Parts(s).rest = rest
    BY <1>3
  <2> QED
    BY <1>4, <1>6, <2>1, <2>2, <2>3 DEF ReadDouble, DoubleRead
<1>9. DecimalOf(Negative(s), Parts(s), x)
         = Decimal(neg, coef, exp)
  <2>1. Negative(s) = neg
    <3>1. Negative(s) \in BOOLEAN
      BY DEF Negative
    <3> QED
      BY <1>b, <1>3, <3>1
  <2> QED
    BY <1>c, <1>d, <1>3, <1>7, <2>1 DEF DecimalOf
<1>10. (Len(rest) = length) = TRUE
  BY <1>6
<1> QED
  BY <1>0a, <1>6, <1>8, <1>9, <1>10 DEF s

----------------------------------------------------------------------------
(* The texts of numbers.                                                   *)

LEMMA ZerosIs ==
    ASSUME NEW n \in Int
    PROVE  /\ Zeros(n) \in Seq(Digits)
           /\ Denotes(10, Zeros(n)) = 0
           /\ Len(Zeros(n)) = IF n > 0 THEN n ELSE 0
           /\ n <= 0 => Zeros(n) = <<>>
<1>0. "0" \in Digits /\ Digits \subseteq HexDigits /\ 10 \in Nat
  BY DigitFacts DEF Digits
<1>1. \A m \in Nat : Zeros(m) \in Seq(Digits) /\ Len(Zeros(m)) = m
  BY <1>0 DEF Zeros
<1>2. \A m \in Int : m <= 0 => Zeros(m) = <<>>
  BY DEF Zeros
<1> DEFINE S == {m \in Nat : Denotes(10, Zeros(m)) = 0}
<1>3. 0 \in S
  <2>1. Zeros(0) = <<>> /\ <<>> \in Seq(HexDigits)
    BY <1>2
  <2> QED
    BY <1>0, <2>1, DenotesNat
<1>4. ASSUME NEW m \in Nat, m \in S
      PROVE  m + 1 \in S
  <2>1. Zeros(m + 1) = Append(Zeros(m), "0")
    BY DEF Zeros
  <2>2. Zeros(m) \in Seq(HexDigits) /\ "0" \in HexDigits
    BY <1>0, <1>1
  <2>3. Denotes(10, Append(Zeros(m), "0")) = Denotes(10, Zeros(m)) * 10 + DigitValue["0"]
    BY <1>0, <2>2, DenotesAppend
  <2>4. DigitValue["0"] = 0
    <3>1. DigitsInOrder[0 + 1] = "0" /\ 0 \in 0..9
      BY DEF DigitsInOrder
    <3> QED
      BY <3>1, DigitFacts
  <2>5. Denotes(10, Zeros(m + 1)) = 0 * 10 + 0
    BY <1>4, <2>1, <2>3, <2>4
  <2> QED
    BY <2>5
<1>5. Nat \subseteq S
  <2> HIDE DEF S
  <2> QED
    BY <1>3, <1>4, SimpleInduction
<1>6. CASE n > 0
  <2>1. n \in Nat
    BY <1>6
  <2> QED
    BY <1>1, <1>5, <1>6, <2>1
<1>7. CASE n <= 0
  <2>1. Zeros(n) = <<>> /\ Zeros(0) = <<>> /\ Denotes(10, Zeros(0)) = 0
    BY <1>2, <1>3, <1>7
  <2> QED
    BY <1>7, <2>1
<1> QED
  BY <1>6, <1>7

LEMMA ManyZeros ==
    ASSUME NEW n \in Nat
    PROVE  /\ Zeros(n) \in Seq(Digits) /\ Zeros(n) \in Seq(HexDigits)
           /\ Denotes(10, Zeros(n)) = 0 /\ Len(Zeros(n)) = n
<1>1. n \in Int /\ (n > 0 \/ n = 0) /\ Digits \subseteq HexDigits
  BY DigitFacts
<1>2. Zeros(n) \in Seq(Digits) /\ Denotes(10, Zeros(n)) = 0 /\ Len(Zeros(n)) = n
  BY <1>1, ZerosIs
<1> QED
  BY <1>1, <1>2

LEMMA OneZero == Zeros(1) = <<"0">>
  BY DEF Zeros

\* What Pointed makes of digits is a number, times a power of ten.
PointedAs(digits, n, whole, dot, fraction) ==
    /\ \A sign \in Signs : Written(sign, whole, dot, fraction)
    /\ Pointed(digits, n) = whole \o (dot \o fraction)
    /\ \A neg \in BOOLEAN, x \in Int :
          Decimal(neg, Denotes(10, whole \o fraction), x - Len(fraction))
             = Decimal(neg, Denotes(10, digits), x + n - Len(digits))

LEMMA PointedIs ==
    ASSUME NEW digits \in Seq(Digits), digits # <<>>, NEW n \in Int
    PROVE  \E whole, dot, fraction : PointedAs(digits, n, whole, dot, fraction)
<1> DEFINE len == Len(digits)
           value == Denotes(10, digits)
<1>0. /\ len \in Nat \ {0} /\ Digits \subseteq HexDigits /\ 10 \in Nat
      /\ digits \in Seq(HexDigits) /\ value \in Nat
  <2>1. Digits \subseteq HexDigits
    BY DigitFacts
  <2> QED
    BY <2>1, DenotesNat
<1>1. CASE n >= len
  <2> DEFINE z == Zeros(n - len)
             whole == digits \o z
  <2>1. z \in Seq(Digits) /\ z \in Seq(HexDigits) /\ Denotes(10, z) = 0 /\ Len(z) = n - len
        /\ n - len \in Nat
    <3>1. n - len \in Nat
      BY <1>0, <1>1
    <3> QED
      BY <3>1, ManyZeros
  <2>2. Denotes(10, whole) = value * Power(10, n - len)
    <3> DEFINE p == Power(10, n - len)
    <3>1. Denotes(10, whole) = value * p + 0
      BY <1>0, <2>1, DenotesConcat
    <3>2. p \in Nat
      BY <2>1, PowerIs
    <3> HIDE DEF p, value
    <3>3. value * p + 0 = value * p
      BY <1>0, <3>2
    <3> QED
      BY <3>1, <3>3 DEF p
  <2>3. \A sign \in Signs : Written(sign, whole, <<>>, <<>>)
    <3> HIDE DEF z
    <3> QED
      BY <2>1, <1>0 DEF Written
  <2>4. Pointed(digits, n) = whole \o (<<>> \o <<>>) /\ whole \o <<>> = whole
    <3>1. Pointed(digits, n) = whole
      BY <1>1 DEF Pointed
    <3> HIDE DEF z
    <3> QED
      BY <2>1, <3>1
  <2>5. ASSUME NEW neg \in BOOLEAN, NEW x \in Int
        PROVE  Decimal(neg, Denotes(10, whole \o <<>>), x - Len(<<>>))
                  = Decimal(neg, value, x + n - len)
    <3>1. Decimal(neg, value * Power(10, n - len), x) = Decimal(neg, value, x + (n - len))
      <4> HIDE DEF value, len
      <4> QED
        BY <1>0, <2>1, DecimalShift
    <3>2. x - Len(<<>>) = x /\ x + (n - len) = x + n - len
      BY <1>0
    <3> HIDE DEF whole, value, len
    <3> QED
      BY <2>2, <2>4, <3>1, <3>2
  <2>6. PointedAs(digits, n, whole, <<>>, <<>>)
    BY <2>3, <2>4, <2>5 DEF PointedAs
  <2> QED
    BY <2>6
<1>2. CASE n < len /\ n <= 0
  <2> DEFINE z == Zeros(-n)
             fraction == z \o digits
  <2>1. z \in Seq(Digits) /\ z \in Seq(HexDigits) /\ Denotes(10, z) = 0 /\ Len(z) = -n
        /\ -n \in Nat
    <3>1. -n \in Nat
      BY <1>2
    <3> QED
      BY <3>1, ManyZeros
  <2>2. /\ <<"0">> \in Seq(Digits) /\ <<"0">> \in Seq(HexDigits)
        /\ fraction \in Seq(Digits) /\ fraction \in Seq(HexDigits)
        /\ Len(fraction) = -n + len
    <3>1. <<"0">> \in Seq(Digits) /\ <<"0">> \in Seq(HexDigits)
      <4>1. 1 \in Nat
        OBVIOUS
      <4> QED
        BY <4>1, ManyZeros, OneZero
    <3> HIDE DEF z
    <3> QED
      BY <1>0, <2>1, <3>1
  <2>3. Denotes(10, <<"0">> \o fraction) = value
    <3> DEFINE p == Power(10, Len(fraction))
               q == Power(10, Len(digits))
    <3>1. Denotes(10, <<"0">>) = 0
      <4>1. 1 \in Nat
        OBVIOUS
      <4> QED
        BY <4>1, ManyZeros, OneZero
    <3>2. Denotes(10, <<"0">> \o fraction) = 0 * p + Denotes(10, fraction)
      <4> HIDE DEF fraction
      <4>1. Denotes(10, <<"0">> \o fraction)
               = Denotes(10, <<"0">>) * Power(10, Len(fraction)) + Denotes(10, fraction)
        BY <1>0, <2>2, DenotesConcat
      <4> QED
        BY <3>1, <4>1
    <3>3. Denotes(10, fraction) = 0 * q + value
      BY <1>0, <2>1, DenotesConcat
    <3>4. p \in Nat /\ q \in Nat
      <4>1. Len(fraction) \in Nat /\ Len(digits) \in Nat
        BY <1>0, <2>2
      <4> QED
        BY <4>1, PowerIs
    <3> HIDE DEF p, q, value, fraction
    <3> QED
      BY <1>0, <3>2, <3>3, <3>4
  <2>4. \A sign \in Signs : Written(sign, <<"0">>, <<".">>, fraction)
    <3> HIDE DEF fraction
    <3> QED
      BY <2>2 DEF Written
  <2>5. Pointed(digits, n) = <<"0">> \o (<<".">> \o fraction)
    <3>1. Pointed(digits, n) = <<"0", ".">> \o z \o digits
      BY <1>2 DEF Pointed
    <3>2. <<"0", ".">> = <<"0">> \o <<".">>
      OBVIOUS
    <3> DEFINE S == Digits \cup {"."}
    <3>3. <<"0">> \in Seq(S) /\ <<".">> \in Seq(S) /\ z \in Seq(S) /\ digits \in Seq(S)
          /\ fraction \in Seq(S)
      <4>1. Digits \subseteq S
        OBVIOUS
      <4>2. <<".">> \in Seq(S)
        OBVIOUS
      <4> HIDE DEF S, fraction, z
      <4> QED
        BY <2>1, <2>2, <4>1, <4>2
    <3> HIDE DEF S, z
    <3>4. (<<"0">> \o <<".">>) \o z \in Seq(S) /\ <<"0">> \o <<".">> \in Seq(S)
      BY <3>3
    <3>5. ((<<"0">> \o <<".">>) \o z) \o digits = (<<"0">> \o <<".">>) \o (z \o digits)
      BY <3>3, <3>4, ConcatAssociative
    <3>6. (<<"0">> \o <<".">>) \o fraction = <<"0">> \o (<<".">> \o fraction)
      <4> HIDE DEF fraction
      <4> QED
        BY <3>3, ConcatAssociative
    <3> QED
      BY <3>1, <3>2, <3>5, <3>6
  <2>6. ASSUME NEW neg \in BOOLEAN, NEW x \in Int
        PROVE  Decimal(neg, Denotes(10, <<"0">> \o fraction), x - Len(fraction))
                  = Decimal(neg, value, x + n - len)
    <3>1. x - Len(fraction) = x + n - len
      <4> HIDE DEF fraction, len
      <4> QED
        BY <1>0, <2>2
    <3> HIDE DEF fraction, value, len
    <3> QED
      BY <2>3, <3>1
  <2>7. PointedAs(digits, n, <<"0">>, <<".">>, fraction)
    BY <2>4, <2>5, <2>6 DEF PointedAs
  <2> QED
    BY <2>7
<1>3. CASE n < len /\ n > 0
  <2> DEFINE whole == SubSeq(digits, 1, n)
             fraction == SubSeq(digits, n + 1, Len(digits))
  <2>1. /\ whole \in Seq(Digits) /\ whole # <<>> /\ fraction \in Seq(Digits)
        /\ whole \o fraction = digits /\ Len(fraction) = len - n
    <3>1. /\ 1 \in 1..(Len(digits) + 1) /\ n \in 0..Len(digits)
          /\ Len(digits) \in n..Len(digits)
          /\ n \in (1 - 1)..Len(digits) /\ n \in Int /\ n + 1 \in Int
      BY <1>0, <1>3
    <3>2. SubSeq(digits, 1, n) \o SubSeq(digits, n + 1, Len(digits)) = digits
      BY <3>1, ConcatAdjacentSubSeq, SubSeqFull
    <3>3. whole \in Seq(Digits) /\ Len(whole) = n
      BY <1>0, <1>3
    <3>4. fraction \in Seq(Digits) /\ Len(fraction) = len - n
      <4>1. \A i \in (n + 1)..Len(digits) : digits[i] \in Digits
        BY <1>3
      <4>2. /\ fraction \in Seq(Digits)
            /\ Len(fraction) = IF n + 1 <= Len(digits) THEN Len(digits) - (n + 1) + 1 ELSE 0
        BY <1>0, <4>1, <3>1, SubSeqProperties
      <4> HIDE DEF fraction
      <4> QED
        BY <1>0, <1>3, <4>2
    <3>5. whole # <<>>
      <4> HIDE DEF whole
      <4> QED
        BY <1>3, <3>3
    <3> QED
      BY <3>2, <3>3, <3>4, <3>5
  <2>2. \A sign \in Signs : Written(sign, whole, <<".">>, fraction)
    BY <2>1 DEF Written
  <2>3. Pointed(digits, n) = whole \o (<<".">> \o fraction)
    <3>1. Pointed(digits, n) = (whole \o <<".">>) \o fraction
      <4>1. ~(n >= Len(digits)) /\ ~(n <= 0)
        BY <1>0, <1>3
      <4> QED
        BY <4>1 DEF Pointed
    <3> DEFINE S == Digits \cup {"."}
    <3>2. <<".">> \in Seq(S) /\ whole \in Seq(S) /\ fraction \in Seq(S)
      <4>1. Digits \subseteq S
        OBVIOUS
      <4>2. <<".">> \in Seq(S)
        OBVIOUS
      <4> HIDE DEF S, fraction, whole
      <4> QED
        BY <2>1, <4>1, <4>2
    <3> HIDE DEF S, whole, fraction
    <3> QED
      BY <3>1, <3>2, ConcatAssociative
  <2>4. ASSUME NEW neg \in BOOLEAN, NEW x \in Int
        PROVE  Decimal(neg, Denotes(10, whole \o fraction), x - Len(fraction))
                  = Decimal(neg, value, x + n - len)
    <3>1. x - Len(fraction) = x + n - len
      <4> HIDE DEF fraction, len
      <4> QED
        BY <1>0, <2>1
    <3> QED
      BY <2>1, <3>1
  <2>5. PointedAs(digits, n, whole, <<".">>, fraction)
    BY <2>2, <2>3, <2>4 DEF PointedAs
  <2> QED
    BY <2>5
<1> QED
  BY <1>0, <1>1, <1>2, <1>3

LEMMA StrippedIsDecimal ==
    ASSUME NEW d \in Decimals, Stripped(d)
    PROVE  Decimal(d.neg, d.coef, d.exp) = d
<1>1. d = [neg |-> d.neg, coef |-> d.coef, exp |-> d.exp]
      /\ d.neg \in BOOLEAN /\ d.coef \in Nat /\ d.exp \in Int
  BY DEF Decimals
<1>2. CASE d.coef = 0
  BY <1>1, <1>2, DecimalIs DEF Stripped
<1>3. CASE d.coef # 0
  BY <1>1, <1>3, DecimalIs DEF Stripped
<1> QED
  BY <1>2, <1>3

LEMMA DigitsLength ==
    ASSUME NEW n \in Nat
    PROVE  Len(DigitsOf(n)) \in Nat \ {0}
  BY DigitsDenote

LEMMA RoundedIs ==
    ASSUME NEW d \in Decimals, Stripped(d)
    PROVE  /\ Rounded(d) \in Decimals
           /\ Stripped(Rounded(d))
           /\ Rounded(d).neg = d.neg
           /\ ~(Spread(d) > 0) => Rounded(d) = d
<1> DEFINE excess == Len(DigitsOf(d.coef)) - Precision
           p == Power(10, excess)
           kept == d.coef \div p
<1>1. d.neg \in BOOLEAN /\ d.coef \in Nat /\ d.exp \in Int
  BY DEF Decimals
<1>2. excess \in Int /\ excess = Spread(d)
  BY <1>1, DigitsLength, ValuesAssumption DEF Spread
<1>3. CASE excess <= 0
  <2>1. Rounded(d) = d
    BY <1>3 DEF Rounded
  <2> QED
    BY <2>1
<1>4. CASE ~(excess <= 0)
  <2>1. excess \in Nat
    BY <1>2, <1>4
  <2>2. p \in Nat /\ p # 0
    <3> HIDE DEF excess
    <3> QED
      BY <2>1, PowerIs, PowerPositive
  <2>3. kept \in Nat
    <3> HIDE DEF p
    <3> QED
      BY <1>1, <2>2
  <2>4. PICK n \in {kept, kept + 1} : Rounded(d) = Decimal(d.neg, n, d.exp + excess)
    BY <1>4 DEF Rounded
  <2>5. n \in Nat /\ d.exp + excess \in Int
    BY <1>1, <1>2, <2>3
  <2> HIDE DEF excess
  <2>6. /\ Decimal(d.neg, n, d.exp + excess) \in Decimals
        /\ Stripped(Decimal(d.neg, n, d.exp + excess))
        /\ Decimal(d.neg, n, d.exp + excess).neg = d.neg
    BY <1>1, <2>5, DecimalIs
  <2> QED
    BY <1>2, <1>4, <2>4, <2>6
<1> QED
  BY <1>3, <1>4

LEMMA ExponentIs ==
    ASSUME NEW x \in Int
    PROVE  ExponentText(x) \in Seq(NumberChars) /\ Exponent(ExponentText(x), x)
<1> DEFINE m == IF x < 0 THEN -x ELSE x
           z == Zeros(2 - Len(DigitsOf(m)))
           u == z \o DigitsOf(m)
           sign == IF x < 0 THEN <<"-">> ELSE <<"+">>
<1>1. m \in Nat
  OBVIOUS
<1>2. /\ DigitsOf(m) \in Seq(Digits) /\ DigitsOf(m) # <<>>
      /\ Denotes(10, DigitsOf(m)) = m /\ Len(DigitsOf(m)) \in Nat
  <2> HIDE DEF m
  <2> QED
    BY <1>1, DigitsDenote, DigitsLength
<1>3. z \in Seq(Digits) /\ Denotes(10, z) = 0
  <2>1. 2 - Len(DigitsOf(m)) \in Int
    BY <1>2
  <2> QED
    BY <2>1, ZerosIs
<1>4. u \in Seq(Digits) /\ u # <<>>
  <2> HIDE DEF z, m
  <2> QED
    BY <1>2, <1>3
<1>5. Denotes(10, u) = m
  <2> DEFINE p == Power(10, Len(DigitsOf(m)))
  <2> HIDE DEF z, m
  <2>1. Digits \subseteq HexDigits /\ 10 \in Nat
    BY DigitFacts
  <2>2. Denotes(10, u) = Denotes(10, z) * p + Denotes(10, DigitsOf(m))
    <3>1. z \in Seq(HexDigits) /\ DigitsOf(m) \in Seq(HexDigits)
      BY <1>2, <1>3, <2>1
    <3> QED
      BY <2>1, <3>1, DenotesConcat
  <2>3. p \in Nat
    BY <1>2, PowerIs
  <2> HIDE DEF p
  <2> QED
    BY <1>1, <1>2, <1>3, <2>2, <2>3
<1>6. sign \in {<<"-">>, <<"+">>} /\ sign \in Signs
  BY DEF Signs
<1>7. IntOf(sign \o u) = x
  <2>1. IntOf(sign \o u) = IF sign = <<"-">> THEN -Denotes(10, u) ELSE Denotes(10, u)
    <3> HIDE DEF u, sign
    <3> QED
      BY <1>4, <1>6, IntOfIs
  <2> HIDE DEF u
  <2>2. CASE x < 0
    BY <1>5, <2>1, <2>2
  <2>3. CASE ~(x < 0)
    BY <1>5, <2>1, <2>3
  <2> QED
    BY <2>2, <2>3
<1>8. ExponentText(x) = <<"e">> \o (sign \o u)
  <2> DEFINE S == NumberChars
  <2>1. /\ <<"e">> \in Seq(S) /\ sign \in Seq(S) /\ z \in Seq(S)
        /\ DigitsOf(m) \in Seq(S)
    <3>1. Digits \subseteq S /\ "e" \in S /\ "-" \in S /\ "+" \in S
      BY DEF NumberChars
    <3> HIDE DEF S, z, m
    <3>2. \A c \in S : <<c>> \in Seq(S)
      OBVIOUS
    <3> QED
      BY <1>2, <1>3, <1>6, <3>1, <3>2
  <2>2. ExponentText(x) = (<<"e", IF x < 0 THEN "-" ELSE "+">> \o z) \o DigitsOf(m)
    BY DEF ExponentText
  <2>3. <<"e", IF x < 0 THEN "-" ELSE "+">> = <<"e">> \o sign
    OBVIOUS
  <2> HIDE DEF S, z, m, sign
  <2>4. <<"e">> \o sign \in Seq(S) /\ sign \o z \in Seq(S)
    BY <2>1
  <2>5. ((<<"e">> \o sign) \o z) \o DigitsOf(m) = (<<"e">> \o sign) \o (z \o DigitsOf(m))
    BY <2>1, <2>4, ConcatAssociative
  <2>6. z \o DigitsOf(m) \in Seq(S)
    BY <2>1
  <2>7. (<<"e">> \o sign) \o (z \o DigitsOf(m)) = <<"e">> \o (sign \o (z \o DigitsOf(m)))
    BY <2>1, <2>6, ConcatAssociative
  <2> QED
    BY <2>2, <2>3, <2>5, <2>7
<1>9. Exponent(ExponentText(x), x)
  <2>1. u \in Seq(Digits) \ {<<>>}
    BY <1>4
  <2> HIDE DEF u, sign
  <2> QED
    BY <1>6, <1>7, <1>8, <2>1 DEF Exponent
<1>10. ExponentText(x) \in Seq(NumberChars)
  <2>1. Digits \subseteq NumberChars /\ "e" \in NumberChars /\ "-" \in NumberChars
        /\ "+" \in NumberChars
    BY DEF NumberChars
  <2>2. \A c \in NumberChars : <<c>> \in Seq(NumberChars)
    OBVIOUS
  <2> HIDE DEF u, sign
  <2>3. u \in Seq(NumberChars) /\ sign \in Seq(NumberChars)
    <3>1. u \in Seq(NumberChars)
      BY <1>4, <2>1, SeqMonotonic
    <3>2. <<"-">> \in Seq(NumberChars) /\ <<"+">> \in Seq(NumberChars)
      BY <2>1, <2>2
    <3>3. sign = <<"-">> \/ sign = <<"+">>
      BY <1>6
    <3> QED
      BY <3>1, <3>2, <3>3
  <2>4. <<"e">> \in Seq(NumberChars) /\ sign \o u \in Seq(NumberChars)
    BY <2>1, <2>2, <2>3
  <2> QED
    BY <1>8, <2>4
<1> QED
  BY <1>9, <1>10

LEMMA MinusIs ==
    ASSUME NEW neg \in BOOLEAN
    PROVE  /\ Minus(neg) \in Signs
           /\ (Minus(neg) = <<"-">>) = neg
  BY DEF Minus, Signs

\* What a double's text says: the double rounded to the digits it has.
LEMMA DoubleTextIs ==
    ASSUME NEW d \in Decimals, Stripped(d)
    PROVE  \E neg, coef, exp : /\ Reads(DoubleText(d), neg, coef, exp)
                              /\ Decimal(neg, coef, exp) = Rounded(d)
<1> DEFINE r == Rounded(d)
           digits == DigitsOf(r.coef)
           len == Len(digits)
           x == len - 1 + r.exp
           sci == x < -4 \/ x >= Precision
           n == IF sci THEN 1 ELSE x + 1
           y == IF sci THEN x ELSE 0
           rest == IF sci THEN ExponentText(x) ELSE <<>>
           sign == Minus(d.neg)
<1>1. r \in Decimals /\ Stripped(r) /\ r.neg = d.neg
  BY RoundedIs
<1>2. r.neg \in BOOLEAN /\ r.coef \in Nat /\ r.exp \in Int
  <2> HIDE DEF r
  <2> QED
    BY <1>1 DEF Decimals
<1> HIDE DEF r
<1>3. digits \in Seq(Digits) /\ digits # <<>> /\ Denotes(10, digits) = r.coef /\ len \in Nat
  BY <1>2, DigitsDenote, DigitsLength
<1>4. x \in Int /\ n \in Int /\ y \in Int /\ y + n - len = r.exp
  <2> HIDE DEF digits, sci
  <2>1. len \in Int /\ x \in Int
    BY <1>2, <1>3
  <2> QED
    BY <1>2, <2>1
<1>5. PICK whole, dot, fraction : PointedAs(digits, n, whole, dot, fraction)
  <2> HIDE DEF digits, n
  <2> QED
    BY <1>3, <1>4, PointedIs
<1>6. sign \in Signs /\ (sign = <<"-">>) = r.neg
  <2>1. d.neg \in BOOLEAN
    BY <1>1, <1>2
  <2> QED
    BY <1>1, <2>1, MinusIs
<1>7. Written(sign, whole, dot, fraction) /\ Pointed(digits, n) = whole \o (dot \o fraction)
  BY <1>5, <1>6 DEF PointedAs
<1>8. Decimal(r.neg, Denotes(10, whole \o fraction), y - Len(fraction)) = r
  <2>1. Decimal(r.neg, Denotes(10, whole \o fraction), y - Len(fraction))
           = Decimal(r.neg, Denotes(10, digits), y + n - Len(digits))
    <3> HIDE DEF digits, n, y
    <3> QED
      BY <1>2, <1>4, <1>5 DEF PointedAs
  <2>2. Decimal(r.neg, r.coef, r.exp) = r
    BY <1>1, StrippedIsDecimal
  <2> QED
    BY <1>3, <1>4, <2>1, <2>2
<1>9. rest \in Seq(NumberChars) /\ Exponent(rest, y)
  <2>1. CASE sci
    <3> HIDE DEF x
    <3> QED
      BY <1>4, <2>1, ExponentIs
  <2>2. CASE ~sci
    <3>1. <<>> \in Seq(NumberChars)
      OBVIOUS
    <3> HIDE DEF x, sci
    <3> QED
      BY <2>2, <3>1 DEF Exponent
  <2> QED
    BY <2>1, <2>2
<1> HIDE DEF n, y
<1>10. DoubleText(d) = NumberText(sign, whole, dot, fraction, rest)
  <2> DEFINE S == NumberChars
             w == Pointed(digits, n)
  <2>1. /\ whole \in Seq(S) /\ dot \in Seq(S) /\ fraction \in Seq(S)
        /\ rest \in Seq(S)
    <3>1. Digits \subseteq S /\ "." \in S
      BY DEF NumberChars
    <3>2. \A c \in S : <<c>> \in Seq(S)
      OBVIOUS
    <3>3. <<>> \in Seq(S) /\ rest \in Seq(S)
      BY <1>9
    <3> HIDE DEF S, rest, sign, digits, n
    <3>4. whole \in Seq(Digits) /\ fraction \in Seq(Digits)
          /\ (dot = <<>> \/ dot = <<".">>)
      BY <1>7 DEF Written
    <3>5. whole \in Seq(S) /\ fraction \in Seq(S)
      BY <3>1, <3>4, SeqMonotonic
    <3>6. dot \in Seq(S)
      BY <3>1, <3>2, <3>3, <3>4
    <3> QED
      BY <3>3, <3>5, <3>6
  <2>2. DoubleText(d) = sign \o (w \o rest)
    <3>1. CASE sci
      <4>1. DoubleText(d) = sign \o (Pointed(digits, 1) \o ExponentText(x))
        BY <3>1 DEF DoubleText, r
      <4> QED
        BY <3>1, <4>1 DEF n
    <3>2. CASE ~sci
      <4>1. DoubleText(d) = sign \o Pointed(digits, x + 1)
        BY <3>2 DEF DoubleText, r
      <4>2. w \o <<>> = w
        <5>1. w \in Seq(S)
          <6> HIDE DEF S
          <6>1. dot \o fraction \in Seq(S)
            BY <2>1
          <6> DEFINE v == dot \o fraction
          <6> HIDE DEF v
          <6>2. v \in Seq(S) /\ w = whole \o v
            BY <1>7, <6>1 DEF v
          <6> HIDE DEF w
          <6> QED
            BY <2>1, <6>2
        <5> HIDE DEF w, S
        <5> QED
          BY <5>1
      <4>3. n = x + 1 /\ rest = <<>>
        <5> HIDE DEF x
        <5> QED
          BY <3>2 DEF n
      <4> QED
        BY <4>1, <4>2, <4>3
    <3> QED
      BY <3>1, <3>2
  <2> HIDE DEF S, rest, sign
  <2>3. dot \o fraction \in Seq(S)
    BY <2>1
  <2>4. (whole \o (dot \o fraction)) \o rest = whole \o ((dot \o fraction) \o rest)
    <3> DEFINE v == dot \o fraction
    <3>1. v \in Seq(S)
      BY <2>3
    <3> HIDE DEF v
    <3>2. (whole \o v) \o rest = whole \o (v \o rest)
      BY SMTT(30), <2>1, <3>1, ConcatAssociative
    <3> QED
      BY <3>2 DEF v
  <2>5. (dot \o fraction) \o rest = dot \o (fraction \o rest)
    BY <2>1, ConcatAssociative
  <2> QED
    BY <1>7, <2>2, <2>4, <2>5 DEF NumberText
<1> HIDE DEF rest, sign
<1> DEFINE exp == y - Len(fraction)
           coef == Denotes(10, whole \o fraction)
           neg == r.neg
           number == NumberText(sign, whole, dot, fraction, rest)
<1>11. exp + Len(fraction) = y /\ exp \in Int
  <2>1. Len(fraction) \in Nat
    BY <1>7 DEF Written
  <2> QED
    BY <1>4, <2>1
<1> HIDE DEF exp
<1>12. Reads(number, neg, coef, exp)
  BY <1>2, <1>6, <1>7, <1>9, <1>11 DEF Reads
<1>13. Decimal(neg, coef, exp) = r
  BY <1>8 DEF exp
<1> HIDE DEF neg, coef, number, r
<1>14. DoubleText(d) = number
  BY <1>10 DEF number
<1> QED
  BY <1>12, <1>13, <1>14 DEF r

(***************************************************************************)
(* A double that is printed and read again is the double rounded to the    *)
(* digits that are printed.                                                *)
(***************************************************************************)
LEMMA DoubleReadBack ==
    ASSUME NEW d \in Decimals, Stripped(d)
    PROVE  ReadDouble(DoubleText(d)) = Read(TRUE, Rounded(d))
<1>1. PICK neg, coef, exp : /\ Reads(DoubleText(d), neg, coef, exp)
                            /\ Decimal(neg, coef, exp) = Rounded(d)
  BY DoubleTextIs
<1> QED
  BY <1>1, ReadDoubleIs

----------------------------------------------------------------------------
(* White space and comments.                                               *)

LEMMA CharFacts ==
    ASSUME NEW S, NEW s \in Seq(S), NEW i \in Nat
    PROVE  /\ Len(s) \in Nat
           /\ i \notin 1..Len(s) => Char(s, i) = "EOF"
           /\ i \in 1..Len(s) => Char(s, i) = s[i] /\ s[i] \in S
<1>1. Len(s) \in Nat /\ DOMAIN s = 1..Len(s)
  OBVIOUS
<1> QED
  BY <1>1 DEF Char

LEMMA BlockEntryIs ==
    ASSUME NEW s, NEW j \in Nat, NEW after \in [Nat -> [Nat -> Nat]]
    PROVE  BlockEntry(s, j, after) \in [Nat -> Nat]
<1> SUFFICES ASSUME NEW d \in Nat
             PROVE  (CASE Char(s, j) = "EOF" -> 0
                       [] Char(s, j) = "*" /\ Char(s, j + 1) = "/" ->
                             IF d <= 1 THEN j + 2 ELSE after[j + 2][d - 1]
                       [] Char(s, j) = "/" /\ Char(s, j + 1) = "*" -> after[j + 2][d + 1]
                       [] OTHER -> after[j + 1][d]) \in Nat
  BY DEF BlockEntry
<1>1. /\ j + 1 \in Nat /\ j + 2 \in Nat /\ d + 1 \in Nat
      /\ ~(d <= 1) => d - 1 \in Nat
  OBVIOUS
<1>2. /\ after[j + 1][d] \in Nat /\ after[j + 2][d + 1] \in Nat
      /\ ~(d <= 1) => after[j + 2][d - 1] \in Nat
  BY <1>1
<1> QED
  BY <1>1, <1>2

LEMMA BlockEntryAgrees ==
    ASSUME NEW s, NEW j \in Nat, NEW f, NEW g,
           Char(s, j) # "EOF" => f[j + 1] = g[j + 1] /\ f[j + 2] = g[j + 2]
    PROVE  BlockEntry(s, j, f) = BlockEntry(s, j, g)
<1>1. CASE Char(s, j) = "EOF"
  BY <1>1 DEF BlockEntry
<1>2. CASE f[j + 1] = g[j + 1] /\ f[j + 2] = g[j + 2]
  BY <1>2 DEF BlockEntry
<1> QED
  BY <1>1, <1>2

LEMMA AfterBlockTable ==
    ASSUME NEW S, NEW s \in Seq(S)
    PROVE  \E after \in [Nat -> [Nat -> Nat]] :
              /\ \A i, d : AfterBlock(s, i, d) = after[i][d]
              /\ \A i \in Nat : after[i] = BlockEntry(s, i, after)
<1> DEFINE after[j \in Nat] == [d \in Nat |->
              CASE Char(s, j) = "EOF" -> 0
                [] Char(s, j) = "*" /\ Char(s, j + 1) = "/" ->
                      IF d <= 1 THEN j + 2 ELSE after[j + 2][d - 1]
                [] Char(s, j) = "/" /\ Char(s, j + 1) = "*" -> after[j + 2][d + 1]
                [] OTHER -> after[j + 1][d]]
           V == [Nat -> Nat]
           G == [p \in Nat \X [Nat -> V] |-> BlockEntry(s, p[1], p[2])]
<1>1. /\ G \in [Nat \X [Nat -> V] -> V]
      /\ \A j \in Nat, f \in [Nat -> V] : G[<<j, f>>] = BlockEntry(s, j, f)
  BY BlockEntryIs
<1>2. ASSUME NEW j \in Nat, NEW f, NEW g,
             j \in 1..Len(s) => \A k \in Nat : k = 0 \/ k > j => f[k] = g[k]
      PROVE  BlockEntry(s, j, f) = BlockEntry(s, j, g)
  <2>1. j + 1 \in Nat /\ j + 2 \in Nat /\ j + 1 > j /\ j + 2 > j
    OBVIOUS
  <2>2. Char(s, j) # "EOF" => f[j + 1] = g[j + 1] /\ f[j + 2] = g[j + 2]
    BY <1>2, <2>1, CharFacts
  <2> QED
    BY <2>2, BlockEntryAgrees
<1> HIDE DEF G
<1>3. LooksForward(G, Len(s), V)
  <2> SUFFICES ASSUME NEW j \in Nat, NEW f \in [Nat -> V], NEW g \in [Nat -> V],
                      j \in 1..Len(s) => \A k \in Nat : k = 0 \/ k > j => f[k] = g[k]
               PROVE  G[<<j, f>>] = G[<<j, g>>]
    BY DEF LooksForward
  <2>1. BlockEntry(s, j, f) = BlockEntry(s, j, g)
    BY <1>2
  <2> QED
    BY <1>1, <2>1
<1>4. V # {} /\ Len(s) \in Nat
  <2>1. [d \in Nat |-> 0] \in V
    OBVIOUS
  <2> HIDE DEF V
  <2> QED
    BY <2>1
<1> HIDE DEF V
<1>5. PICK f \in [Nat -> V] : Solves(f, G, Nat)
  BY <1>1, <1>3, <1>4, ForwardRecursion
<1>6. f = [j \in Nat |-> BlockEntry(s, j, f)]
  BY <1>1, <1>5 DEF Solves
<1>7. after = [j \in Nat |-> BlockEntry(s, j, after)]
  BY <1>6, Zenon DEF BlockEntry
<1>8. \A j, e : AfterBlock(s, j, e) = after[j][e]
  BY DEF AfterBlock
<1> HIDE DEF after
<1>9. \A j \in Nat : after[j] = f[j]
  <2>1. AgreeForward(after, f, Len(s))
    <3> SUFFICES ASSUME NEW j \in Nat,
                        j \in 1..Len(s) => \A k \in Nat : k = 0 \/ k > j => after[k] = f[k]
                 PROVE  after[j] = f[j]
      BY DEF AgreeForward
    <3>1. BlockEntry(s, j, after) = BlockEntry(s, j, f)
      BY <1>2
    <3> QED
      BY <1>6, <1>7, <3>1
  <2> QED
    BY <1>4, <2>1, ForwardAgreement
<1>10. after = f
  <2>1. after = [j \in Nat |-> after[j]]
    BY <1>7
  <2>2. f = [j \in Nat |-> f[j]]
    OBVIOUS
  <2> QED
    BY <1>9, <2>1, <2>2
<1>11. \A i \in Nat : f[i] = BlockEntry(s, i, f)
  BY <1>6
<1>12. f \in [Nat -> [Nat -> Nat]]
  BY DEF V
<1>13. \A i, d : AfterBlock(s, i, d) = f[i][d]
  BY <1>8, <1>10
<1> QED
  BY <1>11, <1>12, <1>13

\* The end of a comment is further on, if it has one.
LEMMA AfterBlockIs ==
    ASSUME NEW S, NEW s \in Seq(S), NEW i \in Nat, NEW d \in Nat
    PROVE  AfterBlock(s, i, d) \in Nat /\ (AfterBlock(s, i, d) = 0 \/ AfterBlock(s, i, d) > i)
<1>1. PICK after \in [Nat -> [Nat -> Nat]] :
              /\ \A j, e : AfterBlock(s, j, e) = after[j][e]
              /\ \A j \in Nat : after[j] = BlockEntry(s, j, after)
  BY AfterBlockTable
<1> DEFINE S1 == {j \in Nat : \A e \in Nat : after[j][e] = 0 \/ after[j][e] > j}
<1>2. ASSUME NEW j \in Nat, j \in 1..Len(s) => \A k \in Nat : k = 0 \/ k > j => k \in S1
      PROVE  j \in S1
  <2> SUFFICES ASSUME NEW e \in Nat
               PROVE  after[j][e] = 0 \/ after[j][e] > j
    OBVIOUS
  <2>1. after[j][e] = CASE Char(s, j) = "EOF" -> 0
          [] Char(s, j) = "*" /\ Char(s, j + 1) = "/" ->
                IF e <= 1 THEN j + 2 ELSE after[j + 2][e - 1]
          [] Char(s, j) = "/" /\ Char(s, j + 1) = "*" -> after[j + 2][e + 1]
          [] OTHER -> after[j + 1][e]
    BY ZenonT(40), <1>1 DEF BlockEntry
  <2>2. CASE Char(s, j) = "EOF"
    BY <2>1, <2>2
  <2>3. CASE Char(s, j) # "EOF"
    <3>1. j \in 1..Len(s) /\ j + 1 \in Nat /\ j + 2 \in Nat /\ j + 1 > j /\ j + 2 > j
      BY <2>3, CharFacts
    <3>2. j + 1 \in S1 /\ j + 2 \in S1
      BY <1>2, <3>1
    <3>3. e + 1 \in Nat /\ (~(e <= 1) => e - 1 \in Nat)
      OBVIOUS
    <3>4. ASSUME NEW k \in {j + 1, j + 2}, NEW x \in Nat
          PROVE  after[k][x] = 0 \/ after[k][x] > j
      <4>1. k \in Nat /\ k > j /\ k \in S1
        BY <3>1, <3>2
      <4> DEFINE v == after[k][x]
      <4>2. v \in Nat /\ (v = 0 \/ v > k)
        BY <4>1
      <4> HIDE DEF v, S1
      <4>3. v = 0 \/ v > j
        BY <4>1, <4>2
      <4> QED
        BY <4>3 DEF v
    <3>5. /\ after[j + 1][e] = 0 \/ after[j + 1][e] > j
          /\ after[j + 2][e + 1] = 0 \/ after[j + 2][e + 1] > j
          /\ ~(e <= 1) => after[j + 2][e - 1] = 0 \/ after[j + 2][e - 1] > j
      BY <3>3, <3>4
    <3> QED
      BY <2>1, <2>3, <3>1, <3>5
  <2> QED
    BY <2>2, <2>3
<1>3. Nat \subseteq S1
  <2> HIDE DEF S1
  <2>1. Len(s) \in Nat
    OBVIOUS
  <2> QED
    BY <1>2, <2>1, ForwardInduction
<1> QED
  BY <1>1, <1>3

LEMMA AfterLineIs ==
    ASSUME NEW S, NEW s \in Seq(S), NEW i \in 1..(Len(s) + 1)
    PROVE  AfterLine(s, i) \in i..(Len(s) + 1)
<1> DEFINE T == {j \in i..(Len(s) + 1) : Char(s, j) \in {"\n", "EOF"}}
<1>1. Len(s) + 1 \in T
  <2>1. Char(s, Len(s) + 1) = "EOF"
    BY DEF Char
  <2> QED
    BY <2>1
<1>2. T \in SUBSET Nat
  OBVIOUS
<1>3. Min(T) \in T
  BY <1>1, <1>2, MinIs
<1>4. AfterLine(s, i) = Min(T)
  BY DEF AfterLine
<1> QED
  BY <1>3, <1>4

\* The positions that it looks at.
LEMMA SkipEntryLooks ==
    ASSUME NEW S, NEW s \in Seq(S), NEW j \in Nat, j # 0
    PROVE  /\ Char(s, j) \in Blanks => j \in 1..Len(s)
           /\ Char(s, j) = "/" => j \in 1..Len(s)
           /\ Char(s, j) = "/" /\ Char(s, j + 1) = "/" =>
                 AfterLine(s, j + 2) \in Nat /\ AfterLine(s, j + 2) > j
           /\ AfterBlock(s, j + 2, 1) \in Nat
           /\ AfterBlock(s, j + 2, 1) = 0 \/ AfterBlock(s, j + 2, 1) > j
<1>1. \A k \in Nat : Char(s, k) # "EOF" => k \in 1..Len(s)
  BY CharFacts
<1>2. "EOF" \notin Blanks /\ "EOF" # "/"
  BY DEF Blanks
<1>3. ASSUME Char(s, j + 1) = "/"
      PROVE  AfterLine(s, j + 2) \in Nat /\ AfterLine(s, j + 2) > j
  <2>1. j + 1 \in 1..Len(s) /\ Len(s) \in Nat
    BY <1>1, <1>2, <1>3
  <2>2. j + 2 \in 1..(Len(s) + 1)
    BY <2>1
  <2>3. AfterLine(s, j + 2) \in (j + 2)..(Len(s) + 1)
    BY <2>2, AfterLineIs
  <2> QED
    BY <2>1, <2>3
<1>4. /\ AfterBlock(s, j + 2, 1) \in Nat
      /\ AfterBlock(s, j + 2, 1) = 0 \/ AfterBlock(s, j + 2, 1) > j
  <2>1. j + 2 \in Nat /\ 1 \in Nat
    OBVIOUS
  <2> DEFINE b == AfterBlock(s, j + 2, 1)
  <2>2. b \in Nat /\ (b = 0 \/ b > j + 2)
    BY <2>1, AfterBlockIs
  <2> HIDE DEF b
  <2>3. b \in Nat /\ (b = 0 \/ b > j)
    BY <2>2
  <2> QED
    BY <2>3 DEF b
<1> QED
  BY <1>1, <1>2, <1>3, <1>4

LEMMA SkipEntryAgrees ==
    ASSUME NEW S, NEW s \in Seq(S), NEW j \in Nat, NEW f, NEW g,
           j \in 1..Len(s) => \A k \in Nat : k = 0 \/ k > j => f[k] = g[k]
    PROVE  SkipEntry(s, j, f) = SkipEntry(s, j, g)
<1>1. CASE j = 0
  BY <1>1 DEF SkipEntry
<1>2. CASE j # 0
  <2>1. j + 1 \in Nat /\ j + 1 > j
    OBVIOUS
  <2>2. Char(s, j) \in Blanks => f[j + 1] = g[j + 1]
    BY <1>2, <2>1, SkipEntryLooks
  <2>3. Char(s, j) = "/" /\ Char(s, j + 1) = "/" =>
           f[AfterLine(s, j + 2)] = g[AfterLine(s, j + 2)]
    BY <1>2, SkipEntryLooks
  <2>4. Char(s, j) = "/" => f[AfterBlock(s, j + 2, 1)] = g[AfterBlock(s, j + 2, 1)]
    BY <1>2, SkipEntryLooks
  <2> QED
    BY <1>2, <2>2, <2>3, <2>4 DEF SkipEntry
<1> QED
  BY <1>1, <1>2

LEMMA SkippedTable ==
    ASSUME NEW S, NEW s \in Seq(S)
    PROVE  \E skip \in [Nat -> Nat] :
              /\ \A i : Skipped(s, i) = skip[i]
              /\ \A i \in Nat : skip[i] = SkipEntry(s, i, skip)
<1> DEFINE skip[j \in Nat] ==
              IF j = 0 THEN 0
              ELSE CASE Char(s, j) \in Blanks -> skip[j + 1]
                     [] Char(s, j) = "/" /\ Char(s, j + 1) = "/" ->
                           skip[AfterLine(s, j + 2)]
                     [] Char(s, j) = "/" /\ Char(s, j + 1) = "*" ->
                           skip[AfterBlock(s, j + 2, 1)]
                     [] OTHER -> j
           G == [p \in Nat \X [Nat -> Nat] |-> SkipEntry(s, p[1], p[2])]
<1>1. ASSUME NEW j \in Nat, NEW f \in [Nat -> Nat]
      PROVE  SkipEntry(s, j, f) \in Nat
  <2>1. CASE j = 0
    BY <2>1 DEF SkipEntry
  <2>2. CASE j # 0
    <3>1. f[j + 1] \in Nat
      OBVIOUS
    <3>2. Char(s, j) = "/" /\ Char(s, j + 1) = "/" => f[AfterLine(s, j + 2)] \in Nat
      BY <2>2, SkipEntryLooks
    <3>3. f[AfterBlock(s, j + 2, 1)] \in Nat
      BY <2>2, SkipEntryLooks
    <3> QED
      BY <2>2, <3>1, <3>2, <3>3 DEF SkipEntry
  <2> QED
    BY <2>1, <2>2
<1>2. /\ G \in [Nat \X [Nat -> Nat] -> Nat]
      /\ \A j \in Nat, f \in [Nat -> Nat] : G[<<j, f>>] = SkipEntry(s, j, f)
  BY <1>1
<1> HIDE DEF G
<1>3. LooksForward(G, Len(s), Nat)
  <2> SUFFICES ASSUME NEW j \in Nat, NEW f \in [Nat -> Nat], NEW g \in [Nat -> Nat],
                      j \in 1..Len(s) => \A k \in Nat : k = 0 \/ k > j => f[k] = g[k]
               PROVE  G[<<j, f>>] = G[<<j, g>>]
    BY DEF LooksForward
  <2>1. SkipEntry(s, j, f) = SkipEntry(s, j, g)
    BY SkipEntryAgrees
  <2> QED
    BY <1>2, <2>1
<1>4. Nat # {} /\ Len(s) \in Nat
  OBVIOUS
<1>5. PICK f \in [Nat -> Nat] : Solves(f, G, Nat)
  BY <1>2, <1>3, <1>4, ForwardRecursion
<1>6. f = [j \in Nat |-> SkipEntry(s, j, f)]
  BY <1>2, <1>5 DEF Solves
<1>7. skip = [j \in Nat |-> SkipEntry(s, j, skip)]
  BY <1>6, Zenon DEF SkipEntry
<1>8. \A i : Skipped(s, i) = skip[i]
  BY DEF Skipped
<1> HIDE DEF skip
<1>9. \A j \in Nat : skip[j] = f[j]
  <2>1. AgreeForward(skip, f, Len(s))
    <3> SUFFICES ASSUME NEW j \in Nat,
                        j \in 1..Len(s) => \A k \in Nat : k = 0 \/ k > j => skip[k] = f[k]
                 PROVE  skip[j] = f[j]
      BY DEF AgreeForward
    <3>1. SkipEntry(s, j, skip) = SkipEntry(s, j, f)
      BY SkipEntryAgrees
    <3> QED
      BY <1>6, <1>7, <3>1
  <2> QED
    BY SMTT(30), <1>4, <2>1, ForwardAgreement
<1>10. skip = f
  <2>1. skip = [j \in Nat |-> skip[j]]
    BY <1>7
  <2>2. f = [j \in Nat |-> f[j]]
    OBVIOUS
  <2> QED
    BY <1>9, <2>1, <2>2
<1>11. \A i \in Nat : f[i] = SkipEntry(s, i, f)
  BY <1>6
<1>12. \A i : Skipped(s, i) = f[i]
  BY <1>8, <1>10
<1> QED
  BY <1>11, <1>12

\* The lexer skips no token, and goes on from what it skips.
LEMMA SkippedIs ==
    ASSUME NEW S, NEW s \in Seq(S), NEW i \in Nat
    PROVE  /\ Skipped(s, i) \in Nat
           /\ Skipped(s, i) = 0 \/ Skipped(s, i) >= i
           /\ Skipped(s, 0) = 0
           /\ i # 0 /\ Char(s, i) \in Blanks => Skipped(s, i) = Skipped(s, i + 1)
           /\ i # 0 /\ Char(s, i) \notin Blanks \cup {"/"} => Skipped(s, i) = i
<1>1. PICK skip \in [Nat -> Nat] :
              /\ \A j : Skipped(s, j) = skip[j]
              /\ \A j \in Nat : skip[j] = SkipEntry(s, j, skip)
  BY SkippedTable
<1>2. "/" \notin Blanks
  BY DEF Blanks
<1> DEFINE T == {j \in Nat : skip[j] = 0 \/ skip[j] >= j}
<1>3. ASSUME NEW j \in Nat, j \in 1..Len(s) => \A k \in Nat : k = 0 \/ k > j => k \in T
      PROVE  j \in T
  <2>1. CASE j = 0
    BY <2>1
  <2>2. CASE j # 0
    <3> DEFINE l == AfterLine(s, j + 2)
               b == AfterBlock(s, j + 2, 1)
    <3>1. /\ Char(s, j) \in Blanks => j \in 1..Len(s)
          /\ Char(s, j) = "/" => j \in 1..Len(s)
          /\ Char(s, j) = "/" /\ Char(s, j + 1) = "/" => l \in Nat /\ l > j
          /\ b \in Nat
          /\ b = 0 \/ b > j
      BY <2>2, SkipEntryLooks
    <3>2. skip[j] = IF j = 0 THEN 0
            ELSE CASE Char(s, j) \in Blanks -> skip[j + 1]
                   [] Char(s, j) = "/" /\ Char(s, j + 1) = "/" -> skip[l]
                   [] Char(s, j) = "/" /\ Char(s, j + 1) = "*" -> skip[b]
                   [] OTHER -> j
      BY <1>1 DEF SkipEntry
    <3> HIDE DEF l, b
    <3>3. ASSUME NEW k \in Nat, k = 0 \/ k > j, j \in 1..Len(s)
          PROVE  skip[k] = 0 \/ skip[k] >= j
      <4>1. skip[k] \in Nat /\ (skip[k] = 0 \/ skip[k] >= k)
        BY <1>3, <3>3
      <4>2. CASE k = 0
        <5>1. skip[k] = 0
          BY <1>1, <4>2 DEF SkipEntry
        <5> QED
          BY <5>1
      <4>3. CASE k > j
        BY <4>1, <4>3
      <4> QED
        BY <3>3, <4>2, <4>3
    <3>4. j + 1 \in Nat /\ j + 1 > j
      OBVIOUS
    <3>5. skip[j] = j \/ skip[j] = 0 \/ skip[j] >= j
      <4>1. CASE Char(s, j) \in Blanks
        BY <1>2, <2>2, <3>1, <3>2, <3>3, <3>4, <4>1
      <4>2. CASE Char(s, j) = "/" /\ Char(s, j + 1) = "/"
        BY <1>2, <2>2, <3>1, <3>2, <3>3, <4>2
      <4>3. CASE Char(s, j) = "/" /\ Char(s, j + 1) = "*"
        BY <1>2, <2>2, <3>1, <3>2, <3>3, <4>3
      <4>4. CASE /\ Char(s, j) \notin Blanks
                 /\ ~(Char(s, j) = "/" /\ Char(s, j + 1) = "/")
                 /\ ~(Char(s, j) = "/" /\ Char(s, j + 1) = "*")
        BY <2>2, <3>2, <4>4
      <4> QED
        BY <4>1, <4>2, <4>3, <4>4
    <3> QED
      BY <3>5
  <2> QED
    BY <2>1, <2>2
<1>4. Nat \subseteq T
  <2> HIDE DEF T
  <2>1. Len(s) \in Nat
    OBVIOUS
  <2> QED
    BY <1>3, <2>1, ForwardInduction
<1>5. skip[i] = SkipEntry(s, i, skip) /\ skip[0] = SkipEntry(s, 0, skip)
  BY <1>1
<1>6. skip[0] = 0
  BY <1>5 DEF SkipEntry
<1>7. /\ i # 0 /\ Char(s, i) \in Blanks => skip[i] = skip[i + 1]
      /\ i # 0 /\ Char(s, i) \notin Blanks \cup {"/"} => skip[i] = i
  BY <1>2, <1>5 DEF SkipEntry
<1>8. skip[i] \in Nat /\ (skip[i] = 0 \/ skip[i] >= i)
  BY <1>4
<1> HIDE DEF T
<1> QED
  BY <1>1, <1>6, <1>7, <1>8

----------------------------------------------------------------------------
(* String literals.                                                        *)

\* What string literals are made of, and their tokens.
Elements(D) == [text : Seq(D), isInterpolant : BOOLEAN]

StringTokens(D) ==
    [type : {"STRING", "OPEN", "BAD"}, value : Seq(Elements(D)), end : Nat]

LEMMA ElementIs ==
    ASSUME NEW D, NEW chars \in Seq(D)
    PROVE  /\ Plain(chars) \in Elements(D) /\ FromEnv(chars) \in Elements(D)
           /\ Plain(chars).text = chars /\ ~Plain(chars).isInterpolant
           /\ FromEnv(chars).text = chars /\ FromEnv(chars).isInterpolant
  BY DEF Plain, FromEnv, Elements

LEMMA WithPlainIs ==
    ASSUME NEW D, NEW chars \in Seq(D), NEW token \in StringTokens(D)
    PROVE  /\ WithPlain(chars, token) \in StringTokens(D)
           /\ WithPlain(chars, token).end = token.end
           /\ WithPlain(chars, token).type = token.type
<1> DEFINE E == Elements(D)
           v == token.value
           w == IF v # <<>> /\ ~Head(v).isInterpolant
                THEN <<Plain(chars \o Head(v).text)>> \o Tail(v)
                ELSE <<Plain(chars)>> \o v
<1>1. /\ token.type \in {"STRING", "OPEN", "BAD"} /\ v \in Seq(E) /\ token.end \in Nat
      /\ token = [type |-> token.type, value |-> token.value, end |-> token.end]
  BY DEF StringTokens
<1>2. w \in Seq(E)
  <2>1. CASE v # <<>> /\ ~Head(v).isInterpolant
    <3>1. Head(v) \in E /\ Tail(v) \in Seq(E)
      <4> HIDE DEF E, v
      <4> QED
        BY <1>1, <2>1
    <3>2. Head(v).text \in Seq(D)
      BY <3>1 DEF Elements
    <3> DEFINE t == Head(v).text
    <3> HIDE DEF t
    <3>3. chars \o t \in Seq(D)
      BY <3>2 DEF t
    <3> DEFINE p == Plain(chars \o t)
    <3>4. p \in E
      BY <3>3, ElementIs
    <3> HIDE DEF p, E, v
    <3>5. <<p>> \o Tail(v) \in Seq(E)
      BY <3>1, <3>4
    <3> QED
      BY <2>1, <3>5 DEF p, t
  <2>2. CASE ~(v # <<>> /\ ~Head(v).isInterpolant)
    <3> DEFINE p == Plain(chars)
    <3>1. p \in E
      BY ElementIs
    <3> HIDE DEF p, E, v
    <3>2. <<p>> \o v \in Seq(E)
      BY <1>1, <3>1
    <3> QED
      BY <2>2, <3>2 DEF p
  <2> QED
    BY <2>1, <2>2
<1>3. CASE token.type # "STRING" \/ chars = <<>>
  BY <1>3 DEF WithPlain
<1>4. CASE ~(token.type # "STRING" \/ chars = <<>>)
  <2>1. WithPlain(chars, token) = [token EXCEPT !.value = w]
    BY <1>4 DEF WithPlain
  <2> HIDE DEF w, v
  <2>2. [token EXCEPT !.value = w] = [type |-> token.type, value |-> w, end |-> token.end]
    BY <1>1
  <2> QED
    BY <1>1, <1>2, <2>1, <2>2 DEF StringTokens
<1> QED
  BY <1>3, <1>4

LEMMA WithInterpolantIs ==
    ASSUME NEW D, NEW chars \in Seq(D), NEW token \in StringTokens(D)
    PROVE  /\ WithInterpolant(chars, token) \in StringTokens(D)
           /\ WithInterpolant(chars, token).end = token.end
           /\ WithInterpolant(chars, token).type = token.type
<1> DEFINE E == Elements(D)
           v == token.value
           p == FromEnv(chars)
           w == <<p>> \o v
<1>1. /\ token.type \in {"STRING", "OPEN", "BAD"} /\ v \in Seq(E) /\ token.end \in Nat
      /\ token = [type |-> token.type, value |-> token.value, end |-> token.end]
  BY DEF StringTokens
<1>2. w \in Seq(E)
  <2>1. p \in E
    BY ElementIs
  <2> HIDE DEF p, E, v
  <2> QED
    BY <1>1, <2>1
<1>3. CASE token.type # "STRING"
  BY <1>3 DEF WithInterpolant
<1>4. CASE token.type = "STRING"
  <2>1. WithInterpolant(chars, token) = [token EXCEPT !.value = w]
    BY <1>4 DEF WithInterpolant
  <2> HIDE DEF w, v
  <2>2. [token EXCEPT !.value = w] = [type |-> token.type, value |-> w, end |-> token.end]
    BY <1>1
  <2> QED
    BY <1>1, <1>2, <2>1, <2>2 DEF StringTokens
<1> QED
  BY <1>3, <1>4

LEMMA CharLooks ==
    ASSUME NEW D, NEW s \in Seq(D), NEW j \in Nat, Char(s, j) # "EOF"
    PROVE  /\ j \in 1..Len(s) /\ Len(s) \in Nat
           /\ Char(s, j) \in D /\ <<Char(s, j)>> \in Seq(D)
<1>1. j \in 1..Len(s) /\ Len(s) \in Nat /\ Char(s, j) \in D
  BY CharFacts
<1> DEFINE c == Char(s, j)
<1> HIDE DEF c
<1>2. c \in D => <<c>> \in Seq(D)
  OBVIOUS
<1> QED
  BY <1>1, <1>2 DEF c

LEMMA BraceLooks ==
    ASSUME NEW D, NEW s \in Seq(D), NEW j \in Nat, Char(s, j) # "EOF",
           NEW C, "EOF" \notin C
    PROVE  /\ RunEnd(s, j + 1, C) \in (j + 1)..(Len(s) + 1)
           /\ SubSeq(s, j + 1, RunEnd(s, j + 1, C) - 1) \in Seq(D)
<1> DEFINE brace == RunEnd(s, j + 1, C)
<1>1. j \in 1..Len(s) /\ Len(s) \in Nat
  BY CharLooks
<1>2. j + 1 \in 1..(Len(s) + 1)
  BY <1>1
<1>3. brace \in (j + 1)..(Len(s) + 1)
  BY <1>2, RunEndFacts
<1> HIDE DEF brace
<1>4. j + 1 \in Int /\ brace - 1 \in Int
  BY <1>1, <1>3
<1>5. \A k \in (j + 1)..(brace - 1) : s[k] \in D
  <2>1. \A k \in (j + 1)..(brace - 1) : k \in 1..Len(s)
    BY <1>1, <1>3
  <2> QED
    BY <2>1
<1>6. SubSeq(s, j + 1, brace - 1) \in Seq(D)
  BY <1>4, <1>5, SubSeqProperties
<1> QED
  BY <1>3, <1>6 DEF brace

LEMMA EscapeIs ==
    ASSUME NEW D, "\n" \in D, NEW c \in D, c \in DOMAIN Escapes
    PROVE  Escapes[c] \in Seq(D)
<1>1. c \in {"$", "'", "\"", "\\", "n", "\n"}
  BY DEF Escapes
<1>2. Escapes[c] = IF c = "n" THEN <<"\n">> ELSE IF c = "\n" THEN <<>> ELSE <<c>>
  BY <1>1 DEF Escapes
<1>3. <<>> \in Seq(D) /\ \A x \in D : <<x>> \in Seq(D)
  OBVIOUS
<1> QED
  BY <1>2, <1>3

LEMMA EscapesAreChars == "EOF" \notin DOMAIN Escapes
  BY DEF Escapes

LEMMA NoEndWithin == "EOF" \notin InterpolantChars /\ "EOF" \notin Quotes
                     /\ "$" \notin Quotes /\ "\\" \notin Quotes
<1>1. "EOF" \notin Letters
  BY LexerAssumption
<1>2. "EOF" \notin Digits
  BY DEF Digits
<1> QED
  BY <1>1, <1>2 DEF InterpolantChars, Quotes

LEMMA StringEntryIs ==
    ASSUME NEW D, "\n" \in D, NEW s \in Seq(D), NEW j \in Nat, NEW first \in Quotes,
           NEW from \in [Nat -> StringTokens(D)]
    PROVE  /\ StringEntry(s, j, first, from) \in StringTokens(D)
           /\ \/ StringEntry(s, j, first, from).end = 0
              \/ StringEntry(s, j, first, from).end = j + 1
              \/ \E k \in Nat : k > j /\ StringEntry(s, j, first, from).end = from[k].end
<1> DEFINE c == Char(s, j)
           brace == RunEnd(s, j + 2, InterpolantChars)
           e == StringEntry(s, j, first, from)
           Good(token) == /\ token \in StringTokens(D)
                          /\ \/ token.end = 0
                             \/ token.end = j + 1
                             \/ \E k \in Nat : k > j /\ token.end = from[k].end
<1>1. \A n \in Nat, t \in {"STRING", "OPEN", "BAD"} :
          Token(t, <<>>, n) \in StringTokens(D) /\ Token(t, <<>>, n).end = n
  <2>1. <<>> \in Seq(Elements(D))
    OBVIOUS
  <2> QED
    BY <2>1 DEF Token, StringTokens
<1>2. Good(Thrown) /\ Good(CutOff) /\ Good(Token("STRING", <<>>, j + 1))
  <2>1. Good(Thrown) /\ Good(CutOff)
    BY <1>1 DEF Thrown, CutOff
  <2>2. j + 1 \in Nat
    OBVIOUS
  <2>3. Good(Token("STRING", <<>>, j + 1))
    BY <1>1, <2>2
  <2> QED
    BY <2>1, <2>3
<1>3. ASSUME NEW chars \in Seq(D), NEW k \in Nat, k > j
      PROVE  Good(WithPlain(chars, from[k])) /\ Good(WithInterpolant(chars, from[k]))
  <2>1. from[k] \in StringTokens(D)
    OBVIOUS
  <2>2. /\ WithPlain(chars, from[k]) \in StringTokens(D)
        /\ WithPlain(chars, from[k]).end = from[k].end
    BY <2>1, WithPlainIs
  <2>3. /\ WithInterpolant(chars, from[k]) \in StringTokens(D)
        /\ WithInterpolant(chars, from[k]).end = from[k].end
    BY <2>1, WithInterpolantIs
  <2> QED
    BY <1>3, <2>2, <2>3
<1>4. e = CASE c = first -> Token("STRING", <<>>, j + 1)
            [] c = "EOF" -> CutOff
            [] c = "$" ->
                  IF Char(s, j + 1) = "EOF" THEN CutOff
                  ELSE IF Char(s, j + 1) # "{" THEN Thrown
                  ELSE IF Char(s, brace) = "EOF" THEN CutOff
                  ELSE IF Char(s, brace) # "}" THEN Thrown
                  ELSE WithInterpolant(SubSeq(s, j + 2, brace - 1), from[brace + 1])
            [] c = "\\" ->
                  IF Char(s, j + 1) = "EOF" THEN CutOff
                  ELSE IF Char(s, j + 1) \notin DOMAIN Escapes THEN Thrown
                  ELSE WithPlain(Escapes[Char(s, j + 1)], from[j + 2])
            [] OTHER -> WithPlain(<<c>>, from[j + 1])
  BY DEF StringEntry
<1>5. Good(e)
  <2>1. CASE c = "EOF"
    <3>1. first # "EOF"
      BY NoEndWithin
    <3> HIDE DEF Good, e
    <3> QED
      BY <1>2, <1>4, <2>1, <3>1
  <2>2. CASE c # "EOF"
    <3>1. <<c>> \in Seq(D)
      BY <2>2, CharLooks
    <3>2. j + 1 \in Nat /\ j + 1 > j /\ j + 2 \in Nat /\ j + 2 > j /\ (j + 1) + 1 = j + 2
      OBVIOUS
    <3>3. Good(WithPlain(<<c>>, from[j + 1]))
      <4> HIDE DEF Good
      <4> QED
        BY <1>3, <3>1, <3>2
    <3>4. ASSUME Char(s, j + 1) \in DOMAIN Escapes
          PROVE  Good(WithPlain(Escapes[Char(s, j + 1)], from[j + 2]))
      <4>1. Char(s, j + 1) \in D
        BY <3>2, <3>4, CharLooks, EscapesAreChars
      <4>2. Escapes[Char(s, j + 1)] \in Seq(D)
        BY <3>4, <4>1, EscapeIs
      <4> HIDE DEF Good
      <4> QED
        BY <1>3, <3>2, <4>2
    <3>5. ASSUME Char(s, j + 1) # "EOF"
          PROVE  Good(WithInterpolant(SubSeq(s, j + 2, brace - 1), from[brace + 1]))
      <4>1. /\ RunEnd(s, (j + 1) + 1, InterpolantChars) \in ((j + 1) + 1)..(Len(s) + 1)
            /\ SubSeq(s, (j + 1) + 1, RunEnd(s, (j + 1) + 1, InterpolantChars) - 1) \in Seq(D)
        BY <3>2, <3>5, BraceLooks, NoEndWithin
      <4>2. brace \in (j + 2)..(Len(s) + 1) /\ SubSeq(s, j + 2, brace - 1) \in Seq(D)
        BY <3>2, <4>1
      <4> HIDE DEF brace, Good
      <4>3. brace + 1 \in Nat /\ brace + 1 > j
        BY <4>2
      <4> QED
        BY <1>3, <4>2, <4>3
    <3> HIDE DEF Good, e, c, brace
    <3>6. first \notin {"$", "\\"}
      BY NoEndWithin
    <3>7. CASE c = first
      BY <1>2, <1>4, <2>2, <3>6, <3>7
    <3>8. CASE c # first /\ c = "$"
      BY <1>2, <1>4, <2>2, <3>5, <3>8
    <3>9. CASE c # first /\ c = "\\"
      BY <1>2, <1>4, <2>2, <3>4, <3>9
    <3>10. CASE c # first /\ c # "$" /\ c # "\\"
      BY <1>4, <2>2, <3>3, <3>10
    <3> QED
      BY <3>7, <3>8, <3>9, <3>10
  <2> QED
    BY <2>1, <2>2
<1> QED
  BY <1>5

LEMMA StringEntryAgrees ==
    ASSUME NEW D, NEW s \in Seq(D), NEW j \in Nat, NEW first \in Quotes, NEW f, NEW g,
           j \in 1..Len(s) => \A k \in Nat : k = 0 \/ k > j => f[k] = g[k]
    PROVE  StringEntry(s, j, first, f) = StringEntry(s, j, first, g)
<1>1. CASE Char(s, j) = "EOF"
  BY <1>1, NoEndWithin DEF StringEntry
<1>2. CASE Char(s, j) # "EOF"
  <2> DEFINE brace == RunEnd(s, j + 2, InterpolantChars)
  <2>1. j \in 1..Len(s) /\ j + 1 \in Nat /\ j + 1 > j /\ (j + 1) + 1 = j + 2
    BY <1>2, CharLooks
  <2>2. f[j + 1] = g[j + 1] /\ f[j + 2] = g[j + 2]
    BY <2>1
  <2>3. ASSUME Char(s, j + 1) # "EOF"
        PROVE  f[brace + 1] = g[brace + 1]
    <3>1. RunEnd(s, (j + 1) + 1, InterpolantChars) \in ((j + 1) + 1)..(Len(s) + 1)
      BY <2>1, <2>3, BraceLooks, NoEndWithin
    <3>2. brace \in (j + 2)..(Len(s) + 1) /\ Len(s) \in Nat
      BY <2>1, <3>1
    <3> HIDE DEF brace
    <3>3. brace + 1 \in Nat /\ brace + 1 > j
      BY <3>2
    <3> QED
      BY <1>2, <2>1, <3>3
  <2> QED
    BY <1>2, <2>2, <2>3 DEF StringEntry
<1> QED
  BY <1>1, <1>2

LEMMA StringTable ==
    ASSUME NEW D, "\n" \in D, NEW s \in Seq(D), NEW first \in Quotes
    PROVE  \E from \in [Nat -> StringTokens(D)] :
              /\ \A i : StringFrom(s, i, first) = from[i]
              /\ \A i \in Nat : from[i] = StringEntry(s, i, first, from)
<1> DEFINE from[j \in Nat] ==
              LET c     == Char(s, j)
                  brace == RunEnd(s, j + 2, InterpolantChars)
              IN  CASE c = first -> Token("STRING", <<>>, j + 1)
                    [] c = "EOF" -> CutOff
                    [] c = "$" ->
                          IF Char(s, j + 1) = "EOF" THEN CutOff
                          ELSE IF Char(s, j + 1) # "{" THEN Thrown
                          ELSE IF Char(s, brace) = "EOF" THEN CutOff
                          ELSE IF Char(s, brace) # "}" THEN Thrown
                          ELSE WithInterpolant(SubSeq(s, j + 2, brace - 1),
                                               from[brace + 1])
                    [] c = "\\" ->
                          IF Char(s, j + 1) = "EOF" THEN CutOff
                          ELSE IF Char(s, j + 1) \notin DOMAIN Escapes THEN Thrown
                          ELSE WithPlain(Escapes[Char(s, j + 1)], from[j + 2])
                    [] OTHER -> WithPlain(<<c>>, from[j + 1])
           V == StringTokens(D)
           G == [p \in Nat \X [Nat -> V] |-> StringEntry(s, p[1], first, p[2])]
<1>1. \A j \in Nat, f \in [Nat -> V] : StringEntry(s, j, first, f) \in V
  BY StringEntryIs
<1>2. /\ G \in [Nat \X [Nat -> V] -> V]
      /\ \A j \in Nat, f \in [Nat -> V] : G[<<j, f>>] = StringEntry(s, j, first, f)
  <2> HIDE DEF V
  <2> QED
    BY <1>1
<1> HIDE DEF G
<1>3. LooksForward(G, Len(s), V)
  <2> SUFFICES ASSUME NEW j \in Nat, NEW f \in [Nat -> V], NEW g \in [Nat -> V],
                      j \in 1..Len(s) => \A k \in Nat : k = 0 \/ k > j => f[k] = g[k]
               PROVE  G[<<j, f>>] = G[<<j, g>>]
    BY DEF LooksForward
  <2>1. StringEntry(s, j, first, f) = StringEntry(s, j, first, g)
    BY StringEntryAgrees
  <2> HIDE DEF V
  <2> QED
    BY <1>2, <2>1
<1>4. V # {} /\ Len(s) \in Nat
  <2>1. CutOff \in V
    <3>1. <<>> \in Seq(Elements(D))
      OBVIOUS
    <3> QED
      BY <3>1 DEF CutOff, Token, StringTokens
  <2> HIDE DEF V
  <2> QED
    BY <2>1
<1> HIDE DEF V
<1>5. PICK f \in [Nat -> V] : Solves(f, G, Nat)
  BY <1>2, <1>3, <1>4, ForwardRecursion
<1>6. f = [j \in Nat |-> StringEntry(s, j, first, f)]
  BY <1>2, <1>5 DEF Solves
<1>7. from = [j \in Nat |-> StringEntry(s, j, first, from)]
  BY <1>6, Zenon DEF StringEntry
<1>8. \A i : StringFrom(s, i, first) = from[i]
  BY DEF StringFrom
<1> HIDE DEF from
<1>9. \A j \in Nat : from[j] = f[j]
  <2>1. AgreeForward(from, f, Len(s))
    <3> SUFFICES ASSUME NEW j \in Nat,
                        j \in 1..Len(s) => \A k \in Nat : k = 0 \/ k > j => from[k] = f[k]
                 PROVE  from[j] = f[j]
      BY DEF AgreeForward
    <3>1. StringEntry(s, j, first, from) = StringEntry(s, j, first, f)
      BY StringEntryAgrees
    <3> QED
      BY <1>6, <1>7, <3>1
  <2> QED
    BY <1>4, <2>1, ForwardAgreement
<1>10. from = f
  <2>1. from = [j \in Nat |-> from[j]]
    BY <1>7
  <2>2. f = [j \in Nat |-> f[j]]
    OBVIOUS
  <2> QED
    BY <1>9, <2>1, <2>2
<1>11. \A i \in Nat : f[i] = StringEntry(s, i, first, f)
  BY <1>6
<1>12. \A i : StringFrom(s, i, first) = f[i]
  BY <1>8, <1>10
<1>13. f \in [Nat -> StringTokens(D)]
  BY DEF V
<1> QED
  BY <1>11, <1>12, <1>13

\* What a string literal's token is, and that it ends further on.
LEMMA StringFromIs ==
    ASSUME NEW D, "\n" \in D, NEW s \in Seq(D), NEW i \in Nat, NEW first \in Quotes
    PROVE  /\ StringFrom(s, i, first) \in StringTokens(D)
           /\ StringFrom(s, i, first).end = 0 \/ StringFrom(s, i, first).end > i
<1>1. PICK from \in [Nat -> StringTokens(D)] :
              /\ \A j : StringFrom(s, j, first) = from[j]
              /\ \A j \in Nat : from[j] = StringEntry(s, j, first, from)
  BY StringTable
<1> DEFINE T == {j \in Nat : from[j].end = 0 \/ from[j].end > j}
<1>2. ASSUME NEW j \in Nat, j \in 1..Len(s) => \A k \in Nat : k = 0 \/ k > j => k \in T
      PROVE  j \in T
  <2>1. \/ from[j].end = 0
        \/ from[j].end = j + 1
        \/ \E k \in Nat : k > j /\ from[j].end = from[k].end
    BY <1>1, StringEntryIs
  <2>2. CASE j \in 1..Len(s)
    <3>1. ASSUME NEW k \in Nat, k > j, from[j].end = from[k].end
          PROVE  from[j].end = 0 \/ from[j].end > j
      <4>1. from[k].end = 0 \/ from[k].end > k
        BY <1>2, <2>2, <3>1
      <4> DEFINE e == from[k].end
      <4>2. e \in Nat
        <5>1. from[k] \in StringTokens(D)
          OBVIOUS
        <5> QED
          BY <5>1 DEF StringTokens
      <4> HIDE DEF e
      <4>3. e = 0 \/ e > j
        BY <3>1, <4>1, <4>2 DEF e
      <4> QED
        BY <3>1, <4>3 DEF e
    <3> QED
      BY <2>1, <3>1
  <2>3. CASE j \notin 1..Len(s)
    <3>1. Char(s, j) = "EOF"
      BY <2>3, CharFacts
    <3>2. StringEntry(s, j, first, from) = CutOff
      BY <3>1, NoEndWithin DEF StringEntry
    <3>3. CutOff.end = 0
      BY DEF CutOff, Token
    <3> QED
      BY <1>1, <3>2, <3>3
  <2> QED
    BY <2>2, <2>3
<1>3. Nat \subseteq T
  <2> HIDE DEF T
  <2>1. Len(s) \in Nat
    OBVIOUS
  <2> QED
    BY <1>2, <2>1, ForwardInduction
<1> QED
  BY <1>1, <1>3

----------------------------------------------------------------------------
(* Numbers as the lexer reads them.                                        *)

LEMMA AllInIs ==
    ASSUME NEW S, NEW s \in Seq(S), NEW C
    PROVE  AllIn(s, C) <=> s \in Seq(C)
<1>1. DOMAIN s = 1..Len(s) /\ Len(s) \in Nat /\ s = [k \in 1..Len(s) |-> s[k]]
  OBVIOUS
<1>2. ASSUME AllIn(s, C)
      PROVE  s \in Seq(C)
  <2>1. \A k \in 1..Len(s) : s[k] \in C
    BY <1>1, <1>2 DEF AllIn
  <2> QED
    BY <1>1, <2>1
<1>3. ASSUME s \in Seq(C)
      PROVE  AllIn(s, C)
  BY <1>1, <1>3 DEF AllIn
<1> QED
  BY <1>2, <1>3

LEMMA IntSplit ==
    ASSUME NEW S, NEW chars \in Seq(S), IsInt(chars)
    PROVE  \E sign \in Signs, u \in Seq(Digits) \ {<<>>} : chars = sign \o u
<1> DEFINE u == Unsigned(chars)
<1>1. u # <<>> /\ AllIn(u, Digits)
  BY DEF IsInt
<1>2. CASE ~Signed(chars)
  <2>1. u = chars /\ <<>> \o chars = chars
    BY <1>2 DEF Unsigned
  <2>2. u \in Seq(Digits)
    BY <1>1, <2>1, AllInIs
  <2>3. <<>> \in Signs
    BY DEF Signs
  <2> QED
    BY <1>1, <2>1, <2>2, <2>3
<1>3. CASE Signed(chars)
  <2>1. /\ chars # <<>> /\ Head(chars) \in {"-", "+"} /\ u = Tail(chars)
        /\ Tail(chars) \in Seq(S) /\ <<Head(chars)>> \o Tail(chars) = chars
    BY <1>3 DEF Signed, Unsigned
  <2>2. u \in Seq(Digits)
    BY <1>1, <2>1, AllInIs
  <2>3. <<Head(chars)>> \in Signs
    BY <2>1 DEF Signs
  <2> HIDE DEF u
  <2>4. chars = <<Head(chars)>> \o u
    BY <2>1
  <2> QED
    BY <1>1, <2>2, <2>3, <2>4
<1> QED
  BY <1>2, <1>3

LEMMA IntOfType ==
    ASSUME NEW S, NEW chars \in Seq(S), IsInt(chars)
    PROVE  IntOf(chars) \in Int
<1>1. PICK sign \in Signs, u \in Seq(Digits) \ {<<>>} : chars = sign \o u
  BY IntSplit
<1> DEFINE n == Denotes(10, u)
<1>2. IntOf(chars) = IF sign = <<"-">> THEN -n ELSE n
  BY <1>1, IntOfIs
<1>3. n \in Nat
  BY IntOfIs
<1> HIDE DEF n
<1> QED
  BY <1>2, <1>3

LEMMA LongLimits ==
    /\ LongMax \in Nat /\ LongMin = -LongMax - 1
    /\ Power(2, LongBits) = 2 * (LongMax + 1)
<1> DEFINE p == Power(2, LongBits - 1)
<1>1. LongBits \in Nat /\ LongBits - 1 \in Nat /\ (LongBits - 1) + 1 = LongBits
  <2>1. LongBits \in Nat \ {0, 1}
    BY LexerAssumption
  <2> QED
    BY <2>1
<1>2. p \in Nat /\ p # 0 /\ Power(2, (LongBits - 1) + 1) = 2 * p
  BY <1>1, PowerIs, PowerPositive
<1>3. LongMax = p - 1 /\ LongMin = -LongMax - 1
  BY DEF LongMax, LongMin
<1> HIDE DEF p
<1> QED
  BY <1>1, <1>2, <1>3

LEMMA ClampedIs ==
    ASSUME NEW n \in Int
    PROVE  /\ Clamped(n) \in LongMin..LongMax
           /\ n \in LongMin..LongMax => Clamped(n) = n
           /\ n > LongMax => Clamped(n) = LongMax
           /\ n < LongMin => Clamped(n) = LongMin
  BY LongLimits DEF Clamped

LEMMA WrappedType ==
    ASSUME NEW n \in Int
    PROVE  /\ Wrapped(n) \in LongMin..LongMax
           /\ n \in LongMin..LongMax => Wrapped(n) = n
<1> DEFINE p == Power(2, LongBits)
<1>1. p \in Nat /\ p > 0 /\ LongMax \in Nat /\ LongMin \in Int
      /\ p = LongMax - LongMin + 1
  BY LongLimits
<1>2. Wrapped(n) = ((n - LongMin) % p) + LongMin
  BY DEF Wrapped
<1> HIDE DEF p
<1> DEFINE m == n - LongMin
<1>3. m \in Int
  BY <1>1
<1>4. m % p \in 0..(p - 1) /\ (m \in 0..(p - 1) => m % p = m)
  <2> HIDE DEF m
  <2> QED
    BY <1>1, <1>3
<1>5. n \in LongMin..LongMax => m \in 0..(p - 1) /\ m + LongMin = n
  BY <1>1
<1> DEFINE r == m % p
<1>6. r \in 0..(p - 1) /\ Wrapped(n) = r + LongMin
  BY <1>2, <1>4
<1>7. n \in LongMin..LongMax => r = m
  BY <1>4, <1>5
<1> HIDE DEF r, m
<1> QED
  BY <1>1, <1>5, <1>6, <1>7

LEMMA HexType ==
    ASSUME NEW chars \in Seq(HexDigits)
    PROVE  Horner(16, chars, Wrapped) \in LongMin..LongMax
<1> DEFINE V == LongMin..LongMax
<1>1. V \in SUBSET Int /\ 0 \in V /\ 16 \in Nat
  BY LongLimits
<1>2. \A n \in Int : Wrap[n] \in V
  BY WrappedType DEF Wrap
<1> HIDE DEF V
<1>3. ASSUME NEW v \in V, NEW d \in 0..15
      PROVE  Wrap[v * 16 + d] \in V
  <2>1. v * 16 + d \in Int
    BY <1>1
  <2> QED
    BY <1>2, <2>1
<1>4. PICK f \in [Nat -> V] : Tabulates(f, 16, chars, Wrap)
  BY <1>1, <1>3, TableExists
<1>5. f \in [Nat -> Int] /\ Len(chars) \in Nat
  <2>1. \A n \in Nat : f[n] \in Int
    BY <1>1
  <2> QED
    BY <2>1
<1>6. Horner(16, chars, Wrapped) = f[Len(chars)]
  BY <1>1, <1>4, <1>5, WrappedIs
<1>7. f[Len(chars)] \in V
  BY <1>5
<1> QED
  BY <1>6, <1>7 DEF V

\* What is read as a double is one.
\* What the parts of a floating point number are made of.
LEMMA PartsHave ==
    ASSUME NEW S, NEW chars \in Seq(S)
    PROVE  /\ Unsigned(chars) \in Seq(S)
           /\ Parts(chars).whole \in Seq(Digits)
           /\ Parts(chars).fraction \in Seq(Digits)
           /\ Parts(chars).rest \in Seq(S)
           /\ LET u == Unsigned(chars)
              IN  \E dot \in 1..(Len(u) + 1), tail \in 1..(Len(u) + 1) :
                     /\ Parts(chars).whole = SubSeq(u, 1, dot - 1)
                     /\ Parts(chars).rest = SubSeq(u, tail, Len(u))
                     /\ \A k \in 1..(tail - 1) : u[k] \in Digits \cup {"."}
<1> DEFINE u == Unsigned(chars)
           dot == RunEnd(u, 1, Digits)
           point == Char(u, dot) = "."
           tail == IF point THEN RunEnd(u, dot + 1, Digits) ELSE dot
           whole == SubSeq(u, 1, dot - 1)
           fraction == IF point THEN SubSeq(u, dot + 1, tail - 1) ELSE <<>>
           rest == SubSeq(u, tail, Len(u))
<1>1. Parts(chars) = [whole |-> whole, fraction |-> fraction, rest |-> rest]
  BY DEF Parts
<1>2. u \in Seq(S)
  <2>1. Signed(chars) => chars # <<>>
    BY DEF Signed
  <2>2. chars # <<>> => Tail(chars) \in Seq(S)
    OBVIOUS
  <2> QED
    BY <2>1, <2>2 DEF Unsigned
<1> HIDE DEF u
<1>3. Len(u) \in Nat /\ "EOF" \notin Digits /\ \A k \in 1..Len(u) : u[k] \in S
  BY <1>2 DEF Digits
<1>4. /\ dot \in 1..(Len(u) + 1)
      /\ \A k \in 1..(dot - 1) : k \in 1..Len(u) /\ u[k] \in Digits
  <2>1. 1 \in 1..(Len(u) + 1)
    BY <1>3
  <2> QED
    BY <1>2, <1>3, <2>1, RunEndFacts
<1> HIDE DEF dot
<1>5. whole \in Seq(Digits)
  <2>1. 1 \in Int /\ dot - 1 \in Int
    BY <1>3, <1>4
  <2> QED
    BY <1>4, <2>1, SubSeqProperties
<1>6. ASSUME point
      PROVE  /\ tail \in (dot + 1)..(Len(u) + 1)
             /\ \A k \in (dot + 1)..(tail - 1) : k \in 1..Len(u) /\ u[k] \in Digits
  <2>1. dot \in 1..Len(u)
    <3>1. dot \in Nat
      BY <1>3, <1>4
    <3>2. Char(u, dot) # "EOF"
      BY <1>6
    <3> QED
      BY <1>2, <3>1, <3>2, CharFacts
  <2>2. dot + 1 \in 1..(Len(u) + 1)
    BY <1>3, <2>1
  <2> QED
    BY <1>2, <1>3, <1>6, <2>2, RunEndFacts
<1>7. fraction \in Seq(Digits)
  <2>1. CASE point
    <3>1. dot + 1 \in Int /\ tail - 1 \in Int
      BY <1>3, <1>4, <1>6, <2>1
    <3> HIDE DEF tail
    <3>2. \A k \in (dot + 1)..(tail - 1) : u[k] \in Digits
      BY <1>6, <2>1 DEF tail
    <3> DEFINE w == SubSeq(u, dot + 1, tail - 1)
    <3>3. w \in Seq(Digits)
      BY <3>1, <3>2, SubSeqProperties
    <3> HIDE DEF w
    <3> QED
      BY <2>1, <3>3 DEF w
  <2>2. CASE ~point
    BY <2>2
  <2> QED
    BY <2>1, <2>2
<1>8. rest \in Seq(S)
  <2>1. tail \in 1..(Len(u) + 1)
    BY <1>3, <1>4, <1>6
  <2> HIDE DEF tail
  <2>2. tail \in Int /\ Len(u) \in Int
    BY <1>3, <2>1
  <2>3. \A k \in tail..Len(u) : u[k] \in S
    BY <1>3, <2>1
  <2> QED
    BY <2>2, <2>3, SubSeqProperties
<1>9. tail \in 1..(Len(u) + 1)
  BY <1>3, <1>4, <1>6
<1>10. \A k \in 1..(tail - 1) : u[k] \in Digits \cup {"."}
  <2> SUFFICES ASSUME NEW k \in 1..(tail - 1)
               PROVE  u[k] \in Digits \cup {"."}
    OBVIOUS
  <2>1. k \in Nat /\ dot \in Nat /\ k \in 1..Len(u)
    <3> HIDE DEF tail
    <3> QED
      BY <1>3, <1>4, <1>9
  <2>2. CASE k < dot
    BY <1>4, <2>1, <2>2
  <2>3. CASE k = dot
    <3>1. point
      BY <2>1, <2>3
    <3>2. u[k] = "."
      BY <1>2, <2>1, <2>3, <3>1, CharFacts
    <3> QED
      BY <3>2
  <2>4. CASE k > dot
    <3>1. point
      BY <2>1, <2>4
    <3> HIDE DEF tail, point
    <3>2. k \in (dot + 1)..(tail - 1)
      BY <2>1, <2>4, <1>9
    <3> QED
      BY <1>6, <3>1, <3>2
  <2> QED
    BY <2>1, <2>2, <2>3, <2>4
<1> DEFINE parts == Parts(chars)
<1>11. parts.whole = whole /\ parts.fraction = fraction /\ parts.rest = rest
  <2> HIDE DEF whole, fraction, rest
  <2> QED
    BY <1>1
<1> HIDE DEF parts, tail, fraction
<1>12. /\ parts.whole \in Seq(Digits) /\ parts.fraction \in Seq(Digits) /\ parts.rest \in Seq(S)
  BY <1>5, <1>7, <1>8, <1>11
<1>13. \E m \in 1..(Len(u) + 1), t \in 1..(Len(u) + 1) :
          /\ parts.whole = SubSeq(u, 1, m - 1)
          /\ parts.rest = SubSeq(u, t, Len(u))
          /\ \A k \in 1..(t - 1) : u[k] \in Digits \cup {"."}
  BY <1>4, <1>9, <1>10, <1>11
<1> QED
  BY <1>2, <1>12, <1>13 DEF parts, u

LEMMA DoubleOfType ==
    ASSUME NEW S, NEW chars \in Seq(S), IsDouble(chars)
    PROVE  DoubleOf(chars) \in Decimals /\ Stripped(DoubleOf(chars))
<1> DEFINE parts == Parts(chars)
           whole == parts.whole
           fraction == parts.fraction
           rest == parts.rest
<1>1. whole \in Seq(Digits) /\ fraction \in Seq(Digits) /\ rest \in Seq(S)
  BY PartsHave
<1>2. rest = <<>> \/ IsInt(Tail(rest))
  BY DEF IsDouble, HasExponent
<1> HIDE DEF whole, fraction, rest
<1>3. IntOf(whole \o fraction) \in Nat /\ Len(fraction) \in Nat
  <2> DEFINE w == whole \o fraction
  <2>1. w \in Seq(Digits)
    BY <1>1
  <2> HIDE DEF w
  <2>2. <<>> \in Signs /\ <<>> # <<"-">> /\ <<>> \o w = w
    BY <2>1 DEF Signs
  <2>3. IntOf(<<>> \o w) = Denotes(10, w) /\ Denotes(10, w) \in Nat
    BY <2>1, <2>2, IntOfIs
  <2>4. Len(fraction) \in Nat
    BY <1>1
  <2> QED
    BY <2>2, <2>3, <2>4 DEF w
<1> DEFINE exponent == IF rest = <<>> THEN 0 ELSE IntOf(Tail(rest))
<1>4. exponent \in Int
  <2>1. CASE rest = <<>>
    BY <2>1
  <2>2. CASE rest # <<>>
    <3>1. IsInt(Tail(rest))
      BY <1>2, <2>2
    <3>2. Tail(rest) \in Seq(S)
      BY <1>1, <2>2
    <3> QED
      BY <2>2, <3>1, <3>2, IntOfType
  <2> QED
    BY <2>1, <2>2
<1>5. Negative(chars) \in BOOLEAN
  BY DEF Negative
<1>6. DoubleOf(chars) = Decimal(Negative(chars), IntOf(whole \o fraction),
                                 exponent - Len(fraction))
  BY DEF DoubleOf, DecimalOf, whole, fraction, rest
<1> HIDE DEF exponent
<1>7. exponent - Len(fraction) \in Int
  BY <1>3, <1>4
<1> QED
  BY <1>3, <1>5, <1>6, <1>7, DecimalIs

----------------------------------------------------------------------------
(* Tokens.                                                                 *)

\* A token that ends after position i, if anywhere, and has a value of its type.
Fits(token, i, D) ==
    /\ token.end \in Nat
    /\ token.end = 0 \/ token.end > i
    /\ token.type = "INT" => token.value \in LongMin..LongMax
    /\ token.type = "DOUBLE" => token.value \in Decimals /\ Stripped(token.value)
    /\ token.type = "STRING" => token.value \in Seq(Elements(D))
    /\ token.type \in {"NUMID", "IDENT"} => token.value \in Seq(D)

\* The types of tokens that have a value.
Valued == {"INT", "DOUBLE", "STRING", "NUMID", "IDENT"}

LEMMA FitsPlainly ==
    ASSUME NEW i \in Nat, NEW D, NEW type, type \notin Valued, NEW value,
           NEW end \in Nat, end = 0 \/ end > i
    PROVE  Fits(Token(type, value, end), i, D)
  BY DEF Fits, Token, Valued

LEMMA EndIsNone ==
    "EOF" \notin IdentChars /\ "EOF" \notin NumIdChars /\ "EOF" \notin HexDigits
<1>1. "EOF" \notin Letters
  BY LexerAssumption
<1>2. "EOF" \notin Digits
  BY DEF Digits
<1>3. "EOF" \notin HexDigits
  BY DEF HexDigits, DigitsInOrder
<1>4. "EOF" \notin IdentChars
  BY <1>1, <1>2 DEF IdentChars, IdentInitChars
<1> QED
  BY <1>2, <1>3, <1>4 DEF NumIdChars, NumIdInitChars

\* A run of characters from a given one on.
LEMMA RunLooks ==
    ASSUME NEW D, NEW s \in Seq(D), NEW i \in 1..Len(s), NEW C, "EOF" \notin C
    PROVE  /\ RunEnd(s, i + 1, C) \in (i + 1)..(Len(s) + 1)
           /\ RunEnd(s, i + 1, C) \in Nat /\ RunEnd(s, i + 1, C) > i
           /\ SubSeq(s, i, RunEnd(s, i + 1, C) - 1) \in Seq(D)
           /\ SubSeq(s, i + 1, RunEnd(s, i + 1, C) - 1) \in Seq(C)
<1> DEFINE end == RunEnd(s, i + 1, C)
<1>1. Len(s) \in Nat /\ i \in Nat /\ i + 1 \in 1..(Len(s) + 1)
  OBVIOUS
<1>2. /\ end \in (i + 1)..(Len(s) + 1)
      /\ \A k \in (i + 1)..(end - 1) : k \in 1..Len(s) /\ s[k] \in C
  BY <1>1, RunEndFacts
<1> HIDE DEF end
<1>3. i \in Int /\ i + 1 \in Int /\ end - 1 \in Int
  BY <1>1, <1>2
<1>4. \A k \in i..(end - 1) : s[k] \in D
  <2>1. \A k \in i..(end - 1) : k \in 1..Len(s)
    BY <1>1, <1>2
  <2> QED
    BY <2>1
<1>5. SubSeq(s, i, end - 1) \in Seq(D)
  BY <1>3, <1>4, SubSeqProperties
<1>6. SubSeq(s, i + 1, end - 1) \in Seq(C)
  BY <1>2, <1>3, SubSeqProperties
<1>7. end \in Nat /\ end > i
  BY <1>1, <1>2
<1> QED
  BY <1>2, <1>5, <1>6, <1>7 DEF end

LEMMA NumIdFits ==
    ASSUME NEW D, NEW s \in Seq(D), NEW i \in 1..Len(s)
    PROVE  Fits(NumId(s, i), i, D)
<1> DEFINE end == RunEnd(s, i + 1, NumIdChars)
           chars == SubSeq(s, i, end - 1)
<1>1. end \in Nat /\ end > i /\ chars \in Seq(D)
  BY RunLooks, EndIsNone
<1>2. NumId(s, i) = IF IsInt(chars) THEN Token("INT", IntLiteral(chars), end)
                    ELSE IF IsDouble(chars) THEN Token("DOUBLE", DoubleOf(chars), end)
                    ELSE Token("NUMID", chars, end)
  BY DEF NumId
<1> HIDE DEF end, chars
<1>3. CASE IsInt(chars)
  <2>1. IntLiteral(chars) \in LongMin..LongMax
    BY <1>1, <1>3, IntOfType, ClampedIs DEF IntLiteral
  <2> QED
    BY <1>1, <1>2, <1>3, <2>1 DEF Fits, Token
<1>4. CASE ~IsInt(chars) /\ IsDouble(chars)
  <2>1. DoubleOf(chars) \in Decimals /\ Stripped(DoubleOf(chars))
    BY <1>1, <1>4, DoubleOfType
  <2> QED
    BY <1>1, <1>2, <1>4, <2>1 DEF Fits, Token
<1>5. CASE ~IsInt(chars) /\ ~IsDouble(chars)
  BY <1>1, <1>2, <1>5 DEF Fits, Token
<1> QED
  BY <1>3, <1>4, <1>5

LEMMA HexFits ==
    ASSUME NEW D, NEW s \in Seq(D), NEW i \in 1..Len(s)
    PROVE  Fits(HexLiteral(s, i + 1), i, D)
<1> DEFINE end == RunEnd(s, i + 1, HexDigits)
           chars == SubSeq(s, i + 1, end - 1)
<1>1. end \in Nat /\ end > i /\ chars \in Seq(HexDigits)
  BY RunLooks, EndIsNone
<1>2. HexLiteral(s, i + 1) = Token("INT", Horner(16, chars, Wrapped), end)
  BY DEF HexLiteral
<1> HIDE DEF end, chars
<1>3. Horner(16, chars, Wrapped) \in LongMin..LongMax
  BY <1>1, HexType
<1> QED
  BY <1>1, <1>2, <1>3 DEF Fits, Token

LEMMA IdentFits ==
    ASSUME NEW D, NEW s \in Seq(D), NEW i \in 1..Len(s)
    PROVE  Fits(Ident(s, i), i, D) /\ Ident(s, i).end \in Nat /\ Ident(s, i).end > i
<1> DEFINE end == RunEnd(s, i + 1, IdentChars)
           chars == SubSeq(s, i, end - 1)
<1>1. end \in Nat /\ end > i /\ chars \in Seq(D)
  BY RunLooks, EndIsNone
<1>2. Ident(s, i) = Token("IDENT", chars, end)
  BY DEF Ident
<1> HIDE DEF end, chars
<1> QED
  BY <1>1, <1>2 DEF Fits, Token

LEMMA CommandFits ==
    ASSUME NEW D, NEW s \in Seq(D), NEW i \in 1..Len(s)
    PROVE  Fits(Command(s, i), i, D)
<1> DEFINE ident == Ident(s, i)
<1>1. ident.end \in Nat /\ ident.end > i /\ i \in Nat
  BY IdentFits
<1>2. \A c \in DOMAIN Commands : Commands[c] \in {"CONSTRAIN", "CONTEXT", "IMPORT", "OVERRIDE"}
  BY DEF Commands
<1>3. CASE Len(ident.value) = 2 /\ ident.value[2] \in DOMAIN Commands
  <2>1. Command(s, i) = Token(Commands[ident.value[2]], <<>>, ident.end)
    BY <1>3 DEF Command
  <2>2. Commands[ident.value[2]] \notin Valued
    BY <1>2, <1>3 DEF Valued
  <2> HIDE DEF ident
  <2> QED
    BY <1>1, <2>1, <2>2, FitsPlainly
<1>4. CASE ~(Len(ident.value) = 2 /\ ident.value[2] \in DOMAIN Commands)
  <2>1. Command(s, i) = Token("BAD", <<>>, 0)
    BY <1>4 DEF Command, Thrown
  <2> QED
    BY <1>1, <2>1 DEF Fits, Token
<1> QED
  BY <1>3, <1>4

\* The first character tells which kind of token it is of.
LEMMA StartsApart ==
    ASSUME NEW c
    PROVE  /\ c \in IdentInitChars =>
                 c \notin Punctuation /\ c \notin NumIdInitChars /\ c \notin Quotes /\ c # "@"
           /\ c \in NumIdInitChars => c \notin Punctuation /\ c \notin Quotes /\ c # "@"
           /\ c \in Quotes => c \notin Punctuation /\ c # "@"
           /\ "@" \notin Punctuation
<1>1. c \in {"$", "_"} =>
         c \notin Punctuation /\ c \notin NumIdInitChars /\ c \notin Quotes /\ c # "@"
  BY DEF Punctuation, NumIdInitChars, Digits, Quotes
<1>2. c \in Letters =>
         c \notin Punctuation /\ c \notin NumIdInitChars /\ c \notin Quotes /\ c # "@"
  BY LexerAssumption DEF Quotes
<1>3. c \in NumIdInitChars => c \notin Punctuation /\ c \notin Quotes /\ c # "@"
  BY DEF Punctuation, NumIdInitChars, Digits, Quotes
<1>4. c \in Quotes => c \notin Punctuation /\ c # "@"
  BY DEF Punctuation, Quotes
<1>5. "@" \notin Punctuation
  BY DEF Punctuation
<1> QED
  BY <1>1, <1>2, <1>3, <1>4, <1>5 DEF IdentInitChars

LEMMA TokenAtFits ==
    ASSUME NEW D, "\n" \in D, NEW s \in Seq(D), NEW i \in Nat
    PROVE  Fits(TokenAt(s, i), i, D)
<1> DEFINE c == Char(s, i)
<1>1. TokenAt(s, i) =
         CASE i = 0 -> CutOff
           [] i # 0 /\ c = "EOF" -> Token("EOS", <<>>, 0)
           [] c \in Punctuation -> Token(c, <<>>, i + 1)
           [] c = "@" -> Command(s, i)
           [] c \in Quotes -> StringFrom(s, i + 1, c)
           [] c \in NumIdInitChars ->
                 IF c = "0" /\ Char(s, i + 1) = "x" THEN HexLiteral(s, i + 2)
                 ELSE NumId(s, i)
           [] c \in IdentInitChars -> Ident(s, i)
           [] OTHER -> Thrown
  BY DEF TokenAt
<1>2. Fits(CutOff, i, D) /\ Fits(Thrown, i, D) /\ Fits(Token("EOS", <<>>, 0), i, D)
  BY FitsPlainly DEF Fits, CutOff, Thrown, Token
<1>3. CASE i = 0
  <2>1. c = "EOF"
    <3>1. i \notin 1..Len(s)
      BY <1>3
    <3> QED
      BY <3>1, CharFacts
  <2>2. "EOF" \notin Punctuation /\ "EOF" \notin NumIdInitChars /\ "EOF" \notin IdentInitChars
        /\ "EOF" \notin Quotes /\ "EOF" # "@"
    BY EndIsNone, NoEndWithin DEF Punctuation, NumIdInitChars, IdentChars, NumIdChars
  <2> HIDE DEF c
  <2>3. TokenAt(s, i) = CutOff
    BY <1>1, <1>3, <2>1, <2>2
  <2> QED
    BY <1>2, <2>3
<1>4. CASE i # 0 /\ c = "EOF"
  <2>2. "EOF" \notin Punctuation /\ "EOF" \notin NumIdInitChars /\ "EOF" \notin IdentInitChars
        /\ "EOF" \notin Quotes /\ "EOF" # "@"
    BY EndIsNone, NoEndWithin DEF Punctuation, NumIdInitChars, IdentChars, NumIdChars
  <2> HIDE DEF c
  <2>3. TokenAt(s, i) = Token("EOS", <<>>, 0)
    BY <1>1, <1>4, <2>2
  <2> QED
    BY <1>2, <2>3
<1>5. CASE i # 0 /\ c # "EOF"
  <2>1. i \in 1..Len(s) /\ i + 1 \in Nat /\ i + 1 > i /\ (i + 1) + 1 = i + 2
    BY <1>5, CharLooks
  <2>2. c \in Punctuation => Fits(Token(c, <<>>, i + 1), i, D)
    <3>1. c \in Punctuation => c \notin Valued
      BY DEF Punctuation, Valued
    <3> HIDE DEF c
    <3> QED
      BY <2>1, <3>1, FitsPlainly
  <2>3. Fits(Command(s, i), i, D) /\ Fits(NumId(s, i), i, D) /\ Fits(Ident(s, i), i, D)
    BY <2>1, CommandFits, NumIdFits, IdentFits
  <2>4. c \in Quotes => Fits(StringFrom(s, i + 1, c), i, D)
    <3> SUFFICES ASSUME c \in Quotes
                 PROVE  Fits(StringFrom(s, i + 1, c), i, D)
      OBVIOUS
    <3> HIDE DEF c
    <3> DEFINE token == StringFrom(s, i + 1, c)
    <3>1. token \in StringTokens(D) /\ (token.end = 0 \/ token.end > i + 1)
      BY <2>1, StringFromIs
    <3> HIDE DEF token
    <3>2. /\ token.type \in {"STRING", "OPEN", "BAD"} /\ token.value \in Seq(Elements(D))
          /\ token.end \in Nat
      BY <3>1 DEF StringTokens
    <3>3. token.end = 0 \/ token.end > i
      <4> DEFINE e == token.end
      <4>1. e \in Nat /\ (e = 0 \/ e > i + 1)
        BY <3>1, <3>2
      <4> HIDE DEF e
      <4>2. e = 0 \/ e > i
        BY <4>1
      <4> QED
        BY <4>2 DEF e
    <3>4. Fits(token, i, D)
      BY <3>2, <3>3 DEF Fits
    <3> QED
      BY <3>4 DEF token
  <2>5. Char(s, i + 1) = "x" => Fits(HexLiteral(s, i + 2), i, D)
    <3> SUFFICES ASSUME Char(s, i + 1) = "x"
                 PROVE  Fits(HexLiteral(s, i + 2), i, D)
      OBVIOUS
    <3>1. i + 1 \in 1..Len(s)
      <4>1. Char(s, i + 1) # "EOF"
        OBVIOUS
      <4> QED
        BY <2>1, <4>1, CharLooks
    <3> DEFINE j == i + 1
               token == HexLiteral(s, j + 1)
    <3>2. j + 1 = i + 2 /\ j > i /\ j \in Nat
      BY <2>1
    <3>3. Fits(token, j, D)
      BY <3>1, HexFits
    <3> HIDE DEF j, token
    <3>4. token.end \in Nat /\ (token.end = 0 \/ token.end > j)
      BY <3>3 DEF Fits
    <3>5. token.end = 0 \/ token.end > i
      <4> DEFINE e == token.end
      <4>1. e \in Nat /\ (e = 0 \/ e > j)
        BY <3>4
      <4> HIDE DEF e
      <4>2. e = 0 \/ e > i
        BY <3>2, <4>1
      <4> QED
        BY <4>2 DEF e
    <3>6. Fits(token, i, D)
      BY <3>3, <3>5 DEF Fits
    <3>7. token = HexLiteral(s, i + 2)
      BY <3>2 DEF token
    <3> QED
      BY <3>6, <3>7
  <2> HIDE DEF c
  <2>6. CASE c \in Punctuation
    BY <1>1, <1>5, <2>2, <2>6, StartsApart
  <2>7. CASE c \notin Punctuation /\ c = "@"
    BY <1>1, <1>5, <2>3, <2>7, StartsApart
  <2>8. CASE c \notin Punctuation /\ c # "@" /\ c \in Quotes
    BY <1>1, <1>5, <2>4, <2>8, StartsApart
  <2>9. CASE c \notin Punctuation /\ c # "@" /\ c \notin Quotes /\ c \in NumIdInitChars
    BY <1>1, <1>5, <2>3, <2>5, <2>9, StartsApart
  <2>10. CASE /\ c \notin Punctuation /\ c # "@" /\ c \notin Quotes
              /\ c \notin NumIdInitChars /\ c \in IdentInitChars
    BY <1>1, <1>5, <2>3, <2>10, StartsApart
  <2>11. CASE /\ c \notin Punctuation /\ c # "@" /\ c \notin Quotes
              /\ c \notin NumIdInitChars /\ c \notin IdentInitChars
    BY <1>1, <1>2, <1>5, <2>11
  <2> QED
    BY <2>6, <2>7, <2>8, <2>9, <2>10, <2>11
<1> QED
  BY <1>3, <1>4, <1>5

LEMMA NextTokenIs ==
    ASSUME NEW D, "\n" \in D, NEW s \in Seq(D), NEW j \in Nat
    PROVE  /\ Fits(NextToken(s, j), Skipped(s, j), D)
           /\ NextToken(s, j).end \in Nat
           /\ j \in 1..Len(s) => NextToken(s, j).end = 0 \/ NextToken(s, j).end > j
           /\ j \notin 1..Len(s) => NextToken(s, j).end = 0
           /\ j \notin 1..Len(s) /\ j # 0 => NextToken(s, j) = Token("EOS", <<>>, 0)
<1> DEFINE i == Skipped(s, j)
           token == TokenAt(s, i)
<1>1. i \in Nat /\ (i = 0 \/ i >= j)
  BY SkippedIs
<1>2. Fits(token, i, D)
  <2> HIDE DEF i
  <2> QED
    BY <1>1, TokenAtFits
<1>3. token.end \in Nat /\ (token.end = 0 \/ token.end > i)
  BY <1>2 DEF Fits
<1>4. "EOF" \notin Blanks \cup {"/"} \cup Punctuation \cup NumIdInitChars \cup IdentInitChars
                   \cup Quotes \cup {"@"}
  BY EndIsNone, NoEndWithin DEF Blanks, Punctuation, NumIdInitChars, NumIdChars, IdentChars
<1>5. ASSUME i = 0
      PROVE  token = CutOff
  <2>1. Char(s, 0) = "EOF"
    BY CharFacts
  <2> QED
    BY <1>4, <1>5, <2>1 DEF TokenAt
<1>6. CutOff.end = 0 /\ Token("EOS", <<>>, 0).end = 0
  BY DEF CutOff, Token
<1>7. CASE j \in 1..Len(s)
  <2> DEFINE e == token.end
  <2>1. e \in Nat /\ (e = 0 \/ e > i) /\ (i = 0 => e = 0)
    BY <1>3, <1>5, <1>6
  <2> HIDE DEF e, i
  <2>2. e = 0 \/ e > j
    BY <1>1, <2>1
  <2> QED
    BY <1>2, <1>3, <1>7, <2>2 DEF e, i, NextToken
<1>8. CASE j \notin 1..Len(s) /\ j = 0
  <2>1. i = 0
    BY <1>8, SkippedIs
  <2> QED
    BY <1>2, <1>3, <1>5, <1>6, <1>8, <2>1 DEF NextToken
<1>9. CASE j \notin 1..Len(s) /\ j # 0
  <2>1. Char(s, j) = "EOF"
    BY <1>9, CharFacts
  <2>2. i = j
    BY <1>4, <1>9, <2>1, SkippedIs
  <2>3. TokenAt(s, j) = Token("EOS", <<>>, 0)
    BY <1>4, <1>9, <2>1 DEF TokenAt
  <2> QED
    BY <1>2, <1>3, <1>6, <1>9, <2>2, <2>3 DEF NextToken
<1> QED
  BY <1>7, <1>8, <1>9

\* All tokens that a text could have.
TokensOf(s) == {NextToken(s, j) : j \in Nat}

LEMMA TokensTable ==
    ASSUME NEW D, "\n" \in D, NEW s \in Seq(D)
    PROVE  \E from \in [Nat -> Seq(TokensOf(s))] :
              /\ \A i : TokensFrom(s, i) = from[i]
              /\ \A i \in Nat : from[i] = TokensEntry(s, i, from)
<1> DEFINE from[j \in Nat] ==
              LET token == TokenAt(s, Skipped(s, j))
              IN  <<token>> \o (IF token.end = 0 THEN <<>> ELSE from[token.end])
           V == Seq(TokensOf(s))
           G == [p \in Nat \X [Nat -> V] |-> TokensEntry(s, p[1], p[2])]
<1>1. ASSUME NEW j \in Nat, NEW f \in [Nat -> V]
      PROVE  TokensEntry(s, j, f) \in V
  <2> DEFINE t == NextToken(s, j)
             w == IF t.end = 0 THEN <<>> ELSE f[t.end]
  <2>1. t \in TokensOf(s) /\ t.end \in Nat
    BY NextTokenIs DEF TokensOf
  <2>2. w \in Seq(TokensOf(s))
    <3>1. <<>> \in Seq(TokensOf(s))
      OBVIOUS
    <3> HIDE DEF t
    <3> QED
      BY <2>1, <3>1
  <2>3. TokensEntry(s, j, f) = <<t>> \o w
    BY DEF TokensEntry, NextToken
  <2> HIDE DEF t, w
  <2>4. <<t>> \o w \in Seq(TokensOf(s))
    BY <2>1, <2>2
  <2> QED
    BY <2>3, <2>4
<1>2. /\ G \in [Nat \X [Nat -> V] -> V]
      /\ \A j \in Nat, f \in [Nat -> V] : G[<<j, f>>] = TokensEntry(s, j, f)
  <2> HIDE DEF V
  <2> QED
    BY <1>1
<1> HIDE DEF G
<1>3. ASSUME NEW j \in Nat, NEW f, NEW g,
             j \in 1..Len(s) => \A k \in Nat : k = 0 \/ k > j => f[k] = g[k]
      PROVE  TokensEntry(s, j, f) = TokensEntry(s, j, g)
  <2> DEFINE t == NextToken(s, j)
  <2>1. /\ t.end \in Nat
        /\ j \in 1..Len(s) => t.end = 0 \/ t.end > j
        /\ j \notin 1..Len(s) => t.end = 0
    BY NextTokenIs
  <2>2. \A h : TokensEntry(s, j, h) = <<t>> \o (IF t.end = 0 THEN <<>> ELSE h[t.end])
    BY DEF TokensEntry, NextToken
  <2> HIDE DEF t
  <2>3. t.end = 0 \/ f[t.end] = g[t.end]
    BY <1>3, <2>1
  <2>4. TokensEntry(s, j, f) = <<t>> \o (IF t.end = 0 THEN <<>> ELSE f[t.end])
    BY <2>2
  <2>5. TokensEntry(s, j, g) = <<t>> \o (IF t.end = 0 THEN <<>> ELSE g[t.end])
    BY <2>2
  <2>6. (IF t.end = 0 THEN <<>> ELSE f[t.end]) = (IF t.end = 0 THEN <<>> ELSE g[t.end])
    BY <2>3
  <2> QED
    BY <2>4, <2>5, <2>6
<1>4. LooksForward(G, Len(s), V)
  <2> SUFFICES ASSUME NEW j \in Nat, NEW f \in [Nat -> V], NEW g \in [Nat -> V],
                      j \in 1..Len(s) => \A k \in Nat : k = 0 \/ k > j => f[k] = g[k]
               PROVE  G[<<j, f>>] = G[<<j, g>>]
    BY DEF LooksForward
  <2>1. TokensEntry(s, j, f) = TokensEntry(s, j, g)
    BY <1>3
  <2> HIDE DEF V
  <2> QED
    BY <1>2, <2>1
<1>5. V # {} /\ Len(s) \in Nat
  <2>1. <<>> \in V
    OBVIOUS
  <2> HIDE DEF V
  <2> QED
    BY <2>1
<1> HIDE DEF V
<1>6. PICK f \in [Nat -> V] : Solves(f, G, Nat)
  BY <1>2, <1>4, <1>5, ForwardRecursion
<1>7. f = [j \in Nat |-> TokensEntry(s, j, f)]
  BY <1>2, <1>6 DEF Solves
<1>8. from = [j \in Nat |-> TokensEntry(s, j, from)]
  BY <1>7, Zenon DEF TokensEntry
<1>9. \A i : TokensFrom(s, i) = from[i]
  BY DEF TokensFrom
<1> HIDE DEF from
<1>10. \A j \in Nat : from[j] = f[j]
  <2>1. AgreeForward(from, f, Len(s))
    <3> SUFFICES ASSUME NEW j \in Nat,
                        j \in 1..Len(s) => \A k \in Nat : k = 0 \/ k > j => from[k] = f[k]
                 PROVE  from[j] = f[j]
      BY DEF AgreeForward
    <3>1. TokensEntry(s, j, from) = TokensEntry(s, j, f)
      BY <1>3
    <3> QED
      BY <1>7, <1>8, <3>1
  <2> QED
    BY <1>5, <2>1, ForwardAgreement
<1>11. from = f
  <2>1. from = [j \in Nat |-> from[j]]
    BY <1>8
  <2>2. f = [j \in Nat |-> f[j]]
    OBVIOUS
  <2> QED
    BY <1>10, <2>1, <2>2
<1>12. \A i \in Nat : f[i] = TokensEntry(s, i, f)
  BY <1>7
<1>13. \A i : TokensFrom(s, i) = f[i]
  BY <1>9, <1>11
<1>14. f \in [Nat -> Seq(TokensOf(s))]
  BY DEF V
<1> QED
  BY <1>12, <1>13, <1>14

\* Tokens one after another.
LEMMA TokensFromIs ==
    ASSUME NEW D, "\n" \in D, NEW s \in Seq(D), NEW i \in Nat
    PROVE  /\ TokensFrom(s, i) \in Seq(TokensOf(s))
           /\ TokensFrom(s, i) = <<NextToken(s, i)>> \o
                 (IF NextToken(s, i).end = 0 THEN <<>> ELSE TokensFrom(s, NextToken(s, i).end))
<1>1. PICK from \in [Nat -> Seq(TokensOf(s))] :
              /\ \A j : TokensFrom(s, j) = from[j]
              /\ \A j \in Nat : from[j] = TokensEntry(s, j, from)
  BY TokensTable
<1>2. from[i] = <<NextToken(s, i)>> \o
         (IF NextToken(s, i).end = 0 THEN <<>> ELSE from[NextToken(s, i).end])
  BY <1>1 DEF TokensEntry, NextToken
<1>3. from[i] \in Seq(TokensOf(s))
  OBVIOUS
<1> QED
  BY <1>1, <1>2, <1>3

LEMMA TokensIs ==
    ASSUME NEW D, "\n" \in D, NEW s \in Seq(D)
    PROVE  /\ Tokens(s) \in Seq(TokensOf(s)) /\ Len(Tokens(s)) # 0
           /\ Tokens(s)[1] = NextToken(s, 1)
<1> DEFINE t == NextToken(s, 1)
           w == IF t.end = 0 THEN <<>> ELSE TokensFrom(s, t.end)
<1>1. t \in TokensOf(s) /\ t.end \in Nat
  BY NextTokenIs DEF TokensOf
<1>2. w \in Seq(TokensOf(s))
  <2>1. t.end # 0 => TokensFrom(s, t.end) \in Seq(TokensOf(s))
    <3> HIDE DEF t
    <3> QED
      BY <1>1, TokensFromIs
  <2>2. <<>> \in Seq(TokensOf(s))
    OBVIOUS
  <2> QED
    BY <2>1, <2>2
<1>3. Tokens(s) = <<t>> \o w
  BY TokensFromIs DEF Tokens
<1> HIDE DEF t, w
<1>4. /\ <<t>> \o w \in Seq(TokensOf(s)) /\ Len(<<t>> \o w) # 0
      /\ (<<t>> \o w)[1] = t
  BY <1>1, <1>2
<1> QED
  BY <1>3, <1>4 DEF t

----------------------------------------------------------------------------
(* The inductive invariant: a property that was loaded is the value of the *)
(* text's one token, in an environment that there may have been.           *)

\* What texts are made of, and string literals in them.
Alphabet == UNION {alphabet[1] : alphabet \in Alphabets}

Chars == Alphabet \cup {"\n"}

IsEnv(e) == DOMAIN e \subseteq Variables /\ \A v \in DOMAIN e : e[v] \in Contents

OneValue(chars) ==
    /\ Len(Tokens(chars)) = 2
    /\ Tokens(chars)[1].type \in ValueTokens
    /\ Tokens(chars)[2].type = "EOS"

LoadedFrom(chars, v) ==
    /\ OneValue(chars)
    /\ \E e : IsEnv(e) /\ v = ValueOf(Tokens(chars)[1], e)

LitInv ==
    /\ text \in Seq(Alphabet)
    /\ IsEnv(env)
    /\ Exists => LoadedFrom(text, prop)

LEMMA TextIs == LitInv => text \in Seq(Chars)
<1>1. Alphabet \subseteq Chars
  BY DEF Chars
<1> QED
  BY <1>1, SeqMonotonic DEF LitInv

LEMMA InvInit == Init => LitInv
<1> SUFFICES ASSUME Init
             PROVE  LitInv
  OBVIOUS
<1>1. text = <<>> /\ <<>> \in Seq(Alphabet)
  BY DEF Init
<1>2. IsEnv(env)
  BY DEF Init, IsEnv
<1>3. ~Exists
  BY DEF Init, Exists
<1> QED
  BY <1>1, <1>2, <1>3 DEF LitInv

LEMMA InvNext == LitInv /\ [Next]_vars => LitInv'
<1> SUFFICES ASSUME LitInv, [Next]_vars
             PROVE  LitInv'
  OBVIOUS
<1>1. CASE Write
  <2>1. PICK alphabet \in Alphabets : \E c \in alphabet[1] :
            /\ prop = None /\ text' = Append(text, c) /\ UNCHANGED <<prop, env>>
    BY <1>1 DEF Write
  <2>2. PICK c \in alphabet[1] :
            prop = None /\ text' = Append(text, c) /\ UNCHANGED <<prop, env>>
    BY <2>1
  <2>3. c \in Alphabet
    BY DEF Alphabet
  <2>4. text' \in Seq(Alphabet)
    BY <2>2, <2>3 DEF LitInv
  <2>5. ~Exists'
    BY <2>2 DEF Exists
  <2> QED
    BY <2>2, <2>4, <2>5 DEF LitInv, IsEnv
<1>2. CASE LoadSetting
  <2>1. /\ Len(Tokens(text)) = 2 /\ Tokens(text)[1].type \in ValueTokens
        /\ Tokens(text)[2].type = "EOS"
        /\ prop' = ValueOf(Tokens(text)[1], env) /\ UNCHANGED <<text, env>>
    BY <1>2 DEF LoadSetting
  <2>2. LoadedFrom(text, prop')
    BY <2>1 DEF LoadedFrom, OneValue, LitInv
  <2>3. LoadedFrom(text', prop')
    BY <2>1, <2>2
  <2>4. IsEnv(env') /\ text' \in Seq(Alphabet)
    BY <2>1 DEF LitInv
  <2> QED
    BY <2>3, <2>4 DEF LitInv, LoadedFrom, OneValue, IsEnv
<1>3. CASE SetVariable
  <2>1. PICK v \in Variables, content \in Contents :
            /\ env' = [w \in DOMAIN env \cup {v} |-> IF w = v THEN content ELSE env[w]]
            /\ UNCHANGED <<text, prop>>
    BY <1>3 DEF SetVariable
  <2>2. IsEnv(env')
    BY <2>1 DEF LitInv, IsEnv
  <2>3. Exists' => LoadedFrom(text', prop')
    BY <2>1 DEF LitInv, Exists
  <2> QED
    BY <2>1, <2>2, <2>3 DEF LitInv, LoadedFrom, OneValue, IsEnv
<1>4. CASE UNCHANGED vars
  <2>1. text' = text /\ prop' = prop /\ env' = env
    BY <1>4 DEF vars
  <2> QED
    BY <2>1 DEF LitInv, LoadedFrom, OneValue, IsEnv, Exists
<1> QED
  BY <1>1, <1>2, <1>3, <1>4 DEF Next

(***************************************************************************)
(* A property that was loaded is for good the value of the one token of    *)
(* its text.                                                               *)
(***************************************************************************)
THEOREM LoadedFromItsText == Spec => []LitInv
<1>1. Init => LitInv
  BY InvInit
<1>2. LitInv /\ [Next]_vars => LitInv'
  BY InvNext
<1> QED
  BY <1>1, <1>2, PTL DEF Spec

----------------------------------------------------------------------------
(* Values.                                                                 *)

\* The values that there are.
IsIntValue(v)    == \E n \in LongMin..LongMax : v = IntValue(n)
IsDoubleValue(v) == \E d \in Decimals : Stripped(d) /\ v = DoubleValue(d)
IsBoolValue(v)   == \E b \in BOOLEAN : v = BoolValue(b)
IsStringValue(v) ==
    \E elems \in Seq(Elements(Chars)) : \E e : IsEnv(e) /\ v = StringValue(elems, e)

LEMMA ValueIs ==
    ASSUME NEW chars \in Seq(Chars), NEW v, LoadedFrom(chars, v)
    PROVE  IsIntValue(v) \/ IsDoubleValue(v) \/ IsBoolValue(v) \/ IsStringValue(v)
<1> DEFINE token == NextToken(chars, 1)
<1>1. "\n" \in Chars
  BY DEF Chars
<1>2. Tokens(chars)[1] = token
  BY <1>1, TokensIs
<1>3. Fits(token, Skipped(chars, 1), Chars)
  BY <1>1, NextTokenIs
<1> HIDE DEF token
<1>4. PICK e : IsEnv(e) /\ v = ValueOf(token, e) /\ token.type \in ValueTokens
  BY <1>2 DEF LoadedFrom, OneValue
<1>5. v = CASE token.type = "INT"    -> IntValue(token.value)
            [] token.type = "DOUBLE" -> DoubleValue(token.value)
            [] token.type = "STRING" -> StringValue(token.value, e)
            [] token.type = "IDENT" /\ token.value = <<"true">>  -> BoolValue(TRUE)
            [] token.type = "IDENT" /\ token.value = <<"false">> -> BoolValue(FALSE)
            [] OTHER -> StringValue(<<Plain(token.value)>>, e)
  BY <1>4 DEF ValueOf
<1>6. CASE token.type = "INT"
  <2>1. v = IntValue(token.value)
    BY <1>5, <1>6
  <2>2. token.value \in LongMin..LongMax
    BY <1>3, <1>6 DEF Fits
  <2> QED
    BY <2>1, <2>2 DEF IsIntValue
<1>7. CASE token.type = "DOUBLE"
  <2>1. v = DoubleValue(token.value)
    BY <1>5, <1>7
  <2>2. token.value \in Decimals /\ Stripped(token.value)
    BY <1>3, <1>7 DEF Fits
  <2> QED
    BY <2>1, <2>2 DEF IsDoubleValue
<1>8. CASE token.type = "STRING"
  <2>1. v = StringValue(token.value, e)
    BY <1>5, <1>8
  <2>2. token.value \in Seq(Elements(Chars))
    BY <1>3, <1>8 DEF Fits
  <2> QED
    BY <1>4, <2>1, <2>2 DEF IsStringValue
<1>9. CASE token.type = "IDENT" /\ token.value = <<"true">>
  <2>1. token.value # <<"false">>
    BY <1>9
  <2>2. v = BoolValue(TRUE)
    BY <1>5, <1>9, <2>1
  <2> QED
    BY <2>2 DEF IsBoolValue
<1>10. CASE token.type = "IDENT" /\ token.value = <<"false">>
  <2>1. token.value # <<"true">>
    BY <1>10
  <2>2. v = BoolValue(FALSE)
    BY <1>5, <1>10, <2>1
  <2> QED
    BY <2>2 DEF IsBoolValue
<1>11. CASE /\ token.type \in {"NUMID", "IDENT"}
            /\ ~(token.type = "IDENT" /\ token.value = <<"true">>)
            /\ ~(token.type = "IDENT" /\ token.value = <<"false">>)
  <2>1. v = StringValue(<<Plain(token.value)>>, e)
    BY <1>5, <1>11
  <2>2. token.value \in Seq(Chars)
    BY <1>3, <1>11 DEF Fits
  <2> DEFINE p == Plain(token.value)
  <2>3. p \in Elements(Chars)
    BY <2>2, ElementIs
  <2> HIDE DEF p
  <2>4. <<p>> \in Seq(Elements(Chars))
    BY <2>3
  <2> QED
    BY <1>4, <2>1, <2>4 DEF IsStringValue, p
<1> QED
  BY <1>4, <1>6, <1>7, <1>8, <1>9, <1>10, <1>11 DEF ValueTokens

----------------------------------------------------------------------------
(* Lookups.                                                                *)

(***************************************************************************)
(* What the lookups answer of a property once it is loaded, they answer    *)
(* for good, whatever the process does to its environment.                 *)
(***************************************************************************)
THEOREM LoadedOnceAlways == Spec => LoadedOnce
<1> DEFINE Step == [Exists => \A T \in Types : /\ Get(T)' = Get(T)
                                               /\ GetT(T)' = GetT(T)]_vars
<1>1. [Next]_vars => Step
  <2> SUFFICES ASSUME Next, Exists, NEW T \in Types
               PROVE  Get(T)' = Get(T) /\ GetT(T)' = GetT(T)
    OBVIOUS
  <2>1. prop' = prop
    <3>1. prop # None
      BY DEF Exists
    <3> QED
      BY <3>1 DEF Next, Write, LoadSetting, SetVariable
  <2>2. Get(T)' = Get(T)
    BY <2>1 DEF Get, Exists, Text, AsString, Cast
  <2>3. GetT(T)' = GetT(T)
    BY <2>1 DEF GetT, Exists, Text, AsString
  <2> QED
    BY <2>2, <2>3
<1> QED
  BY <1>1, PTL DEF Spec, LoadedOnce

\* Whether the text was all of a value, and what is read of it.
LEMMA CoercionSays ==
    ASSUME NEW T \in Types, NEW chars
    PROVE  CoerceString(T, chars).ok \in BOOLEAN
<1>1. \A ok, dest : Read(ok, dest).ok = ok
  BY DEF Read
<1>2. \A bits : ReadInt(chars, bits).ok \in BOOLEAN
  BY <1>1 DEF ReadInt
<1>3. ReadDouble(chars).ok \in BOOLEAN
  BY <1>1 DEF ReadDouble, DoubleRead
<1>4. ReadBool(chars).ok \in BOOLEAN
  <2>1. CASE chars = <<"true">>
    <3>1. <<"true">> # <<"false">>
      OBVIOUS
    <3>2. ReadBool(chars) = Read(TRUE, TRUE)
      BY <2>1, <3>1 DEF ReadBool
    <3> QED
      BY <1>1, <3>2
  <2>2. CASE chars = <<"false">>
    <3>1. <<"true">> # <<"false">>
      OBVIOUS
    <3>2. ReadBool(chars) = Read(TRUE, FALSE)
      BY <2>2, <3>1 DEF ReadBool
    <3> QED
      BY <1>1, <3>2
  <2>3. CASE chars # <<"true">> /\ chars # <<"false">>
    <3>1. ReadBool(chars) = Read(FALSE, None)
      BY <2>3 DEF ReadBool
    <3> QED
      BY <1>1, <3>1
  <2> QED
    BY <2>1, <2>2, <2>3
<1>5. CASE T = "int"
  BY <1>2, <1>5 DEF CoerceString
<1>6. CASE T = "double"
  BY <1>3, <1>6 DEF CoerceString
<1>7. CASE T = "bool"
  BY <1>4, <1>7 DEF CoerceString
<1>8. CASE T = "string"
  BY <1>1, <1>8 DEF CoerceString
<1> QED
  BY <1>5, <1>6, <1>7, <1>8 DEF Types

LEMMA BoolReadBack ==
    ASSUME NEW b \in BOOLEAN
    PROVE  ReadBool(IF b THEN <<"true">> ELSE <<"false">>) = Read(TRUE, b)
<1>1. <<"true">> # <<"false">>
  OBVIOUS
<1>2. CASE b = TRUE
  BY <1>1, <1>2 DEF ReadBool
<1>3. CASE b = FALSE
  BY <1>1, <1>3 DEF ReadBool
<1> QED
  BY <1>2, <1>3

\* Which value a property has, by which the lookups tell its type.
LEMMA WhichIs ==
    ASSUME NEW v
    PROVE  /\ IsIntValue(v) => v.which = "Int"
           /\ IsDoubleValue(v) => v.which = "Double"
           /\ IsBoolValue(v) => v.which = "Bool"
           /\ IsStringValue(v) => v.which = "String"
  BY DEF IsIntValue, IsDoubleValue, IsBoolValue, IsStringValue,
         IntValue, DoubleValue, BoolValue, StringValue, Value

\* A value that is answered as it is agrees with its text, but for the digits
\* that the text has not.
LEMMA AnsweredAlike ==
    ASSUME LitInv, Exists, NEW T \in Types
    PROVE  /\ Cast(T, prop, env).ok = CoerceString(T, prop.text).ok
           /\ T # "string" /\ ~Long(T) => Cast(T, prop, env) = CoerceString(T, prop.text)
<1>1. IsIntValue(prop) \/ IsDoubleValue(prop) \/ IsBoolValue(prop) \/ IsStringValue(prop)
  BY ValueIs, TextIs DEF LitInv
<1>2. CASE T = "double" /\ prop.which = "Double"
  <2>1. IsDoubleValue(prop)
    BY <1>1, <1>2, WhichIs
  <2>2. PICK d \in Decimals : Stripped(d) /\ prop = DoubleValue(d)
    BY <2>1 DEF IsDoubleValue
  <2>3. prop.raw = d /\ prop.text = DoubleText(d)
    BY <2>2 DEF DoubleValue, Value
  <2>4. CoerceString(T, prop.text) = Read(TRUE, Rounded(d))
    BY <1>2, <2>2, <2>3, DoubleReadBack DEF CoerceString
  <2>5. Cast(T, prop, env) = Read(TRUE, d)
    BY <1>2, <2>3 DEF Cast
  <2>6. ~Long(T) => Rounded(d) = d
    <3>1. Long(T) <=> Spread(d) > 0
      BY <1>2, <2>3 DEF Long
    <3>2. ~(Spread(d) > 0) => Rounded(d) = d
      BY <2>2, RoundedIs
    <3> QED
      BY <3>1, <3>2
  <2>7. Cast(T, prop, env).ok = TRUE /\ CoerceString(T, prop.text).ok = TRUE
    BY <2>4, <2>5 DEF Read
  <2>8. ~Long(T) => Cast(T, prop, env) = CoerceString(T, prop.text)
    BY <2>4, <2>5, <2>6
  <2> QED
    BY <2>7, <2>8
<1>3. CASE T = "bool" /\ prop.which = "Bool"
  <2>1. IsBoolValue(prop)
    BY <1>1, <1>3, WhichIs
  <2>2. PICK b \in BOOLEAN : prop = BoolValue(b)
    BY <2>1 DEF IsBoolValue
  <2>3. prop.raw = b /\ prop.text = IF b THEN <<"true">> ELSE <<"false">>
    BY <2>2 DEF BoolValue, Value
  <2>4. CoerceString(T, prop.text) = Read(TRUE, b)
    BY <1>3, <2>3, BoolReadBack DEF CoerceString
  <2>5. Cast(T, prop, env) = Read(TRUE, b)
    BY <1>3, <2>3 DEF Cast
  <2> QED
    BY <2>4, <2>5
<1>4. CASE ~(T = "double" /\ prop.which = "Double") /\ ~(T = "bool" /\ prop.which = "Bool")
  <2>1. Cast(T, prop, env) = CoerceString(T, prop.text)
    BY <1>4 DEF Cast, AsString
  <2> QED
    BY <2>1
<1> QED
  BY <1>2, <1>3, <1>4

LEMMA AgreeNow ==
    ASSUME LitInv
    PROVE  FlavoursAgree
<1> SUFFICES ASSUME NEW T \in Types
             PROVE  LET good == Get(T).says = "value"
                    IN  /\ Get(T).says = GetT(T).says
                        /\ ~Long(T) => Get(T) = GetT(T)
                        /\ Exists => GetOr(T, None) = Get(T)
                        /\ good => /\ GetInto(T, None) = Answers(TRUE, Get(T).x)
                                   /\ GetTOr(T, None) = GetT(T)
                                   /\ GetTInto(T, None) = Answers(TRUE, GetT(T).x)
                        /\ ~good => /\ GetInto(T, None).x = None
                                    /\ GetTOr(T, None) = Answers("value", None)
                                    /\ GetTInto(T, None).says = FALSE
  BY DEF FlavoursAgree
<1> DEFINE cast == Cast(T, prop, env)
           read == CoerceString(T, prop.text)
<1>2. read.ok \in BOOLEAN
  BY CoercionSays
<1>3. CASE ~Exists
  <2>1. Get(T) = Answers("no_such_property", None) /\ GetT(T) = Answers("no_such_property", None)
    BY <1>3 DEF Get, GetT
  <2>2. GetInto(T, None) = Answers(FALSE, None) /\ GetTInto(T, None) = Answers(FALSE, None)
        /\ GetTOr(T, None) = Answers("value", None)
    BY <1>3 DEF GetInto, GetTInto, GetTOr
  <2>3. /\ Get(T).says = "no_such_property"
        /\ GetInto(T, None).x = None /\ GetTInto(T, None).says = FALSE
    BY <2>1, <2>2 DEF Answers
  <2> QED
    BY <1>3, <2>1, <2>2, <2>3
<1>4. CASE Exists /\ T = "string"
  <2>1. read.ok = TRUE /\ read.dest = prop.text
    BY <1>4 DEF CoerceString, Read
  <2>2. Get(T) = Answers("value", prop.text)
    BY <1>4 DEF Get, Text, AsString
  <2>3. GetT(T) = Answers("value", prop.text) /\ GetTOr(T, None) = Answers("value", prop.text)
    BY <1>4, <2>1 DEF GetT, GetTOr, Text, AsString
  <2>4. GetTInto(T, None) = Answers(TRUE, prop.text)
    BY <1>4, <2>1 DEF GetTInto, Text, AsString
  <2>5. /\ Get(T).says = "value" /\ Get(T).x = prop.text
        /\ GetT(T).x = prop.text
    BY <2>2, <2>3 DEF Answers
  <2>6. GetInto(T, None) = Answers(TRUE, prop.text)
    BY <1>4, <2>5 DEF GetInto
  <2>7. GetOr(T, None) = Get(T)
    BY <1>4 DEF GetOr
  <2> QED
    BY <2>2, <2>3, <2>4, <2>5, <2>6, <2>7
<1>5. CASE Exists /\ T # "string" /\ read.ok = TRUE
  <2>1. cast.ok = TRUE /\ (~Long(T) => cast = read)
    BY <1>5, AnsweredAlike
  <2>2. Get(T) = Answers("value", cast.dest)
    BY <1>5, <2>1 DEF Get
  <2>3. GetT(T) = Answers("value", read.dest) /\ GetTOr(T, None) = Answers("value", read.dest)
    BY <1>5 DEF GetT, GetTOr, Text, AsString
  <2>4. GetTInto(T, None) = Answers(TRUE, read.dest)
    BY <1>5 DEF GetTInto, Text, AsString
  <2>5. /\ Get(T).says = "value" /\ Get(T).x = cast.dest
        /\ GetT(T).says = "value" /\ GetT(T).x = read.dest
    <3> HIDE DEF cast, read
    <3> QED
      BY <2>2, <2>3 DEF Answers
  <2>6. GetInto(T, None) = Answers(TRUE, cast.dest)
    BY <1>5, <2>5 DEF GetInto
  <2>7. GetOr(T, None) = Get(T)
    BY <1>5 DEF GetOr
  <2> HIDE DEF cast, read
  <2> QED
    BY <2>1, <2>2, <2>3, <2>4, <2>5, <2>6, <2>7
<1>6. CASE Exists /\ T # "string" /\ read.ok = FALSE
  <2>1. cast.ok = FALSE
    BY <1>6, AnsweredAlike
  <2>2. Get(T) = Answers("bad_coercion", None)
    BY <1>6, <2>1 DEF Get
  <2>3. GetT(T) = Answers("bad_coercion", None) /\ GetTOr(T, None) = Answers("value", None)
    BY <1>6 DEF GetT, GetTOr, Text, AsString
  <2>4. GetTInto(T, None).says = FALSE
    <3>1. GetTInto(T, None) = Answers(FALSE, IF read.dest = None THEN None ELSE read.dest)
      BY <1>6 DEF GetTInto, Text, AsString
    <3> QED
      BY <3>1 DEF Answers
  <2>5. Get(T).says = "bad_coercion"
    BY <2>2 DEF Answers
  <2>6. GetInto(T, None) = Answers("bad_coercion", None)
    BY <1>6, <2>5 DEF GetInto
  <2>7. GetOr(T, None) = Get(T)
    BY <1>6 DEF GetOr
  <2>8. GetInto(T, None).x = None
    BY <2>6 DEF Answers
  <2> HIDE DEF cast, read
  <2> QED
    BY <2>2, <2>3, <2>4, <2>5, <2>6, <2>7, <2>8
<1> QED
  BY <1>2, <1>3, <1>4, <1>5, <1>6

(***************************************************************************)
(* The lookups of a type agree on whether they can answer and on what they *)
(* answer, getDouble and get<double> up to the digits that a stream        *)
(* prints.                                                                 *)
(***************************************************************************)
THEOREM FlavoursAgreeAlways == Spec => []FlavoursAgree
<1>1. LitInv => FlavoursAgree
  BY AgreeNow
<1> QED
  BY <1>1, LoadedFromItsText, PTL


----------------------------------------------------------------------------
(* Integers.                                                               *)

\* Digits with their weights denote what the lexer makes of them.
LEMMA DenotedIs ==
    ASSUME NEW base \in Nat, NEW chars \in Seq(HexDigits)
    PROVE  Denoted(base, chars) = Denotes(base, chars)
<1> DEFINE D == 0..Len(chars)
           T(n) == SubSeq(chars, 1, n)
           digit(n) == DigitValue[chars[n]]
           value(n, g) == IF n = 0 THEN 0
                          ELSE g[n - 1] + digit(n) * Power(base, Len(chars) - n)
           upTo[n \in D] == IF n = 0 THEN 0
                            ELSE upTo[n - 1] + digit(n) * Power(base, Len(chars) - n)
           h == [n \in D |-> Denotes(base, T(n)) * Power(base, Len(chars) - n)]
<1>1. Denoted(base, chars) = upTo[Len(chars)]
  BY DEF Denoted
<1>2. T(0) = <<>> /\ T(Len(chars)) = chars /\ Len(chars) \in Nat
  OBVIOUS
<1>3. ASSUME NEW n \in D
      PROVE  h[n] = value(n, h)
  <2>1. CASE n = 0
    <3>1. Denotes(base, T(0)) = 0 /\ Power(base, Len(chars)) \in Nat
      <4>1. <<>> \in Seq(HexDigits)
        OBVIOUS
      <4> QED
        BY <1>2, <4>1, DenotesNat, PowerIs
    <3>2. h[0] = Denotes(base, T(0)) * Power(base, Len(chars))
      OBVIOUS
    <3>3. \A x \in Nat : 0 * x = 0
      OBVIOUS
    <3> HIDE DEF T, h
    <3> QED
      BY <2>1, <3>1, <3>2, <3>3
  <2>2. CASE n # 0
    <3> DEFINE m == n - 1
               k == Len(chars) - n
    <3>1. m \in Nat /\ m \in D /\ m < Len(chars) /\ m + 1 = n /\ k \in Nat
          /\ Len(chars) - m = k + 1
      BY <2>2
    <3>2. T(m) \in Seq(HexDigits) /\ chars[n] \in HexDigits /\ T(n) = Append(T(m), chars[n])
      BY <3>1, PrefixFacts
    <3>3. h[n] = Denotes(base, T(n)) * Power(base, k)
          /\ h[m] = Denotes(base, T(m)) * Power(base, k + 1)
      BY <3>1
    <3> HIDE DEF T, h, m, k
    <3>4. Denotes(base, T(n)) = Denotes(base, T(m)) * base + digit(n)
      BY <3>2, DenotesAppend
    <3>5. Power(base, k) \in Nat /\ Power(base, k + 1) = base * Power(base, k)
      BY <3>1, PowerIs
    <3>6. Denotes(base, T(m)) \in Nat /\ digit(n) \in 0..15
      BY <3>2, DenotesNat, DigitFacts
    <3>7. \A x, d, p \in Nat : (x * base + d) * p = x * (base * p) + d * p
      OBVIOUS
    <3>8. digit(n) \in Nat
      BY <3>6
    <3> HIDE DEF digit
    <3>9. h[n] = h[m] + digit(n) * Power(base, k)
      BY <3>3, <3>4, <3>5, <3>6, <3>7, <3>8
    <3> QED
      BY <2>2, <3>9 DEF m, k
  <2> QED
    BY <2>1, <2>2
<1>4. h = [n \in D |-> value(n, h)]
  <2> HIDE DEF value, T
  <2>1. h = [n \in D |-> h[n]]
    OBVIOUS
  <2> HIDE DEF h
  <2> QED
    BY <1>3, <2>1
<1>5. h[Len(chars)] = Denotes(base, chars)
  <2>1. Len(chars) - Len(chars) = 0 /\ Len(chars) \in D
    OBVIOUS
  <2>2. Power(base, 0) = 1 /\ Denotes(base, chars) \in Nat
    BY PowerIs, DenotesNat
  <2>3. \A x \in Nat : x * 1 = x
    OBVIOUS
  <2> HIDE DEF D, T
  <2> QED
    BY <1>2, <2>1, <2>2, <2>3
<1> HIDE DEF h, digit
<1>6. upTo = [n \in D |-> value(n, upTo)]
  BY <1>4
<1> HIDE DEF upTo
<1>7. AgreeOnward(upTo, h, D)
  <2> SUFFICES ASSUME NEW n \in D, \A m \in D : m < n => upTo[m] = h[m]
               PROVE  upTo[n] = h[n]
    BY DEF AgreeOnward
  <2>1. n # 0 => n - 1 \in D /\ n - 1 < n
    OBVIOUS
  <2> QED
    BY <1>3, <1>6, <2>1
<1>8. D \in SUBSET Nat /\ Len(chars) \in D
  OBVIOUS
<1> HIDE DEF D
<1>9. upTo[Len(chars)] = h[Len(chars)]
  BY <1>7, <1>8, SameThroughout
<1> QED
  BY <1>1, <1>5, <1>9

\* No digits beyond the width of an int64_t, nothing wrapped.
LEMMA HexIs ==
    ASSUME NEW chars \in Seq(HexDigits), Denotes(16, chars) <= LongMax
    PROVE  Horner(16, chars, Wrapped) = Denotes(16, chars)
<1>1. PICK f \in [Nat -> Nat] : Tabulates(f, 16, chars, Same)
  <2>1. \A v \in Nat, d \in 0..15 : v * 16 + d \in Nat /\ v * 16 + d \in Int
    OBVIOUS
  <2>2. \A v \in Nat, d \in 0..15 : Same[v * 16 + d] \in Nat
    BY <2>1 DEF Same
  <2>3. Nat \in SUBSET Int /\ 0 \in Nat /\ 16 \in Nat
    OBVIOUS
  <2> QED
    BY <2>2, <2>3, TableExists
<1>2. f \in [Nat -> Int] /\ Len(chars) \in Nat /\ 16 \in Nat
  OBVIOUS
<1>3. Denotes(16, chars) = f[Len(chars)]
  BY <1>1, <1>2, DenotesIs
<1>4. ASSUME NEW n \in 0..(Len(chars) - 1)
      PROVE  /\ f[n] * 16 + DigitValue[chars[n + 1]] \in Int
             /\ f[n + 1] = f[n] * 16 + DigitValue[chars[n + 1]]
             /\ f[n] <= f[n + 1]
  <2> DEFINE d == DigitValue[chars[n + 1]]
  <2>1. d \in 0..15
    <3>1. n \in Nat /\ n < Len(chars) /\ 0 \in Int
      OBVIOUS
    <3> QED
      BY <1>2, <3>1, NextValue
  <2>2. f[n] \in Nat
    <3>1. n \in Nat
      OBVIOUS
    <3> QED
      BY <1>1, <3>1
  <2> HIDE DEF d
  <2>3. f[n] * 16 + d \in Int /\ f[n] <= f[n] * 16 + d
    <3>1. \A x \in Nat, y \in 0..15 : x * 16 + y \in Int /\ x <= x * 16 + y
      OBVIOUS
    <3> QED
      BY <2>1, <2>2, <3>1
  <2>4. f[n + 1] = f[n] * 16 + d
    BY <1>1, <2>3 DEF d, Tabulates, Same
  <2> QED
    BY <2>3, <2>4 DEF d
<1> DEFINE S == {k \in Nat : k <= Len(chars) => f[Len(chars) - k] <= f[Len(chars)]}
<1>5. Nat \subseteq S
  <2>1. 0 \in S
    <3>1. Len(chars) - 0 = Len(chars) /\ f[Len(chars)] \in Nat
      BY <1>2
    <3> QED
      BY <3>1
  <2>2. ASSUME NEW k \in Nat, k \in S
        PROVE  k + 1 \in S
    <3> SUFFICES ASSUME k + 1 <= Len(chars)
                 PROVE  f[Len(chars) - (k + 1)] <= f[Len(chars)]
      OBVIOUS
    <3> DEFINE n == Len(chars) - (k + 1)
    <3>1. n \in 0..(Len(chars) - 1) /\ n + 1 = Len(chars) - k /\ n \in Nat /\ n + 1 \in Nat
      BY SMTT(30)
    <3>2. f[n + 1] <= f[Len(chars)]
      BY <2>2, <3>1
    <3> HIDE DEF n
    <3>3. f[n] <= f[n + 1] /\ f[n] \in Nat /\ f[n + 1] \in Nat /\ f[Len(chars)] \in Nat
      BY <1>2, <1>4, <3>1
    <3>4. \A x, y, z \in Nat : x <= y /\ y <= z => x <= z
      OBVIOUS
    <3>5. f[n] <= f[Len(chars)]
      BY <3>2, <3>3, <3>4
    <3> QED
      BY <3>5 DEF n
  <2> HIDE DEF S
  <2> QED
    BY <2>1, <2>2, SimpleInduction
<1>6. Tabulates(f, 16, chars, Wrap)
  <2> SUFFICES ASSUME NEW n \in 0..(Len(chars) - 1)
               PROVE  f[n + 1] = Wrap[f[n] * 16 + DigitValue[chars[n + 1]]]
    BY <1>1 DEF Tabulates
  <2> DEFINE x == f[n] * 16 + DigitValue[chars[n + 1]]
             k == Len(chars) - (n + 1)
  <2>1. k \in Nat /\ k <= Len(chars) /\ Len(chars) - k = n + 1 /\ n + 1 \in Nat
    OBVIOUS
  <2>2. f[n + 1] <= f[Len(chars)]
    <3> HIDE DEF k
    <3>1. k \in S
      BY <1>5, <2>1
    <3> QED
      BY <2>1, <3>1
  <2>3. x \in Int /\ f[n + 1] = x /\ f[n + 1] \in Nat /\ f[Len(chars)] \in Nat
    BY <1>2, <1>4, <2>1
  <2> HIDE DEF x
  <2>4. x \in LongMin..LongMax
    <3>1. \A y, z, max \in Nat : y <= z /\ z <= max => y \in (-max - 1)..max
      OBVIOUS
    <3>2. f[Len(chars)] <= LongMax
      BY <1>3
    <3> QED
      BY <2>2, <2>3, <3>1, <3>2, LongLimits
  <2>5. Wrapped(x) = x
    BY <2>3, <2>4, WrappedType
  <2> QED
    BY <2>3, <2>5 DEF Wrap, x
<1>7. Horner(16, chars, Wrapped) = f[Len(chars)]
  BY <1>2, <1>6, WrappedIs
<1> QED
  BY <1>3, <1>7

\* The characters of an integer.
LEMMA IntegerChars ==
    ASSUME NEW sign \in Signs, NEW u \in Seq(Digits), u # <<>>
    PROVE  /\ sign \o u \in Seq(NumIdInitChars) /\ sign \o u # <<>>
           /\ Len(sign \o u) \in Nat \ {0}
           /\ (sign \o u)[1] \in NumIdInitChars
           /\ \A k \in 2..Len(sign \o u) : (sign \o u)[k] \in Digits
<1> DEFINE s == sign \o u
           S == NumIdInitChars
<1>1. Digits \subseteq S /\ "-" \in S /\ "+" \in S
  BY DEF NumIdInitChars
<1>2. u \in Seq(S)
  BY <1>1
<1>3. CASE sign = <<>>
  <2>1. s = u
    BY <1>3
  <2> QED
    BY <1>2, <2>1
<1>4. CASE sign # <<>>
  <2>1. PICK c \in S : sign = <<c>>
    BY <1>1, <1>4 DEF Signs
  <2> HIDE DEF S
  <2>2. s = <<c>> \o u
    BY <2>1
  <2>3. s \in Seq(S) /\ Len(s) = 1 + Len(u) /\ \A k \in 1..Len(u) : s[1 + k] = u[k]
    BY <1>2, <2>2
  <2>4. s[1] = c
    BY <1>2, <2>2
  <2> HIDE DEF s
  <2>5. ASSUME NEW k \in 2..Len(s)
        PROVE  s[k] \in Digits
    <3>1. k - 1 \in 1..Len(u) /\ 1 + (k - 1) = k
      BY <2>3
    <3>2. u[k - 1] \in Digits
      BY <3>1
    <3> QED
      BY <2>3, <3>1, <3>2
  <2>6. s # <<>> /\ Len(s) \in Nat \ {0}
    BY <2>3
  <2> QED
    BY <2>1, <2>3, <2>4, <2>5, <2>6 DEF s, S
<1> QED
  BY <1>3, <1>4

\* What an integer's text says.
IntegerText(chars, n) ==
    \E sign \in Signs, u \in Seq(Digits) \ {<<>>} :
        chars = sign \o u /\ n = IntOf(sign \o u)

\* What operator>> makes of an integer n, in so many bits.
IntRead(n, bits) ==
    IF n > MaxOf(bits) THEN Read(FALSE, MaxOf(bits))
    ELSE IF n < MinOf(bits) THEN Read(FALSE, MinOf(bits))
    ELSE Read(TRUE, n)

LEMMA IntegerReadBack ==
    ASSUME NEW chars, NEW n, IntegerText(chars, n)
    PROVE  /\ n \in Int
           /\ \A bits : ReadInt(chars, bits) = IntRead(n, bits)
           /\ \E d \in AsDoubles(n) : ReadDouble(chars) = Read(TRUE, d)
<1>1. PICK sign \in Signs, u \in Seq(Digits) \ {<<>>} :
          chars = sign \o u /\ n = IntOf(sign \o u)
  BY DEF IntegerText
<1> DEFINE s == sign \o u
           coef == Denotes(10, u)
           neg == (sign = <<"-">>)
<1>2. /\ n = (IF neg THEN -coef ELSE coef) /\ coef \in Nat /\ IsInt(s)
  BY <1>1, IntOfIs
<1>3. s \in Seq(NumIdInitChars) /\ s # <<>> /\ s[1] \notin Blanks
  <2>1. s \in Seq(NumIdInitChars) /\ s # <<>> /\ s[1] \in NumIdInitChars
    BY IntegerChars
  <2>2. \A c \in NumIdInitChars : c \notin Blanks
    BY DEF NumIdInitChars, Digits, Blanks
  <2> QED
    BY <2>1, <2>2
<1>4. Trimmed(s) = s
  <2> HIDE DEF s
  <2> QED
    BY <1>3, TrimmedIs
<1>5. IntPart(s) = s
  BY IntPartIs
<1>6. ASSUME NEW bits
      PROVE  ReadInt(s, bits) = IntRead(n, bits)
  <2> DEFINE part == IntPart(Trimmed(s))
             same == (part = Trimmed(s))
  <2>1. ReadInt(s, bits) =
           IF Trimmed(s) = <<>> THEN Read(FALSE, None)
           ELSE IF ~IsInt(part) THEN Read(FALSE, 0)
           ELSE IF IntOf(part) > MaxOf(bits) THEN Read(FALSE, MaxOf(bits))
           ELSE IF IntOf(part) < MinOf(bits) THEN Read(FALSE, MinOf(bits))
           ELSE Read(same, IntOf(part))
    BY DEF ReadInt
  <2> HIDE DEF s
  <2>2. part = s /\ same = TRUE
    BY <1>4, <1>5
  <2>3. n = IntOf(s)
    BY <1>1 DEF s
  <2> HIDE DEF same, part, neg, coef
  <2> QED
    BY <1>2, <1>3, <1>4, <2>1, <2>2, <2>3 DEF IntRead
<1>7. Reads(s, neg, coef, 0)
  <2>1. s = NumberText(sign, u, <<>>, <<>>, <<>>)
    <3>1. <<>> \o (<<>> \o <<>>) = <<>> /\ u \o <<>> = u
      OBVIOUS
    <3> QED
      BY <3>1 DEF NumberText
  <2>2. Written(sign, u, <<>>, <<>>)
    BY DEF Written
  <2>3. u \o <<>> = u /\ <<>> \in Seq(NumberChars) /\ Len(<<>>) = 0 /\ 0 \in Int /\ 0 + 0 = 0
    OBVIOUS
  <2>4. Exponent(<<>>, 0 + Len(<<>>))
    BY <2>3 DEF Exponent
  <2>5. /\ s = NumberText(sign, u, <<>>, <<>>, <<>>)
        /\ Written(sign, u, <<>>, <<>>)
        /\ neg \in BOOLEAN /\ neg = (sign = <<"-">>)
        /\ coef = Denotes(10, u \o <<>>)
        /\ <<>> \in Seq(NumberChars) /\ Exponent(<<>>, 0 + Len(<<>>))
        /\ 0 \in Int
    BY <2>1, <2>2, <2>3, <2>4
  <2> HIDE DEF s, neg, coef
  <2> QED
    BY <2>5 DEF Reads
<1>8. ReadDouble(s) = Read(TRUE, Decimal(neg, coef, 0))
  <2> HIDE DEF s, neg, coef
  <2> QED
    BY <1>7, ReadDoubleIs
<1>9. Decimal(neg, coef, 0) \in AsDoubles(n)
  <2>0. neg \in BOOLEAN
    OBVIOUS
  <2> HIDE DEF neg, coef
  <2>1. coef = IF n < 0 THEN -n ELSE n
    BY <1>2, <2>0
  <2>2. n = 0 \/ neg = (n < 0)
    BY <1>2, <2>0
  <2>3. neg \in IF n = 0 THEN BOOLEAN ELSE {n < 0}
    BY <2>0, <2>2
  <2> QED
    BY <2>1, <2>3 DEF AsDoubles
<1>10. n \in Int
  <2> HIDE DEF coef, neg
  <2> QED
    BY <1>2
<1> QED
  BY <1>1, <1>6, <1>8, <1>9, <1>10

\* An integer is read back from its text.
LEMMA IntTextIs ==
    ASSUME NEW n \in Int
    PROVE  IntegerText(IntText(n), n)
<1> DEFINE neg == n < 0
           coef == IF n < 0 THEN -n ELSE n
           sign == Minus(neg)
           u == DigitsOf(coef)
<1>1. coef \in Nat /\ neg \in BOOLEAN
  OBVIOUS
<1>2. n = IF neg THEN -coef ELSE coef
  OBVIOUS
<1>3. IntText(n) = sign \o u
  BY DEF IntText
<1> HIDE DEF coef, neg
<1>4. u \in Seq(Digits) \ {<<>>} /\ Denotes(10, u) = coef
  BY <1>1, DigitsDenote
<1>5. sign \in Signs /\ (sign = <<"-">>) = neg
  BY <1>1, MinusIs
<1>6. IntOf(sign \o u) = IF sign = <<"-">> THEN -Denotes(10, u) ELSE Denotes(10, u)
  <2> HIDE DEF u, sign
  <2> QED
    BY <1>4, <1>5, IntOfIs
<1>7. IntOf(sign \o u) = n
  BY <1>2, <1>4, <1>5, <1>6
<1> HIDE DEF u, sign
<1> QED
  BY <1>3, <1>4, <1>5, <1>7 DEF IntegerText

\* An int is narrower than an int64_t.
LEMMA PowersGrow ==
    ASSUME NEW m \in Nat
    PROVE  \A k \in Nat : /\ Power(2, m + k) \in Nat
                          /\ Power(2, m) <= Power(2, m + k)
                          /\ k # 0 => Power(2, m) < Power(2, m + k)
<1> DEFINE grows(k) == /\ Power(2, m + k) \in Nat
                       /\ Power(2, m) <= Power(2, m + k)
                       /\ k # 0 => Power(2, m) < Power(2, m + k)
           S == {k \in Nat : grows(k)}
<1>0. Power(2, m) \in Nat /\ Power(2, m) # 0
  BY PowerIs, PowerPositive
<1>1. 0 \in S
  <2>1. m + 0 = m
    OBVIOUS
  <2> QED
    BY <1>0, <2>1
<1>2. ASSUME NEW k \in Nat, k \in S
      PROVE  k + 1 \in S
  <2>1. m + (k + 1) = (m + k) + 1 /\ m + k \in Nat /\ 2 \in Nat
    OBVIOUS
  <2>2. Power(2, m + (k + 1)) = 2 * Power(2, m + k)
    BY <2>1, PowerIs
  <2>3. \A p, q \in Nat : p # 0 /\ p <= q => 2 * q \in Nat /\ p <= 2 * q /\ p < 2 * q
    OBVIOUS
  <2>4. Power(2, m + k) \in Nat /\ Power(2, m) <= Power(2, m + k)
    BY <1>2
  <2> QED
    BY <1>0, <2>2, <2>3, <2>4
<1>3. Nat \subseteq S
  <2> HIDE DEF S
  <2> QED
    BY <1>1, <1>2, SimpleInduction
<1> QED
  BY <1>3

LEMMA IntIsNarrow ==
    /\ IntMax \in Nat /\ IntMin = -IntMax - 1
    /\ LongMax \in Nat /\ LongMin = -LongMax - 1
    /\ IntMax < LongMax
    /\ MaxOf(IntBits) = IntMax /\ MinOf(IntBits) = IntMin
    /\ MaxOf(LongBits) = LongMax /\ MinOf(LongBits) = LongMin
<1> DEFINE m == IntBits - 1
           k == LongBits - IntBits
<1>1. m \in Nat /\ k \in Nat /\ k # 0 /\ m + k = LongBits - 1
  <2>1. LongBits \in Nat \ {0, 1}
    BY LexerAssumption
  <2>2. IntBits \in 2..(LongBits - 1)
    BY ValuesAssumption
  <2> QED
    BY <2>1, <2>2
<1>2. IntMax = Power(2, m) - 1 /\ LongMax = Power(2, m + k) - 1
  <2> HIDE DEF k
  <2> QED
    BY <1>1 DEF IntMax, MaxOf, LongMax
<1>3. Power(2, m) \in Nat \ {0}
  <2>1. 2 \in Nat /\ 2 # 0
    OBVIOUS
  <2> HIDE DEF m, k
  <2> QED
    BY <1>1, <2>1, PowerIs, PowerPositive
<1>4. Power(2, m + k) \in Nat /\ Power(2, m) < Power(2, m + k)
  <2> HIDE DEF m, k
  <2> QED
    BY <1>1, PowersGrow
<1>5. IntMax \in Nat /\ LongMax \in Nat /\ IntMax < LongMax
  <2>1. \A p \in Nat \ {0} : \A q \in Nat : p < q => p - 1 \in Nat /\ q - 1 \in Nat /\ p - 1 < q - 1
    OBVIOUS
  <2> HIDE DEF m, k
  <2> QED
    BY <1>2, <1>3, <1>4, <2>1
<1> QED
  BY <1>5 DEF IntMax, IntMin, LongMin, LongMax, MaxOf, MinOf

\* The lookups of a property with an integer's text.
LEMMA ExactlyIs ==
    ASSUME Exists, NEW n, IntegerText(prop.text, n), prop.which \in {"Int", "String"}
    PROVE  Exactly(n)
<1>1. /\ n \in Int
      /\ \A bits : ReadInt(prop.text, bits) = IntRead(n, bits)
  BY IntegerReadBack
<1>2. PICK d \in AsDoubles(n) : ReadDouble(prop.text) = Read(TRUE, d)
  BY IntegerReadBack
<1>3. Cast("int", prop, env) = IntRead(n, IntBits)
  <2>1. Cast("int", prop, env) = CoerceString("int", prop.text)
    BY DEF Cast, AsString
  <2> QED
    BY <1>1, <2>1 DEF CoerceString
<1>4. Cast("double", prop, env) = Read(TRUE, d)
  <2>1. Cast("double", prop, env) = CoerceString("double", prop.text)
    BY DEF Cast, AsString
  <2> QED
    BY <1>2, <2>1 DEF CoerceString
<1>5. CoerceString("long", Text) = IntRead(n, LongBits)
  BY <1>1 DEF CoerceString, Text, AsString
<1>6. \A x : Read(TRUE, x).ok = TRUE /\ Read(TRUE, x).dest = x /\ Read(FALSE, x).ok = FALSE
  BY DEF Read
<1>7. IF n \in IntMin..IntMax THEN Get("int") = Answers("value", n)
      ELSE Get("int").says = "bad_coercion"
  <2>1. Get("int") = IF Cast("int", prop, env).ok
                     THEN Answers("value", Cast("int", prop, env).dest)
                     ELSE Answers("bad_coercion", None)
    BY DEF Get
  <2>2. CASE n \in IntMin..IntMax
    <3>1. ~(n > MaxOf(IntBits)) /\ ~(n < MinOf(IntBits))
      <4>1. n <= IntMax /\ IntMin <= n
        BY <2>2, IntIsNarrow
      <4>2. \A x, y \in Int : x <= y => ~(x > y)
        OBVIOUS
      <4>3. \A x, y \in Int : y <= x => ~(x < y)
        OBVIOUS
      <4>4. IntMax \in Int /\ IntMin \in Int
        BY IntIsNarrow
      <4> QED
        BY <1>1, <4>1, <4>2, <4>3, <4>4, IntIsNarrow
    <3>2. IntRead(n, IntBits) = Read(TRUE, n)
      BY <3>1 DEF IntRead
    <3> QED
      BY <1>3, <1>6, <2>1, <2>2, <3>2
  <2>3. CASE n \notin IntMin..IntMax
    <3>1. n > IntMax \/ n < IntMin
      BY <1>1, <2>3, IntIsNarrow
    <3>2. IntRead(n, IntBits).ok = FALSE
      BY <1>6, <3>1, IntIsNarrow DEF IntRead
    <3>3. Get("int") = Answers("bad_coercion", None)
      BY <1>3, <2>1, <3>2
    <3> QED
      BY <2>3, <3>3 DEF Answers
  <2> QED
    BY <2>2, <2>3
<1>8. n \in LongMin..LongMax => GetT("long") = Answers("value", n)
  <2> SUFFICES ASSUME n \in LongMin..LongMax
               PROVE  GetT("long") = Answers("value", n)
    OBVIOUS
  <2>1. n <= LongMax /\ LongMin <= n /\ LongMax \in Int /\ LongMin \in Int
    BY IntIsNarrow
  <2>2. ~(n > LongMax) /\ ~(n < LongMin)
    BY <1>1, <2>1
  <2>3. CoerceString("long", Text) = Read(TRUE, n)
    BY <1>5, <2>2, IntIsNarrow DEF IntRead
  <2> QED
    BY <1>6, <2>3 DEF GetT
<1>9. Get("double") = Answers("value", d)
  BY <1>4, <1>6 DEF Get
<1> QED
  BY <1>7, <1>8, <1>9 DEF Exactly

----------------------------------------------------------------------------
(* What string literals say.                                               *)

AnyChar(D) == D \cup UNION {ToSet(content) : content \in Contents}

\* What an element says.
SaidBy(x, e) == IF ~x.isInterpolant THEN x.text
               ELSE IF x.text \in DOMAIN e THEN e[x.text] ELSE <<>>

LEMMA ContentIs ==
    ASSUME NEW D, NEW t \in Contents
    PROVE  t \in Seq(AnyChar(D))
<1>1. t \in Seq(STRING)
  BY LiteralsAssumption
<1>2. \A k \in 1..Len(t) : t[k] \in ToSet(t)
  BY <1>1 DEF ToSet
<1>3. ToSet(t) \subseteq AnyChar(D)
  BY DEF AnyChar
<1>4. AllIn(t, AnyChar(D))
  <2>1. DOMAIN t = 1..Len(t)
    BY <1>1
  <2> QED
    BY <1>2, <1>3, <2>1 DEF AllIn
<1> QED
  BY <1>1, <1>4, AllInIs

LEMMA SaidIs ==
    ASSUME NEW D, NEW x \in Elements(D), NEW e, IsEnv(e)
    PROVE  SaidBy(x, e) \in Seq(AnyChar(D))
<1>1. x.text \in Seq(AnyChar(D))
  <2>1. x.text \in Seq(D) /\ D \subseteq AnyChar(D)
    BY DEF Elements, AnyChar
  <2> QED
    BY <2>1, SeqMonotonic
<1>2. \A v \in DOMAIN e : e[v] \in Seq(AnyChar(D))
  <2> SUFFICES ASSUME NEW v \in DOMAIN e
               PROVE  e[v] \in Seq(AnyChar(D))
    OBVIOUS
  <2> DEFINE t == e[v]
  <2>1. t \in Contents
    BY DEF IsEnv
  <2> HIDE DEF t
  <2>2. t \in Seq(AnyChar(D))
    BY <2>1, ContentIs
  <2> QED
    BY <2>2 DEF t
<1>3. <<>> \in Seq(AnyChar(D))
  OBVIOUS
<1> QED
  BY <1>1, <1>2, <1>3 DEF SaidBy

\* What a literal with one more element says.
SaysMore(x, elems, e) ==
    Expanded(<<x>> \o elems, e) = SaidBy(x, e) \o Expanded(elems, e)

LEMMA ExpandedCons ==
    ASSUME NEW D, NEW x \in Elements(D), NEW elems \in Seq(Elements(D)), NEW e, IsEnv(e)
    PROVE  /\ Expanded(elems, e) \in Seq(AnyChar(D))
           /\ SaysMore(x, elems, e)
           /\ Expanded(<<>>, e) = <<>>
<1> DEFINE A == AnyChar(D)
           T == Seq(A)
           E == Elements(D)
           said(s) == [k \in DOMAIN s |-> SaidBy(s[k], e)]
           all == <<x>> \o elems
           a == SaidBy(x, e)
<1>1. \A s : Expanded(s, e) = FlattenSeq(said(s))
  BY DEF Expanded, SaidBy
<1>2. \A y \in E : SaidBy(y, e) \in T
  BY SaidIs
<1> HIDE DEF T
<1>3. \A s \in Seq(E) : said(s) \in Seq(T) /\ Len(said(s)) = Len(s)
  <2> HIDE DEF E
  <2> QED
    BY <1>2
<1>4. /\ all \in Seq(E) /\ Len(all) = Len(elems) + 1 /\ Len(elems) \in Nat
      /\ all[1] = x
      /\ \A n \in 1..Len(elems) : all[n + 1] = elems[n]
  BY ConsIs
<1> HIDE DEF all, a
<1> DEFINE s1 == said(elems)
           s2 == said(all)
           s3 == <<a>> \o s1
<1>5. s1 \in Seq(T) /\ Len(s1) = Len(elems) /\ s2 \in Seq(T) /\ Len(s2) = Len(elems) + 1
  BY <1>3, <1>4
<1>6. a \in T
  BY <1>2 DEF a
<1>7. /\ \A n \in 1..Len(elems) : s1[n] = SaidBy(elems[n], e)
      /\ \A n \in 1..(Len(elems) + 1) : s2[n] = SaidBy(all[n], e)
  <2>1. DOMAIN elems = 1..Len(elems) /\ DOMAIN all = 1..(Len(elems) + 1)
    BY <1>4
  <2> QED
    BY <2>1
<1> HIDE DEF s1, s2
<1>8. /\ s3 \in Seq(T) /\ Len(s3) = Len(elems) + 1 /\ s3[1] = a
      /\ \A n \in 1..Len(elems) : s3[n + 1] = s1[n]
  BY <1>5, <1>6, ConsIs
<1> HIDE DEF s3
<1>9. s2 = s3
  <2>1. ASSUME NEW n \in 1..(Len(elems) + 1)
        PROVE  s2[n] = s3[n]
    <3>1. CASE n = 1
      BY <1>4, <1>7, <1>8, <3>1 DEF a
    <3>2. CASE n # 1
      <4>1. n - 1 \in 1..Len(elems) /\ (n - 1) + 1 = n
        BY <1>4, <3>2
      <4>2. s3[n] = s1[n - 1] /\ all[n] = elems[n - 1]
        BY <1>4, <1>8, <4>1
      <4> QED
        BY <1>7, <4>1, <4>2
    <3> QED
      BY <3>1, <3>2
  <2>2. Len(s2) = Len(s3) /\ \A n \in 1..Len(s2) : s2[n] = s3[n]
    BY <1>5, <1>8, <2>1
  <2> QED
    BY <1>5, <1>8, <2>2, SeqEqual
<1>10. FlattenSeq(s1) \in Seq(A) /\ FlattenSeq(s3) = a \o FlattenSeq(s1)
  BY <1>5, <1>6, FlattenCons DEF T, s3
<1>11. Expanded(<<>>, e) = <<>>
  <2>1. said(<<>>) = <<>>
    OBVIOUS
  <2>2. FlattenSeq(<<>>) = <<>>
    BY FlattenCons, <1>5, <1>6 DEF T
  <2> QED
    BY <1>1, <2>1, <2>2
<1> QED
  BY <1>1, <1>9, <1>10, <1>11 DEF s1, s2, all, a, SaysMore

LEMMA PlainSaid ==
    ASSUME NEW D, NEW chars \in Seq(D), NEW token \in StringTokens(D),
           token.type = "STRING", NEW e, IsEnv(e)
    PROVE  Expanded(WithPlain(chars, token).value, e) = chars \o Expanded(token.value, e)
<1> DEFINE E == Elements(D)
           A == AnyChar(D)
           v == token.value
           w == IF v # <<>> /\ ~Head(v).isInterpolant
                THEN <<Plain(chars \o Head(v).text)>> \o Tail(v)
                ELSE <<Plain(chars)>> \o v
<1>1. /\ v \in Seq(E)
      /\ token = [type |-> token.type, value |-> token.value, end |-> token.end]
  BY DEF StringTokens
<1>2. chars \in Seq(A)
  <2>1. D \subseteq A
    BY DEF AnyChar
  <2> QED
    BY <2>1, SeqMonotonic
<1> DEFINE said == Expanded(v, e)
<1>3. said \in Seq(A)
  <2>1. Plain(chars) \in E
    BY ElementIs
  <2> HIDE DEF v
  <2> QED
    BY <1>1, <2>1, ExpandedCons
<1>4. CASE chars = <<>>
  <2>1. WithPlain(chars, token).value = v
    BY <1>4 DEF WithPlain
  <2>2. <<>> \o said = said
    <3> HIDE DEF said
    <3> QED
      BY <1>3
  <2> QED
    BY <1>4, <2>1, <2>2
<1>5. CASE chars # <<>>
  <2>1. WithPlain(chars, token) = [token EXCEPT !.value = w]
    BY <1>5 DEF WithPlain
  <2>2. WithPlain(chars, token).value = w
    <3> HIDE DEF w, v
    <3> QED
      BY <1>1, <2>1
  <2>3. CASE v # <<>> /\ ~Head(v).isInterpolant
    <3> DEFINE h == Head(v)
               rest == Tail(v)
               p == Plain(chars \o h.text)
    <3>1. h \in E /\ rest \in Seq(E) /\ v = <<h>> \o rest
      <4> HIDE DEF E, v
      <4> QED
        BY <1>1, <2>3
    <3>2. w = <<p>> \o rest
      BY <2>3
    <3>3. ~h.isInterpolant
      BY <2>3
    <3> HIDE DEF h, rest, v
    <3>4. h.text \in Seq(D) /\ chars \o h.text \in Seq(D)
      <4>1. h.text \in Seq(D)
        BY <3>1 DEF Elements
      <4> QED
        BY <4>1
    <3>5. p \in E /\ SaidBy(p, e) = chars \o h.text /\ SaidBy(h, e) = h.text
      <4> DEFINE t == chars \o h.text
      <4>1. t \in Seq(D)
        BY <3>4
      <4> HIDE DEF t
      <4>2. Plain(t) \in E /\ Plain(t).text = t /\ ~Plain(t).isInterpolant
        BY <4>1, ElementIs
      <4> QED
        BY <3>3, <4>2 DEF SaidBy, t
    <3> HIDE DEF p
    <3>6. /\ Expanded(w, e) = (chars \o h.text) \o Expanded(rest, e)
          /\ said = h.text \o Expanded(rest, e)
          /\ Expanded(rest, e) \in Seq(A)
      <4> HIDE DEF w
      <4>1. SaysMore(p, rest, e) /\ SaysMore(h, rest, e)
        BY <3>1, <3>5, ExpandedCons
      <4>2. Expanded(rest, e) \in Seq(A)
        BY <3>1, ExpandedCons
      <4> QED
        BY <3>1, <3>2, <3>5, <4>1, <4>2 DEF SaysMore
    <3> DEFINE x == h.text
               y == Expanded(rest, e)
    <3>7. x \in Seq(A)
      <4>1. D \subseteq A
        BY DEF AnyChar
      <4> QED
        BY <3>4, <4>1, SeqMonotonic
    <3>8. y \in Seq(A)
      BY <3>6
    <3> HIDE DEF x, y, A
    <3>9. Regroups(chars, x, y)
      BY <1>2, <3>7, <3>8, Together
    <3> QED
      BY <2>2, <3>6, <3>9 DEF Regroups, x, y, v
  <2>4. CASE ~(v # <<>> /\ ~Head(v).isInterpolant)
    <3> DEFINE p == Plain(chars)
    <3>1. w = <<p>> \o v
      BY <2>4
    <3>2. p \in E /\ SaidBy(p, e) = chars
      BY ElementIs DEF SaidBy
    <3> HIDE DEF p, v
    <3>3. SaysMore(p, v, e)
      BY <1>1, <3>2, ExpandedCons
    <3> HIDE DEF w
    <3>4. Expanded(w, e) = chars \o Expanded(v, e)
      BY <3>1, <3>2, <3>3 DEF SaysMore
    <3> QED
      BY <2>2, <3>4 DEF v
  <2> QED
    BY <2>3, <2>4
<1> QED
  BY <1>4, <1>5

\* What a variable is set to, or nothing.
ContentOf(v, e) == IF v \in DOMAIN e THEN e[v] ELSE <<>>

LEMMA InterpolantSaid ==
    ASSUME NEW D, NEW chars \in Seq(D), NEW token \in StringTokens(D),
           token.type = "STRING", NEW e, IsEnv(e)
    PROVE  Expanded(WithInterpolant(chars, token).value, e)
              = ContentOf(chars, e) \o Expanded(token.value, e)
<1> DEFINE E == Elements(D)
           v == token.value
           p == FromEnv(chars)
<1>1. /\ v \in Seq(E)
      /\ token = [type |-> token.type, value |-> token.value, end |-> token.end]
  BY DEF StringTokens
<1>2. WithInterpolant(chars, token) = [token EXCEPT !.value = <<p>> \o v]
  BY DEF WithInterpolant
<1>3. WithInterpolant(chars, token).value = <<p>> \o v
  <2> HIDE DEF p, v
  <2> QED
    BY <1>1, <1>2
<1>4. p \in E /\ SaidBy(p, e) = ContentOf(chars, e)
  BY ElementIs DEF SaidBy, ContentOf
<1> HIDE DEF p, v
<1>5. SaysMore(p, v, e)
  BY <1>1, <1>4, ExpandedCons
<1> QED
  BY <1>3, <1>4, <1>5 DEF SaysMore, v

(***************************************************************************)
(* From j the literal says w more than from k, and ends where that does.   *)
(***************************************************************************)
Adds(s, j, k, first, e, w) ==
    StringFrom(s, k, first).type = "STRING" =>
        /\ StringFrom(s, j, first).type = "STRING"
        /\ StringFrom(s, j, first).end = StringFrom(s, k, first).end
        /\ Expanded(StringFrom(s, j, first).value, e)
              = w \o Expanded(StringFrom(s, k, first).value, e)

LEMMA AddsPlain ==
    ASSUME NEW D, "\n" \in D, NEW s \in Seq(D), NEW j \in Nat, NEW first \in Quotes,
           NEW e, IsEnv(e),
           Char(s, j) \notin {first, "EOF", "$", "\\"}
    PROVE  Adds(s, j, j + 1, first, e, <<Char(s, j)>>)
<1> DEFINE c == Char(s, j)
<1>1. PICK from \in [Nat -> StringTokens(D)] :
          /\ \A i : StringFrom(s, i, first) = from[i]
          /\ \A i \in Nat : from[i] = StringEntry(s, i, first, from)
  BY StringTable
<1>2. <<c>> \in Seq(D)
  BY CharLooks
<1>3. from[j] = WithPlain(<<c>>, from[j + 1]) /\ from[j + 1] \in StringTokens(D)
  <2>1. StringEntry(s, j, first, from) = WithPlain(<<c>>, from[j + 1])
    <3>1. c # first /\ c # "EOF" /\ c # "$" /\ c # "\\"
      OBVIOUS
    <3> QED
      BY <3>1 DEF StringEntry
  <2> QED
    BY <1>1, <2>1
<1> DEFINE token == from[j + 1]
           chars == <<c>>
<1> HIDE DEF token, chars
<1>4. /\ WithPlain(chars, token).end = token.end
      /\ WithPlain(chars, token).type = token.type
      /\ token.type = "STRING" =>
            Expanded(WithPlain(chars, token).value, e) = chars \o Expanded(token.value, e)
  <2>1. chars \in Seq(D) /\ token \in StringTokens(D)
    BY <1>2, <1>3 DEF chars, token
  <2> QED
    BY <2>1, WithPlainIs, PlainSaid
<1>5. StringFrom(s, j + 1, first) = token /\ StringFrom(s, j, first) = WithPlain(chars, token)
  BY <1>1, <1>3 DEF chars, token
<1> QED
  BY <1>4, <1>5 DEF Adds, chars

LEMMA AddsEscape ==
    ASSUME NEW D, "\n" \in D, NEW s \in Seq(D), NEW j \in Nat, NEW first \in Quotes,
           NEW e, IsEnv(e),
           Char(s, j) = "\\", Char(s, j + 1) \in DOMAIN Escapes
    PROVE  Adds(s, j, j + 2, first, e, Escapes[Char(s, j + 1)])
<1> DEFINE c == Char(s, j + 1)
           chars == Escapes[c]
<1>1. PICK from \in [Nat -> StringTokens(D)] :
          /\ \A i : StringFrom(s, i, first) = from[i]
          /\ \A i \in Nat : from[i] = StringEntry(s, i, first, from)
  BY StringTable
<1>2. chars \in Seq(D) /\ c # "EOF"
  <2>1. c # "EOF"
    BY EscapesAreChars
  <2>2. c \in D
    <3>1. j + 1 \in Nat
      OBVIOUS
    <3> QED
      BY <2>1, <3>1, CharLooks
  <2> HIDE DEF c
  <2> QED
    BY <2>1, <2>2, EscapeIs DEF c
<1>3. from[j] = WithPlain(chars, from[j + 2]) /\ from[j + 2] \in StringTokens(D)
  <2>1. StringEntry(s, j, first, from) = WithPlain(chars, from[j + 2])
    <3>1. "\\" # first
      BY NoEndWithin
    <3> QED
      BY <1>2, <3>1 DEF StringEntry
  <2> QED
    BY <1>1, <2>1
<1> DEFINE token == from[j + 2]
<1> HIDE DEF token, chars
<1>4. /\ WithPlain(chars, token).end = token.end
      /\ WithPlain(chars, token).type = token.type
      /\ token.type = "STRING" =>
            Expanded(WithPlain(chars, token).value, e) = chars \o Expanded(token.value, e)
  <2>1. token \in StringTokens(D)
    BY <1>3 DEF token
  <2> QED
    BY <1>2, <2>1, WithPlainIs, PlainSaid
<1>5. StringFrom(s, j + 2, first) = token /\ StringFrom(s, j, first) = WithPlain(chars, token)
  BY <1>1, <1>3 DEF token
<1> QED
  BY <1>4, <1>5 DEF Adds, chars

\* From j on there is variable v within its braces, which end at brace.
Mentions(s, j, brace, v) ==
    /\ Char(s, j) = "$" /\ Char(s, j + 1) = "{" /\ Char(s, brace) = "}"
    /\ brace = RunEnd(s, j + 2, InterpolantChars)
    /\ v = SubSeq(s, j + 2, brace - 1)

LEMMA MentionIs ==
    ASSUME NEW D, NEW s \in Seq(D), NEW j \in Nat, NEW brace, NEW v, Mentions(s, j, brace, v)
    PROVE  brace \in Nat /\ brace + 1 \in Nat /\ v \in Seq(D)
<1> DEFINE i == j + 1
<1>1. i \in Nat /\ i + 1 = j + 2 /\ Char(s, i) # "EOF"
  <2>1. Char(s, i) = "{"
    BY DEF Mentions
  <2>2. "{" # "EOF"
    OBVIOUS
  <2>3. Char(s, i) # "EOF"
    BY <2>1, <2>2
  <2>4. i \in Nat /\ i + 1 = j + 2
    OBVIOUS
  <2> QED
    BY <2>3, <2>4
<1>2. brace = RunEnd(s, i + 1, InterpolantChars) /\ v = SubSeq(s, i + 1, brace - 1)
  BY <1>1 DEF Mentions
<1> HIDE DEF i
<1>3. brace \in (i + 1)..(Len(s) + 1)
  BY <1>1, <1>2, BraceLooks, NoEndWithin
<1>4. v \in Seq(D)
  BY <1>1, <1>2, BraceLooks, NoEndWithin
<1> QED
  BY <1>1, <1>3, <1>4

LEMMA AddsInterpolant ==
    ASSUME NEW D, "\n" \in D, NEW s \in Seq(D), NEW j \in Nat, NEW first \in Quotes,
           NEW e, IsEnv(e), NEW brace, NEW v, Mentions(s, j, brace, v)
    PROVE  Adds(s, j, brace + 1, first, e, ContentOf(v, e))
<1>1. PICK from \in [Nat -> StringTokens(D)] :
          /\ \A i : StringFrom(s, i, first) = from[i]
          /\ \A i \in Nat : from[i] = StringEntry(s, i, first, from)
  BY StringTable
<1>2. brace \in Nat /\ brace + 1 \in Nat /\ v \in Seq(D)
  BY MentionIs
<1> DEFINE token == from[brace + 1]
<1>3. token \in StringTokens(D)
  BY <1>2
<1>4. StringEntry(s, j, first, from) = WithInterpolant(v, token)
  <2>1. "$" # first /\ "$" # "EOF" /\ "{" # "EOF" /\ "}" # "EOF"
    BY NoEndWithin
  <2> DEFINE c == Char(s, j)
             d == Char(s, j + 1)
             b == RunEnd(s, j + 2, InterpolantChars)
             f == Char(s, b)
             in == SubSeq(s, j + 2, b - 1)
             other == WithPlain(<<c>>, from[j + 1])
             escape == IF d = "EOF" THEN CutOff
                       ELSE IF d \notin DOMAIN Escapes THEN Thrown
                       ELSE WithPlain(Escapes[d], from[j + 2])
  <2>2. c = "$" /\ d = "{" /\ b = brace /\ f = "}" /\ in = v
    BY DEF Mentions
  <2>3. StringEntry(s, j, first, from) =
          CASE c = first -> Token("STRING", <<>>, j + 1)
            [] c = "EOF" -> CutOff
            [] c = "$" ->
                  IF d = "EOF" THEN CutOff
                  ELSE IF d # "{" THEN Thrown
                  ELSE IF f = "EOF" THEN CutOff
                  ELSE IF f # "}" THEN Thrown
                  ELSE WithInterpolant(in, from[b + 1])
            [] c = "\\" -> escape
            [] OTHER -> other
    BY DEF StringEntry
  <2> HIDE DEF c, d, b, f, in, other, escape, token
  <2>4. c # first /\ c # "EOF" /\ c = "$" /\ c # "\\"
    BY <2>1, <2>2
  <2>5. StringEntry(s, j, first, from) = WithInterpolant(in, from[b + 1])
    BY <2>1, <2>2, <2>3, <2>4
  <2> QED
    BY <2>2, <2>5 DEF token
<1>5. from[j] = WithInterpolant(v, token)
  BY <1>1, <1>4
<1>6. StringFrom(s, brace + 1, first) = token /\ StringFrom(s, j, first) = WithInterpolant(v, token)
  BY <1>1, <1>5
<1> HIDE DEF token
<1>7. /\ WithInterpolant(v, token).end = token.end
      /\ WithInterpolant(v, token).type = token.type
  BY <1>2, <1>3, WithInterpolantIs
<1>8. token.type = "STRING" =>
         Expanded(WithInterpolant(v, token).value, e)
            = ContentOf(v, e) \o Expanded(token.value, e)
  BY <1>2, <1>3, InterpolantSaid
<1> QED
  BY <1>6, <1>7, <1>8 DEF Adds

LEMMA AddsTrans ==
    ASSUME NEW D, "\n" \in D, NEW s \in Seq(D), NEW first \in Quotes, NEW e, IsEnv(e),
           NEW j, NEW k, NEW l \in Nat,
           NEW a \in Seq(AnyChar(D)), NEW b \in Seq(AnyChar(D)),
           Adds(s, j, k, first, e, a), Adds(s, k, l, first, e, b)
    PROVE  Adds(s, j, l, first, e, a \o b)
<1> DEFINE token == StringFrom(s, l, first)
           r == Expanded(token.value, e)
<1>1. token.value \in Seq(Elements(D))
  <2>1. token \in StringTokens(D)
    BY StringFromIs
  <2> HIDE DEF token
  <2> QED
    BY <2>1 DEF StringTokens
<1>2. r \in Seq(AnyChar(D))
  <2>1. <<>> \in Seq(D)
    OBVIOUS
  <2>2. Plain(<<>>) \in Elements(D)
    BY <2>1, ElementIs
  <2> HIDE DEF token
  <2> QED
    BY <1>1, <2>2, ExpandedCons
<1>3. Regroups(a, b, r)
  <2> HIDE DEF r
  <2> QED
    BY <1>2, Together
<1> HIDE DEF r, token
<1>4. token.type = "STRING" =>
         /\ StringFrom(s, j, first).type = "STRING"
         /\ StringFrom(s, j, first).end = token.end
         /\ Expanded(StringFrom(s, j, first).value, e) = a \o (b \o r)
  BY DEF Adds, r, token
<1> QED
  BY <1>3, <1>4 DEF Adds, r, token, Regroups

\* Where a literal ends.
LEMMA StringEnds ==
    ASSUME NEW D, "\n" \in D, NEW s \in Seq(D), NEW j \in Nat, NEW first \in Quotes,
           Char(s, j) = first
    PROVE  StringFrom(s, j, first) = Token("STRING", <<>>, j + 1)
<1>1. PICK from \in [Nat -> StringTokens(D)] :
          /\ \A i : StringFrom(s, i, first) = from[i]
          /\ \A i \in Nat : from[i] = StringEntry(s, i, first, from)
  BY StringTable
<1>2. StringEntry(s, j, first, from) = Token("STRING", <<>>, j + 1)
  <2>1. first # "EOF" /\ first # "$" /\ first # "\\"
    BY NoEndWithin
  <2> QED
    BY <2>1 DEF StringEntry
<1> QED
  BY <1>1, <1>2

----------------------------------------------------------------------------
(* Texts written as literals.                                              *)

\* How a character is written.
Piece(c) == CASE c = "\n" -> <<"\\", "n">>
              [] c \in {"$", "\\", "'", "\""} -> <<"\\", c>>
              [] OTHER -> <<c>>

\* What characters are written with.
Writing(D) == {"\n", "\\", "n"} \subseteq D

LEMMA PieceIs ==
    ASSUME NEW D, Writing(D), NEW c \in D
    PROVE  /\ Piece(c) \in Seq(D)
           /\ \/ c \notin {"\n", "$", "\\", "'", "\""} /\ Piece(c) = <<c>>
              \/ \E x \in DOMAIN Escapes : Piece(c) = <<"\\", x>> /\ Escapes[x] = <<c>>
<1>1. "\\" \in D /\ "n" \in D
  BY DEF Writing
<1>2. \A x \in D : <<x>> \in Seq(D)
  OBVIOUS
<1>3. \A x, y \in D : <<x, y>> \in Seq(D)
  OBVIOUS
<1>4. CASE c = "\n"
  <2>1. Piece(c) = <<"\\", "n">>
    BY <1>4 DEF Piece
  <2>2. "n" \in DOMAIN Escapes /\ Escapes["n"] = <<"\n">>
    BY DEF Escapes
  <2>3. <<"\\", "n">> \in Seq(D)
    BY <1>1, <1>3
  <2> QED
    BY <1>4, <2>1, <2>2, <2>3
<1>5. CASE c \in {"$", "\\", "'", "\""}
  <2>1. c # "\n" /\ c # "n"
    BY <1>5
  <2>2. Piece(c) = <<"\\", c>>
    BY <1>5, <2>1 DEF Piece
  <2>3. c \in DOMAIN Escapes /\ Escapes[c] = <<c>>
    BY <1>5, <2>1 DEF Escapes
  <2>4. <<"\\", c>> \in Seq(D)
    BY <1>1, <1>3
  <2> QED
    BY <2>2, <2>3, <2>4
<1>6. CASE c \notin {"\n", "$", "\\", "'", "\""}
  <2>1. Piece(c) = <<c>>
    BY <1>6 DEF Piece
  <2>2. <<c>> \in Seq(D)
    BY <1>2
  <2> QED
    BY <1>6, <2>1, <2>2
<1> QED
  BY <1>4, <1>5, <1>6

\* What a text with one more character is written as.
WritesMore(c, t) == Escaped(<<c>> \o t) = Piece(c) \o Escaped(t)

LEMMA EscapedCons ==
    ASSUME NEW D, Writing(D), NEW c \in D, NEW t \in Seq(D)
    PROVE  Escaped(t) \in Seq(D) /\ WritesMore(c, t) /\ Escaped(<<>>) = <<>>
<1> DEFINE T == Seq(D)
           pieces(s) == [k \in DOMAIN s |-> Piece(s[k])]
           all == <<c>> \o t
           a == Piece(c)
<1>1. \A s : Escaped(s) = FlattenSeq(pieces(s))
  BY DEF Escaped, Piece
<1>2. \A y \in D : Piece(y) \in T
  BY PieceIs
<1> HIDE DEF T
<1>3. \A s \in Seq(D) : pieces(s) \in Seq(T) /\ Len(pieces(s)) = Len(s)
  BY <1>2
<1>4. /\ all \in Seq(D) /\ Len(all) = Len(t) + 1 /\ Len(t) \in Nat
      /\ all[1] = c
      /\ \A n \in 1..Len(t) : all[n + 1] = t[n]
  BY ConsIs
<1> HIDE DEF all, a
<1> DEFINE s1 == pieces(t)
           s2 == pieces(all)
           s3 == <<a>> \o s1
<1>5. s1 \in Seq(T) /\ Len(s1) = Len(t) /\ s2 \in Seq(T) /\ Len(s2) = Len(t) + 1
  BY <1>3, <1>4
<1>6. a \in T
  BY <1>2 DEF a
<1>7. /\ \A n \in 1..Len(t) : s1[n] = Piece(t[n])
      /\ \A n \in 1..(Len(t) + 1) : s2[n] = Piece(all[n])
  <2>1. DOMAIN t = 1..Len(t) /\ DOMAIN all = 1..(Len(t) + 1)
    BY <1>4
  <2> QED
    BY <2>1
<1> HIDE DEF s1, s2
<1>8. /\ s3 \in Seq(T) /\ Len(s3) = Len(t) + 1 /\ s3[1] = a
      /\ \A n \in 1..Len(t) : s3[n + 1] = s1[n]
  BY <1>5, <1>6, ConsIs
<1> HIDE DEF s3
<1>9. s2 = s3
  <2>1. ASSUME NEW n \in 1..(Len(t) + 1)
        PROVE  s2[n] = s3[n]
    <3>1. CASE n = 1
      BY <1>4, <1>7, <1>8, <3>1 DEF a
    <3>2. CASE n # 1
      <4>1. n - 1 \in 1..Len(t) /\ (n - 1) + 1 = n
        BY <1>4, <3>2
      <4>2. s3[n] = s1[n - 1] /\ all[n] = t[n - 1]
        BY <1>4, <1>8, <4>1
      <4> QED
        BY <1>7, <4>1, <4>2
    <3> QED
      BY <3>1, <3>2
  <2>2. Len(s2) = Len(s3) /\ \A n \in 1..Len(s2) : s2[n] = s3[n]
    BY <1>5, <1>8, <2>1
  <2> QED
    BY <1>5, <1>8, <2>2, SeqEqual
<1>10. FlattenSeq(s1) \in Seq(D) /\ FlattenSeq(s3) = a \o FlattenSeq(s1)
  BY <1>5, <1>6, FlattenCons DEF T, s3
<1>11. Escaped(<<>>) = <<>>
  <2>1. pieces(<<>>) = <<>>
    OBVIOUS
  <2>2. FlattenSeq(<<>>) = <<>>
    BY FlattenCons, <1>5, <1>6 DEF T
  <2> QED
    BY <1>1, <2>1, <2>2
<1> QED
  BY <1>1, <1>9, <1>10, <1>11 DEF s1, s2, all, a, WritesMore

\* What comes in s after so many characters.
Follows(s, n, w) == \A i \in 1..Len(w) : Char(s, n + i) = w[i]

LEMMA FollowsBoth ==
    ASSUME NEW s, NEW n \in Nat, NEW T, NEW x \in Seq(T), NEW y \in Seq(T),
           Follows(s, n, x \o y)
    PROVE  Follows(s, n, x) /\ Follows(s, n + Len(x), y)
<1>1. /\ Len(x) \in Nat /\ Len(y) \in Nat /\ Len(x \o y) = Len(x) + Len(y)
      /\ \A i \in 1..Len(x) : (x \o y)[i] = x[i]
      /\ \A i \in 1..Len(y) : (x \o y)[Len(x) + i] = y[i]
  OBVIOUS
<1> DEFINE xy == x \o y
           a == Len(x)
           b == Len(y)
<1>2. \A i \in 1..Len(xy) : Char(s, n + i) = xy[i]
  BY DEF Follows
<1> HIDE DEF xy, a, b
<1>3. a \in Nat /\ b \in Nat /\ Len(xy) = a + b
  BY <1>1 DEF xy, a, b
<1>4. \A i \in 1..a : xy[i] = x[i]
  BY <1>1 DEF xy, a
<1>5. \A i \in 1..b : xy[a + i] = y[i]
  BY <1>1 DEF xy, a, b
<1>6. ASSUME NEW i \in 1..a
      PROVE  Char(s, n + i) = x[i]
  <2>1. i \in 1..Len(xy)
    BY <1>3
  <2> QED
    BY <1>2, <1>4, <2>1
<1>7. ASSUME NEW i \in 1..b
      PROVE  Char(s, (n + a) + i) = y[i]
  <2>1. a + i \in 1..Len(xy) /\ n + (a + i) = (n + a) + i
    BY <1>3
  <2>2. Char(s, n + (a + i)) = y[i]
    BY <1>2, <1>5, <2>1
  <2> QED
    BY <2>1, <2>2
<1> QED
  BY <1>6, <1>7 DEF Follows, a, b

LEMMA FollowsOne ==
    ASSUME NEW s, NEW n \in Nat, NEW c, Follows(s, n, <<c>>)
    PROVE  Char(s, n + 1) = c
<1>1. 1 \in 1..Len(<<c>>) /\ <<c>>[1] = c
  OBVIOUS
<1> QED
  BY <1>1 DEF Follows

LEMMA FollowsTwo ==
    ASSUME NEW s, NEW n \in Nat, NEW c, NEW d, Follows(s, n, <<c, d>>)
    PROVE  Char(s, n + 1) = c /\ Char(s, n + 2) = d
<1>1. /\ 1 \in 1..Len(<<c, d>>) /\ 2 \in 1..Len(<<c, d>>)
      /\ <<c, d>>[1] = c /\ <<c, d>>[2] = d
  OBVIOUS
<1> QED
  BY <1>1 DEF Follows

\* How a character is read that was written into a literal.
LEMMA PieceRead ==
    ASSUME NEW D, Writing(D), "EOF" \notin D, NEW s \in Seq(D), NEW first \in Quotes,
           NEW e, IsEnv(e), NEW c \in D, NEW n \in Nat, Follows(s, n, Piece(c))
    PROVE  Adds(s, n + 1, n + 1 + Len(Piece(c)), first, e, <<c>>)
<1>1. "\n" \in D
  BY DEF Writing
<1>2. CASE c \notin {"\n", "$", "\\", "'", "\""} /\ Piece(c) = <<c>>
  <2>1. Char(s, n + 1) = c
    BY <1>2, FollowsOne
  <2>2. c # "EOF" /\ c # first
    <3>1. first \in {"'", "\""}
      BY DEF Quotes
    <3> QED
      BY <1>2, <3>1
  <2>3. Char(s, n + 1) \notin {first, "EOF", "$", "\\"}
    BY <1>2, <2>1, <2>2
  <2>4. n + 1 \in Nat /\ Len(<<c>>) = 1
    OBVIOUS
  <2>5. Adds(s, n + 1, n + 1 + 1, first, e, <<Char(s, n + 1)>>)
    BY <1>1, <2>3, <2>4, AddsPlain
  <2> QED
    BY <1>2, <2>1, <2>4, <2>5
<1>3. ASSUME NEW x \in DOMAIN Escapes, Piece(c) = <<"\\", x>>, Escapes[x] = <<c>>
      PROVE  Adds(s, n + 1, n + 1 + Len(Piece(c)), first, e, <<c>>)
  <2>1. Char(s, n + 1) = "\\" /\ Char(s, n + 2) = x
    BY <1>3, FollowsTwo
  <2> DEFINE j == n + 1
  <2>2. j \in Nat /\ j + 1 = n + 2 /\ Len(<<"\\", x>>) = 2
    OBVIOUS
  <2>3. Char(s, j) = "\\" /\ Char(s, j + 1) = x
    BY <2>1, <2>2
  <2> HIDE DEF j
  <2>4. Adds(s, j, j + 2, first, e, Escapes[Char(s, j + 1)])
    BY <1>1, <2>2, <2>3, AddsEscape
  <2>5. Adds(s, j, j + 2, first, e, <<c>>)
    BY <1>3, <2>3, <2>4
  <2>6. Len(Piece(c)) = 2
    BY <1>3, <2>2
  <2> QED
    BY <2>5, <2>6 DEF j
<1> QED
  BY <1>2, <1>3, PieceIs

(***************************************************************************)
(* Whatever a text is, it is read from a literal where it was written as   *)
(* Escaped has it.                                                         *)
(***************************************************************************)
LEMMA EscapedRead ==
    ASSUME NEW D, Writing(D), "EOF" \notin D, NEW s \in Seq(D), NEW first \in Quotes,
           NEW e, IsEnv(e), NEW t \in Seq(D), NEW n \in Nat, Follows(s, n, Escaped(t))
    PROVE  Adds(s, n + 1, n + 1 + Len(Escaped(t)), first, e, t)
<1> DEFINE Reads1(u, m) == Follows(s, m, Escaped(u)) =>
                              Adds(s, m + 1, m + 1 + Len(Escaped(u)), first, e, u)
           S == {l \in Nat : \A u \in Seq(D) : Len(u) = l => \A m \in Nat : Reads1(u, m)}
<1>1. "\n" \in D
  BY DEF Writing
<1>2. 0 \in S
  <2> SUFFICES ASSUME NEW u \in Seq(D), Len(u) = 0, NEW m \in Nat
               PROVE  Reads1(u, m)
    OBVIOUS
  <2>1. u = <<>>
    OBVIOUS
  <2>2. Escaped(u) = <<>>
    BY <1>1, <2>1, EscapedCons
  <2>3. m + 1 + Len(<<>>) = m + 1 /\ m + 1 \in Nat
    OBVIOUS
  <2> DEFINE token == StringFrom(s, m + 1, first)
             said == Expanded(token.value, e)
  <2>4. said \in Seq(AnyChar(D))
    <3>1. token \in StringTokens(D)
      BY <1>1, <2>3, StringFromIs
    <3>2. <<>> \in Seq(D)
      OBVIOUS
    <3>3. Plain(<<>>) \in Elements(D)
      BY <3>2, ElementIs
    <3> HIDE DEF token
    <3>4. token.value \in Seq(Elements(D))
      BY <3>1 DEF StringTokens
    <3> QED
      BY <3>3, <3>4, ExpandedCons
  <2>5. <<>> \o said = said
    <3> HIDE DEF said
    <3> QED
      BY <2>4
  <2>6. Adds(s, m + 1, m + 1, first, e, <<>>)
    BY <2>5 DEF Adds
  <2> QED
    BY <2>1, <2>2, <2>3, <2>6
<1>3. ASSUME NEW l \in Nat, l \in S
      PROVE  l + 1 \in S
  <2> SUFFICES ASSUME NEW u \in Seq(D), Len(u) = l + 1, NEW m \in Nat
               PROVE  Reads1(u, m)
    OBVIOUS
  <2> DEFINE c == Head(u)
             v == Tail(u)
             p == Piece(c)
             w == Escaped(v)
  <2>1. c \in D /\ v \in Seq(D) /\ Len(v) = l /\ u = <<c>> \o v
    <3>1. u # <<>>
      OBVIOUS
    <3> QED
      BY <3>1
  <2>2. \A k \in Nat : Reads1(v, k)
    BY <1>3, <2>1
  <2> HIDE DEF c, v
  <2>3. WritesMore(c, v) /\ w \in Seq(D)
    BY <2>1, EscapedCons
  <2>4. p \in Seq(D)
    BY <2>1, PieceIs
  <2>5. Escaped(u) = p \o w
    BY <2>1, <2>3 DEF WritesMore
  <2> HIDE DEF p, w
  <2>6. Len(p) \in Nat /\ Len(w) \in Nat /\ Len(p \o w) = Len(p) + Len(w)
    BY <2>3, <2>4
  <2> SUFFICES ASSUME Follows(s, m, p \o w)
               PROVE  Adds(s, m + 1, m + 1 + Len(Escaped(u)), first, e, u)
    BY <2>5
  <2>7. Follows(s, m, p) /\ Follows(s, m + Len(p), w)
    BY <2>3, <2>4, FollowsBoth
  <2> DEFINE i == m + 1
             j == m + 1 + Len(p)
             k == m + 1 + Len(Escaped(u))
  <2>8. Adds(s, i, j, first, e, <<c>>)
    BY <2>1, <2>7, PieceRead DEF p
  <2>9. Adds(s, j, k, first, e, v)
    <3> DEFINE q == m + Len(p)
    <3>1. q \in Nat /\ q + 1 = j /\ q + 1 + Len(w) = k
      BY <2>5, <2>6
    <3> HIDE DEF q, j, k
    <3>2. Reads1(v, q)
      BY <2>2, <3>1
    <3>3. Follows(s, q, Escaped(v))
      BY <2>7 DEF q, w
    <3>4. Adds(s, q + 1, q + 1 + Len(Escaped(v)), first, e, v)
      BY <3>2, <3>3
    <3> QED
      BY <3>1, <3>4 DEF w
  <2>10. k \in Nat
    BY <2>5, <2>6
  <2> HIDE DEF i, j, k
  <2>11. <<c>> \in Seq(AnyChar(D)) /\ v \in Seq(AnyChar(D))
    <3>1. D \subseteq AnyChar(D)
      BY DEF AnyChar
    <3>2. <<c>> \in Seq(D)
      BY <2>1
    <3> QED
      BY <2>1, <3>1, <3>2, SeqMonotonic
  <2> DEFINE cs == <<c>>
  <2> HIDE DEF cs
  <2>12. cs \in Seq(AnyChar(D)) /\ Adds(s, i, j, first, e, cs)
    BY <2>8, <2>11 DEF cs
  <2>13. Adds(s, i, k, first, e, cs \o v)
    BY <1>1, <2>9, <2>10, <2>11, <2>12, AddsTrans
  <2> QED
    BY <2>1, <2>13 DEF cs, i, k
<1>4. Nat \subseteq S
  <2> HIDE DEF S
  <2> QED
    BY <1>2, <1>3, SimpleInduction
<1>5. Len(t) \in Nat
  OBVIOUS
<1> QED
  BY <1>4, <1>5

\* Where a token begins with the text it is the only one of it.
LEMMA OneToken ==
    ASSUME NEW D, "\n" \in D, NEW s \in Seq(D),
           NextToken(s, 1).end = Len(s) + 1
    PROVE  Len(Tokens(s)) = 2 /\ Tokens(s)[1] = NextToken(s, 1)
<1> DEFINE a == NextToken(s, 1)
           l == Len(s) + 1
           b == NextToken(s, l)
<1>1. l \in Nat /\ l # 0 /\ l \notin 1..Len(s)
  OBVIOUS
<1>2. b = Token("EOS", <<>>, 0)
  <2> HIDE DEF l
  <2> QED
    BY <1>1, NextTokenIs
<1>3. b.end = 0
  BY <1>2 DEF Token
<1>4. TokensFrom(s, l) = <<b>>
  <2> HIDE DEF l
  <2>1. TokensFrom(s, l) = <<b>> \o (IF b.end = 0 THEN <<>> ELSE TokensFrom(s, b.end))
    BY <1>1, TokensFromIs
  <2> HIDE DEF b
  <2>2. TokensFrom(s, l) = <<b>> \o <<>>
    BY <1>3, <2>1
  <2>3. <<b>> \o <<>> = <<b>>
    OBVIOUS
  <2> QED
    BY <2>2, <2>3
<1>5. Tokens(s) = <<a>> \o <<b>>
  <2>1. TokensFrom(s, 1) = <<a>> \o (IF a.end = 0 THEN <<>> ELSE TokensFrom(s, a.end))
    BY TokensFromIs
  <2>2. a.end = l
    OBVIOUS
  <2> HIDE DEF a, b, l
  <2> QED
    BY <1>1, <1>4, <2>1, <2>2 DEF Tokens
<1> HIDE DEF a, b
<1>6. Len(<<a>> \o <<b>>) = 2 /\ (<<a>> \o <<b>>)[1] = a
  OBVIOUS
<1> QED
  BY <1>5, <1>6 DEF a

\* What sort of token a character begins.
LEMMA TokenStarts ==
    ASSUME NEW s, NEW i \in Nat, i # 0
    PROVE  /\ Char(s, i) \in Quotes => TokenAt(s, i) = StringFrom(s, i + 1, Char(s, i))
           /\ Char(s, i) \in NumIdInitChars =>
                 TokenAt(s, i) = IF Char(s, i) = "0" /\ Char(s, i + 1) = "x"
                                 THEN HexLiteral(s, i + 2) ELSE NumId(s, i)
<1> DEFINE c == Char(s, i)
           punctuation == Token(c, <<>>, i + 1)
           command == Command(s, i)
           string == StringFrom(s, i + 1, c)
           number == IF c = "0" /\ Char(s, i + 1) = "x" THEN HexLiteral(s, i + 2)
                     ELSE NumId(s, i)
           ident == Ident(s, i)
           eos == Token("EOS", <<>>, 0)
<1>1. TokenAt(s, i) = CASE i = 0 -> CutOff
                        [] i # 0 /\ c = "EOF" -> eos
                        [] c \in Punctuation -> punctuation
                        [] c = "@" -> command
                        [] c \in Quotes -> string
                        [] c \in NumIdInitChars -> number
                        [] c \in IdentInitChars -> ident
                        [] OTHER -> Thrown
  BY DEF TokenAt
<1>2. c \in NumIdInitChars => c # "EOF"
  BY DEF NumIdInitChars, Digits
<1>3. c \in Quotes => c # "EOF"
  BY DEF Quotes
<1> HIDE DEF c, punctuation, command, string, number, ident, eos
<1>4. c \in Quotes => TokenAt(s, i) = string
  <2> SUFFICES ASSUME c \in Quotes
               PROVE  TokenAt(s, i) = string
    OBVIOUS
  <2>1. c \notin Punctuation /\ c # "@" /\ c # "EOF" /\ c \notin NumIdInitChars
        /\ c \notin IdentInitChars
    BY <1>3, StartsApart
  <2> QED
    BY <1>1, <2>1
<1>5. c \in NumIdInitChars => TokenAt(s, i) = number
  <2> SUFFICES ASSUME c \in NumIdInitChars
               PROVE  TokenAt(s, i) = number
    OBVIOUS
  <2>1. c \notin Punctuation /\ c # "@" /\ c # "EOF" /\ c \notin Quotes
        /\ c \notin IdentInitChars
    BY <1>2, StartsApart
  <2> QED
    BY <1>1, <2>1
<1> QED
  BY <1>4, <1>5 DEF c, string, number

LEMMA LiteralIs ==
    ASSUME NEW D, "\n" \in D, NEW s \in Seq(D), NEW q \in Quotes,
           Char(s, 1) = q, Len(s) # 0, Char(s, Len(s)) = q, NEW e, IsEnv(e),
           NEW w \in Seq(AnyChar(D)), Adds(s, 2, Len(s), q, e, w)
    PROVE  /\ Len(Tokens(s)) = 2
           /\ Tokens(s)[1].type = "STRING"
           /\ ValueOf(Tokens(s)[1], e).text = w
<1> DEFINE l == Len(s)
           token == StringFrom(s, 2, q)
           rest == StringFrom(s, l, q)
<1>1. l \in Nat
  OBVIOUS
<1>2. Skipped(s, 1) = 1
  <2>1. q \notin Blanks \cup {"/"}
    BY DEF Quotes, Blanks
  <2> QED
    BY <2>1, SkippedIs
<1>3. NextToken(s, 1) = token
  <2>1. TokenAt(s, 1) = StringFrom(s, 1 + 1, q)
    <3>1. 1 # 0 /\ 1 \in Nat
      OBVIOUS
    <3> QED
      BY <3>1, TokenStarts
  <2>2. 1 + 1 = 2
    OBVIOUS
  <2> QED
    BY <1>2, <2>1, <2>2 DEF NextToken
<1>4. rest = Token("STRING", <<>>, l + 1)
  <2>1. Char(s, l) = q
    OBVIOUS
  <2> HIDE DEF l
  <2> QED
    BY <1>1, <2>1, StringEnds
<1>5. rest.type = "STRING" /\ rest.value = <<>> /\ rest.end = l + 1
  <2> HIDE DEF rest, l
  <2> QED
    BY <1>4 DEF Token
<1>6. /\ token.type = "STRING" /\ token.end = l + 1
      /\ Expanded(token.value, e) = w \o Expanded(<<>>, e)
  BY <1>5 DEF Adds
<1>7. Expanded(<<>>, e) = <<>>
  <2>1. <<>> \in Seq(D) /\ <<>> \in Seq(Elements(D))
    OBVIOUS
  <2>2. Plain(<<>>) \in Elements(D)
    BY <2>1, ElementIs
  <2> QED
    BY <2>1, <2>2, ExpandedCons
<1>8. w \o <<>> = w
  OBVIOUS
<1>9. Len(Tokens(s)) = 2 /\ Tokens(s)[1] = token
  BY <1>3, <1>6, OneToken
<1> HIDE DEF token
<1>10. ValueOf(token, e).text = Expanded(token.value, e)
  <2>1. ValueOf(token, e) = StringValue(token.value, e)
    BY <1>6 DEF ValueOf
  <2> QED
    BY <2>1 DEF StringValue, Value
<1> QED
  BY <1>6, <1>7, <1>8, <1>9, <1>10

\* Where a run of characters of a set is.
LEMMA RunThere ==
    ASSUME NEW D, NEW s \in Seq(D), NEW C, NEW v \in Seq(C), NEW n \in Nat,
           Follows(s, n, v), NEW end \in 1..Len(s), end = n + 1 + Len(v),
           Char(s, end) \notin C
    PROVE  RunEnd(s, n + 1, C) = end /\ SubSeq(s, n + 1, end - 1) = v
<1> DEFINE k == Len(v)
           i == n + 1
           b == end - 1
           w == SubSeq(s, i, b)
<1>1. k \in Nat /\ Len(s) \in Nat /\ \A m \in 1..k : v[m] \in C
  OBVIOUS
<1>2. \A m \in 1..k : Char(s, n + m) = v[m]
  BY DEF Follows
<1>3. end = i + k
  OBVIOUS
<1> HIDE DEF k
<1>4. i \in Nat /\ i = n + 1 /\ end \in Nat /\ b = n + k /\ b \in Int /\ b + 1 = end
  BY <1>1, <1>3
<1> HIDE DEF i, b
<1>5. ASSUME NEW m \in 1..k
      PROVE  s[i + m - 1] = v[m]
  <2> DEFINE l == i + m - 1
  <2>1. l \in 1..Len(s) /\ l \in Nat /\ n + m = l
    BY <1>1, <1>3, <1>4
  <2>2. Char(s, l) = v[m]
    BY <1>2, <2>1
  <2> HIDE DEF l
  <2>3. Char(s, l) = s[l]
    BY <2>1, CharFacts
  <2> QED
    BY <2>2, <2>3 DEF l
<1>6. \A l \in i..b : s[l] \in C
  <2> SUFFICES ASSUME NEW l \in i..b
               PROVE  s[l] \in C
    OBVIOUS
  <2>1. l - i + 1 \in 1..k /\ i + (l - i + 1) - 1 = l
    BY <1>1, <1>4
  <2>2. s[l] = v[l - i + 1]
    BY <1>5, <2>1
  <2> QED
    BY <1>1, <2>1, <2>2
<1>7. RunEnd(s, i, C) = end
  <2>1. i \in 1..(Len(s) + 1) /\ end \in i..(Len(s) + 1)
    BY <1>1, <1>3, <1>4
  <2>2. \A l \in i..(end - 1) : s[l] \in C
    BY <1>6 DEF b
  <2> QED
    BY <2>1, <2>2, RunEndIs
<1>8. b - i + 1 = k
  BY <1>1, <1>4
<1>9. w \in Seq(C) /\ Len(w) = k /\ \A m \in 1..k : w[m] = s[i + m - 1]
  <2>1. i \in Int /\ b \in Int
    BY <1>4
  <2>2. /\ w \in Seq(C) /\ Len(w) = (IF i <= b THEN b - i + 1 ELSE 0)
        /\ \A m \in 1..(b - i + 1) : w[m] = s[i + m - 1]
    BY <1>6, <2>1, SubSeqProperties
  <2> HIDE DEF w
  <2>3. Len(w) = k
    BY <1>1, <1>4, <1>8, <2>2
  <2> QED
    BY <1>8, <2>2, <2>3
<1> HIDE DEF w
<1>10. w = v
  <2>1. Len(w) = Len(v) /\ \A m \in 1..Len(w) : w[m] = v[m]
    BY <1>5, <1>9 DEF k
  <2> QED
    BY <1>9, <2>1, SeqEqual
<1> QED
  BY <1>7, <1>10 DEF w, i, b

\* What is around a variable in a literal.
Opening == <<"$", "{">>
Closing == <<"}">>

LEMMA VariableRead ==
    ASSUME NEW D, NEW s \in Seq(D), NEW v \in Seq(InterpolantChars), NEW n \in Nat,
           Follows(s, n, Opening), Follows(s, n + 2, v), Follows(s, n + 2 + Len(v), Closing)
    PROVE  Mentions(s, n + 1, n + 3 + Len(v), v)
<1> DEFINE l == n + 2 + Len(v)
           j == n + 1
           i == n + 2
           brace == n + 3 + Len(v)
<1>1. /\ i \in Nat /\ l \in Nat /\ l + 1 = brace /\ j + 1 = i /\ j + 2 = i + 1
      /\ brace = i + 1 + Len(v) /\ brace \in Nat
  OBVIOUS
<1>2. Char(s, n + 1) = "$" /\ Char(s, n + 2) = "{"
  BY FollowsTwo DEF Opening
<1>3. Follows(s, l, Closing) /\ Follows(s, i, v)
  OBVIOUS
<1> HIDE DEF l, i, brace
<1>4. Char(s, l + 1) = "}"
  BY <1>1, <1>3, FollowsOne DEF Closing
<1>5. Char(s, brace) = "}"
  BY <1>1, <1>4
<1>6. "}" \notin InterpolantChars /\ "}" # "EOF"
  <2>1. "}" \notin Letters
    <3>1. "}" \in Punctuation
      BY DEF Punctuation
    <3> QED
      BY <3>1, LexerAssumption
  <2>2. "}" \notin Digits \cup {"_"}
    BY DEF Digits
  <2> QED
    BY <2>1, <2>2 DEF InterpolantChars
<1>7. Char(s, brace) \notin InterpolantChars /\ Char(s, brace) # "EOF"
  BY <1>5, <1>6
<1>8. brace \in 1..Len(s)
  BY <1>1, <1>7, CharLooks
<1>9. RunEnd(s, i + 1, InterpolantChars) = brace /\ SubSeq(s, i + 1, brace - 1) = v
  BY <1>1, <1>3, <1>7, <1>8, RunThere
<1>10. RunEnd(s, j + 2, InterpolantChars) = brace /\ SubSeq(s, j + 2, brace - 1) = v
  BY <1>1, <1>9
<1>11. Char(s, j) = "$" /\ Char(s, j + 1) = "{"
  BY <1>1, <1>2 DEF i
<1> QED
  BY <1>5, <1>10, <1>11 DEF Mentions, brace

\* What a literal is made of that says a text.
Writable == Chars \cup InterpolantChars \cup {"\n", "\\", "n", "$", "{", "}", "'", "\""}

LEMMA WritableIs ==
    /\ Writing(Writable) /\ "\n" \in Writable /\ "EOF" \notin Writable
    /\ Chars \subseteq Writable /\ InterpolantChars \subseteq Writable
    /\ Quotes \subseteq Writable
    /\ Opening \in Seq(Writable) /\ Closing \in Seq(Writable)
<1>1. "EOF" \notin Chars
  BY LiteralsAssumption DEF Chars, Alphabet
<1>2. "EOF" \notin Writable
  BY <1>1, NoEndWithin DEF Writable
<1>3. "$" \in Writable /\ "{" \in Writable /\ "}" \in Writable
  BY DEF Writable
<1>4. \A a \in Writable : <<a>> \in Seq(Writable)
  OBVIOUS
<1>5. \A a, b \in Writable : <<a, b>> \in Seq(Writable)
  OBVIOUS
<1>6. Opening \in Seq(Writable) /\ Closing \in Seq(Writable)
  BY <1>3, <1>4, <1>5 DEF Opening, Closing
<1>7. Chars \subseteq Writable /\ InterpolantChars \subseteq Writable /\ Quotes \subseteq Writable
  BY DEF Writable, Quotes
<1>8. Writing(Writable) /\ "\n" \in Writable
  BY DEF Writable, Writing
<1> QED
  BY <1>2, <1>6, <1>7, <1>8

\* A literal of a variable between two texts, and what follows what in it.
LiteralOf(x, y, v) == x \o y \o Opening \o v \o Closing \o y \o x

Laid(s, x, y, v) ==
    /\ Len(s) = 5 + 2 * Len(y) + Len(v)
    /\ Follows(s, 0, x) /\ Follows(s, 1, y) /\ Follows(s, 1 + Len(y), Opening)
    /\ Follows(s, 1 + Len(y) + 2, v)
    /\ Follows(s, 1 + Len(y) + 2 + Len(v), Closing)
    /\ Follows(s, 4 + Len(y) + Len(v), y)
    /\ Follows(s, 4 + 2 * Len(y) + Len(v), x)

LEMMA LaidOut ==
    ASSUME NEW D, NEW x \in Seq(D), NEW y \in Seq(D), NEW v \in Seq(D), Len(x) = 1,
           Opening \in Seq(D), Closing \in Seq(D), NEW s, s = LiteralOf(x, y, v)
    PROVE  s \in Seq(D) /\ Laid(s, x, y, v)
<1> DEFINE m == Len(y)
           k == Len(v)
           p1 == x \o y
           p2 == p1 \o Opening
           p3 == p2 \o v
           p4 == p3 \o Closing
           p5 == p4 \o y
<1>1. Len(Opening) = 2 /\ Len(Closing) = 1
  BY DEF Opening, Closing
<1>2. m \in Nat /\ k \in Nat
  OBVIOUS
<1>3. s = p5 \o x
  BY DEF LiteralOf
<1> HIDE DEF m, k, p1, p2, p3, p4, p5
<1>4. p1 \in Seq(D) /\ Len(p1) = 1 + m
  BY JoinIs DEF p1, m
<1>5. p2 \in Seq(D) /\ Len(p2) = 3 + m
  <2>1. p2 \in Seq(D) /\ Len(p2) = Len(p1) + Len(Opening)
    BY <1>4, JoinIs DEF p2
  <2> QED
    BY <1>1, <1>2, <1>4, <2>1
<1>6. p3 \in Seq(D) /\ Len(p3) = 3 + m + k
  BY <1>5, JoinIs DEF p3, k
<1>7. p4 \in Seq(D) /\ Len(p4) = 4 + m + k
  <2>1. p4 \in Seq(D) /\ Len(p4) = Len(p3) + Len(Closing)
    BY <1>6, JoinIs DEF p4
  <2> QED
    BY <1>1, <1>2, <1>6, <2>1
<1>8. p5 \in Seq(D) /\ Len(p5) = 4 + 2 * m + k
  <2>1. p5 \in Seq(D) /\ Len(p5) = Len(p4) + m
    BY <1>7, JoinIs DEF p5, m
  <2> QED
    BY <1>2, <1>7, <2>1
<1>9. s \in Seq(D) /\ Len(s) = 5 + 2 * m + k
  <2>1. s \in Seq(D) /\ Len(s) = Len(p5) + Len(x)
    BY <1>3, <1>8, JoinIs
  <2> QED
    BY <1>2, <1>8, <2>1
<1>10. Follows(s, 0, p5 \o x)
  <2>1. \A i \in 1..Len(s) : Char(s, 0 + i) = s[i]
    <3> SUFFICES ASSUME NEW i \in 1..Len(s)
                 PROVE  Char(s, 0 + i) = s[i]
      OBVIOUS
    <3>1. i \in Nat /\ 0 + i = i
      OBVIOUS
    <3> QED
      BY <1>9, <3>1, CharFacts
  <2> QED
    BY <1>3, <2>1 DEF Follows
<1> DEFINE n5 == 4 + 2 * m + k
           n4 == 4 + m + k
           n3 == 3 + m + k
           n2 == 3 + m
           n1 == 1 + m
<1>11. n1 \in Nat /\ n2 \in Nat /\ n3 \in Nat /\ n4 \in Nat /\ n5 \in Nat /\ 0 \in Nat
       /\ 0 + n1 = n1 /\ 0 + n2 = n2 /\ 0 + n3 = n3 /\ 0 + n4 = n4 /\ 0 + n5 = n5
       /\ 0 + Len(x) = 1
  BY <1>2
<1>12. Len(p1) = n1 /\ Len(p2) = n2 /\ Len(p3) = n3 /\ Len(p4) = n4 /\ Len(p5) = n5
  BY <1>4, <1>5, <1>6, <1>7, <1>8
<1> HIDE DEF n1, n2, n3, n4, n5, m, k
<1>13. Follows(s, 0, p5) /\ Follows(s, n5, x)
  BY <1>8, <1>10, <1>11, <1>12, FollowsBoth
<1>14. Follows(s, 0, p4) /\ Follows(s, n4, y)
  BY <1>7, <1>11, <1>12, <1>13, FollowsBoth DEF p5
<1>15. Follows(s, 0, p3) /\ Follows(s, n3, Closing)
  BY <1>6, <1>11, <1>12, <1>14, FollowsBoth DEF p4
<1>16. Follows(s, 0, p2) /\ Follows(s, n2, v)
  BY <1>5, <1>11, <1>12, <1>15, FollowsBoth DEF p3
<1>17. Follows(s, 0, p1) /\ Follows(s, n1, Opening)
  BY <1>4, <1>11, <1>12, <1>16, FollowsBoth DEF p2
<1>18. Follows(s, 0, x) /\ Follows(s, 1, y)
  <2>1. Follows(s, 0, x) /\ Follows(s, 0 + Len(x), y)
    BY <1>11, <1>17, FollowsBoth DEF p1
  <2> QED
    BY <1>11, <2>1
<1>19. n2 = 1 + m + 2 /\ n3 = 1 + m + 2 + k
  BY <1>2 DEF n2, n3
<1> QED
  BY <1>9, <1>13, <1>14, <1>15, <1>16, <1>17, <1>18, <1>19 DEF n5, n4, n1, m, k, Laid

LEMMA ReadBack ==
    ASSUME NEW t \in Seq(Chars), NEW q \in Quotes, NEW v \in Variables,
           NEW content \in Contents, NEW s, s = LiteralOf(<<q>>, Escaped(t), v)
    PROVE  /\ Len(Tokens(s)) = 2 /\ Tokens(s)[1].type = "STRING"
           /\ ValueOf(Tokens(s)[1], [w \in {v} |-> content]).text = t \o content \o t
<1> DEFINE D == Writable
           e == [w \in {v} |-> content]
           x == <<q>>
           y == Escaped(t)
           m == Len(y)
           k == Len(v)
<1>1. /\ Writing(D) /\ "\n" \in D /\ "EOF" \notin D /\ Chars \subseteq D
      /\ InterpolantChars \subseteq D /\ Quotes \subseteq D
      /\ Opening \in Seq(D) /\ Closing \in Seq(D)
  BY WritableIs
<1>2. IsEnv(e) /\ ContentOf(v, e) = content
  BY DEF IsEnv, ContentOf
<1> HIDE DEF D, e
<1>3. t \in Seq(D)
  BY <1>1, SeqMonotonic
<1>4. v \in Seq(InterpolantChars) /\ v \in Seq(D)
  BY <1>1, LiteralsAssumption, SeqMonotonic
<1>5. x \in Seq(D) /\ Len(x) = 1 /\ x = <<q>>
  <2>1. q \in D
    BY <1>1
  <2> QED
    BY <2>1
<1>6. y \in Seq(D)
  BY <1>1, <1>3, EscapedCons
<1> HIDE DEF x, y
<1>7. s = LiteralOf(x, y, v)
  BY DEF x, y
<1>8. m \in Nat /\ k \in Nat
  BY <1>4, <1>6
<1>9. /\ s \in Seq(D) /\ Len(s) = 5 + 2 * m + k
      /\ Follows(s, 0, x) /\ Follows(s, 1, y) /\ Follows(s, 1 + m, Opening)
      /\ Follows(s, 1 + m + 2, v)
      /\ Follows(s, 1 + m + 2 + k, Closing)
      /\ Follows(s, 4 + m + k, y)
      /\ Follows(s, 4 + 2 * m + k, x)
  <2>1. s \in Seq(D) /\ Laid(s, x, y, v)
    BY <1>1, <1>4, <1>5, <1>6, <1>7, LaidOut
  <2> QED
    BY <2>1 DEF Laid
<1> HIDE <1>7
<1> DEFINE n1 == 1 + m
           n2 == 4 + m + k
           n3 == 4 + 2 * m + k
           c2 == n1 + 1
           c3 == n2 + 1
           l == Len(s)
<1>10. /\ n1 \in Nat /\ n2 \in Nat /\ n3 \in Nat /\ c2 \in Nat /\ c3 \in Nat
       /\ l \in Nat /\ l # 0 /\ n3 + 1 = l
       /\ 1 + 1 + m = c2 /\ n1 + 3 + k + 1 = c3 /\ c3 + m = l /\ 1 + 1 = 2
  BY <1>8, <1>9
<1>11. /\ Follows(s, 0, x) /\ Follows(s, 1, y) /\ Follows(s, n1, Opening)
       /\ Follows(s, n1 + 2, v) /\ Follows(s, n1 + 2 + k, Closing)
       /\ Follows(s, n2, y) /\ Follows(s, n3, x)
  BY <1>9
<1> HIDE DEF n1, n2, n3, l, k
<1>12. Char(s, 1) = q /\ Char(s, l) = q
  <2>1. Char(s, 0 + 1) = q /\ Char(s, n3 + 1) = q
    BY <1>5, <1>10, <1>11, FollowsOne
  <2> QED
    BY <1>10, <2>1
<1>13. Adds(s, 2, c2, q, e, t)
  <2>1. Adds(s, 1 + 1, 1 + 1 + Len(Escaped(t)), q, e, t)
    BY <1>1, <1>2, <1>3, <1>9, <1>11, EscapedRead DEF y
  <2>2. 1 + 1 + Len(Escaped(t)) = c2
    BY <1>10 DEF y
  <2> QED
    BY <1>10, <2>1, <2>2
<1>14. Adds(s, c2, c3, q, e, content)
  <2> DEFINE brace == n1 + 3 + k
  <2>1. Mentions(s, c2, brace, v)
    BY <1>4, <1>9, <1>10, <1>11, VariableRead DEF k
  <2>2. brace + 1 = c3
    BY <1>10
  <2> HIDE DEF brace, c2, c3
  <2>3. Adds(s, c2, brace + 1, q, e, ContentOf(v, e))
    BY <1>1, <1>2, <1>9, <1>10, <2>1, AddsInterpolant
  <2> QED
    BY <1>2, <2>2, <2>3
<1>15. Adds(s, c3, l, q, e, t)
  <2>1. Adds(s, n2 + 1, n2 + 1 + Len(Escaped(t)), q, e, t)
    BY <1>1, <1>2, <1>3, <1>9, <1>10, <1>11, EscapedRead DEF y
  <2>2. n2 + 1 + Len(Escaped(t)) = l
    BY <1>10 DEF y
  <2> QED
    BY <2>1, <2>2
<1> HIDE DEF c2, c3
<1>16. t \in Seq(AnyChar(D)) /\ content \in Seq(AnyChar(D))
  <2>1. D \subseteq AnyChar(D)
    BY DEF AnyChar
  <2> QED
    BY <1>3, <2>1, SeqMonotonic, ContentIs
<1> DEFINE u == t \o content
           w == u \o t
<1>17. u \in Seq(AnyChar(D)) /\ Adds(s, 2, c3, q, e, u)
  <2>1. u \in Seq(AnyChar(D))
    BY <1>16, JoinIs
  <2>2. Adds(s, 2, c3, q, e, t \o content)
    BY <1>1, <1>2, <1>9, <1>10, <1>13, <1>14, <1>16, AddsTrans
  <2> QED
    BY <2>1, <2>2
<1> HIDE DEF u
<1>18. w \in Seq(AnyChar(D)) /\ Adds(s, 2, l, q, e, w)
  <2>1. w \in Seq(AnyChar(D))
    BY <1>16, <1>17, JoinIs
  <2>2. Adds(s, 2, l, q, e, u \o t)
    BY <1>1, <1>2, <1>9, <1>10, <1>15, <1>16, <1>17, AddsTrans
  <2> QED
    BY <2>1, <2>2
<1> HIDE DEF w
<1>19. /\ Len(Tokens(s)) = 2 /\ Tokens(s)[1].type = "STRING"
       /\ ValueOf(Tokens(s)[1], e).text = w
  <2>1. Len(s) # 0 /\ Char(s, Len(s)) = q /\ Adds(s, 2, Len(s), q, e, w)
    BY <1>10, <1>12, <1>18 DEF l
  <2> QED
    BY <1>1, <1>2, <1>9, <1>12, <1>18, <2>1, LiteralIs
<1> QED
  BY <1>19 DEF e, u, w

(***************************************************************************)
(* Whatever the text is, StringFrom and Expanded give back what Escaped    *)
(* made a literal of.                                                      *)
(***************************************************************************)
THEOREM StringsReadBackAlways == Spec => []StringsReadBack
<1>1. LitInv => StringsReadBack
  <2> SUFFICES ASSUME LitInv, NEW q \in Quotes, NEW v \in Variables, NEW content \in Contents
               PROVE  LET tokens == Tokens(LiteralOf(<<q>>, Escaped(text), v))
                      IN  /\ Len(tokens) = 2
                          /\ tokens[1].type = "STRING"
                          /\ ValueOf(tokens[1], [w \in {v} |-> content]).text
                                = text \o content \o text
    BY DEF StringsReadBack, LiteralOf, Opening, Closing
  <2>1. text \in Seq(Chars)
    BY TextIs
  <2> QED
    BY ZenonT(40), <2>1, ReadBack
<1> QED
  BY <1>1, LoadedFromItsText, PTL

----------------------------------------------------------------------------
(* Integers as they are written.                                           *)

LEMMA AsInt ==
    ASSUME NEW S, NEW chars \in Seq(S), IsInt(chars)
    PROVE  /\ WrittenInt(chars) = IntOf(chars)
           /\ IntegerText(chars, IntOf(chars))
           /\ IntOf(chars) \in Int
           /\ Len(chars) \in Nat \ {0} /\ chars[1] \in NumIdInitChars
           /\ \A k \in 2..Len(chars) : chars[k] \in Digits
<1>1. PICK sign \in Signs, u \in Seq(Digits) \ {<<>>} : chars = sign \o u
  BY IntSplit
<1>2. Unsigned(chars) = u
  <2>1. Unsigned(sign \o u) = u
    BY IntOfIs
  <2> QED
    BY <1>1, <2>1
<1>3. u \in Seq(HexDigits)
  <2>1. Digits \subseteq HexDigits
    BY DigitFacts
  <2> QED
    BY <2>1, SeqMonotonic
<1>4. Denoted(10, u) = Denotes(10, u)
  <2>1. 10 \in Nat
    OBVIOUS
  <2> QED
    BY <1>3, <2>1, DenotedIs
<1>5. WrittenInt(chars) = IntOf(chars)
  <2> DEFINE n == Denoted(10, Unsigned(chars))
             m == Denotes(10, Unsigned(chars))
  <2>1. n = m
    BY <1>2, <1>4
  <2>2. WrittenInt(chars) = IF Negative(chars) THEN -n ELSE n
    BY DEF WrittenInt
  <2>3. IntOf(chars) = IF Negative(chars) THEN -m ELSE m
    BY DEF IntOf, Denotes
  <2> HIDE DEF n, m
  <2> QED
    BY <2>1, <2>2, <2>3
<1>6. IntegerText(chars, IntOf(chars))
  BY <1>1 DEF IntegerText
<1>7. IntOf(chars) \in Int
  BY IntOfType
<1>8. u # <<>>
  OBVIOUS
<1>9. /\ Len(sign \o u) \in Nat \ {0}
      /\ (sign \o u)[1] \in NumIdInitChars
      /\ \A k \in 2..Len(sign \o u) : (sign \o u)[k] \in Digits
  BY <1>8, IntegerChars
<1> QED
  BY <1>1, <1>5, <1>6, <1>7, <1>9

LEMMA NumbersStart ==
    /\ NumIdInitChars \cap (Blanks \cup {"/"}) = {} /\ "x" \notin Digits
    /\ Digits \subseteq NumIdChars /\ "EOF" \notin NumIdInitChars
  BY DEF NumIdInitChars, Digits, Blanks, NumIdChars

LEMMA NumberToken ==
    ASSUME NEW D, NEW s \in Seq(D), Len(s) # 0, s[1] \in NumIdInitChars
    PROVE  NextToken(s, 1) = IF s[1] = "0" /\ Char(s, 2) = "x"
                             THEN HexLiteral(s, 3) ELSE NumId(s, 1)
<1>1. 1 \in 1..Len(s) /\ 1 \in Nat /\ 1 # 0 /\ 1 + 1 = 2 /\ 1 + 2 = 3
  OBVIOUS
<1>2. Char(s, 1) = s[1]
  BY <1>1, CharFacts
<1>3. Skipped(s, 1) = 1
  <2>1. Char(s, 1) \notin Blanks \cup {"/"}
    BY <1>2, NumbersStart
  <2> QED
    BY <1>1, <2>1, SkippedIs
<1>4. TokenAt(s, 1) = IF Char(s, 1) = "0" /\ Char(s, 1 + 1) = "x"
                      THEN HexLiteral(s, 1 + 2) ELSE NumId(s, 1)
  BY <1>1, <1>2, TokenStarts
<1> QED
  BY <1>1, <1>2, <1>3, <1>4 DEF NextToken

LEMMA WholeSeq ==
    ASSUME NEW D, NEW s \in Seq(D)
    PROVE  SubSeq(s, 1, Len(s)) = s
  OBVIOUS

LEMMA IntTokenIs ==
    ASSUME NEW D, NEW s \in Seq(D), IsInt(s)
    PROVE  NextToken(s, 1) = Token("INT", Clamped(IntOf(s)), Len(s) + 1)
<1> DEFINE l == Len(s)
           end == l + 1
<1>1. l \in Nat \ {0} /\ s[1] \in NumIdInitChars /\ \A k \in 2..l : s[k] \in Digits
  BY AsInt
<1>2. Char(s, 2) # "x"
  <2>1. CASE 2 \in 1..l
    <3>1. Char(s, 2) = s[2] /\ 2 \in 2..l
      BY <2>1, CharFacts
    <3> QED
      BY <1>1, <3>1, NumbersStart
  <2>2. CASE 2 \notin 1..l
    <3>1. Char(s, 2) = "EOF"
      BY <2>2, CharFacts
    <3> QED
      BY <3>1
  <2> QED
    BY <2>1, <2>2
<1>3. NextToken(s, 1) = NumId(s, 1)
  BY <1>1, <1>2, NumberToken
<1>4. RunEnd(s, 1 + 1, NumIdChars) = end
  <2>1. 2 \in 1..(l + 1) /\ end \in 2..(l + 1) /\ end \in Nat /\ end \notin 1..l /\ end - 1 = l
    BY <1>1
  <2>2. \A k \in 2..(end - 1) : s[k] \in NumIdChars
    BY <1>1, <2>1, NumbersStart
  <2>3. Char(s, end) = "EOF"
    BY <2>1, CharFacts
  <2>4. Char(s, end) \notin NumIdChars
    BY <2>3, EndIsNone
  <2>5. 1 + 1 = 2
    OBVIOUS
  <2> HIDE DEF end
  <2>6. RunEnd(s, 2, NumIdChars) = end
    BY <2>1, <2>2, <2>4, RunEndIs
  <2> QED
    BY <2>5, <2>6
<1>5. end - 1 = l
  BY <1>1
<1> HIDE DEF end
<1>6. SubSeq(s, 1, end - 1) = s
  BY <1>5, WholeSeq
<1>7. NumId(s, 1) = Token("INT", IntLiteral(s), end)
  BY <1>4, <1>6 DEF NumId
<1> QED
  BY <1>3, <1>7 DEF IntLiteral, end

LEMMA HexTokenIs ==
    ASSUME NEW D, NEW s \in Seq(D), IsHex(s), NEW n, n = Denoted(16, SubSeq(s, 3, Len(s))),
           n <= LongMax
    PROVE  n \in Nat /\ NextToken(s, 1) = Token("INT", n, Len(s) + 1)
<1> DEFINE l == Len(s)
           end == l + 1
           chars == SubSeq(s, 3, l)
<1>1. l \in Nat /\ l > 2 /\ DOMAIN s = 1..l
  BY DEF IsHex
<1>2. s[1] = "0" /\ s[2] = "x"
  <2> DEFINE p == SubSeq(s, 1, 2)
  <2>1. p = <<"0", "x">>
    BY DEF IsHex
  <2>2. p[1] = s[1] /\ p[2] = s[2]
    BY <1>1
  <2> HIDE DEF p
  <2>3. p[1] = "0" /\ p[2] = "x"
    BY <2>1
  <2> QED
    BY <2>2, <2>3
<1>3. chars \in Seq(D)
  BY <1>1
<1>4. chars \in Seq(HexDigits)
  <2>1. AllIn(chars, HexDigits)
    BY DEF IsHex
  <2> HIDE DEF chars
  <2> QED
    BY <1>3, <2>1, AllInIs
<1>5. \A k \in 3..l : s[k] \in HexDigits
  <2> SUFFICES ASSUME NEW k \in 3..l
               PROVE  s[k] \in HexDigits
    OBVIOUS
  <2>1. k - 2 \in 1..Len(chars) /\ chars[k - 2] = s[k]
    BY <1>1
  <2> HIDE DEF chars
  <2>2. chars[k - 2] \in HexDigits
    BY <1>4, <2>1
  <2> QED
    BY <2>1, <2>2
<1>6. NextToken(s, 1) = HexLiteral(s, 3)
  <2>1. Char(s, 2) = "x"
    <3>1. 2 \in 1..l /\ 2 \in Nat
      BY <1>1
    <3> QED
      BY <1>2, <3>1, CharFacts
  <2>2. Len(s) # 0
    BY <1>1
  <2>3. s[1] \in NumIdInitChars
    BY <1>2 DEF NumIdInitChars, Digits
  <2> QED
    BY <1>2, <2>1, <2>2, <2>3, NumberToken
<1>7. RunEnd(s, 3, HexDigits) = end /\ end - 1 = l
  <2>1. 3 \in 1..(l + 1) /\ end \in 3..(l + 1) /\ end \in Nat /\ end \notin 1..l /\ end - 1 = l
    BY <1>1
  <2>2. \A k \in 3..(end - 1) : s[k] \in HexDigits
    BY <1>5, <2>1
  <2>3. Char(s, end) = "EOF"
    BY <2>1, CharFacts
  <2>4. Char(s, end) \notin HexDigits
    BY <2>3, EndIsNone
  <2> HIDE DEF end
  <2> QED
    BY <2>1, <2>2, <2>4, RunEndIs
<1>8. HexLiteral(s, 3) = Token("INT", Horner(16, chars, Wrapped), end)
  <2>1. SubSeq(s, 3, RunEnd(s, 3, HexDigits) - 1) = chars
    BY <1>7
  <2> HIDE DEF chars, end
  <2> QED
    BY <1>7, <2>1 DEF HexLiteral
<1> HIDE DEF chars
<1>9. n = Denotes(16, chars) /\ n \in Nat
  <2>1. 16 \in Nat
    OBVIOUS
  <2> QED
    BY <1>4, <2>1, DenotedIs, DenotesNat DEF chars
<1>10. Horner(16, chars, Wrapped) = n
  BY <1>4, <1>9, HexIs
<1> QED
  BY <1>6, <1>8, <1>9, <1>10

LEMMA LoadedInt ==
    ASSUME NEW s \in Seq(Chars), NEW n \in Int,
           NextToken(s, 1) = Token("INT", n, Len(s) + 1), LoadedFrom(s, prop)
    PROVE  prop.which = "Int" /\ IntegerText(prop.text, n)
<1> DEFINE token == Token("INT", n, Len(s) + 1)
<1>1. "\n" \in Chars
  BY DEF Chars
<1>2. Tokens(s)[1] = token
  BY <1>1, TokensIs
<1>3. token.type = "INT" /\ token.value = n
  BY DEF Token
<1> HIDE DEF token
<1>4. PICK e : prop = ValueOf(token, e)
  BY <1>2 DEF LoadedFrom
<1>5. prop = IntValue(n)
  BY <1>3, <1>4 DEF ValueOf
<1>6. prop.which = "Int" /\ prop.text = IntText(n)
  BY <1>5 DEF IntValue, Value
<1> QED
  BY <1>6, IntTextIs

LEMMA TooLarge ==
    ASSUME NEW n \in Int, n \notin LongMin..LongMax, Exactly(Clamped(n))
    PROVE  Exactly(n)
<1> DEFINE m == Clamped(n)
<1>1. m = LongMax \/ m = LongMin
  <2>1. n > LongMax \/ n < LongMin
    BY LongLimits
  <2> QED
    BY <2>1, ClampedIs
<1>2. m \notin IntMin..IntMax /\ n \notin IntMin..IntMax
  <2> HIDE DEF m
  <2> QED
    BY <1>1, IntIsNarrow
<1>3. Get("int").says = "bad_coercion"
  <2> HIDE DEF m
  <2>1. Exactly(m)
    BY DEF m
  <2> QED
    BY <1>2, <2>1 DEF Exactly
<1> QED
  BY <1>2, <1>3 DEF Exactly

LEMMA PlainIntegers ==
    ASSUME NEW s \in Seq(Chars), Exists, LoadedFrom(s, prop), IsInt(s)
    PROVE  Exactly(WrittenInt(s))
<1> DEFINE n == IntOf(s)
           m == Clamped(n)
<1>1. n \in Int /\ WrittenInt(s) = n
  BY AsInt
<1>2. NextToken(s, 1) = Token("INT", m, Len(s) + 1)
  BY IntTokenIs
<1> HIDE DEF n
<1>3. m \in LongMin..LongMax /\ m \in Int
  BY <1>1, ClampedIs, LongLimits
<1>4. prop.which = "Int" /\ IntegerText(prop.text, m)
  <2> HIDE DEF m
  <2> QED
    BY <1>2, <1>3, LoadedInt
<1>5. Exactly(m)
  <2> HIDE DEF m
  <2> QED
    BY <1>4, ExactlyIs
<1>6. CASE n \in LongMin..LongMax
  <2>1. m = n
    BY <1>1, <1>6, ClampedIs
  <2> QED
    BY <1>1, <1>5, <2>1
<1>7. CASE n \notin LongMin..LongMax
  BY <1>1, <1>5, <1>7, TooLarge
<1> QED
  BY <1>6, <1>7

LEMMA HexIntegers ==
    ASSUME NEW s \in Seq(Chars), Exists, LoadedFrom(s, prop), IsHex(s),
           NEW n, n = Denoted(16, SubSeq(s, 3, Len(s))), n <= LongMax
    PROVE  Exactly(n)
<1>1. n \in Nat /\ NextToken(s, 1) = Token("INT", n, Len(s) + 1)
  BY HexTokenIs
<1>2. n \in Int
  BY <1>1
<1>3. prop.which = "Int" /\ IntegerText(prop.text, n)
  BY <1>1, <1>2, LoadedInt
<1> QED
  BY <1>3, ExactlyIs

\* What cannot stand for itself in a literal.
Special == {"\n", "$", "\\", "'", "\""}

LEMMA EscapedPlain ==
    ASSUME NEW D, Writing(D), NEW t \in Seq(D \ Special)
    PROVE  Escaped(t) = t
<1> DEFINE P == D \ Special
           S == {l \in Nat : \A u \in Seq(P) : Len(u) = l => Escaped(u) = u}
<1>1. \A u \in Seq(P) : u \in Seq(D)
  <2>1. P \subseteq D
    OBVIOUS
  <2> HIDE DEF P
  <2> QED
    BY <2>1, SeqMonotonic
<1>2. \A c \in P : c \in D /\ Piece(c) = <<c>>
  BY PieceIs DEF Piece, Special
<1> HIDE DEF P
<1>3. 0 \in S
  <2> SUFFICES ASSUME NEW u \in Seq(P), Len(u) = 0
               PROVE  Escaped(u) = u
    OBVIOUS
  <2>1. u = <<>> /\ <<>> \in Seq(D)
    OBVIOUS
  <2>2. "\n" \in D
    BY DEF Writing
  <2> QED
    BY <2>1, <2>2, EscapedCons
<1>4. ASSUME NEW l \in Nat, l \in S
      PROVE  l + 1 \in S
  <2> SUFFICES ASSUME NEW u \in Seq(P), Len(u) = l + 1
               PROVE  Escaped(u) = u
    OBVIOUS
  <2> DEFINE c == Head(u)
             v == Tail(u)
  <2>1. c \in P /\ v \in Seq(P) /\ Len(v) = l /\ u = <<c>> \o v
    <3>1. u # <<>>
      OBVIOUS
    <3> QED
      BY <3>1
  <2> HIDE DEF c, v
  <2>2. Escaped(v) = v
    BY <1>4, <2>1
  <2>3. WritesMore(c, v)
    BY <1>1, <1>2, <2>1, EscapedCons
  <2> QED
    BY <1>2, <2>1, <2>2, <2>3 DEF WritesMore
<1>5. Nat \subseteq S
  <2> HIDE DEF S
  <2> QED
    BY <1>3, <1>4, SimpleInduction
<1>6. Len(t) \in Nat
  OBVIOUS
<1> QED
  BY <1>5, <1>6 DEF P

\* What is between a literal's quotes.
LEMMA BetweenQuotes ==
    ASSUME NEW D, NEW s \in Seq(D), Quoted(s), NEW w, w = SubSeq(s, 2, Len(s) - 1)
    PROVE  w \in Seq(D) /\ Len(w) = Len(s) - 2 /\ Follows(s, 1, w)
<1>1. Len(s) \in Nat /\ Len(s) > 2
  BY DEF Quoted
<1>2. Len(w) = Len(s) - 2 /\ \A k \in 1..(Len(s) - 2) : w[k] = s[k + 1]
  BY <1>1
<1>3. w \in Seq(D)
  BY <1>1
<1>4. ASSUME NEW k \in 1..(Len(s) - 2)
      PROVE  Char(s, 1 + k) = w[k]
  <2>1. 1 + k \in 1..Len(s) /\ 1 + k \in Nat /\ 1 + k = k + 1
    BY <1>1
  <2>2. Char(s, 1 + k) = s[1 + k]
    BY <2>1, CharFacts
  <2> QED
    BY <1>2, <2>1, <2>2
<1> QED
  BY <1>2, <1>3, <1>4 DEF Follows

\* A literal says what is between its quotes if that is not special.
LEMMA QuotedSays ==
    ASSUME NEW s \in Seq(Chars), Quoted(s), NEW w \in Seq(Writable \ Special),
           Len(w) = Len(s) - 2, Follows(s, 1, w), LoadedFrom(s, prop)
    PROVE  prop.which = "String" /\ prop.text = w
<1> DEFINE D == Writable
           l == Len(s)
           q == s[1]
<1>1. Writing(D) /\ "\n" \in D /\ "EOF" \notin D /\ Chars \subseteq D
  BY WritableIs
<1>2. s \in Seq(D) /\ l \in Nat /\ l > 2
  <2>1. s \in Seq(D)
    BY <1>1, SeqMonotonic
  <2>2. l \in Nat /\ l > 2
    BY DEF Quoted
  <2> QED
    BY <2>1, <2>2
<1>3. q \in Quotes /\ s[l] = q
  BY DEF Quoted
<1>4. w \in Seq(D)
  <2>1. Writable \ Special \subseteq D
    OBVIOUS
  <2> QED
    BY <2>1, SeqMonotonic
<1> HIDE DEF D, q, l
<1>5. Escaped(w) = w
  BY <1>1, EscapedPlain DEF D
<1>6. Char(s, 1) = q /\ Char(s, l) = q
  <2>1. 1 \in 1..Len(s) /\ l \in 1..Len(s) /\ 1 \in Nat /\ l \in Nat
    BY <1>2 DEF l
  <2>2. Char(s, 1) = s[1] /\ Char(s, l) = s[l]
    BY <2>1, CharFacts
  <2> QED
    BY <1>3, <2>2 DEF q
<1>7. PICK e : IsEnv(e) /\ prop = ValueOf(Tokens(s)[1], e)
  BY DEF LoadedFrom
<1>8. Adds(s, 2, l, q, e, w)
  <2>1. 1 \in Nat /\ 1 + 1 = 2 /\ 1 + 1 + Len(w) = l
    BY <1>2 DEF l
  <2>2. Adds(s, 1 + 1, 1 + 1 + Len(w), q, e, w)
    BY <1>1, <1>2, <1>3, <1>4, <1>5, <1>7, <2>1, EscapedRead
  <2> QED
    BY <2>1, <2>2
<1>9. w \in Seq(AnyChar(D))
  <2>1. D \subseteq AnyChar(D)
    BY DEF AnyChar
  <2> QED
    BY <1>4, <2>1, SeqMonotonic
<1>10. Tokens(s)[1].type = "STRING" /\ ValueOf(Tokens(s)[1], e).text = w
  <2>1. Len(s) # 0 /\ Char(s, Len(s)) = q /\ Adds(s, 2, Len(s), q, e, w)
    BY <1>2, <1>6, <1>8 DEF l
  <2> QED
    BY <1>1, <1>2, <1>3, <1>6, <1>7, <1>9, <2>1, LiteralIs
<1>11. ValueOf(Tokens(s)[1], e).which = "String"
  <2> DEFINE token == Tokens(s)[1]
  <2>1. token.type = "STRING"
    BY <1>10
  <2> HIDE DEF token
  <2>2. ValueOf(token, e) = StringValue(token.value, e)
    BY <2>1 DEF ValueOf
  <2>3. ValueOf(token, e).which = "String"
    BY <2>2 DEF StringValue, Value
  <2> QED
    BY <2>3 DEF token
<1> QED
  BY <1>7, <1>10, <1>11

LEMMA QuotedIntegers ==
    ASSUME NEW s \in Seq(Chars), Exists, LoadedFrom(s, prop), Quoted(s),
           NEW w, w = SubSeq(s, 2, Len(s) - 1), IsInt(w)
    PROVE  Exactly(WrittenInt(w))
<1>1. w \in Seq(Chars) /\ Len(w) = Len(s) - 2 /\ Follows(s, 1, w)
  BY BetweenQuotes
<1>2. /\ WrittenInt(w) = IntOf(w) /\ IntegerText(w, IntOf(w))
      /\ \A k \in 1..Len(w) : w[k] \in NumIdInitChars
  <2>1. /\ WrittenInt(w) = IntOf(w) /\ IntegerText(w, IntOf(w))
        /\ w[1] \in NumIdInitChars /\ \A k \in 2..Len(w) : w[k] \in Digits
    BY <1>1, AsInt
  <2>2. Digits \subseteq NumIdInitChars
    BY DEF NumIdInitChars
  <2>3. \A k \in 1..Len(w) : k = 1 \/ k \in 2..Len(w)
    OBVIOUS
  <2> QED
    BY <2>1, <2>2, <2>3
<1>3. w \in Seq(Writable \ Special)
  <2>1. NumIdInitChars \cap Special = {}
    BY DEF NumIdInitChars, Digits, Special
  <2>2. Chars \subseteq Writable
    BY WritableIs
  <2>3. \A k \in 1..Len(w) : w[k] \in Writable \ Special
    BY <1>1, <1>2, <2>1, <2>2
  <2>4. AllIn(w, Writable \ Special)
    <3>1. DOMAIN w = 1..Len(w)
      BY <1>1
    <3> QED
      BY <2>3, <3>1 DEF AllIn
  <2> QED
    BY <1>1, <2>4, AllInIs
<1>4. prop.which = "String" /\ prop.text = w
  BY <1>1, <1>3, QuotedSays
<1>5. Exactly(IntOf(w))
  BY <1>2, <1>4, ExactlyIs
<1> QED
  BY <1>2, <1>5

(***************************************************************************)
(* Whatever integer the file has, the lookups answer that one or, if it is *)
(* too large for them, none.                                               *)
(***************************************************************************)
THEOREM IntegersAsWrittenAlways == Spec => []IntegersAsWritten
<1>1. LitInv => IntegersAsWritten
  <2> SUFFICES ASSUME LitInv, Exists
               PROVE  /\ IsInt(Unquoted(text)) => Exactly(WrittenInt(Unquoted(text)))
                      /\ IsHex(text) /\ Denoted(16, SubSeq(text, 3, Len(text))) <= LongMax
                            => Exactly(Denoted(16, SubSeq(text, 3, Len(text))))
    BY DEF IntegersAsWritten
  <2>1. text \in Seq(Chars) /\ LoadedFrom(text, prop)
    BY TextIs DEF LitInv
  <2>2. IsInt(Unquoted(text)) => Exactly(WrittenInt(Unquoted(text)))
    <3>1. CASE Quoted(text)
      BY <2>1, <3>1, QuotedIntegers DEF Unquoted
    <3>2. CASE ~Quoted(text)
      BY <2>1, <3>2, PlainIntegers DEF Unquoted
    <3> QED
      BY <3>1, <3>2
  <2>3. IsHex(text) /\ Denoted(16, SubSeq(text, 3, Len(text))) <= LongMax
           => Exactly(Denoted(16, SubSeq(text, 3, Len(text))))
    BY <2>1, HexIntegers
  <2> QED
    BY <2>2, <2>3
<1> QED
  BY <1>1, LoadedFromItsText, PTL

----------------------------------------------------------------------------
(* Types.                                                                  *)

\* What texts of values are made of.
Texts == Alphabet \cup HexDigits \cup {"-", "+", "e", ".", "true", "false", "\n"}
                  \cup UNION {ToSet(c) : c \in Contents}

LEMMA TextsHave ==
    /\ NumIdInitChars \subseteq Texts /\ NumberChars \subseteq Texts
    /\ AnyChar(Chars) \subseteq Texts /\ "true" \in Texts /\ "false" \in Texts
<1>1. Digits \subseteq HexDigits
  BY DigitFacts
<1>2. \A c \in {"-", "+", "e", ".", "true", "false", "\n"} : c \in Texts
  BY DEF Texts
<1>3. Alphabet \subseteq Texts /\ HexDigits \subseteq Texts
  BY DEF Texts
<1>4. UNION {ToSet(c) : c \in Contents} \subseteq Texts
  BY DEF Texts
<1>5. Chars \subseteq Texts
  BY <1>2, <1>3 DEF Chars
<1>6. AnyChar(Chars) \subseteq Texts
  BY <1>4, <1>5 DEF AnyChar
<1>7. Digits \subseteq Texts /\ "-" \in Texts /\ "+" \in Texts /\ "e" \in Texts /\ "." \in Texts
  BY <1>1, <1>2, <1>3
<1> QED
  BY <1>2, <1>6, <1>7 DEF NumIdInitChars, NumberChars

LEMMA NumberHas ==
    ASSUME NEW number, NEW neg, NEW coef, NEW exp, Reads(number, neg, coef, exp)
    PROVE  number \in Seq(NumberChars)
<1>1. PICK sign, whole, dot, fraction, rest :
          /\ number = NumberText(sign, whole, dot, fraction, rest)
          /\ Written(sign, whole, dot, fraction)
          /\ rest \in Seq(NumberChars)
  BY DEF Reads
<1> DEFINE S == NumberChars
<1>2. Digits \subseteq S /\ "." \in S /\ "-" \in S /\ "+" \in S
  BY DEF NumberChars
<1> HIDE DEF S
<1>3. \A c \in S : <<c>> \in Seq(S)
  OBVIOUS
<1>4. <<>> \in Seq(S)
  OBVIOUS
<1>5. sign \in Seq(S) /\ dot \in Seq(S)
  <2>1. <<"-">> \in Seq(S) /\ <<"+">> \in Seq(S) /\ <<".">> \in Seq(S)
    BY <1>2, <1>3
  <2> QED
    BY <1>1, <1>4, <2>1 DEF Written, Signs
<1>6. whole \in Seq(S) /\ fraction \in Seq(S)
  <2>1. whole \in Seq(Digits) /\ fraction \in Seq(Digits)
    BY <1>1 DEF Written
  <2> QED
    BY <1>2, <2>1, SeqMonotonic
<1>7. rest \in Seq(S)
  BY <1>1 DEF S
<1> DEFINE a == fraction \o rest
           b == dot \o a
           c == whole \o b
<1> HIDE DEF a, b, c
<1>8. a \in Seq(S)
  BY <1>6, <1>7, JoinIs DEF a
<1>9. b \in Seq(S)
  BY <1>5, <1>8, JoinIs DEF b
<1>10. c \in Seq(S)
  BY <1>6, <1>9, JoinIs DEF c
<1>11. sign \o c \in Seq(S)
  BY <1>5, <1>10, JoinIs
<1>12. number = sign \o c
  BY <1>1 DEF NumberText, a, b, c
<1> QED
  BY <1>11, <1>12 DEF S

LEMMA ValueTexts ==
    ASSUME NEW v, IsIntValue(v) \/ IsDoubleValue(v) \/ IsBoolValue(v) \/ IsStringValue(v)
    PROVE  /\ v.which \in {"String", "Int", "Double", "Bool"}
           /\ v.text \in Seq(Texts)
           /\ v.which = "Int" => v.raw \in LongMin..LongMax
<1>1. CASE IsIntValue(v)
  <2>1. PICK n \in LongMin..LongMax : v = IntValue(n)
    BY <1>1 DEF IsIntValue
  <2>2. v.which = "Int" /\ v.raw = n /\ v.text = IntText(n)
    BY <2>1 DEF IntValue, Value
  <2>3. n \in Int
    BY LongLimits
  <2>4. IntegerText(v.text, n)
    BY <2>2, <2>3, IntTextIs
  <2>5. v.text \in Seq(NumIdInitChars)
    <3>1. PICK sign \in Signs, u \in Seq(Digits) \ {<<>>} : v.text = sign \o u
      BY <2>4 DEF IntegerText
    <3>2. u \in Seq(Digits) /\ u # <<>>
      OBVIOUS
    <3> QED
      BY <3>1, <3>2, IntegerChars
  <2>6. v.text \in Seq(Texts)
    BY <2>5, TextsHave, SeqMonotonic
  <2> QED
    BY <2>2, <2>6
<1>2. CASE IsDoubleValue(v)
  <2>1. PICK d \in Decimals : Stripped(d) /\ v = DoubleValue(d)
    BY <1>2 DEF IsDoubleValue
  <2>2. v.which = "Double" /\ v.text = DoubleText(d)
    BY <2>1 DEF DoubleValue, Value
  <2>3. v.text \in Seq(NumberChars)
    BY <2>1, <2>2, DoubleTextIs, NumberHas
  <2>4. v.text \in Seq(Texts)
    BY <2>3, TextsHave, SeqMonotonic
  <2> QED
    BY <2>2, <2>4
<1>3. CASE IsBoolValue(v)
  <2>1. PICK b \in BOOLEAN : v = BoolValue(b)
    BY <1>3 DEF IsBoolValue
  <2>2. v.which = "Bool" /\ (v.text = <<"true">> \/ v.text = <<"false">>)
    BY <2>1 DEF BoolValue, Value
  <2>3. \A c \in Texts : <<c>> \in Seq(Texts)
    OBVIOUS
  <2>4. v.text \in Seq(Texts)
    BY <2>2, <2>3, TextsHave
  <2> QED
    BY <2>2, <2>4
<1>4. CASE IsStringValue(v)
  <2>1. PICK elems \in Seq(Elements(Chars)) : \E e : IsEnv(e) /\ v = StringValue(elems, e)
    BY <1>4 DEF IsStringValue
  <2>2. PICK e : IsEnv(e) /\ v = StringValue(elems, e)
    BY <2>1
  <2>3. v.which = "String" /\ v.text = Expanded(elems, e)
    BY <2>2 DEF StringValue, Value
  <2>4. Expanded(elems, e) \in Seq(AnyChar(Chars))
    <3>1. <<>> \in Seq(Chars)
      OBVIOUS
    <3>2. Plain(<<>>) \in Elements(Chars)
      BY <3>1, ElementIs
    <3> QED
      BY <2>2, <3>2, ExpandedCons
  <2>5. v.text \in Seq(Texts)
    BY <2>3, <2>4, TextsHave, SeqMonotonic
  <2> QED
    BY <2>3, <2>5
<1> QED
  BY <1>1, <1>2, <1>3, <1>4

(***************************************************************************)
(* Texts are made of the characters of the file, of numbers and of what    *)
(* the variables hold; an integer fits int64_t.                            *)
(***************************************************************************)
THEOREM TypesHold == Spec => []TypeOK
<1>1. LitInv => TypeOK
  <2> SUFFICES ASSUME LitInv
               PROVE  TypeOK
    OBVIOUS
  <2>1. AllIn(text, Alphabet)
    <3>1. text \in Seq(Alphabet)
      BY DEF LitInv
    <3> QED
      BY <3>1, AllInIs
  <2>2. Exists => /\ prop.which \in {"String", "Int", "Double", "Bool"}
                  /\ AllIn(prop.text, Texts)
                  /\ prop.which = "Int" => prop.raw \in LongMin..LongMax
    <3> SUFFICES ASSUME Exists
                 PROVE  /\ prop.which \in {"String", "Int", "Double", "Bool"}
                        /\ AllIn(prop.text, Texts)
                        /\ prop.which = "Int" => prop.raw \in LongMin..LongMax
      OBVIOUS
    <3>1. IsIntValue(prop) \/ IsDoubleValue(prop) \/ IsBoolValue(prop) \/ IsStringValue(prop)
      BY ValueIs, TextIs DEF LitInv
    <3>2. prop.text \in Seq(Texts)
      BY <3>1, ValueTexts
    <3>3. AllIn(prop.text, Texts)
      BY <3>2, AllInIs
    <3> QED
      BY <3>1, <3>3, ValueTexts
  <2>3. DOMAIN env \subseteq Variables /\ \A v \in DOMAIN env : env[v] \in Contents
    BY DEF LitInv, IsEnv
  <2> QED
    BY <2>1, <2>2, <2>3 DEF TypeOK, Texts, Alphabet
<1> QED
  BY <1>1, LoadedFromItsText, PTL

----------------------------------------------------------------------------
(* Doubles as integers.                                                    *)

LEMMA PowerAdds ==
    ASSUME NEW b \in Nat, NEW m \in Nat
    PROVE  \A k \in Nat : /\ Power(b, m) \in Nat /\ Power(b, k) \in Nat
                          /\ Power(b, m + k) = Power(b, m) * Power(b, k)
<1> DEFINE Sum(k) == /\ Power(b, m) \in Nat /\ Power(b, k) \in Nat
                     /\ Power(b, m + k) = Power(b, m) * Power(b, k)
           S == {k \in Nat : Sum(k)}
<1>1. 0 \in S
  <2>1. m + 0 = m /\ \A x \in Nat : x * 1 = x
    OBVIOUS
  <2> QED
    BY <2>1, PowerIs
<1>2. ASSUME NEW k \in S
      PROVE  k + 1 \in S
  <2>1. k \in Nat /\ m + k \in Nat /\ m + (k + 1) = (m + k) + 1
    OBVIOUS
  <2>2. /\ Power(b, k + 1) = b * Power(b, k) /\ Power(b, k + 1) \in Nat
        /\ Power(b, (m + k) + 1) = b * Power(b, m + k)
    BY <2>1, PowerIs
  <2>3. Sum(k)
    OBVIOUS
  <2>4. \A x, y \in Nat : b * (x * y) = x * (b * y)
    OBVIOUS
  <2> QED
    BY <2>1, <2>2, <2>3, <2>4
<1>3. Nat \subseteq S
  <2> HIDE DEF S
  <2> QED
    BY <1>1, <1>2, SimpleInduction
<1> QED
  BY <1>3

LEMMA TenTo ==
    ASSUME NEW k \in Nat
    PROVE  /\ Power(10, k) \in Nat \ {0} /\ Power(10, k + 1) \in Nat \ {0}
           /\ Power(10, k + 1) = 10 * Power(10, k)
           /\ \A j \in Nat : Power(10, k + j) = Power(10, k) * Power(10, j)
<1>1. 10 \in Nat /\ 10 # 0 /\ k + 1 \in Nat
  OBVIOUS
<1>2. /\ \A n \in Nat : Power(10, n) \in Nat /\ Power(10, n) # 0
      /\ Power(10, k + 1) = 10 * Power(10, k)
  BY <1>1, PowerIs, PowerPositive
<1>3. \A j \in Nat : Power(10, k + j) = Power(10, k) * Power(10, j)
  BY <1>1, PowerAdds
<1> QED
  BY <1>1, <1>2, <1>3

LEMMA PowersRise ==
    ASSUME NEW a \in Nat, NEW b \in Nat, a <= b
    PROVE  /\ Power(10, a) \in Nat /\ Power(10, b) \in Nat
           /\ Power(10, a) <= Power(10, b)
<1> DEFINE c == b - a
<1>1. c \in Nat /\ b = a + c
  OBVIOUS
<1> HIDE DEF c
<1>2. /\ Power(10, a) \in Nat /\ Power(10, c) \in Nat
      /\ Power(10, a + c) = Power(10, a) * Power(10, c)
  BY <1>1, PowerAdds
<1>3. Power(10, c) # 0
  BY <1>1, PowerPositive
<1>4. \A x, y \in Nat : y # 0 => x * y \in Nat /\ x <= x * y
  OBVIOUS
<1> QED
  BY <1>1, <1>2, <1>3, <1>4

\* A number of k digits is at least 10^(k - 1) and less than 10^k.
Spans(n, k) == k \in Nat /\ Power(10, k) <= n /\ n < Power(10, k + 1)

LEMMA SpanIs ==
    ASSUME NEW n \in Nat, NEW j, NEW k, Spans(n, j), Spans(n, k)
    PROVE  j = k
<1>2. j \in Nat /\ k \in Nat
  BY DEF Spans
<1>3. CASE j < k
  <2>1. j + 1 \in Nat /\ j + 1 <= k
    BY <1>2, <1>3
  <2>2. Power(10, j + 1) <= Power(10, k) /\ Power(10, j + 1) \in Nat /\ Power(10, k) \in Nat
    BY <1>2, <2>1, PowersRise
  <2> QED
    BY <2>2 DEF Spans
<1>4. CASE k < j
  <2>1. k + 1 \in Nat /\ k + 1 <= j
    BY <1>2, <1>4
  <2>2. Power(10, k + 1) <= Power(10, j) /\ Power(10, k + 1) \in Nat /\ Power(10, j) \in Nat
    BY <1>2, <2>1, PowersRise
  <2> QED
    BY <2>2 DEF Spans
<1> QED
  BY <1>2, <1>3, <1>4

LEMMA DigitsSpan ==
    \A n \in Nat : /\ Len(DigitsOf(n)) \in Nat \ {0}
                   /\ n # 0 => Spans(n, Len(DigitsOf(n)) - 1)
                   /\ n = 0 => Len(DigitsOf(n)) = 1
<1> DEFINE Good(n) == n # 0 => Spans(n, Len(DigitsOf(n)) - 1)
           S == {n \in Nat : Good(n)}
<1>1. ASSUME NEW n \in Nat, \A m \in 0..(n - 1) : m \in S
      PROVE  n \in S
  <2>1. CASE n < 10
    <3>1. Len(DigitsOf(n)) - 1 = 0
      BY <2>1, DigitsOfIs
    <3>2. Power(10, 0) = 1 /\ Power(10, 0 + 1) = 10 * Power(10, 0)
      BY PowerIs
    <3>3. n # 0 => Spans(n, 0)
      BY <2>1, <3>2 DEF Spans
    <3> QED
      BY <3>1, <3>3
  <2>2. CASE n >= 10
    <3> DEFINE m == n \div 10
               k == Len(DigitsOf(m)) - 1
    <3>1. m \in Nat \ {0} /\ m < n /\ m \in 0..(n - 1) /\ n % 10 \in 0..9
          /\ n = m * 10 + (n % 10)
      BY <2>2, TenthIsLess
    <3>2. Spans(m, k)
      BY <1>1, <3>1
    <3>3. DigitsOf(m) \in Seq(Digits) /\ DigitsOf(n) = Append(DigitsOf(m), DigitsInOrder[(n % 10) + 1])
      BY <2>2, <3>1, DigitsOfIs
    <3>4. Len(DigitsOf(n)) - 1 = k + 1
      BY <3>3
    <3> HIDE DEF m, k
    <3>5. k \in Nat
      BY <3>2 DEF Spans
    <3>6. /\ Power(10, k) \in Nat /\ Power(10, k + 1) = 10 * Power(10, k)
          /\ Power(10, k + 1) \in Nat /\ Power(10, (k + 1) + 1) = 10 * Power(10, k + 1)
      BY <3>5, PowerIs
    <3>7. Power(10, k + 1) <= n /\ n < Power(10, (k + 1) + 1)
      BY <3>1, <3>2, <3>6 DEF Spans
    <3> QED
      BY <3>4, <3>5, <3>7 DEF Spans
  <2> QED
    BY <2>1, <2>2
<1>2. Nat \subseteq S
  <2> HIDE DEF S
  <2> QED
    BY <1>1, StrongInduction
<1>3. ASSUME NEW n \in Nat
      PROVE  Good(n)
  BY <1>2
<1>4. Len(DigitsOf(0)) = 1
  BY DigitsOfIs
<1> QED
  BY <1>3, <1>4, DigitsLength

\* What a decimal's coefficient and exponent have to do with those it is made of.
LEMMA DecimalHas ==
    ASSUME NEW neg \in BOOLEAN, NEW coef \in Nat \ {0}, NEW exp \in Int
    PROVE  \E j \in Nat : /\ Decimal(neg, coef, exp).coef \in Nat \ {0}
                          /\ coef = Decimal(neg, coef, exp).coef * Power(10, j)
                          /\ Decimal(neg, coef, exp).exp = exp + j
<1> DEFINE Has(c, j, x) == /\ Decimal(neg, c, x).coef \in Nat \ {0}
                           /\ c = Decimal(neg, c, x).coef * Power(10, j)
                           /\ Decimal(neg, c, x).exp = x + j
           S == {c \in Nat : c # 0 => \E j \in Nat : \A x \in Int : Has(c, j, x)}
<1>1. ASSUME NEW c \in Nat, \A m \in Nat : m < c => m \in S, c # 0
      PROVE  \E j \in Nat : \A x \in Int : Has(c, j, x)
  <2>1. CASE c % 10 # 0
    <3>1. ASSUME NEW x \in Int
          PROVE  Has(c, 0, x)
      <4>1. Decimal(neg, c, x) = [neg |-> neg, coef |-> c, exp |-> x]
        BY <2>1, DecimalIs
      <4>2. Power(10, 0) = 1 /\ c * 1 = c /\ x + 0 = x
        BY PowerIs
      <4> QED
        BY <1>1, <4>1, <4>2
    <3> QED
      BY <3>1
  <2>2. CASE c % 10 = 0
    <3> DEFINE m == c \div 10
    <3>1. m \in Nat /\ m < c /\ m # 0 /\ c = m * 10
      BY <1>1, <2>2
    <3> HIDE DEF m, Has
    <3>2. PICK j \in Nat : \A x \in Int : Has(m, j, x)
      BY <1>1, <3>1
    <3>3. ASSUME NEW x \in Int
          PROVE  Has(c, j + 1, x)
      <4>1. Has(m, j, x + 1)
        BY <3>2
      <4>2. Decimal(neg, c, x) = Decimal(neg, m, x + 1)
        BY <3>1, DecimalIs
      <4>3. Power(10, j + 1) = 10 * Power(10, j) /\ Power(10, j) \in Nat
        BY PowerIs
      <4>4. x + 1 + j = x + (j + 1)
        OBVIOUS
      <4> DEFINE k == Decimal(neg, m, x + 1).coef
      <4>5. k \in Nat \ {0} /\ m = k * Power(10, j) /\ Decimal(neg, m, x + 1).exp = x + 1 + j
        BY <4>1 DEF Has
      <4> HIDE DEF k
      <4>6. \A y, z \in Nat : (y * z) * 10 = y * (10 * z)
        OBVIOUS
      <4>7. c = k * Power(10, j + 1)
        BY <3>1, <4>3, <4>5, <4>6
      <4> QED
        BY <4>2, <4>4, <4>5, <4>7 DEF Has, k
    <3> QED
      BY <3>3
  <2> QED
    BY <2>1, <2>2
<1>2. Nat \subseteq S
  <2>1. \A c \in Nat : (\A m \in Nat : m < c => m \in S) => c \in S
    BY <1>1
  <2> HIDE DEF S
  <2> QED
    BY <2>1, StrongInduction
<1>3. \E j \in Nat : \A x \in Int : Has(coef, j, x)
  BY <1>2
<1> QED
  BY <1>3

\* A factor of ten to the j makes j digits more.
LEMMA SpanShift ==
    ASSUME NEW n \in Nat \ {0}, NEW j \in Nat
    PROVE  /\ n * Power(10, j) \in Nat \ {0}
           /\ Len(DigitsOf(n * Power(10, j))) = Len(DigitsOf(n)) + j
<1> DEFINE k == Len(DigitsOf(n)) - 1
           m == n * Power(10, j)
<1>1. k \in Nat /\ Len(DigitsOf(n)) = k + 1 /\ Spans(n, k)
  BY DigitsSpan
<1>2. Power(10, j) \in Nat \ {0}
  BY PowerPositive, PowerIs
<1> HIDE DEF k
<1>3. /\ Power(10, k + j) = Power(10, k) * Power(10, j) /\ Power(10, k) \in Nat
      /\ Power(10, (k + 1) + j) = Power(10, k + 1) * Power(10, j) /\ Power(10, k + 1) \in Nat
  <2>1. k + 1 \in Nat
    BY <1>1
  <2> QED
    BY <1>1, <2>1, PowerAdds
<1>4. \A a, b \in Nat, p \in Nat \ {0} :
          /\ a * p \in Nat
          /\ a <= b => a * p <= b * p
          /\ a < b => a * p < b * p
          /\ a # 0 => a * p # 0
  OBVIOUS
<1>5. /\ m \in Nat \ {0} /\ Power(10, k) * Power(10, j) <= m
      /\ m < Power(10, k + 1) * Power(10, j)
  BY <1>1, <1>2, <1>3, <1>4 DEF Spans
<1>6. (k + 1) + j = (k + j) + 1 /\ k + j \in Nat
  BY <1>1
<1> HIDE DEF m
<1>7. Spans(m, k + j)
  BY <1>3, <1>5, <1>6 DEF Spans
<1>8. Spans(m, Len(DigitsOf(m)) - 1) /\ Len(DigitsOf(m)) \in Nat
  BY <1>5, DigitsSpan
<1>9. Len(DigitsOf(m)) - 1 = k + j
  BY <1>5, <1>7, <1>8, SpanIs
<1> QED
  BY <1>1, <1>5, <1>8, <1>9 DEF m

LEMMA DigitsBound ==
    ASSUME NEW n \in Nat \ {0}, NEW k \in Nat
    PROVE  /\ Power(10, k) \in Nat
           /\ Power(10, k) <= n <=> k + 1 <= Len(DigitsOf(n))
<1> DEFINE j == Len(DigitsOf(n)) - 1
<1>1. j \in Nat /\ Len(DigitsOf(n)) = j + 1 /\ Spans(n, j)
  BY DigitsSpan
<1> HIDE DEF j
<1>2. /\ Power(10, k) \in Nat /\ Power(10, j) \in Nat /\ Power(10, j + 1) \in Nat
      /\ j + 1 \in Nat
  <2>1. j \in Nat /\ j + 1 \in Nat
    BY <1>1
  <2> QED
    BY <2>1, TenTo
<1>3. CASE k <= j
  BY <1>1, <1>2, <1>3, PowersRise DEF Spans
<1>4. CASE ~(k <= j)
  <2>1. j + 1 <= k
    BY <1>1, <1>4
  <2>2. Power(10, j + 1) <= Power(10, k)
    BY <1>2, <2>1, PowersRise
  <2> QED
    BY <1>1, <1>2, <1>4, <2>2 DEF Spans
<1> QED
  BY <1>3, <1>4

\* The coefficient to which d is rounded, before its zeros are stripped.
RoundsTo(K, d) ==
    LET q == Power(10, Spread(d))
    IN  /\ 2 * (K * q - d.coef) <= q
        /\ 2 * (d.coef - K * q) <= q

LEMMA RoundedHas ==
    ASSUME NEW d \in Decimals, Stripped(d), d.coef # 0, Spread(d) > 0
    PROVE  \E K \in Nat \ {0} :
               /\ Rounded(d) = Decimal(d.neg, K, d.exp + Spread(d))
               /\ RoundsTo(K, d)
               /\ Len(DigitsOf(K)) \in {Precision, Precision + 1}
<1> DEFINE c == d.coef
           e == Spread(d)
           q == Power(10, e)
           kept == c \div q
           twice == 2 * (c % q)
           up == twice > q \/ (twice = q /\ kept % 2 = 1)
           K == IF up THEN kept + 1 ELSE kept
<1>1. c \in Nat \ {0} /\ Len(DigitsOf(c)) \in Nat
  BY DigitsSpan DEF Decimals
<1>2. e \in Nat /\ Precision \in Nat \ {0} /\ Len(DigitsOf(c)) = Precision + e
  BY <1>1, ValuesAssumption DEF Spread
<1>3. q \in Nat \ {0}
  BY <1>2, TenTo
<1>4. Rounded(d) = Decimal(d.neg, K, d.exp + e)
  BY <1>2 DEF Rounded, Spread
<1> HIDE DEF q, e
<1>5. /\ c % q \in Nat /\ c % q < q /\ kept \in Nat /\ c = kept * q + (c % q)
  <2>1. \A a \in Nat, b \in Nat \ {0} : /\ a % b \in Nat /\ a % b < b /\ a \div b \in Nat
                                        /\ a = (a \div b) * b + (a % b)
    OBVIOUS
  <2> QED
    BY <1>1, <1>3, <2>1
<1> DEFINE r == c % q
<1> HIDE DEF kept, r
<1>6. /\ r \in Nat /\ r < q /\ kept \in Nat /\ c = kept * q + r
      /\ twice = 2 * r
  BY <1>5 DEF r
<1>7. /\ 2 * (K * q - c) <= q
      /\ 2 * (c - K * q) <= q
  <2>1. kept * q \in Nat /\ (kept + 1) * q = kept * q + q
    BY <1>3, <1>6
  <2>2. up => 2 * r >= q
    BY <1>3, <1>6
  <2>3. ~up => 2 * r <= q
    BY <1>3, <1>6
  <2> HIDE DEF up, twice, c
  <2>4. CASE up
    BY <1>3, <1>6, <2>1, <2>2, <2>4
  <2>5. CASE ~up
    BY <1>3, <1>6, <2>1, <2>3, <2>5
  <2> QED
    BY <2>4, <2>5
<1>8. Power(10, Precision - 1) <= kept /\ kept < Power(10, Precision)
  <2> DEFINE p == Precision - 1
  <2>1. p \in Nat /\ Precision = p + 1 /\ Len(DigitsOf(c)) = (p + e) + 1 /\ p + e \in Nat
        /\ (p + 1) + e \in Nat /\ (p + 1) + e = Len(DigitsOf(c)) /\ p + 1 \in Nat
    BY <1>2
  <2> HIDE DEF p, c
  <2>2. Power(10, p + e) <= c
    BY <1>1, <2>1, DigitsBound
  <2>3. ~(Power(10, (p + 1) + e) <= c) /\ Power(10, (p + 1) + e) \in Nat
    BY <1>1, <2>1, DigitsBound
  <2>4. /\ Power(10, p + e) = Power(10, p) * q /\ Power(10, p) \in Nat
        /\ Power(10, (p + 1) + e) = Power(10, p + 1) * q /\ Power(10, p + 1) \in Nat
    BY <1>2, <2>1, TenTo DEF q
  <2>5. ASSUME NEW x \in Nat
        PROVE  /\ x * q <= c => x <= kept
               /\ ~(x * q <= c) => kept < x
    <3>1. x > kept => x * q >= kept * q + q
      <4>1. \A y \in Nat, z \in Nat, w \in Nat : y > z => y * w >= z * w + w
        OBVIOUS
      <4> QED
        BY <1>3, <1>6, <4>1
    <3>2. x <= kept => x * q <= kept * q
      <4>1. \A y \in Nat, z \in Nat, w \in Nat : y <= z => y * w <= z * w
        OBVIOUS
      <4> QED
        BY <1>3, <1>6, <4>1
    <3>3. kept * q \in Nat /\ x * q \in Nat
      BY <1>3, <1>6
    <3> QED
      BY <1>3, <1>6, <3>1, <3>2, <3>3
  <2> QED
    BY <2>1, <2>2, <2>3, <2>4, <2>5 DEF p
<1>9. K \in Nat /\ Power(10, Precision - 1) <= K /\ K <= Power(10, Precision)
      /\ Power(10, Precision - 1) \in Nat \ {0} /\ Power(10, Precision) \in Nat
  <2>1. Power(10, Precision - 1) \in Nat \ {0} /\ Power(10, Precision) \in Nat
    <3>1. Precision - 1 \in Nat /\ Precision \in Nat
      BY <1>2
    <3> QED
      BY <3>1, TenTo
  <2>2. K = kept \/ K = kept + 1
    OBVIOUS
  <2> HIDE DEF K
  <2> QED
    BY <1>6, <1>8, <2>1, <2>2
<1> HIDE DEF K
<1>10. K \in Nat \ {0}
  BY <1>9
<1>11. Len(DigitsOf(K)) \in {Precision, Precision + 1}
  <2> DEFINE p == Precision - 1
             l == Len(DigitsOf(K))
  <2>1. p \in Nat /\ Precision = p + 1 /\ (p + 1) + 1 \in Nat /\ p + 1 \in Nat /\ l \in Nat
    BY <1>2, <1>10, DigitsSpan
  <2> HIDE DEF p, l
  <2>2. p + 1 <= l
    BY <1>9, <1>10, <2>1, DigitsBound DEF p, l
  <2>3. ~(((p + 1) + 1) + 1 <= l)
    <3>1. Power(10, (p + 1) + 1) = 10 * Power(10, p + 1) /\ Power(10, p + 1) # 0
          /\ Power(10, p + 1) \in Nat
      BY <2>1, TenTo
    <3>2. ~(Power(10, (p + 1) + 1) <= K)
      BY <1>9, <2>1, <3>1
    <3> QED
      BY <1>10, <2>1, <3>2, DigitsBound DEF l
  <2>4. l \in {p + 1, (p + 1) + 1}
    BY <2>1, <2>2, <2>3
  <2> QED
    BY <2>1, <2>4 DEF l
<1>12. RoundsTo(K, d)
  BY <1>7 DEF RoundsTo, q, e
<1> QED
  BY <1>4, <1>10, <1>11, <1>12 DEF e

\* What a double is printed as, if that has neither point nor exponent.
Sign(neg) == IF neg THEN -1 ELSE 1
Leading(d) == Len(DigitsOf(d.coef)) - 1 + d.exp
IsWhole(d) == d.exp >= 0 /\ Leading(d) < Precision
Whole(d) == Sign(d.neg) * (d.coef * Power(10, d.exp))

LEMMA WholeText ==
    ASSUME NEW d \in Decimals, Stripped(d), IsWhole(Rounded(d))
    PROVE  IntegerText(DoubleText(d), Whole(Rounded(d)))
<1> DEFINE r == Rounded(d)
           digits == DigitsOf(r.coef)
           x == Leading(r)
           zeros == Zeros(r.exp)
           sign == Minus(d.neg)
<1>1. r \in Decimals /\ r.neg = d.neg /\ r.exp >= 0 /\ x < Precision
  BY RoundedIs DEF IsWhole
<1>2. r.coef \in Nat /\ r.exp \in Nat /\ d.neg \in BOOLEAN
  BY <1>1 DEF Decimals
<1>3. /\ digits \in Seq(Digits) /\ digits # <<>> /\ Denotes(10, digits) = r.coef
      /\ Len(digits) \in Nat \ {0}
  BY <1>2, DigitsDenote, DigitsSpan
<1>4. x = Len(digits) - 1 + r.exp /\ x >= 0 /\ x + 1 >= Len(digits)
      /\ x + 1 - Len(digits) = r.exp /\ x \in Int
  BY <1>2, <1>3 DEF Leading
<1>5. DoubleText(d) = sign \o Pointed(digits, x + 1)
  <2>1. ~(x < -4 \/ x >= Precision)
    BY <1>1, <1>4, <1>2, <1>3, ValuesAssumption
  <2>2. DoubleText(d) = Minus(d.neg) \o (IF x < -4 \/ x >= Precision
                         THEN Pointed(digits, 1) \o ExponentText(x)
                         ELSE Pointed(digits, x + 1))
    BY DEF DoubleText, Leading
  <2> HIDE DEF x, digits
  <2> QED
    BY <2>1, <2>2
<1>6. Pointed(digits, x + 1) = digits \o zeros
  <2> DEFINE n == x + 1
  <2>1. n >= Len(digits) /\ n - Len(digits) = r.exp
    <3> HIDE DEF x, digits, r
    <3> QED
      BY <1>2, <1>3, <1>4
  <2> HIDE DEF n
  <2>2. Pointed(digits, n) = digits \o Zeros(n - Len(digits))
    <3> HIDE DEF digits
    <3> QED
      BY <2>1 DEF Pointed
  <2>3. Pointed(digits, n) = digits \o zeros
    <3> HIDE DEF digits
    <3> QED
      BY <2>1, <2>2
  <2> QED
    BY <2>3 DEF n
<1> DEFINE u == digits \o zeros
<1>7. /\ zeros \in Seq(Digits) /\ Denotes(10, zeros) = 0 /\ Len(zeros) = r.exp
      /\ digits \in Seq(HexDigits) /\ zeros \in Seq(HexDigits)
  <2>1. /\ zeros \in Seq(Digits) /\ Denotes(10, zeros) = 0 /\ Len(zeros) = r.exp
        /\ zeros \in Seq(HexDigits)
    <3>1. r.exp \in Nat
      BY <1>2
    <3> QED
      BY <3>1, ManyZeros
  <2>2. digits \in Seq(HexDigits)
    <3>1. digits \in Seq(Digits) /\ Digits \subseteq HexDigits
      BY <1>3, DigitFacts
    <3> HIDE DEF digits
    <3> QED
      BY <3>1, SeqMonotonic
  <2> QED
    BY <2>1, <2>2
<1>8. Denotes(10, u) = r.coef * Power(10, r.exp)
  <2>1. Denotes(10, u) = Denotes(10, digits) * Power(10, Len(zeros)) + Denotes(10, zeros)
    <3> HIDE DEF digits, zeros
    <3> QED
      BY <1>7, DenotesConcat
  <2>2. Power(10, r.exp) \in Nat
    BY <1>2, TenTo
  <2>3. \A y, z \in Nat : y * z + 0 = y * z
    OBVIOUS
  <2> HIDE DEF digits, zeros
  <2> QED
    BY <1>2, <1>3, <1>7, <2>1, <2>2, <2>3
<1>9. u \in Seq(Digits) /\ u # <<>>
  <2> HIDE DEF digits, zeros
  <2> QED
    BY <1>3, <1>7
<1>10. sign \in Signs /\ (sign = <<"-">>) = d.neg
  BY <1>2, MinusIs
<1> HIDE DEF u, sign, r
<1>11. IntOf(sign \o u) = Whole(r)
  <2>1. IntOf(sign \o u) = IF sign = <<"-">> THEN -Denotes(10, u) ELSE Denotes(10, u)
    BY <1>9, <1>10, IntOfIs
  <2>2. Denotes(10, u) \in Nat
    BY <1>9, <1>10, IntOfIs
  <2>3. \A y \in Nat : (-1) * y = -y /\ 1 * y = y
    OBVIOUS
  <2>4. Whole(r) = Sign(d.neg) * Denotes(10, u)
    BY <1>1, <1>8 DEF Whole
  <2> QED
    BY <1>10, <2>1, <2>2, <2>3, <2>4 DEF Sign
<1>12. DoubleText(d) = sign \o u
  BY <1>5, <1>6 DEF u, sign
<1> QED
  BY <1>9, <1>10, <1>11, <1>12 DEF IntegerText, r

\* Digits with something other than a digit behind them.
Broken(chars) ==
    \E whole \in Seq(Digits) \ {<<>>}, rest \in Seq(NumberChars) \ {<<>>} :
        chars = whole \o rest /\ rest[1] \notin Digits

LEMMA BrokenWith ==
    ASSUME NEW whole \in Seq(Digits), whole # <<>>, NEW c \in NumberChars, c \notin Digits,
           NEW more \in Seq(NumberChars)
    PROVE  Broken(whole \o (<<c>> \o more))
<1> DEFINE rest == <<c>> \o more
<1>1. rest \in Seq(NumberChars) /\ rest # <<>> /\ rest[1] = c
  <2>1. rest \in Seq(NumberChars) /\ Len(rest) = Len(more) + 1 /\ Len(more) \in Nat /\ rest[1] = c
    BY ConsIs
  <2> HIDE DEF rest
  <2> QED
    BY <2>1
<1> HIDE DEF rest
<1>2. rest \in Seq(NumberChars) \ {<<>>} /\ rest[1] \notin Digits
  BY <1>1
<1>3. whole \in Seq(Digits) \ {<<>>}
  OBVIOUS
<1>4. Broken(whole \o rest)
  BY <1>2, <1>3 DEF Broken
<1> QED
  BY <1>4 DEF rest

LEMMA PointedBroken ==
    ASSUME NEW digits \in Seq(Digits), digits # <<>>, NEW n \in Int, n < Len(digits)
    PROVE  Broken(Pointed(digits, n)) /\ Pointed(digits, n) \in Seq(NumberChars)
<1>0. "." \in NumberChars /\ "." \notin Digits /\ Digits \subseteq NumberChars /\ "0" \in Digits
  BY DEF NumberChars, Digits
<1>1. Broken(Pointed(digits, n))
  <2>1. CASE n <= 0
    <3> DEFINE more == Zeros(-n) \o digits
    <3>1. Zeros(-n) \in Seq(Digits)
      <4>1. -n \in Int
        OBVIOUS
      <4> QED
        BY <4>1, ZerosIs
    <3>2. Zeros(-n) \in Seq(NumberChars) /\ digits \in Seq(NumberChars)
      BY <1>0, <3>1, SeqMonotonic
    <3>3. more \in Seq(NumberChars)
      BY <3>2
    <3>4. Broken(<<"0">> \o (<<".">> \o more))
      <4>1. <<"0">> \in Seq(Digits) /\ <<"0">> # <<>>
        BY <1>0
      <4> HIDE DEF more
      <4> QED
        BY <1>0, <3>3, <4>1, BrokenWith
    <3>5. Pointed(digits, n) = <<"0", ".">> \o Zeros(-n) \o digits
      BY <2>1 DEF Pointed
    <3>6. <<"0", ".">> = <<"0">> \o <<".">>
      OBVIOUS
    <3>7. <<"0", ".">> \o Zeros(-n) \o digits = <<"0">> \o (<<".">> \o more)
      <4> DEFINE N == NumberChars
                 a == <<"0">>
                 b == <<".">>
                 z == Zeros(-n)
      <4>1. a \in Seq(N) /\ b \in Seq(N) /\ z \in Seq(N) /\ digits \in Seq(N)
        BY <1>0, <3>2
      <4> HIDE DEF N, a, b, z
      <4>2. /\ a \o b \in Seq(N) /\ z \o digits \in Seq(N)
            /\ ((a \o b) \o z) \o digits = (a \o b) \o (z \o digits)
        BY SMTT(30), <4>1, ConcatAssociative
      <4>3. (a \o b) \o (z \o digits) = a \o (b \o (z \o digits))
        <5>1. Regroups(a, b, z \o digits)
          BY <4>1, <4>2, Together
        <5> QED
          BY <5>1 DEF Regroups
      <4> QED
        BY <3>6, <4>2, <4>3 DEF a, b, z
    <3> QED
      BY <3>4, <3>5, <3>7
  <2>2. CASE n > 0
    <3> DEFINE whole == SubSeq(digits, 1, n)
               more == SubSeq(digits, n + 1, Len(digits))
    <3>1. whole \in Seq(Digits) /\ whole # <<>> /\ more \in Seq(Digits)
      <4>1. n \in 1..Len(digits) /\ n + 1 \in 1..(Len(digits) + 1) /\ Len(digits) \in Nat
        BY <2>2
      <4>2. whole \in Seq(Digits) /\ Len(whole) = n
        BY <4>1
      <4>3. more \in Seq(Digits)
        BY <4>1
      <4> HIDE DEF whole, more
      <4> QED
        BY <4>1, <4>2, <4>3
    <3>2. more \in Seq(NumberChars) /\ whole \in Seq(NumberChars)
      <4> HIDE DEF whole, more
      <4> QED
        BY <1>0, <3>1, SeqMonotonic
    <3>3. Pointed(digits, n) = whole \o <<".">> \o more
      <4>1. ~(n >= Len(digits)) /\ ~(n <= 0)
        BY <2>2
      <4> QED
        BY <4>1 DEF Pointed
    <3> HIDE DEF whole, more
    <3>4. whole \o <<".">> \o more = whole \o (<<".">> \o more)
      <4>1. <<".">> \in Seq(NumberChars)
        BY <1>0
      <4> QED
        BY <3>2, <4>1, ConcatAssociative
    <3>5. Broken(whole \o (<<".">> \o more))
      BY <1>0, <3>1, <3>2, BrokenWith
    <3> QED
      BY <3>3, <3>4, <3>5
  <2> QED
    BY <2>1, <2>2
<1>2. Pointed(digits, n) \in Seq(NumberChars)
  <2>1. PICK whole \in Seq(Digits) \ {<<>>}, rest \in Seq(NumberChars) \ {<<>>} :
            Pointed(digits, n) = whole \o rest
    BY <1>1 DEF Broken
  <2>2. whole \in Seq(NumberChars)
    BY <1>0, SeqMonotonic
  <2> QED
    BY <2>1, <2>2
<1> QED
  BY <1>1, <1>2

LEMMA ScientificBroken ==
    ASSUME NEW digits \in Seq(Digits), digits # <<>>, NEW x \in Int
    PROVE  Broken(Pointed(digits, 1) \o ExponentText(x))
<1> DEFINE t == ExponentText(x)
<1>1. t \in Seq(NumberChars) /\ Exponent(t, x)
  BY ExponentIs
<1>2. "e" \in NumberChars /\ "e" \notin Digits /\ Digits \subseteq NumberChars
  BY DEF NumberChars, Digits
<1>3. t # <<>> /\ t[1] = "e"
  <2> DEFINE u == IF x < 0 THEN "-" ELSE "+"
             m == IF x < 0 THEN -x ELSE x
             z == Zeros(2 - Len(DigitsOf(m)))
             y == DigitsOf(m)
  <2>2. t = (<<"e", u>> \o z) \o y
    BY DEF ExponentText
  <2>3. m \in Nat
    OBVIOUS
  <2> HIDE DEF m, u
  <2>4. y \in Seq(Digits) /\ Len(y) \in Nat
    BY <2>3, DigitsDenote, DigitsLength
  <2>5. z \in Seq(Digits)
    <3>1. 2 - Len(y) \in Int
      BY <2>4
    <3> QED
      BY <3>1, ZerosIs
  <2> HIDE DEF y, z, t
  <2>6. (<<"e", u>> \o z) \o y # <<>> /\ ((<<"e", u>> \o z) \o y)[1] = "e"
    BY <2>4, <2>5
  <2> QED
    BY <2>2, <2>6
<1> HIDE DEF t
<1>4. CASE 1 < Len(digits)
  <2> DEFINE p == Pointed(digits, 1)
  <2>1. PICK whole \in Seq(Digits) \ {<<>>}, rest \in Seq(NumberChars) \ {<<>>} :
            p = whole \o rest /\ rest[1] \notin Digits
    <3>1. Broken(p)
      <4>1. 1 \in Int
        OBVIOUS
      <4> QED
        BY <1>4, <4>1, PointedBroken
    <3> HIDE DEF p
    <3> QED
      BY <3>1 DEF Broken
  <2> HIDE DEF p
  <2>2. whole \in Seq(NumberChars)
    BY <1>2, SeqMonotonic
  <2>3. p \o t = whole \o (rest \o t)
    BY <1>1, <2>1, <2>2, ConcatAssociative
  <2>4. rest \o t \in Seq(NumberChars) \ {<<>>} /\ (rest \o t)[1] = rest[1]
    BY <1>1
  <2>5. Broken(p \o t)
    BY <2>1, <2>3, <2>4 DEF Broken
  <2> QED
    BY <2>5 DEF p, t
<1>5. CASE ~(1 < Len(digits))
  <2>1. Pointed(digits, 1) = digits \o Zeros(1 - Len(digits)) /\ 1 - Len(digits) \in Int
        /\ 1 - Len(digits) <= 0
    BY <1>5 DEF Pointed
  <2>2. Zeros(1 - Len(digits)) = <<>>
    BY <2>1, ZerosIs
  <2>3. Pointed(digits, 1) = digits
    BY <2>1, <2>2
  <2>4. digits \in Seq(Digits) \ {<<>>} /\ t \in Seq(NumberChars) \ {<<>>} /\ t[1] \notin Digits
    BY <1>1, <1>2, <1>3
  <2>5. Broken(digits \o t)
    BY <2>4 DEF Broken
  <2> QED
    BY <2>3, <2>5 DEF t
<1> QED
  BY <1>4, <1>5

\* operator>> stops where the digits do.
LEMMA BrokenUnread ==
    ASSUME NEW sign \in Signs, NEW chars, Broken(chars), NEW bits
    PROVE  ReadInt(sign \o chars, bits).ok = FALSE
<1>1. PICK whole \in Seq(Digits) \ {<<>>}, rest \in Seq(NumberChars) \ {<<>>} :
          chars = whole \o rest /\ rest[1] \notin Digits
  BY DEF Broken
<1> DEFINE s == sign \o chars
           part == sign \o whole
           i == IF Signed(s) THEN 2 ELSE 1
           e == Len(part) + 1
<1>2. /\ Digits \subseteq NumberChars /\ \A c \in Digits : c \notin {"-", "+"}
      /\ sign \in Seq(NumberChars) /\ whole \in Seq(NumberChars)
      /\ \A c \in NumIdInitChars : c \notin Blanks
      /\ "EOF" \notin Digits
  <2>1. Digits \subseteq NumberChars /\ "-" \in NumberChars /\ "+" \in NumberChars
    BY DEF NumberChars
  <2>2. \A c \in NumberChars : <<c>> \in Seq(NumberChars)
    OBVIOUS
  <2>3. sign \in Seq(NumberChars)
    <3>1. <<"-">> \in Seq(NumberChars) /\ <<"+">> \in Seq(NumberChars)
      BY <2>1, <2>2
    <3>2. <<>> \in Seq(NumberChars)
      OBVIOUS
    <3>3. sign = <<>> \/ sign = <<"-">> \/ sign = <<"+">>
      BY DEF Signs
    <3> QED
      BY <3>1, <3>2, <3>3
  <2>4. whole \in Seq(NumberChars)
    BY <2>1, SeqMonotonic
  <2>5. \A c \in Digits : c \notin {"-", "+"}
    BY DEF Digits
  <2>6. \A c \in NumIdInitChars : c \notin Blanks
    BY DEF NumIdInitChars, Digits, Blanks
  <2>7. "EOF" \notin Digits
    BY DEF Digits
  <2> QED
    BY <2>1, <2>3, <2>4, <2>5, <2>6, <2>7
<1>3. /\ part \in Seq(NumIdInitChars) /\ part # <<>> /\ Len(part) \in Nat \ {0}
      /\ part[1] \in NumIdInitChars /\ \A k \in 2..Len(part) : part[k] \in Digits
  BY IntegerChars
<1>4. s = part \o rest
  <2>1. Regroups(sign, whole, rest)
    BY <1>2, Together
  <2> QED
    BY <1>1, <2>1 DEF Regroups
<1>5. part \in Seq(NumberChars) /\ s \in Seq(NumberChars)
  <2>1. part \in Seq(NumberChars)
    BY <1>2
  <2> HIDE DEF part, s
  <2> QED
    BY <1>4, <2>1
<1>6. /\ Len(s) = Len(part) + Len(rest) /\ Len(rest) \in Nat \ {0}
      /\ \A k \in 1..Len(part) : s[k] = part[k]
      /\ s[e] = rest[1] /\ e \in 1..Len(s)
  <2> HIDE DEF part, s
  <2> QED
    BY <1>3, <1>4, <1>5 DEF e
<1>7. Signed(s) <=> sign # <<>>
  <2>1. chars \in Seq(NumberChars) /\ chars # <<>> /\ chars[1] \in Digits
    BY <1>1, <1>2
  <2>2. chars = <<>> \/ chars[1] \notin {"-", "+"}
    BY <1>2, <2>1
  <2> QED
    BY <2>1, <2>2, SignedIs
<1>8. i \in 1..(Len(s) + 1) /\ e \in i..(Len(s) + 1) /\ \A k \in i..(e - 1) : s[k] \in Digits
  <2>1. CASE sign = <<>>
    <3>1. part = whole /\ i = 1
      BY <1>7, <2>1
    <3>2. \A k \in 1..Len(part) : s[k] \in Digits
      <4>1. \A k \in 1..Len(whole) : whole[k] \in Digits
        OBVIOUS
      <4> HIDE DEF s, part
      <4> QED
        BY <1>6, <3>1, <4>1
    <3> HIDE DEF s, part, i
    <3> QED
      BY <1>3, <1>6, <3>1, <3>2
  <2>2. CASE sign # <<>>
    <3>1. i = 2
      BY <1>7, <2>2
    <3>2. Len(part) >= 2
      <4>1. Len(sign) = 1 /\ Len(whole) \in Nat \ {0}
        BY <2>2 DEF Signs
      <4>2. Len(part) = Len(sign) + Len(whole)
        BY <1>2
      <4> HIDE DEF part
      <4> QED
        BY <4>1, <4>2
    <3> HIDE DEF s, part, i
    <3> QED
      BY <1>3, <1>6, <3>1, <3>2
  <2> QED
    BY <2>1, <2>2
<1> HIDE DEF s, part, i
<1>9. Char(s, e) \notin Digits
  <2>1. e \in Nat
    BY <1>3
  <2> HIDE DEF e
  <2>2. Char(s, e) = s[e]
    BY <1>5, <1>6, <2>1, CharFacts
  <2> QED
    BY <1>1, <1>6, <2>2
<1>10. RunEnd(s, i, Digits) = e
  BY <1>5, <1>8, <1>9, RunEndIs
<1>11. SubSeq(s, 1, e - 1) = part
  <2>1. e - 1 = Len(part)
    BY <1>3
  <2>2. SubSeq(s, 1, Len(part)) = part
    BY <1>3, <1>4, <1>5, <1>6
  <2> QED
    BY <2>1, <2>2
<1>12. IntPart(s) = part
  BY <1>10, <1>11 DEF IntPart, i
<1>13. Trimmed(s) = s /\ s # <<>>
  <2>1. s # <<>> /\ s[1] = part[1]
    BY <1>3, <1>5, <1>6
  <2>2. s[1] \notin Blanks
    BY <1>2, <1>3, <2>1
  <2> QED
    BY <1>5, <2>1, <2>2, TrimmedIs
<1>14. part # s
  BY <1>3, <1>6
<1>15. (part = Trimmed(s)) = FALSE
  BY <1>13, <1>14
<1> DEFINE same == (IntPart(Trimmed(s)) = Trimmed(s))
<1>16. ReadInt(s, bits) =
           IF Trimmed(s) = <<>> THEN Read(FALSE, None)
           ELSE IF ~IsInt(IntPart(Trimmed(s))) THEN Read(FALSE, 0)
           ELSE IF IntOf(IntPart(Trimmed(s))) > MaxOf(bits) THEN Read(FALSE, MaxOf(bits))
           ELSE IF IntOf(IntPart(Trimmed(s))) < MinOf(bits) THEN Read(FALSE, MinOf(bits))
           ELSE Read(same, IntOf(IntPart(Trimmed(s))))
  BY DEF ReadInt
<1>17. same = FALSE
  BY <1>12, <1>13, <1>14
<1> HIDE DEF same
<1>18. ReadInt(s, bits).ok = FALSE
  BY <1>16, <1>17 DEF Read
<1> QED
  BY <1>18 DEF s

LEMMA NotWholeText ==
    ASSUME NEW d \in Decimals, Stripped(d), ~IsWhole(Rounded(d)), NEW bits
    PROVE  ReadInt(DoubleText(d), bits).ok = FALSE
<1> DEFINE r == Rounded(d)
           digits == DigitsOf(r.coef)
           x == Leading(r)
           sign == Minus(d.neg)
           chars == IF x < -4 \/ x >= Precision
                    THEN Pointed(digits, 1) \o ExponentText(x) ELSE Pointed(digits, x + 1)
<1>1. r \in Decimals /\ r.neg = d.neg /\ ~(r.exp >= 0 /\ x < Precision)
  BY RoundedIs DEF IsWhole
<1>2. r.coef \in Nat /\ r.exp \in Int /\ d.neg \in BOOLEAN
  BY <1>1 DEF Decimals
<1>3. digits \in Seq(Digits) /\ digits # <<>> /\ Len(digits) \in Nat \ {0}
  BY <1>2, DigitsDenote, DigitsSpan
<1>4. x = Len(digits) - 1 + r.exp /\ x \in Int
  BY <1>2, <1>3 DEF Leading
<1>5. DoubleText(d) = sign \o chars
  BY DEF DoubleText, Leading
<1> HIDE DEF digits, x, r, sign
<1>6. Broken(chars)
  <2>1. CASE x < -4 \/ x >= Precision
    BY <1>3, <1>4, <2>1, ScientificBroken
  <2>2. CASE ~(x < -4 \/ x >= Precision)
    <3>1. x < Precision
      BY <1>4, <2>2, ValuesAssumption
    <3>2. ~(r.exp >= 0)
      BY <1>1, <3>1
    <3>3. x + 1 \in Int /\ x + 1 < Len(digits)
      BY <1>2, <1>3, <1>4, <3>2
    <3> QED
      BY <1>3, <2>2, <3>3, PointedBroken
  <2> QED
    BY <2>1, <2>2
<1>7. sign \in Signs
  BY <1>2, MinusIs DEF sign
<1> HIDE DEF chars
<1> QED
  BY <1>5, <1>6, <1>7, BrokenUnread

\* The integers that getInt may answer of doubles.
Short == {n \in (1 - Power(10, Precision))..(Power(10, Precision) - 1) : n \in IntMin..IntMax}
\* Digits before the point.
Before(d) == Len(DigitsOf(d.coef)) + d.exp
Room(d) == IF Spread(d) > 0 THEN Power(10, Spread(d)) ELSE 0

LEMMA NearbyIs ==
    ASSUME NEW d, NEW ties \in BOOLEAN
    PROVE  /\ d.coef = 0 => Nearby(d, ties) = {0}
           /\ d.coef # 0 /\ Before(d) \notin 0..Precision => Nearby(d, ties) = {}
           /\ d.coef # 0 /\ Before(d) \in 0..Precision /\ d.exp >= 0 =>
                 Nearby(d, ties)
                    = {n \in Short : n = Sign(d.neg) * d.coef * Power(10, d.exp)}
           /\ d.coef # 0 /\ Before(d) \in 0..Precision /\ ~(d.exp >= 0) =>
                 Nearby(d, ties)
                    = {n \in Short : \/ TwiceOff(n, d) < Room(d)
                                     \/ TwiceOff(n, d) = Room(d) /\ (ties \/ Room(d) = 0)}
<1> DEFINE A == {n \in Short : n = Sign(d.neg) * d.coef * Power(10, d.exp)}
           B == {n \in Short : \/ TwiceOff(n, d) < Room(d)
                               \/ TwiceOff(n, d) = Room(d) /\ (ties \/ Room(d) = 0)}
<1>1. Nearby(d, ties) = IF d.coef = 0 THEN {0}
                        ELSE IF Before(d) \notin 0..Precision THEN {}
                        ELSE IF d.exp >= 0 THEN A ELSE B
  BY DEF Nearby, Short, Before, Room, Sign
<1> HIDE DEF A, B
<1>2. /\ d.coef = 0 => Nearby(d, ties) = {0}
      /\ d.coef # 0 /\ Before(d) \notin 0..Precision => Nearby(d, ties) = {}
      /\ d.coef # 0 /\ Before(d) \in 0..Precision /\ d.exp >= 0 => Nearby(d, ties) = A
      /\ d.coef # 0 /\ Before(d) \in 0..Precision /\ ~(d.exp >= 0) => Nearby(d, ties) = B
  BY <1>1
<1> QED
  BY <1>2 DEF A, B

LEMMA TwiceOffIs ==
    ASSUME NEW d \in Decimals, NEW n \in Int, ~(d.exp >= 0),
           NEW t, t = Sign(d.neg) * d.coef, NEW m, m = n * Power(10, -d.exp)
    PROVE  /\ t \in Int /\ m \in Int
           /\ TwiceOff(n, d) = 2 * (IF m - t < 0 THEN -(m - t) ELSE m - t)
<1>1. d.coef \in Nat /\ d.exp \in Int /\ -d.exp \in Nat
  BY DEF Decimals
<1>2. t = IF d.neg THEN -d.coef ELSE d.coef
  BY <1>1 DEF Sign
<1>3. Power(10, -d.exp) \in Nat
  BY <1>1, TenTo
<1>4. m \in Int /\ t \in Int
  BY <1>1, <1>2, <1>3
<1>5. TwiceOff(n, d) = 2 * (IF m - t < 0 THEN -(m - t) ELSE m - t)
  BY <1>2 DEF TwiceOff
<1> QED
  BY <1>4, <1>5

LEMMA NearbyOfShort ==
    ASSUME NEW d \in Decimals, Stripped(d), d.coef # 0, ~(Spread(d) > 0)
    PROVE  /\ IsWhole(d) => /\ Whole(d) \in Int
                            /\ Whole(d) \in IntMin..IntMax => Whole(d) \in Nearby(d, TRUE)
                            /\ Whole(d) \notin IntMin..IntMax => Nearby(d, FALSE) = {}
           /\ ~IsWhole(d) => Nearby(d, FALSE) = {}
<1> DEFINE L == Len(DigitsOf(d.coef))
           n == Whole(d)
<1>1. /\ d.coef \in Nat \ {0} /\ d.exp \in Int /\ L \in Nat \ {0} /\ Precision \in Nat \ {0}
      /\ d.coef % 10 # 0
  <2>1. d.coef \in Nat /\ d.exp \in Int
    BY DEF Decimals
  <2> QED
    BY <2>1, DigitsSpan, ValuesAssumption DEF Stripped
<1>2. Leading(d) = L - 1 + d.exp /\ Before(d) = L + d.exp
  BY DEF Leading, Before
<1> HIDE DEF L
<1>3. CASE IsWhole(d)
  <2> DEFINE m == d.coef * Power(10, d.exp)
  <2>1. d.exp \in Nat /\ d.exp >= 0 /\ Before(d) \in 0..Precision /\ L + d.exp <= Precision
    BY <1>1, <1>2, <1>3 DEF IsWhole
  <2>2. m \in Nat \ {0} /\ Len(DigitsOf(m)) = L + d.exp
    BY <1>1, <2>1, SpanShift DEF L
  <2>3. Power(10, d.exp) \in Nat /\ Power(10, Precision) \in Nat
    BY <1>1, <2>1, TenTo
  <2>4. n = Sign(d.neg) * m
    BY DEF Whole
  <2>5. n = Sign(d.neg) * d.coef * Power(10, d.exp)
    <3>1. \A x, y \in Nat : /\ (-1) * (x * y) = ((-1) * x) * y
                            /\ 1 * (x * y) = (1 * x) * y
      OBVIOUS
    <3> QED
      BY <1>1, <2>3, <2>4, <3>1 DEF Sign
  <2> HIDE DEF m, n
  <2>6. ~(Power(10, Precision) <= m)
    <3>1. ~(Precision + 1 <= Len(DigitsOf(m)))
      BY <1>1, <2>1, <2>2
    <3>2. Precision \in Nat
      BY <1>1
    <3> QED
      BY <2>2, <3>1, <3>2, DigitsBound
  <2>7. n = m \/ n = -m
    BY <2>2, <2>4 DEF Sign
  <2>8. n \in Int /\ n \in (1 - Power(10, Precision))..(Power(10, Precision) - 1)
    BY <2>2, <2>3, <2>6, <2>7
  <2>9. \A ties \in BOOLEAN : Nearby(d, ties) = {k \in Short : k = n}
    BY <1>1, <2>1, <2>5, NearbyIs
  <2>10. n \in Short <=> n \in IntMin..IntMax
    BY <2>8 DEF Short
  <2> QED
    BY <1>3, <2>8, <2>9, <2>10 DEF n
<1>4. CASE ~IsWhole(d)
  <2>1. CASE Before(d) \notin 0..Precision
    BY <1>1, <1>4, <2>1, NearbyIs
  <2>2. CASE Before(d) \in 0..Precision
    <3>1. ~(d.exp >= 0)
      BY <1>1, <1>2, <1>4, <2>2 DEF IsWhole
    <3>2. Room(d) = 0
      BY DEF Room
    <3> SUFFICES ASSUME NEW k \in Nearby(d, FALSE)
                 PROVE  FALSE
      BY <1>4
    <3>3. k \in Short /\ (TwiceOff(k, d) < 0 \/ TwiceOff(k, d) = 0)
      BY <1>1, <2>2, <3>1, <3>2, NearbyIs
    <3>4. k \in Int
      <4>1. Power(10, Precision) \in Nat
        BY <1>1, TenTo
      <4> QED
        BY <3>3, <4>1 DEF Short
    <3> DEFINE j == -d.exp - 1
               t == Sign(d.neg) * d.coef
               m == k * Power(10, -d.exp)
    <3>5. j \in Nat /\ -d.exp = j + 1
      BY <1>1, <3>1
    <3>6. Power(10, -d.exp) = 10 * Power(10, j) /\ Power(10, j) \in Nat
      BY <3>5, TenTo
    <3>7. t \in Int /\ m \in Int /\ TwiceOff(k, d) = 2 * (IF m - t < 0 THEN -(m - t) ELSE m - t)
      BY <3>1, <3>4, TwiceOffIs
    <3> HIDE DEF j, t, m
    <3>8. m = t
      BY <3>3, <3>7
    <3>9. \E z \in Int : t = 10 * z
      <4>1. m = k * (10 * Power(10, j))
        BY <3>6 DEF m
      <4>2. \A x \in Int, y \in Nat : x * (10 * y) = 10 * (x * y) /\ x * y \in Int
        OBVIOUS
      <4> QED
        BY <3>4, <3>6, <3>8, <4>1, <4>2
    <3>10. t = d.coef \/ t = -d.coef
      BY <1>1 DEF t, Sign
    <3>11. PICK z \in Int : d.coef = 10 * z
      <4>1. PICK z \in Int : t = 10 * z
        BY <3>9
      <4>2. d.coef = 10 * z \/ d.coef = 10 * (-z)
        BY <1>1, <3>10, <4>1
      <4>3. z \in Int /\ -z \in Int
        OBVIOUS
      <4> QED
        BY <4>2, <4>3
    <3> QED
      BY <1>1, <3>11
  <2> QED
    BY <2>1, <2>2
<1> QED
  BY <1>3, <1>4

LEMMA CloseIsSame ==
    ASSUME NEW a \in Int, NEW b \in Int, NEW c \in Int, NEW q \in Nat \ {0},
           2 * (a * q - c) <= q, 2 * (c - a * q) <= q,
           2 * (b * q - c) < q, 2 * (c - b * q) < q
    PROVE  a = b
<1>1. \A x, y \in Int : x > y => x * q >= y * q + q
  <2>1. \A x, y \in Int : x * q - y * q = (x - y) * q
    OBVIOUS
  <2>2. \A z \in Nat : z >= 1 => z * q >= q
    OBVIOUS
  <2> SUFFICES ASSUME NEW x \in Int, NEW y \in Int, x > y
               PROVE  x * q >= y * q + q
    OBVIOUS
  <2>3. x - y \in Nat /\ x - y >= 1
    OBVIOUS
  <2>4. (x - y) * q >= q /\ x * q - y * q = (x - y) * q
    BY <2>1, <2>2, <2>3
  <2>5. x * q \in Int /\ y * q \in Int
    OBVIOUS
  <2> QED
    BY <2>4, <2>5
<1>2. a * q \in Int /\ b * q \in Int
  OBVIOUS
<1>3. ~(a > b)
  BY <1>1, <1>2
<1>4. ~(b > a)
  BY <1>1, <1>2
<1> QED
  BY <1>3, <1>4

LEMMA NearbyOfLong ==
    ASSUME NEW d \in Decimals, Stripped(d), d.coef # 0, Spread(d) > 0,
           NEW r, r = Rounded(d)
    PROVE  /\ IsWhole(r) => /\ Whole(r) \in Int
                            /\ Whole(r) \in IntMin..IntMax => Whole(r) \in Nearby(d, TRUE)
                            /\ Whole(r) \notin IntMin..IntMax => Nearby(d, FALSE) = {}
           /\ ~IsWhole(r) => Nearby(d, FALSE) = {}
<1> DEFINE L == Len(DigitsOf(d.coef))
           P == Precision
           s == Spread(d)
           q == Power(10, s)
           c == d.coef
           E == d.exp + s
           g == Sign(d.neg)
<1>1. /\ c \in Nat \ {0} /\ d.exp \in Int /\ d.neg \in BOOLEAN
      /\ L \in Nat \ {0} /\ P \in Nat \ {0} /\ s \in Nat \ {0} /\ L = P + s
  <2>1. c \in Nat \ {0} /\ d.exp \in Int /\ d.neg \in BOOLEAN
    BY DEF Decimals
  <2>2. L \in Nat \ {0} /\ P \in Nat \ {0}
    BY <2>1, DigitsSpan, ValuesAssumption
  <2>3. s = L - P
    BY DEF Spread
  <2> HIDE DEF L, P, s
  <2>4. s > 0
    BY DEF s
  <2> QED
    BY <2>1, <2>2, <2>3, <2>4
<1>2. q \in Nat \ {0}
  BY <1>1, TenTo
<1>3. PICK K \in Nat \ {0} : /\ r = Decimal(d.neg, K, E) /\ RoundsTo(K, d)
                             /\ Len(DigitsOf(K)) \in {P, P + 1}
  BY RoundedHas
<1> DEFINE M == Len(DigitsOf(K))
<1>4. M \in {P, P + 1} /\ M \in Nat
  BY <1>1, <1>3
<1>5. Before(d) = P + E /\ E \in Int
  BY <1>1 DEF Before
<1>6. /\ g \in {-1, 1} /\ g * c \in Int /\ g * K \in Int
      /\ 2 * ((g * K) * q - g * c) <= q /\ 2 * (g * c - (g * K) * q) <= q
  <2>1. 2 * (K * q - c) <= q /\ 2 * (c - K * q) <= q
    BY <1>3 DEF RoundsTo
  <2> HIDE DEF c, q
  <2>2. g = 1 \/ g = -1
    BY DEF Sign
  <2>3. \A x \in Nat : 1 * x = x /\ (-1) * x = -x
    OBVIOUS
  <2>4. K * q \in Nat /\ (-K) * q = -(K * q)
    BY <1>2
  <2> HIDE DEF g
  <2>5. CASE g = 1
    <3>1. g * c = c /\ g * K = K
      BY <1>1, <2>3, <2>5
    <3> QED
      BY <1>1, <1>2, <2>1, <2>4, <2>5, <3>1
  <2>6. CASE g = -1
    <3>1. g * c = -c /\ g * K = -K
      BY <1>1, <2>3, <2>6
    <3>2. (g * K) * q = -(K * q)
      BY <2>4, <3>1
    <3>3. g * c \in Int /\ g * K \in Int
      BY <1>1, <3>1
    <3> QED
      BY <1>1, <1>2, <2>1, <2>4, <2>6, <3>1, <3>2, <3>3
  <2> QED
    BY <2>2, <2>5, <2>6
<1> HIDE DEF L, s, q, c, g, E, M
\* An integer in the units of K and of c.
<1>7. ASSUME NEW k \in Int, E <= 0
      PROVE  /\ k * Power(10, -E) \in Int /\ ~(d.exp >= 0)
             /\ LET m == (k * Power(10, -E)) * q
                    t == g * c
                IN  TwiceOff(k, d) = 2 * (IF m - t < 0 THEN -(m - t) ELSE m - t)
  <2> DEFINE h == -E
             m == (k * Power(10, h)) * q
             t == g * c
  <2>1. h \in Nat /\ -d.exp = h + s /\ ~(d.exp >= 0)
    BY <1>1, <1>5, <1>7 DEF E
  <2> HIDE DEF h
  <2>2. Power(10, h) \in Nat /\ Power(10, -d.exp) = Power(10, h) * q
    <3>1. s \in Nat
      BY <1>1
    <3>2. Power(10, h) \in Nat /\ Power(10, h + s) = Power(10, h) * Power(10, s)
      BY <2>1, <3>1, TenTo
    <3> QED
      BY <2>1, <3>2 DEF q
  <2>3. \A x \in Int, y, z \in Nat : x * (y * z) = (x * y) * z
    OBVIOUS
  <2>4. m = k * Power(10, -d.exp)
    BY <1>2, <2>2, <2>3
  <2>5. t = Sign(d.neg) * d.coef
    BY DEF g, c
  <2> HIDE DEF m, t
  <2>6. TwiceOff(k, d) = 2 * (IF m - t < 0 THEN -(m - t) ELSE m - t)
    BY <2>1, <2>4, <2>5, TwiceOffIs
  <2>7. k * Power(10, h) \in Int
    BY <2>2
  <2> QED
    BY <2>1, <2>6, <2>7 DEF m, t, h
\* Only the integer that is printed is near enough.
<1>8. ASSUME NEW k \in Nearby(d, FALSE)
      PROVE  /\ E <= 0 /\ Before(d) \in 0..P /\ k \in Int /\ k \in Short
             /\ k * Power(10, -E) = g * K
  <2>1. Before(d) \in 0..P
    BY <1>1, <1>8, NearbyIs DEF c
  <2>2. E <= 0
    BY <1>1, <1>5, <2>1
  <2>3. ~(d.exp >= 0)
    BY <1>1, <1>5, <2>2 DEF E
  <2>4. Room(d) = q /\ q # 0
    BY <1>2 DEF Room, q, s
  <2>5. k \in Short /\ TwiceOff(k, d) < q
    BY <1>1, <1>8, <2>1, <2>3, <2>4, NearbyIs DEF c
  <2>6. k \in Int
    <3>1. Power(10, P) \in Nat
      BY <1>1, TenTo
    <3> QED
      BY <2>5, <3>1 DEF Short
  <2> DEFINE b == k * Power(10, -E)
             m == b * q
             t == g * c
  <2>7. b \in Int /\ TwiceOff(k, d) = 2 * (IF m - t < 0 THEN -(m - t) ELSE m - t)
    BY <1>7, <2>2, <2>6
  <2> HIDE DEF b
  <2>8. m \in Int /\ t \in Int
    BY <1>2, <1>6, <2>7
  <2>9. 2 * (m - t) < q /\ 2 * (t - m) < q
    <3> HIDE DEF m, t
    <3> QED
      BY <1>2, <2>5, <2>7, <2>8
  <2>10. g * K = b
    BY <1>2, <1>6, <2>7, <2>9, CloseIsSame
  <2> QED
    BY <2>1, <2>2, <2>5, <2>6, <2>10 DEF b
<1> DEFINE neg == d.neg
<1>0. neg \in BOOLEAN /\ r = Decimal(neg, K, E)
  BY <1>1, <1>3
<1> HIDE DEF neg
<1>9. PICK j \in Nat : r.coef \in Nat \ {0} /\ K = r.coef * Power(10, j) /\ r.exp = E + j
  <2>1. \E j \in Nat : /\ Decimal(neg, K, E).coef \in Nat \ {0}
                        /\ K = Decimal(neg, K, E).coef * Power(10, j)
                        /\ Decimal(neg, K, E).exp = E + j
    <3>1. neg \in BOOLEAN /\ E \in Int
      BY <1>0, <1>5
    <3> QED
      BY ONLY <3>1, K \in Nat \ {0}, DecimalHas
  <2> QED
    BY <1>0, <2>1
<1>10. Len(DigitsOf(r.coef)) + j = M /\ Len(DigitsOf(r.coef)) \in Nat \ {0}
       /\ Leading(r) = M - 1 + E
  <2>1. Len(DigitsOf(r.coef)) + j = M /\ Len(DigitsOf(r.coef)) \in Nat \ {0}
    BY <1>9, SpanShift, DigitsSpan DEF M
  <2> QED
    BY <1>4, <1>5, <1>9, <2>1 DEF Leading
<1>11. r.neg = d.neg
  BY RoundedIs
<1>12. CASE IsWhole(r)
  <2> DEFINE n == Whole(r)
             a == r.coef * Power(10, r.exp)
  <2>1. r.exp \in Nat /\ M - 1 + E < P /\ E <= 0 /\ -E \in Nat /\ j = r.exp + (-E)
        /\ Before(d) \in 0..P
    BY <1>1, <1>4, <1>5, <1>9, <1>10, <1>12 DEF IsWhole
  <2>2. a \in Nat \ {0} /\ Len(DigitsOf(a)) = Len(DigitsOf(r.coef)) + r.exp
    BY <1>9, <2>1, SpanShift
  <2>3. n = g * a
    BY <1>11 DEF Whole, g
  <2>4. n = a \/ n = -a
    BY <1>6, <2>2, <2>3
  <2>5. ~(Power(10, P) <= a) /\ Power(10, P) \in Nat
    <3>1. ~(P + 1 <= Len(DigitsOf(a)))
      BY <1>1, <1>4, <1>5, <1>9, <1>10, <2>1, <2>2
    <3>2. P \in Nat
      BY <1>1
    <3> QED
      BY <2>2, <3>1, <3>2, DigitsBound
  <2>6. K = a * Power(10, -E) /\ Power(10, -E) \in Nat
    <3> DEFINE h == -E
    <3>1. h \in Nat /\ j = r.exp + h
      BY <2>1
    <3> HIDE DEF h
    <3>2. /\ Power(10, j) = Power(10, r.exp) * Power(10, h)
          /\ Power(10, r.exp) \in Nat /\ Power(10, h) \in Nat
      <4>1. r.exp \in Nat
        BY <2>1
      <4>2. /\ Power(10, r.exp + h) = Power(10, r.exp) * Power(10, h)
            /\ Power(10, r.exp) \in Nat /\ Power(10, h) \in Nat
        BY <3>1, <4>1, TenTo
      <4> QED
        BY <3>1, <4>2
    <3>3. \A x, y, z \in Nat : x * (y * z) = (x * y) * z
      OBVIOUS
    <3> QED
      BY <1>9, <3>2, <3>3 DEF h
  <2> HIDE DEF n, a
  <2>7. n \in Int /\ n \in (1 - Power(10, P))..(Power(10, P) - 1)
    BY <2>2, <2>4, <2>5
  <2>8. n * Power(10, -E) = g * K
    <3>1. \A x, y \in Nat, z \in Int : (z * x) * y = z * (x * y)
      OBVIOUS
    <3>2. g \in Int
      BY <1>6
    <3> QED
      BY <2>2, <2>3, <2>6, <3>1, <3>2
  <2>9. TwiceOff(n, d) <= q /\ ~(d.exp >= 0) /\ TwiceOff(n, d) \in Int
    <3> DEFINE m == (g * K) * q
               t == g * c
    <3>1. m \in Int /\ t \in Int
      BY <1>2, <1>6
    <3>2. 2 * (m - t) <= q /\ 2 * (t - m) <= q
      BY <1>6
    <3>3. TwiceOff(n, d) = 2 * (IF m - t < 0 THEN -(m - t) ELSE m - t) /\ ~(d.exp >= 0)
      BY <1>7, <2>1, <2>7, <2>8
    <3> HIDE DEF m, t
    <3> QED
      BY <1>2, <3>1, <3>2, <3>3
  <2>10. n \in IntMin..IntMax => n \in Nearby(d, TRUE)
    <3>1. Room(d) = q
      BY DEF Room, q, s
    <3>2. n \in IntMin..IntMax => n \in Short
      BY <2>7 DEF Short
    <3>3. TwiceOff(n, d) < q \/ TwiceOff(n, d) = q
      BY <1>2, <2>9
    <3>4. d.coef # 0
      OBVIOUS
    <3> QED
      BY <2>1, <2>9, <3>1, <3>2, <3>3, <3>4, NearbyIs
  <2>11. ASSUME n \notin IntMin..IntMax, NEW k \in Nearby(d, FALSE)
         PROVE  FALSE
    <3>1. k \in Int /\ k \in IntMin..IntMax /\ k * Power(10, -E) = g * K
      BY <1>8, <2>11 DEF Short
    <3>2. Power(10, -E) \in Nat \ {0}
      BY <2>1, TenTo
    <3>3. k = n
      <4>1. \A x, y \in Int, z \in Nat \ {0} : x * z = y * z => x = y
        OBVIOUS
      <4> QED
        BY <2>7, <2>8, <3>1, <3>2, <4>1
    <3> QED
      BY <2>11, <3>1, <3>3
  <2> QED
    BY <1>12, <2>7, <2>10, <2>11 DEF n
<1>13. CASE ~IsWhole(r)
  <2> SUFFICES ASSUME NEW k \in Nearby(d, FALSE)
               PROVE  FALSE
    BY <1>13
  <2> DEFINE h == -E
             a == IF k < 0 THEN -k ELSE k
  <2>1. /\ E <= 0 /\ Before(d) \in 0..P /\ k \in Int /\ k \in Short
        /\ k * Power(10, -E) = g * K
    BY <1>8
  <2>2. h \in Nat /\ h = -E
    BY <1>5, <2>1
  <2> HIDE DEF h
  <2>3. Power(10, h) \in Nat \ {0}
    BY <2>2, TenTo
  <2>4. a \in Nat /\ (a = k \/ a = -k)
    BY <2>1
  <2>5. K = a * Power(10, h)
    <3>1. k * Power(10, h) = K \/ k * Power(10, h) = -K
      BY <1>6, <2>1, <2>2
    <3>2. (-k) * Power(10, h) = -(k * Power(10, h)) /\ k * Power(10, h) \in Int
      BY <2>1, <2>3
    <3>3. a * Power(10, h) \in Nat
      BY <2>3, <2>4
    <3>4. a * Power(10, h) = k * Power(10, h) \/ a * Power(10, h) = -(k * Power(10, h))
      BY <2>4, <3>2
    <3> HIDE DEF a
    <3> QED
      BY <3>1, <3>2, <3>3, <3>4
  <2>6. a # 0
    <3>1. 0 * Power(10, h) = 0
      BY <2>3
    <3> HIDE DEF a
    <3> QED
      BY <2>5, <3>1
  <2> HIDE DEF a
  <2>7. r = Decimal(neg, a, 0)
    <3>1. Decimal(neg, a * Power(10, h), E) = Decimal(neg, a, E + h)
      BY <1>0, <1>5, <2>2, <2>4, DecimalShift
    <3>2. E + h = 0
      BY <1>5, <2>2
    <3> QED
      BY <1>0, <2>5, <3>1, <3>2
  <2>8. r.exp >= 0
    <3>1. \E i \in Nat : r.exp = 0 + i
      <4>1. a \in Nat \ {0} /\ 0 \in Int
        BY <2>4, <2>6
      <4> QED
        <5>1. \E i \in Nat : Decimal(neg, a, 0).exp = 0 + i
          <6>1. neg \in BOOLEAN
            BY <1>0
          <6> QED
            BY ONLY <4>1, <6>1, DecimalHas
        <5> QED
          BY <2>7, <5>1
    <3> QED
      BY <3>1
  <2>9. Leading(r) < P
    <3>1. M = Len(DigitsOf(a)) + h /\ Len(DigitsOf(a)) \in Nat
      BY <2>2, <2>4, <2>5, <2>6, SpanShift, DigitsSpan DEF M
    <3>2. ~(Power(10, P) <= a)
      <4>1. Power(10, P) \in Nat
        BY <1>1, TenTo
      <4> QED
        BY <2>1, <2>4, <4>1 DEF Short
    <3>3. ~(P + 1 <= Len(DigitsOf(a)))
      <4>1. P \in Nat
        BY <1>1
      <4> QED
        BY <2>4, <2>6, <3>2, <4>1, DigitsBound
    <3> QED
      BY <1>1, <1>5, <1>10, <2>2, <3>1, <3>3
  <2> QED
    BY <1>13, <2>8, <2>9 DEF IsWhole
<1> QED
  BY <1>12, <1>13

LEMMA NearbyRounded ==
    ASSUME NEW d \in Decimals, Stripped(d), NEW r, r = Rounded(d)
    PROVE  /\ IsWhole(r) => /\ Whole(r) \in Int
                            /\ Whole(r) \in IntMin..IntMax => Whole(r) \in Nearby(d, TRUE)
                            /\ Whole(r) \notin IntMin..IntMax => Nearby(d, FALSE) = {}
           /\ ~IsWhole(r) => Nearby(d, FALSE) = {}
<1>1. CASE d.coef = 0
  <2>1. Len(DigitsOf(d.coef)) = 1 /\ d.exp = 0 /\ Precision \in Nat \ {0}
    BY <1>1, DigitsSpan, ValuesAssumption DEF Stripped
  <2>2. ~(Spread(d) > 0)
    BY <2>1 DEF Spread
  <2>3. r = d
    BY <2>2, RoundedIs
  <2>4. IsWhole(d)
    BY <2>1 DEF IsWhole, Leading
  <2>5. Whole(d) = 0
    <3>1. Power(10, 0) = 1
      BY PowerIs
    <3> QED
      BY <1>1, <2>1, <3>1 DEF Whole, Sign
  <2>6. 0 \in IntMin..IntMax /\ Nearby(d, TRUE) = {0}
    <3>1. Nearby(d, TRUE) = {0}
      BY <1>1, NearbyIs
    <3>2. 0 \in IntMin..IntMax
      BY IntIsNarrow
    <3> QED
      BY <3>1, <3>2
  <2>7. IsWhole(r) /\ Whole(r) = 0 /\ 0 \in Int
    BY <2>3, <2>4, <2>5
  <2>8. 0 \in Nearby(d, TRUE)
    BY <2>6
  <2> QED
    BY <2>6, <2>7, <2>8
<1>2. CASE d.coef # 0 /\ ~(Spread(d) > 0)
  <2>1. r = d
    BY <1>2, RoundedIs
  <2> QED
    BY <1>2, <2>1, NearbyOfShort
<1>3. CASE d.coef # 0 /\ Spread(d) > 0
  BY <1>3, NearbyOfLong
<1> QED
  BY <1>1, <1>2, <1>3

\* The characters of a floating point number.
LEMMA DoubleChars ==
    ASSUME NEW S, NEW s \in Seq(S), IsDouble(s)
    PROVE  /\ Len(s) \in Nat \ {0} /\ s[1] \in NumIdInitChars
           /\ \A k \in 1..Len(s) : s[k] \in NumIdInitChars \cup {".", "e", "E"}
<1> DEFINE u == Unsigned(s)
           parts == Parts(s)
           N == NumIdInitChars \cup {".", "e", "E"}
<1>1. u \in Seq(S) /\ parts.whole \in Seq(Digits) /\ parts.rest \in Seq(S)
  BY PartsHave
<1>2. PICK dot \in 1..(Len(u) + 1), tail \in 1..(Len(u) + 1) :
          /\ parts.whole = SubSeq(u, 1, dot - 1)
          /\ parts.rest = SubSeq(u, tail, Len(u))
          /\ \A k \in 1..(tail - 1) : u[k] \in Digits \cup {"."}
  BY PartsHave
<1>3. parts.whole # <<>>
  BY DEF IsDouble
<1>4. \/ parts.rest = <<>>
      \/ parts.rest # <<>> /\ Head(parts.rest) \in {"e", "E"} /\ IsInt(Tail(parts.rest))
  BY DEF IsDouble, HasExponent
<1>5. Digits \subseteq NumIdInitChars /\ NumIdInitChars \subseteq N /\ Digits \cup {"."} \subseteq N
      /\ {"e", "E"} \subseteq N /\ {"-", "+"} \subseteq NumIdInitChars
  BY DEF NumIdInitChars
<1>6. /\ u = s \/ (s # <<>> /\ s[1] \in {"-", "+"} /\ u = Tail(s))
  BY DEF Unsigned, Signed
<1> HIDE DEF u, parts, N
<1>7. Len(u) \in Nat /\ dot \in Nat /\ tail \in Nat
  BY <1>1, <1>2
<1>8. dot > 1 /\ Len(u) # 0 /\ u[1] \in Digits
  <2>1. dot > 1
    <3>1. dot - 1 = 0 => SubSeq(u, 1, dot - 1) = <<>>
      OBVIOUS
    <3> QED
      BY <1>2, <1>3, <1>7, <3>1
  <2>2. dot - 1 \in 1..Len(u)
    BY <1>2, <1>7, <2>1
  <2>3. Len(parts.whole) = dot - 1 /\ parts.whole[1] = u[1]
    BY <1>1, <1>2, <1>7, <2>2
  <2>4. parts.whole[1] \in Digits
    BY <1>1, <2>2, <2>3
  <2> QED
    BY <1>7, <2>1, <2>2, <2>3, <2>4
<1>9. ASSUME NEW k \in tail..Len(u)
      PROVE  u[k] \in N
  <2> DEFINE rest == parts.rest
             j == k - tail + 1
  <2>1. rest \in Seq(S) /\ Len(rest) = Len(u) - tail + 1 /\ j \in 1..Len(rest) /\ rest[j] = u[k]
    BY <1>1, <1>2, <1>7, <1>9
  <2> HIDE DEF rest, j
  <2>2. rest # <<>>
    BY <1>7, <2>1
  <2>3. Head(rest) \in {"e", "E"} /\ IsInt(Tail(rest)) /\ Tail(rest) \in Seq(S)
    BY <1>4, <2>1, <2>2 DEF rest
  <2>4. PICK sign \in Signs, v \in Seq(Digits) \ {<<>>} : Tail(rest) = sign \o v
    BY <2>3, IntSplit
  <2>5. Tail(rest) \in Seq(NumIdInitChars)
    BY <2>4, IntegerChars
  <2>6. CASE j = 1
    BY <1>5, <2>1, <2>2, <2>3, <2>6
  <2>7. CASE j # 1
    <3>1. Len(Tail(rest)) = Len(rest) - 1 /\ Len(rest) \in Nat
          /\ \A i \in 1..(Len(rest) - 1) : Tail(rest)[i] = rest[i + 1]
      BY <2>1, <2>2
    <3>2. j - 1 \in 1..(Len(rest) - 1) /\ (j - 1) + 1 = j
      BY <2>1, <2>7, <3>1
    <3>3. Tail(rest)[j - 1] = rest[j]
      BY <3>1, <3>2
    <3>4. Tail(rest)[j - 1] \in NumIdInitChars
      BY <2>5, <3>1, <3>2
    <3> QED
      BY <1>5, <2>1, <3>3, <3>4
  <2> QED
    BY <2>6, <2>7
<1>10. \A k \in 1..Len(u) : u[k] \in N
  <2> SUFFICES ASSUME NEW k \in 1..Len(u)
               PROVE  u[k] \in N
    OBVIOUS
  <2>1. CASE k < tail
    <3>1. k \in 1..(tail - 1)
      BY <1>7, <2>1
    <3> QED
      BY <1>2, <1>5, <3>1
  <2>2. CASE ~(k < tail)
    <3>1. k \in tail..Len(u)
      BY <1>7, <2>2
    <3> QED
      BY <1>9, <3>1
  <2> QED
    BY <2>1, <2>2
<1>11. CASE u = s
  BY <1>5, <1>7, <1>8, <1>10, <1>11 DEF N
<1>12. CASE s # <<>> /\ s[1] \in {"-", "+"} /\ u = Tail(s)
  <2>1. Len(s) = Len(u) + 1 /\ \A k \in 1..Len(u) : s[k + 1] = u[k]
    BY <1>12
  <2> SUFFICES ASSUME NEW k \in 1..Len(s)
               PROVE  s[k] \in N
    BY <1>5, <1>7, <1>12, <2>1 DEF N
  <2>2. CASE k = 1
    BY <1>5, <1>12, <2>2
  <2>3. CASE k # 1
    <3>1. k - 1 \in 1..Len(u) /\ (k - 1) + 1 = k
      BY <1>7, <2>1, <2>3
    <3> QED
      BY <1>10, <2>1, <3>1
  <2> QED
    BY <2>2, <2>3
<1> QED
  BY <1>6, <1>11, <1>12

\* There is no end before the end.
LEMMA OnlyTheEnd ==
    ASSUME NEW D, "\n" \in D, NEW s \in Seq(D), NEW i \in Nat, Char(s, i) # "EOF"
    PROVE  TokenAt(s, i).type # "EOS"
<1> DEFINE c == Char(s, i)
<1>1. TokenAt(s, i) =
         CASE i = 0 -> CutOff
           [] i # 0 /\ c = "EOF" -> Token("EOS", <<>>, 0)
           [] c \in Punctuation -> Token(c, <<>>, i + 1)
           [] c = "@" -> Command(s, i)
           [] c \in Quotes -> StringFrom(s, i + 1, c)
           [] c \in NumIdInitChars ->
                 IF c = "0" /\ Char(s, i + 1) = "x" THEN HexLiteral(s, i + 2)
                 ELSE NumId(s, i)
           [] c \in IdentInitChars -> Ident(s, i)
           [] OTHER -> Thrown
  BY DEF TokenAt
<1>2. i \in 1..Len(s) /\ i + 1 \in Nat /\ i # 0 /\ c # "EOF"
  BY CharLooks
<1>3. c \in Punctuation => Token(c, <<>>, i + 1).type # "EOS"
  BY DEF Punctuation, Token
<1>4. Command(s, i).type # "EOS"
  BY DEF Command, Commands, Thrown, Token
<1>5. c \in Quotes => StringFrom(s, i + 1, c).type # "EOS"
  <2> HIDE DEF c
  <2>1. c \in Quotes => StringFrom(s, i + 1, c) \in StringTokens(D)
    BY <1>2, StringFromIs
  <2> QED
    BY <2>1 DEF StringTokens
<1>6. /\ HexLiteral(s, i + 2).type # "EOS" /\ Ident(s, i).type # "EOS"
      /\ Thrown.type # "EOS"
  BY DEF HexLiteral, Ident, Thrown, Token
<1>7. NumId(s, i).type # "EOS"
  BY DEF NumId, Token
<1> HIDE DEF c
<1>8. CASE c \in Punctuation
  BY <1>1, <1>2, <1>3, <1>8, StartsApart
<1>9. CASE c \notin Punctuation /\ c = "@"
  BY <1>1, <1>2, <1>4, <1>9, StartsApart
<1>10. CASE c \notin Punctuation /\ c # "@" /\ c \in Quotes
  BY <1>1, <1>2, <1>5, <1>10, StartsApart
<1>11. CASE c \notin Punctuation /\ c # "@" /\ c \notin Quotes /\ c \in NumIdInitChars
  BY <1>1, <1>2, <1>6, <1>7, <1>11, StartsApart
<1>12. CASE /\ c \notin Punctuation /\ c # "@" /\ c \notin Quotes
            /\ c \notin NumIdInitChars /\ c \in IdentInitChars
  BY <1>1, <1>2, <1>6, <1>12, StartsApart
<1>13. CASE /\ c \notin Punctuation /\ c # "@" /\ c \notin Quotes
            /\ c \notin NumIdInitChars /\ c \notin IdentInitChars
  BY <1>1, <1>2, <1>6, <1>13
<1> QED
  BY <1>8, <1>9, <1>10, <1>11, <1>12, <1>13

\* A floating point number that is all there is to a file is the token it has.
LEMMA DoubleTokenIs ==
    ASSUME NEW D, "\n" \in D, NEW s \in Seq(D), IsDouble(s), ~IsInt(s), OneValue(s)
    PROVE  Tokens(s)[1].type = "DOUBLE" /\ Tokens(s)[1].value = DoubleOf(s)
<1> DEFINE end == RunEnd(s, 2, NumIdChars)
           N == NumIdInitChars \cup {".", "e", "E"}
<1>1. /\ Len(s) \in Nat \ {0} /\ s[1] \in NumIdInitChars
      /\ \A k \in 1..Len(s) : s[k] \in N
  BY DoubleChars
<1>2. N \cap ({"x"} \cup Blanks \cup {"/"}) = {}
  BY DEF NumIdInitChars, Digits, Blanks
<1>3. NextToken(s, 1) = NumId(s, 1)
  <2>1. Char(s, 2) # "x"
    <3>1. Char(s, 2) = IF 2 \in 1..Len(s) THEN s[2] ELSE "EOF"
      BY CharFacts
    <3>2. 2 \in 1..Len(s) => s[2] \in N
      BY <1>1
    <3> HIDE DEF N
    <3> QED
      BY <1>2, <3>1, <3>2
  <2> QED
    BY <1>1, <2>1, NumberToken
<1>4. /\ end \in 2..(Len(s) + 1) /\ Char(s, end) \notin NumIdChars
  <2>1. 2 \in 1..(Len(s) + 1) /\ "EOF" \notin NumIdChars
    BY <1>1, EndIsNone
  <2> QED
    BY <2>1, RunEndFacts
<1>5. /\ Tokens(s) = <<NextToken(s, 1)>> \o
           (IF NextToken(s, 1).end = 0 THEN <<>> ELSE TokensFrom(s, NextToken(s, 1).end))
      /\ Tokens(s)[1] = NextToken(s, 1)
  BY TokensFromIs, TokensIs DEF Tokens
<1>6. NumId(s, 1).end = end
  BY DEF NumId, Token
<1> HIDE DEF N, end
<1>7. end \in Nat /\ end # 0 /\ 1 \in Nat
  BY <1>1, <1>4
<1>8. Tokens(s)[2] = NextToken(s, end)
  <2> DEFINE first == NextToken(s, 1)
             after == TokensFrom(s, end)
             second == NextToken(s, end)
  <2>1. Tokens(s) = <<first>> \o after
    BY <1>3, <1>5, <1>6, <1>7
  <2>2. after = <<second>> \o (IF second.end = 0 THEN <<>> ELSE TokensFrom(s, second.end))
    BY <1>7, TokensFromIs
  <2>3. second.end \in Nat
    BY <1>7, NextTokenIs
  <2>4. TokensFrom(s, second.end) \in Seq(TokensOf(s)) /\ after \in Seq(TokensOf(s))
    BY <1>7, <2>3, TokensFromIs
  <2> DEFINE more == IF second.end = 0 THEN <<>> ELSE TokensFrom(s, second.end)
  <2>5. more \in Seq(TokensOf(s))
    BY <2>4
  <2>6. second \in TokensOf(s) /\ first \in TokensOf(s)
    BY <1>7 DEF TokensOf
  <2>7. after = <<second>> \o more
    BY <2>2
  <2> HIDE DEF first, after, second, more
  <2>8. after[1] = second /\ Len(after) = Len(more) + 1 /\ Len(more) \in Nat
    BY <2>5, <2>6, <2>7, ConsIs
  <2>9. (<<first>> \o after)[2] = after[1]
    <3>1. 1 \in 1..Len(after) /\ 1 + 1 = 2
      BY <2>8
    <3>2. \A n \in 1..Len(after) : (<<first>> \o after)[n + 1] = after[n]
      BY <2>4, <2>6, ConsIs
    <3> QED
      BY <3>1, <3>2
  <2> QED
    BY <2>1, <2>8, <2>9 DEF second
<1>9. NextToken(s, end).type = "EOS"
  BY <1>8 DEF OneValue
<1>10. end = Len(s) + 1
  <2> SUFFICES ASSUME end # Len(s) + 1
               PROVE  FALSE
    OBVIOUS
  <2>1. end \in 1..Len(s)
    BY <1>1, <1>4
  <2>2. Char(s, end) = s[end] /\ s[end] \in D /\ s[end] \in N
    BY <1>1, <1>7, <2>1, CharFacts
  <2>3. Char(s, end) \notin Blanks \cup {"/"}
    BY <1>2, <2>2
  <2>4. Skipped(s, end) = end
    BY <1>7, <2>3, SkippedIs
  <2>5. Char(s, end) # "EOF"
    <3>1. "EOF" \notin N
      BY DEF N, NumIdInitChars, Digits
    <3> QED
      BY <2>2, <3>1
  <2>6. TokenAt(s, end).type # "EOS"
    BY <1>7, <2>5, OnlyTheEnd
  <2> QED
    BY <1>9, <2>4, <2>6 DEF NextToken
<1>11. NumId(s, 1) = Token("DOUBLE", DoubleOf(s), end)
  <2>1. SubSeq(s, 1, end - 1) = s
    <3>1. end - 1 = Len(s)
      BY <1>1, <1>10
    <3> QED
      BY <3>1, WholeSeq
  <2>2. RunEnd(s, 1 + 1, NumIdChars) = end
    BY DEF end
  <2> QED
    BY <2>1, <2>2 DEF NumId
<1> QED
  BY <1>3, <1>5, <1>11 DEF Token

LEMMA DoublesNow ==
    ASSUME LitInv
    PROVE  DoublesRounded
<1> SUFFICES ASSUME Exists, IsDouble(text), ~IsInt(text),
                    NEW d, d = DoubleOf(text)
             PROVE  /\ Get("double") = Answers("value", d)
                    /\ IF Get("int").says = "value" THEN Get("int").x \in Nearby(d, TRUE)
                       ELSE Nearby(d, FALSE) = {}
  BY DEF DoublesRounded
<1>1. text \in Seq(Chars) /\ "\n" \in Chars /\ OneValue(text)
  BY TextIs DEF Chars, LitInv, LoadedFrom
<1>2. PICK e : prop = ValueOf(Tokens(text)[1], e)
  BY DEF LitInv, LoadedFrom
<1>3. Tokens(text)[1].type = "DOUBLE" /\ Tokens(text)[1].value = d
  BY <1>1, DoubleTokenIs
<1>4. prop = DoubleValue(d)
  BY <1>2, <1>3 DEF ValueOf
<1>5. prop.which = "Double" /\ prop.raw = d /\ prop.text = DoubleText(d)
  BY <1>4 DEF DoubleValue, Value
<1>6. d \in Decimals /\ Stripped(d)
  BY <1>1, DoubleOfType
<1>7. Get("double") = Answers("value", d)
  <2>1. Cast("double", prop, env) = Read(TRUE, d)
    BY <1>5 DEF Cast
  <2> QED
    BY <2>1 DEF Get, Read
<1> DEFINE read == ReadInt(DoubleText(d), IntBits)
<1>8. Cast("int", prop, env) = read
  <2>1. Cast("int", prop, env) = CoerceString("int", prop.text)
    BY <1>5 DEF Cast, AsString
  <2> QED
    BY <1>5, <2>1 DEF CoerceString
<1>9. Get("int") = IF read.ok THEN Answers("value", read.dest) ELSE Answers("bad_coercion", None)
  BY <1>8 DEF Get
<1> HIDE DEF read
<1> DEFINE r == Rounded(d)
           n == Whole(r)
<1>10. CASE IsWhole(r)
  <2>1. IntegerText(DoubleText(d), n)
    BY <1>6, <1>10, WholeText
  <2>2. /\ n \in Int
        /\ n \in IntMin..IntMax => n \in Nearby(d, TRUE)
        /\ n \notin IntMin..IntMax => Nearby(d, FALSE) = {}
    BY <1>6, <1>10, NearbyRounded
  <2> HIDE DEF n
  <2>3. read = IntRead(n, IntBits)
    BY <2>1, IntegerReadBack DEF read
  <2>4. CASE n \in IntMin..IntMax
    <3>1. read = Read(TRUE, n)
      <4>1. ~(n > IntMax) /\ ~(n < IntMin)
        BY <2>2, <2>4, IntIsNarrow
      <4>2. ~(n > MaxOf(IntBits)) /\ ~(n < MinOf(IntBits))
        BY <4>1, IntIsNarrow
      <4> QED
        BY <2>3, <4>2 DEF IntRead
    <3>2. Get("int").x = n
      BY <1>9, <3>1 DEF Read, Answers
    <3>3. Get("int").says = "value"
      BY <1>9, <3>1 DEF Read, Answers
    <3> QED
      BY <1>7, <2>2, <2>4, <3>2, <3>3
  <2>5. CASE n \notin IntMin..IntMax
    <3>1. read.ok = FALSE
      <4>1. n > IntMax \/ n < IntMin
        BY <2>2, <2>5, IntIsNarrow
      <4> QED
        BY <2>3, <4>1, IntIsNarrow DEF IntRead, Read
    <3>2. Get("int").says # "value"
      BY <1>9, <3>1 DEF Answers
    <3> QED
      BY <1>7, <2>2, <2>5, <3>2
  <2> QED
    BY <2>4, <2>5
<1>11. CASE ~IsWhole(r)
  <2>1. Nearby(d, FALSE) = {}
    BY <1>6, <1>11, NearbyRounded
  <2>2. read.ok = FALSE
    BY <1>6, <1>11, NotWholeText DEF read
  <2>3. Get("int").says # "value"
    BY <1>9, <2>2 DEF Answers
  <2> QED
    BY <1>7, <2>1, <2>3
<1> QED
  BY <1>10, <1>11

(***************************************************************************)
(* getInt answers a floating point number if and only if, rounded to the   *)
(* digits that a stream prints, it is an integer of no more digits that    *)
(* fits an int, and answers that integer.                                  *)
(***************************************************************************)
THEOREM DoublesRoundedAlways == Spec => []DoublesRounded
<1>1. LitInv => DoublesRounded
  BY DoublesNow
<1> QED
  BY <1>1, LoadedFromItsText, PTL

----------------------------------------------------------------------------
(* Texts that go on alike.                                                 *)

LEMMA Alike ==
    ASSUME NEW D, NEW s \in Seq(D), NEW t \in Seq(D), NEW m \in Nat, m # 0, NEW d \in Nat,
           GoesOn(s, t, m, d), NEW k \in Nat, k >= m
    PROVE  /\ k + d \in Nat /\ k # 0 /\ k + d # 0
           /\ k \in 1..Len(s) => Char(t, k + d) = Char(s, k)
           /\ k \notin 1..Len(s) => Char(s, k) = "EOF"
           /\ k \notin 1..Len(s) /\ EndsTo(s, t, d) => Char(t, k + d) = "EOF"
           /\ k = Len(s) + 1 => Char(t, k + d) \in Gaps
<1>1. Len(s) \in Nat /\ Len(t) \in Nat
  OBVIOUS
<1>2. k + d \in Nat /\ k # 0 /\ k + d # 0
  OBVIOUS
<1>3. k \in 1..Len(s) => Char(t, k + d) = Char(s, k)
  BY DEF GoesOn
<1>4. k \notin 1..Len(s) => Char(s, k) = "EOF"
  BY CharFacts
<1>5. k \notin 1..Len(s) /\ EndsTo(s, t, d) => Char(t, k + d) = "EOF"
  <2> SUFFICES ASSUME k \notin 1..Len(s), EndsTo(s, t, d)
               PROVE  Char(t, k + d) = "EOF"
    OBVIOUS
  <2>1. k + d \notin 1..Len(t)
    BY <1>1, <1>2 DEF EndsTo
  <2> QED
    BY <1>2, <2>1, CharFacts
<1>6. k = Len(s) + 1 => Char(t, k + d) \in Gaps
  BY DEF GoesOn
<1> QED
  BY <1>2, <1>3, <1>4, <1>5, <1>6

\* What comes after a character of s.
LEMMA NextAlike ==
    ASSUME NEW D, NEW s \in Seq(D), NEW t \in Seq(D), NEW m \in Nat, m # 0, NEW d \in Nat,
           GoesOn(s, t, m, d), NEW k \in 1..Len(s), k >= m
    PROVE  /\ k \in Nat /\ k + 1 \in Nat /\ k + 1 >= m /\ (k + d) + 1 = (k + 1) + d
           /\ \/ Char(t, (k + d) + 1) = Char(s, k + 1)
              \/ /\ k = Len(s) /\ ~EndsTo(s, t, d) /\ Char(s, k + 1) = "EOF"
                 /\ Char(t, (k + d) + 1) \in Gaps
<1>1. k \in Nat /\ k + 1 \in Nat /\ k + 1 >= m /\ (k + d) + 1 = (k + 1) + d /\ Len(s) \in Nat
  OBVIOUS
<1> DEFINE l == k + 1
<1>2. l \in Nat /\ l >= m /\ (l \in 1..Len(s) \/ (k = Len(s) /\ l = Len(s) + 1 /\ l \notin 1..Len(s)))
  BY <1>1
<1> HIDE DEF l
<1>3. \/ Char(t, l + d) = Char(s, l)
      \/ /\ k = Len(s) /\ ~EndsTo(s, t, d) /\ Char(s, l) = "EOF"
         /\ Char(t, l + d) \in Gaps
  BY <1>2, Alike
<1> QED
  BY <1>1, <1>3 DEF l

LEMMA RunAlike ==
    ASSUME NEW D, NEW s \in Seq(D), NEW t \in Seq(D), NEW m \in Nat, m # 0, NEW d \in Nat,
           GoesOn(s, t, m, d), NEW k \in Nat, k >= m, k <= Len(s) + 1,
           NEW C, Gaps \cap C = {}
    PROVE  RunEnd(t, k + d, C) = RunEnd(s, k, C) + d
<1> DEFINE e == RunEnd(s, k, C)
<1>1. Len(s) \in Nat /\ Len(t) \in Nat /\ Len(s) + d <= Len(t)
  BY DEF GoesOn
<1>2. /\ e \in k..(Len(s) + 1) /\ Char(s, e) \notin C
      /\ \A l \in k..(e - 1) : l \in 1..Len(s) /\ s[l] \in C
  <2>1. k \in 1..(Len(s) + 1)
    OBVIOUS
  <2>2. "EOF" \notin C
    <3>1. "EOF" \in Gaps
      BY DEF Gaps
    <3> QED
      BY <3>1
  <2> QED
    BY <2>1, <2>2, RunEndFacts
<1> HIDE DEF e
<1>3. e \in Nat /\ e >= m /\ (e \in 1..Len(s) \/ e = Len(s) + 1)
  BY <1>1, <1>2
<1>4. Char(t, e + d) \notin C
  BY <1>2, <1>3, Alike
<1>5. ASSUME NEW l \in (k + d)..((e + d) - 1)
      PROVE  t[l] \in C
  <2> DEFINE n == l - d
  <2>1. n \in k..(e - 1) /\ n \in Nat /\ n >= m /\ n + d = l
    BY <1>3
  <2>2. n \in 1..Len(s) /\ s[n] \in C
    BY <1>2, <2>1
  <2> HIDE DEF n
  <2>3. Char(t, l) = Char(s, n)
    <3>1. Char(t, n + d) = Char(s, n)
      BY <2>1, <2>2, Alike
    <3> QED
      BY <2>1, <3>1
  <2>6. Char(s, n) = s[n]
    BY <2>1, <2>2, CharFacts
  <2>4. l \in Nat /\ l \in 1..Len(t)
    BY <1>1, <2>1, <2>2
  <2>5. Char(t, l) = t[l]
    BY <2>4, CharFacts
  <2> QED
    BY <2>2, <2>3, <2>5, <2>6
<1>6. k + d \in 1..(Len(t) + 1) /\ e + d \in (k + d)..(Len(t) + 1)
  BY <1>1, <1>2
<1>7. RunEnd(t, k + d, C) = e + d
  <2> DEFINE i == k + d
             j == e + d
  <2>1. i \in 1..(Len(t) + 1) /\ j \in i..(Len(t) + 1) /\ Char(t, j) \notin C
    BY <1>4, <1>6
  <2>2. \A l \in i..(j - 1) : t[l] \in C
    BY <1>5
  <2> HIDE DEF i, j
  <2>3. RunEnd(t, i, C) = j
    BY <2>1, <2>2, RunEndIs
  <2> QED
    BY <2>3 DEF i, j
<1> QED
  BY <1>7 DEF e

LEMMA PartAlike ==
    ASSUME NEW D, NEW s \in Seq(D), NEW t \in Seq(D), NEW m \in Nat, m # 0, NEW d \in Nat,
           GoesOn(s, t, m, d), NEW k \in Nat, k >= m, NEW e \in Nat, e <= Len(s) + 1
    PROVE  SubSeq(t, k + d, (e + d) - 1) = SubSeq(s, k, e - 1)
<1> DEFINE x == SubSeq(s, k, e - 1)
           y == SubSeq(t, k + d, (e + d) - 1)
           n == IF k <= e - 1 THEN (e - 1) - k + 1 ELSE 0
<1>1. Len(s) \in Nat /\ Len(t) \in Nat /\ Len(s) + d <= Len(t)
  BY DEF GoesOn
<1>2. ASSUME NEW l \in k..(e - 1)
      PROVE  s[l] \in D /\ t[l + d] = s[l] /\ t[l + d] \in D
  <2>1. l \in 1..Len(s) /\ l \in Nat /\ l >= m /\ l + d \in 1..Len(t) /\ l + d \in Nat
    BY <1>1
  <2> QED
    BY <2>1, Alike, CharFacts
<1>3. ASSUME NEW l \in (k + d)..((e + d) - 1)
      PROVE  t[l] \in D
  <2>1. l - d \in k..(e - 1) /\ (l - d) + d = l
    OBVIOUS
  <2> QED
    BY <1>2, <2>1
<1>4. k \in Int /\ e - 1 \in Int /\ k + d \in Int /\ (e + d) - 1 \in Int
  OBVIOUS
<1>5. x \in Seq(D) /\ Len(x) = n /\ \A i \in 1..((e - 1) - k + 1) : x[i] = s[k + i - 1]
  BY <1>2, <1>4, SubSeqProperties
<1>6. /\ y \in Seq(D)
      /\ Len(y) = IF k + d <= (e + d) - 1 THEN ((e + d) - 1) - (k + d) + 1 ELSE 0
      /\ \A i \in 1..(((e + d) - 1) - (k + d) + 1) : y[i] = t[(k + d) + i - 1]
  BY <1>3, <1>4, SubSeqProperties
<1> HIDE DEF x, y
<1>7. /\ (k + d <= (e + d) - 1) <=> (k <= e - 1)
      /\ ((e + d) - 1) - (k + d) + 1 = (e - 1) - k + 1
      /\ n \in Nat
  OBVIOUS
<1>8. Len(y) = n
  BY <1>6, <1>7
<1>9. ASSUME NEW i \in 1..n
      PROVE  y[i] = x[i]
  <2>1. i \in 1..((e - 1) - k + 1) /\ k + i - 1 \in k..(e - 1)
        /\ (k + d) + i - 1 = (k + i - 1) + d
    OBVIOUS
  <2>2. x[i] = s[k + i - 1]
    BY <1>5, <2>1
  <2>3. y[i] = t[(k + d) + i - 1]
    BY <1>6, <1>7, <2>1
  <2> QED
    BY <1>2, <2>1, <2>2, <2>3
<1> HIDE DEF n
<1>10. y = x
  BY <1>5, <1>6, <1>8, <1>9, SeqEqual
<1> QED
  BY <1>10 DEF x, y

LEMMA BlockCases ==
    ASSUME NEW s, NEW j, NEW after, NEW e \in Nat
    PROVE  /\ Char(s, j) = "EOF" => BlockEntry(s, j, after)[e] = 0
           /\ Char(s, j) = "*" /\ Char(s, j + 1) = "/" =>
                 BlockEntry(s, j, after)[e] = IF e <= 1 THEN j + 2 ELSE after[j + 2][e - 1]
           /\ Char(s, j) = "/" /\ Char(s, j + 1) = "*" =>
                 BlockEntry(s, j, after)[e] = after[j + 2][e + 1]
           /\ (/\ Char(s, j) # "EOF"
               /\ ~(Char(s, j) = "*" /\ Char(s, j + 1) = "/")
               /\ ~(Char(s, j) = "/" /\ Char(s, j + 1) = "*")) =>
                 BlockEntry(s, j, after)[e] = after[j + 1][e]
<1> DEFINE x == Char(s, j)
           y == Char(s, j + 1)
<1>1. BlockEntry(s, j, after)[e] =
        CASE x = "EOF" -> 0
          [] x = "*" /\ y = "/" -> IF e <= 1 THEN j + 2 ELSE after[j + 2][e - 1]
          [] x = "/" /\ y = "*" -> after[j + 2][e + 1]
          [] OTHER -> after[j + 1][e]
  BY DEF BlockEntry
<1> HIDE DEF x, y
<1>2. /\ x = "EOF" => BlockEntry(s, j, after)[e] = 0
      /\ x = "*" /\ y = "/" =>
            BlockEntry(s, j, after)[e] = IF e <= 1 THEN j + 2 ELSE after[j + 2][e - 1]
      /\ x = "/" /\ y = "*" => BlockEntry(s, j, after)[e] = after[j + 2][e + 1]
      /\ x # "EOF" /\ ~(x = "*" /\ y = "/") /\ ~(x = "/" /\ y = "*") =>
            BlockEntry(s, j, after)[e] = after[j + 1][e]
  BY <1>1
<1> QED
  BY <1>2 DEF x, y

LEMMA BlockStep ==
    ASSUME NEW D, NEW s \in Seq(D), NEW t \in Seq(D), NEW m \in Nat, m # 0, NEW d \in Nat,
           GoesOn(s, t, m, d), NEW j \in 1..Len(s), j >= m, NEW e \in Nat, NEW a, NEW b,
           a[j] = BlockEntry(s, j, a), a[j + 1] = BlockEntry(s, j + 1, a),
           b[j + d] = BlockEntry(t, j + d, b),
           \A l \in {j + 1, j + 2}, f \in Nat : BlocksAgree(s, t, a, b, d, l, f)
    PROVE  BlocksAgree(s, t, a, b, d, j, e)
<1> DEFINE ends == EndsTo(s, t, d)
           i == j + d
           j1 == j + 1
           j2 == j + 2
           x == Char(s, j)
           x1 == Char(s, j1)
           y == Char(t, i)
           y1 == Char(t, i + 1)
<1>1. /\ j \in Nat /\ j1 \in Nat /\ j2 \in Nat /\ j1 + d = i + 1 /\ j2 + d = i + 2
      /\ j2 # 0 /\ e + 1 \in Nat /\ (~(e <= 1) => e - 1 \in Nat)
      /\ i + 2 = j2 + d
  OBVIOUS
<1>2. y = x
  BY <1>1, Alike
<1>3. y1 = x1 \/ (j = Len(s) /\ ~ends /\ x1 = "EOF")
  BY NextAlike
<1>4. /\ ends \/ a[j1][e] # 0 => b[i + 1][e] = Moved(a[j1][e], d)
      /\ ends \/ a[j2][e + 1] # 0 => b[i + 2][e + 1] = Moved(a[j2][e + 1], d)
      /\ ~(e <= 1) =>
            (ends \/ a[j2][e - 1] # 0 => b[i + 2][e - 1] = Moved(a[j2][e - 1], d))
  <2>1. BlocksAgree(s, t, a, b, d, j1, e) /\ BlocksAgree(s, t, a, b, d, j2, e + 1)
    BY <1>1
  <2>2. ~(e <= 1) => BlocksAgree(s, t, a, b, d, j2, e - 1)
    BY <1>1
  <2>3. b[j1 + d] = b[i + 1] /\ b[j2 + d] = b[i + 2]
    BY <1>1
  <2> HIDE DEF j1, j2, i, ends
  <2>4. /\ ends \/ a[j1][e] # 0 => b[j1 + d][e] = Moved(a[j1][e], d)
        /\ ends \/ a[j2][e + 1] # 0 => b[j2 + d][e + 1] = Moved(a[j2][e + 1], d)
    BY <2>1 DEF BlocksAgree, ends
  <2>5. ~(e <= 1) =>
            (ends \/ a[j2][e - 1] # 0 => b[j2 + d][e - 1] = Moved(a[j2][e - 1], d))
    BY <2>2 DEF BlocksAgree, ends
  <2> QED
    BY <2>3, <2>4, <2>5
<1>5. /\ x = "EOF" => a[j][e] = 0
      /\ x = "*" /\ x1 = "/" => a[j][e] = IF e <= 1 THEN j2 ELSE a[j2][e - 1]
      /\ x = "/" /\ x1 = "*" => a[j][e] = a[j2][e + 1]
      /\ x # "EOF" /\ ~(x = "*" /\ x1 = "/") /\ ~(x = "/" /\ x1 = "*") =>
            a[j][e] = a[j1][e]
  <2> DEFINE v == BlockEntry(s, j, a)[e]
  <2>1. /\ x = "EOF" => v = 0
        /\ x = "*" /\ x1 = "/" => v = IF e <= 1 THEN j2 ELSE a[j2][e - 1]
        /\ x = "/" /\ x1 = "*" => v = a[j2][e + 1]
        /\ x # "EOF" /\ ~(x = "*" /\ x1 = "/") /\ ~(x = "/" /\ x1 = "*") => v = a[j1][e]
    BY BlockCases
  <2>2. a[j][e] = v
    OBVIOUS
  <2> HIDE DEF v, x, x1, j1, j2
  <2> QED
    BY <2>1, <2>2
<1>6. /\ y = "EOF" => b[i][e] = 0
      /\ y = "*" /\ y1 = "/" => b[i][e] = IF e <= 1 THEN i + 2 ELSE b[i + 2][e - 1]
      /\ y = "/" /\ y1 = "*" => b[i][e] = b[i + 2][e + 1]
      /\ y # "EOF" /\ ~(y = "*" /\ y1 = "/") /\ ~(y = "/" /\ y1 = "*") =>
            b[i][e] = b[i + 1][e]
  <2> HIDE DEF i
  <2> DEFINE v == BlockEntry(t, i, b)[e]
  <2>1. /\ y = "EOF" => v = 0
        /\ y = "*" /\ y1 = "/" => v = IF e <= 1 THEN i + 2 ELSE b[i + 2][e - 1]
        /\ y = "/" /\ y1 = "*" => v = b[i + 2][e + 1]
        /\ y # "EOF" /\ ~(y = "*" /\ y1 = "/") /\ ~(y = "/" /\ y1 = "*") => v = b[i + 1][e]
    BY BlockCases
  <2>2. b[i][e] = v
    BY DEF i
  <2> HIDE DEF v, y, y1, i
  <2> QED
    BY <2>1, <2>2
<1>7. x1 = "EOF" => a[j1][e] = 0
  BY BlockCases
<1> SUFFICES ASSUME ends \/ a[j][e] # 0
             PROVE  b[i][e] = Moved(a[j][e], d)
  BY DEF BlocksAgree
<1> HIDE DEF ends, i, j1, j2, x, x1, y, y1
<1>8. CASE y1 # x1
  <2>1. ~ends /\ x1 = "EOF"
    BY <1>3, <1>8
  <2>2. a[j][e] = 0
    BY <1>5, <1>7, <2>1
  <2> QED
    BY <2>1, <2>2
<1>9. CASE y1 = x1
  <2>1. CASE x = "EOF"
    <3>1. a[j][e] = 0 /\ b[i][e] = 0
      BY <1>2, <1>5, <1>6, <2>1
    <3> QED
      BY <3>1 DEF Moved
  <2>2. CASE x = "*" /\ x1 = "/"
    <3>1. CASE e <= 1
      <4>1. a[j][e] = j2 /\ b[i][e] = j2 + d
        BY <1>1, <1>2, <1>5, <1>6, <1>9, <2>2, <3>1
      <4> QED
        BY <1>1, <4>1 DEF Moved
    <3>2. CASE ~(e <= 1)
      <4>1. a[j][e] = a[j2][e - 1] /\ b[i][e] = b[i + 2][e - 1]
        BY <1>2, <1>5, <1>6, <1>9, <2>2, <3>2
      <4> QED
        BY <1>4, <3>2, <4>1
    <3> QED
      BY <3>1, <3>2
  <2>3. CASE x = "/" /\ x1 = "*"
    <3>1. a[j][e] = a[j2][e + 1] /\ b[i][e] = b[i + 2][e + 1]
      BY <1>2, <1>5, <1>6, <1>9, <2>3
    <3> QED
      BY <1>4, <3>1
  <2>4. CASE x # "EOF" /\ ~(x = "*" /\ x1 = "/") /\ ~(x = "/" /\ x1 = "*")
    <3>1. a[j][e] = a[j1][e] /\ b[i][e] = b[i + 1][e]
      BY <1>2, <1>5, <1>6, <1>9, <2>4
    <3> QED
      BY <1>4, <3>1
  <2> QED
    BY <2>1, <2>2, <2>3, <2>4
<1> QED
  BY <1>8, <1>9

LEMMA BlockAlike ==
    ASSUME NEW D, NEW s \in Seq(D), NEW t \in Seq(D), NEW m \in Nat, m # 0, NEW d \in Nat,
           GoesOn(s, t, m, d), NEW k \in Nat, k >= m, NEW depth \in Nat,
           EndsTo(s, t, d) \/ AfterBlock(s, k, depth) # 0
    PROVE  AfterBlock(t, k + d, depth) = Moved(AfterBlock(s, k, depth), d)
<1>0. ASSUME NEW j \in Nat, j >= m
      PROVE  /\ j + 1 \in Nat /\ j + 2 \in Nat /\ j + d \in Nat
             /\ \A l \in {j + 1, j + 2} : l \in Nat /\ l > j /\ l >= m
             /\ j \notin 1..Len(s) =>
                   Char(s, j) = "EOF" /\ (EndsTo(s, t, d) => Char(t, j + d) = "EOF")
  <2>1. j \notin 1..Len(s) =>
           Char(s, j) = "EOF" /\ (EndsTo(s, t, d) => Char(t, j + d) = "EOF")
    BY <1>0, Alike
  <2> QED
    BY <1>0, <2>1
<1>1. PICK a \in [Nat -> [Nat -> Nat]] :
              /\ \A j, e : AfterBlock(s, j, e) = a[j][e]
              /\ \A j \in Nat : a[j] = BlockEntry(s, j, a)
  BY AfterBlockTable
<1>2. PICK b \in [Nat -> [Nat -> Nat]] :
              /\ \A j, e : AfterBlock(t, j, e) = b[j][e]
              /\ \A j \in Nat : b[j] = BlockEntry(t, j, b)
  BY AfterBlockTable
<1> DEFINE T == {j \in Nat : j >= m => \A e \in Nat : BlocksAgree(s, t, a, b, d, j, e)}
<1>3. ASSUME NEW j \in Nat, j \in 1..Len(s) => \A l \in Nat : l = 0 \/ l > j => l \in T
      PROVE  j \in T
  <2> SUFFICES ASSUME j >= m, NEW e \in Nat
               PROVE  BlocksAgree(s, t, a, b, d, j, e)
    OBVIOUS
  <2>1. j + 1 \in Nat /\ j + 2 \in Nat /\ j + d \in Nat
    BY <1>0
  <2>2. /\ a[j] = BlockEntry(s, j, a) /\ a[j + 1] = BlockEntry(s, j + 1, a)
        /\ b[j + d] = BlockEntry(t, j + d, b)
    BY <1>1, <1>2, <2>1
  <2>3. CASE j \in 1..Len(s)
    <3>1. \A l \in {j + 1, j + 2} : l \in Nat /\ l > j /\ l >= m
      BY <1>0
    <3>2. \A l \in {j + 1, j + 2}, f \in Nat : BlocksAgree(s, t, a, b, d, l, f)
      BY <1>3, <2>3, <3>1
    <3> HIDE DEF T
    <3> QED
      BY <2>2, <2>3, <3>2, BlockStep
  <2>4. CASE j \notin 1..Len(s)
    <3>1. Char(s, j) = "EOF" /\ (EndsTo(s, t, d) => Char(t, j + d) = "EOF")
      BY <1>0, <2>4
    <3>2. BlockEntry(s, j, a)[e] = 0
      BY <3>1, BlockCases
    <3>3. EndsTo(s, t, d) => BlockEntry(t, j + d, b)[e] = 0
      BY <3>1, BlockCases
    <3> QED
      BY <2>2, <3>2, <3>3 DEF BlocksAgree, Moved
  <2> QED
    BY <2>3, <2>4
<1>4. Nat \subseteq T
  <2> HIDE DEF T
  <2>1. Len(s) \in Nat
    OBVIOUS
  <2> QED
    BY <1>3, <2>1, ForwardInduction
<1>5. BlocksAgree(s, t, a, b, d, k, depth)
  BY <1>4
<1> QED
  BY <1>1, <1>2, <1>5 DEF BlocksAgree

LEMMA AfterLineWhere ==
    ASSUME NEW S, NEW s \in Seq(S), NEW i \in 1..(Len(s) + 1)
    PROVE  /\ AfterLine(s, i) \in i..(Len(s) + 1)
           /\ Char(s, AfterLine(s, i)) \in LineEnds
           /\ \A e \in i..(Len(s) + 1) :
                 Char(s, e) \in LineEnds => AfterLine(s, i) <= e
<1> DEFINE T == {j \in i..(Len(s) + 1) : Char(s, j) \in LineEnds}
<1>1. AfterLine(s, i) = Min(T)
  BY DEF AfterLine, LineEnds
<1>2. AfterLine(s, i) \in i..(Len(s) + 1)
  BY AfterLineIs
<1>3. Len(s) + 1 \in T
  <2>1. Char(s, Len(s) + 1) = "EOF"
    BY DEF Char
  <2> QED
    BY <2>1 DEF LineEnds
<1>4. T \in SUBSET Nat
  OBVIOUS
<1>5. Min(T) \in T /\ \A e \in T : Min(T) <= e
  BY <1>3, <1>4, MinIs
<1> QED
  BY <1>1, <1>2, <1>5

LEMMA LineAlike ==
    ASSUME NEW D, NEW s \in Seq(D), NEW t \in Seq(D), NEW m \in Nat, m # 0, NEW d \in Nat,
           GoesOn(s, t, m, d), NEW k \in Nat, k >= m, k <= Len(s) + 1,
           EndsTo(s, t, d) \/ AfterLine(s, k) # Len(s) + 1
    PROVE  AfterLine(t, k + d) = AfterLine(s, k) + d
<1> DEFINE a == AfterLine(s, k)
           b == AfterLine(t, k + d)
<1>1. Len(s) \in Nat /\ Len(t) \in Nat /\ Len(s) + d <= Len(t)
  BY DEF GoesOn
<1>2. /\ a \in k..(Len(s) + 1) /\ Char(s, a) \in LineEnds
      /\ \A e \in k..(Len(s) + 1) : Char(s, e) \in LineEnds => a <= e
  <2>1. k \in 1..(Len(s) + 1)
    OBVIOUS
  <2> QED
    BY <2>1, AfterLineWhere
<1>3. /\ b \in (k + d)..(Len(t) + 1) /\ Char(t, b) \in LineEnds
      /\ \A e \in (k + d)..(Len(t) + 1) : Char(t, e) \in LineEnds => b <= e
  <2>1. k + d \in 1..(Len(t) + 1)
    BY <1>1
  <2> QED
    BY <2>1, AfterLineWhere
<1>4. "EOF" \in LineEnds
  BY DEF LineEnds
<1> HIDE DEF a, b
<1>5. Char(t, a + d) \in LineEnds
  <2>1. a \in Nat /\ a >= m /\ (a \in 1..Len(s) \/ a = Len(s) + 1)
    BY <1>1, <1>2
  <2>2. CASE a \in 1..Len(s)
    BY <1>2, <2>1, <2>2, Alike
  <2>3. CASE a \notin 1..Len(s)
    <3>1. EndsTo(s, t, d)
      BY <2>1, <2>3 DEF a
    <3>2. Char(t, a + d) = "EOF"
      BY <2>1, <2>3, <3>1, Alike
    <3> QED
      BY <1>4, <3>2
  <2> QED
    BY <2>2, <2>3
<1>6. b <= a + d
  <2>1. a + d \in (k + d)..(Len(t) + 1)
    BY <1>1, <1>2
  <2> QED
    BY <1>3, <1>5, <2>1
<1>7. a + d <= b
  <2> DEFINE c == b - d
  <2>1. /\ c \in k..(Len(s) + 1) /\ c \in Nat /\ c >= m /\ c + d = b
        /\ c \in 1..Len(s) \/ c \notin 1..Len(s)
    BY <1>1, <1>2, <1>3, <1>6
  <2> HIDE DEF c
  <2>2. Char(s, c) \in LineEnds
    <3>1. CASE c \in 1..Len(s)
      <4>1. Char(t, c + d) = Char(s, c)
        BY <2>1, <3>1, Alike
      <4> QED
        BY <1>3, <2>1, <4>1
    <3>2. CASE c \notin 1..Len(s)
      <4>1. Char(s, c) = "EOF"
        BY <2>1, <3>2, Alike
      <4> QED
        BY <1>4, <4>1
    <3> QED
      BY <3>1, <3>2
  <2>3. a <= c
    BY <1>2, <2>1, <2>2
  <2> QED
    BY <1>2, <2>1, <2>3
<1>8. b = a + d
  BY <1>2, <1>3, <1>6, <1>7
<1> QED
  BY <1>8 DEF a, b

LEMMA SkipCases ==
    ASSUME NEW s, NEW j \in Nat, j # 0, NEW skip
    PROVE  /\ Char(s, j) \in Blanks => SkipEntry(s, j, skip) = skip[j + 1]
           /\ Char(s, j) = "/" /\ Char(s, j + 1) = "/" =>
                 SkipEntry(s, j, skip) = skip[AfterLine(s, j + 2)]
           /\ Char(s, j) = "/" /\ Char(s, j + 1) = "*" =>
                 SkipEntry(s, j, skip) = skip[AfterBlock(s, j + 2, 1)]
           /\ (/\ Char(s, j) \notin Blanks
               /\ ~(Char(s, j) = "/" /\ Char(s, j + 1) = "/")
               /\ ~(Char(s, j) = "/" /\ Char(s, j + 1) = "*")) =>
                 SkipEntry(s, j, skip) = j
<1> DEFINE x == Char(s, j)
           y == Char(s, j + 1)
           line == skip[AfterLine(s, j + 2)]
           block == skip[AfterBlock(s, j + 2, 1)]
<1>1. SkipEntry(s, j, skip) =
        CASE x \in Blanks -> skip[j + 1]
          [] x = "/" /\ y = "/" -> line
          [] x = "/" /\ y = "*" -> block
          [] OTHER -> j
  BY DEF SkipEntry
<1>2. "/" \notin Blanks
  BY DEF Blanks
<1> HIDE DEF x, y, line, block
<1>3. /\ x \in Blanks => SkipEntry(s, j, skip) = skip[j + 1]
      /\ x = "/" /\ y = "/" => SkipEntry(s, j, skip) = line
      /\ x = "/" /\ y = "*" => SkipEntry(s, j, skip) = block
      /\ x \notin Blanks /\ ~(x = "/" /\ y = "/") /\ ~(x = "/" /\ y = "*") =>
            SkipEntry(s, j, skip) = j
  BY <1>1, <1>2
<1> QED
  BY <1>3 DEF x, y, line, block

LEMMA SkipStep ==
    ASSUME NEW D, NEW s \in Seq(D), NEW t \in Seq(D), NEW m \in Nat, m # 0, NEW d \in Nat,
           GoesOn(s, t, m, d), NEW j \in 1..Len(s), j >= m, NEW a, NEW b,
           a[j] = SkipEntry(s, j, a), b[j + d] = SkipEntry(t, j + d, b),
           a[0] = 0, b[0] = 0, a[Len(s) + 1] = Len(s) + 1,
           \A l \in Nat : l > j => SkipsAlike(s, t, a, b, d, l)
    PROVE  SkipsAlike(s, t, a, b, d, j)
<1> DEFINE ends == EndsTo(s, t, d)
           n == Len(s)
           i == j + d
           x == Char(s, j)
           x1 == Char(s, j + 1)
           y == Char(t, i)
           y1 == Char(t, i + 1)
           line == AfterLine(s, j + 2)
           lineT == AfterLine(t, i + 2)
           block == AfterBlock(s, j + 2, 1)
           blockT == AfterBlock(t, i + 2, 1)
<1>1. /\ j \in Nat /\ n \in Nat /\ j # 0 /\ i \in Nat /\ i # 0 /\ j + 1 \in Nat /\ j + 1 > j
      /\ i + 1 = (j + 1) + d /\ i + 2 = (j + 2) + d /\ j + 2 \in Nat /\ j + 2 >= m
  OBVIOUS
<1>2. y = x
  BY <1>1, Alike
<1>3. y1 = x1 \/ (j = n /\ ~ends /\ x1 = "EOF")
  BY NextAlike
<1>4. /\ x \in Blanks => a[j] = a[j + 1]
      /\ x = "/" /\ x1 = "/" => a[j] = a[line]
      /\ x = "/" /\ x1 = "*" => a[j] = a[block]
      /\ x \notin Blanks /\ ~(x = "/" /\ x1 = "/") /\ ~(x = "/" /\ x1 = "*") => a[j] = j
  <2> DEFINE v == SkipEntry(s, j, a)
  <2>1. /\ x \in Blanks => v = a[j + 1]
        /\ x = "/" /\ x1 = "/" => v = a[line]
        /\ x = "/" /\ x1 = "*" => v = a[block]
        /\ x \notin Blanks /\ ~(x = "/" /\ x1 = "/") /\ ~(x = "/" /\ x1 = "*") => v = j
    BY <1>1, SkipCases
  <2>2. a[j] = v
    OBVIOUS
  <2> HIDE DEF v, x, x1, line, block
  <2> QED
    BY <2>1, <2>2
<1>5. /\ y \in Blanks => b[i] = b[i + 1]
      /\ y = "/" /\ y1 = "/" => b[i] = b[lineT]
      /\ y = "/" /\ y1 = "*" => b[i] = b[blockT]
      /\ y \notin Blanks /\ ~(y = "/" /\ y1 = "/") /\ ~(y = "/" /\ y1 = "*") => b[i] = i
  <2> HIDE DEF i
  <2> DEFINE v == SkipEntry(t, i, b)
  <2>1. /\ y \in Blanks => v = b[i + 1]
        /\ y = "/" /\ y1 = "/" => v = b[lineT]
        /\ y = "/" /\ y1 = "*" => v = b[blockT]
        /\ y \notin Blanks /\ ~(y = "/" /\ y1 = "/") /\ ~(y = "/" /\ y1 = "*") => v = i
    BY <1>1, SkipCases
  <2>2. b[i] = v
    BY DEF i
  <2> HIDE DEF v, y, y1, lineT, blockT
  <2> QED
    BY <2>1, <2>2
<1>6. ASSUME NEW l \in Nat, l > j, Reaches(s, t, d, a[l])
      PROVE  b[l + d] = Moved(a[l], d)
  BY <1>6 DEF SkipsAlike
<1>7. x = "/" /\ x1 = "/" => line \in Nat /\ line > j /\ j + 2 <= n + 1
  <2>1. x = "/" /\ x1 = "/" => line \in Nat /\ line > j
    BY <1>1, SkipEntryLooks
  <2>2. x1 = "/" => j + 1 \in 1..n
    BY <1>1, CharLooks
  <2> QED
    BY <1>1, <2>1, <2>2
<1>8. block \in Nat /\ (block = 0 \/ block > j)
  BY <1>1, SkipEntryLooks
<1>9. x = "/" /\ x1 = "/" /\ (ends \/ line # n + 1) => lineT = line + d
  <2> DEFINE k == j + 2
  <2> SUFFICES ASSUME x = "/", x1 = "/", ends \/ line # n + 1
               PROVE  lineT = line + d
    OBVIOUS
  <2>1. k \in Nat /\ k >= m /\ k <= Len(s) + 1 /\ i + 2 = k + d
    BY <1>1, <1>7
  <2>2. EndsTo(s, t, d) \/ AfterLine(s, k) # Len(s) + 1
    OBVIOUS
  <2> HIDE DEF k
  <2>3. AfterLine(t, k + d) = AfterLine(s, k) + d
    BY <2>1, <2>2, LineAlike
  <2> QED
    BY <2>1, <2>3 DEF k
<1>10. ends \/ block # 0 => blockT = Moved(block, d)
  <2> DEFINE k == j + 2
             one == 1
  <2> SUFFICES ASSUME ends \/ block # 0
               PROVE  blockT = Moved(block, d)
    OBVIOUS
  <2>1. k \in Nat /\ k >= m /\ i + 2 = k + d /\ one \in Nat
    BY <1>1
  <2>2. EndsTo(s, t, d) \/ AfterBlock(s, k, one) # 0
    OBVIOUS
  <2> HIDE DEF k, one
  <2>3. AfterBlock(t, k + d, one) = Moved(AfterBlock(s, k, one), d)
    BY <2>1, <2>2, BlockAlike
  <2> QED
    BY <2>1, <2>3 DEF k, one
<1> SUFFICES ASSUME Reaches(s, t, d, a[j])
             PROVE  b[i] = Moved(a[j], d)
  BY DEF SkipsAlike
<1>11. ends \/ (a[j] \in 1..n /\ ~(a[j] = n /\ Char(s, a[j]) = "/"))
  BY DEF Reaches
<1>12. "/" \notin Blanks /\ "EOF" \notin Blanks
  BY DEF Blanks
<1>13. CASE x \in Blanks
  <2>1. a[j] = a[j + 1] /\ b[i] = b[(j + 1) + d]
    BY <1>1, <1>2, <1>4, <1>5, <1>13
  <2>2. b[(j + 1) + d] = Moved(a[j + 1], d)
    BY <1>1, <1>6, <2>1
  <2> QED
    BY <2>1, <2>2
<1>14. CASE x = "/" /\ x1 = "/"
  <2>1. y = "/" /\ y1 = "/" /\ a[j] = a[line] /\ b[i] = b[lineT]
    BY <1>2, <1>3, <1>4, <1>5, <1>14
  <2>2. CASE ends \/ line # n + 1
    <3>1. b[i] = b[line + d]
      BY <1>9, <1>14, <2>1, <2>2
    <3>2. b[line + d] = Moved(a[line], d)
      BY <1>6, <1>7, <1>14, <2>1
    <3> QED
      BY <2>1, <3>1, <3>2
  <2>3. CASE ~ends /\ line = n + 1
    <3>1. a[j] = n + 1
      BY <2>1, <2>3
    <3> QED
      BY <1>1, <1>11, <2>3, <3>1
  <2> QED
    BY <2>2, <2>3
<1>15. CASE x = "/" /\ x1 = "*"
  <2>1. y = "/" /\ y1 = "*" /\ a[j] = a[block] /\ b[i] = b[blockT]
    BY <1>2, <1>3, <1>4, <1>5, <1>15
  <2>2. CASE block = 0
    <3>1. a[j] = 0 /\ ends
      <4>1. a[j] = 0
        BY <2>1, <2>2
      <4> QED
        BY <1>1, <1>11, <4>1
    <3>2. blockT = 0
      BY <1>10, <2>2, <3>1 DEF Moved
    <3> QED
      BY <2>1, <3>1, <3>2 DEF Moved
  <2>3. CASE block # 0
    <3>1. blockT = block + d
      BY <1>10, <2>3 DEF Moved
    <3>2. b[block + d] = Moved(a[block], d)
      BY <1>6, <1>8, <2>1, <2>3
    <3> QED
      BY <2>1, <3>1, <3>2
  <2> QED
    BY <2>2, <2>3
<1>16. CASE x \notin Blanks /\ ~(x = "/" /\ x1 = "/") /\ ~(x = "/" /\ x1 = "*")
  <2>1. a[j] = j
    BY <1>4, <1>16
  <2>2. ~(y = "/" /\ y1 = "/") /\ ~(y = "/" /\ y1 = "*")
    <3>1. CASE y1 = x1
      BY <1>2, <1>16, <3>1
    <3>2. CASE y1 # x1
      <4>1. j = n /\ ~ends
        BY <1>3, <3>2
      <4>2. x # "/"
        BY <1>11, <2>1, <4>1
      <4> QED
        BY <1>2, <4>2
    <3> QED
      BY <3>1, <3>2
  <2>3. b[i] = i
    BY <1>2, <1>5, <1>16, <2>2
  <2> QED
    BY <1>1, <2>1, <2>3 DEF Moved
<1> QED
  BY <1>13, <1>14, <1>15, <1>16

LEMMA SkippedAlike ==
    ASSUME NEW D, NEW s \in Seq(D), NEW t \in Seq(D), NEW m \in Nat, m # 0, NEW d \in Nat,
           GoesOn(s, t, m, d), NEW k \in Nat, k >= m, Reaches(s, t, d, Skipped(s, k))
    PROVE  Skipped(t, k + d) = Moved(Skipped(s, k), d)
<1>0. ASSUME NEW j \in Nat, j >= m
      PROVE  j + d \in Nat /\ j # 0 /\ j + d # 0
  BY <1>0
<1>end. Len(s) + 1 \in Nat /\ Len(s) + 1 # 0 /\ Len(s) + 1 \notin 1..Len(s)
  OBVIOUS
<1>1. PICK a \in [Nat -> Nat] : /\ \A j : Skipped(s, j) = a[j]
                                /\ \A j \in Nat : a[j] = SkipEntry(s, j, a)
  BY SkippedTable
<1>2. PICK b \in [Nat -> Nat] : /\ \A j : Skipped(t, j) = b[j]
                                /\ \A j \in Nat : b[j] = SkipEntry(t, j, b)
  BY SkippedTable
<1>3. a[0] = 0 /\ b[0] = 0
  <2>1. Skipped(s, 0) = 0 /\ Skipped(t, 0) = 0
    <3>1. 0 \in Nat
      OBVIOUS
    <3> QED
      BY <3>1, SkippedIs
  <2> QED
    BY <1>1, <1>2, <2>1
<1>4. "EOF" \notin Blanks \cup {"/"}
  BY DEF Blanks
<1>5. \A j \in Nat : j # 0 /\ Char(s, j) = "EOF" => a[j] = j
  BY <1>1, <1>4, SkippedIs
<1>6. \A j \in Nat : j # 0 /\ Char(t, j) = "EOF" => b[j] = j
  BY <1>2, <1>4, SkippedIs
<1> DEFINE T == {j \in Nat : j >= m => SkipsAlike(s, t, a, b, d, j)}
<1>7. ASSUME NEW j \in Nat, j \in 1..Len(s) => \A l \in Nat : l = 0 \/ l > j => l \in T
      PROVE  j \in T
  <2> SUFFICES ASSUME j >= m
               PROVE  SkipsAlike(s, t, a, b, d, j)
    OBVIOUS
  <2>1. j + d \in Nat /\ j # 0 /\ j + d # 0
    BY <1>0
  <2>2. CASE j \in 1..Len(s)
    <3>1. a[Len(s) + 1] = Len(s) + 1
      <4>1. Len(s) + 1 \in Nat /\ Len(s) + 1 # 0 /\ Len(s) + 1 \notin 1..Len(s)
        BY <1>end
      <4>2. Char(s, Len(s) + 1) = "EOF"
        BY <4>1, CharFacts
      <4> QED
        BY <1>5, <4>1, <4>2
    <3>2. \A l \in Nat : l > j => SkipsAlike(s, t, a, b, d, l)
      BY <1>7, <2>2
    <3>3. a[j] = SkipEntry(s, j, a) /\ b[j + d] = SkipEntry(t, j + d, b)
      BY <1>1, <1>2, <2>1
    <3> HIDE DEF T
    <3> QED
      BY <1>3, <2>2, <3>1, <3>2, <3>3, SkipStep
  <2>3. CASE j \notin 1..Len(s)
    <3>1. Char(s, j) = "EOF" /\ (EndsTo(s, t, d) => Char(t, j + d) = "EOF")
      BY <2>3, Alike, SMTT(30)
    <3>2. a[j] = j /\ (EndsTo(s, t, d) => b[j + d] = j + d)
      BY <1>5, <1>6, <2>1, <3>1
    <3>3. Reaches(s, t, d, a[j]) => EndsTo(s, t, d)
      BY <2>3, <3>2 DEF Reaches
    <3> QED
      BY <2>1, <3>2, <3>3 DEF SkipsAlike, Moved
  <2> QED
    BY <2>2, <2>3
<1>8. Nat \subseteq T
  <2> HIDE DEF T
  <2>1. Len(s) \in Nat
    OBVIOUS
  <2> QED
    BY <1>7, <2>1, ForwardInduction
<1>9. SkipsAlike(s, t, a, b, d, k)
  BY <1>8
<1> QED
  BY <1>1, <1>2, <1>9 DEF SkipsAlike

----------------------------------------------------------------------------
(* Tokens of texts that go on alike.                                       *)

LEMMA WithSame ==
    ASSUME NEW D, NEW chars \in Seq(D), NEW d \in Nat,
           NEW x \in StringTokens(D), NEW y \in StringTokens(D), SameToken(x, y, d)
    PROVE  /\ SameToken(WithPlain(chars, x), WithPlain(chars, y), d)
           /\ SameToken(WithInterpolant(chars, x), WithInterpolant(chars, y), d)
<1> DEFINE v == x.value
           w == IF v # <<>> /\ ~Head(v).isInterpolant
                THEN <<Plain(chars \o Head(v).text)>> \o Tail(v)
                ELSE <<Plain(chars)>> \o v
           u == <<FromEnv(chars)>> \o v
<1>1. /\ x = [type |-> x.type, value |-> v, end |-> x.end]
      /\ y = [type |-> x.type, value |-> v, end |-> y.end]
      /\ y.type = x.type /\ y.value = v /\ y.end = Moved(x.end, d)
  <2>1. x = [type |-> x.type, value |-> x.value, end |-> x.end]
        /\ y = [type |-> y.type, value |-> y.value, end |-> y.end]
    BY DEF StringTokens
  <2> QED
    BY <2>1 DEF SameToken
<1>2. CASE x.type # "STRING"
  <2>1. /\ WithPlain(chars, x) = x /\ WithPlain(chars, y) = y
        /\ WithInterpolant(chars, x) = x /\ WithInterpolant(chars, y) = y
    BY <1>1, <1>2 DEF WithPlain, WithInterpolant
  <2> QED
    BY <2>1
<1>3. CASE x.type = "STRING"
  <2>1. \A a : /\ [x EXCEPT !.value = a].type = x.type /\ [x EXCEPT !.value = a].value = a
               /\ [x EXCEPT !.value = a].end = x.end
               /\ [y EXCEPT !.value = a].type = x.type /\ [y EXCEPT !.value = a].value = a
               /\ [y EXCEPT !.value = a].end = y.end
    <3> HIDE DEF v
    <3> QED
      BY <1>1
  <2>2. /\ WithInterpolant(chars, x) = [x EXCEPT !.value = u]
        /\ WithInterpolant(chars, y) = [y EXCEPT !.value = u]
    BY <1>1, <1>3 DEF WithInterpolant
  <2>3. CASE chars = <<>>
    <3>1. WithPlain(chars, x) = x /\ WithPlain(chars, y) = y
      BY <1>3, <2>3 DEF WithPlain
    <3> HIDE DEF u
    <3> QED
      BY <1>1, <2>1, <2>2, <3>1 DEF SameToken
  <2>4. CASE chars # <<>>
    <3>1. WithPlain(chars, x) = [x EXCEPT !.value = w] /\ WithPlain(chars, y) = [y EXCEPT !.value = w]
      BY <1>1, <1>3, <2>4 DEF WithPlain
    <3> HIDE DEF u, w
    <3> QED
      BY <1>1, <2>1, <2>2, <3>1 DEF SameToken
  <2> QED
    BY <2>3, <2>4
<1> QED
  BY <1>2, <1>3

LEMMA StringCases ==
    ASSUME NEW s, NEW j, NEW first \in Quotes, NEW from
    PROVE  LET c     == Char(s, j)
               c1    == Char(s, j + 1)
               brace == RunEnd(s, j + 2, InterpolantChars)
               entry == StringEntry(s, j, first, from)
           IN
           /\ c = first => entry = Token("STRING", <<>>, j + 1)
           /\ c = "EOF" => entry = CutOff
           /\ c \in {"$", "\\"} /\ c1 = "EOF" => entry = CutOff
           /\ c = "$" /\ c1 \notin {"EOF", "{"} => entry = Thrown
           /\ c = "$" /\ c1 = "{" /\ Char(s, brace) = "EOF" => entry = CutOff
           /\ c = "$" /\ c1 = "{" /\ Char(s, brace) \notin {"EOF", "}"} => entry = Thrown
           /\ c = "$" /\ c1 = "{" /\ Char(s, brace) = "}" =>
                 entry = WithInterpolant(SubSeq(s, j + 2, brace - 1), from[brace + 1])
           /\ c = "\\" /\ c1 # "EOF" /\ c1 \notin DOMAIN Escapes => entry = Thrown
           /\ c = "\\" /\ c1 \in DOMAIN Escapes =>
                 entry = WithPlain(Escapes[c1], from[j + 2])
           /\ c \notin {first, "EOF", "$", "\\"} => entry = WithPlain(<<c>>, from[j + 1])
<1> DEFINE c == Char(s, j)
           c1 == Char(s, j + 1)
           brace == RunEnd(s, j + 2, InterpolantChars)
           entry == StringEntry(s, j, first, from)
           z == Char(s, brace)
           whole == Token("STRING", <<>>, j + 1)
           mention == WithInterpolant(SubSeq(s, j + 2, brace - 1), from[brace + 1])
           escaped == WithPlain(Escapes[c1], from[j + 2])
           plain == WithPlain(<<c>>, from[j + 1])
           E == DOMAIN Escapes
<1>1. entry = CASE c = first -> whole
                [] c = "EOF" -> CutOff
                [] c = "$" ->
                      IF c1 = "EOF" THEN CutOff
                      ELSE IF c1 # "{" THEN Thrown
                      ELSE IF z = "EOF" THEN CutOff
                      ELSE IF z # "}" THEN Thrown
                      ELSE mention
                [] c = "\\" ->
                      IF c1 = "EOF" THEN CutOff
                      ELSE IF c1 \notin E THEN Thrown
                      ELSE escaped
                [] OTHER -> plain
  BY DEF StringEntry
<1>2. first \notin {"EOF", "$", "\\"} /\ "EOF" \notin E
  BY NoEndWithin, EscapesAreChars
<1> HIDE DEF c, c1, entry, z, whole, mention, escaped, plain, E
<1>3. /\ c = first => entry = whole
      /\ c = "EOF" => entry = CutOff
      /\ c \notin {first, "EOF", "$", "\\"} => entry = plain
  BY <1>1, <1>2
<1>4. /\ c = "$" /\ c1 = "EOF" => entry = CutOff
      /\ c = "$" /\ c1 \notin {"EOF", "{"} => entry = Thrown
      /\ c = "$" /\ c1 = "{" /\ z = "EOF" => entry = CutOff
      /\ c = "$" /\ c1 = "{" /\ z \notin {"EOF", "}"} => entry = Thrown
      /\ c = "$" /\ c1 = "{" /\ z = "}" => entry = mention
  BY <1>1, <1>2
<1>5. /\ c = "\\" /\ c1 = "EOF" => entry = CutOff
      /\ c = "\\" /\ c1 # "EOF" /\ c1 \notin E => entry = Thrown
      /\ c = "\\" /\ c1 \in E => entry = escaped
  BY <1>1, <1>2
<1> QED
  BY <1>3, <1>4, <1>5 DEF c, c1, entry, z, whole, mention, escaped, plain, E

LEMMA PlainlySame ==
    ASSUME NEW d \in Nat
    PROVE  /\ SameToken(CutOff, CutOff, d) /\ CutOff.end = 0
           /\ SameToken(Thrown, Thrown, d) /\ Thrown.end = 0
           /\ \A n \in Nat \ {0} : \A type, value :
                 SameToken(Token(type, value, n), Token(type, value, n + d), d)
  BY DEF SameToken, CutOff, Thrown, Token, Moved

LEMMA GapsApart ==
    /\ Gaps \cap InterpolantChars = {} /\ Gaps \cap IdentChars = {}
    /\ Gaps \cap NumIdChars = {} /\ Gaps \cap HexDigits = {}
    /\ "{" \notin Gaps /\ "x" \notin Gaps /\ "EOF" \in Gaps
<1> DEFINE marks == {"$", "_", "-", "+", "."}
<1>1. Gaps \subseteq Blanks \cup Punctuation \cup {"EOF"}
  BY DEF Gaps, Blanks, Punctuation
<1>2. Gaps \cap Letters = {}
  <2>1. Letters \cap (Blanks \cup Punctuation \cup {"EOF"}) = {}
    BY LexerAssumption
  <2> QED
    BY <1>1, <2>1
<1> DEFINE hex == Digits \cup {"a", "b", "c", "d", "e", "f"}
<1>3. Gaps \cap hex = {} /\ Gaps \cap marks = {}
      /\ "{" \notin Gaps /\ "x" \notin Gaps /\ "EOF" \in Gaps
  <2>1. Gaps \cap hex = {}
    <3> SUFFICES ASSUME NEW g \in Gaps, g \in hex
                 PROVE  FALSE
      OBVIOUS
    <3>1. \/ g \in {"0", "1", "2", "3", "4"} \/ g \in {"5", "6", "7", "8", "9"}
          \/ g \in {"a", "b", "c", "d", "e", "f"}
      BY DEF Digits
    <3>2. g \in {"EOF", " ", "/"}
      BY DEF Gaps
    <3> HIDE DEF hex
    <3> QED
      BY ONLY <3>1, <3>2, ZenonT(60)
  <2>2. Gaps \cap marks = {} /\ "{" \notin Gaps /\ "x" \notin Gaps /\ "EOF" \in Gaps
    BY DEF Gaps
  <2> QED
    BY <2>1, <2>2
<1>4. HexDigits \subseteq hex /\ Digits \subseteq hex
  BY DEF HexDigits, DigitsInOrder, Digits
<1> HIDE DEF hex
<1>5. Gaps \cap Digits = {} /\ Gaps \cap HexDigits = {}
  BY <1>3, <1>4
<1> QED
  BY <1>2, <1>3, <1>5
    DEF InterpolantChars, IdentChars, IdentInitChars, NumIdChars, NumIdInitChars

\* An interpolant after the dollar sign at j.
LEMMA BraceAlike ==
    ASSUME NEW D, NEW s \in Seq(D), NEW t \in Seq(D), NEW m \in Nat, m # 0, NEW d \in Nat,
           GoesOn(s, t, m, d), NEW j \in 1..Len(s), j >= m, Char(s, j + 1) # "EOF"
    PROVE  LET i      == j + d
               brace  == RunEnd(s, j + 2, InterpolantChars)
               braceT == RunEnd(t, i + 2, InterpolantChars)
               part   == SubSeq(s, j + 2, brace - 1)
           IN  /\ j + 1 \in 1..Len(s) /\ Char(s, j + 1) \in D /\ part \in Seq(D)
               /\ SubSeq(t, i + 2, braceT - 1) = part
               /\ brace + 1 \in Nat /\ brace + 1 > j
               /\ braceT + 1 = (brace + 1) + d
               /\ \/ Char(t, braceT) = Char(s, brace)
                  \/ Char(s, brace) = "EOF" /\ ~EndsTo(s, t, d)
<1> DEFINE C == InterpolantChars
           i == j + d
           k == j + 2
           brace == RunEnd(s, k, C)
           braceT == RunEnd(t, i + 2, C)
           part == SubSeq(s, k, brace - 1)
<1>1. /\ Len(s) \in Nat /\ j \in Nat /\ j + 1 \in Nat /\ (j + 1) + 1 = k
      /\ k \in Nat /\ k >= m /\ i + 2 = k + d /\ j < k
  OBVIOUS
<1>2. j + 1 \in 1..Len(s) /\ Char(s, j + 1) \in D
  BY <1>1, CharLooks
<1>3. Gaps \cap C = {} /\ "EOF" \notin C
  BY GapsApart, NoEndWithin
<1> HIDE DEF C, i, k
<1>4. brace \in k..(Len(s) + 1) /\ part \in Seq(D)
  <2>1. /\ RunEnd(s, (j + 1) + 1, C) \in ((j + 1) + 1)..(Len(s) + 1)
        /\ SubSeq(s, (j + 1) + 1, RunEnd(s, (j + 1) + 1, C) - 1) \in Seq(D)
    BY <1>1, <1>3, BraceLooks
  <2> QED
    BY <1>1, <2>1
<1>5. k <= Len(s) + 1
  BY <1>1, <1>4
<1>6. RunEnd(t, k + d, C) = RunEnd(s, k, C) + d
  BY <1>1, <1>3, <1>5, RunAlike
<1> HIDE DEF brace
<1>7. /\ brace \in Nat /\ brace >= m /\ brace <= Len(s) + 1
      /\ brace + 1 \in Nat /\ brace + 1 > j
      /\ (brace + d) + 1 = (brace + 1) + d
  BY <1>1, <1>4
<1>8. SubSeq(t, k + d, (brace + d) - 1) = SubSeq(s, k, brace - 1)
  BY <1>1, <1>7, PartAlike
<1>9. \/ Char(t, brace + d) = Char(s, brace)
      \/ Char(s, brace) = "EOF" /\ ~EndsTo(s, t, d)
  <2>1. CASE brace \in 1..Len(s)
    BY <1>7, <2>1, Alike
  <2>2. CASE brace \notin 1..Len(s)
    <3>1. Char(s, brace) = "EOF" /\ (EndsTo(s, t, d) => Char(t, brace + d) = "EOF")
      BY <1>7, <2>2, Alike
    <3> QED
      BY <3>1
  <2> QED
    BY <2>1, <2>2
<1>10. braceT = brace + d
  BY <1>1, <1>6 DEF brace
<1>11. SubSeq(t, i + 2, braceT - 1) = part
  BY <1>1, <1>8, <1>10
<1>12. Char(t, braceT) = Char(s, brace) \/ (Char(s, brace) = "EOF" /\ ~EndsTo(s, t, d))
  BY <1>9, <1>10
<1> HIDE DEF part, braceT
<1>13. braceT + 1 = (brace + 1) + d
  BY <1>7, <1>10
<1> QED
  BY <1>2, <1>4, <1>7, <1>11, <1>12, <1>13 DEF C, i, k, brace, braceT, part

LEMMA StringStep ==
    ASSUME NEW D, "\n" \in D, NEW s \in Seq(D), NEW t \in Seq(D),
           NEW m \in Nat, m # 0, NEW d \in Nat, GoesOn(s, t, m, d),
           NEW j \in 1..Len(s), j >= m, NEW first \in Quotes, NEW a, NEW b,
           \A l \in Nat : a[l] \in StringTokens(D) /\ b[l] \in StringTokens(D),
           a[j] = StringEntry(s, j, first, a), b[j + d] = StringEntry(t, j + d, first, b),
           \A l \in Nat : l > j => StringsAlike(s, t, a, b, d, l)
    PROVE  StringsAlike(s, t, a, b, d, j)
<1> DEFINE ends == EndsTo(s, t, d)
           n == Len(s)
           i == j + d
           c == Char(s, j)
           c1 == Char(s, j + 1)
           y1 == Char(t, i + 1)
           brace == RunEnd(s, j + 2, InterpolantChars)
           braceT == RunEnd(t, i + 2, InterpolantChars)
           z == Char(s, brace)
           zT == Char(t, braceT)
           part == SubSeq(s, j + 2, brace - 1)
<1>1. /\ j \in Nat /\ n \in Nat /\ j # 0 /\ i \in Nat /\ i # 0 /\ j + 1 \in Nat /\ j + 1 > j
      /\ j + 2 \in Nat /\ j + 2 > j /\ j + 2 >= m /\ (j + 1) + 1 = j + 2
      /\ i + 1 = (j + 1) + d /\ i + 2 = (j + 2) + d /\ j + 1 # 0
  OBVIOUS
<1>2. Char(t, i) = c /\ (c # "EOF" => c \in D /\ <<c>> \in Seq(D))
  <2>1. Char(t, i) = c
    BY <1>1, Alike
  <2>2. c # "EOF" => c \in D /\ <<c>> \in Seq(D)
    BY <1>1, CharLooks
  <2> QED
    BY <2>1, <2>2
<1>3. y1 = c1 \/ (j = n /\ ~ends /\ c1 = "EOF")
  BY NextAlike
<1>4. c1 # "EOF" => /\ j + 1 \in 1..n /\ c1 \in D /\ part \in Seq(D)
                    /\ SubSeq(t, i + 2, braceT - 1) = part
                    /\ brace + 1 \in Nat /\ brace + 1 > j
                    /\ braceT + 1 = (brace + 1) + d
                    /\ zT = z \/ (z = "EOF" /\ ~ends)
  BY BraceAlike, ZenonT(40)
<1> DEFINE u == a[j]
           v == b[i]
<1>6. /\ c = first => u = Token("STRING", <<>>, j + 1)
      /\ c = "EOF" => u = CutOff
      /\ c \in {"$", "\\"} /\ c1 = "EOF" => u = CutOff
      /\ c = "$" /\ c1 \notin {"EOF", "{"} => u = Thrown
      /\ c = "$" /\ c1 = "{" /\ z = "EOF" => u = CutOff
      /\ c = "$" /\ c1 = "{" /\ z \notin {"EOF", "}"} => u = Thrown
      /\ c = "$" /\ c1 = "{" /\ z = "}" => u = WithInterpolant(part, a[brace + 1])
      /\ c = "\\" /\ c1 # "EOF" /\ c1 \notin DOMAIN Escapes => u = Thrown
      /\ c = "\\" /\ c1 \in DOMAIN Escapes => u = WithPlain(Escapes[c1], a[j + 2])
      /\ c \notin {first, "EOF", "$", "\\"} => u = WithPlain(<<c>>, a[j + 1])
  BY StringCases, ZenonT(40)
<1>7. /\ c = first => v = Token("STRING", <<>>, i + 1)
      /\ c = "EOF" => v = CutOff
      /\ c \in {"$", "\\"} /\ y1 = "EOF" => v = CutOff
      /\ c = "$" /\ y1 \notin {"EOF", "{"} => v = Thrown
      /\ c = "$" /\ y1 = "{" /\ zT = "EOF" => v = CutOff
      /\ c = "$" /\ y1 = "{" /\ zT \notin {"EOF", "}"} => v = Thrown
      /\ c = "$" /\ y1 = "{" /\ zT = "}" =>
            v = WithInterpolant(SubSeq(t, i + 2, braceT - 1), b[braceT + 1])
      /\ c = "\\" /\ y1 # "EOF" /\ y1 \notin DOMAIN Escapes => v = Thrown
      /\ c = "\\" /\ y1 \in DOMAIN Escapes => v = WithPlain(Escapes[y1], b[i + 2])
      /\ c \notin {first, "EOF", "$", "\\"} => v = WithPlain(<<c>>, b[i + 1])
  <2> DEFINE y == Char(t, i)
             w == StringEntry(t, i, first, b)
  <2> HIDE DEF i
  <2>1. /\ y = first => w = Token("STRING", <<>>, i + 1)
        /\ y = "EOF" => w = CutOff
        /\ y \in {"$", "\\"} /\ y1 = "EOF" => w = CutOff
        /\ y = "$" /\ y1 \notin {"EOF", "{"} => w = Thrown
        /\ y = "$" /\ y1 = "{" /\ zT = "EOF" => w = CutOff
        /\ y = "$" /\ y1 = "{" /\ zT \notin {"EOF", "}"} => w = Thrown
        /\ y = "$" /\ y1 = "{" /\ zT = "}" =>
              w = WithInterpolant(SubSeq(t, i + 2, braceT - 1), b[braceT + 1])
        /\ y = "\\" /\ y1 # "EOF" /\ y1 \notin DOMAIN Escapes => w = Thrown
        /\ y = "\\" /\ y1 \in DOMAIN Escapes => w = WithPlain(Escapes[y1], b[i + 2])
        /\ y \notin {first, "EOF", "$", "\\"} => w = WithPlain(<<y>>, b[i + 1])
    BY StringCases, ZenonT(40)
  <2>2. y = c /\ v = w
    BY <1>2 DEF i
  <2> HIDE DEF y, w, c, v
  <2> QED
    BY <2>1, <2>2
<1>8. ASSUME NEW l \in Nat, l > j, NEW chars \in Seq(D)
      PROVE  /\ ends \/ WithPlain(chars, a[l]).end # 0 =>
                   SameToken(WithPlain(chars, a[l]), WithPlain(chars, b[l + d]), d)
             /\ ends \/ WithInterpolant(chars, a[l]).end # 0 =>
                   SameToken(WithInterpolant(chars, a[l]), WithInterpolant(chars, b[l + d]), d)
  <2> DEFINE e == a[l]
             f == b[l + d]
  <2>1. e \in StringTokens(D) /\ f \in StringTokens(D)
    <3>1. l + d \in Nat
      OBVIOUS
    <3> QED
      BY <3>1
  <2>2. ends \/ e.end # 0 => SameToken(e, f, d)
    BY <1>8 DEF StringsAlike
  <2> HIDE DEF e, f
  <2>3. WithPlain(chars, e).end = e.end /\ WithInterpolant(chars, e).end = e.end
    BY <2>1, WithPlainIs, WithInterpolantIs
  <2>4. SameToken(e, f, d) => /\ SameToken(WithPlain(chars, e), WithPlain(chars, f), d)
                              /\ SameToken(WithInterpolant(chars, e), WithInterpolant(chars, f), d)
    BY <2>1, WithSame
  <2>5. /\ ends \/ WithPlain(chars, e).end # 0 =>
                 SameToken(WithPlain(chars, e), WithPlain(chars, f), d)
        /\ ends \/ WithInterpolant(chars, e).end # 0 =>
                 SameToken(WithInterpolant(chars, e), WithInterpolant(chars, f), d)
    <3> HIDE DEF ends
    <3> QED
      BY <2>2, <2>3, <2>4
  <2> QED
    BY <2>5 DEF e, f
<1> SUFFICES ASSUME ends \/ u.end # 0
             PROVE  SameToken(u, v, d)
  BY DEF StringsAlike
<1>9. /\ SameToken(CutOff, CutOff, d) /\ CutOff.end = 0
      /\ SameToken(Thrown, Thrown, d) /\ Thrown.end = 0
      /\ SameToken(Token("STRING", <<>>, j + 1), Token("STRING", <<>>, i + 1), d)
  <2>1. j + 1 \in Nat \ {0} /\ i + 1 = (j + 1) + d
    BY <1>1
  <2> QED
    BY <2>1, PlainlySame
<1>10. ASSUME c1 # "EOF"
       PROVE  /\ ends \/ WithInterpolant(part, a[brace + 1]).end # 0 =>
                   SameToken(WithInterpolant(part, a[brace + 1]),
                             WithInterpolant(part, b[braceT + 1]), d)
              /\ SubSeq(t, i + 2, braceT - 1) = part
  <2> DEFINE l == brace + 1
  <2>1. l \in Nat /\ l > j /\ part \in Seq(D) /\ braceT + 1 = l + d
        /\ SubSeq(t, i + 2, braceT - 1) = part
    BY <1>4, <1>10
  <2> HIDE DEF l, part, braceT, ends
  <2> QED
    BY <1>8, <2>1 DEF l
<1>11. ASSUME c1 \in DOMAIN Escapes
       PROVE  ends \/ WithPlain(Escapes[c1], a[j + 2]).end # 0 =>
                   SameToken(WithPlain(Escapes[c1], a[j + 2]),
                             WithPlain(Escapes[c1], b[i + 2]), d)
  <2> DEFINE chars == Escapes[c1]
  <2>1. chars \in Seq(D)
    <3>1. c1 \in D
      BY <1>4, <1>11, EscapesAreChars
    <3> QED
      BY <1>11, <3>1, EscapeIs
  <2> HIDE DEF chars, ends, i
  <2>2. ends \/ WithPlain(chars, a[j + 2]).end # 0 =>
           SameToken(WithPlain(chars, a[j + 2]), WithPlain(chars, b[(j + 2) + d]), d)
    BY <1>1, <1>8, <2>1
  <2>3. b[(j + 2) + d] = b[i + 2]
    BY <1>1
  <2> QED
    BY <2>2, <2>3 DEF chars
<1>12. c # "EOF" =>
         (ends \/ WithPlain(<<c>>, a[j + 1]).end # 0 =>
             SameToken(WithPlain(<<c>>, a[j + 1]), WithPlain(<<c>>, b[i + 1]), d))
  <2> DEFINE chars == <<c>>
  <2> SUFFICES ASSUME c # "EOF"
               PROVE  ends \/ WithPlain(chars, a[j + 1]).end # 0 =>
                         SameToken(WithPlain(chars, a[j + 1]), WithPlain(chars, b[i + 1]), d)
    OBVIOUS
  <2>1. chars \in Seq(D)
    BY <1>2
  <2> HIDE DEF chars, ends, i
  <2>2. ends \/ WithPlain(chars, a[j + 1]).end # 0 =>
           SameToken(WithPlain(chars, a[j + 1]), WithPlain(chars, b[(j + 1) + d]), d)
    BY <1>1, <1>8, <2>1
  <2>3. b[(j + 1) + d] = b[i + 1]
    BY <1>1
  <2> QED
    BY <2>2, <2>3
<1>13. first \notin {"EOF", "$", "\\"} /\ "EOF" \notin DOMAIN Escapes
  BY NoEndWithin, EscapesAreChars
<1> HIDE DEF ends, i, c, c1, y1, brace, braceT, z, zT, part, u, v, n
<1>14. CASE c = first \/ c = "EOF"
  BY <1>6, <1>7, <1>9, <1>14
<1>15. CASE c \in {"$", "\\"} /\ c1 = "EOF"
  <2>1. u = CutOff /\ ends
    BY <1>6, <1>9, <1>15
  <2>2. v = CutOff
    BY <1>3, <1>7, <1>15, <2>1
  <2> QED
    BY <1>9, <2>1, <2>2
<1>16. CASE c = "$" /\ c1 # "EOF"
  <2>1. y1 = c1
    BY <1>3, <1>16
  <2>2. CASE c1 # "{"
    <3>1. u = Thrown /\ v = Thrown
      BY <1>6, <1>7, <1>16, <2>1, <2>2
    <3> QED
      BY <1>9, <3>1
  <2>3. CASE c1 = "{" /\ z = "EOF"
    <3>1. u = CutOff /\ ends
      BY <1>6, <1>9, <1>16, <2>3
    <3>2. zT = z
      BY <1>4, <1>16, <3>1
    <3>3. v = CutOff
      BY <1>7, <1>16, <2>1, <2>3, <3>2
    <3> QED
      BY <1>9, <3>1, <3>3
  <2>4. CASE c1 = "{" /\ z # "EOF"
    <3>1. zT = z
      BY <1>4, <1>16, <2>4
    <3>2. CASE z # "}"
      <4>1. u = Thrown /\ v = Thrown
        BY <1>6, <1>7, <1>16, <2>1, <2>4, <3>1, <3>2
      <4> QED
        BY <1>9, <4>1
    <3>3. CASE z = "}"
      <4>1. u = WithInterpolant(part, a[brace + 1])
        BY <1>6, <1>16, <2>4, <3>3
      <4>2. v = WithInterpolant(part, b[braceT + 1])
        BY <1>7, <1>10, <1>16, <2>1, <2>4, <3>1, <3>3
      <4> QED
        BY <1>10, <1>16, <4>1, <4>2
    <3> QED
      BY <3>2, <3>3
  <2> QED
    BY <2>2, <2>3, <2>4
<1>17. CASE c = "\\" /\ c1 # "EOF"
  <2>1. y1 = c1
    BY <1>3, <1>17
  <2>2. CASE c1 \notin DOMAIN Escapes
    <3>1. u = Thrown /\ v = Thrown
      BY <1>6, <1>7, <1>17, <2>1, <2>2
    <3> QED
      BY <1>9, <3>1
  <2>3. CASE c1 \in DOMAIN Escapes
    <3>1. u = WithPlain(Escapes[c1], a[j + 2])
      BY <1>6, <1>17, <2>3
    <3>2. v = WithPlain(Escapes[c1], b[i + 2])
      BY <1>7, <1>17, <2>1, <2>3
    <3> QED
      BY <1>11, <2>3, <3>1, <3>2
  <2> QED
    BY <2>2, <2>3
<1>18. CASE c \notin {first, "EOF", "$", "\\"}
  <2>1. u = WithPlain(<<c>>, a[j + 1]) /\ v = WithPlain(<<c>>, b[i + 1])
    BY <1>6, <1>7, <1>18
  <2> QED
    BY <1>12, <1>18, <2>1
<1> QED
  BY <1>14, <1>15, <1>16, <1>17, <1>18

LEMMA StringAlike ==
    ASSUME NEW D, "\n" \in D, NEW s \in Seq(D), NEW t \in Seq(D),
           NEW m \in Nat, m # 0, NEW d \in Nat, GoesOn(s, t, m, d),
           NEW k \in Nat, k >= m, NEW first \in Quotes,
           EndsTo(s, t, d) \/ StringFrom(s, k, first).end # 0
    PROVE  SameToken(StringFrom(s, k, first), StringFrom(t, k + d, first), d)
<1>0. ASSUME NEW j \in Nat, j >= m
      PROVE  /\ j + d \in Nat
             /\ \A l \in Nat : l > j => l >= m
             /\ j \notin 1..Len(s) =>
                   Char(s, j) = "EOF" /\ (EndsTo(s, t, d) => Char(t, j + d) = "EOF")
  <2>1. j \notin 1..Len(s) =>
           Char(s, j) = "EOF" /\ (EndsTo(s, t, d) => Char(t, j + d) = "EOF")
    BY <1>0, Alike
  <2> QED
    BY <1>0, <2>1
<1>1. PICK a \in [Nat -> StringTokens(D)] :
              /\ \A j : StringFrom(s, j, first) = a[j]
              /\ \A j \in Nat : a[j] = StringEntry(s, j, first, a)
  BY StringTable
<1>2. PICK b \in [Nat -> StringTokens(D)] :
              /\ \A j : StringFrom(t, j, first) = b[j]
              /\ \A j \in Nat : b[j] = StringEntry(t, j, first, b)
  BY StringTable
<1>3. \A l \in Nat : a[l] \in StringTokens(D) /\ b[l] \in StringTokens(D)
  OBVIOUS
<1> DEFINE T == {j \in Nat : j >= m => StringsAlike(s, t, a, b, d, j)}
<1>4. ASSUME NEW j \in Nat, j \in 1..Len(s) => \A l \in Nat : l = 0 \/ l > j => l \in T
      PROVE  j \in T
  <2> SUFFICES ASSUME j >= m
               PROVE  StringsAlike(s, t, a, b, d, j)
    OBVIOUS
  <2>1. j + d \in Nat
    BY <1>0
  <2>2. CASE j \in 1..Len(s)
    <3>1. \A l \in Nat : l > j => StringsAlike(s, t, a, b, d, l)
      BY <1>0, <1>4, <2>2
    <3>2. a[j] = StringEntry(s, j, first, a) /\ b[j + d] = StringEntry(t, j + d, first, b)
      BY <1>1, <1>2, <2>1
    <3> HIDE DEF T
    <3> QED
      BY <1>3, <2>2, <3>1, <3>2, StringStep
  <2>3. CASE j \notin 1..Len(s)
    <3>1. Char(s, j) = "EOF" /\ (EndsTo(s, t, d) => Char(t, j + d) = "EOF")
      BY <1>0, <2>3
    <3>2. a[j] = CutOff /\ (EndsTo(s, t, d) => b[j + d] = CutOff)
      <4>1. StringEntry(s, j, first, a) = CutOff
        BY <3>1, StringCases
      <4>2. EndsTo(s, t, d) => StringEntry(t, j + d, first, b) = CutOff
        BY <3>1, StringCases
      <4> QED
        BY <1>1, <1>2, <2>1, <4>1, <4>2
    <3>3. SameToken(CutOff, CutOff, d) /\ CutOff.end = 0
      BY PlainlySame
    <3> QED
      BY <3>2, <3>3 DEF StringsAlike
  <2> QED
    BY <2>2, <2>3
<1>5. Nat \subseteq T
  <2> HIDE DEF T
  <2>1. Len(s) \in Nat
    OBVIOUS
  <2> QED
    BY <1>4, <2>1, ForwardInduction
<1>6. StringsAlike(s, t, a, b, d, k)
  BY <1>5
<1> QED
  BY <1>1, <1>2, <1>6 DEF StringsAlike

LEMMA CharsAlike ==
    ASSUME NEW D, NEW s \in Seq(D), NEW t \in Seq(D), NEW m \in Nat, m # 0, NEW d \in Nat,
           GoesOn(s, t, m, d), NEW C, Gaps \cap C = {},
           NEW j \in Nat, j >= m, NEW k \in Nat, k >= m, k <= Len(s) + 1
    PROVE  RunsAlike(s, t, d, C, j, k)
<1> DEFINE e == RunEnd(s, k, C)
<1>1. e \in k..(Len(s) + 1)
  <2>1. k \in 1..(Len(s) + 1)
    OBVIOUS
  <2>2. "EOF" \notin C
    BY GapsApart
  <2> QED
    BY <2>1, <2>2, RunEndFacts
<1>2. RunEnd(t, k + d, C) = e + d
  BY RunAlike
<1> HIDE DEF e
<1>3. e \in Nat \ {0} /\ e \in Nat /\ e <= Len(s) + 1
  BY <1>1
<1>4. SubSeq(t, j + d, (e + d) - 1) = SubSeq(s, j, e - 1)
  BY <1>3, PartAlike
<1> QED
  BY <1>2, <1>3, <1>4 DEF e, RunsAlike

LEMMA NumIdAlike ==
    ASSUME NEW D, NEW s \in Seq(D), NEW t \in Seq(D), NEW m \in Nat, m # 0, NEW d \in Nat,
           GoesOn(s, t, m, d), NEW j \in 1..Len(s), j >= m
    PROVE  SameToken(NumId(s, j), NumId(t, j + d), d)
<1> DEFINE k == j + 1
           e == RunEnd(s, k, NumIdChars)
           chars == SubSeq(s, j, e - 1)
           i == j + d
           eT == RunEnd(t, i + 1, NumIdChars)
<1>1. j \in Nat /\ k \in Nat /\ k >= m /\ k <= Len(s) + 1 /\ i + 1 = k + d
  OBVIOUS
<1>2. NumId(s, j) = IF IsInt(chars) THEN Token("INT", IntLiteral(chars), e)
                    ELSE IF IsDouble(chars) THEN Token("DOUBLE", DoubleOf(chars), e)
                    ELSE Token("NUMID", chars, e)
  BY DEF NumId
<1>3. NumId(t, i) = LET charsT == SubSeq(t, i, eT - 1)
                    IN  IF IsInt(charsT) THEN Token("INT", IntLiteral(charsT), eT)
                        ELSE IF IsDouble(charsT) THEN Token("DOUBLE", DoubleOf(charsT), eT)
                        ELSE Token("NUMID", charsT, eT)
  BY DEF NumId
<1> HIDE DEF k
<1>4. /\ e \in Nat \ {0} /\ RunEnd(t, k + d, NumIdChars) = e + d
      /\ SubSeq(t, j + d, RunEnd(t, k + d, NumIdChars) - 1) = chars
  <2> DEFINE C == NumIdChars
  <2>1. Gaps \cap C = {}
    BY GapsApart
  <2> HIDE DEF C
  <2>2. RunsAlike(s, t, d, C, j, k)
    BY <1>1, <2>1, CharsAlike
  <2> QED
    BY <2>2 DEF C, RunsAlike
<1>5. eT = e + d /\ SubSeq(t, i, eT - 1) = chars
  BY <1>1, <1>4
<1> HIDE DEF i, e, eT, chars
<1>6. NumId(t, i) = IF IsInt(chars) THEN Token("INT", IntLiteral(chars), e + d)
                    ELSE IF IsDouble(chars) THEN Token("DOUBLE", DoubleOf(chars), e + d)
                    ELSE Token("NUMID", chars, e + d)
  BY <1>3, <1>5
<1>7. SameToken(NumId(s, j), NumId(t, i), d)
  BY <1>2, <1>4, <1>6, PlainlySame
<1> QED
  BY <1>7 DEF i

LEMMA IdentAlike ==
    ASSUME NEW D, NEW s \in Seq(D), NEW t \in Seq(D), NEW m \in Nat, m # 0, NEW d \in Nat,
           GoesOn(s, t, m, d), NEW j \in 1..Len(s), j >= m
    PROVE  /\ SameToken(Ident(s, j), Ident(t, j + d), d)
           /\ SameToken(Command(s, j), Command(t, j + d), d)
<1> DEFINE k == j + 1
           e == RunEnd(s, k, IdentChars)
           chars == SubSeq(s, j, e - 1)
           i == j + d
           eT == RunEnd(t, i + 1, IdentChars)
<1>1. j \in Nat /\ k \in Nat /\ k >= m /\ k <= Len(s) + 1 /\ i + 1 = k + d
  OBVIOUS
<1>2. Ident(s, j) = Token("IDENT", chars, e) /\ Ident(t, i) = Token("IDENT", SubSeq(t, i, eT - 1), eT)
  BY DEF Ident
<1> HIDE DEF k
<1>4. /\ e \in Nat \ {0} /\ RunEnd(t, k + d, IdentChars) = e + d
      /\ SubSeq(t, j + d, RunEnd(t, k + d, IdentChars) - 1) = chars
  <2> DEFINE C == IdentChars
  <2>1. Gaps \cap C = {}
    BY GapsApart
  <2> HIDE DEF C
  <2>2. RunsAlike(s, t, d, C, j, k)
    BY <1>1, <2>1, CharsAlike
  <2> QED
    BY <2>2 DEF C, RunsAlike
<1>5. eT = e + d /\ SubSeq(t, i, eT - 1) = chars
  BY <1>1, <1>4
<1> HIDE DEF i, e, eT, chars
<1>6. Ident(t, i) = Token("IDENT", chars, e + d)
  BY <1>2, <1>5
<1>7. /\ Ident(s, j).value = chars /\ Ident(t, i).value = chars
      /\ Ident(s, j).end = e /\ Ident(t, i).end = e + d
  BY <1>2, <1>6 DEF Token
<1>8. SameToken(Ident(s, j), Ident(t, i), d)
  BY <1>2, <1>4, <1>6, PlainlySame
<1>9. SameToken(Command(s, j), Command(t, i), d)
  <2>1. CASE Len(chars) = 2 /\ chars[2] \in DOMAIN Commands
    <3>1. /\ Command(s, j) = Token(Commands[chars[2]], <<>>, e)
          /\ Command(t, i) = Token(Commands[chars[2]], <<>>, e + d)
      BY <1>7, <2>1 DEF Command
    <3> QED
      BY <1>4, <3>1, PlainlySame
  <2>2. CASE ~(Len(chars) = 2 /\ chars[2] \in DOMAIN Commands)
    <3>1. Command(s, j) = Thrown /\ Command(t, i) = Thrown
      BY <1>7, <2>2 DEF Command
    <3> QED
      BY <3>1, PlainlySame
  <2> QED
    BY <2>1, <2>2
<1> QED
  BY <1>8, <1>9 DEF i

LEMMA HexAlike ==
    ASSUME NEW D, NEW s \in Seq(D), NEW t \in Seq(D), NEW m \in Nat, m # 0, NEW d \in Nat,
           GoesOn(s, t, m, d), NEW k \in Nat, k >= m, k <= Len(s) + 1
    PROVE  SameToken(HexLiteral(s, k), HexLiteral(t, k + d), d)
<1> DEFINE e == RunEnd(s, k, HexDigits)
           chars == SubSeq(s, k, e - 1)
           i == k + d
           eT == RunEnd(t, i, HexDigits)
           value(c) == Horner(16, c, Wrapped)
<1>1. /\ HexLiteral(s, k) = Token("INT", value(chars), e)
      /\ HexLiteral(t, i) = Token("INT", value(SubSeq(t, i, eT - 1)), eT)
  BY DEF HexLiteral
<1>2. e \in Nat \ {0} /\ eT = e + d /\ SubSeq(t, i, eT - 1) = chars
  <2> DEFINE C == HexDigits
  <2>1. Gaps \cap C = {}
    BY GapsApart
  <2> HIDE DEF C
  <2>2. RunsAlike(s, t, d, C, k, k)
    BY <2>1, CharsAlike
  <2> QED
    BY <2>2 DEF C, RunsAlike
<1> HIDE DEF e, eT, chars, i, value
<1>3. HexLiteral(t, i) = Token("INT", value(chars), e + d)
  BY <1>1, <1>2
<1>4. SameToken(HexLiteral(s, k), HexLiteral(t, i), d)
  BY <1>1, <1>2, <1>3, PlainlySame
<1> QED
  BY <1>4 DEF i

LEMMA TokenCases ==
    ASSUME NEW s, NEW p, p # 0
    PROVE  LET c     == Char(s, p)
               token == TokenAt(s, p)
           IN
           /\ c = "EOF" => token = Token("EOS", <<>>, 0)
           /\ c \in Punctuation => token = Token(c, <<>>, p + 1)
           /\ c = "@" => token = Command(s, p)
           /\ c \in Quotes => token = StringFrom(s, p + 1, c)
           /\ c \in NumIdInitChars /\ c = "0" /\ Char(s, p + 1) = "x" =>
                 token = HexLiteral(s, p + 2)
           /\ c \in NumIdInitChars /\ ~(c = "0" /\ Char(s, p + 1) = "x") => token = NumId(s, p)
           /\ c \in IdentInitChars => token = Ident(s, p)
           /\ c \notin {"EOF", "@"} \cup Punctuation \cup Quotes \cup NumIdInitChars
                        \cup IdentInitChars => token = Thrown
<1> DEFINE c == Char(s, p)
           token == TokenAt(s, p)
           hex == c = "0" /\ Char(s, p + 1) = "x"
           eos == Token("EOS", <<>>, 0)
           mark == Token(c, <<>>, p + 1)
           command == Command(s, p)
           string == StringFrom(s, p + 1, c)
           hexLiteral == HexLiteral(s, p + 2)
           numId == NumId(s, p)
           ident == Ident(s, p)
<1>1. token = CASE p = 0 -> CutOff
                [] p # 0 /\ c = "EOF" -> eos
                [] c \in Punctuation -> mark
                [] c = "@" -> command
                [] c \in Quotes -> string
                [] c \in NumIdInitChars -> IF hex THEN hexLiteral ELSE numId
                [] c \in IdentInitChars -> ident
                [] OTHER -> Thrown
  BY DEF TokenAt
<1>2. "EOF" \notin Punctuation \cup NumIdInitChars \cup IdentInitChars \cup Quotes \cup {"@"}
  BY EndIsNone, NoEndWithin DEF Punctuation, NumIdInitChars, NumIdChars, IdentChars
<1> HIDE DEF c, token, hex, eos, mark, command, string, hexLiteral, numId, ident
<1>3. /\ c = "EOF" => token = eos
      /\ c \in Punctuation => token = mark
  BY <1>1, <1>2, StartsApart
<1>4. c = "@" => token = command
  BY <1>1, <1>2, StartsApart
<1>5. c \in Quotes => token = string
  BY <1>1, <1>2, StartsApart
<1>6. /\ c \in NumIdInitChars /\ hex => token = hexLiteral
      /\ c \in NumIdInitChars /\ ~hex => token = numId
  BY <1>1, <1>2, StartsApart
<1>7. c \in IdentInitChars => token = ident
  BY <1>1, <1>2, StartsApart
<1>8. c \notin {"EOF", "@"} \cup Punctuation \cup Quotes \cup NumIdInitChars
                \cup IdentInitChars => token = Thrown
  BY <1>1
<1> QED
  BY <1>3, <1>4, <1>5, <1>6, <1>7, <1>8
    DEF c, token, hex, eos, mark, command, string, hexLiteral, numId, ident

LEMMA TokenAtAlike ==
    ASSUME NEW D, "\n" \in D, NEW s \in Seq(D), NEW t \in Seq(D),
           NEW m \in Nat, m # 0, NEW d \in Nat, GoesOn(s, t, m, d),
           NEW p \in Nat, p >= m, EndsTo(s, t, d) \/ TokenAt(s, p).end # 0
    PROVE  SameToken(TokenAt(s, p), TokenAt(t, p + d), d)
<1> DEFINE i == p + d
           c == Char(s, p)
           y == Char(t, i)
           hex == c = "0" /\ Char(s, p + 1) = "x"
           hexT == y = "0" /\ Char(t, i + 1) = "x"
           x == TokenAt(s, p)
           w == TokenAt(t, i)
<1> SUFFICES SameToken(x, w, d)
  OBVIOUS
<1>1. p # 0 /\ i # 0 /\ Len(s) \in Nat
  OBVIOUS
<1>2. /\ c = "EOF" => x = Token("EOS", <<>>, 0)
      /\ c \in Punctuation => x = Token(c, <<>>, p + 1)
      /\ c = "@" => x = Command(s, p)
      /\ c \in Quotes => x = StringFrom(s, p + 1, c)
      /\ c \in NumIdInitChars /\ hex => x = HexLiteral(s, p + 2)
      /\ c \in NumIdInitChars /\ ~hex => x = NumId(s, p)
      /\ c \in IdentInitChars => x = Ident(s, p)
      /\ c \notin {"EOF", "@"} \cup Punctuation \cup Quotes \cup NumIdInitChars
                   \cup IdentInitChars => x = Thrown
  BY <1>1, TokenCases
<1>3. /\ y = "EOF" => w = Token("EOS", <<>>, 0)
      /\ y \in Punctuation => w = Token(y, <<>>, i + 1)
      /\ y = "@" => w = Command(t, i)
      /\ y \in Quotes => w = StringFrom(t, i + 1, y)
      /\ y \in NumIdInitChars /\ hexT => w = HexLiteral(t, i + 2)
      /\ y \in NumIdInitChars /\ ~hexT => w = NumId(t, i)
      /\ y \in IdentInitChars => w = Ident(t, i)
      /\ y \notin {"EOF", "@"} \cup Punctuation \cup Quotes \cup NumIdInitChars
                   \cup IdentInitChars => w = Thrown
  <2> HIDE DEF i
  <2> QED
    BY <1>1, TokenCases
<1>4. SameToken(Token("EOS", <<>>, 0), Token("EOS", <<>>, 0), d)
      /\ Token("EOS", <<>>, 0).end = 0
  BY DEF SameToken, Token, Moved
<1>5. CASE c = "EOF" /\ y = "EOF"
  BY <1>2, <1>3, <1>4, <1>5
<1>6. CASE p \notin 1..Len(s)
  <2>1. c = "EOF" /\ (EndsTo(s, t, d) => y = "EOF")
    BY <1>6, Alike
  <2>2. EndsTo(s, t, d)
    <3>1. x.end = 0
      BY <1>2, <1>4, <2>1
    <3> QED
      BY <3>1
  <2> QED
    BY <1>5, <2>1, <2>2
<1>7. CASE p \in 1..Len(s)
  <2>1. y = c
    BY <1>7, Alike
  <2>2. hexT <=> hex
    <3>1. \/ Char(t, i + 1) = Char(s, p + 1)
          \/ Char(s, p + 1) = "EOF" /\ Char(t, i + 1) \in Gaps
      BY <1>7, NextAlike
    <3>2. "x" \notin Gaps
      BY GapsApart
    <3> HIDE DEF c, y, i
    <3> QED
      BY <2>1, <3>1, <3>2
  <2>3. /\ SameToken(NumId(s, p), NumId(t, i), d) /\ SameToken(Ident(s, p), Ident(t, i), d)
        /\ SameToken(Command(s, p), Command(t, i), d)
    BY <1>7, NumIdAlike, IdentAlike
  <2>4. SameToken(Token(c, <<>>, p + 1), Token(c, <<>>, i + 1), d)
    <3>1. p + 1 \in Nat \ {0} /\ i + 1 = (p + 1) + d
      OBVIOUS
    <3> HIDE DEF i, c
    <3> QED
      BY <3>1, PlainlySame
  <2>5. hex => SameToken(HexLiteral(s, p + 2), HexLiteral(t, i + 2), d)
    <3> SUFFICES ASSUME hex
                 PROVE  SameToken(HexLiteral(s, p + 2), HexLiteral(t, i + 2), d)
      OBVIOUS
    <3> DEFINE k == p + 2
    <3>1. k \in Nat /\ k >= m /\ i + 2 = k + d /\ p + 1 \in Nat
      OBVIOUS
    <3>2. k <= Len(s) + 1
      <4>1. p + 1 \in 1..Len(s)
        BY <3>1, CharLooks
      <4> QED
        BY <1>1, <4>1
    <3> HIDE DEF k
    <3>3. SameToken(HexLiteral(s, k), HexLiteral(t, k + d), d)
      BY <3>1, <3>2, HexAlike
    <3> QED
      BY <3>1, <3>3 DEF k
  <2>6. c \in Quotes /\ (EndsTo(s, t, d) \/ StringFrom(s, p + 1, c).end # 0) =>
           SameToken(StringFrom(s, p + 1, c), StringFrom(t, i + 1, c), d)
    <3> DEFINE k == p + 1
    <3>1. k \in Nat /\ k >= m /\ i + 1 = k + d
      OBVIOUS
    <3> HIDE DEF k, c
    <3>2. c \in Quotes /\ (EndsTo(s, t, d) \/ StringFrom(s, k, c).end # 0) =>
             SameToken(StringFrom(s, k, c), StringFrom(t, k + d, c), d)
      BY <3>1, StringAlike
    <3> QED
      BY <3>1, <3>2 DEF k
  <2>7. SameToken(Thrown, Thrown, d)
    BY PlainlySame
  <2>8. EndsTo(s, t, d) \/ x.end # 0
    OBVIOUS
  <2> HIDE DEF c, y, hex, hexT, x, w, i
  <2>9. CASE c \in Punctuation
    BY <1>2, <1>3, <2>1, <2>4, <2>9
  <2>10. CASE c = "@"
    BY <1>2, <1>3, <2>1, <2>3, <2>10
  <2>11. CASE c \in Quotes
    BY <1>2, <1>3, <2>1, <2>6, <2>8, <2>11
  <2>12. CASE c \in NumIdInitChars
    BY <1>2, <1>3, <2>1, <2>2, <2>3, <2>5, <2>12
  <2>13. CASE c \in IdentInitChars
    BY <1>2, <1>3, <2>1, <2>3, <2>13
  <2>14. CASE c = "EOF"
    BY <1>5, <2>1, <2>14 DEF c, y, x, w, i
  <2>15. CASE c \notin {"EOF", "@"} \cup Punctuation \cup Quotes \cup NumIdInitChars
                        \cup IdentInitChars
    BY <1>2, <1>3, <2>1, <2>7, <2>15
  <2> QED
    BY <2>9, <2>10, <2>11, <2>12, <2>13, <2>14, <2>15
<1> QED
  BY <1>6, <1>7

LEMMA NextTokenAlike ==
    ASSUME NEW D, "\n" \in D, NEW s \in Seq(D), NEW t \in Seq(D),
           NEW m \in Nat, m # 0, NEW d \in Nat, GoesOn(s, t, m, d),
           NEW k \in Nat, k >= m, Keeps(s, t, d, NextToken(s, k))
    PROVE  SameToken(NextToken(s, k), NextToken(t, k + d), d)
<1> DEFINE p == Skipped(s, k)
           x == TokenAt(s, p)
<1>1. p \in Nat /\ (p = 0 \/ p >= k) /\ k # 0 /\ Len(s) \in Nat
  <2>1. p \in Nat /\ (p = 0 \/ p >= k)
    BY SkippedIs
  <2> HIDE DEF p
  <2> QED
    BY <2>1
<1>2. TokenAt(s, 0) = CutOff /\ TokenAt(t, 0) = CutOff
  <2>1. Char(s, 0) = "EOF" /\ Char(t, 0) = "EOF"
    BY CharFacts
  <2>2. "EOF" \notin Punctuation \cup NumIdInitChars \cup IdentInitChars \cup Quotes \cup {"@"}
    BY EndIsNone, NoEndWithin DEF Punctuation, NumIdInitChars, NumIdChars, IdentChars
  <2> QED
    BY <2>1, <2>2 DEF TokenAt
<1>3. x = NextToken(s, k)
  BY DEF NextToken
<1>4. Reaches(s, t, d, p)
  <2>1. CASE EndsTo(s, t, d)
    BY <2>1 DEF Reaches
  <2>2. CASE x.end # 0 /\ ~(x.type = "/" /\ x.end = Len(s) + 1)
    <3> HIDE DEF p
    <3>1. p # 0
      BY <1>2, <2>2, PlainlySame
    <3>2. p \in 1..Len(s)
      <4> SUFFICES ASSUME p \notin 1..Len(s)
                   PROVE  FALSE
        OBVIOUS
      <4>1. Char(s, p) = "EOF"
        BY <1>1, CharFacts
      <4>2. x = Token("EOS", <<>>, 0)
        BY <3>1, <4>1, TokenCases
      <4> QED
        BY <2>2, <4>2 DEF Token
    <3>3. ~(p = Len(s) /\ Char(s, p) = "/")
      <4> SUFFICES ASSUME p = Len(s), Char(s, p) = "/"
                   PROVE  FALSE
        OBVIOUS
      <4>1. "/" \in Punctuation
        BY DEF Punctuation
      <4>2. x = Token("/", <<>>, p + 1)
        BY <3>1, <4>1, TokenCases
      <4>3. x.type = "/" /\ x.end = p + 1
        BY <4>2 DEF Token
      <4> QED
        BY <2>2, <4>3
    <3> QED
      BY <3>2, <3>3 DEF Reaches
  <2> QED
    BY <1>3, <2>1, <2>2 DEF Keeps
<1>5. Skipped(t, k + d) = Moved(p, d)
  BY <1>4, SkippedAlike
<1>6. NextToken(t, k + d) = TokenAt(t, Moved(p, d))
  BY <1>5 DEF NextToken
<1> HIDE DEF p
<1>7. CASE p = 0
  <2>1. x = CutOff /\ TokenAt(t, Moved(p, d)) = CutOff
    BY <1>2, <1>7 DEF Moved
  <2> HIDE DEF x
  <2> QED
    BY <1>3, <1>6, <2>1, PlainlySame
<1>8. CASE p # 0
  <2>1. p >= m /\ Moved(p, d) = p + d
    BY <1>1, <1>8 DEF Moved
  <2>2. EndsTo(s, t, d) \/ TokenAt(s, p).end # 0
    BY <1>3 DEF Keeps
  <2>3. SameToken(TokenAt(s, p), TokenAt(t, p + d), d)
    BY <1>1, <2>1, <2>2, TokenAtAlike
  <2> QED
    BY <1>3, <1>6, <2>1, <2>3
<1> QED
  BY <1>7, <1>8

LEMMA SaidCons ==
    ASSUME NEW X, NEW x \in X, NEW v \in Seq(X), NEW Y, NEW y \in Y, NEW w \in Seq(Y),
           x.type = y.type, x.value = y.value, Said(v) = Said(w)
    PROVE  Said(<<x>> \o v) = Said(<<y>> \o w)
<1> DEFINE a == <<x>> \o v
           b == <<y>> \o w
           pair(z) == <<z.type, z.value>>
<1>1. /\ DOMAIN v = 1..Len(v) /\ DOMAIN w = 1..Len(w) /\ Len(v) \in Nat /\ Len(w) \in Nat
      /\ DOMAIN a = 1..(Len(v) + 1) /\ DOMAIN b = 1..(Len(w) + 1)
      /\ a[1] = x /\ b[1] = y
      /\ \A k \in 1..Len(v) : a[k + 1] = v[k]
      /\ \A k \in 1..Len(w) : b[k + 1] = w[k]
  OBVIOUS
<1>2. Said(v) = [k \in DOMAIN v |-> pair(v[k])] /\ Said(w) = [k \in DOMAIN w |-> pair(w[k])]
      /\ Said(a) = [k \in DOMAIN a |-> pair(a[k])] /\ Said(b) = [k \in DOMAIN b |-> pair(b[k])]
  BY DEF Said
<1>3. pair(x) = pair(y)
  OBVIOUS
<1> HIDE DEF a, b, pair
<1>4. DOMAIN v = DOMAIN w
  <2>1. DOMAIN Said(v) = DOMAIN v /\ DOMAIN Said(w) = DOMAIN w
    BY <1>2
  <2> QED
    BY <2>1
<1>5. Len(v) = Len(w) /\ \A k \in 1..Len(v) : pair(v[k]) = pair(w[k])
  <2>1. Len(v) = Len(w)
    <3> DEFINE f == Len(v)
               g == Len(w)
    <3>1. f \in Nat /\ g \in Nat /\ 1..f = 1..g
      BY <1>1, <1>4
    <3> HIDE DEF f, g
    <3>2. (f # 0 => f \in 1..g) /\ (g # 0 => g \in 1..f)
      BY <3>1
    <3>3. f = g
      BY <3>1, <3>2
    <3> QED
      BY <3>3 DEF f, g
  <2>2. ASSUME NEW k \in 1..Len(v)
        PROVE  pair(v[k]) = pair(w[k])
    <3>1. Said(v)[k] = pair(v[k]) /\ Said(w)[k] = pair(w[k])
      BY <1>1, <1>2, <1>4
    <3> QED
      BY <3>1
  <2> QED
    BY <2>1, <2>2
<1>6. DOMAIN a = DOMAIN b
  BY <1>1, <1>5
<1>7. ASSUME NEW k \in DOMAIN a
      PROVE  pair(a[k]) = pair(b[k])
  <2>1. CASE k = 1
    BY <1>1, <1>3, <2>1
  <2>2. CASE k # 1
    <3>1. k - 1 \in 1..Len(v) /\ (k - 1) + 1 = k
      BY <1>1, <2>2
    <3>2. a[k] = v[k - 1] /\ b[k] = w[k - 1]
      BY <1>1, <1>5, <3>1
    <3> QED
      BY <1>5, <3>1, <3>2
  <2> QED
    BY <2>1, <2>2
<1>8. Said(a) = Said(b)
  BY <1>2, <1>6, <1>7
<1> QED
  BY <1>8 DEF a, b

\* The same is said from j on if it is after the token there, which is the same.
LEMMA SaysOn ==
    ASSUME NEW D, "\n" \in D, NEW s \in Seq(D), NEW t \in Seq(D), NEW j \in Nat, NEW i \in Nat,
           NEW d \in Nat, SameToken(NextToken(s, j), NextToken(t, i), d),
           NextToken(s, j).end # 0 =>
              Said(TokensFrom(s, NextToken(s, j).end)) = Said(TokensFrom(t, NextToken(t, i).end))
    PROVE  Said(TokensFrom(s, j)) = Said(TokensFrom(t, i))
<1> DEFINE x == NextToken(s, j)
           y == NextToken(t, i)
           v == IF x.end = 0 THEN <<>> ELSE TokensFrom(s, x.end)
           w == IF y.end = 0 THEN <<>> ELSE TokensFrom(t, y.end)
<1>1. x \in TokensOf(s) /\ y \in TokensOf(t) /\ x.end \in Nat /\ y.end \in Nat
  BY NextTokenIs DEF TokensOf
<1>2. TokensFrom(s, j) = <<x>> \o v /\ TokensFrom(t, i) = <<y>> \o w
  BY TokensFromIs
<1>3. x.type = y.type /\ x.value = y.value /\ y.end = Moved(x.end, d)
  BY DEF SameToken
<1>4. x.end # 0 => Said(TokensFrom(s, x.end)) = Said(TokensFrom(t, y.end))
  OBVIOUS
<1> HIDE DEF x, y
<1>5. (y.end = 0) <=> (x.end = 0)
  BY <1>1, <1>3 DEF Moved
<1>6. v \in Seq(TokensOf(s)) /\ w \in Seq(TokensOf(t))
  <2>1. x.end # 0 => TokensFrom(s, x.end) \in Seq(TokensOf(s))
    BY <1>1, TokensFromIs
  <2>2. y.end # 0 => TokensFrom(t, y.end) \in Seq(TokensOf(t))
    BY <1>1, TokensFromIs
  <2>3. <<>> \in Seq(TokensOf(s)) /\ <<>> \in Seq(TokensOf(t))
    OBVIOUS
  <2> QED
    BY <2>1, <2>2, <2>3
<1>7. Said(v) = Said(w)
  BY <1>4, <1>5
<1> HIDE DEF v, w
<1>8. Said(<<x>> \o v) = Said(<<y>> \o w)
  BY <1>1, <1>3, <1>6, <1>7, SaidCons, SMTT(30)
<1> QED
  BY <1>2, <1>8

\* Texts that go on alike to the same end.
LEMMA RestAlike ==
    ASSUME NEW D, "\n" \in D, NEW s \in Seq(D), NEW t \in Seq(D),
           NEW m \in Nat, m # 0, NEW d \in Nat, GoesOn(s, t, m, d), EndsTo(s, t, d),
           NEW k \in Nat, k >= m
    PROVE  Said(TokensFrom(s, k)) = Said(TokensFrom(t, k + d))
<1> DEFINE T == {j \in Nat : j >= m => Said(TokensFrom(s, j)) = Said(TokensFrom(t, j + d))}
<1>1. ASSUME NEW j \in Nat, j \in 1..Len(s) => \A l \in Nat : l = 0 \/ l > j => l \in T
      PROVE  j \in T
  <2> SUFFICES ASSUME j >= m
               PROVE  Said(TokensFrom(s, j)) = Said(TokensFrom(t, j + d))
    OBVIOUS
  <2> DEFINE x == NextToken(s, j)
             y == NextToken(t, j + d)
  <2>1. SameToken(x, y, d)
    <3>1. Keeps(s, t, d, x)
      BY DEF Keeps
    <3> QED
      BY <3>1, NextTokenAlike
  <2>2. x.end \in Nat /\ (j \in 1..Len(s) => x.end = 0 \/ x.end > j)
        /\ (j \notin 1..Len(s) => x.end = 0)
    BY NextTokenIs
  <2>3. x.end # 0 => y.end = x.end + d
    BY <2>1 DEF SameToken, Moved
  <2>4. j + d \in Nat
    OBVIOUS
  <2> HIDE DEF x, y
  <2>5. x.end # 0 => Said(TokensFrom(s, x.end)) = Said(TokensFrom(t, y.end))
    <3> SUFFICES ASSUME x.end # 0
                 PROVE  Said(TokensFrom(s, x.end)) = Said(TokensFrom(t, y.end))
      OBVIOUS
    <3>1. j \in 1..Len(s) /\ x.end > j /\ x.end \in Nat
      BY <2>2
    <3>2. x.end >= m
      BY <3>1
    <3>3. x.end \in T
      <4> HIDE DEF T
      <4> QED
        BY <1>1, <3>1
    <3> QED
      BY <2>3, <3>2, <3>3
  <2> QED
    BY <2>1, <2>4, <2>5, SaysOn DEF x, y
<1>2. Nat \subseteq T
  <2> HIDE DEF T
  <2>1. Len(s) \in Nat
    OBVIOUS
  <2> QED
    BY <1>1, <2>1, ForwardInduction
<1> QED
  BY <1>2

LEMMA WholeStep ==
    ASSUME NEW D, "\n" \in D, NEW s \in Seq(D), NEW j \in Nat, j # 0, WholeFrom(s, j)
    PROVE  /\ j \in 1..Len(s)
           /\ NextToken(s, j).end \in Nat /\ NextToken(s, j).end > j
           /\ \/ NextToken(s, j).end = Len(s) + 1 /\ NextToken(s, j).type # "/"
              \/ NextToken(s, j).end \in 1..Len(s) /\ WholeFrom(s, NextToken(s, j).end)
<1> DEFINE Good(token) == token.end = Len(s) + 1 /\ token.type # "/"
           all == TokensFrom(s, j)
           x == NextToken(s, j)
           w == IF x.end = 0 THEN <<>> ELSE TokensFrom(s, x.end)
           E == TokensOf(s)
<1>1. /\ x \in E /\ x.end \in Nat
      /\ j \in 1..Len(s) => x.end = 0 \/ x.end > j
      /\ j \notin 1..Len(s) => x.end = 0
  BY NextTokenIs DEF TokensOf
<1>2. all = <<x>> \o w
  BY TokensFromIs
<1>3. w \in Seq(E)
  <2>1. x.end # 0 => TokensFrom(s, x.end) \in Seq(E)
    <3> HIDE DEF x
    <3> QED
      BY <1>1, TokensFromIs
  <2>2. <<>> \in Seq(E)
    OBVIOUS
  <2> QED
    BY <2>1, <2>2
<1>4. Len(s) \in Nat
  OBVIOUS
<1>5. PICK k \in DOMAIN all : Good(all[k])
  BY DEF WholeFrom
<1> HIDE DEF all, x, w, E
<1>6. /\ all[1] = x
      /\ k # 1 => w # <<>> /\ \E l \in DOMAIN w : all[k] = w[l]
  <2>1. /\ (<<x>> \o w)[1] = x /\ DOMAIN (<<x>> \o w) = 1..(Len(w) + 1)
        /\ DOMAIN w = 1..Len(w) /\ Len(w) \in Nat
        /\ \A n \in 1..Len(w) : (<<x>> \o w)[n + 1] = w[n]
    BY <1>1, <1>3
  <2>2. k # 1 => w # <<>> /\ \E l \in DOMAIN w : all[k] = w[l]
    <3> SUFFICES ASSUME k # 1
                 PROVE  w # <<>> /\ \E l \in DOMAIN w : all[k] = w[l]
      OBVIOUS
    <3>1. k - 1 \in 1..Len(w) /\ (k - 1) + 1 = k
      BY <1>2, <2>1
    <3> QED
      BY <1>2, <2>1, <3>1
  <2> QED
    BY <1>2, <2>1, <2>2
<1>7. x.end # 0
  <2> SUFFICES ASSUME x.end = 0
               PROVE  FALSE
    OBVIOUS
  <2>1. w = <<>>
    BY DEF w
  <2>2. Good(x)
    BY <1>5, <1>6, <2>1
  <2> QED
    BY <1>4, <2>2
<1>8. j \in 1..Len(s) /\ x.end > j
  BY <1>1, <1>7
<1>9. CASE k = 1
  <2>1. Good(x)
    BY <1>5, <1>6, <1>9
  <2> QED
    BY <1>1, <1>8, <2>1 DEF x
<1>10. CASE k # 1
  <2> DEFINE i == x.end
  <2>1. w = TokensFrom(s, i)
    BY <1>7 DEF w
  <2>2. \E l \in DOMAIN w : Good(w[l])
    BY <1>5, <1>6, <1>10
  <2>3. WholeFrom(s, i)
    BY <2>1, <2>2 DEF WholeFrom
  <2>4. i \in 1..Len(s)
    <3> SUFFICES ASSUME i \notin 1..Len(s)
                 PROVE  FALSE
      OBVIOUS
    <3> DEFINE z == NextToken(s, i)
    <3>1. i \in Nat
      BY <1>1
    <3> HIDE DEF i
    <3>2. z.end = 0 /\ z \in E
      BY <3>1, NextTokenIs DEF TokensOf, E
    <3>3. TokensFrom(s, i) = <<z>> \o (IF z.end = 0 THEN <<>> ELSE TokensFrom(s, z.end))
      BY <3>1, TokensFromIs
    <3> HIDE DEF z
    <3>4. w = <<z>> \o <<>>
      BY <2>1, <3>2, <3>3
    <3>5. DOMAIN (<<z>> \o <<>>) = {1} /\ (<<z>> \o <<>>)[1] = z
      OBVIOUS
    <3>6. Good(z)
      BY <2>2, <3>4, <3>5
    <3> QED
      BY <1>4, <3>2, <3>6
  <2> QED
    BY <1>1, <1>8, <2>3, <2>4 DEF x
<1> QED
  BY <1>9, <1>10

\* Texts that begin alike with whole tokens, and after them say the same.
LEMMA PrefixAlike ==
    ASSUME NEW D, "\n" \in D, NEW a \in Seq(D), NEW s \in Seq(D), NEW t \in Seq(D),
           GoesOn(a, s, 1, 0), GoesOn(a, t, 1, 0),
           Said(TokensFrom(s, Len(a) + 1)) = Said(TokensFrom(t, Len(a) + 1)),
           NEW k \in Nat, k # 0, WholeFrom(a, k)
    PROVE  Said(TokensFrom(s, k)) = Said(TokensFrom(t, k))
<1> DEFINE T == {j \in Nat : j # 0 /\ WholeFrom(a, j) =>
                                Said(TokensFrom(s, j)) = Said(TokensFrom(t, j))}
<1>1. ASSUME NEW j \in Nat, j \in 1..Len(a) => \A l \in Nat : l = 0 \/ l > j => l \in T
      PROVE  j \in T
  <2> SUFFICES ASSUME j # 0, WholeFrom(a, j)
               PROVE  Said(TokensFrom(s, j)) = Said(TokensFrom(t, j))
    OBVIOUS
  <2> DEFINE x == NextToken(a, j)
             y == NextToken(s, j)
             z == NextToken(t, j)
             zero == 0
             one == 1
  <2>1. /\ j \in 1..Len(a) /\ x.end \in Nat /\ x.end > j
        /\ \/ x.end = Len(a) + 1 /\ x.type # "/"
           \/ x.end \in 1..Len(a) /\ WholeFrom(a, x.end)
    BY WholeStep
  <2>2. j + 0 = j /\ j >= one /\ one \in Nat /\ one # 0 /\ zero \in Nat /\ x.end + 0 = x.end
        /\ x.end # 0 /\ ~(x.type = "/" /\ x.end = Len(a) + 1)
    <3> HIDE DEF x
    <3> QED
      BY <2>1
  <2>3. GoesOn(a, s, one, zero) /\ GoesOn(a, t, one, zero)
    OBVIOUS
  <2>4. Keeps(a, s, zero, x) /\ Keeps(a, t, zero, x)
    BY <2>2 DEF Keeps
  <2> HIDE DEF zero, one
  <2>5. SameToken(x, NextToken(s, j + zero), zero) /\ SameToken(x, NextToken(t, j + zero), zero)
    BY <2>2, <2>3, <2>4, NextTokenAlike
  <2>6. SameToken(x, y, 0) /\ SameToken(x, z, 0)
    BY <2>2, <2>5 DEF zero
  <2> HIDE DEF x, y, z, T
  <2>7. y.end = x.end /\ z.end = x.end /\ SameToken(y, z, 0)
    <3>1. Moved(x.end, 0) = x.end
      BY <2>2 DEF Moved
    <3> QED
      BY <2>6, <3>1 DEF SameToken
  <2>8. Said(TokensFrom(s, x.end)) = Said(TokensFrom(t, x.end))
    <3>1. CASE x.end = Len(a) + 1
      BY <3>1
    <3>2. CASE x.end \in 1..Len(a) /\ WholeFrom(a, x.end)
      <4>1. x.end \in T
        BY <1>1, <2>1
      <4> QED
        BY <2>2, <3>2, <4>1 DEF T
    <3> QED
      BY <2>1, <3>1, <3>2
  <2>9. y.end # 0 => Said(TokensFrom(s, y.end)) = Said(TokensFrom(t, z.end))
    BY <2>7, <2>8
  <2>10. 0 \in Nat
    OBVIOUS
  <2> QED
    BY <2>7, <2>9, <2>10, SaysOn DEF y, z
<1>2. Nat \subseteq T
  <2> HIDE DEF T
  <2>1. Len(a) \in Nat
    OBVIOUS
  <2> QED
    BY <1>1, <2>1, ForwardInduction
<1> QED
  BY <1>2

----------------------------------------------------------------------------
(* Comments.                                                               *)

\* What Nesting has for a character, by what it has for the one before.
Nested(before, c) ==
    IF before.last = "/" /\ c = "*" THEN [depth |-> before.depth + 1, last |-> "none"]
    ELSE IF before.last = "*" /\ c = "/" THEN [depth |-> before.depth - 1, last |-> "none"]
    ELSE [depth |-> before.depth, last |-> c]

LEMMA NestingIs ==
    ASSUME NEW S, NEW chars \in Seq(S)
    PROVE  /\ Nesting(chars)[0] = [depth |-> 0, last |-> "none"]
           /\ \A n \in 1..Len(chars) :
                 Nesting(chars)[n] = Nested(Nesting(chars)[n - 1], chars[n])
<1> DEFINE L == S \cup {"none"}
           V == [depth : Int, last : L]
           D == 0..Len(chars)
           first == [depth |-> 0, last |-> "none"]
           value(n, f) == IF n = 0 THEN first ELSE Nested(f[n - 1], chars[n])
           upTo[n \in D] ==
              IF n = 0 THEN [depth |-> 0, last |-> "none"]
              ELSE LET mark  == <<upTo[n - 1].last, chars[n]>>
                       depth == upTo[n - 1].depth
                   IN  IF mark = <<"/", "*">> THEN [depth |-> depth + 1, last |-> "none"]
                       ELSE IF mark = <<"*", "/">>
                       THEN [depth |-> depth - 1, last |-> "none"]
                       ELSE [depth |-> depth, last |-> chars[n]]
           next == [n \in Nat |-> [v \in V |->
                       IF n < Len(chars) THEN Nested(v, chars[n + 1]) ELSE v]]
           written(n, f) ==
              IF n = 0 THEN [depth |-> 0, last |-> "none"]
              ELSE LET mark  == <<f[n - 1].last, chars[n]>>
                       depth == f[n - 1].depth
                   IN  IF mark = <<"/", "*">> THEN [depth |-> depth + 1, last |-> "none"]
                       ELSE IF mark = <<"*", "/">>
                       THEN [depth |-> depth - 1, last |-> "none"]
                       ELSE [depth |-> depth, last |-> chars[n]]
<1>1. \A v \in V, c \in S : Nested(v, c) \in V
  BY DEF Nested
<1>2. Len(chars) \in Nat /\ \A n \in 1..Len(chars) : chars[n] \in S
  OBVIOUS
<1>3. first \in V
  OBVIOUS
<1> HIDE DEF V
<1>4. next \in [Nat -> [V -> V]]
  <2>1. \A n \in Nat : n < Len(chars) => chars[n + 1] \in S
    BY <1>2
  <2> QED
    BY <1>1, <2>1
<1>5. \A n \in Nat, v \in V : n < Len(chars) => next[n][v] = Nested(v, chars[n + 1])
  OBVIOUS
<1> HIDE DEF next, first
<1>6. PICK f \in [Nat -> V] : Iterates(f, first, next)
  BY <1>3, <1>4, ValueByValue
<1>7. f[0] = first /\ \A n \in Nat : n < Len(chars) => f[n + 1] = Nested(f[n], chars[n + 1])
  BY <1>5, <1>6 DEF Iterates
<1>8. \A n \in D : n \in Nat /\ (n # 0 => n - 1 \in D /\ n - 1 \in Nat /\ n - 1 < Len(chars)
                                          /\ (n - 1) + 1 = n)
  BY <1>2
<1>9. ASSUME NEW n \in D
      PROVE  f[n] = value(n, f)
  <2>1. CASE n = 0
    BY <1>7, <2>1
  <2>2. CASE n # 0
    BY <1>7, <1>8, <2>2
  <2> QED
    BY <2>1, <2>2
<1> DEFINE h == [n \in D |-> f[n]]
<1>10. h = [n \in D |-> value(n, h)]
  <2>1. \A n \in D : value(n, h) = value(n, f)
    BY <1>8
  <2> HIDE DEF value
  <2> QED
    BY <1>9, <2>1
<1> HIDE DEF h
<1>11. \A n, f0 : written(n, f0) = value(n, f0)
  <2>1. \A a, b, c, e : <<a, b>> = <<c, e>> <=> a = c /\ b = e
    OBVIOUS
  <2> QED
    BY <2>1 DEF Nested, first
<1>12. upTo = [n \in D |-> value(n, upTo)]
  <2>1. h = [n \in D |-> written(n, h)]
    <3> HIDE DEF written, value
    <3> QED
      BY <1>10, <1>11
  <2>2. upTo = [n \in D |-> written(n, upTo)]
    BY <2>1
  <2> HIDE DEF upTo, written, value
  <2> QED
    BY <1>11, <2>2
<1>13. Nesting(chars) = upTo
  BY DEF Nesting
<1> HIDE DEF upTo
<1>14. 0 \in D /\ \A n \in 1..Len(chars) : n \in D /\ n # 0
  BY <1>2
<1>15. upTo[0] = first /\ \A n \in 1..Len(chars) : upTo[n] = Nested(upTo[n - 1], chars[n])
  BY <1>12, <1>14
<1> QED
  BY <1>13, <1>15 DEF first

\* How a comment goes on, for multilineComment.
LEMMA BlockGoesOn ==
    ASSUME NEW S, NEW s \in Seq(S), NEW j \in Nat, NEW e \in Nat
    PROVE  LET c  == Char(s, j)
               c1 == Char(s, j + 1)
           IN  /\ c = "*" /\ c1 = "/" /\ e <= 1 => AfterBlock(s, j, e) = j + 2
               /\ c = "*" /\ c1 = "/" /\ ~(e <= 1) =>
                     AfterBlock(s, j, e) = AfterBlock(s, j + 2, e - 1)
               /\ c = "/" /\ c1 = "*" => AfterBlock(s, j, e) = AfterBlock(s, j + 2, e + 1)
               /\ (c # "EOF" /\ ~(c = "*" /\ c1 = "/") /\ ~(c = "/" /\ c1 = "*")) =>
                     AfterBlock(s, j, e) = AfterBlock(s, j + 1, e)
<1> DEFINE x == Char(s, j)
           y == Char(s, j + 1)
           value(f) == BlockEntry(s, j, f)[e]
<1>0. ASSUME NEW f
      PROVE  /\ x = "*" /\ y = "/" => value(f) = IF e <= 1 THEN j + 2 ELSE f[j + 2][e - 1]
             /\ x = "/" /\ y = "*" => value(f) = f[j + 2][e + 1]
             /\ x # "EOF" /\ ~(x = "*" /\ y = "/") /\ ~(x = "/" /\ y = "*") =>
                   value(f) = f[j + 1][e]
  <2>1. value(f) = CASE x = "EOF" -> 0
                     [] x = "*" /\ y = "/" -> IF e <= 1 THEN j + 2 ELSE f[j + 2][e - 1]
                     [] x = "/" /\ y = "*" -> f[j + 2][e + 1]
                     [] OTHER -> f[j + 1][e]
    BY DEF BlockEntry
  <2> HIDE DEF x, y, value
  <2> QED
    BY <2>1
<1>1. PICK after \in [Nat -> [Nat -> Nat]] :
              /\ \A i, d : AfterBlock(s, i, d) = after[i][d]
              /\ \A i \in Nat : after[i] = BlockEntry(s, i, after)
  BY AfterBlockTable
<1>2. AfterBlock(s, j, e) = BlockEntry(s, j, after)[e]
  BY <1>1
<1>3. /\ after[j + 2][e - 1] = AfterBlock(s, j + 2, e - 1)
      /\ after[j + 2][e + 1] = AfterBlock(s, j + 2, e + 1)
      /\ after[j + 1][e] = AfterBlock(s, j + 1, e)
  BY <1>1
<1> DEFINE entry == value(after)
<1>4. /\ x = "*" /\ y = "/" => entry = IF e <= 1 THEN j + 2 ELSE after[j + 2][e - 1]
      /\ x = "/" /\ y = "*" => entry = after[j + 2][e + 1]
      /\ x # "EOF" /\ ~(x = "*" /\ y = "/") /\ ~(x = "/" /\ y = "*") => entry = after[j + 1][e]
  BY <1>0
<1> HIDE DEF x, y, value, entry
<1>5. /\ x = "*" /\ y = "/" /\ e <= 1 => entry = j + 2
      /\ x = "*" /\ y = "/" /\ ~(e <= 1) => entry = AfterBlock(s, j + 2, e - 1)
      /\ x = "/" /\ y = "*" => entry = AfterBlock(s, j + 2, e + 1)
      /\ x # "EOF" /\ ~(x = "*" /\ y = "/") /\ ~(x = "/" /\ y = "*") =>
            entry = AfterBlock(s, j + 1, e)
  BY <1>3, <1>4
<1> QED
  BY <1>2, <1>5 DEF x, y, value, entry

Marks == {"/", "*"}

\* Where the lexer is, if what it read before q led to nesting: a mark may have
\* begun.
Where(nesting, q) == IF nesting.last \in Marks THEN q - 1 ELSE q

\* Nesting that a text has before position q.
Reaching(s, nesting, q) ==
    /\ nesting.depth \in Nat \ {0}
    /\ nesting.last \in Marks => Char(s, q - 1) = nesting.last

LEMMA MarkStep ==
    ASSUME NEW S, NEW s \in Seq(S), NEW q \in Nat, q # 0, Char(s, q) # "EOF",
           NEW before, Reaching(s, before, q),
           NEW after, after = Nested(before, Char(s, q))
    PROVE  /\ after.depth > 0 =>
                 /\ Reaching(s, after, q + 1)
                 /\ AfterBlock(s, Where(before, q), before.depth)
                       = AfterBlock(s, Where(after, q + 1), after.depth)
           /\ after.depth = 0 => AfterBlock(s, Where(before, q), before.depth) = q + 1
<1> DEFINE c == Char(s, q)
           d == before.depth
           last == before.last
           p == q - 1
           At(j, e) == AfterBlock(s, j, e)
           here == At(Where(before, q), d)
<1>1. /\ q + 1 \in Nat /\ p \in Nat /\ p + 1 = q /\ p + 2 = q + 1 /\ (q + 1) - 1 = q
      /\ d \in Nat /\ d # 0 /\ d > 0 /\ d + 1 \in Nat /\ d - 1 \in Nat
      /\ d + 1 > 0 /\ (d - 1 = 0 <=> d <= 1) /\ (d - 1 > 0 => ~(d <= 1) /\ d - 1 # 0)
      /\ d + 1 # 0
  <2>1. d \in Nat \ {0}
    BY DEF Reaching
  <2> HIDE DEF d
  <2> QED
    BY <2>1
<1>2. last \in Marks => Char(s, p) = last
  BY DEF Reaching
<1>3. /\ "*" # "EOF" /\ "/" # "EOF" /\ "*" # "/" /\ "none" \notin Marks
      /\ \A x : x \in Marks <=> x = "/" \/ x = "*"
  BY DEF Marks
\* From q on: not over the beginning of a mark.
<1>4. c \notin Marks => At(q, d) = At(q + 1, d)
  <2> SUFFICES ASSUME c \notin Marks
               PROVE  At(q, d) = At(q + 1, d)
    OBVIOUS
  <2>1. c # "EOF" /\ ~(c = "*" /\ Char(s, q + 1) = "/") /\ ~(c = "/" /\ Char(s, q + 1) = "*")
    BY <1>3
  <2> HIDE DEF d
  <2> QED
    BY <1>1, <2>1, BlockGoesOn
\* From what may have begun a mark before q.
<1>5. ASSUME last \in Marks
      PROVE  /\ last = "*" /\ c = "/" /\ d <= 1 => At(p, d) = q + 1
             /\ last = "*" /\ c = "/" /\ ~(d <= 1) => At(p, d) = At(q + 1, d - 1)
             /\ last = "/" /\ c = "*" => At(p, d) = At(q + 1, d + 1)
             /\ ~(last = "*" /\ c = "/") /\ ~(last = "/" /\ c = "*") => At(p, d) = At(q, d)
  <2> DEFINE x == Char(s, p)
  <2>1. Char(s, p + 1) = c /\ x = last /\ x # "EOF"
    BY <1>1, <1>2, <1>3, <1>5
  <2> HIDE DEF d, c, p
  <2>2. /\ x = "*" /\ Char(s, p + 1) = "/" /\ d <= 1 => At(p, d) = p + 2
        /\ x = "*" /\ Char(s, p + 1) = "/" /\ ~(d <= 1) => At(p, d) = At(p + 2, d - 1)
        /\ x = "/" /\ Char(s, p + 1) = "*" => At(p, d) = At(p + 2, d + 1)
        /\ (/\ x # "EOF" /\ ~(x = "*" /\ Char(s, p + 1) = "/")
            /\ ~(x = "/" /\ Char(s, p + 1) = "*")) => At(p, d) = At(p + 1, d)
    BY <1>1, BlockGoesOn
  <2> HIDE DEF x, At, last
  <2> QED
    BY <1>1, <2>1, <2>2
<1>6. here = IF last \in Marks THEN At(p, d) ELSE At(q, d)
  BY DEF Where
<1>7. ASSUME NEW b, b.depth \in Nat \ {0}, b.last \in Marks => c = b.last
      PROVE  /\ Reaching(s, b, q + 1)
             /\ b.last \in Marks => At(Where(b, q + 1), b.depth) = At(q, b.depth)
             /\ b.last \notin Marks => At(Where(b, q + 1), b.depth) = At(q + 1, b.depth)
  BY <1>1, <1>7 DEF Reaching, Where
<1>8. after = IF last = "/" /\ c = "*" THEN [depth |-> d + 1, last |-> "none"]
              ELSE IF last = "*" /\ c = "/" THEN [depth |-> d - 1, last |-> "none"]
              ELSE [depth |-> d, last |-> c]
  BY DEF Nested
<1> SUFFICES /\ after.depth > 0 =>
                   /\ Reaching(s, after, q + 1)
                   /\ here = At(Where(after, q + 1), after.depth)
             /\ after.depth = 0 => here = q + 1
  OBVIOUS
<1> HIDE DEF c, d, last, p, At, here
<1>9. CASE last = "/" /\ c = "*"
  <2>1. after.depth = d + 1 /\ after.last = "none"
    BY <1>8, <1>9
  <2>2. after.depth \in Nat \ {0} /\ after.last \notin Marks
    BY <1>1, <1>3, <2>1
  <2>3. Reaching(s, after, q + 1) /\ At(Where(after, q + 1), after.depth) = At(q + 1, after.depth)
    BY <1>7, <2>2
  <2>4. here = At(q + 1, d + 1)
    BY <1>3, <1>5, <1>6, <1>9
  <2> QED
    BY <1>1, <2>1, <2>3, <2>4
<1>10. CASE last = "*" /\ c = "/"
  <2>1. after.depth = d - 1 /\ after.last = "none"
    BY <1>3, <1>8, <1>10
  <2>2. CASE d <= 1
    <3>1. here = q + 1
      BY <1>3, <1>5, <1>6, <1>10, <2>2
    <3>2. ~(after.depth > 0)
      BY <1>1, <2>1, <2>2
    <3> QED
      BY <3>1, <3>2
  <2>3. CASE ~(d <= 1)
    <3>1. after.depth \in Nat \ {0} /\ after.last \notin Marks /\ after.depth # 0
      BY <1>1, <1>3, <2>1, <2>3
    <3>2. Reaching(s, after, q + 1) /\ At(Where(after, q + 1), after.depth) = At(q + 1, after.depth)
      BY <1>7, <3>1
    <3>3. here = At(q + 1, d - 1)
      BY <1>3, <1>5, <1>6, <1>10, <2>3
    <3> QED
      BY <2>1, <3>1, <3>2, <3>3
  <2> QED
    BY <2>2, <2>3
<1>11. CASE ~(last = "/" /\ c = "*") /\ ~(last = "*" /\ c = "/")
  <2>1. after.depth = d /\ after.last = c
    BY <1>8, <1>11
  <2>2. after.depth \in Nat \ {0} /\ (after.last \in Marks => c = after.last) /\ after.depth # 0
    BY <1>1, <2>1
  <2>3. here = At(q, d)
    BY <1>5, <1>6, <1>11
  <2>4. Reaching(s, after, q + 1) /\ At(Where(after, q + 1), d) = At(q, d)
    <3>1. CASE c \in Marks
      BY <1>7, <2>1, <2>2, <3>1
    <3>2. CASE c \notin Marks
      BY <1>4, <1>7, <2>1, <2>2, <3>2
    <3> QED
      BY <3>1, <3>2
  <2> QED
    BY <2>1, <2>2, <2>3, <2>4
<1> QED
  BY <1>9, <1>10, <1>11

LEMMA BlockRead ==
    ASSUME NEW D, NEW s \in Seq(D), NEW n \in Nat, NEW S, NEW y \in Seq(S), Follows(s, n, y),
           "EOF" \notin ToSet(y), Len(y) > 2, y[1] = "/", y[2] = "*",
           Nesting(y)[Len(y)].depth = 0,
           \A k \in 2..(Len(y) - 1) : Nesting(y)[k].depth > 0
    PROVE  AfterBlock(s, n + 3, 1) = n + 1 + Len(y)
<1> DEFINE L == Len(y)
           N == Nesting(y)
           start == AfterBlock(s, n + 3, 1)
           Good(k) == /\ Reaching(s, N[k], n + k + 1)
                      /\ start = AfterBlock(s, Where(N[k], n + k + 1), N[k].depth)
<1>1. L \in Nat /\ L > 2 /\ L - 1 \in Nat /\ (L - 1) + 1 = L /\ 1 \in 1..L /\ 2 \in 1..L
  OBVIOUS
<1>2. /\ N[0] = [depth |-> 0, last |-> "none"]
      /\ \A k \in 1..L : N[k] = Nested(N[k - 1], y[k])
  BY NestingIs
<1>3. \A k \in 1..L : Char(s, n + k) = y[k] /\ y[k] # "EOF"
  BY DEF Follows, ToSet
<1>4. N[L].depth = 0 /\ \A k \in 2..(L - 1) : N[k].depth > 0
  OBVIOUS
<1> HIDE DEF N, L, start
<1>5. Good(2)
  <2>1. N[1] = Nested(N[0], y[1]) /\ N[2] = Nested(N[1], y[2])
    <3>1. 1 - 1 = 0 /\ 2 - 1 = 1
      OBVIOUS
    <3> QED
      BY <1>1, <1>2, <3>1
  <2>2. N[1] = [depth |-> 0, last |-> "/"]
    BY <1>2, <2>1 DEF Nested
  <2>3. N[2] = [depth |-> 0 + 1, last |-> "none"]
    BY <2>1, <2>2 DEF Nested
  <2>4. N[2].depth = 1 /\ N[2].last \notin Marks /\ n + 2 + 1 = n + 3 /\ 1 \in Nat \ {0}
    BY <2>3 DEF Marks
  <2> QED
    BY <2>4 DEF Reaching, Where, start
<1>6. ASSUME NEW k \in 2..(L - 1)
       PROVE  /\ k \in Nat /\ k + 1 \in 1..L /\ (k + 1) - 1 = k
              /\ n + k + 1 \in Nat /\ n + k + 1 # 0
              /\ n + (k + 1) = n + k + 1 /\ n + (k + 1) + 1 = (n + k + 1) + 1
              /\ n + k + 2 = (n + k + 1) + 1
  <2> HIDE DEF Good
  <2> QED
    BY <1>1
<1>7. ASSUME NEW k \in 2..(L - 1), Good(k)
      PROVE  /\ N[k + 1].depth > 0 => Good(k + 1)
             /\ N[k + 1].depth = 0 => start = n + k + 2
  <2> DEFINE q == n + k + 1
             a == N[k]
             b == N[k + 1]
             c == Char(s, q)
  <2>1. /\ k \in Nat /\ k + 1 \in 1..L /\ (k + 1) - 1 = k /\ q \in Nat /\ q # 0
        /\ n + (k + 1) = q /\ n + (k + 1) + 1 = q + 1 /\ n + k + 2 = q + 1
    BY <1>6
  <2>2. b = Nested(a, c) /\ c # "EOF"
    <3>1. c = y[k + 1]
      BY <1>3, <2>1
    <3> QED
      BY <1>2, <1>3, <2>1, <3>1
  <2>3. Reaching(s, a, q) /\ start = AfterBlock(s, Where(a, q), a.depth)
    BY <1>7
  <2> HIDE DEF a, b, c
  <2>4. /\ b.depth > 0 => Reaching(s, b, q + 1)
                          /\ start = AfterBlock(s, Where(b, q + 1), b.depth)
        /\ b.depth = 0 => start = q + 1
    <3> HIDE DEF q
    <3> QED
      BY <2>1, <2>2, <2>3, MarkStep DEF c
  <2> HIDE DEF q
  <2> QED
    BY <2>1, <2>4 DEF b
<1> HIDE DEF Good
<1> DEFINE T == {k \in Nat : k + 2 < L => Good(k + 2)}
<1>8. Nat \subseteq T
  <2>1. 0 \in T
    BY <1>5
  <2>2. ASSUME NEW k \in Nat, k \in T
        PROVE  k + 1 \in T
    <3> SUFFICES ASSUME (k + 1) + 2 < L
                 PROVE  Good((k + 1) + 2)
      OBVIOUS
    <3>1. k + 2 \in 2..(L - 1) /\ (k + 1) + 2 = (k + 2) + 1 /\ k + 2 < L
          /\ (k + 2) + 1 \in 2..(L - 1)
      BY <1>1
    <3>2. Good(k + 2)
      BY <2>2, <3>1
    <3>3. N[(k + 2) + 1].depth > 0
      BY <1>4, <3>1
    <3>4. Good((k + 2) + 1)
      BY <1>7, <3>1, <3>2, <3>3
    <3> QED
      BY <3>1, <3>4
  <2> HIDE DEF T
  <2> QED
    BY <2>1, <2>2, SimpleInduction
<1>9. L - 3 \in Nat /\ (L - 3) + 2 = L - 1 /\ (L - 3) + 2 < L /\ L - 1 \in 2..(L - 1)
      /\ n + (L - 1) + 2 = n + 1 + L
  BY <1>1
<1>10. Good(L - 1)
  BY <1>8, <1>9
<1>11. N[(L - 1) + 1].depth = 0
  BY <1>1, <1>4
<1>12. start = n + (L - 1) + 2
  BY <1>7, <1>9, <1>10, <1>11
<1> QED
  BY <1>9, <1>12 DEF start, L

LEMMA LineRead ==
    ASSUME NEW D, NEW s \in Seq(D), NEW n \in Nat, NEW S, NEW y \in Seq(S), Follows(s, n, y),
           "EOF" \notin ToSet(y), Len(y) > 2,
           \A k \in 3..Len(y) : y[k] = "\n" <=> k = Len(y)
    PROVE  AfterLine(s, n + 3) = n + Len(y)
<1> DEFINE L == Len(y)
           a == AfterLine(s, n + 3)
<1>1. L \in Nat /\ L > 2 /\ L \in 1..L /\ L \in 3..L /\ n + L \in Nat /\ Len(s) \in Nat
  OBVIOUS
<1>2. \A k \in 1..L : Char(s, n + k) = y[k] /\ y[k] # "EOF"
  BY DEF Follows, ToSet
<1>3. \A k \in 3..L : y[k] = "\n" <=> k = L
  OBVIOUS
<1> HIDE DEF L
<1>4. Char(s, n + L) = "\n" /\ n + L \in 1..Len(s)
  <2>1. Char(s, n + L) = "\n" /\ Char(s, n + L) # "EOF"
    BY <1>1, <1>2, <1>3
  <2> DEFINE q == n + L
  <2> HIDE DEF q
  <2>2. q \in 1..Len(s)
    BY <1>1, <2>1, CharLooks DEF q
  <2> QED
    BY <2>1, <2>2 DEF q
<1>5. /\ a \in (n + 3)..(Len(s) + 1) /\ Char(s, a) \in LineEnds
      /\ \A e \in (n + 3)..(Len(s) + 1) : Char(s, e) \in LineEnds => a <= e
  <2>1. n + 3 \in 1..(Len(s) + 1)
    BY <1>1, <1>4
  <2> QED
    BY <2>1, AfterLineWhere
<1> HIDE DEF a
<1>6. "\n" \in LineEnds /\ \A x \in LineEnds : x = "\n" \/ x = "EOF"
  BY DEF LineEnds
<1>7. a <= n + L
  <2>1. n + L \in (n + 3)..(Len(s) + 1)
    BY <1>1, <1>4
  <2> QED
    BY <1>4, <1>5, <1>6, <2>1
<1>8. a - n \in 3..L /\ a - n \in 1..L /\ n + (a - n) = a
  BY <1>1, <1>5, <1>7
<1>9. a - n = L
  <2>1. Char(s, a) = y[a - n] /\ y[a - n] # "EOF"
    BY <1>2, <1>8
  <2>2. y[a - n] = "\n"
    BY <1>5, <1>6, <2>1
  <2> QED
    BY <1>3, <1>8, <2>2
<1>10. a = n + L
  BY <1>8, <1>9
<1> QED
  BY <1>10 DEF a, L

\* What a slash and the next character skip.
LEMMA CommentSkips ==
    ASSUME NEW S, NEW s \in Seq(S), NEW j \in Nat, j # 0, Char(s, j) = "/"
    PROVE  /\ Char(s, j + 1) = "/" => Skipped(s, j) = Skipped(s, AfterLine(s, j + 2))
           /\ Char(s, j + 1) = "*" => Skipped(s, j) = Skipped(s, AfterBlock(s, j + 2, 1))
<1>0. ASSUME NEW f
      PROVE  /\ Char(s, j + 1) = "/" => SkipEntry(s, j, f) = f[AfterLine(s, j + 2)]
             /\ Char(s, j + 1) = "*" => SkipEntry(s, j, f) = f[AfterBlock(s, j + 2, 1)]
  BY SkipCases
<1> DEFINE line == AfterLine(s, j + 2)
           block == AfterBlock(s, j + 2, 1)
           y == Char(s, j + 1)
<1>1. PICK skip \in [Nat -> Nat] : /\ \A i : Skipped(s, i) = skip[i]
                                   /\ \A i \in Nat : skip[i] = SkipEntry(s, i, skip)
  BY SkippedTable
<1>2. Skipped(s, j) = SkipEntry(s, j, skip)
  BY <1>1
<1>3. Skipped(s, line) = skip[line] /\ Skipped(s, block) = skip[block]
  BY <1>1
<1>4. /\ y = "/" => SkipEntry(s, j, skip) = skip[line]
      /\ y = "*" => SkipEntry(s, j, skip) = skip[block]
  BY <1>0
<1> HIDE DEF line, block, y
<1>5. /\ y = "/" => Skipped(s, j) = Skipped(s, line)
      /\ y = "*" => Skipped(s, j) = Skipped(s, block)
  BY <1>2, <1>3, <1>4, Zenon
<1> QED
  BY <1>5 DEF line, block, y

\* A comment is behind when the characters of it are.
LEMMA CommentRead ==
    ASSUME NEW D, NEW s \in Seq(D), NEW n \in Nat, NEW S, NEW y \in Seq(S), Follows(s, n, y),
           "EOF" \notin ToSet(y), IsComment(y)
    PROVE  Skipped(s, n + 1) = Skipped(s, n + 1 + Len(y))
<1> DEFINE L == Len(y)
           j == n + 1
<1>1. L \in Nat /\ L > 2 /\ 1 \in 1..L /\ 2 \in 1..L /\ L \in 1..L /\ 2 <= L /\ L \in 3..L
  BY DEF IsComment
<1>2. j \in Nat /\ j # 0 /\ j + 1 = n + 2 /\ j + 2 = n + 3
  OBVIOUS
<1>3. Char(s, j) = y[1] /\ Char(s, j + 1) = y[2] /\ Char(s, n + L) = y[L]
  BY <1>1, <1>2 DEF Follows
<1>4. SubSeq(y, 1, 2)[1] = y[1] /\ SubSeq(y, 1, 2)[2] = y[2]
  BY <1>1
<1>5. /\ <<"/", "*">>[1] = "/" /\ <<"/", "*">>[2] = "*"
      /\ <<"/", "/">>[1] = "/" /\ <<"/", "/">>[2] = "/"
  OBVIOUS
<1> HIDE DEF L
<1>7. CASE /\ SubSeq(y, 1, 2) = <<"/", "*">>
           /\ Nesting(y)[Len(y)].depth = 0
           /\ \A k \in 2..(Len(y) - 1) : Nesting(y)[k].depth > 0
  <2>1. y[1] = "/" /\ y[2] = "*"
    BY <1>4, <1>5, <1>7, Zenon
  <2>2. AfterBlock(s, n + 3, 1) = n + 1 + Len(y)
    <3>1. Len(y) > 2
      BY DEF IsComment
    <3> QED
      BY <1>7, <2>1, <3>1, BlockRead
  <2>3. Skipped(s, j) = Skipped(s, AfterBlock(s, j + 2, 1))
    <3> HIDE DEF j
    <3> QED
      BY <1>2, <1>3, <2>1, CommentSkips
  <2> QED
    BY <1>2, <2>2, <2>3
<1>8. CASE /\ SubSeq(y, 1, 2) = <<"/", "/">>
           /\ \A k \in 3..Len(y) : (y[k] = "\n") <=> (k = Len(y))
  <2>1. y[1] = "/" /\ y[2] = "/"
    BY <1>4, <1>5, <1>8, Zenon
  <2>2. AfterLine(s, n + 3) = n + Len(y)
    <3>1. Len(y) > 2
      BY DEF IsComment
    <3> QED
      BY <1>8, <3>1, LineRead
  <2>3. Skipped(s, j) = Skipped(s, AfterLine(s, j + 2))
    <3> HIDE DEF j
    <3> QED
      BY <1>2, <1>3, <2>1, CommentSkips
  <2>4. Skipped(s, j) = Skipped(s, n + L)
    BY <1>2, <2>2, <2>3 DEF L
  <2>5. Skipped(s, n + L) = Skipped(s, (n + L) + 1)
    <3> DEFINE q == n + L
    <3>1. q \in Nat /\ q # 0
      BY <1>1
    <3>2. Char(s, q) \in Blanks
      <4>1. y[L] = "\n"
        BY <1>1, <1>8 DEF L
      <4> QED
        BY <1>3, <4>1 DEF Blanks
    <3> HIDE DEF q
    <3>3. Skipped(s, q) = Skipped(s, q + 1)
      BY <3>1, <3>2, SkippedIs
    <3> QED
      BY <3>3 DEF q
  <2>6. (n + L) + 1 = n + 1 + L
    BY <1>1
  <2> QED
    BY <2>4, <2>5, <2>6 DEF L
<1> QED
  BY <1>7, <1>8 DEF IsComment

\* What is where, of three parts.
InParts(s, a, x, b) ==
    /\ Len(s) = Len(a) + Len(x) + Len(b)
    /\ Follows(s, 0, a) /\ Follows(s, Len(a), x) /\ Follows(s, Len(a) + Len(x), b)

LEMMA Placed ==
    ASSUME NEW D, NEW a \in Seq(D), NEW x \in Seq(D), NEW b \in Seq(D),
           NEW s, s = (a \o x) \o b
    PROVE  s \in Seq(D) /\ InParts(s, a, x, b)
<1> DEFINE p == a \o x
<1>1. p \in Seq(D) /\ Len(p) = Len(a) + Len(x) /\ Len(a) \in Nat /\ Len(x) \in Nat
  BY JoinIs
<1>2. s = p \o b
  OBVIOUS
<1> HIDE DEF p
<1>3. s \in Seq(D) /\ Len(s) = Len(p) + Len(b) /\ Len(p) \in Nat /\ Len(b) \in Nat
  BY <1>1, <1>2, JoinIs
<1>4. Follows(s, 0, p \o b)
  <2>1. \A i \in 1..Len(s) : Char(s, 0 + i) = s[i]
    <3> SUFFICES ASSUME NEW i \in 1..Len(s)
                 PROVE  Char(s, 0 + i) = s[i]
      OBVIOUS
    <3>1. i \in Nat /\ 0 + i = i
      OBVIOUS
    <3> QED
      BY <1>3, <3>1, CharFacts
  <2> QED
    BY <1>2, <2>1 DEF Follows
<1>5. Follows(s, 0, p) /\ Follows(s, 0 + Len(p), b)
  BY <1>1, <1>4, FollowsBoth
<1>6. Follows(s, 0, a) /\ Follows(s, 0 + Len(a), x)
  BY <1>5, FollowsBoth DEF p
<1>7. 0 + Len(p) = Len(a) + Len(x) /\ 0 + Len(a) = Len(a)
      /\ Len(s) = Len(a) + Len(x) + Len(b)
  BY <1>1, <1>3
<1> QED
  BY <1>3, <1>5, <1>6, <1>7 DEF InParts

\* The first of them goes on with a gap.
LEMMA GoesOnApart ==
    ASSUME NEW D, NEW a \in Seq(D), NEW x \in Seq(D), NEW s \in Seq(D), Len(x) > 0,
           x[1] \in Gaps, Len(a) + Len(x) <= Len(s), Follows(s, 0, a), Follows(s, Len(a), x)
    PROVE  GoesOn(a, s, 1, 0)
<1> DEFINE n == Len(a)
<1>1. n \in Nat /\ Len(x) \in Nat /\ Len(s) \in Nat /\ 1 \in 1..Len(x)
  OBVIOUS
<1>2. n + 0 <= Len(s) /\ n + 1 + 0 = n + 1
  BY <1>1
<1>3. Char(s, n + 1) = x[1]
  BY <1>1 DEF Follows
<1>4. ASSUME NEW k \in 1..n
      PROVE  Char(s, k + 0) = Char(a, k)
  <2>1. k \in Nat /\ 0 + k = k /\ k + 0 = k
    BY <1>1
  <2>2. Char(s, 0 + k) = a[k] /\ Char(a, k) = a[k]
    BY <2>1, CharFacts DEF Follows
  <2> QED
    BY <2>1, <2>2
<1> QED
  BY <1>2, <1>3, <1>4 DEF GoesOn

\* So do both that end in the same part.
LEMMA GoOnAlike ==
    ASSUME NEW D, NEW s \in Seq(D), NEW t \in Seq(D), NEW b \in Seq(D), NEW n \in Nat,
           NEW d \in Nat, Follows(s, n, b), Follows(t, n + d, b), Len(s) = n + Len(b),
           Len(t) = n + d + Len(b)
    PROVE  GoesOn(s, t, n + 1, d) /\ EndsTo(s, t, d)
<1>1. Len(b) \in Nat /\ Len(s) \in Nat /\ Len(t) \in Nat
  OBVIOUS
<1>2. Len(t) = Len(s) + d /\ Len(s) + d <= Len(t) /\ Len(s) + 1 + d = Len(t) + 1
  BY <1>1
<1>3. ASSUME NEW k \in (n + 1)..Len(s)
      PROVE  Char(t, k + d) = Char(s, k)
  <2>1. k - n \in 1..Len(b) /\ n + (k - n) = k /\ n + d + (k - n) = k + d
    BY <1>1
  <2> QED
    BY <2>1 DEF Follows
<1>4. Char(t, Len(t) + 1) = "EOF"
  <2>1. Len(t) + 1 \in Nat /\ Len(t) + 1 \notin 1..Len(t)
    BY <1>1
  <2> QED
    BY <2>1, CharFacts
<1>5. Char(t, Len(s) + 1 + d) \in Gaps
  BY <1>2, <1>4 DEF Gaps
<1> QED
  BY <1>2, <1>3, <1>5 DEF GoesOn, EndsTo

\* Tokens begin where white space and comments end.
LEMMA FromSkipped ==
    ASSUME NEW D, "\n" \in D, NEW s \in Seq(D), NEW i \in Nat, NEW j \in Nat,
           Skipped(s, i) = Skipped(s, j)
    PROVE  TokensFrom(s, i) = TokensFrom(s, j)
<1>1. NextToken(s, i) = NextToken(s, j)
  BY DEF NextToken
<1> DEFINE all(x) == <<x>> \o (IF x.end = 0 THEN <<>> ELSE TokensFrom(s, x.end))
<1>2. TokensFrom(s, i) = all(NextToken(s, i)) /\ TokensFrom(s, j) = all(NextToken(s, j))
  BY TokensFromIs
<1> HIDE DEF all
<1> QED
  BY <1>1, <1>2

\* A part that has no tokens.
Skips(s, a, x) == Skipped(s, Len(a) + 1) = Skipped(s, Len(a) + 1 + Len(x))

\* It is the same what is between whole tokens, if it is skipped.
LEMMA GapsAlike ==
    ASSUME NEW D, "\n" \in D, NEW a \in Seq(D), NEW b \in Seq(D), NEW x \in Seq(D),
           NEW y \in Seq(D), Len(x) = 1, Len(y) > 0, x[1] \in Gaps, y[1] \in Gaps,
           NEW s \in Seq(D), InParts(s, a, x, b), NEW t \in Seq(D), InParts(t, a, y, b),
           Skips(s, a, x), Skips(t, a, y),
           Len(a) = 0 \/ WholeFrom(a, 1)
    PROVE  Said(Tokens(s)) = Said(Tokens(t))
<1> DEFINE n == Len(a)
           d == Len(y) - 1
<1>1. /\ Len(s) = n + Len(x) + Len(b)
      /\ Follows(s, 0, a) /\ Follows(s, n, x) /\ Follows(s, n + Len(x), b)
  BY DEF InParts
<1>2. /\ Len(t) = n + Len(y) + Len(b)
      /\ Follows(t, 0, a) /\ Follows(t, n, y) /\ Follows(t, n + Len(y), b)
  BY DEF InParts
<1>3. n \in Nat /\ Len(b) \in Nat /\ Len(y) \in Nat
  OBVIOUS
<1>4. /\ d \in Nat /\ n + Len(x) = n + 1 /\ n + Len(y) = n + 1 + d
      /\ n + 1 \in Nat /\ n + 1 # 0 /\ (n + 1) + 1 \in Nat /\ (n + 1) + 1 # 0
      /\ n + 1 + Len(x) = (n + 1) + 1 /\ n + 1 + Len(y) = ((n + 1) + 1) + d
      /\ ((n + 1) + 1) + d \in Nat /\ Len(x) > 0
  BY <1>3
<1>5. n + Len(x) <= Len(s) /\ n + Len(y) <= Len(t)
      /\ Len(s) = (n + 1) + Len(b) /\ Len(t) = (n + 1) + d + Len(b)
  BY <1>1, <1>2, <1>3, <1>4
<1>6. GoesOn(a, s, 1, 0)
  BY <1>1, <1>4, <1>5, GoesOnApart
<1>7. GoesOn(a, t, 1, 0)
  BY <1>2, <1>5, GoesOnApart
<1>8. GoesOn(s, t, (n + 1) + 1, d) /\ EndsTo(s, t, d)
  <2> DEFINE m == n + 1
  <2>1. m \in Nat /\ Follows(s, m, b) /\ Follows(t, m + d, b) /\ Len(s) = m + Len(b)
        /\ Len(t) = m + d + Len(b)
    BY <1>1, <1>2, <1>4, <1>5
  <2> HIDE DEF m, n, d
  <2>2. GoesOn(s, t, m + 1, d) /\ EndsTo(s, t, d)
    BY <1>1, <1>2, <1>4, <2>1, GoOnAlike
  <2> QED
    BY <2>2 DEF m
<1>9. Said(TokensFrom(s, n + 1)) = Said(TokensFrom(t, n + 1))
  <2> DEFINE k == (n + 1) + 1
  <2>1. k \in Nat /\ k # 0 /\ k >= k /\ k + d \in Nat
    BY <1>4
  <2>3. GoesOn(s, t, k, d) /\ EndsTo(s, t, d) /\ d \in Nat /\ n + 1 \in Nat
    BY <1>4, <1>8
  <2>2. Skipped(s, n + 1) = Skipped(s, k) /\ Skipped(t, n + 1) = Skipped(t, k + d)
    BY <1>4 DEF Skips
  <2> HIDE DEF k, n, d
  <2>4. Said(TokensFrom(s, k)) = Said(TokensFrom(t, k + d))
    BY <2>1, <2>3, RestAlike
  <2>5. TokensFrom(s, n + 1) = TokensFrom(s, k)
    BY <2>1, <2>2, <2>3, FromSkipped
  <2>6. TokensFrom(t, n + 1) = TokensFrom(t, k + d)
    BY <2>1, <2>2, <2>3, FromSkipped
  <2> QED
    BY <2>4, <2>5, <2>6
<1>10. CASE n = 0
  BY <1>9, <1>10 DEF Tokens
<1>11. CASE WholeFrom(a, 1)
  <2>1. 1 \in Nat /\ 1 # 0
    OBVIOUS
  <2>2. Said(TokensFrom(s, Len(a) + 1)) = Said(TokensFrom(t, Len(a) + 1))
    BY <1>9
  <2>3. Said(TokensFrom(s, 1)) = Said(TokensFrom(t, 1))
    BY <1>6, <1>7, <1>11, <2>1, <2>2, PrefixAlike
  <2> QED
    BY <2>3 DEF Tokens
<1> QED
  BY <1>10, <1>11

\* What the lexer reads of it, and a blank.
Readable == Chars \cup Gaps \cup STRING

Blank == <<" ">>

LEMMA BlankIs ==
    /\ "\n" \in Readable /\ Chars \subseteq Readable /\ STRING \subseteq Readable
    /\ Blank \in Seq(Readable) /\ Len(Blank) = 1
    /\ Blank[1] \in Gaps /\ Blank[1] \in Blanks
<1>1. "\n" \in Readable /\ Chars \subseteq Readable /\ STRING \subseteq Readable
  BY DEF Readable, Chars
<1>2. \A c : <<c>>[1] = c /\ Len(<<c>>) = 1
  OBVIOUS
<1>3. \A c \in Readable : <<c>> \in Seq(Readable)
  OBVIOUS
<1>4. Blank[1] = " " /\ Len(Blank) = 1
  BY <1>2, Zenon DEF Blank
<1>5. " " \in Gaps /\ " " \in Blanks
  BY Zenon DEF Gaps, Blanks
<1>6. " " \in Readable
  BY <1>5, Zenon DEF Readable
<1>7. Blank \in Seq(Readable)
  BY <1>3, <1>6, Zenon DEF Blank
<1>8. Blank[1] \in Gaps /\ Blank[1] \in Blanks
  BY <1>4, <1>5, Zenon
<1> QED
  BY <1>1, <1>4, <1>7, <1>8, Zenon

\* A blank is behind when it is.
LEMMA BlankRead ==
    ASSUME NEW s \in Seq(Readable), NEW n \in Nat, Follows(s, n, Blank)
    PROVE  Skipped(s, n + 1) = Skipped(s, n + 1 + Len(Blank))
<1>1. Len(Blank) = 1 /\ 1 \in 1..Len(Blank) /\ Blank[1] \in Blanks
  BY BlankIs
<1>2. Char(s, n + 1) \in Blanks
  BY <1>1 DEF Follows
<1> DEFINE j == n + 1
<1>3. j \in Nat /\ j # 0 /\ n + 1 + Len(Blank) = j + 1
  BY <1>1
<1>4. Char(s, j) \in Blanks
  BY <1>2
<1> HIDE DEF j
<1>5. Skipped(s, j) = Skipped(s, j + 1)
  BY <1>3, <1>4, SkippedIs
<1> QED
  BY <1>3, <1>5 DEF j

\* A comment does not begin otherwise than with a slash.
LEMMA CommentBegins ==
    ASSUME NEW S, NEW y \in Seq(S), IsComment(y)
    PROVE  Len(y) > 0 /\ y[1] \in Gaps
<1>1. Len(y) > 2
  BY DEF IsComment
<1>2. SubSeq(y, 1, 2)[1] = y[1] /\ Len(y) > 0
  BY <1>1
<1>3. <<"/", "*">>[1] = "/" /\ <<"/", "/">>[1] = "/"
  OBVIOUS
<1>4. SubSeq(y, 1, 2) = <<"/", "*">> \/ SubSeq(y, 1, 2) = <<"/", "/">>
  BY DEF IsComment
<1>5. y[1] = "/"
  BY <1>2, <1>3, <1>4, Zenon
<1> QED
  BY <1>2, <1>5, Zenon DEF Gaps

\* The text with something between two parts of it.
WithIn(a, b, between) == Said(Tokens((a \o between) \o b))

LEMMA CommentLikeBlank ==
    ASSUME NEW a \in Seq(Readable), NEW b \in Seq(Readable), NEW y \in Comments,
           Len(a) = 0 \/ WholeFrom(a, 1)
    PROVE  WithIn(a, b, y) = WithIn(a, b, Blank)
<1> DEFINE D == Readable
           s == (a \o Blank) \o b
           t == (a \o y) \o b
<1>1. y \in Seq(D) /\ "EOF" \notin ToSet(y) /\ IsComment(y)
  <2>1. y \in Seq(STRING) /\ "EOF" \notin ToSet(y) /\ IsComment(y)
    BY LiteralsAssumption
  <2> QED
    BY <2>1, BlankIs, SeqMonotonic
<1>2. Blank \in Seq(D) /\ Len(Blank) = 1 /\ Blank[1] \in Gaps /\ "\n" \in D
  BY BlankIs
<1>3. Len(y) > 0 /\ y[1] \in Gaps
  BY <1>1, CommentBegins
<1>4. s \in Seq(D) /\ InParts(s, a, Blank, b)
  BY <1>2, Placed
<1>5. t \in Seq(D) /\ InParts(t, a, y, b)
  BY <1>1, Placed
<1>6. Len(a) \in Nat
  OBVIOUS
<1> HIDE DEF s, t
<1>7. Skips(s, a, Blank)
  BY <1>4, <1>6, BlankRead DEF InParts, Skips
<1> HIDE DEF D
<1>8. Skips(t, a, y)
  BY <1>1, <1>5, <1>6, CommentRead DEF InParts, Skips
<1>9. a \in Seq(D) /\ b \in Seq(D)
  BY DEF D
<1>10. Said(Tokens(s)) = Said(Tokens(t))
  BY <1>1, <1>2, <1>3, <1>4, <1>5, <1>7, <1>8, <1>9, GapsAlike
<1> QED
  BY <1>10 DEF s, t, WithIn

LEMMA WholeTokensAre ==
    ASSUME NEW S, text \in Seq(S), NEW i \in 0..Len(text), WholeTokens(i)
    PROVE  /\ SubSeq(text, 1, i) \in Seq(S) /\ SubSeq(text, i + 1, Len(text)) \in Seq(S)
           /\ Len(SubSeq(text, 1, i)) = 0 \/ WholeFrom(SubSeq(text, 1, i), 1)
<1> DEFINE a == SubSeq(text, 1, i)
<1>1. i \in Nat /\ Len(text) \in Nat
  OBVIOUS
<1>2. a \in Seq(S) /\ Len(a) = i
  OBVIOUS
<1>3. SubSeq(text, i + 1, Len(text)) \in Seq(S)
  OBVIOUS
<1>4. CASE i = 0
  BY <1>2, <1>3, <1>4
<1>5. CASE i # 0
  <2>1. PICK k \in DOMAIN Tokens(a) : Tokens(a)[k].end = i + 1 /\ Tokens(a)[k].type # "/"
    BY <1>5 DEF WholeTokens
  <2> HIDE DEF a
  <2>2. WholeFrom(a, 1)
    BY <1>2, <2>1 DEF WholeFrom, Tokens
  <2> QED
    BY <1>2, <1>3, <2>2 DEF a
<1> QED
  BY <1>4, <1>5

(***************************************************************************)
(* Whatever the text is, the lexer finds the same tokens in it with a      *)
(* comment, of either sort and with others within it, as with a blank:     *)
(* AfterBlock and AfterLine stop where the comment does, and what is read  *)
(* before and after has not changed but in where it is.                    *)
(***************************************************************************)
THEOREM CommentsAreBlanksAlways == Spec => []CommentsAreBlanks
<1>1. LitInv => CommentsAreBlanks
  <2> SUFFICES ASSUME LitInv, NEW i \in 0..Len(text), WholeTokens(i), NEW comment \in Comments
               PROVE  LET a == SubSeq(text, 1, i)
                          b == SubSeq(text, i + 1, Len(text))
                      IN  WithIn(a, b, comment) = WithIn(a, b, Blank)
    BY Zenon DEF CommentsAreBlanks, WithIn, Blank
  <2> DEFINE a == SubSeq(text, 1, i)
             b == SubSeq(text, i + 1, Len(text))
  <2>1. text \in Seq(Readable)
    BY TextIs, BlankIs, SeqMonotonic
  <2>2. a \in Seq(Readable) /\ b \in Seq(Readable) /\ (Len(a) = 0 \/ WholeFrom(a, 1))
    BY <2>1, WholeTokensAre
  <2> HIDE DEF a, b
  <2>3. WithIn(a, b, comment) = WithIn(a, b, Blank)
    BY <2>2, CommentLikeBlank
  <2> QED
    BY <2>3 DEF a, b
<1> QED
  BY <1>1, LoadedFromItsText, PTL
=============================================================================

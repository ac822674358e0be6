------------------------------ MODULE Decimals ------------------------------
(***************************************************************************)
(* The kernel's exact decimals (internal/semantic/decimal.go): a sign, a   *)
(* sequence of digits and a scale, and the schoolbook algorithms on them.  *)
(* The code works in base ten with at most 1000 digits in a parsed number  *)
(* and 18 digits after the point in a quotient; here the three numbers are *)
(* constants, so that the cap is met by numbers TLC can enumerate.         *)
(*                                                                         *)
(* A text is a sequence of characters; a character is a digit or one of    *)
(* Minus, Plus and Dot.  A fallible operation answers [ok, d]: where the   *)
(* code ignores the error it goes on with d, the zero struct NoDecimal.    *)
(***************************************************************************)
EXTENDS Integers, Sequences, SequencesExt

CONSTANTS Base,           \* ten in the code
          MaxDigits,      \* maxDecimalDigits, 1000 in the code
          DivisionScale   \* maxDivisionScale, 18 in the code

ASSUME DecimalAssumption ==
    /\ Base \in Nat /\ Base >= 2
    /\ MaxDigits \in Nat \ {0}
    /\ DivisionScale \in Nat

Digit == 0 .. Base - 1
Minus == -1
Dot   == -2
Plus  == -3

Zeros(n) == [i \in 1 .. n |-> 0]

Decimal(neg, digits, scale) == [neg |-> neg, digits |-> digits, scale |-> scale]
NoDecimal == Decimal(FALSE, <<>>, 0)
ZeroDecimal == Decimal(FALSE, <<0>>, 0)

\* The digits from the first that is not zero; one zero stays when there is none.
TrimToOne(digits) ==
    LET nonzero == {i \in DOMAIN digits : digits[i] # 0}
    IN  IF nonzero = {} THEN <<0>> ELSE SubSeq(digits, Min(nonzero), Len(digits))

\* normalize: trailing zeroes of the fraction go first, then leading zeroes; zero has one form.
WithoutLeading(neg, digits, scale) ==
    IF \A i \in DOMAIN digits : digits[i] = 0 THEN ZeroDecimal ELSE Decimal(neg, TrimToOne(digits), scale)
Normalize(d) ==
    LET n == Len(d.digits)
        drop == CHOOSE k \in 0 .. n :
                  /\ k <= d.scale
                  /\ \A i \in n - k + 1 .. n : d.digits[i] = 0
                  /\ k = n \/ k = d.scale \/ d.digits[n - k] # 0
    IN  WithoutLeading(d.neg, SubSeq(d.digits, 1, n - drop), d.scale - drop)

IsZero(d) == d.digits = <<0>> /\ d.scale = 0

\* The caps of parseDecimal: on the characters as written, and on the digits left of d.
WithinCap(digits, d) ==
    IF \/ digits = <<>>
       \/ \E i \in DOMAIN digits : digits[i] \notin Digit
       \/ Len(d.digits) > MaxDigits
      THEN [ok |-> FALSE, d |-> NoDecimal]
      ELSE [ok |-> TRUE, d |-> d]
DigitsAndScale(neg, digits, scale) == WithinCap(digits, Normalize(Decimal(neg, digits, scale)))
AtDot(neg, s, dot) ==
    DigitsAndScale(neg, SubSeq(s, 1, dot - 1) \o SubSeq(s, dot + 1, Len(s)), IF dot > Len(s) THEN 0 ELSE Len(s) - dot)

\* parseDecimal.  The blanks TrimSpace strips are not part of a text here.
ParseDecimal(text) ==
    LET signed == text # <<>> /\ Head(text) \in {Minus, Plus}
        s      == IF signed THEN Tail(text) ELSE text
    IN  AtDot(signed /\ Head(text) = Minus, s, Min({i \in DOMAIN s : s[i] = Dot} \cup {Len(s) + 1}))

\* String.
NormalText(d) ==
    LET n    == Len(d.digits)
        sign == IF d.neg THEN <<Minus>> ELSE <<>>
    IN  IF IsZero(d) THEN <<0>>
        ELSE IF d.scale = 0 THEN sign \o d.digits
        ELSE IF n <= d.scale THEN sign \o (<<0>> \o <<Dot>> \o (Zeros(d.scale - n) \o d.digits))
        ELSE sign \o (SubSeq(d.digits, 1, n - d.scale) \o <<Dot>> \o SubSeq(d.digits, n - d.scale + 1, n))
DecimalText(d) == NormalText(Normalize(d))

\* Equal.
NormalEqual(a, b) == (IsZero(a) /\ IsZero(b)) \/ a = b
DecimalEqual(x, y) == NormalEqual(Normalize(x), Normalize(y))

-----------------------------------------------------------------------------
(* Digit strings.                                                          *)

\* compareDigitSlices and the length-then-bytes order of compareAbs: -1, 0 or 1.
CompareTrimmed(a, b) ==
    LET differ == {i \in DOMAIN a : a[i] # b[i]}
    IN  CASE Len(a) < Len(b) -> -1
          [] Len(a) > Len(b) -> 1
          [] OTHER -> IF differ = {} THEN 0 ELSE IF a[Min(differ)] < b[Min(differ)] THEN -1 ELSE 1
CompareDigits(x, y) == CompareTrimmed(TrimToOne(x), TrimToOne(y))

\* alignScales, before its trim.
Scaled(d, scale) == d.digits \o Zeros(scale - d.scale)
MaxScale(a, b) == IF a.scale > b.scale THEN a.scale ELSE b.scale

\* compareAbs.
CompareAbs(a, b) ==
    CompareDigits(Scaled(a, MaxScale(a, b)), Scaled(b, MaxScale(a, b)))

\* Less.
NormalLess(a, b) ==
    /\ ~NormalEqual(a, b)
    /\ IF a.neg # b.neg THEN a.neg ELSE CompareAbs(a, b) = IF a.neg THEN 1 ELSE -1
DecimalLess(x, y) == NormalLess(Normalize(x), Normalize(y))

\* alignDigits: both numbers at the larger scale, padded on the left to one length.
Padded(x, y) ==
    LET n == IF Len(x) > Len(y) THEN Len(x) ELSE Len(y)
    IN  <<Zeros(n - Len(x)) \o x, Zeros(n - Len(y)) \o y>>
AlignDigits(a, b) == Padded(Scaled(a, MaxScale(a, b)), Scaled(b, MaxScale(a, b)))

\* The carries between columns whose sums are t, from the last column to the first; a borrow is a
\* carry of -1.
Carries(t) ==
    LET carry[i \in 1 .. Len(t) + 1] ==
            IF i = Len(t) + 1 THEN 0 ELSE (t[i] + carry[i + 1]) \div Base
    IN  carry

\* What is left in the columns.
Carried(t) == LET carry == Carries(t) IN [i \in 1 .. Len(t) |-> (t[i] + carry[i + 1]) % Base]

\* A variant that forgets the carry out of the first column.
AddDigitsDropsCarry(a, b) == Carried([i \in 1 .. Len(a) |-> a[i] + b[i]])

\* addDigits, of two numbers of one length.
WithCarry(t) == IF Carries(t)[1] = 0 THEN Carried(t) ELSE <<Carries(t)[1]>> \o Carried(t)
AddDigits(a, b) == WithCarry([i \in 1 .. Len(a) |-> a[i] + b[i]])

\* subDigits and subDigitSlices: the larger number first, a borrow from right to left.
SubDigits(x, y) ==
    LET b == Zeros(Len(x) - Len(y)) \o y
    IN  Carried([i \in 1 .. Len(x) |-> x[i] - b[i]])

\* What mulDigits does with one product of two digits: it is added into the column p, and the
\* carry into the column on the left.
MulAt(columns, p, product) ==
    LET sum == product + columns[p] IN [columns EXCEPT ![p] = sum % Base, ![p - 1] = @ + sum \div Base]

\* mulDigits: the products from right to left, one row for every digit of a.
MulDigits(a, b) ==
    LET n == Len(a)
        m == Len(b)
        res[k \in 0 .. n * m] ==
            IF k = 0 THEN Zeros(n + m)
            ELSE LET i == n - ((k - 1) \div m)
                     j == m - ((k - 1) % m)
                 IN  MulAt(res[k - 1], i + j, a[i] * b[j])
    IN  TrimToOne(res[n * m])

\* mulSingleDigit: one carry from right to left.
MulSingleDigit(a, q) ==
    LET t == [i \in 1 .. Len(a) |-> a[i] * q] IN TrimToOne(<<Carries(t)[1]>> \o Carried(t))

\* divDigits: bring down one digit, take the largest multiple of the divisor that fits.
QuotientDigit(rem, divisor) ==
    Max({q \in Digit : q = 0 \/ CompareDigits(rem, MulSingleDigit(divisor, q)) >= 0})
TakeAway(quo, rem, divisor, q) ==
    [rem |-> IF q = 0 THEN rem ELSE TrimToOne(SubDigits(rem, MulSingleDigit(divisor, q))), quo |-> Append(quo, q)]
DivStep(quo, rem, divisor) == TakeAway(quo, rem, divisor, QuotientDigit(rem, divisor))
BringDown(rem, digit) == IF rem = <<0>> THEN <<digit>> ELSE Append(rem, digit)
DivDigits(dividend, divisor) ==
    LET n == Len(dividend)
        acc[k \in 0 .. n] ==
            IF k = 0 THEN [rem |-> <<0>>, quo |-> <<>>]
            ELSE DivStep(acc[k - 1].quo, BringDown(acc[k - 1].rem, dividend[k]), divisor)
    IN  TrimToOne(acc[n].quo)

-----------------------------------------------------------------------------
(* The operations of a decimal.                                            *)

\* Add: equal signs add, different signs subtract the smaller magnitude from the larger.
AlignedAdd(a, b, digits, scale) ==
    Normalize(IF a.neg = b.neg
                THEN Decimal(a.neg, AddDigits(digits[1], digits[2]), scale)
                ELSE CASE CompareAbs(a, b) = 0 -> ZeroDecimal
                       [] CompareAbs(a, b) = 1 -> Decimal(a.neg, SubDigits(digits[1], digits[2]), scale)
                       [] OTHER                -> Decimal(b.neg, SubDigits(digits[2], digits[1]), scale))
NormalAdd(a, b) == AlignedAdd(a, b, AlignDigits(a, b), MaxScale(a, b))
DecimalAdd(x, y) == NormalAdd(Normalize(x), Normalize(y))

\* Sub negates the other operand, a zero included, and adds.
DecimalSub(x, y) == DecimalAdd(x, [y EXCEPT !.neg = ~@])

\* Mul.
NormalMul(a, b) ==
    IF IsZero(a) \/ IsZero(b)
      THEN ZeroDecimal
      ELSE Normalize(Decimal(a.neg # b.neg, MulDigits(a.digits, b.digits), a.scale + b.scale))
DecimalMul(x, y) == NormalMul(Normalize(x), Normalize(y))

\* Div: DivisionScale digits past the dividend's own, truncated.
NormalDiv(a, b) ==
    IF IsZero(b) THEN [ok |-> FALSE, d |-> NoDecimal]
    ELSE IF IsZero(a) THEN [ok |-> TRUE, d |-> ZeroDecimal]
    ELSE [ok |-> TRUE,
          d |-> Normalize(Decimal(a.neg # b.neg, DivDigits(a.digits \o Zeros(DivisionScale + b.scale), b.digits),
                                  a.scale + DivisionScale))]
DecimalDiv(x, y) == NormalDiv(Normalize(x), Normalize(y))

\* Abs.
DecimalAbs(d) == [d EXCEPT !.neg = FALSE]

\* Clamp.
DecimalClamp(d, low, high) ==
    IF DecimalLess(high, low) THEN [ok |-> FALSE, d |-> NoDecimal]
    ELSE [ok |-> TRUE, d |-> IF DecimalLess(d, low) THEN low ELSE IF DecimalLess(high, d) THEN high ELSE d]

-----------------------------------------------------------------------------
(* The reference: the number a decimal stands for, as an integer at a      *)
(* given scale.                                                            *)
Power[n \in Nat] == IF n = 0 THEN 1 ELSE Base * Power[n - 1]

\* The numbers that the first digits stand for, one digit after the other.
Leading(digits) ==
    LET value[i \in 0 .. Len(digits)] == IF i = 0 THEN 0 ELSE value[i - 1] * Base + digits[i]
    IN  value
Number(digits) == Leading(digits)[Len(digits)]
NumberAt(d, scale) ==
    (IF d.neg THEN -1 ELSE 1) * Number(d.digits) * Power[scale - d.scale]
=============================================================================

----------------------------- MODULE Arithmetic -----------------------------
(***************************************************************************)
(* What the rule language calculates with: machine integers, decimals,     *)
(* dates and instants, without the expressions around them.  A behaviour   *)
(* picks one subject, whatever an author may have written down, and the    *)
(* invariant says what the calculations of Values, Decimals and Temporal   *)
(* give of it.                                                             *)
(***************************************************************************)
EXTENDS Values

CONSTANTS Words,     \* machine integers
          Texts,     \* decimal texts
          Days,      \* days since 1970
          Instants,  \* units of a second since 1970
          Spans      \* durations in seconds

\* A machine integer, any text, a day and an instant that can be read or computed; maxTimestampSec
\* is a second of the calendar.
ASSUME ArithmeticAssumption ==
    /\ Words \subseteq Int64
    /\ Texts \subseteq Seq(Int)
    /\ Days \subseteq CalendarDays
    /\ \A t \in Instants : IsInstant(t)
    /\ InCalendar
    /\ Spans \subseteq Int

VARIABLES word,     \* two machine integers
          number,   \* two decimal texts
          day,      \* a day since 1970
          instant   \* two instants and a duration
arithmetic == <<word, number, day, instant>>

NoWord == <<0, 0>>
NoNumber == <<<<>>, <<>>>>
NoInstant == <<0, 0, 0>>

NoSubject == word = NoWord /\ number = NoNumber /\ day = 0 /\ instant = NoInstant

PickWords ==
    /\ NoSubject
    /\ word' \in Words \X Words
    /\ UNCHANGED <<number, day, instant>>
PickNumbers ==
    /\ NoSubject
    /\ number' \in Texts \X Texts
    /\ UNCHANGED <<word, day, instant>>
PickDay ==
    /\ NoSubject
    /\ day' \in Days
    /\ UNCHANGED <<word, number, instant>>
PickInstants ==
    /\ NoSubject
    /\ instant' \in Instants \X Instants \X Spans
    /\ UNCHANGED <<word, number, day>>

Pick == PickWords \/ PickNumbers \/ PickDay \/ PickInstants
ArithmeticSpec == NoSubject /\ [][Pick]_arithmetic

-----------------------------------------------------------------------------
(* Properties.                                                             *)

\* Machine arithmetic is exact when its result is a machine integer and refused when it is not;
\* only a remainder is refused with its quotient.  (The product of the smallest integer and -1 is
\* the one exception: mulInt64 tests its result by a division, which wraps as the product did.)
IntegersAreExact ==
    LET a == word[1]
        b == word[2]
        Exact(r, n) == (r.ok <=> n \in Int64) /\ (r.ok => r.n = n)
    IN  /\ Exact(AddInt64(a, b), a + b) /\ Exact(SubInt64(a, b), a - b) /\ Exact(AbsInt64(a), Absolute(a))
        /\ a # IntMin \/ b # -1 => Exact(MulInt64(a, b), a * b)
        /\ b # 0 => Exact(DivInt64(a, b), Quo(a, b))
        /\ b # 0 /\ Quo(a, b) \in Int64 => Exact(ModInt64(a, b), Rem(a, b))
        /\ b = 0 \/ Quo(a, b) \notin Int64 => ~DivInt64(a, b).ok /\ ~ModInt64(a, b).ok

\* A number within the digit cap survives being written and read.
Trips(d) == Len(d.digits) <= MaxDigits => ParseDecimal(DecimalText(d)) = [ok |-> TRUE, d |-> d]

\* What is calculated of two decimals is the arithmetic of the numbers they stand for.
Calculated(a, b) ==
    LET s == a.scale + b.scale
        t == a.scale + DivisionScale
        x == NumberAt(a, s)
        y == NumberAt(b, s)
        quotient == DecimalDiv(a, b)
    IN  /\ NumberAt(DecimalAdd(a, b), s) = x + y
        /\ NumberAt(DecimalSub(a, b), s) = x - y
        /\ NumberAt(DecimalMul(a, b), s) * Power[s] = x * y
        /\ DecimalLess(a, b) <=> x < y
        /\ (DecimalText(a) = DecimalText(b)) <=> x = y
        /\ Trips(a) /\ Trips(DecimalAdd(a, b)) /\ Trips(DecimalMul(a, b))
        /\ quotient.ok <=> y # 0
        /\ y # 0 => NumberAt(quotient.d, t) = Quo(x * Power[t], y)

\* Decimal arithmetic is the arithmetic of the numbers: sums, differences and products are exact,
\* the order is theirs, a quotient is truncated at its last place, equal numbers have one text,
\* and what was calculated survives being written and read (decimal.go).
DecimalsAreExact ==
    LET p == ParseDecimal(number[1])
        q == ParseDecimal(number[2])
    IN  p.ok /\ q.ok => Calculated(p.d, q.d)

\* The civil calendar, of the day picked.
CalendarIsCivil == IsCivil(day)

\* The instants and the duration picked.
InstantsAreExact == IsExact(instant[1], instant[2], instant[3])

\* Arithmetic is exact or refused, on machine integers, decimals, dates and instants, at the ends
\* of their ranges and before 1970 (evaluate_expr.go, decimal.go, temporal.go).
ArithmeticIsExact == IntegersAreExact /\ DecimalsAreExact /\ CalendarIsCivil /\ InstantsAreExact
=============================================================================

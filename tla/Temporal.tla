------------------------------ MODULE Temporal ------------------------------
(***************************************************************************)
(* The kernel's instants and dates (internal/semantic/temporal.go): a      *)
(* timestamp is a number of nanoseconds since 1970 and a date a number of  *)
(* days, and the civil calendar is computed from the day.  Days, hours and *)
(* months are the real ones; Nanos, the units in a second, and MaxSec, the *)
(* last second a timestamp can hold, are constants because the products    *)
(* of the code's own (10^9 and 9223372036) are beyond TLC's integers.      *)
(*                                                                         *)
(* A date's text is <<year, month, day>>, a timestamp's also has hour,     *)
(* minute, second and fraction: the lexical form (widths, the T and the Z) *)
(* is left out.                                                            *)
(***************************************************************************)
EXTENDS Integers, Sequences

CONSTANTS Nanos,     \* 10^9 in the code
          MaxSec,    \* maxTimestampSec
          MaxFrac    \* maxFracNanoAtMaxSec

ASSUME TemporalAssumption ==
    /\ Nanos \in Nat \ {0}
    /\ MaxSec \in Nat
    /\ MaxFrac \in 0 .. Nanos - 1

\* Go's integer division truncates toward zero, and the remainder has the dividend's sign.
Absolute(n) == IF n < 0 THEN -n ELSE n
Quo(a, b) == (IF (a < 0) = (b < 0) THEN 1 ELSE -1) * (Absolute(a) \div Absolute(b))
Rem(a, b) == a - b * Quo(a, b)

IsLeapYear(y) == (y % 4 = 0 /\ y % 100 # 0) \/ y % 400 = 0

DaysInMonth(y, m) ==
    CASE m \in {1, 3, 5, 7, 8, 10, 12} -> 31
      [] m \in {4, 6, 9, 11}           -> 30
      [] OTHER                         -> IF IsLeapYear(y) THEN 29 ELSE 28

\* The 400-year era of a year, or of a day, which Go's division needs a floor for.
EraOf(n, length) == Quo(IF n < 0 THEN n - (length - 1) ELSE n, length)

\* The days of an era before its year yoe, which starts in March.
DaysBeforeYear(yoe) == yoe * 365 + Quo(yoe, 4) - Quo(yoe, 100)

DayOfYear(year, doy) ==
    EraOf(year, 400) * 146097 + DaysBeforeYear(year - EraOf(year, 400) * 400) + doy - 719468

\* daysSinceEpochFromCivil.
DaysFromCivil(year, m, d) ==
    DayOfYear(IF m <= 2 THEN year - 1 ELSE year,
              Quo(153 * (IF m <= 2 THEN m + 9 ELSE m - 3) + 2, 5) + d - 1)

\* A variant that counts a leap day in every century year.
YearOfEraNoCentury(doe) == Quo(doe - Quo(doe, 1460) - Quo(doe, 146096), 365)

\* The year of an era that one of its days is in.
YearOfEra(doe) == Quo(doe - Quo(doe, 1460) + Quo(doe, 36524) - Quo(doe, 146096), 365)

\* The date of a month that is mp after March, of a day doy of a year that starts in March.
InMonth(year, doy, mp) ==
    <<IF mp >= 10 THEN year + 1 ELSE year, IF mp >= 10 THEN mp - 9 ELSE mp + 3, doy - Quo(153 * mp + 2, 5) + 1>>
InYear(year, doy) == InMonth(year, doy, Quo(5 * doy + 2, 153))
InEra(era, doe) == InYear(YearOfEra(doe) + era * 400, doe - DaysBeforeYear(YearOfEra(doe)))

\* civilFromDaysSinceEpoch, as <<year, month, day>>.
CivilFromDays(days) ==
    LET z == days + 719468 IN InEra(EraOf(z, 146097), z - EraOf(z, 146097) * 146097)

\* dayOfWeekFromDays: 1 is Monday.
DayOfWeek(days) ==
    LET rem == Rem(days + 3, 7) IN (IF rem < 0 THEN rem + 7 ELSE rem) + 1

\* parseDate, on a text of the right form.
ParseDate(text) ==
    IF /\ text[1] \in 1 .. 9999
       /\ text[2] \in 1 .. 12
       /\ text[3] \in 1 .. DaysInMonth(text[1], text[2])
      THEN [ok |-> TRUE, days |-> DaysFromCivil(text[1], text[2], text[3])]
      ELSE [ok |-> FALSE, days |-> 0]

\* date.String.
DateText(days) == CivilFromDays(days)

\* The last test of every instant: seconds beyond int64 are beyond MaxSec too.
InstantAt(sec, frac) ==
    IF sec \in -MaxSec .. MaxSec /\ (sec = MaxSec => frac <= MaxFrac)
      THEN [ok |-> TRUE, nano |-> sec * Nanos + frac]
      ELSE [ok |-> FALSE, nano |-> 0]

\* parseTimestamp, on a text of the right form; date is what the parse of its date answered.
InstantOn(date, text) ==
    IF /\ date.ok
       /\ text[4] \in 0 .. 23 /\ text[5] \in 0 .. 59 /\ text[6] \in 0 .. 59
       /\ text[7] \in 0 .. Nanos - 1
       /\ date.days \in -((MaxSec \div 86400) + 1) .. MaxSec \div 86400
      THEN InstantAt(date.days * 86400 + text[4] * 3600 + text[5] * 60 + text[6], text[7])
      ELSE [ok |-> FALSE, nano |-> 0]
ParseTimestamp(text) == InstantOn(ParseDate(text), text)

\* A variant that leaves Go's truncation as it is: wrong before 1970.
SecFracTruncates(nano) == <<Quo(nano, Nanos), Rem(nano, Nanos)>>

\* The floor every method takes before it works on seconds: <<seconds, fraction>>.
SecFrac(nano) ==
    LET frac == Rem(nano, Nanos)
    IN  IF frac < 0 THEN <<Quo(nano, Nanos) - 1, frac + Nanos>> ELSE <<Quo(nano, Nanos), frac>>

DayAndSecond(sec) ==
    LET rem == Rem(sec, 86400)
    IN  IF rem < 0 THEN <<Quo(sec, 86400) - 1, rem + 86400>> ELSE <<Quo(sec, 86400), rem>>

\* The hour, the minute and the second of a day.
Clock(second) == <<Quo(second, 3600), Quo(Rem(second, 3600), 60), Rem(second, 60)>>

\* timestamp.String; ds is the day and the second of it.
TextAt(ds, frac) == CivilFromDays(ds[1]) \o Clock(ds[2]) \o <<frac>>
TimestampText(nano) == TextAt(DayAndSecond(SecFrac(nano)[1]), SecFrac(nano)[2])

\* timestamp.AddDuration.
AddDuration(nano, seconds) == InstantAt(SecFrac(nano)[1] + seconds, SecFrac(nano)[2])

\* timestamp.Diff: whole seconds, truncated toward zero.
WholeSeconds(dSec, dFrac) ==
    CASE dSec > 0 /\ dFrac < 0 -> dSec - 1
      [] dSec < 0 /\ dFrac > 0 -> dSec + 1
      [] OTHER                 -> dSec
TimestampDiff(nano, other) ==
    LET t == SecFrac(nano)
        o == SecFrac(other)
    IN  WholeSeconds(t[1] - o[1], t[2] - o[2])

Units == {"year", "month", "day", "hour", "minute", "second", "day_of_week"}
DateUnits == {"year", "month", "day", "day_of_week"}

DateParts == [year |-> 1, month |-> 2, day |-> 3]
ClockParts == [hour |-> 1, minute |-> 2, second |-> 3]

\* date.DateExtract, for a unit of DateUnits.
DateExtract(days, unit) == IF unit = "day_of_week" THEN DayOfWeek(days) ELSE CivilFromDays(days)[DateParts[unit]]

\* timestamp.DateExtract, for a unit of Units.
ExtractAt(ds, unit) == IF unit \in DateUnits THEN DateExtract(ds[1], unit) ELSE Clock(ds[2])[ClockParts[unit]]
TimestampExtract(nano, unit) ==
    ExtractAt(DayAndSecond(IF nano < 0 /\ Rem(nano, Nanos) # 0 THEN Quo(nano, Nanos) - 1 ELSE Quo(nano, Nanos)), unit)

-----------------------------------------------------------------------------
(* Properties.                                                             *)

\* The instants that can be read or computed, between the two ends that the code guards.
IsInstant(t) == t \in Int /\ -(MaxSec * Nanos) <= t /\ t <= MaxSec * Nanos + MaxFrac

\* The days of the years 1 to 9999, the ones that a date's text can hold.
CalendarDays == {n \in Int : -719162 <= n /\ n <= 2932896}

\* The last second of a timestamp is of a year that has four digits.
InCalendar == MaxSec \div 86400 <= 719161

\* The civil calendar: day 0 is 1970-01-01, every day is a date the parser accepts and reads back
\* as that day, and the day after is the next day of the month, the first of the next month or
\* the first of the next year, and the next of the week (civilFromDaysSinceEpoch,
\* daysSinceEpochFromCivil, dayOfWeekFromDays).
IsCivil(day) ==
    LET d == CivilFromDays(day)
        n == CivilFromDays(day + 1)
    IN  /\ day = 0 => d = <<1970, 1, 1>> /\ DayOfWeek(0) = 4
        /\ ParseDate(d) = [ok |-> TRUE, days |-> day]
        /\ n = IF d[3] < DaysInMonth(d[1], d[2]) THEN <<d[1], d[2], d[3] + 1>>
              ELSE IF d[2] < 12 THEN <<d[1], d[2] + 1, 1>> ELSE <<d[1] + 1, 1, 1>>
        /\ DayOfWeek(day + 1) = (DayOfWeek(day) % 7) + 1

\* Instants: a timestamp survives being written and read and agrees with its extracted parts,
\* adding a duration is undone by the difference, and a difference is the elapsed time truncated
\* toward zero, before 1970 as after (timestamp.String, parseTimestamp, AddDuration, Diff).
IsExact(t, o, seconds) ==
    LET later == AddDuration(t, seconds)
        text == TimestampText(t)
    IN  /\ ParseTimestamp(text) = [ok |-> TRUE, nano |-> t]
        /\ <<TimestampExtract(t, "year"), TimestampExtract(t, "month"), TimestampExtract(t, "day")>> = SubSeq(text, 1, 3)
        /\ <<TimestampExtract(t, "hour"), TimestampExtract(t, "minute"), TimestampExtract(t, "second")>> = SubSeq(text, 4, 6)
        /\ TimestampDiff(t, o) = Quo(t - o, Nanos)
        /\ later.ok => TimestampDiff(later.nano, t) = seconds /\ later.nano = t + seconds * Nanos
=============================================================================

-------------------------- MODULE ArithmeticProofs --------------------------
(***************************************************************************)
(* What the rule language calculates with, for every machine integer,      *)
(* decimal, day and instant, where a run takes chosen ones: machine words  *)
(* of any width, decimals of any base, cap and division scale, the real    *)
(* calendar, and a second of any number of units.                          *)
(*                                                                         *)
(* A year starts in March and is found by its century (c), its four years  *)
(* (q) and its year of these (r), each of which is one too few for the     *)
(* last day of the longer one.  Digits stand for a number at any scale     *)
(* large enough (Magnitude); every digit-by-digit algorithm is shown to    *)
(* keep an equation between such numbers at each of its steps, and a       *)
(* number has one normal form.                                             *)
(***************************************************************************)
EXTENDS Arithmetic, SequenceTheorems, WellFoundedInduction, TLAPS

-----------------------------------------------------------------------------
(* Division.                                                               *)

\* Truncation and floor agree on what is not negative.
LEMMA QuoOfNat == \A n \in Nat, k \in Nat \ {0} : Quo(n, k) = n \div k
  BY DEF Quo, Absolute

\* A negative number is truncated upwards.
LEMMA QuoOfNegative == \A n \in Int, k \in Nat \ {0} : n < 0 => Quo(n, k) = -((-n) \div k)
<1> SUFFICES ASSUME NEW n \in Int, NEW k \in Nat \ {0}, n < 0 PROVE Quo(n, k) = -((-n) \div k)
  OBVIOUS
<1>1. Absolute(n) = -n /\ Absolute(k) = k
  BY DEF Absolute
<1>2. (-n) \div k \in Int
  OBVIOUS
<1>3. (n < 0) # (k < 0)
  OBVIOUS
<1>4. Quo(n, k) = (-1) * ((-n) \div k)
  BY <1>1, <1>3 DEF Quo
<1> HIDE DEF Quo
<1> QED
  BY <1>2, <1>4

\* A quotient is known by its bounds.
LEMMA DivIs ==
  ASSUME NEW n \in Int, NEW q \in Int, NEW k \in Nat \ {0}, k * q <= n, n < k * q + k
  PROVE  n \div k = q
<1> DEFINE d == n \div k
<1>1. d \in Int /\ k * d <= n /\ n < k * d + k
  OBVIOUS
<1> HIDE DEF d
<1>2. \A x \in Int : x >= 1 => k * x >= k
  OBVIOUS
<1>3. ~(d >= q + 1)
  <2>1. d - q >= 1 => k * (d - q) >= k
    BY <1>1, <1>2
  <2>2. k * (d - q) = k * d - k * q
    BY <1>1
  <2> QED
    BY <1>1, <2>1, <2>2, SMT
<1>4. ~(q >= d + 1)
  <2>1. q - d >= 1 => k * (q - d) >= k
    BY <1>1, <1>2
  <2>2. k * (q - d) = k * q - k * d
    BY <1>1
  <2> QED
    BY <1>1, <2>1, <2>2, SMT
<1>5. d = q
  BY <1>1, <1>3, <1>4
<1> QED
  BY <1>5 DEF d

-----------------------------------------------------------------------------
(* Eras.                                                                   *)

\* The era of a year is a floor, before the year 0 as after.
LEMMA YearEraIsFloor ==
  ASSUME NEW n \in Int
  PROVE  EraOf(n, 400) = n \div 400
<1>1. CASE n >= 0
  BY <1>1, QuoOfNat, SMT DEF EraOf
<1>2. CASE n < 0
  <2> DEFINE m == n - (400 - 1)
  <2>1. m \in Int /\ m < 0 /\ -((-m) \div 400) = n \div 400
    BY <1>2, SMT
  <2> HIDE DEF m
  <2>2. Quo(m, 400) = -((-m) \div 400)
    BY <2>1, QuoOfNegative, SMT
  <2> QED
    BY <1>2, <2>1, <2>2, SMT DEF EraOf, m
<1> QED
  BY <1>1, <1>2, SMT

\* The era of a day is a floor too.
LEMMA DayEraIsFloor ==
  ASSUME NEW n \in Int
  PROVE  EraOf(n, 146097) = n \div 146097
<1>1. CASE n >= 0
  BY <1>1, QuoOfNat, SMT DEF EraOf
<1>2. CASE n < 0
  <2> DEFINE m == n - (146097 - 1)
  <2>1. m \in Int /\ m < 0 /\ -((-m) \div 146097) = n \div 146097
    BY <1>2, SMT
  <2> HIDE DEF m
  <2>2. Quo(m, 146097) = -((-m) \div 146097)
    BY <2>1, QuoOfNegative, SMT
  <2> QED
    BY <1>2, <2>1, <2>2, SMT DEF EraOf, m
<1> QED
  BY <1>1, <1>2, SMT

\* A place of a day in an era: its century, its four years, its year of these and its day of
\* the year; the last day of a leap year is only there when its year is the last of four, and of
\* a century only when this is the last of the era.
Place(c, q, r, doy) ==
    /\ c \in 0 .. 3 /\ q \in 0 .. 24 /\ r \in 0 .. 3 /\ doy \in 0 .. 365
    /\ doy = 365 => r = 3 /\ (q = 24 => c = 3)

\* What a year's place in its era says of it: the days before it and whether it ends with a leap day.
LEMMA YearsInEra ==
  ASSUME NEW c \in 0 .. 3, NEW q \in 0 .. 24, NEW r \in 0 .. 3
  PROVE  LET yoe == 100 * c + 4 * q + r IN
         /\ yoe \in 0 .. 399
         /\ DaysBeforeYear(yoe) = 36524 * c + 1461 * q + 365 * r
         /\ IsLeapYear(yoe + 1) <=> (r = 3 /\ (q = 24 => c = 3))
<1> DEFINE yoe == 100 * c + 4 * q + r
<1>1. yoe \in 0 .. 399
  OBVIOUS
<1>2. /\ 4 * (25 * c + q) <= yoe /\ yoe < 4 * (25 * c + q) + 4
      /\ 100 * c <= yoe /\ yoe < 100 * c + 100
  OBVIOUS
<1>3. /\ yoe + 1 = 4 * (25 * c + q) + (r + 1) /\ yoe + 1 = 100 * c + (4 * q + r + 1)
      /\ 25 * c + q \in Int /\ 4 * q + r + 1 \in 1 .. 100
  OBVIOUS
<1> HIDE DEF yoe
<1>4. Quo(yoe, 4) = 25 * c + q /\ Quo(yoe, 100) = c
  <2>1. yoe \div 4 = 25 * c + q
    BY <1>1, <1>2, <1>3, DivIs, SMT
  <2>2. yoe \div 100 = c
    BY <1>1, <1>2, DivIs, SMT
  <2> QED
    BY <1>1, <2>1, <2>2, QuoOfNat
<1>5. DaysBeforeYear(yoe) = 36524 * c + 1461 * q + 365 * r
  BY <1>4, SMT DEF DaysBeforeYear, yoe
<1>6. IsLeapYear(yoe + 1) <=> (r = 3 /\ (q = 24 => c = 3))
  <2>1. (yoe + 1) % 4 = 0 <=> r = 3
    BY <1>3, SMT
  <2>2. (yoe + 1) % 100 = 0 <=> (r = 3 /\ q = 24)
    BY <1>3, SMT
  <2>3. (yoe + 1) % 400 = 0 <=> (r = 3 /\ q = 24 /\ c = 3)
    BY <1>1, SMT DEF yoe
  <2> QED
    BY <2>1, <2>2, <2>3, Zenon DEF IsLeapYear
<1> QED
  BY <1>1, <1>5, <1>6 DEF yoe

\* Every year of an era has a place.
LEMMA EveryYearHasAPlace ==
  \A yoe \in 0 .. 399 : \E c \in 0 .. 3, q \in 0 .. 24, r \in 0 .. 3 : yoe = 100 * c + 4 * q + r
<1> SUFFICES ASSUME NEW yoe \in 0 .. 399
             PROVE  \E c \in 0 .. 3, q \in 0 .. 24, r \in 0 .. 3 : yoe = 100 * c + 4 * q + r
  OBVIOUS
<1> DEFINE c == yoe \div 100
           q == (yoe - 100 * c) \div 4
           r == yoe - 100 * c - 4 * q
<1>1. c \in 0 .. 3
  BY SMT
<1>2. yoe - 100 * c \in 0 .. 99
  BY SMT
<1>3. q \in 0 .. 24
  BY <1>2, SMT
<1>4. r \in 0 .. 3
  BY <1>2, SMT
<1>5. yoe = 100 * c + 4 * q + r
  BY <1>1, <1>3, SMT
<1> QED
  BY <1>1, <1>3, <1>4, <1>5

\* The division of a day of an era by the days of a year, corrected by its leap days, is the year.
LEMMA YearOfPlace ==
  ASSUME NEW c, NEW q, NEW r, NEW doy, Place(c, q, r, doy)
  PROVE  /\ 36524 * c + 1461 * q + 365 * r + doy \in Nat
         /\ 36524 * c + 1461 * q + 365 * r + doy < 146097
         /\ YearOfEra(36524 * c + 1461 * q + 365 * r + doy) = 100 * c + 4 * q + r
<1> DEFINE doe == 36524 * c + 1461 * q + 365 * r + doy
           yoe == 100 * c + 4 * q + r
           w == 25 * c + q
<1>1. doe \in Nat /\ doe < 146097 /\ yoe \in Int /\ w \in Int
  BY DEF Place
<1>2. \E e \in 0 .. 1 : 1460 * (w + e) <= doe /\ doe < 1460 * (w + e) + 1460 /\ doy - e \in 0 .. 364
  <2>1. CASE 24 * c + q + 365 * r + doy < 1460
    <3>1. 1460 * (w + 0) <= doe /\ doe < 1460 * (w + 0) + 1460 /\ doy - 0 \in 0 .. 364
      BY <2>1, SMT DEF Place
    <3> QED
      BY <3>1
  <2>2. CASE 24 * c + q + 365 * r + doy >= 1460
    <3>1. 1460 * (w + 1) <= doe /\ doe < 1460 * (w + 1) + 1460 /\ doy - 1 \in 0 .. 364
      BY <2>2, SMT DEF Place
    <3> QED
      BY <3>1
  <2> QED
    BY <2>1, <2>2, SMT DEF Place
<1>3. doe # 146096 => 36524 * c <= doe /\ doe < 36524 * c + 36524
  BY SMT DEF Place
<1>4. doe = 146096 => c = 3
  BY SMT DEF Place
<1>5. doe - w + c - 365 * yoe = doy /\ c \in Int /\ doy \in Int
  BY SMT DEF Place
<1> HIDE DEF doe, yoe, w
<1>6. PICK e \in 0 .. 1 : 1460 * (w + e) <= doe /\ doe < 1460 * (w + e) + 1460 /\ doy - e \in 0 .. 364
  BY <1>2, Zenon
<1>7. doe \div 1460 = w + e
  BY <1>1, <1>6, DivIs, SMT
<1>8. (doe \div 36524) - (doe \div 146096) = c
  <2>1. CASE doe = 146096
    BY <1>4, <2>1, SMT
  <2>2. CASE doe # 146096
    <3>1. doe \div 146096 = 0
      BY <1>1, <2>2, DivIs, SMT
    <3>2. doe \div 36524 = c
      BY <1>1, <1>3, <1>5, <2>2, DivIs, SMT
    <3> QED
      BY <1>5, <3>1, <3>2, SMT
  <2> QED
    BY <2>1, <2>2
<1>9. /\ Quo(doe, 1460) = doe \div 1460 /\ Quo(doe, 36524) = doe \div 36524
      /\ Quo(doe, 146096) = doe \div 146096
  BY <1>1, QuoOfNat, SMT
<1>10. doe - Quo(doe, 1460) + Quo(doe, 36524) - Quo(doe, 146096) = 365 * yoe + (doy - e)
  BY <1>1, <1>5, <1>6, <1>7, <1>8, <1>9, SMT
<1>11. Quo(365 * yoe + (doy - e), 365) = yoe
  <2>1. doe >= 0 /\ yoe >= 0
    BY <1>1, SMT DEF yoe, Place
  <2>2. 365 * yoe + (doy - e) \in Nat
    BY <1>1, <1>5, <1>6, <2>1, SMT
  <2>3. (365 * yoe + (doy - e)) \div 365 = yoe
    BY <1>1, <1>5, <1>6, DivIs, SMT
  <2> QED
    BY <2>2, <2>3, QuoOfNat, SMT
<1>12. YearOfEra(doe) = yoe
  BY <1>10, <1>11 DEF YearOfEra
<1> QED
  BY <1>1, <1>12 DEF doe, yoe

\* Every day of an era has a place.
LEMMA EveryDayHasAPlace ==
  ASSUME NEW doe \in Nat, doe < 146097
  PROVE  \E c, q, r, doy : Place(c, q, r, doy) /\ doe = 36524 * c + 1461 * q + 365 * r + doy
<1> DEFINE c == IF doe < 146096 THEN doe \div 36524 ELSE 3
<1>2. c \in 0 .. 3 /\ 36524 * c <= doe /\ doe <= 36524 * c + 36524 /\ (doe = 36524 * c + 36524 => c = 3)
  <2>1. CASE doe < 146096
    <3>1. c = doe \div 36524
      BY <2>1, SMT
    <3> QED
      BY <2>1, <3>1, SMT
  <2>2. CASE ~(doe < 146096)
    <3>1. c = 3 /\ doe = 146096
      BY <2>2, SMT
    <3> HIDE DEF c
    <3> QED
      BY <3>1, SMT
  <2> QED
    BY <2>1, <2>2, SMT
<1> HIDE DEF c
<1> DEFINE doc == doe - 36524 * c
           q == doc \div 1461
           doq == doc - 1461 * q
<1>3. doc \in Nat /\ doc <= 36524 /\ (doc = 36524 => c = 3) /\ doe = 36524 * c + doc
  BY <1>2, SMT
<1> HIDE DEF doc
<1>4. q \in 0 .. 24 /\ doq \in Nat /\ doq <= 1460 /\ doc = 1461 * q + doq
  BY <1>3, SMT
<1> HIDE DEF q, doq
<1>5. doq = 1460 /\ q = 24 => c = 3
  BY <1>3, <1>4, SMT
<1> DEFINE r == IF doq < 1460 THEN doq \div 365 ELSE 3
<1>7. /\ r \in 0 .. 3 /\ 365 * r <= doq /\ doq <= 365 * r + 365
      /\ doq = 365 * r + 365 => doq = 1460 /\ r = 3
  <2>1. CASE doq < 1460
    <3>1. r = doq \div 365
      BY <2>1, SMT
    <3> QED
      BY <1>4, <2>1, <3>1, SMT
  <2>2. CASE ~(doq < 1460)
    <3>1. r = 3 /\ doq = 1460
      BY <1>4, <2>2, SMT
    <3> HIDE DEF r
    <3> QED
      BY <3>1, SMT
  <2> QED
    BY <2>1, <2>2, SMT
<1> HIDE DEF r
<1> DEFINE doy == doq - 365 * r
<1>8. Place(c, q, r, doy)
  BY <1>2, <1>4, <1>5, <1>7, SMT DEF Place
<1>9. doe = 36524 * c + 1461 * q + 365 * r + doy
  BY <1>2, <1>3, <1>4, <1>7, SMT
<1> HIDE DEF doy
<1> QED
  BY <1>8, <1>9, SMT

-----------------------------------------------------------------------------
(* Months.                                                                 *)

\* A month counted from March, the days of the year before it, and the days it may have.
MonthOf(m) == IF m <= 2 THEN m + 9 ELSE m - 3
MonthStart(mp) == Quo(153 * mp + 2, 5)
Longest(mp) == IF mp \in {1, 3, 6, 8} THEN 30 ELSE IF mp = 11 THEN 29 ELSE 31

\* Where a month starts, as bounds.
LEMMA MonthStarts ==
  ASSUME NEW mp \in 0 .. 11
  PROVE  MonthStart(mp) \in Nat /\ 5 * MonthStart(mp) <= 153 * mp + 2 /\ 153 * mp + 2 < 5 * MonthStart(mp) + 5
<1> DEFINE n == 153 * mp + 2
<1>1. n \in Nat
  BY SMT
<1> HIDE DEF n
<1>2. Quo(n, 5) = n \div 5
  BY <1>1, QuoOfNat, SMT
<1>3. Quo(n, 5) \in Nat /\ 5 * Quo(n, 5) <= n /\ n < 5 * Quo(n, 5) + 5
  BY <1>1, <1>2, SMT
<1>4. MonthStart(mp) = Quo(n, 5)
  BY SMT DEF MonthStart, n
<1> QED
  BY <1>3, <1>4, SMT DEF n

\* A month starts where the one before it ends.
LEMMA NextMonthStarts ==
  ASSUME NEW mp \in 0 .. 10
  PROVE  MonthStart(mp + 1) = MonthStart(mp) + Longest(mp)
<1>1. /\ MonthStart(mp) \in Nat /\ 5 * MonthStart(mp) <= 153 * mp + 2 /\ 153 * mp + 2 < 5 * MonthStart(mp) + 5
      /\ MonthStart(mp + 1) \in Nat /\ 5 * MonthStart(mp + 1) <= 153 * (mp + 1) + 2
      /\ 153 * (mp + 1) + 2 < 5 * MonthStart(mp + 1) + 5
  <2>1. mp \in 0 .. 11 /\ mp + 1 \in 0 .. 11
    BY SMT
  <2> QED
    BY <2>1, MonthStarts, SMT
<1> QED
  BY <1>1, SMT DEF Longest

\* The division of a day of a year that starts in March is its month.
LEMMA MonthOfDay ==
  ASSUME NEW mp \in 0 .. 11, NEW d \in 1 .. Longest(mp)
  PROVE  LET doy == MonthStart(mp) + d - 1 IN doy \in 0 .. 365 /\ Quo(5 * doy + 2, 153) = mp
<1> DEFINE doy == MonthStart(mp) + d - 1
<1>1. /\ MonthStart(mp) \in Nat /\ 5 * MonthStart(mp) <= 153 * mp + 2 /\ 153 * mp + 2 < 5 * MonthStart(mp) + 5
      /\ d \in Int /\ 1 <= d /\ d <= Longest(mp)
  BY MonthStarts, SMT DEF Longest
<1>2. doy \in 0 .. 365 /\ 153 * mp <= 5 * doy + 2 /\ 5 * doy + 2 < 153 * mp + 153
  <2>1. CASE mp = 11
    <3>1. Longest(mp) = 29
      BY <2>1, SMT DEF Longest
    <3> QED
      BY <1>1, <2>1, <3>1, SMT
  <2>2. CASE mp # 11
    <3>1. mp \in 0 .. 10 /\ mp + 1 \in 0 .. 11
      BY <2>2, SMT
    <3>2. MonthStart(mp + 1) = MonthStart(mp) + Longest(mp) /\ 5 * MonthStart(mp + 1) <= 153 * (mp + 1) + 2
      BY <3>1, NextMonthStarts, MonthStarts
    <3>3. Longest(mp) \in 1 .. 31
      BY SMT DEF Longest
    <3>4. 153 * mp <= 5 * doy + 2
      BY <1>1, SMT
    <3>5. d <= Longest(mp) /\ d \in Int /\ mp \in Int
      BY <1>1, SMT
    <3>6. 5 * (MonthStart(mp) + d) <= 153 * mp + 155 /\ MonthStart(mp) + d <= 366
      BY <1>1, <3>1, <3>2, <3>3, <3>5, SMT
    <3>7. 5 * doy + 2 < 153 * mp + 153 /\ doy <= 365
      BY <1>1, <3>5, <3>6, SMT
    <3>8. doy \in 0 .. 365
      BY <1>1, <3>7, SMT
    <3> QED
      BY <3>4, <3>7, <3>8
  <2> QED
    BY <2>1, <2>2, SMT
<1> HIDE DEF doy
<1>3. (5 * doy + 2) \div 153 = mp
  BY <1>2, DivIs, SMT
<1>4. Quo(5 * doy + 2, 153) = mp
  BY <1>2, <1>3, QuoOfNat, SMT
<1> QED
  BY <1>2, <1>4 DEF doy

\* Every day of a year is in a month.
LEMMA DayHasAMonth ==
  ASSUME NEW doy \in 0 .. 365
  PROVE  \E mp \in 0 .. 11 : \E d \in 1 .. Longest(mp) : doy = MonthStart(mp) + d - 1
<1> DEFINE mp == (5 * doy + 2) \div 153
           d == doy - MonthStart(mp) + 1
<1>1. mp \in 0 .. 11 /\ 153 * mp <= 5 * doy + 2 /\ 5 * doy + 2 < 153 * mp + 153
  BY SMT
<1> HIDE DEF mp
<1>2. MonthStart(mp) \in Nat /\ 5 * MonthStart(mp) <= 153 * mp + 2 /\ 153 * mp + 2 < 5 * MonthStart(mp) + 5
  BY <1>1, MonthStarts
<1>3. d \in 1 .. Longest(mp)
  BY <1>1, <1>2, SMT DEF Longest
<1>4. doy = MonthStart(mp) + d - 1
  BY <1>2, SMT
<1> HIDE DEF d
<1> QED
  BY <1>1, <1>3, <1>4, SMT

-----------------------------------------------------------------------------
(* Years.                                                                  *)

\* Where a year is: its era and its place in it.
YearAt(Y, era, c, q, r) ==
    /\ Y = 400 * era + 100 * c + 4 * q + r
    /\ IsLeapYear(Y + 1) <=> (r = 3 /\ (q = 24 => c = 3))
    /\ \A doy \in Int : DayOfYear(Y, doy) =
          146097 * era + 36524 * c + 1461 * q + 365 * r + doy - 719468

\* A year by its place alone.
YearIs(Y, era, c, q, r) == Y = 400 * era + 100 * c + 4 * q + r

\* A year of a place and an era, with the days before it.
LEMMA YearAtPlace ==
  ASSUME NEW era \in Int, NEW c \in 0 .. 3, NEW q \in 0 .. 24, NEW r \in 0 .. 3,
         NEW Y, YearIs(Y, era, c, q, r)
  PROVE  YearAt(Y, era, c, q, r)
<1> DEFINE yoe == 100 * c + 4 * q + r
           y == yoe + 1
           z == Y + 1
<1>1. /\ yoe \in 0 .. 399
      /\ DaysBeforeYear(yoe) = 36524 * c + 1461 * q + 365 * r
      /\ IsLeapYear(y) <=> (r = 3 /\ (q = 24 => c = 3))
  BY YearsInEra, SMT
<1>2. Y \in Int /\ 400 * era <= Y /\ Y < 400 * era + 400 /\ Y - era * 400 = yoe
  BY SMT DEF YearIs
<1>3. z = y + 400 * era /\ y \in Int /\ z \in Int
  BY SMT DEF YearIs
<1> HIDE DEF yoe, y, z
<1>4. EraOf(Y, 400) = era
  <2>1. Y \div 400 = era
    BY <1>2, DivIs, SMT
  <2>2. Y \in Int
    BY <1>2
  <2>3. EraOf(Y, 400) = Y \div 400
    BY <2>2, YearEraIsFloor, SMT
  <2> QED
    BY <2>1, <2>3, SMT
<1>5. IsLeapYear(z) <=> (r = 3 /\ (q = 24 => c = 3))
  <2>1. z % 4 = y % 4 /\ z % 100 = y % 100 /\ z % 400 = y % 400
    BY <1>3, SMT
  <2> QED
    BY <1>1, <2>1, SMT DEF IsLeapYear
<1>6. ASSUME NEW doy \in Int
      PROVE  DayOfYear(Y, doy) = 146097 * era + 36524 * c + 1461 * q + 365 * r + doy - 719468
  <2>1. DayOfYear(Y, doy) = era * 146097 + DaysBeforeYear(yoe) + doy - 719468
    BY <1>2, <1>4, SMT DEF DayOfYear
  <2> QED
    BY <1>1, <2>1, SMT
<1> QED
  BY <1>5, <1>6, SMT DEF YearAt, YearIs, z

\* Every year has an era and a place in it.
LEMMA YearHasAPlace ==
  ASSUME NEW Y \in Int
  PROVE  \E era \in Int, c \in 0 .. 3, q \in 0 .. 24, r \in 0 .. 3 : YearAt(Y, era, c, q, r)
<1> DEFINE era == Y \div 400
           yoe == Y - 400 * era
<1>1. era \in Int /\ yoe \in 0 .. 399 /\ Y = 400 * era + yoe
  BY SMT
<1> HIDE DEF era, yoe
<1>2. PICK c \in 0 .. 3, q \in 0 .. 24, r \in 0 .. 3 : yoe = 100 * c + 4 * q + r
  BY <1>1, EveryYearHasAPlace, SMT
<1>3. YearIs(Y, era, c, q, r)
  BY <1>1, <1>2, SMT DEF YearIs
<1>4. YearAt(Y, era, c, q, r)
  BY <1>1, <1>3, YearAtPlace, SMT
<1> QED
  BY <1>1, <1>4, SMT

\* A day of a year that starts in March.
IsDayOf(Y, doy) == Y \in Int /\ doy \in 0 .. 365 /\ (doy = 365 => IsLeapYear(Y + 1))

\* The date of a day of a year is found in that year.
LEMMA YearIsFound ==
  ASSUME NEW Y, NEW doy, IsDayOf(Y, doy)
  PROVE  DayOfYear(Y, doy) \in Int /\ CivilFromDays(DayOfYear(Y, doy)) = InYear(Y, doy)
<1>1. Y \in Int /\ doy \in 0 .. 365 /\ doy \in Int /\ (doy = 365 => IsLeapYear(Y + 1))
  BY SMT DEF IsDayOf
<1>2. PICK era \in Int, c \in 0 .. 3, q \in 0 .. 24, r \in 0 .. 3 : YearAt(Y, era, c, q, r)
  BY <1>1, YearHasAPlace, SMT
<1>3. Place(c, q, r, doy)
  BY <1>1, <1>2, SMT DEF Place, YearAt
<1> DEFINE doe == 36524 * c + 1461 * q + 365 * r + doy
           yoe == 100 * c + 4 * q + r
           z == DayOfYear(Y, doy) + 719468
<1>4. doe \in Nat /\ doe < 146097 /\ YearOfEra(doe) = yoe
  BY <1>3, YearOfPlace, SMT
<1>5. doe - DaysBeforeYear(yoe) = doy
  <2>1. DaysBeforeYear(yoe) = 36524 * c + 1461 * q + 365 * r
    BY <1>2, YearsInEra, SMT
  <2> HIDE DEF yoe
  <2> QED
    BY <1>1, <1>2, <2>1, SMT
<1>6. DayOfYear(Y, doy) = 146097 * era + doe - 719468
  BY <1>1, <1>2, SMT DEF YearAt
<1>7. yoe + era * 400 = Y
  BY <1>1, <1>2, SMT DEF YearAt
<1> HIDE DEF doe, yoe
<1>8. z = 146097 * era + doe /\ z \in Int /\ DayOfYear(Y, doy) \in Int
  BY <1>2, <1>4, <1>6, SMT
<1> HIDE DEF z
<1>9. EraOf(z, 146097) = era
  <2>1. 146097 * era <= z /\ z < 146097 * era + 146097
    BY <1>2, <1>4, <1>8, SMT
  <2>2. z \div 146097 = era
    BY <1>2, <1>8, <2>1, DivIs, SMT
  <2> QED
    BY <1>8, <2>2, DayEraIsFloor, SMT
<1>10. z - EraOf(z, 146097) * 146097 = doe
  BY <1>2, <1>4, <1>8, <1>9, SMT
<1>11. CivilFromDays(DayOfYear(Y, doy)) = InEra(era, doe)
  BY <1>9, <1>10, SMT DEF CivilFromDays, z
<1>12. InEra(era, doe) = InYear(Y, doy)
  BY <1>4, <1>5, <1>7, SMT DEF InEra
<1> QED
  BY <1>8, <1>11, <1>12, SMT

\* Every day is in a year.
LEMMA DayHasAYear ==
  ASSUME NEW n \in Int
  PROVE  \E Y, doy : IsDayOf(Y, doy) /\ n = DayOfYear(Y, doy)
<1> DEFINE z == n + 719468
           era == z \div 146097
           doe == z - 146097 * era
<1>1. z \in Int
  BY SMT
<1>2. era \in Int /\ doe \in Nat /\ doe < 146097
  BY <1>1, SMT
<1>3. n = 146097 * era + doe - 719468
  BY <1>2, SMT
<1> HIDE DEF era, doe
<1>4. PICK c, q, r, doy : Place(c, q, r, doy) /\ doe = 36524 * c + 1461 * q + 365 * r + doy
  BY <1>2, EveryDayHasAPlace, SMT
<1> DEFINE Y == 400 * era + 100 * c + 4 * q + r
<1>5. /\ c \in 0 .. 3 /\ q \in 0 .. 24 /\ r \in 0 .. 3 /\ doy \in 0 .. 365 /\ doy \in Int
      /\ doy = 365 => r = 3 /\ (q = 24 => c = 3)
  BY <1>4, SMT DEF Place
<1>6. Y \in Int
  BY <1>2, <1>5, SMT
<1>7. YearAt(Y, era, c, q, r)
  <2>1. YearIs(Y, era, c, q, r)
    BY SMT DEF YearIs
  <2> HIDE DEF Y
  <2> QED
    BY <1>2, <1>5, <2>1, YearAtPlace, SMT
<1> HIDE DEF Y
<1>8. IsDayOf(Y, doy)
  BY <1>5, <1>6, <1>7, SMT DEF IsDayOf, YearAt
<1>9. n = DayOfYear(Y, doy)
  BY <1>2, <1>3, <1>4, <1>5, <1>7, SMT DEF YearAt
<1> QED
  BY <1>8, <1>9, SMT

-----------------------------------------------------------------------------
(* Dates.                                                                  *)

\* A date, of any year.
IsDate(y, m, d) == y \in Int /\ m \in 1 .. 12 /\ d \in 1 .. DaysInMonth(y, m)

\* A month, as it is numbered in a year and counted from March.
LEMMA MonthIsAsLong ==
  ASSUME NEW y \in Int, NEW m \in 1 .. 12
  PROVE  /\ MonthOf(m) \in 0 .. 11 /\ (MonthOf(m) = 11 <=> m = 2)
         /\ DaysInMonth(y, m) \in 28 .. 31
         /\ DaysInMonth(y, m) = IF m = 2 THEN IF IsLeapYear(y) THEN 29 ELSE 28 ELSE Longest(MonthOf(m))
<1>1. CASE m \in {1, 3, 5, 7, 8, 10, 12}
  BY <1>1, SMT DEF MonthOf, Longest, DaysInMonth
<1>2. CASE m \in {4, 6, 9, 11}
  BY <1>2, SMT DEF MonthOf, Longest, DaysInMonth
<1>3. CASE m = 2
  BY <1>3, SMT DEF MonthOf, Longest, DaysInMonth
<1> QED
  BY <1>1, <1>2, <1>3, SMT

\* The year, starting in March, that a date is in, and its day of that year.
MarchYear(y, m) == IF m <= 2 THEN y - 1 ELSE y
MarchDay(m, d) == MonthStart(MonthOf(m)) + d - 1

\* Only the last day of February can be the day 365 of a year that starts in March.
LEMMA LastDayIsLeap ==
  ASSUME NEW mp \in 0 .. 11, NEW d \in 1 .. Longest(mp), MonthStart(mp) + d - 1 = 365
  PROVE  mp = 11 /\ d = 29
<1>1. Longest(mp) \in 1 .. 31
  BY SMT DEF Longest
<1>2. MonthStart(mp) \in Nat /\ 5 * MonthStart(mp) <= 153 * mp + 2
  BY MonthStarts, SMT
<1>3. mp = 11
  <2>1. ASSUME mp # 11 PROVE FALSE
    <3>1. mp \in 0 .. 10 /\ mp + 1 \in 0 .. 11
      BY <2>1, SMT
    <3>2. MonthStart(mp + 1) = MonthStart(mp) + Longest(mp) /\ 5 * MonthStart(mp + 1) <= 153 * (mp + 1) + 2
      BY <3>1, NextMonthStarts, MonthStarts
    <3>3. MonthStart(mp) + d <= 337
      BY <1>1, <1>2, <3>1, <3>2, SMT
    <3> QED
      BY <1>1, <1>2, <3>3, SMT
  <2> QED
    BY <2>1
<1>4. Longest(mp) = 29 /\ d \in 1 .. 29
  BY <1>3, SMT DEF Longest
<1> QED
  BY <1>2, <1>3, <1>4, SMT

\* A date is a day of the year that starts in March.
LEMMA DateIsADay ==
  ASSUME NEW y, NEW m, NEW d, IsDate(y, m, d)
  PROVE  /\ IsDayOf(MarchYear(y, m), MarchDay(m, d))
         /\ DaysFromCivil(y, m, d) = DayOfYear(MarchYear(y, m), MarchDay(m, d))
         /\ InYear(MarchYear(y, m), MarchDay(m, d)) = <<y, m, d>>
<1> DEFINE mp == MonthOf(m)
           Y == MarchYear(y, m)
           doy == MarchDay(m, d)
<1>1. y \in Int /\ m \in 1 .. 12 /\ d \in 1 .. DaysInMonth(y, m) /\ Y \in Int
  BY SMT DEF IsDate, MarchYear
<1>2. /\ mp \in 0 .. 11 /\ (mp = 11 <=> m = 2) /\ DaysInMonth(y, m) \in 28 .. 31
      /\ DaysInMonth(y, m) = IF m = 2 THEN IF IsLeapYear(y) THEN 29 ELSE 28 ELSE Longest(mp)
  BY <1>1, MonthIsAsLong
<1>3. d \in 1 .. Longest(mp) /\ d \in Int
  BY <1>1, <1>2, SMT DEF Longest
<1>4. doy \in 0 .. 365 /\ Quo(5 * doy + 2, 153) = mp
  BY <1>2, <1>3, MonthOfDay DEF MarchDay
<1>5. MonthStart(mp) \in Nat
  BY <1>2, MonthStarts
<1>6. doy = 365 => IsLeapYear(Y + 1)
  <2> SUFFICES ASSUME doy = 365 PROVE IsLeapYear(Y + 1)
    OBVIOUS
  <2>1. mp = 11 /\ d = 29
    BY <1>2, <1>3, LastDayIsLeap DEF MarchDay
  <2>2. m = 2 /\ IsLeapYear(y)
    BY <1>1, <1>2, <2>1, SMT
  <2>3. Y + 1 = y
    BY <1>1, <2>2, SMT DEF MarchYear
  <2> QED
    BY <2>2, <2>3
<1>7. DaysFromCivil(y, m, d) = DayOfYear(Y, doy)
  BY Zenon DEF DaysFromCivil, MarchYear, MarchDay, MonthOf, MonthStart
<1>8. InYear(Y, doy) = <<y, m, d>>
  <2>1. InYear(Y, doy) = InMonth(Y, doy, mp)
    BY <1>4 DEF InYear
  <2>2. InMonth(Y, doy, mp) =
          <<IF mp >= 10 THEN Y + 1 ELSE Y, IF mp >= 10 THEN mp - 9 ELSE mp + 3, doy - MonthStart(mp) + 1>>
    BY DEF InMonth, MonthStart
  <2>3. (IF mp >= 10 THEN Y + 1 ELSE Y) = y /\ (IF mp >= 10 THEN mp - 9 ELSE mp + 3) = m
    BY <1>1, SMT DEF MonthOf, MarchYear
  <2>4. doy - MonthStart(mp) + 1 = d
    BY <1>3, <1>5, SMT DEF MarchDay
  <2> QED
    BY <2>1, <2>2, <2>3, <2>4
<1> QED
  BY <1>1, <1>4, <1>6, <1>7, <1>8 DEF IsDayOf

\* Every day has a date.
LEMMA DayIsADate ==
  ASSUME NEW n \in Int
  PROVE  \E y, m, d : IsDate(y, m, d) /\ n = DaysFromCivil(y, m, d)
<1>1. PICK Y, doy : IsDayOf(Y, doy) /\ n = DayOfYear(Y, doy)
  BY DayHasAYear
<1>2. Y \in Int /\ doy \in 0 .. 365 /\ (doy = 365 => IsLeapYear(Y + 1))
  BY <1>1 DEF IsDayOf
<1>3. PICK mp \in 0 .. 11 : \E d \in 1 .. Longest(mp) : doy = MonthStart(mp) + d - 1
  BY <1>2, DayHasAMonth
<1>4. PICK d \in 1 .. Longest(mp) : doy = MonthStart(mp) + d - 1
  BY <1>3
<1> DEFINE y == IF mp >= 10 THEN Y + 1 ELSE Y
           m == IF mp >= 10 THEN mp - 9 ELSE mp + 3
<1>5. y \in Int /\ m \in 1 .. 12 /\ MonthOf(m) = mp /\ MarchYear(y, m) = Y /\ (m = 2 => y = Y + 1)
  BY <1>2, SMT DEF MonthOf, MarchYear
<1> HIDE DEF y, m
<1>6. d \in 1 .. DaysInMonth(y, m)
  <2>1. /\ mp = 11 <=> m = 2
        /\ DaysInMonth(y, m) = IF m = 2 THEN IF IsLeapYear(y) THEN 29 ELSE 28 ELSE Longest(mp)
    BY <1>5, MonthIsAsLong
  <2>2. CASE m # 2
    BY <1>4, <2>1, <2>2
  <2>3. CASE m = 2
    <3>1. mp = 11 /\ d \in 1 .. 29 /\ d \in Int
      BY <1>4, <2>1, <2>3, SMT DEF Longest
    <3>2. d = 29 => doy = 365
      <4>1. MonthStart(11) = 337
        <5>1. MonthStart(11) \in Nat /\ 5 * MonthStart(11) <= 153 * 11 + 2 /\ 153 * 11 + 2 < 5 * MonthStart(11) + 5
          BY MonthStarts, SMT
        <5> QED
          BY <5>1, SMT
      <4> QED
        BY <1>4, <3>1, <4>1, SMT
    <3>3. d = 29 => IsLeapYear(y)
      BY <1>2, <1>5, <2>3, <3>2, SMT
    <3> QED
      BY <2>1, <2>3, <3>1, <3>3, SMT
  <2> QED
    BY <2>2, <2>3
<1>7. IsDate(y, m, d)
  BY <1>5, <1>6 DEF IsDate
<1>8. MarchDay(m, d) = doy
  BY <1>4, <1>5 DEF MarchDay
<1>9. DaysFromCivil(y, m, d) = DayOfYear(Y, doy)
  BY <1>5, <1>7, <1>8, DateIsADay
<1> QED
  BY <1>1, <1>7, <1>9

\* Any date of any year, before and after 1970, is a day, and that day is the date.
THEOREM DatesReadBack ==
  ASSUME NEW y, NEW m, NEW d, IsDate(y, m, d)
  PROVE  DaysFromCivil(y, m, d) \in Int /\ CivilFromDays(DaysFromCivil(y, m, d)) = <<y, m, d>>
BY DateIsADay, YearIsFound

\* Every day is a date, and the date is that day.
THEOREM DaysReadBack ==
  ASSUME NEW n \in Int
  PROVE  LET date == CivilFromDays(n) IN
         IsDate(date[1], date[2], date[3]) /\ DaysFromCivil(date[1], date[2], date[3]) = n
<1>1. PICK y, m, d : IsDate(y, m, d) /\ n = DaysFromCivil(y, m, d)
  BY DayIsADate
<1>2. CivilFromDays(n) = <<y, m, d>>
  BY <1>1, DatesReadBack
<1> QED
  BY <1>1, <1>2

\* A year starts where the year before it ends.
LEMMA YearAfter ==
  ASSUME NEW Y \in Int
  PROVE  /\ DayOfYear(Y, 0) \in Int
         /\ \A doy \in Int : DayOfYear(Y, doy) = DayOfYear(Y, 0) + doy
         /\ DayOfYear(Y + 1, 0) = DayOfYear(Y, 0) + (IF IsLeapYear(Y + 1) THEN 366 ELSE 365)
<1>1. PICK era \in Int, c \in 0 .. 3, q \in 0 .. 24, r \in 0 .. 3 : YearAt(Y, era, c, q, r)
  BY YearHasAPlace
<1>2. /\ Y = 400 * era + 100 * c + 4 * q + r
      /\ IsLeapYear(Y + 1) <=> (r = 3 /\ (q = 24 => c = 3))
      /\ \A doy \in Int : DayOfYear(Y, doy) = 146097 * era + 36524 * c + 1461 * q + 365 * r + doy - 719468
  BY <1>1, SMT DEF YearAt
<1> DEFINE X == Y + 1
<1>4. CASE r # 3
  <2> DEFINE next == r + 1
  <2>1. YearIs(X, era, c, q, next) /\ next \in 0 .. 3
    BY <1>2, <1>4, SMT DEF YearIs
  <2> HIDE DEF X, next
  <2>2. YearAt(X, era, c, q, next)
    BY <2>1, YearAtPlace, SMT
  <2>3. DayOfYear(X, 0) = 146097 * era + 36524 * c + 1461 * q + 365 * next - 719468
    BY <2>1, <2>2, SMT DEF YearAt
  <2> QED
    BY <1>2, <1>4, <2>3, SMT DEF X, next
<1>5. CASE r = 3 /\ q # 24
  <2> DEFINE next == q + 1
  <2>1. YearIs(X, era, c, next, 0) /\ next \in 0 .. 24
    BY <1>2, <1>5, SMT DEF YearIs
  <2> HIDE DEF X, next
  <2>2. YearAt(X, era, c, next, 0)
    BY <2>1, YearAtPlace, SMT
  <2>3. DayOfYear(X, 0) = 146097 * era + 36524 * c + 1461 * next + 365 * 0 - 719468
    BY <2>1, <2>2, SMT DEF YearAt
  <2> QED
    BY <1>2, <1>5, <2>3, SMT DEF X, next
<1>6. CASE r = 3 /\ q = 24 /\ c # 3
  <2> DEFINE next == c + 1
  <2>1. YearIs(X, era, next, 0, 0) /\ next \in 0 .. 3
    BY <1>2, <1>6, SMT DEF YearIs
  <2> HIDE DEF X, next
  <2>2. YearAt(X, era, next, 0, 0)
    BY <2>1, YearAtPlace, SMT
  <2>3. DayOfYear(X, 0) = 146097 * era + 36524 * next + 1461 * 0 + 365 * 0 - 719468
    BY <2>1, <2>2, SMT DEF YearAt
  <2> QED
    BY <1>2, <1>6, <2>3, SMT DEF X, next
<1>7. CASE r = 3 /\ q = 24 /\ c = 3
  <2> DEFINE next == era + 1
  <2>1. YearIs(X, next, 0, 0, 0) /\ next \in Int
    BY <1>2, <1>7, SMT DEF YearIs
  <2> HIDE DEF X, next
  <2>2. YearAt(X, next, 0, 0, 0)
    BY <2>1, YearAtPlace, SMT
  <2>3. DayOfYear(X, 0) = 146097 * next + 36524 * 0 + 1461 * 0 + 365 * 0 - 719468
    BY <2>1, <2>2, SMT DEF YearAt
  <2> QED
    BY <1>2, <1>7, <2>3, SMT DEF X, next
<1>8. DayOfYear(Y, 0) \in Int /\ \A doy \in Int : DayOfYear(Y, doy) = DayOfYear(Y, 0) + doy
  BY <1>2, SMT
<1> QED
  BY <1>4, <1>5, <1>6, <1>7, <1>8, SMT

\* The date that follows a date.
DateAfter(y, m, d) ==
  IF d < DaysInMonth(y, m) THEN <<y, m, d + 1>>
  ELSE IF m < 12 THEN <<y, m + 1, 1>> ELSE <<y + 1, 1, 1>>

\* The day after the last of a month is the first of the next.
LEMMA MonthAfter ==
  ASSUME NEW y \in Int, NEW m \in 1 .. 11
  PROVE  DaysFromCivil(y, m + 1, 1) = DaysFromCivil(y, m, DaysInMonth(y, m)) + 1
<1> DEFINE mp == MonthOf(m)
           d == DaysInMonth(y, m)
           k == m + 1
<1>1. /\ m \in 1 .. 12 /\ k \in 1 .. 12 /\ k = m + 1 /\ m \in Int
  BY SMT
<1>2. /\ mp \in 0 .. 11 /\ (mp = 11 <=> m = 2) /\ d \in 28 .. 31
      /\ d = IF m = 2 THEN IF IsLeapYear(y) THEN 29 ELSE 28 ELSE Longest(mp)
  BY <1>1, MonthIsAsLong
<1>3. DaysInMonth(y, k) \in 28 .. 31
  BY <1>1, MonthIsAsLong
<1> HIDE DEF d, k
<1>4. IsDate(y, m, d) /\ IsDate(y, k, 1)
  <2>1. d \in 1 .. d /\ 1 \in 1 .. DaysInMonth(y, k)
    BY <1>2, <1>3, SMT
  <2> QED
    BY <1>1, <2>1 DEF IsDate, d
<1>5. /\ DaysFromCivil(y, m, d) = DayOfYear(MarchYear(y, m), MarchDay(m, d))
      /\ DaysFromCivil(y, k, 1) = DayOfYear(MarchYear(y, k), MarchDay(k, 1))
      /\ MarchDay(m, d) \in 0 .. 365 /\ MarchDay(k, 1) \in 0 .. 365
      /\ MarchYear(y, m) \in Int
  BY <1>4, DateIsADay DEF IsDayOf
<1>6. MonthStart(mp) \in Nat /\ d \in Int
  BY <1>2, MonthStarts, SMT
<1>7. CASE m # 2
  <2>1. MarchYear(y, k) = MarchYear(y, m) /\ MonthOf(k) = mp + 1 /\ mp \in 0 .. 10
    BY <1>1, <1>2, <1>7, SMT DEF MarchYear, MonthOf
  <2>2. MarchDay(k, 1) = MarchDay(m, d) + 1
    <3>1. MonthStart(mp + 1) = MonthStart(mp) + d
      BY <1>2, <1>7, <2>1, NextMonthStarts
    <3> HIDE DEF mp
    <3>2. MarchDay(k, 1) = MonthStart(mp + 1) + 1 - 1
      BY <2>1 DEF MarchDay
    <3> QED
      BY <1>6, <3>1, <3>2, SMT DEF MarchDay, mp
  <2>3. \A doy \in Int : DayOfYear(MarchYear(y, m), doy) = DayOfYear(MarchYear(y, m), 0) + doy
    BY <1>5, YearAfter
  <2>4. DayOfYear(MarchYear(y, m), 0) \in Int
    BY <1>5, YearAfter
  <2> QED
    BY <1>5, <2>1, <2>2, <2>3, <2>4, SMT DEF d, k
<1>8. CASE m = 2
  <2> DEFINE Y == MarchYear(y, m)
  <2>1. Y \in Int /\ MarchYear(y, k) = Y + 1 /\ Y + 1 = y /\ MonthOf(k) = 0 /\ mp = 11
    BY <1>1, <1>2, <1>8, SMT DEF MarchYear, MonthOf
  <2>2. /\ DayOfYear(Y, 0) \in Int
        /\ \A doy \in Int : DayOfYear(Y, doy) = DayOfYear(Y, 0) + doy
        /\ DayOfYear(Y + 1, 0) = DayOfYear(Y, 0) + (IF IsLeapYear(Y + 1) THEN 366 ELSE 365)
    <3>1. Y \in Int
      BY <2>1
    <3> HIDE DEF Y
    <3> QED
      BY <3>1, YearAfter
  <2> HIDE DEF Y
  <2>3. MonthStart(0) = 0 /\ MonthStart(11) = 337
    <3>1. /\ MonthStart(11) \in Nat /\ 5 * MonthStart(11) <= 153 * 11 + 2 /\ 153 * 11 + 2 < 5 * MonthStart(11) + 5
          /\ MonthStart(0) \in Nat /\ 5 * MonthStart(0) <= 153 * 0 + 2
      BY MonthStarts, SMT
    <3> QED
      BY <3>1, SMT
  <2>4. MarchDay(k, 1) = 0 /\ MarchDay(m, d) = 337 + d - 1
    BY <2>1, <2>3, SMT DEF MarchDay
  <2>5. d = IF IsLeapYear(y) THEN 29 ELSE 28
    BY <1>2, <1>8
  <2>6. DaysFromCivil(y, m, d) = DayOfYear(Y, 0) + 337 + d - 1
    BY <1>5, <1>6, <2>2, <2>4, SMT DEF Y
  <2>7. DaysFromCivil(y, k, 1) = DayOfYear(Y, 0) + (IF IsLeapYear(y) THEN 366 ELSE 365)
    BY <1>5, <2>1, <2>2, <2>4, SMT
  <2> QED
    BY <2>2, <2>5, <2>6, <2>7, SMT DEF d, k
<1> QED
  BY <1>7, <1>8, SMT

\* The day after a date is the next date.
LEMMA DayAfter ==
  ASSUME NEW y, NEW m, NEW d, IsDate(y, m, d)
  PROVE  CivilFromDays(DaysFromCivil(y, m, d) + 1) = DateAfter(y, m, d)
<1> DEFINE last == DaysInMonth(y, m)
           n == DaysFromCivil(y, m, d)
<1>1. /\ y \in Int /\ m \in 1 .. 12 /\ d \in 1 .. last /\ d \in Int
      /\ last \in 28 .. 31 /\ m \in Int
  BY MonthIsAsLong, SMT DEF IsDate
<1>2. /\ n = DayOfYear(MarchYear(y, m), MarchDay(m, d)) /\ IsDayOf(MarchYear(y, m), MarchDay(m, d))
      /\ MarchYear(y, m) \in Int
  BY DateIsADay, SMT DEF IsDayOf
<1> HIDE DEF last, n
<1>3. CASE d < last
  <2> DEFINE e == d + 1
  <2>1. e \in 1 .. last /\ e = d + 1
    BY <1>1, <1>3, SMT
  <2> HIDE DEF e
  <2>2. IsDate(y, m, e)
    BY <1>1, <2>1 DEF IsDate, last
  <2>3. DaysFromCivil(y, m, e) = DayOfYear(MarchYear(y, m), MarchDay(m, e)) /\ MarchDay(m, e) \in 0 .. 365
    BY <2>2, DateIsADay DEF IsDayOf
  <2>4. MarchDay(m, e) = MarchDay(m, d) + 1
    <3>1. MonthStart(MonthOf(m)) \in Nat
      BY <1>1, MonthIsAsLong, MonthStarts
    <3> QED
      BY <1>1, <2>1, <3>1, SMT DEF MarchDay
  <2>5. /\ DayOfYear(MarchYear(y, m), 0) \in Int
        /\ \A doy \in Int : DayOfYear(MarchYear(y, m), doy) = DayOfYear(MarchYear(y, m), 0) + doy
    BY <1>2, YearAfter, SMT
  <2>6. MarchDay(m, d) \in Int /\ MarchDay(m, e) \in Int
    BY <1>2, <2>3, SMT DEF IsDayOf
  <2>7. DaysFromCivil(y, m, e) = n + 1
    BY <1>2, <2>3, <2>4, <2>5, <2>6, SMT
  <2>8. CivilFromDays(n + 1) = <<y, m, e>>
    BY <2>2, <2>7, DatesReadBack
  <2> QED
    BY <1>3, <2>1, <2>8 DEF DateAfter, last, n
<1>4. CASE ~(d < last) /\ m < 12
  <2> DEFINE k == m + 1
  <2>1. k \in 1 .. 12 /\ m \in 1 .. 11 /\ d = last
    BY <1>1, <1>4, SMT
  <2>2. IsDate(y, k, 1)
    <3>1. DaysInMonth(y, k) \in 28 .. 31
      BY <1>1, <2>1, MonthIsAsLong
    <3>2. 1 \in 1 .. DaysInMonth(y, k)
      BY <3>1, SMT
    <3> QED
      BY <1>1, <2>1, <3>2 DEF IsDate
  <2>3. DaysFromCivil(y, k, 1) = n + 1
    BY <1>1, <2>1, MonthAfter DEF n, last
  <2>4. CivilFromDays(n + 1) = <<y, k, 1>>
    BY <2>2, <2>3, DatesReadBack
  <2> QED
    BY <1>4, <2>4 DEF DateAfter, last, n
<1>5. CASE ~(d < last) /\ ~(m < 12)
  <2> DEFINE z == y + 1
  <2>1. m = 12 /\ d = last /\ z \in Int
    BY <1>1, <1>5, SMT
  <2>2. last = 31 /\ MonthOf(m) = 9 /\ MarchYear(y, m) = y /\ MonthOf(1) = 10 /\ MarchYear(z, 1) = y
    BY <1>1, <2>1, SMT DEF last, DaysInMonth, MonthOf, MarchYear
  <2> HIDE DEF z
  <2>3. IsDate(z, 1, 1)
    <3>1. DaysInMonth(z, 1) \in 28 .. 31
      BY <2>1, MonthIsAsLong, SMT
    <3>2. 1 \in 1 .. DaysInMonth(z, 1)
      BY <3>1, SMT
    <3> QED
      BY <2>1, <3>2, SMT DEF IsDate
  <2>4. DaysFromCivil(z, 1, 1) = DayOfYear(y, MarchDay(1, 1)) /\ n = DayOfYear(y, MarchDay(12, 31))
    BY <1>2, <2>1, <2>2, <2>3, DateIsADay
  <2>5. MarchDay(1, 1) = 306 /\ MarchDay(12, 31) = 305
    <3>1. /\ MonthStart(9) \in Nat /\ 5 * MonthStart(9) <= 153 * 9 + 2 /\ 153 * 9 + 2 < 5 * MonthStart(9) + 5
          /\ MonthStart(10) \in Nat /\ 5 * MonthStart(10) <= 153 * 10 + 2 /\ 153 * 10 + 2 < 5 * MonthStart(10) + 5
      BY MonthStarts, SMT
    <3>2. MonthOf(12) = 9 /\ MonthOf(1) = 10
      BY SMT DEF MonthOf
    <3> QED
      BY <3>1, <3>2, SMT DEF MarchDay
  <2>6. DayOfYear(y, 0) \in Int /\ \A doy \in Int : DayOfYear(y, doy) = DayOfYear(y, 0) + doy
    BY <1>1, YearAfter
  <2>7. DaysFromCivil(z, 1, 1) = n + 1
    BY <2>4, <2>5, <2>6, SMT
  <2>8. CivilFromDays(n + 1) = <<z, 1, 1>>
    BY <2>3, <2>7, DatesReadBack
  <2> QED
    BY <1>5, <2>8 DEF DateAfter, last, n, z
<1> QED
  BY <1>3, <1>4, <1>5

\* The days whose year has four digits and is not 0.
LEMMA YearsOfDays ==
  ASSUME NEW y, NEW m, NEW d, IsDate(y, m, d),
         -719162 <= DaysFromCivil(y, m, d), DaysFromCivil(y, m, d) <= 2932896
  PROVE  y \in 1 .. 9999
<1> DEFINE Y == MarchYear(y, m)
           doy == MarchDay(m, d)
           n == DaysFromCivil(y, m, d)
           mp == MonthOf(m)
<1>1. y \in Int /\ m \in 1 .. 12 /\ d \in 1 .. DaysInMonth(y, m) /\ Y \in Int
  BY SMT DEF IsDate, MarchYear
<1>2. n = DayOfYear(Y, doy) /\ doy \in 0 .. 365 /\ doy \in Int /\ n \in Int
  BY DateIsADay, YearIsFound, SMT DEF IsDayOf
<1>3. PICK era \in Int, c \in 0 .. 3, q \in 0 .. 24, r \in 0 .. 3 : YearAt(Y, era, c, q, r)
  BY <1>1, YearHasAPlace, SMT
<1> HIDE DEF Y, doy, n
<1>4. Y = 400 * era + 100 * c + 4 * q + r /\ n = 146097 * era + 36524 * c + 1461 * q + 365 * r + doy - 719468
  BY <1>2, <1>3, SMT DEF YearAt
<1>5. -719162 <= n /\ n <= 2932896
  BY SMT DEF n
<1>6. 0 <= Y /\ Y <= 9999
  <2>1. Y < 0 => era <= -1
    BY <1>3, <1>4, SMT
  <2>2. Y > 9999 => era >= 25
    BY <1>3, <1>4, SMT
  <2>3. 36524 * c + 1461 * q + 365 * r + doy \in Int
        /\ 0 <= 36524 * c + 1461 * q + 365 * r + doy /\ 36524 * c + 1461 * q + 365 * r + doy <= 146096
    BY <1>2, <1>3, SMT
  <2> QED
    BY <1>1, <1>2, <1>3, <1>4, <1>5, <2>1, <2>2, <2>3, SMT
<1>7. Y = 0 => doy >= 306
  BY <1>2, <1>3, <1>4, <1>5, SMT
<1>8. Y = 9999 => doy <= 305
  BY <1>2, <1>3, <1>4, <1>5, SMT
<1>9. /\ mp \in 0 .. 11 /\ MonthStart(mp) \in Nat
      /\ 5 * MonthStart(mp) <= 153 * mp + 2 /\ 153 * mp + 2 < 5 * MonthStart(mp) + 5
  BY <1>1, MonthIsAsLong, MonthStarts, SMT
<1>10. /\ mp = 11 <=> m = 2
       /\ DaysInMonth(y, m) \in 28 .. 31
       /\ DaysInMonth(y, m) = IF m = 2 THEN IF IsLeapYear(y) THEN 29 ELSE 28 ELSE Longest(mp)
  BY <1>1, MonthIsAsLong
<1>11. doy = MonthStart(mp) + d - 1 /\ d \in Int /\ 1 <= d
  BY <1>1, <1>10, SMT DEF doy, MarchDay
<1>12. m <= 2 => doy >= 306
  <2>1. m <= 2 => mp >= 10
    BY <1>1, SMT DEF MonthOf
  <2> QED
    BY <1>1, <1>9, <1>11, <2>1, SMT
<1>13. ~(m <= 2) => doy <= 305
  <2> SUFFICES ASSUME ~(m <= 2) PROVE doy <= 305
    BY SMT
  <2>1. mp \in 0 .. 9 /\ mp \in 0 .. 10 /\ mp + 1 \in 0 .. 11 /\ m # 2
    BY <1>1, SMT DEF MonthOf
  <2>2. d <= Longest(mp) /\ Longest(mp) \in 1 .. 31
    BY <1>1, <1>10, <2>1, SMT DEF Longest
  <2>3. MonthStart(mp + 1) = MonthStart(mp) + Longest(mp) /\ 5 * MonthStart(mp + 1) <= 153 * (mp + 1) + 2
    BY <2>1, NextMonthStarts, MonthStarts, SMT
  <2>4. 5 * (MonthStart(mp) + d) <= 153 * (mp + 1) + 2
    BY <1>9, <1>11, <2>2, <2>3, SMT
  <2> HIDE DEF mp
  <2> QED
    BY <1>9, <1>11, <2>1, <2>4, SMT
<1>14. Y = IF m <= 2 THEN y - 1 ELSE y
  BY DEF Y, MarchYear
<1> QED
  BY <1>1, <1>2, <1>6, <1>7, <1>8, <1>12, <1>13, <1>14, SMT

\* The day of the week is a remainder that is never negative, before 1970 as after.
LEMMA WeekDay == ASSUME NEW n \in Int PROVE DayOfWeek(n) = ((n + 3) % 7) + 1
<1> DEFINE k == n + 3
<1>1. k \in Int
  BY SMT
<1> HIDE DEF k
<1>2. Quo(k, 7) \in Int /\ Rem(k, 7) \in Int /\ (IF Rem(k, 7) < 0 THEN Rem(k, 7) + 7 ELSE Rem(k, 7)) = k % 7
  <2>1. CASE k >= 0
    <3>1. Quo(k, 7) = k \div 7
      BY <1>1, <2>1, QuoOfNat, SMT
    <3>2. Rem(k, 7) = k % 7
      BY <1>1, <2>1, <3>1, SMT DEF Rem
    <3> QED
      BY <1>1, <2>1, <3>1, <3>2, SMT
  <2>2. CASE k < 0
    <3>1. Quo(k, 7) = -((-k) \div 7)
      BY <1>1, <2>2, QuoOfNegative, SMT
    <3>2. Rem(k, 7) = -((-k) % 7)
      BY <1>1, <2>2, <3>1, SMT DEF Rem
    <3> QED
      BY <1>1, <2>2, <3>1, <3>2, SMT
  <2> QED
    BY <1>1, <2>1, <2>2, SMT
<1> QED
  BY <1>2, SMT DEF DayOfWeek, k

\* The calendar, for every day a date's text can name.
THEOREM CalendarIsExact ==
  ASSUME NEW days \in Int, -719162 <= days, days <= 2932896
  PROVE  IsCivil(days)
<1>1. PICK y, m, d : IsDate(y, m, d) /\ days = DaysFromCivil(y, m, d)
  BY DayIsADate
<1>2. CivilFromDays(days) = <<y, m, d>>
  BY <1>1, DatesReadBack
<1>3. CivilFromDays(days + 1) = DateAfter(y, m, d)
  BY <1>1, DayAfter
<1>4. y \in 1 .. 9999 /\ m \in 1 .. 12 /\ d \in 1 .. DaysInMonth(y, m)
  <2>1. -719162 <= DaysFromCivil(y, m, d) /\ DaysFromCivil(y, m, d) <= 2932896
    BY <1>1, SMT
  <2>2. y \in 1 .. 9999
    BY <1>1, <2>1, YearsOfDays
  <2> QED
    BY <1>1, <2>2 DEF IsDate
<1>5. ParseDate(<<y, m, d>>) = [ok |-> TRUE, days |-> days]
  BY <1>1, <1>4 DEF ParseDate
<1>6. DayOfWeek(days + 1) = (DayOfWeek(days) % 7) + 1
  <2> DEFINE next == days + 1
  <2>1. next \in Int
    BY SMT
  <2>2. DayOfWeek(days) = ((days + 3) % 7) + 1 /\ DayOfWeek(next) = ((next + 3) % 7) + 1
    BY <2>1, WeekDay
  <2> QED
    BY <2>2, SMT
<1>7. days = 0 => CivilFromDays(days) = <<1970, 1, 1>> /\ DayOfWeek(0) = 4
  <2>1. IsDate(1970, 1, 1)
    BY SMT DEF IsDate, DaysInMonth
  <2>2. DaysFromCivil(1970, 1, 1) = 0
    BY SMT DEF DaysFromCivil, DayOfYear, DaysBeforeYear, EraOf, Quo, Absolute
  <2>3. CivilFromDays(0) = <<1970, 1, 1>>
    BY <2>1, <2>2, DatesReadBack
  <2>4. DayOfWeek(0) = 4
    BY WeekDay, SMT
  <2> QED
    BY <2>3, <2>4
<1> QED
  BY <1>2, <1>3, <1>5, <1>6, <1>7 DEF IsCivil, DateAfter

-----------------------------------------------------------------------------
(* Instants.                                                               *)

\* What Go's division and remainder are.
LEMMA Truncated ==
  ASSUME NEW n \in Int, NEW k \in Nat \ {0}
  PROVE  /\ Quo(n, k) \in Int /\ Rem(n, k) \in Int /\ n = k * Quo(n, k) + Rem(n, k)
         /\ n >= 0 => 0 <= Rem(n, k) /\ Rem(n, k) < k
         /\ n < 0 => -k < Rem(n, k) /\ Rem(n, k) <= 0
<1>1. CASE n >= 0
  <2> DEFINE q == n \div k
  <2>1. q \in Int /\ k * q <= n /\ n < k * q + k
    OBVIOUS
  <2>2. Quo(n, k) = q
    BY <1>1, QuoOfNat
  <2> HIDE DEF q
  <2>3. k * q \in Int
    BY <2>1
  <2>4. Rem(n, k) = n - k * q
    BY <2>2 DEF Rem
  <2> QED
    BY <1>1, <2>1, <2>2, <2>3, <2>4, SMT
<1>2. CASE n < 0
  <2> DEFINE q == (-n) \div k
  <2>1. q \in Int /\ k * q <= -n /\ -n < k * q + k
    OBVIOUS
  <2>2. Quo(n, k) = -q
    BY <1>2, QuoOfNegative
  <2> HIDE DEF q
  <2>3. k * q \in Int /\ k * (-q) = -(k * q)
    BY <2>1
  <2>4. Rem(n, k) = n + k * q
    BY <2>1, <2>2, <2>3 DEF Rem
  <2> QED
    BY <1>2, <2>1, <2>2, <2>3, <2>4, SMT
<1> QED
  BY <1>1, <1>2, SMT

\* Seconds order instants, whatever their fractions.
LEMMA Ordered ==
  ASSUME NEW k \in Nat \ {0}, NEW s \in Int, NEW f \in Int, NEW a \in Int, NEW b \in Int,
         f < k, 0 <= b, s * k + f >= a * k + b
  PROVE  s >= a
<1>1. \A x \in Int : x >= 1 => x * k >= k
  OBVIOUS
<1>2. s * k \in Int /\ a * k \in Int
  OBVIOUS
<1>3. a - s >= 1 => (a - s) * k >= k
  BY <1>1
<1>4. (a - s) * k = a * k - s * k
  OBVIOUS
<1> QED
  BY <1>2, <1>3, <1>4, SMT

\* The floor taken before the seconds are worked on, the one for the parts included.
LEMMA SecondsOf ==
  ASSUME NEW t \in Int
  PROVE  \E s, f \in Int :
           /\ SecFrac(t) = <<s, f>> /\ 0 <= f /\ f < Nanos /\ t = s * Nanos + f
           /\ (IF t < 0 /\ Rem(t, Nanos) # 0 THEN Quo(t, Nanos) - 1 ELSE Quo(t, Nanos)) = s
<1> DEFINE q == Quo(t, Nanos)
           r == Rem(t, Nanos)
<1>1. /\ q \in Int /\ r \in Int /\ t = Nanos * q + r
      /\ t >= 0 => 0 <= r /\ r < Nanos
      /\ t < 0 => -Nanos < r /\ r <= 0
  BY TemporalAssumption, Truncated
<1>2. SecFrac(t) = IF r < 0 THEN <<q - 1, r + Nanos>> ELSE <<q, r>>
  BY DEF SecFrac
<1> HIDE DEF q, r
<1>3. Nanos \in Int /\ Nanos * q = q * Nanos /\ (q - 1) * Nanos = q * Nanos - Nanos
  BY <1>1, TemporalAssumption
<1>4. q * Nanos \in Int
  BY <1>1, <1>3
<1>5. CASE r < 0
  <2>1. t < 0
    BY <1>1, <1>5, SMT
  <2>2. t = (q - 1) * Nanos + (r + Nanos)
    BY <1>1, <1>3, <1>4, SMT
  <2>3. q - 1 \in Int /\ r + Nanos \in Int /\ 0 <= r + Nanos /\ r + Nanos < Nanos
    BY <1>1, <1>3, <1>5, <2>1, SMT
  <2>4. r # 0 /\ SecFrac(t) = <<q - 1, r + Nanos>>
    BY <1>1, <1>2, <1>5, SMT
  <2> QED
    BY <2>1, <2>2, <2>3, <2>4 DEF q, r
<1>6. CASE ~(r < 0)
  <2>1. 0 <= r /\ r < Nanos /\ ~(t < 0 /\ r # 0) /\ t = q * Nanos + r
    BY <1>1, <1>3, <1>4, <1>6, TemporalAssumption, SMT
  <2>2. SecFrac(t) = <<q, r>>
    BY <1>2, <1>6
  <2> QED
    BY <1>1, <2>1, <2>2 DEF q, r
<1> QED
  BY <1>5, <1>6

\* A second is a second of a day.
LEMMA DayAndSecondOf ==
  ASSUME NEW s \in Int
  PROVE  \E days, sod \in Int :
           DayAndSecond(s) = <<days, sod>> /\ 0 <= sod /\ sod < 86400 /\ s = 86400 * days + sod
<1> DEFINE q == Quo(s, 86400)
           r == Rem(s, 86400)
<1>1. /\ q \in Int /\ r \in Int /\ s = 86400 * q + r
      /\ s >= 0 => 0 <= r /\ r < 86400
      /\ s < 0 => -86400 < r /\ r <= 0
  BY Truncated, SMT
<1>2. DayAndSecond(s) = IF r < 0 THEN <<q - 1, r + 86400>> ELSE <<q, r>>
  BY SMT DEF DayAndSecond
<1> HIDE DEF q, r
<1>3. CASE r < 0
  <2>1. DayAndSecond(s) = <<q - 1, r + 86400>>
    BY <1>2, <1>3, SMT
  <2>2. q - 1 \in Int /\ r + 86400 \in Int /\ 0 <= r + 86400 /\ r + 86400 < 86400 /\ s = 86400 * (q - 1) + (r + 86400)
    BY <1>1, <1>3, SMT
  <2> QED
    BY <2>1, <2>2, SMT
<1>4. CASE ~(r < 0)
  <2>1. DayAndSecond(s) = <<q, r>>
    BY <1>2, <1>4, SMT
  <2>2. 0 <= r /\ r < 86400
    BY <1>1, <1>4, SMT
  <2> QED
    BY <1>1, <2>1, <2>2, SMT
<1> QED
  BY <1>3, <1>4, SMT

\* A second of a day is an hour, a minute and a second.
LEMMA ClockOf ==
  ASSUME NEW sod \in Int, 0 <= sod, sod < 86400
  PROVE  \E h, m, s \in Int :
           /\ Clock(sod) = <<h, m, s>> /\ sod = 3600 * h + 60 * m + s
           /\ 0 <= h /\ h < 24 /\ 0 <= m /\ m < 60 /\ 0 <= s /\ s < 60
<1> DEFINE h == Quo(sod, 3600)
           left == Rem(sod, 3600)
           m == Quo(left, 60)
           low == Rem(left, 60)
           s == Rem(sod, 60)
<1>1. h \in Int /\ left \in Int /\ sod = 3600 * h + left /\ 0 <= left /\ left < 3600
  BY Truncated, SMT
<1>2. s \in Int /\ Quo(sod, 60) \in Int /\ sod = 60 * Quo(sod, 60) + s /\ 0 <= s /\ s < 60
  BY Truncated, SMT
<1>3. Clock(sod) = <<h, m, s>>
  BY SMT DEF Clock
<1> HIDE DEF h, left, s
<1>4. m \in Int /\ low \in Int /\ left = 60 * m + low /\ 0 <= low /\ low < 60
  <2>1. 60 \in Nat \ {0}
    BY SMT
  <2> QED
    BY <1>1, <2>1, Truncated, SMT
<1> HIDE DEF m, low
<1>5. s = low
  BY <1>1, <1>2, <1>4, SMTT(30)
<1>6. 0 <= h /\ h < 24 /\ 0 <= m /\ m < 60 /\ sod = 3600 * h + 60 * m + s
  BY <1>1, <1>2, <1>4, <1>5, SMT
<1> QED
  BY <1>1, <1>2, <1>3, <1>4, <1>6, SMT

\* An instant passes the guard of every instant.
LEMMA InstantHasASecond ==
  ASSUME NEW s \in Int, NEW f \in Int, 0 <= f, f < Nanos, IsInstant(s * Nanos + f)
  PROVE  InstantAt(s, f) = [ok |-> TRUE, nano |-> s * Nanos + f] /\ s \in -MaxSec .. MaxSec
<1>1. /\ Nanos \in Nat \ {0} /\ MaxSec \in Nat /\ MaxFrac \in Int /\ 0 <= MaxFrac /\ MaxFrac < Nanos
      /\ -MaxSec \in Int /\ (-MaxSec) * Nanos = -(MaxSec * Nanos) /\ MaxSec * Nanos \in Int /\ s * Nanos \in Int
  BY TemporalAssumption, SMT
<1>2. -(MaxSec * Nanos) <= s * Nanos + f /\ s * Nanos + f <= MaxSec * Nanos + MaxFrac
  BY DEF IsInstant
<1>3. s >= -MaxSec
  <2> DEFINE a == -MaxSec
  <2>1. a \in Int /\ s * Nanos + f >= a * Nanos + 0
    BY <1>1, <1>2, SMT
  <2> HIDE DEF a
  <2>2. s >= a
    BY <1>1, <2>1, Ordered, SMT
  <2> QED
    BY <2>2 DEF a
<1>4. MaxSec >= s
  <2>1. MaxSec * Nanos + MaxFrac >= s * Nanos + f /\ MaxSec \in Int
    BY <1>1, <1>2, SMT
  <2> QED
    BY <1>1, <2>1, Ordered
<1>5. s = MaxSec => f <= MaxFrac
  BY <1>1, <1>2, SMT
<1>6. s \in -MaxSec .. MaxSec
  BY <1>1, <1>3, <1>4, SMT
<1> QED
  BY <1>5, <1>6 DEF InstantAt

\* What the parts of a text are.
LEMMA TextOf ==
  ASSUME NEW y, NEW m, NEW d, NEW h, NEW mi, NEW s, NEW f
  PROVE  LET text == <<y, m, d>> \o <<h, mi, s>> \o <<f>> IN
         /\ text[1] = y /\ text[2] = m /\ text[3] = d /\ text[4] = h /\ text[5] = mi /\ text[6] = s /\ text[7] = f
         /\ SubSeq(text, 1, 3) = <<y, m, d>> /\ SubSeq(text, 4, 6) = <<h, mi, s>>
<1> DEFINE S == {y, m, d, h, mi, s, f}
           date == <<y, m, d>>
           clock == <<h, mi, s>>
           head == date \o clock
           text == head \o <<f>>
<1>1. /\ date \in Seq(S) /\ Len(date) = 3 /\ date[1] = y /\ date[2] = m /\ date[3] = d
      /\ clock \in Seq(S) /\ Len(clock) = 3 /\ clock[1] = h /\ clock[2] = mi /\ clock[3] = s
      /\ <<f>> \in Seq(S) /\ Len(<<f>>) = 1 /\ <<f>>[1] = f
  OBVIOUS
<1> HIDE DEF S, date, clock
<1>2. /\ head \in Seq(S) /\ Len(head) = 6
      /\ head[1] = y /\ head[2] = m /\ head[3] = d /\ head[4] = h /\ head[5] = mi /\ head[6] = s
  <2>1. /\ head \in Seq(S) /\ Len(head) = Len(date) + Len(clock)
        /\ \A i \in 1 .. Len(date) + Len(clock) : head[i] = IF i <= Len(date) THEN date[i] ELSE clock[i - Len(date)]
    BY <1>1, ConcatProperties, Zenon
  <2> HIDE DEF head
  <2> QED
    BY <1>1, <2>1, SMT
<1> HIDE DEF head
<1>3. /\ text \in Seq(S) /\ Len(text) = 7
      /\ text[1] = y /\ text[2] = m /\ text[3] = d /\ text[4] = h /\ text[5] = mi /\ text[6] = s /\ text[7] = f
  <2>1. /\ text \in Seq(S) /\ Len(text) = Len(head) + Len(<<f>>)
        /\ \A i \in 1 .. Len(head) + Len(<<f>>) : text[i] = IF i <= Len(head) THEN head[i] ELSE <<f>>[i - Len(head)]
    BY <1>1, <1>2, ConcatProperties, Zenon
  <2> HIDE DEF text
  <2> QED
    BY <1>1, <1>2, <2>1, SMT
<1> HIDE DEF text
<1>4. SubSeq(text, 1, 3) = date
  <2>1. \A i \in 1 .. Len(text) : text[i] \in S
    BY <1>3, ElementOfSeq, Zenon
  <2>2. /\ SubSeq(text, 1, 3) \in Seq(S) /\ Len(SubSeq(text, 1, 3)) = 3
        /\ \A i \in 1 .. 3 : SubSeq(text, 1, 3)[i] = text[i]
    <3>1. \A i \in 1 .. 3 : text[i] \in S
      BY <1>3, <2>1, SMT
    <3> QED
      BY <3>1, SubSeqProperties, SMT
  <2>3. \A i \in 1 .. 3 : SubSeq(text, 1, 3)[i] = date[i]
    BY <1>1, <1>3, <2>2, SMT
  <2> QED
    BY <1>1, <2>2, <2>3, SeqEqual, SMT
<1>5. SubSeq(text, 4, 6) = clock
  <2>1. \A i \in 1 .. Len(text) : text[i] \in S
    BY <1>3, ElementOfSeq, Zenon
  <2>2. /\ SubSeq(text, 4, 6) \in Seq(S) /\ Len(SubSeq(text, 4, 6)) = 3
        /\ \A i \in 1 .. 3 : SubSeq(text, 4, 6)[i] = text[i + 3]
    <3>1. \A i \in 4 .. 6 : text[i] \in S
      BY <1>3, <2>1, SMT
    <3> QED
      BY <3>1, SubSeqProperties, SMT
  <2>3. \A i \in 1 .. 3 : SubSeq(text, 4, 6)[i] = clock[i]
    BY <1>1, <1>3, <2>2, SMT
  <2> QED
    BY <1>1, <2>2, <2>3, SeqEqual, SMT
<1> QED
  BY <1>3, <1>4, <1>5 DEF text, head, date, clock

\* The parts of an instant are those of its day and of the second of the day.
LEMMA PartsOf ==
  ASSUME NEW ds, NEW y, NEW m, NEW d, NEW h, NEW mi, NEW s,
         CivilFromDays(ds[1]) = <<y, m, d>>, Clock(ds[2]) = <<h, mi, s>>
  PROVE  /\ ExtractAt(ds, "year") = y /\ ExtractAt(ds, "month") = m /\ ExtractAt(ds, "day") = d
         /\ ExtractAt(ds, "hour") = h /\ ExtractAt(ds, "minute") = mi /\ ExtractAt(ds, "second") = s
<1>1. /\ DateParts["year"] = 1 /\ DateParts["month"] = 2 /\ DateParts["day"] = 3
      /\ ClockParts["hour"] = 1 /\ ClockParts["minute"] = 2 /\ ClockParts["second"] = 3
  BY DEF DateParts, ClockParts
<1>2. /\ "year" \in DateUnits /\ "month" \in DateUnits /\ "day" \in DateUnits
      /\ "hour" \notin DateUnits /\ "minute" \notin DateUnits /\ "second" \notin DateUnits
  BY DEF DateUnits
<1>3. /\ DateExtract(ds[1], "year") = y /\ DateExtract(ds[1], "month") = m /\ DateExtract(ds[1], "day") = d
  BY <1>1 DEF DateExtract
<1> QED
  BY <1>1, <1>2, <1>3 DEF ExtractAt

\* A timestamp is read back as it was written and agrees with its extracted parts.
LEMMA TimestampParts ==
  ASSUME InCalendar, NEW t, IsInstant(t)
  PROVE  /\ ParseTimestamp(TimestampText(t)) = [ok |-> TRUE, nano |-> t]
         /\ <<TimestampExtract(t, "year"), TimestampExtract(t, "month"), TimestampExtract(t, "day")>>
              = SubSeq(TimestampText(t), 1, 3)
         /\ <<TimestampExtract(t, "hour"), TimestampExtract(t, "minute"), TimestampExtract(t, "second")>>
              = SubSeq(TimestampText(t), 4, 6)
<1>1. PICK s, f \in Int :
        /\ SecFrac(t) = <<s, f>> /\ 0 <= f /\ f < Nanos /\ t = s * Nanos + f
        /\ (IF t < 0 /\ Rem(t, Nanos) # 0 THEN Quo(t, Nanos) - 1 ELSE Quo(t, Nanos)) = s
  BY SecondsOf DEF IsInstant
<1>2. PICK days, sod \in Int : DayAndSecond(s) = <<days, sod>> /\ 0 <= sod /\ sod < 86400 /\ s = 86400 * days + sod
  BY <1>1, DayAndSecondOf, SMT
<1>3. PICK h, mi, sec \in Int :
        /\ Clock(sod) = <<h, mi, sec>> /\ sod = 3600 * h + 60 * mi + sec
        /\ 0 <= h /\ h < 24 /\ 0 <= mi /\ mi < 60 /\ 0 <= sec /\ sec < 60
  BY <1>2, ClockOf, SMT
<1>4. PICK y, m, d : IsDate(y, m, d) /\ days = DaysFromCivil(y, m, d)
  BY DayIsADate
<1>5. CivilFromDays(days) = <<y, m, d>>
  BY <1>4, DatesReadBack
<1>6. InstantAt(s, f) = [ok |-> TRUE, nano |-> t] /\ s \in -MaxSec .. MaxSec
  BY <1>1, InstantHasASecond
<1>7. days \in -((MaxSec \div 86400) + 1) .. MaxSec \div 86400
  <2> DEFINE last == MaxSec \div 86400
  <2>1. MaxSec \in Nat /\ s \in Int /\ -MaxSec <= s /\ s <= MaxSec
    BY <1>6, TemporalAssumption, SMT
  <2>2. last \in Int /\ 86400 * last <= MaxSec /\ MaxSec < 86400 * last + 86400
    BY <2>1, SMT
  <2> HIDE DEF last
  <2>3. days \in Int /\ -(last + 1) <= days /\ days <= last
    BY <1>2, <2>1, <2>2, SMT
  <2> QED
    BY <2>2, <2>3, SMT DEF last
<1>8. -719162 <= DaysFromCivil(y, m, d) /\ DaysFromCivil(y, m, d) <= 2932896
  BY <1>2, <1>4, <1>7, TemporalAssumption, SMT DEF InCalendar
<1>9. y \in 1 .. 9999
  BY <1>4, <1>8, YearsOfDays
<1> DEFINE text == <<y, m, d>> \o <<h, mi, sec>> \o <<f>>
<1>10. TimestampText(t) = text
  <2>1. SecFrac(t)[1] = s /\ SecFrac(t)[2] = f
    BY <1>1, SMT
  <2>2. DayAndSecond(s)[1] = days /\ DayAndSecond(s)[2] = sod
    BY <1>2, SMT
  <2>3. TextAt(DayAndSecond(s), f) = CivilFromDays(days) \o Clock(sod) \o <<f>>
    BY <2>2, Zenon DEF TextAt
  <2> QED
    <3>1. TimestampText(t) = TextAt(DayAndSecond(s), f)
      BY <2>1, Zenon DEF TimestampText
    <3>2. CivilFromDays(days) \o Clock(sod) \o <<f>> = <<y, m, d>> \o <<h, mi, sec>> \o <<f>>
      <4>1. Clock(sod) = <<h, mi, sec>>
        BY <1>3, SMT
      <4> QED
        BY <1>5, <4>1, Zenon
    <3> QED
      BY <2>3, <3>1, <3>2, Zenon
<1>11. /\ text[1] = y /\ text[2] = m /\ text[3] = d /\ text[4] = h /\ text[5] = mi /\ text[6] = sec /\ text[7] = f
       /\ SubSeq(text, 1, 3) = <<y, m, d>> /\ SubSeq(text, 4, 6) = <<h, mi, sec>>
  BY TextOf
<1> HIDE DEF text
<1>12. ParseDate(text) = [ok |-> TRUE, days |-> days]
  BY <1>4, <1>9, <1>11 DEF ParseDate, IsDate
<1>13. ParseTimestamp(text) = [ok |-> TRUE, nano |-> t]
  <2>1. f \in 0 .. Nanos - 1
    BY <1>1, TemporalAssumption, SMT
  <2>2. text[4] \in 0 .. 23 /\ text[5] \in 0 .. 59 /\ text[6] \in 0 .. 59 /\ text[7] \in 0 .. Nanos - 1
    BY <1>3, <1>11, <2>1, SMT
  <2>3. days * 86400 + text[4] * 3600 + text[5] * 60 + text[6] = s
    BY <1>2, <1>3, <1>11, SMT
  <2>4. /\ [ok |-> TRUE, days |-> days].ok /\ [ok |-> TRUE, days |-> days].days = days
    BY SMT
  <2>5. ParseTimestamp(text) = InstantAt(s, f)
    BY <1>7, <1>11, <1>12, <2>2, <2>3, <2>4, SMT DEF ParseTimestamp, InstantOn
  <2> QED
    BY <1>6, <2>5
<1>14. \A unit : TimestampExtract(t, unit) = ExtractAt(<<days, sod>>, unit)
  BY <1>1, <1>2 DEF TimestampExtract
<1>15. /\ ExtractAt(<<days, sod>>, "year") = y /\ ExtractAt(<<days, sod>>, "month") = m
       /\ ExtractAt(<<days, sod>>, "day") = d /\ ExtractAt(<<days, sod>>, "hour") = h
       /\ ExtractAt(<<days, sod>>, "minute") = mi /\ ExtractAt(<<days, sod>>, "second") = sec
  <2>1. <<days, sod>>[1] = days /\ <<days, sod>>[2] = sod
    OBVIOUS
  <2> QED
    BY <1>3, <1>5, <2>1, PartsOf
<1> QED
  BY <1>10, <1>11, <1>13, <1>14, <1>15

\* A truncated quotient is known by a remainder with the dividend's sign.
LEMMA TruncationIs ==
  ASSUME NEW k \in Nat \ {0}, NEW q \in Int, NEW r \in Int,
         q * k + r >= 0 => 0 <= r /\ r < k,
         q * k + r < 0 => -k < r /\ r <= 0
  PROVE  Quo(q * k + r, k) = q
<1> DEFINE n == q * k + r
           p == Quo(n, k)
           e == Rem(n, k)
<1>1. n \in Int /\ q * k \in Int
  OBVIOUS
<1>2. /\ p \in Int /\ e \in Int /\ n = k * p + e
      /\ n >= 0 => 0 <= e /\ e < k
      /\ n < 0 => -k < e /\ e <= 0
  <2> HIDE DEF n
  <2> QED
    BY <1>1, Truncated
<1>3. n = q * k + r
  OBVIOUS
<1> HIDE DEF p, e, n
<1>4. k * p = p * k /\ p * k \in Int
  BY <1>2
<1>5. p * k + e = q * k + r
  BY <1>2, <1>3, <1>4, SMT
<1>6. ASSUME n >= 0 PROVE p = q
  <2>1. 0 <= e /\ e < k /\ 0 <= r /\ r < k
    BY <1>2, <1>3, <1>6
  <2>2. p >= q
    BY <1>1, <1>2, <1>4, <1>5, <2>1, Ordered, SMT
  <2>3. q >= p
    BY <1>1, <1>2, <1>4, <1>5, <2>1, Ordered, SMT
  <2> QED
    BY <1>2, <2>2, <2>3, SMT
<1>7. ASSUME n < 0 PROVE p = q
  <2>1. -k < e /\ e <= 0 /\ -k < r /\ r <= 0
    BY <1>2, <1>3, <1>7
  <2>2. (-p) * k = -(p * k) /\ (-q) * k = -(q * k) /\ -p \in Int /\ -q \in Int /\ -e \in Int /\ -r \in Int
    BY <1>2
  <2>3. -e < k /\ 0 <= -e /\ -r < k /\ 0 <= -r
    BY <1>2, <2>1, SMT
  <2>4. (-p) * k + (-e) = (-q) * k + (-r)
    BY <1>1, <1>2, <1>4, <1>5, <2>2, SMT
  <2>5. (-p) * k \in Int /\ (-q) * k \in Int
    BY <1>1, <1>4, <2>2, SMT
  <2> DEFINE pp == -p
             qq == -q
             ee == -e
             rr == -r
  <2>6. pp \in Int /\ qq \in Int /\ ee \in Int /\ rr \in Int /\ pp = -p /\ qq = -q
        /\ pp * k + ee >= qq * k + rr /\ qq * k + rr >= pp * k + ee
        /\ ee < k /\ 0 <= ee /\ rr < k /\ 0 <= rr
    BY <2>2, <2>3, <2>4, <2>5, SMT
  <2> HIDE DEF pp, qq, ee, rr
  <2>7. pp >= qq
    BY <2>6, Ordered
  <2>8. qq >= pp
    BY <2>6, Ordered
  <2> QED
    BY <1>2, <2>6, <2>7, <2>8, SMT
<1>8. p = q
  BY <1>1, <1>6, <1>7, SMT
<1> QED
  BY <1>8, Zenon DEF p, n

\* The code's correction by the fractions is a truncation.
LEMMA DiffTruncates ==
  ASSUME NEW s \in Int, NEW f \in Int, NEW k \in Nat \ {0}, -k < f, f < k
  PROVE  Quo(s * k + f, k) = WholeSeconds(s, f)
<1> DEFINE q == WholeSeconds(s, f)
           r == IF s > 0 /\ f < 0 THEN f + k ELSE IF s < 0 /\ f > 0 THEN f - k ELSE f
<1>1. q = IF s > 0 /\ f < 0 THEN s - 1 ELSE IF s < 0 /\ f > 0 THEN s + 1 ELSE s
  BY SMT DEF WholeSeconds
<1>2. q \in Int /\ r \in Int
  BY <1>1, SMT
<1>3. (s - 1) * k = s * k - k /\ (s + 1) * k = s * k + k /\ s * k \in Int
  OBVIOUS
<1> HIDE DEF q
<1>4. q * k + r = s * k + f
  <2>1. CASE s > 0 /\ f < 0
    <3>1. q = s - 1 /\ r = f + k
      BY <1>1, <2>1, SMT
    <3> HIDE DEF r
    <3> QED
      BY <1>3, <3>1, SMT
  <2>2. CASE ~(s > 0 /\ f < 0) /\ s < 0 /\ f > 0
    <3>1. q = s + 1 /\ r = f - k
      BY <1>1, <2>2, SMT
    <3> HIDE DEF r
    <3> QED
      BY <1>3, <3>1, SMT
  <2>3. CASE ~(s > 0 /\ f < 0) /\ ~(s < 0 /\ f > 0)
    <3>1. q = s /\ r = f
      BY <1>1, <2>3, SMT
    <3> HIDE DEF r
    <3> QED
      BY <1>3, <3>1, SMT
  <2> QED
    BY <2>1, <2>2, <2>3, SMT
<1>5. /\ q >= 0 => q * k >= 0
      /\ q <= 0 => q * k <= 0
      /\ q >= 1 => q * k >= k
      /\ q <= -1 => q * k <= -k
      /\ q * k \in Int
  BY <1>2
<1>6. q * k + r >= 0 => 0 <= r /\ r < k
  BY <1>1, <1>2, <1>5, SMT
<1>7. q * k + r < 0 => -k < r /\ r <= 0
  BY <1>1, <1>2, <1>5, SMT
<1> HIDE DEF r
<1>8. Quo(q * k + r, k) = q
  BY <1>2, <1>6, <1>7, TruncationIs
<1> QED
  BY <1>4, <1>8 DEF q

\* A difference is the elapsed time truncated toward zero (timestamp.Diff).
LEMMA DifferenceIsTruncated ==
  ASSUME NEW t \in Int, NEW o \in Int
  PROVE  TimestampDiff(t, o) = Quo(t - o, Nanos)
<1>1. PICK s, f \in Int : SecFrac(t) = <<s, f>> /\ 0 <= f /\ f < Nanos /\ t = s * Nanos + f
  BY SecondsOf
<1>2. PICK os, of \in Int : SecFrac(o) = <<os, of>> /\ 0 <= of /\ of < Nanos /\ o = os * Nanos + of
  BY SecondsOf
<1>3. TimestampDiff(t, o) = WholeSeconds(s - os, f - of)
  BY <1>1, <1>2 DEF TimestampDiff
<1>4. /\ Nanos \in Nat \ {0} /\ s - os \in Int /\ f - of \in Int /\ -Nanos < f - of /\ f - of < Nanos
      /\ s * Nanos \in Int /\ os * Nanos \in Int
  BY <1>1, <1>2, TemporalAssumption
<1>5. (s - os) * Nanos = s * Nanos - os * Nanos
  BY <1>4
<1>6. t - o = (s - os) * Nanos + (f - of)
  BY <1>1, <1>2, <1>4, <1>5, SMT
<1>7. Quo((s - os) * Nanos + (f - of), Nanos) = WholeSeconds(s - os, f - of)
  BY <1>4, DiffTruncates
<1> QED
  BY <1>3, <1>6, <1>7

\* An addition that is accepted is exact and undone by the difference (timestamp.AddDuration).
LEMMA AdditionIsExact ==
  ASSUME NEW t \in Int, NEW seconds \in Int, AddDuration(t, seconds).ok
  PROVE  LET later == AddDuration(t, seconds) IN
         later.nano = t + seconds * Nanos /\ TimestampDiff(later.nano, t) = seconds
<1>1. PICK s, f \in Int : SecFrac(t) = <<s, f>> /\ 0 <= f /\ f < Nanos /\ t = s * Nanos + f
  BY SecondsOf
<1>2. AddDuration(t, seconds) = InstantAt(s + seconds, f)
  BY <1>1 DEF AddDuration
<1>3. InstantAt(s + seconds, f) = [ok |-> TRUE, nano |-> (s + seconds) * Nanos + f]
  BY <1>2 DEF InstantAt
<1> DEFINE later == (s + seconds) * Nanos + f
<1>4. Nanos \in Nat \ {0} /\ s * Nanos \in Int /\ seconds * Nanos \in Int
  BY <1>1, TemporalAssumption
<1>5. (s + seconds) * Nanos = s * Nanos + seconds * Nanos
  BY <1>4
<1>6. later = t + seconds * Nanos /\ later \in Int /\ later - t = seconds * Nanos + 0
  BY <1>1, <1>4, <1>5, SMT
<1> HIDE DEF later
<1>7. TimestampDiff(later, t) = Quo(seconds * Nanos + 0, Nanos)
  BY <1>6, DifferenceIsTruncated
<1>8. Quo(seconds * Nanos + 0, Nanos) = WholeSeconds(seconds, 0)
  BY <1>4, DiffTruncates, SMT
<1>9. WholeSeconds(seconds, 0) = seconds
  BY SMT DEF WholeSeconds
<1> QED
  BY <1>2, <1>3, <1>6, <1>7, <1>8, <1>9 DEF later

\* Instants are exact: written and read back, added to and subtracted, for any fraction of a
\* second, before 1970 as after (parseTimestamp, timestamp.String, AddDuration, Diff, DateExtract).
THEOREM InstantsAlwaysExact ==
  ASSUME InCalendar, NEW t, IsInstant(t), NEW o, IsInstant(o), NEW seconds \in Int
  PROVE  IsExact(t, o, seconds)
<1>1. t \in Int /\ o \in Int
  BY DEF IsInstant
<1> QED
  BY <1>1, TimestampParts, DifferenceIsTruncated, AdditionIsExact DEF IsExact

\* What passes the guard of every instant is an instant.
LEMMA AnAcceptedSecond ==
  ASSUME NEW s \in Int, NEW f \in Int, 0 <= f, f < Nanos, InstantAt(s, f).ok
  PROVE  IsInstant(InstantAt(s, f).nano)
<1>1. InstantAt(s, f) = [ok |-> TRUE, nano |-> s * Nanos + f]
  BY DEF InstantAt
<1>2. s \in -MaxSec .. MaxSec /\ (s = MaxSec => f <= MaxFrac)
  BY DEF InstantAt
<1>3. /\ Nanos \in Nat \ {0} /\ MaxSec \in Nat /\ MaxFrac \in Int /\ 0 <= MaxFrac
      /\ s * Nanos \in Int /\ MaxSec * Nanos \in Int
  BY TemporalAssumption, SMT
<1>4. /\ (s - (-MaxSec)) * Nanos = s * Nanos + MaxSec * Nanos
      /\ (MaxSec - s) * Nanos = MaxSec * Nanos - s * Nanos
  BY <1>3
<1>5. \A x \in Int : (x >= 0 => x * Nanos >= 0) /\ (x >= 1 => x * Nanos >= Nanos) /\ x * Nanos \in Int
  BY <1>3
<1> DEFINE n == s * Nanos + f
<1>6. n \in Int /\ n = s * Nanos + f
  BY <1>3
<1> HIDE DEF n
<1>7. -(MaxSec * Nanos) <= n
  <2>1. (s - (-MaxSec)) * Nanos >= 0
    <3>1. s - (-MaxSec) \in Int /\ s - (-MaxSec) >= 0
      BY <1>2, <1>3, SMT
    <3> QED
      BY <1>5, <3>1
  <2> QED
    BY <1>3, <1>4, <1>6, <2>1, SMT
<1>8. n <= MaxSec * Nanos + MaxFrac
  <2>1. CASE s = MaxSec
    BY <1>2, <1>3, <1>6, <2>1, SMT
  <2>2. CASE s # MaxSec
    <3>1. MaxSec - s \in Int /\ MaxSec - s >= 1
      BY <1>2, <1>3, <2>2, SMT
    <3>2. (MaxSec - s) * Nanos >= Nanos
      BY <1>5, <3>1
    <3> QED
      BY <1>3, <1>4, <1>6, <3>2, SMT
  <2> QED
    BY <2>1, <2>2
<1>9. IsInstant(n)
  BY <1>6, <1>7, <1>8 DEF IsInstant
<1> QED
  BY <1>1, <1>9 DEF n

\* What is read or computed is an instant, between two ends that are within int64 in the code, and
\* InstantsAlwaysExact speaks of it (parseTimestamp, timestamp.AddDuration).
THEOREM InstantsStayInRange ==
  /\ \A text : ParseTimestamp(text).ok => IsInstant(ParseTimestamp(text).nano)
  /\ \A t, seconds \in Int : AddDuration(t, seconds).ok => IsInstant(AddDuration(t, seconds).nano)
<1>1. Nanos \in Nat \ {0}
  BY TemporalAssumption
<1>2. ASSUME NEW text, ParseTimestamp(text).ok
      PROVE  IsInstant(ParseTimestamp(text).nano)
  <2> DEFINE date == ParseDate(text)
             second == date.days * 86400 + text[4] * 3600 + text[5] * 60 + text[6]
  <2>1. ~[ok |-> FALSE, nano |-> 0].ok
    OBVIOUS
  <2>2. /\ text[4] \in 0 .. 23 /\ text[5] \in 0 .. 59 /\ text[6] \in 0 .. 59 /\ text[7] \in 0 .. Nanos - 1
        /\ date.days \in -((MaxSec \div 86400) + 1) .. MaxSec \div 86400
        /\ ParseTimestamp(text) = InstantAt(second, text[7])
    BY <1>2, <2>1, SMT DEF ParseTimestamp, InstantOn
  <2>3. date.days \in Int /\ text[4] \in Int /\ text[5] \in Int /\ text[6] \in Int
    <3> HIDE DEF date
    <3> QED
      BY <2>2, SMT
  <2>4. second \in Int
    <3> HIDE DEF date
    <3> QED
      BY <2>3, SMT
  <2> DEFINE f == text[7]
  <2>5. f \in Int /\ 0 <= f /\ f < Nanos /\ ParseTimestamp(text) = InstantAt(second, f)
    BY <1>1, <2>2, SMT
  <2> HIDE DEF second, f
  <2>6. InstantAt(second, f).ok
    BY <1>2, <2>5, SMT
  <2>7. IsInstant(InstantAt(second, f).nano)
    BY <2>4, <2>5, <2>6, AnAcceptedSecond, SMT
  <2> QED
    BY <2>5, <2>7, SMT
<1>3. ASSUME NEW t \in Int, NEW seconds \in Int, AddDuration(t, seconds).ok
      PROVE  IsInstant(AddDuration(t, seconds).nano)
  <2>1. PICK s, f \in Int : SecFrac(t) = <<s, f>> /\ 0 <= f /\ f < Nanos
    BY SecondsOf
  <2>2. AddDuration(t, seconds) = InstantAt(s + seconds, f) /\ s + seconds \in Int
    BY <2>1 DEF AddDuration
  <2> QED
    BY <1>3, <2>1, <2>2, AnAcceptedSecond
<1> QED
  BY <1>2, <1>3

-----------------------------------------------------------------------------
(* Induction and recursion, for the recursive functions of Decimals.       *)

\* What holds of zero, and of the next of every number it holds of, holds of all: the induction
\* of the naturals, for a set instead of a predicate.
LEMMA Induction ==
  ASSUME NEW T, 0 \in T, \A n \in Nat : n \in T => n + 1 \in T
  PROVE  \A n \in Nat : n \in T
<1> DEFINE R == {ss \in Nat \X Nat : ss[1] < ss[2]}
           U == {n \in Nat : n \notin T}
<1>1. IsWellFoundedOn(R, Nat)
  BY NatLessThanWellFounded, Zenon DEF OpToRel
<1> SUFFICES ASSUME U # {} PROVE FALSE
  OBVIOUS
<1> HIDE DEF R
<1>2. PICK n \in U : \A m \in U : ~(<<m, n>> \in R)
  BY <1>1, WFMin
<1>3. n \in Nat /\ n # 0
  OBVIOUS
<1>4. n - 1 \in Nat /\ n - 1 < n /\ (n - 1) + 1 = n
  BY <1>3
<1>5. n - 1 \in U
  BY <1>4
<1>6. <<n - 1, n>> \in R
  BY <1>3, <1>4 DEF R
<1> QED
  BY <1>2, <1>5, <1>6

\* A sequence of states, each the next of the one before.
Follows(f, S, s0, n, G) == f \in [0 .. n -> S] /\ f[0] = s0 /\ \A i \in 1 .. n : f[i] = G[i][f[i - 1]]

\* There is such a sequence for every rule: what a recursive function over 0 .. n needs to exist.
LEMMA Recursion ==
  ASSUME NEW S, NEW s0 \in S, NEW n \in Nat, NEW G \in [1 .. n -> [S -> S]]
  PROVE  \E f : Follows(f, S, s0, n, G)
<1> DEFINE T == {k \in Nat : k <= n =>
                   \E f \in [0 .. k -> S] : f[0] = s0 /\ \A i \in 1 .. k : f[i] = G[i][f[i - 1]]}
<1>1. 0 \in T
  <2>1. [i \in 0 .. 0 |-> s0] \in [0 .. 0 -> S] /\ [i \in 0 .. 0 |-> s0][0] = s0
    OBVIOUS
  <2>2. 1 .. 0 = {}
    OBVIOUS
  <2> QED
    BY <2>1, <2>2
<1>2. ASSUME NEW k \in Nat, k \in T PROVE k + 1 \in T
  <2> SUFFICES ASSUME k + 1 <= n
               PROVE  \E f \in [0 .. k + 1 -> S] : f[0] = s0 /\ \A i \in 1 .. k + 1 : f[i] = G[i][f[i - 1]]
    OBVIOUS
  <2>1. PICK f \in [0 .. k -> S] : f[0] = s0 /\ \A i \in 1 .. k : f[i] = G[i][f[i - 1]]
    BY <1>2
  <2> DEFINE last == G[k + 1][f[k]]
             g == [i \in 0 .. k + 1 |-> IF i <= k THEN f[i] ELSE last]
  <2>2. last \in S
    <3>1. k + 1 \in 1 .. n /\ k \in 0 .. k
      OBVIOUS
    <3>2. G[k + 1] \in [S -> S] /\ f[k] \in S
      BY <3>1
    <3> QED
      BY <3>2
  <2> HIDE DEF last
  <2>3. g \in [0 .. k + 1 -> S]
    BY <2>2
  <2>4. g[0] = s0
    BY <2>1
  <2>5. ASSUME NEW i \in 1 .. k + 1 PROVE g[i] = G[i][g[i - 1]]
    <3>1. i - 1 \in 0 .. k /\ g[i - 1] = f[i - 1]
      OBVIOUS
    <3>2. CASE i <= k
      <4>1. i \in 1 .. k /\ g[i] = f[i]
        BY <3>2
      <4> QED
        BY <2>1, <3>1, <4>1
    <3>3. CASE i = k + 1
      <4>1. g[i] = last /\ f[i - 1] = f[k]
        BY <3>3
      <4> QED
        BY <3>1, <3>3, <4>1 DEF last
    <3> QED
      BY <3>2, <3>3
  <2> HIDE DEF g
  <2> QED
    BY <2>3, <2>4, <2>5
<1> HIDE DEF T
<1>3. n \in T
  BY <1>1, <1>2, Induction
<1> QED
  BY <1>3 DEF T, Follows

\* The numbers that the first digits stand for exist and are computed one digit after the other.
LEMMA LeadingAre ==
  ASSUME NEW digits \in Seq(Int)
  PROVE  /\ Leading(digits) \in [0 .. Len(digits) -> Int]
         /\ Leading(digits)[0] = 0
         /\ \A i \in 1 .. Len(digits) : Leading(digits)[i] = Leading(digits)[i - 1] * Base + digits[i]
<1> DEFINE n == Len(digits)
           G == [i \in 1 .. n |-> [x \in Int |-> x * Base + digits[i]]]
           Eq(g) == g = [i \in 0 .. n |-> IF i = 0 THEN 0 ELSE g[i - 1] * Base + digits[i]]
<1>1. n \in Nat /\ Base \in Int /\ 0 \in Int /\ \A i \in 1 .. n : digits[i] \in Int
  BY DecimalAssumption
<1>2. G \in [1 .. n -> [Int -> Int]] /\ \A i \in 1 .. n, x \in Int : G[i][x] = x * Base + digits[i]
  BY <1>1
<1> HIDE DEF n, G
<1>3. PICK f : Follows(f, Int, 0, n, G)
  <2>1. n \in Nat /\ 0 \in Int /\ G \in [1 .. n -> [Int -> Int]]
    BY <1>1, <1>2
  <2> QED
    BY <2>1, Recursion, Zenon
<1>4. ASSUME NEW i \in 1 .. n PROVE f[i - 1] \in Int /\ f[i] = f[i - 1] * Base + digits[i]
  <2>1. i - 1 \in 0 .. n
    BY <1>1
  <2>2. f[i - 1] \in Int
    BY <1>3, <2>1 DEF Follows
  <2>3. f[i] = G[i][f[i - 1]]
    BY <1>3 DEF Follows
  <2> QED
    BY <1>2, <2>2, <2>3
<1>5. Eq(f)
  BY <1>1, <1>3, <1>4 DEF Follows
<1>6. Leading(digits) = CHOOSE g : Eq(g)
  BY DEF Leading, n
<1> DEFINE p == Leading(digits)
<1>7. Eq(p)
  <2> HIDE DEF Eq
  <2> QED
    BY <1>5, <1>6, Zenon
<1> HIDE DEF p
<1>8. \A i \in 0 .. n : p[i] = IF i = 0 THEN 0 ELSE p[i - 1] * Base + digits[i]
  BY <1>7
<1>9. p[0] = 0 /\ \A i \in 1 .. n : p[i] = p[i - 1] * Base + digits[i]
  BY <1>1, <1>8
<1> DEFINE T == {i \in Nat : i <= n => p[i] = f[i]}
<1>10. 0 \in T
  BY <1>3, <1>9 DEF Follows
<1>11. ASSUME NEW i \in Nat, i \in T PROVE i + 1 \in T
  BY <1>1, <1>4, <1>9, <1>11
<1> HIDE DEF T
<1>12. \A i \in Nat : i \in T
  BY <1>10, <1>11, Induction
<1>13. \A i \in 0 .. n : p[i] = f[i]
  BY <1>12 DEF T
<1>14. DOMAIN p = 0 .. n /\ p = [i \in 0 .. n |-> p[i]]
  BY <1>7
<1>15. p \in [0 .. n -> Int]
  BY <1>3, <1>13, <1>14 DEF Follows
<1> QED
  BY <1>9, <1>15 DEF p, n

\* Induction over 0 .. n.
LEMMA Upward ==
  ASSUME NEW T, NEW n \in Nat, 0 \in T, \A i \in 0 .. n - 1 : i \in T => i + 1 \in T
  PROVE  \A i \in 0 .. n : i \in T
<1> DEFINE U == {i \in Nat : i <= n => i \in T}
<1>1. 0 \in U
  OBVIOUS
<1>2. ASSUME NEW i \in Nat, i \in U PROVE i + 1 \in U
  BY <1>2
<1> HIDE DEF U
<1>3. \A i \in Nat : i \in U
  BY <1>1, <1>2, Induction
<1> QED
  BY <1>3 DEF U

-----------------------------------------------------------------------------
(* Powers of the base.                                                     *)

\* The powers of the base exist and are computed one after the other.
LEMMA PowerIs == Power[0] = 1 /\ \A n \in Nat : Power[n] \in Int /\ Power[n + 1] = Base * Power[n]
<1> DEFINE G(k) == [i \in 1 .. k |-> [x \in Int |-> Base * x]]
           F(k) == CHOOSE f : Follows(f, Int, 1, k, G(k))
           H == [k \in Nat |-> F(k)[k]]
           Eq(g) == g = [n \in Nat |-> IF n = 0 THEN 1 ELSE Base * g[n - 1]]
<1>1. Base \in Int
  BY DecimalAssumption
<1>2. ASSUME NEW k \in Nat
      PROVE  F(k) \in [0 .. k -> Int] /\ F(k)[0] = 1 /\ \A i \in 1 .. k : F(k)[i] = Base * F(k)[i - 1]
  <2>1. G(k) \in [1 .. k -> [Int -> Int]] /\ \A i \in 1 .. k, x \in Int : G(k)[i][x] = Base * x
    BY <1>1
  <2>2. G(k) \in [1 .. k -> [Int -> Int]] /\ 1 \in Int
    BY <2>1
  <2>3. Follows(F(k), Int, 1, k, G(k))
    <3> HIDE DEF G
    <3>1. \E f : Follows(f, Int, 1, k, G(k))
      BY <2>2, Recursion, Zenon
    <3> QED
      BY <3>1, Zenon
  <2> HIDE DEF F, G
  <2>4. F(k) \in [0 .. k -> Int] /\ F(k)[0] = 1 /\ \A i \in 1 .. k : F(k)[i] = G(k)[i][F(k)[i - 1]]
    BY <2>3 DEF Follows
  <2>5. ASSUME NEW i \in 1 .. k PROVE F(k)[i] = Base * F(k)[i - 1]
    <3>1. i - 1 \in 0 .. k
      OBVIOUS
    <3>2. F(k)[i - 1] \in Int
      BY <2>4, <3>1
    <3> QED
      BY <2>1, <2>4, <3>2
  <2> QED
    BY <2>4, <2>5
<1> HIDE DEF F, G
<1>3. ASSUME NEW k \in Nat PROVE F(k + 1)[k] = F(k)[k]
  <2> DEFINE T == {i \in Nat : i <= k => F(k + 1)[i] = F(k)[i]}
  <2>1. 0 \in T
    BY <1>2
  <2>2. ASSUME NEW i \in Nat, i \in T PROVE i + 1 \in T
    <3> SUFFICES ASSUME i + 1 <= k PROVE F(k + 1)[i + 1] = F(k)[i + 1]
      OBVIOUS
    <3>1. i + 1 \in 1 .. k /\ i + 1 \in 1 .. k + 1 /\ (i + 1) - 1 = i
      OBVIOUS
    <3>2. F(k + 1)[i + 1] = Base * F(k + 1)[i]
      BY <1>2, <3>1
    <3>3. F(k)[i + 1] = Base * F(k)[i]
      BY <1>2, <3>1
    <3> QED
      BY <2>2, <3>2, <3>3
  <2> HIDE DEF T
  <2>3. k \in T
    BY <2>1, <2>2, Induction
  <2> QED
    BY <2>3 DEF T
<1>4. ASSUME NEW n \in Nat PROVE H[n] = IF n = 0 THEN 1 ELSE Base * H[n - 1]
  <2>1. CASE n = 0
    BY <1>2, <2>1
  <2>2. CASE n # 0
    <3> DEFINE k == n - 1
    <3>1. k \in Nat /\ n = k + 1
      BY <2>2
    <3> HIDE DEF k
    <3>2. k + 1 \in 1 .. k + 1 /\ (k + 1) - 1 = k
      BY <3>1
    <3>3. F(k + 1)[k + 1] = Base * F(k + 1)[k]
      BY <1>2, <3>1, <3>2
    <3>4. H[k + 1] = Base * H[k]
      BY <1>3, <3>1, <3>3
    <3>5. n - 1 = k
      BY <3>1
    <3> QED
      BY <2>2, <3>1, <3>4, <3>5
  <2> QED
    BY <2>1, <2>2
<1>5. Eq(H)
  <2>1. H = [n \in Nat |-> H[n]]
    OBVIOUS
  <2> QED
    BY <1>4, <2>1
<1>6. Power = CHOOSE g : Eq(g)
  BY DEF Power
<1> DEFINE p == Power
<1>7. Eq(p)
  <2> HIDE DEF Eq, H
  <2> QED
    BY <1>5, <1>6, Zenon
<1> HIDE DEF p
<1>8. \A n \in Nat : p[n] = IF n = 0 THEN 1 ELSE Base * p[n - 1]
  BY <1>7
<1>9. p[0] = 1
  BY <1>8
<1>10. ASSUME NEW n \in Nat PROVE p[n + 1] = Base * p[n]
  <2>1. n + 1 \in Nat /\ n + 1 # 0 /\ (n + 1) - 1 = n
    OBVIOUS
  <2> QED
    BY <1>8, <2>1
<1> DEFINE T == {n \in Nat : p[n] \in Int}
<1>11. \A n \in Nat : n \in T
  <2>1. 0 \in T
    BY <1>9
  <2>2. ASSUME NEW n \in Nat, n \in T PROVE n + 1 \in T
    BY <1>1, <1>10, <2>2
  <2> HIDE DEF T
  <2> QED
    BY <2>1, <2>2, Induction
<1> QED
  BY <1>9, <1>10, <1>11 DEF p

\* The powers of the base are positive, and multiplying them adds their exponents.
LEMMA Powers ==
  /\ Power[0] = 1
  /\ Power[1] = Base
  /\ \A n \in Nat : Power[n] \in Int /\ Power[n] >= 1 /\ Power[n + 1] = Base * Power[n]
  /\ \A m, n \in Nat : Power[m + n] = Power[m] * Power[n]
<1>1. Base \in Int /\ Base >= 2
  BY DecimalAssumption
<1>2. ASSUME NEW n \in Nat PROVE Power[n] >= 1
  <2> DEFINE T == {k \in Nat : Power[k] >= 1}
  <2>1. 0 \in T
    BY PowerIs
  <2>2. ASSUME NEW k \in Nat, k \in T PROVE k + 1 \in T
    <3>1. Power[k] \in Int /\ Power[k] >= 1 /\ Power[k + 1] = Base * Power[k]
      BY <2>2, PowerIs
    <3> DEFINE q == Power[k]
    <3>2. Base * q >= 1
      <4>1. q \in Int /\ q >= 1
        BY <3>1
      <4> HIDE DEF q
      <4> QED
        BY <1>1, <4>1
    <3> QED
      BY <3>1, <3>2
  <2> HIDE DEF T
  <2>3. n \in T
    BY <2>1, <2>2, Induction
  <2> QED
    BY <2>3 DEF T
<1>3. ASSUME NEW m \in Nat, NEW n \in Nat PROVE Power[m + n] = Power[m] * Power[n]
  <2> DEFINE T == {k \in Nat : Power[m + k] = Power[m] * Power[k]}
  <2>1. 0 \in T
    BY PowerIs
  <2>2. ASSUME NEW k \in Nat, k \in T PROVE k + 1 \in T
    <3>1. Power[m + (k + 1)] = Base * Power[m + k]
      <4>1. m + k \in Nat /\ m + (k + 1) = (m + k) + 1
        OBVIOUS
      <4> QED
        BY <4>1, PowerIs
    <3>2. Power[k + 1] = Base * Power[k] /\ Power[k] \in Int /\ Power[m] \in Int
      BY PowerIs
    <3>3. \A x, y \in Int : Base * (x * y) = x * (Base * y)
      BY <1>1
    <3>4. Power[m + k] = Power[m] * Power[k]
      BY <2>2
    <3>5. Power[m + (k + 1)] = Power[m] * Power[k + 1]
      <4> DEFINE x == Power[m]
                 y == Power[k]
      <4>1. x \in Int /\ y \in Int
        BY <3>2
      <4>2. Base * (x * y) = x * (Base * y)
        BY <3>3, <4>1
      <4> QED
        BY <3>1, <3>2, <3>4, <4>2
    <3> QED
      BY <3>5
  <2> HIDE DEF T
  <2>3. n \in T
    BY <2>1, <2>2, Induction
  <2> QED
    BY <2>3 DEF T
<1>4. Power[1] = Base
  <2>1. Power[0 + 1] = Base * Power[0]
    BY PowerIs, Zenon
  <2> QED
    BY <1>1, <2>1, PowerIs
<1> QED
  BY <1>2, <1>3, <1>4, PowerIs

\* One power of the base.
LEMMA PowerAt ==
  ASSUME NEW n \in Nat
  PROVE  Power[n] \in Int /\ Power[n] >= 1 /\ Power[n + 1] = Base * Power[n]
BY Powers, Zenon

\* The product of two powers of the base.
LEMMA PowerSum ==
  ASSUME NEW m \in Nat, NEW n \in Nat
  PROVE  Power[m + n] = Power[m] * Power[n]
BY Powers, Zenon

-----------------------------------------------------------------------------
(* What digits stand for.                                                  *)

\* The base is at least two.
LEMMA BaseIs == Base \in Int /\ Base >= 2 /\ Base - 1 \in Int
BY DecimalAssumption

\* Digits are small integers.
LEMMA DigitsAre ==
  ASSUME NEW x \in Seq(Digit)
  PROVE  x \in Seq(Int) /\ Len(x) \in Nat /\ \A i \in 1 .. Len(x) : x[i] \in Int /\ 0 <= x[i] /\ x[i] <= Base - 1
<1>1. \A d \in Digit : d \in Int /\ 0 <= d /\ d <= Base - 1
  BY BaseIs DEF Digit
<1>2. Len(x) \in Nat /\ \A i \in 1 .. Len(x) : x[i] \in Digit
  OBVIOUS
<1>3. x \in Seq(Int)
  <2>1. Digit \subseteq Int
    BY <1>1
  <2> QED
    BY <2>1, SeqMonotonic, Zenon
<1> QED
  BY <1>1, <1>2, <1>3

\* The number that digits stand for is the last of the numbers its first digits stand for.
LEMMA NumberIs ==
  ASSUME NEW x \in Seq(Int)
  PROVE  /\ Number(x) \in Int /\ Number(x) = Leading(x)[Len(x)]
         /\ \A i \in 0 .. Len(x) : Leading(x)[i] \in Int
         /\ Leading(x)[0] = 0
         /\ \A i \in 0 .. Len(x) - 1 : Leading(x)[i + 1] = Leading(x)[i] * Base + x[i + 1]
<1>1. Len(x) \in 0 .. Len(x)
  OBVIOUS
<1>2. \A i \in 0 .. Len(x) : Leading(x)[i] \in Int
  BY LeadingAre
<1>3. ASSUME NEW i \in 0 .. Len(x) - 1 PROVE Leading(x)[i + 1] = Leading(x)[i] * Base + x[i + 1]
  <2>1. i + 1 \in 1 .. Len(x) /\ (i + 1) - 1 = i
    OBVIOUS
  <2> QED
    BY <2>1, LeadingAre
<1> QED
  BY <1>1, <1>2, <1>3, LeadingAre DEF Number

\* The columns of t are a combination of the columns of a and b.
Columns(t, p, a, q, b) == Len(a) = Len(t) /\ Len(b) = Len(t) /\ \A i \in 1 .. Len(t) : t[i] = p * a[i] + q * b[i]

\* The number that columns stand for, digits or not, is linear in the columns.
LEMMA Linear ==
  ASSUME NEW t \in Seq(Int), NEW a \in Seq(Int), NEW b \in Seq(Int), NEW p \in Int, NEW q \in Int, Columns(t, p, a, q, b)
  PROVE  Number(t) = p * Number(a) + q * Number(b)
<1> DEFINE n == Len(t)
           T == {i \in 0 .. n : Leading(t)[i] = p * Leading(a)[i] + q * Leading(b)[i]}
<1>1. n \in Nat /\ Len(a) = n /\ Len(b) = n /\ \A i \in 1 .. n : t[i] = p * a[i] + q * b[i]
  BY DEF Columns
<1>2. 0 \in T
  BY <1>1, NumberIs
<1>3. ASSUME NEW i \in 0 .. n - 1, i \in T PROVE i + 1 \in T
  <2> DEFINE u == Leading(a)[i]
             v == Leading(b)[i]
             w == Leading(t)[i]
             c == a[i + 1]
             d == b[i + 1]
  <2>1. i \in 0 .. n /\ i + 1 \in 1 .. n /\ i + 1 \in 0 .. n
    BY <1>1
  <2>2. u \in Int /\ v \in Int /\ w \in Int /\ c \in Int /\ d \in Int
    <3>1. w \in Int
      BY <2>1, NumberIs
    <3>2. i \in 0 .. Len(a) /\ i + 1 \in 1 .. Len(a)
      BY <1>1, <2>1
    <3>3. u \in Int /\ c \in Int
      BY <3>2, NumberIs
    <3>4. i \in 0 .. Len(b) /\ i + 1 \in 1 .. Len(b)
      BY <1>1, <2>1
    <3>5. v \in Int /\ d \in Int
      BY <3>4, NumberIs
    <3> QED
      BY <3>1, <3>3, <3>5
  <2>3. w = p * u + q * v
    BY <1>3
  <2>4. Leading(t)[i + 1] = w * Base + (p * c + q * d)
    <3>1. Leading(t)[i + 1] = w * Base + t[i + 1]
      BY NumberIs
    <3>2. t[i + 1] = p * c + q * d
      BY <1>1, <2>1
    <3> QED
      BY <3>1, <3>2
  <2>5. Leading(a)[i + 1] = u * Base + c /\ Leading(b)[i + 1] = v * Base + d
    BY <1>1, NumberIs
  <2>6. (p * u + q * v) * Base + (p * c + q * d) = p * (u * Base + c) + q * (v * Base + d)
    <3> HIDE DEF u, v, w, c, d
    <3> QED
      BY <2>2, BaseIs
  <2>7. Leading(t)[i + 1] = p * Leading(a)[i + 1] + q * Leading(b)[i + 1]
    <3> HIDE DEF u, v, w, c, d
    <3> QED
      BY <2>3, <2>4, <2>5, <2>6
  <2> QED
    BY <2>1, <2>7
<1> HIDE DEF T, n
<1>4. \A i \in 0 .. n : i \in T
  BY <1>1, <1>2, <1>3, Upward
<1>5. Leading(t)[n] = p * Leading(a)[n] + q * Leading(b)[n]
  BY <1>1, <1>4 DEF T
<1> QED
  BY <1>1, <1>5, NumberIs DEF n

\* Zeroes stand for zero.
LEMMA AllZero ==
  ASSUME NEW x \in Seq(Int), \A i \in 1 .. Len(x) : x[i] = 0
  PROVE  Number(x) = 0
<1>1. \A i \in 1 .. Len(x) : x[i] \in Int /\ x[i] = 0 * x[i] + 0 * x[i]
  OBVIOUS
<1>2. Number(x) = 0 * Number(x) + 0 * Number(x)
  <2>1. 0 \in Int /\ Columns(x, 0, x, 0, x)
    BY <1>1 DEF Columns
  <2> QED
    BY <2>1, Linear, Zenon
<1> QED
  BY <1>2, NumberIs

\* Zeros are digits and stand for zero.
LEMMA ZerosAre ==
  ASSUME NEW n \in Nat
  PROVE  Zeros(n) \in Seq(Int) /\ Zeros(n) \in Seq(Digit) /\ Len(Zeros(n)) = n /\ (\A i \in 1 .. n : Zeros(n)[i] = 0) /\ Number(Zeros(n)) = 0
<1>1. Zeros(n) \in Seq(Int) /\ Zeros(n) \in Seq(Digit) /\ Len(Zeros(n)) = n /\ (\A i \in 1 .. n : Zeros(n)[i] = 0)
  <2>1. 0 \in Digit
    BY BaseIs DEF Digit
  <2> QED
    BY <2>1 DEF Zeros
<1> QED
  BY <1>1, AllZero

\* No digit, and one digit.
LEMMA OneDigit ==
  ASSUME NEW d \in Int
  PROVE  Number(<<>>) = 0 /\ <<d>> \in Seq(Int) /\ Number(<<d>>) = d
<1>1. <<>> \in Seq(Int) /\ Len(<<>>) = 0
  OBVIOUS
<1>2. Number(<<>>) = 0
  BY <1>1, NumberIs
<1> DEFINE x == <<d>>
<1>3. x \in Seq(Int) /\ Len(x) = 1 /\ x[1] = d
  OBVIOUS
<1> HIDE DEF x
<1>4. 0 \in 0 .. Len(x) - 1 /\ 0 + 1 = 1
  BY <1>3
<1>5. Leading(x)[0 + 1] = Leading(x)[0] * Base + x[0 + 1]
  BY <1>3, <1>4, NumberIs
<1>6. Number(x) = 0 * Base + d
  <2>1. Number(x) = Leading(x)[1] /\ Leading(x)[0] = 0
    BY <1>3, NumberIs
  <2> QED
    BY <1>3, <1>5, <2>1
<1> QED
  BY <1>2, <1>3, <1>6, BaseIs DEF x

\* Digits after digits move the first ones up by as many places.
LEMMA Joined ==
  ASSUME NEW x \in Seq(Int), NEW y \in Seq(Int)
  PROVE  /\ x \o y \in Seq(Int) /\ Len(x \o y) = Len(x) + Len(y)
         /\ \A i \in 0 .. Len(x) : Leading(x \o y)[i] = Leading(x)[i]
         /\ Number(x \o y) = Number(x) * Power[Len(y)] + Number(y)
<1> DEFINE z == x \o y
           n == Len(x)
           m == Len(y)
<1>1. /\ z \in Seq(Int) /\ n \in Nat /\ m \in Nat /\ Len(z) = n + m
      /\ \A i \in 1 .. n : z[i] = x[i]
      /\ \A j \in 1 .. m : z[n + j] = y[j] /\ y[j] \in Int
  <2>1. \A j \in 1 .. m : z[n + j] = y[j]
    OBVIOUS
  <2> QED
    BY <2>1
<1> HIDE DEF z
<1> DEFINE T == {i \in 0 .. n : Leading(z)[i] = Leading(x)[i]}
<1>2. 0 \in T
  BY <1>1, NumberIs
<1>3. ASSUME NEW i \in 0 .. n - 1, i \in T PROVE i + 1 \in T
  <2>1. i \in 0 .. Len(z) - 1 /\ i + 1 \in 1 .. n /\ i + 1 \in 0 .. n
    BY <1>1
  <2>2. Leading(z)[i + 1] = Leading(z)[i] * Base + z[i + 1]
    BY <1>1, <2>1, NumberIs
  <2>3. Leading(x)[i + 1] = Leading(x)[i] * Base + x[i + 1]
    BY <1>1, NumberIs
  <2> QED
    BY <1>1, <1>3, <2>1, <2>2, <2>3
<1> HIDE DEF T
<1>4. \A i \in 0 .. n : i \in T
  BY <1>1, <1>2, <1>3, Upward
<1>5. \A i \in 0 .. n : Leading(z)[i] = Leading(x)[i]
  BY <1>4 DEF T
<1> DEFINE U == {j \in 0 .. m : Leading(z)[n + j] = Number(x) * Power[j] + Leading(y)[j]}
<1>6. 0 \in U
  <2>1. n \in 0 .. n /\ n + 0 = n
    BY <1>1
  <2>2. Leading(z)[n] = Number(x) /\ Number(x) \in Int
    BY <1>5, <2>1, NumberIs
  <2>3. Leading(y)[0] = 0 /\ Power[0] = 1
    BY NumberIs, Powers
  <2> QED
    BY <1>1, <2>1, <2>2, <2>3
<1>7. ASSUME NEW j \in 0 .. m - 1, j \in U PROVE j + 1 \in U
  <2> DEFINE u == Number(x)
             p == Power[j]
             v == Leading(y)[j]
             d == y[j + 1]
  <2>1. n + j \in 0 .. Len(z) - 1 /\ j + 1 \in 1 .. m /\ j + 1 \in 0 .. m /\ j \in 0 .. m /\ (n + j) + 1 = n + (j + 1) /\ j \in Nat
    BY <1>1
  <2>2. u \in Int /\ p \in Int /\ v \in Int /\ d \in Int
    BY <1>1, <2>1, NumberIs, Powers
  <2>3. Leading(z)[n + (j + 1)] = Leading(z)[n + j] * Base + z[n + (j + 1)]
    BY <1>1, <2>1, NumberIs
  <2>4. Leading(z)[n + (j + 1)] = (u * p + v) * Base + d
    BY <1>1, <1>7, <2>1, <2>3
  <2>5. Leading(y)[j + 1] = v * Base + d
    BY NumberIs
  <2>6. Power[j + 1] = Base * p
    BY <2>1, Powers
  <2>7. (u * p + v) * Base + d = u * (Base * p) + (v * Base + d)
    <3> HIDE DEF u, v, p, d
    <3> QED
      BY <2>2, BaseIs
  <2>8. Leading(z)[n + (j + 1)] = u * Power[j + 1] + Leading(y)[j + 1]
    BY <2>4, <2>5, <2>6, <2>7
  <2> QED
    BY <2>1, <2>8
<1> HIDE DEF U, n, m
<1>8. \A j \in 0 .. m : j \in U
  BY <1>1, <1>6, <1>7, Upward
<1>9. Leading(z)[n + m] = Number(x) * Power[m] + Leading(y)[m]
  BY <1>1, <1>8 DEF U
<1>10. Number(z) = Number(x) * Power[m] + Number(y)
  BY <1>1, <1>9, NumberIs DEF m
<1> QED
  BY <1>1, <1>5, <1>10 DEF z, n, m

\* The types of what is computed from digits.
LEMMA SizeOf ==
  ASSUME NEW x \in Seq(Int)
  PROVE  Len(x) \in Nat /\ Power[Len(x)] \in Int /\ Power[Len(x)] >= 1 /\ Number(x) \in Int
<1>1. Len(x) \in Nat
  OBVIOUS
<1> QED
  BY <1>1, PowerAt, NumberIs

\* The first i digits stand for the number without the rest, which is smaller than one unit of
\* the digit before it.
LEMMA Within ==
  ASSUME NEW x \in Seq(Digit), NEW i \in 0 .. Len(x)
  PROVE  /\ Leading(x)[i] \in Nat
         /\ Leading(x)[i] * Power[Len(x) - i] <= Number(x)
         /\ Number(x) < (Leading(x)[i] + 1) * Power[Len(x) - i]
<1> DEFINE n == Len(x)
           L == Leading(x)
<1>1. n \in Nat /\ x \in Seq(Int) /\ \A k \in 1 .. n : x[k] \in Int /\ 0 <= x[k] /\ x[k] <= Base - 1
  BY DigitsAre
<1>2. /\ \A k \in 0 .. n : L[k] \in Int
      /\ L[0] = 0
      /\ \A k \in 0 .. n - 1 : L[k + 1] = L[k] * Base + x[k + 1]
      /\ Number(x) = L[n]
  BY <1>1, NumberIs
<1> HIDE DEF n, L
<1> DEFINE T == {k \in 0 .. n : L[k] >= 0}
<1>3. \A k \in 0 .. n : k \in T
  <2>1. 0 \in T
    BY <1>1, <1>2
  <2>2. ASSUME NEW k \in 0 .. n - 1, k \in T PROVE k + 1 \in T
    <3> DEFINE u == L[k]
               d == x[k + 1]
    <3>1. k \in 0 .. n /\ k + 1 \in 1 .. n /\ k + 1 \in 0 .. n
      BY <1>1
    <3>2. u \in Int /\ u >= 0 /\ d \in Int /\ d >= 0 /\ L[k + 1] = u * Base + d
      BY <1>1, <1>2, <2>2, <3>1
    <3>3. u * Base + d >= 0
      <4> HIDE DEF u, d
      <4> QED
        BY <3>2, BaseIs
    <3> QED
      BY <3>1, <3>2, <3>3
  <2> HIDE DEF T
  <2> QED
    BY <1>1, <2>1, <2>2, Upward
<1>4. \A k \in 0 .. n : L[k] \in Nat
  BY <1>2, <1>3
<1> DEFINE m == n - i
           v == L[i]
           U == {j \in 0 .. m : v * Power[j] <= L[i + j] /\ L[i + j] + 1 <= (v + 1) * Power[j]}
<1>5. i \in 0 .. n /\ m \in Nat /\ i + m = n /\ i \in Nat
  BY <1>1 DEF n
<1>6. v \in Nat
  BY <1>4, <1>5
<1> HIDE DEF m, v
<1>7. 0 \in U
  <2>1. Power[0] = 1 /\ i + 0 = i /\ L[i] = v
    BY <1>5, Powers DEF v
  <2> QED
    BY <1>5, <1>6, <2>1
<1>8. ASSUME NEW j \in 0 .. m - 1, j \in U PROVE j + 1 \in U
  <2> DEFINE u == L[i + j]
             p == Power[j]
             d == x[i + j + 1]
  <2>1. j \in Nat /\ j + 1 \in 0 .. m /\ i + j \in 0 .. n - 1 /\ i + j \in 0 .. n /\ i + j + 1 \in 1 .. n /\ i + (j + 1) = (i + j) + 1
    BY <1>1, <1>5
  <2>2. u \in Int /\ p \in Int /\ d \in Int /\ 0 <= d /\ d <= Base - 1 /\ L[(i + j) + 1] = u * Base + d /\ Power[j + 1] = Base * p
    BY <1>1, <1>2, <2>1, Powers
  <2>3. v * p <= u /\ u + 1 <= (v + 1) * p
    BY <1>8
  <2>4. v * (Base * p) <= u * Base + d /\ (u * Base + d) + 1 <= (v + 1) * (Base * p)
    <3> DEFINE a == v * p
               b == (v + 1) * p
    <3> HIDE DEF u, d, p
    <3>1. a \in Int /\ b \in Int
      BY <1>6, <2>2
    <3>2. v * (Base * p) = a * Base /\ (v + 1) * (Base * p) = b * Base
      BY <1>6, <2>2, BaseIs
    <3>3. a <= u /\ u + 1 <= b
      BY <2>3
    <3> HIDE DEF a, b
    <3>4. a * Base <= u * Base /\ (u + 1) * Base <= b * Base
      BY <2>2, <3>1, <3>3, BaseIs
    <3>5. (u + 1) * Base = u * Base + Base /\ u * Base \in Int /\ a * Base \in Int /\ b * Base \in Int
      BY <2>2, <3>1, BaseIs
    <3> QED
      BY <2>2, <3>2, <3>4, <3>5, BaseIs
  <2>5. v * Power[j + 1] <= L[i + (j + 1)] /\ L[i + (j + 1)] + 1 <= (v + 1) * Power[j + 1]
    BY <2>1, <2>2, <2>4
  <2> QED
    BY <2>1, <2>5
<1> HIDE DEF U
<1>9. \A j \in 0 .. m : j \in U
  BY <1>5, <1>7, <1>8, Upward
<1>10. v * Power[m] <= L[n] /\ L[n] + 1 <= (v + 1) * Power[m]
  BY <1>5, <1>9 DEF U
<1>11. (v + 1) * Power[m] \in Int /\ L[n] \in Int
  <2>1. Power[m] \in Int
    BY <1>5, PowerAt
  <2> DEFINE p == Power[m]
  <2> HIDE DEF p
  <2>2. p \in Int
    BY <2>1 DEF p
  <2>3. (v + 1) * p \in Int
    BY <1>6, <2>2
  <2> QED
    BY <1>1, <1>2, <2>3 DEF p
<1> QED
  BY <1>2, <1>6, <1>10, <1>11 DEF n, L, m, v

\* Digits stand for less than the power of their length and, unless the first is zero, for no
\* less than the power below.
LEMMA NumberBounds ==
  ASSUME NEW x \in Seq(Digit)
  PROVE  /\ Number(x) \in Nat /\ Number(x) < Power[Len(x)]
         /\ Len(x) > 0 /\ x[1] # 0 => Power[Len(x) - 1] <= Number(x)
<1>1. Len(x) \in Nat /\ x \in Seq(Int)
  BY DigitsAre
<1>2. Leading(x)[0] = 0
  BY <1>1, NumberIs
<1>3. 0 \in 0 .. Len(x) /\ Len(x) \in 0 .. Len(x) /\ Len(x) - 0 = Len(x)
  BY <1>1
<1>4. Number(x) \in Nat
  BY <1>1, <1>3, Within, NumberIs
<1>5. Number(x) < (0 + 1) * Power[Len(x)]
  BY <1>2, <1>3, Within
<1>6. Number(x) < Power[Len(x)]
  BY <1>1, <1>5, PowerAt
<1>7. ASSUME Len(x) > 0, x[1] # 0 PROVE Power[Len(x) - 1] <= Number(x)
  <2> DEFINE v == Leading(x)[1]
             p == Power[Len(x) - 1]
  <2>1. 1 \in 0 .. Len(x) /\ 0 \in 0 .. Len(x) - 1 /\ 0 + 1 = 1 /\ Len(x) - 1 \in Nat /\ 1 \in 1 .. Len(x)
    BY <1>1, <1>7
  <2>2. v = 0 * Base + x[1]
    BY <1>1, <1>2, <2>1, NumberIs
  <2>3. v \in Int /\ v >= 1
    BY <1>7, <2>1, <2>2, DigitsAre, BaseIs
  <2>4. p \in Int /\ p >= 1
    BY <2>1, Powers
  <2>5. v * p <= Number(x)
    BY <2>1, Within
  <2> HIDE DEF v, p
  <2>6. p <= v * p /\ v * p \in Int
    BY <2>3, <2>4
  <2>7. p <= Number(x)
    BY <1>4, <2>4, <2>5, <2>6
  <2> QED
    BY <2>7 DEF p
<1> QED
  BY <1>4, <1>6, <1>7

-----------------------------------------------------------------------------
(* Sets of numbers and parts of sequences.                                 *)

\* The least element of a set of naturals.
LEMMA LeastOf ==
  ASSUME NEW S, S \subseteq Nat, S # {}
  PROVE  Min(S) \in S /\ \A y \in S : Min(S) <= y
<1> DEFINE Is(z) == z \in S /\ \A y \in S : z <= y
<1>1. \E z : Is(z)
  <2> SUFFICES ASSUME \A z : ~Is(z) PROVE FALSE
    OBVIOUS
  <2> DEFINE T == {n \in Nat : \A y \in S : n <= y}
  <2>1. 0 \in T
    OBVIOUS
  <2>2. ASSUME NEW n \in Nat, n \in T PROVE n + 1 \in T
    <3>1. n \notin S
      BY <2>2
    <3>2. \A y \in S : y \in Nat /\ n <= y /\ n # y
      BY <2>2, <3>1
    <3> QED
      BY <3>2
  <2> HIDE DEF T
  <2>3. \A n \in Nat : n \in T
    BY <2>1, <2>2, Induction
  <2>4. PICK y \in S : TRUE
    OBVIOUS
  <2>5. y \in Nat /\ y + 1 \in Nat
    OBVIOUS
  <2>6. y + 1 \in T
    BY <2>3, <2>5
  <2> QED
    BY <2>5, <2>6 DEF T
<1>2. Min(S) = CHOOSE z : Is(z)
  BY DEF Min
<1> HIDE DEF Is
<1>3. Is(Min(S))
  BY <1>1, <1>2, Zenon
<1> QED
  BY <1>3 DEF Is

\* The greatest element of a bounded set of naturals.
LEMMA GreatestOf ==
  ASSUME NEW S, NEW n \in Nat, S \subseteq 0 .. n, S # {}
  PROVE  Max(S) \in S /\ \A y \in S : Max(S) >= y
<1> DEFINE R == {n - y : y \in S}
           Is(z) == z \in S /\ \A y \in S : z >= y
<1>1. R \subseteq Nat /\ R # {}
  <2>1. PICK y \in S : TRUE
    OBVIOUS
  <2>2. n - y \in R
    OBVIOUS
  <2>3. \A w \in S : n - w \in Nat
    OBVIOUS
  <2> QED
    BY <2>2, <2>3
<1>2. Min(R) \in R /\ \A y \in R : Min(R) <= y
  BY <1>1, LeastOf
<1>3. PICK z \in S : Min(R) = n - z
  BY <1>2
<1>4. ASSUME NEW y \in S PROVE z >= y
  <2>1. n - y \in R
    OBVIOUS
  <2>2. n - z <= n - y
    BY <1>2, <1>3, <2>1
  <2> QED
    BY <2>2
<1>5. Is(z)
  BY <1>4
<1>6. Max(S) = CHOOSE x : Is(x)
  BY DEF Max
<1> HIDE DEF Is
<1>7. Is(Max(S))
  BY <1>5, <1>6, Zenon
<1> QED
  BY <1>7 DEF Is

\* A sequence is its first k elements and the others.
LEMMA PartsOfSeq ==
  ASSUME NEW S, NEW x \in Seq(S), NEW k \in 0 .. Len(x)
  PROVE  /\ SubSeq(x, 1, k) \in Seq(S) /\ Len(SubSeq(x, 1, k)) = k
         /\ \A i \in 1 .. k : SubSeq(x, 1, k)[i] = x[i]
         /\ SubSeq(x, k + 1, Len(x)) \in Seq(S) /\ Len(SubSeq(x, k + 1, Len(x))) = Len(x) - k
         /\ \A i \in 1 .. Len(x) - k : SubSeq(x, k + 1, Len(x))[i] = x[k + i]
         /\ x = SubSeq(x, 1, k) \o SubSeq(x, k + 1, Len(x))
<1> DEFINE n == Len(x)
           y == SubSeq(x, 1, k)
           z == SubSeq(x, k + 1, n)
<1>1. n \in Nat /\ k \in Nat /\ k <= n /\ \A i \in 1 .. n : x[i] \in S
  OBVIOUS
<1>2. y \in Seq(S) /\ Len(y) = k /\ \A i \in 1 .. k : y[i] = x[i]
  <2>1. \A i \in 1 .. k : x[i] \in S
    BY <1>1
  <2>2. 1 \in Int /\ k \in Int
    OBVIOUS
  <2>3. /\ y \in Seq(S) /\ Len(y) = (IF 1 <= k THEN k - 1 + 1 ELSE 0)
        /\ \A i \in 1 .. k - 1 + 1 : y[i] = x[1 + i - 1]
    <3> HIDE DEF n
    <3> QED
      BY <2>1, <2>2, SubSeqProperties
  <2> HIDE DEF y
  <2>4. Len(y) = k
    BY <1>1, <2>3
  <2>5. \A i \in 1 .. k : i \in 1 .. k - 1 + 1 /\ 1 + i - 1 = i
    BY <1>1
  <2> QED
    BY <2>3, <2>4, <2>5
<1>3. z \in Seq(S) /\ Len(z) = n - k /\ \A i \in 1 .. n - k : z[i] = x[k + i]
  <2>1. \A i \in k + 1 .. n : x[i] \in S
    BY <1>1
  <2>2. k + 1 \in Int /\ n \in Int
    OBVIOUS
  <2> HIDE DEF n
  <2> DEFINE l == k + 1
  <2>3. l \in Int /\ \A i \in l .. n : x[i] \in S
    BY <2>1, <2>2
  <2> HIDE DEF l
  <2>4. /\ SubSeq(x, l, n) \in Seq(S) /\ Len(SubSeq(x, l, n)) = (IF l <= n THEN n - l + 1 ELSE 0)
        /\ \A i \in 1 .. n - l + 1 : SubSeq(x, l, n)[i] = x[l + i - 1]
    BY <2>2, <2>3, SubSeqProperties
  <2>5. z = SubSeq(x, l, n)
    BY DEF l
  <2> HIDE DEF z
  <2>6. l = k + 1
    BY DEF l
  <2>7. Len(z) = n - k
    BY <1>1, <2>4, <2>5, <2>6
  <2>8. \A i \in 1 .. n - k : i \in 1 .. n - l + 1 /\ l + i - 1 = k + i
    BY <1>1, <2>6
  <2> QED
    BY <2>4, <2>5, <2>7, <2>8
<1>4. x = y \o z
  <2> HIDE DEF y, z
  <2>1. /\ y \o z \in Seq(S) /\ Len(y \o z) = k + (n - k)
        /\ \A i \in 1 .. k + (n - k) : (y \o z)[i] = IF i <= k THEN y[i] ELSE z[i - k]
    <3> HIDE DEF n
    <3>1. y \in Seq(S) /\ z \in Seq(S)
      BY <1>2, <1>3
    <3>2. /\ y \o z \in Seq(S) /\ Len(y \o z) = Len(y) + Len(z)
          /\ \A i \in 1 .. Len(y) + Len(z) : (y \o z)[i] = IF i <= Len(y) THEN y[i] ELSE z[i - Len(y)]
      BY <3>1, ConcatProperties, Zenon
    <3>3. Len(y) = k /\ Len(z) = n - k
      BY <1>2, <1>3
    <3> QED
      BY <3>2, <3>3
  <2>2. \A i \in 1 .. Len(x) : (y \o z)[i] = x[i]
    <3> SUFFICES ASSUME NEW i \in 1 .. n PROVE (y \o z)[i] = x[i]
      OBVIOUS
    <3>1. (y \o z)[i] = IF i <= k THEN y[i] ELSE z[i - k]
      BY <1>1, <2>1
    <3>2. CASE i <= k
      <4>1. i \in 1 .. k
        BY <1>1, <3>2
      <4> QED
        BY <1>2, <3>1, <3>2, <4>1
    <3>3. CASE ~(i <= k)
      <4>1. i - k \in 1 .. n - k /\ k + (i - k) = i
        BY <1>1, <3>3
      <4> QED
        BY <1>3, <3>1, <3>3, <4>1
    <3> QED
      BY <3>2, <3>3
  <2>3. Len(y \o z) = Len(x)
    BY <1>1, <2>1
  <2> HIDE DEF n
  <2> DEFINE w == y \o z
  <2>4. w \in Seq(S) /\ Len(x) = Len(w) /\ \A i \in 1 .. Len(x) : x[i] = w[i]
    BY <2>1, <2>2, <2>3
  <2> HIDE DEF w
  <2>5. x = w
    BY <2>4, SeqEqual, Zenon
  <2> QED
    BY <2>5 DEF w
<1> QED
  BY <1>2, <1>3, <1>4

-----------------------------------------------------------------------------
(* The order of numbers and of their digits (compareDigitSlices).          *)

\* The first digit that differs decides.
LEMMA SmallerDigit ==
  ASSUME NEW x \in Seq(Digit), NEW y \in Seq(Digit), Len(x) = Len(y),
         NEW i \in 1 .. Len(x), \A j \in 1 .. i - 1 : x[j] = y[j], x[i] < y[i]
  PROVE  Number(x) < Number(y)
<1> DEFINE n == Len(x)
           u == Leading(x)[i]
           v == Leading(y)[i]
           p == Power[n - i]
           w == Leading(x)[i - 1]
<1>1. n \in Nat /\ x \in Seq(Int) /\ y \in Seq(Int) /\ \A k \in 1 .. n : x[k] \in Int /\ y[k] \in Int
  BY DigitsAre
<1> DEFINE T == {k \in 0 .. i - 1 : Leading(x)[k] = Leading(y)[k]}
<1>2. \A k \in 0 .. i - 1 : k \in T
  <2>0. i - 1 \in Nat
    OBVIOUS
  <2>1. 0 \in T
    BY <1>1, <2>0, NumberIs
  <2>2. ASSUME NEW k \in 0 .. (i - 1) - 1, k \in T PROVE k + 1 \in T
    <3>1. k \in 0 .. n - 1 /\ k + 1 \in 1 .. i - 1 /\ k + 1 \in 0 .. i - 1
      BY <1>1
    <3>2. Leading(x)[k + 1] = Leading(x)[k] * Base + x[k + 1]
      BY <1>1, <3>1, NumberIs
    <3>3. Leading(y)[k + 1] = Leading(y)[k] * Base + y[k + 1]
      BY <1>1, <3>1, NumberIs
    <3> QED
      BY <2>2, <3>1, <3>2, <3>3
  <2> DEFINE m == i - 1
  <2> HIDE DEF T, m
  <2>3. m \in Nat /\ \A k \in 0 .. m - 1 : k \in T => k + 1 \in T
    BY <2>0, <2>2 DEF m
  <2>4. \A k \in 0 .. m : k \in T
    BY <2>1, <2>3, Upward
  <2> QED
    BY <2>4 DEF m
<1>3. i - 1 \in 0 .. i - 1 /\ i - 1 \in 0 .. n - 1 /\ i - 1 \in 0 .. n /\ (i - 1) + 1 = i /\ i \in 0 .. n /\ n - i \in Nat /\ i \in 1 .. n
  BY <1>1
<1>4. w \in Int /\ Leading(y)[i - 1] = w
  BY <1>1, <1>2, <1>3, NumberIs
<1>5. u = w * Base + x[i]
  BY <1>1, <1>3, NumberIs
<1>6. v = w * Base + y[i]
  <2>1. Leading(y)[(i - 1) + 1] = Leading(y)[i - 1] * Base + y[(i - 1) + 1]
    BY <1>1, <1>3, NumberIs
  <2> QED
    BY <1>3, <1>4, <2>1
<1>7. p \in Int /\ p >= 1
  BY <1>3, PowerAt
<1>8. u \in Int /\ v \in Int /\ u + 1 <= v
  <2>1. x[i] \in Int /\ y[i] \in Int /\ w * Base \in Int
    BY <1>1, <1>3, <1>4, BaseIs
  <2> QED
    BY <1>5, <1>6, <2>1
<1>9. Number(x) < (u + 1) * p
  BY <1>3, Within
<1>10. v * p <= Number(y)
  BY <1>3, Within
<1>11. Number(x) \in Int /\ Number(y) \in Int
  BY <1>1, NumberIs
<1> HIDE DEF u, v, p
<1>12. (u + 1) * p <= v * p /\ (u + 1) * p \in Int /\ v * p \in Int
  <2>1. (v - (u + 1)) * p >= 0 /\ (v - (u + 1)) * p = v * p - (u + 1) * p
    BY <1>7, <1>8
  <2> QED
    BY <1>7, <1>8, <2>1
<1> QED
  BY <1>9, <1>10, <1>11, <1>12

\* Digits without a leading zero, as compareAbs and divDigits keep them.
Trimmed == {x \in Seq(Digit) : Len(x) > 0 /\ (x[1] # 0 \/ x = <<0>>)}

\* Trimming leaves the number as it is.
LEMMA TrimToOneIs ==
  ASSUME NEW x \in Seq(Digit)
  PROVE  TrimToOne(x) \in Trimmed /\ Number(TrimToOne(x)) = Number(x)
<1> DEFINE n == Len(x)
           nonzero == {i \in DOMAIN x : x[i] # 0}
<1>1. n \in Nat /\ x \in Seq(Int) /\ DOMAIN x = 1 .. n /\ nonzero \subseteq Nat
  BY DigitsAre
<1>2. CASE nonzero = {}
  <2>1. TrimToOne(x) = <<0>>
    BY <1>2 DEF TrimToOne
  <2>2. Number(x) = 0
    BY <1>1, <1>2, AllZero
  <2>3. <<0>> \in Seq(Digit) /\ Len(<<0>>) = 1
    BY BaseIs DEF Digit
  <2>4. Number(<<0>>) = 0
    BY OneDigit
  <2> QED
    BY <2>1, <2>2, <2>3, <2>4 DEF Trimmed
<1>3. CASE nonzero # {}
  <2> DEFINE m == Min(nonzero)
             y == SubSeq(x, 1, m - 1)
             z == SubSeq(x, m, n)
  <2>1. m \in nonzero /\ \A i \in nonzero : m <= i
    BY <1>1, <1>3, LeastOf
  <2>2. TrimToOne(x) = z
    BY <1>3 DEF TrimToOne
  <2> HIDE DEF m
  <2>3. m \in 1 .. n /\ x[m] # 0 /\ m - 1 \in 0 .. n /\ (m - 1) + 1 = m
    BY <1>1, <2>1
  <2>4. \A i \in 1 .. m - 1 : x[i] = 0
    BY <1>1, <2>1, <2>3
  <2> DEFINE k == m - 1
  <2>5. k \in 0 .. n /\ k + 1 = m
    BY <2>3
  <2>6. /\ y \in Seq(Digit) /\ Len(y) = k /\ \A i \in 1 .. k : y[i] = x[i]
        /\ z \in Seq(Digit) /\ Len(z) = n - k /\ \A i \in 1 .. n - k : z[i] = x[k + i]
        /\ x = y \o z
    <3>1. y = SubSeq(x, 1, k) /\ z = SubSeq(x, k + 1, Len(x))
      BY <2>5
    <3> HIDE DEF y, z, k, n, m
    <3>2. k \in 0 .. Len(x) /\ n = Len(x)
      BY <2>5 DEF n
    <3>3. y \in Seq(Digit) /\ Len(y) = k /\ \A i \in 1 .. k : y[i] = x[i]
      BY <3>1, <3>2, PartsOfSeq
    <3>4. z \in Seq(Digit) /\ Len(z) = Len(x) - k /\ \A i \in 1 .. Len(x) - k : z[i] = x[k + i]
      BY <3>1, <3>2, PartsOfSeq
    <3>5. x = SubSeq(x, 1, k) \o SubSeq(x, k + 1, Len(x))
      BY <3>2, PartsOfSeq, Zenon
    <3>6. x = y \o z
      BY <3>1, <3>5, Zenon
    <3> QED
      BY <3>2, <3>3, <3>4, <3>6, Zenon
  <2> HIDE DEF y, z
  <2>7. y \in Seq(Int) /\ z \in Seq(Int)
    BY <2>6, DigitsAre
  <2>8. Number(y) = 0
    BY <2>4, <2>6, <2>7, AllZero
  <2>9. Number(x) = 0 * Power[Len(z)] + Number(z)
    BY <2>6, <2>7, <2>8, Joined
  <2>10. Len(z) \in Nat /\ Power[Len(z)] \in Int /\ Number(z) \in Int
    BY <2>7, SizeOf
  <2>11. Number(x) = Number(z)
    BY <2>9, <2>10
  <2>12. Len(z) > 0 /\ z[1] # 0
    <3>1. 1 \in 1 .. n - k /\ k + 1 = m
      BY <1>1, <2>3
    <3> QED
      BY <2>3, <2>6, <3>1
  <2> QED
    BY <2>2, <2>6, <2>11, <2>12 DEF Trimmed
<1> QED
  BY <1>2, <1>3

\* How an answer of a comparison says the order of two numbers.
SaysOrder(c, m, n) ==
    \/ c = -1 /\ m < n
    \/ c = 0 /\ m = n
    \/ c = 1 /\ m > n

\* What trimmed digits are.
LEMMA TrimmedIs ==
  ASSUME NEW x \in Trimmed
  PROVE  /\ x \in Seq(Digit) /\ x \in Seq(Int) /\ Len(x) \in Nat /\ Len(x) >= 1 /\ Number(x) \in Nat
         /\ Number(x) < Power[Len(x)]
         /\ x = <<0>> \/ Power[Len(x) - 1] <= Number(x)
<1>1. x \in Seq(Digit) /\ Len(x) > 0 /\ (x[1] # 0 \/ x = <<0>>)
  BY DEF Trimmed
<1> QED
  BY <1>1, DigitsAre, NumberBounds

\* Of trimmed digits, the shorter stand for less.
LEMMA ShorterIsLess ==
  ASSUME NEW x \in Seq(Digit), NEW y \in Trimmed, Len(x) < Len(y), Len(x) > 0
  PROVE  Number(x) < Number(y)
<1>1. x \in Seq(Int) /\ Len(x) \in Nat /\ Number(x) \in Nat /\ Number(x) < Power[Len(x)]
  BY DigitsAre, NumberBounds
<1>2. y # <<0>>
  <2>1. Len(<<0>>) = 1
    OBVIOUS
  <2> QED
    BY <1>1, <2>1
<1>3. Len(y) \in Nat /\ Number(y) \in Nat /\ Power[Len(y) - 1] <= Number(y)
  BY <1>2, TrimmedIs
<1> DEFINE k == (Len(y) - 1) - Len(x)
<1>4. k \in Nat /\ Len(x) + k = Len(y) - 1
  BY <1>1, <1>3
<1> HIDE DEF k
<1>5. Power[Len(x) + k] = Power[Len(x)] * Power[k]
  BY <1>1, <1>4, PowerSum
<1>6. Power[Len(x)] \in Int /\ Power[Len(x)] >= 1 /\ Power[k] \in Int /\ Power[k] >= 1
  BY <1>1, <1>4, PowerAt
<1>7. Power[Len(x)] <= Power[Len(x)] * Power[k]
  <2> DEFINE p == Power[Len(x)]
             q == Power[k]
  <2>1. p \in Int /\ p >= 1 /\ q \in Int /\ q >= 1
    BY <1>6
  <2> HIDE DEF p, q
  <2>2. p * (q - 1) >= 0 /\ p * (q - 1) = p * q - p /\ p * q \in Int
    BY <2>1
  <2>3. p <= p * q
    BY <2>1, <2>2
  <2> QED
    BY <2>3 DEF p, q
<1>8. Power[Len(x)] <= Power[Len(y) - 1]
  BY <1>4, <1>5, <1>7
<1>9. Power[Len(y) - 1] \in Int
  <2>1. Len(y) - 1 \in Nat
    BY <1>1, <1>3
  <2> QED
    BY <2>1, PowerAt
<1> QED
  BY <1>1, <1>3, <1>6, <1>8, <1>9

\* Comparing lengths, then digits, orders the numbers; only equal digits are equal numbers.
LEMMA CompareTrimmedIs ==
  ASSUME NEW a \in Trimmed, NEW b \in Trimmed
  PROVE  SaysOrder(CompareTrimmed(a, b), Number(a), Number(b)) /\ (CompareTrimmed(a, b) = 0 => a = b)
<1> DEFINE differ == {i \in DOMAIN a : a[i] # b[i]}
<1>1. /\ a \in Seq(Digit) /\ b \in Seq(Digit) /\ Len(a) \in Nat /\ Len(b) \in Nat /\ Len(a) > 0 /\ Len(b) > 0
      /\ Number(a) \in Nat /\ Number(b) \in Nat /\ DOMAIN a = 1 .. Len(a)
      /\ a \in Seq(Int) /\ b \in Seq(Int)
  BY TrimmedIs
<1>2. CASE Len(a) < Len(b)
  <2>1. Number(a) < Number(b)
    BY <1>1, <1>2, ShorterIsLess
  <2> QED
    BY <1>2, <2>1 DEF CompareTrimmed, SaysOrder
<1>3. CASE Len(a) > Len(b)
  <2>1. Number(b) < Number(a)
    BY <1>1, <1>3, ShorterIsLess
  <2>2. CompareTrimmed(a, b) = 1
    BY <1>1, <1>3 DEF CompareTrimmed
  <2> QED
    BY <1>1, <2>1, <2>2 DEF SaysOrder
<1>4. CASE Len(a) = Len(b) /\ differ = {}
  <2>1. \A i \in 1 .. Len(a) : a[i] = b[i]
    BY <1>1, <1>4
  <2>2. a = b
    BY <1>1, <1>4, <2>1, SeqEqual
  <2>3. CompareTrimmed(a, b) = 0
    BY <1>1, <1>4 DEF CompareTrimmed
  <2> QED
    BY <2>2, <2>3 DEF SaysOrder
<1>5. CASE Len(a) = Len(b) /\ differ # {}
  <2> DEFINE m == Min(differ)
  <2>1. m \in differ /\ \A i \in differ : m <= i
    <3>1. differ \subseteq Nat
      BY <1>1
    <3> HIDE DEF differ
    <3> QED
      BY <1>5, <3>1, LeastOf
  <2>2. CompareTrimmed(a, b) = IF a[m] < b[m] THEN -1 ELSE 1
    <3>1. ~(Len(a) < Len(b)) /\ ~(Len(a) > Len(b))
      BY <1>1, <1>5
    <3> QED
      BY <1>5, <3>1 DEF CompareTrimmed
  <2> HIDE DEF m
  <2>3. m \in 1 .. Len(a) /\ a[m] # b[m] /\ \A j \in 1 .. m - 1 : a[j] = b[j] /\ b[j] = a[j]
    <3>1. m \in 1 .. Len(a) /\ a[m] # b[m]
      BY <1>1, <2>1
    <3>2. ASSUME NEW j \in 1 .. m - 1 PROVE a[j] = b[j]
      <4>1. j \in 1 .. Len(a) /\ ~(m <= j)
        BY <1>1, <3>1
      <4>2. j \notin differ
        BY <2>1, <4>1
      <4> QED
        BY <1>1, <4>1, <4>2
    <3> QED
      BY <3>1, <3>2
  <2>4. a[m] \in Int /\ b[m] \in Int
    BY <1>1, <1>5, <2>3, DigitsAre
  <2>5. CASE a[m] < b[m]
    <3>1. Number(a) < Number(b)
      BY <1>1, <1>5, <2>3, <2>5, SmallerDigit
    <3> QED
      BY <2>2, <2>5, <3>1 DEF SaysOrder
  <2>6. CASE ~(a[m] < b[m])
    <3>1. b[m] < a[m]
      BY <2>3, <2>4, <2>6
    <3>2. Number(b) < Number(a)
      BY <1>1, <1>5, <2>3, <3>1, SmallerDigit
    <3>3. CompareTrimmed(a, b) = 1
      BY <2>2, <2>6
    <3> QED
      BY <1>1, <3>2, <3>3 DEF SaysOrder
  <2> QED
    BY <2>5, <2>6
<1> QED
  BY <1>1, <1>2, <1>3, <1>4, <1>5

\* compareDigitSlices says the order of the numbers.
LEMMA CompareDigitsIs ==
  ASSUME NEW x \in Seq(Digit), NEW y \in Seq(Digit)
  PROVE  SaysOrder(CompareDigits(x, y), Number(x), Number(y))
BY TrimToOneIs, CompareTrimmedIs, Zenon DEF CompareDigits

\* Digits without a leading zero are determined by their number.
LEMMA SameNumber ==
  ASSUME NEW a \in Trimmed, NEW b \in Trimmed, Number(a) = Number(b)
  PROVE  a = b
<1>1. Number(a) \in Nat
  BY TrimmedIs
<1>2. SaysOrder(CompareTrimmed(a, b), Number(a), Number(b)) /\ (CompareTrimmed(a, b) = 0 => a = b)
  BY CompareTrimmedIs
<1> QED
  BY <1>1, <1>2 DEF SaysOrder

-----------------------------------------------------------------------------
(* Carries (addDigits, subDigits, mulSingleDigit).                         *)

\* Division by the base.
LEMMA DivMod ==
  ASSUME NEW n \in Int
  PROVE  n \div Base \in Int /\ n % Base \in Int /\ n % Base \in Digit /\ n = (n \div Base) * Base + (n % Base)
<1>1. Base \in Int /\ Base > 0
  BY BaseIs
<1>2. n \div Base \in Int /\ n % Base \in Int /\ 0 <= n % Base /\ n % Base < Base /\ n = (n \div Base) * Base + (n % Base)
  BY <1>1
<1>3. n % Base \in Digit
  BY <1>1, <1>2 DEF Digit
<1> QED
  BY <1>2, <1>3

\* The carries exist and are computed from the last column to the first.
LEMMA CarriesAre ==
  ASSUME NEW t \in Seq(Int)
  PROVE  /\ \A i \in 1 .. Len(t) + 1 : Carries(t)[i] \in Int
         /\ Carries(t)[Len(t) + 1] = 0
         /\ \A i \in 1 .. Len(t) : Carries(t)[i] = (t[i] + Carries(t)[i + 1]) \div Base
<1> DEFINE n == Len(t)
           G == [j \in 1 .. n |-> [x \in Int |-> (t[n + 1 - j] + x) \div Base]]
           Eq(c) == c = [i \in 1 .. n + 1 |-> IF i = n + 1 THEN 0 ELSE (t[i] + c[i + 1]) \div Base]
<1>1. n \in Nat /\ \A i \in 1 .. n : t[i] \in Int
  OBVIOUS
<1>2. ASSUME NEW j \in 1 .. n, NEW x \in Int
      PROVE  (t[n + 1 - j] + x) \div Base \in Int
  <2>1. n + 1 - j \in 1 .. n
    BY <1>1
  <2>2. t[n + 1 - j] + x \in Int
    BY <1>1, <2>1
  <2> QED
    BY <2>2, DivMod
<1>3. G \in [1 .. n -> [Int -> Int]] /\ \A j \in 1 .. n, x \in Int : G[j][x] = (t[n + 1 - j] + x) \div Base
  <2> HIDE DEF n
  <2> QED
    BY <1>2
<1> HIDE DEF n, G
<1>4. PICK f : Follows(f, Int, 0, n, G)
  <2>1. n \in Nat /\ 0 \in Int /\ G \in [1 .. n -> [Int -> Int]]
    BY <1>1, <1>3
  <2> QED
    BY <2>1, Recursion, Zenon
<1> DEFINE c == [i \in 1 .. n + 1 |-> f[n + 1 - i]]
<1>5. ASSUME NEW i \in 1 .. n + 1 PROVE c[i] \in Int /\ c[i] = IF i = n + 1 THEN 0 ELSE (t[i] + c[i + 1]) \div Base
  <2>1. n + 1 - i \in 0 .. n
    BY <1>1
  <2>2. c[i] = f[n + 1 - i] /\ c[i] \in Int
    BY <1>4, <2>1 DEF Follows
  <2>3. CASE i = n + 1
    <3>1. n + 1 - i = 0
      BY <1>1, <2>3
    <3> QED
      BY <1>4, <2>2, <2>3, <3>1 DEF Follows
  <2>4. CASE i # n + 1
    <3> DEFINE j == n + 1 - i
    <3>1. j \in 1 .. n /\ j - 1 \in 0 .. n /\ n + 1 - j = i /\ i + 1 \in 1 .. n + 1 /\ n + 1 - (i + 1) = j - 1
      BY <1>1, <2>4
    <3> HIDE DEF j
    <3>2. f[j] = G[j][f[j - 1]] /\ f[j - 1] \in Int
      BY <1>4, <3>1 DEF Follows
    <3>3. f[j] = (t[n + 1 - j] + f[j - 1]) \div Base
      BY <1>3, <3>1, <3>2
    <3>4. c[i + 1] = f[j - 1]
      BY <3>1
    <3>5. c[i] = f[j]
      BY <2>2 DEF j
    <3> QED
      BY <2>2, <2>4, <3>1, <3>3, <3>4, <3>5
  <2> QED
    BY <2>3, <2>4
<1>6. Eq(c)
  <2>1. c = [i \in 1 .. n + 1 |-> c[i]]
    OBVIOUS
  <2> HIDE DEF c
  <2> QED
    BY <1>5, <2>1
<1>7. Carries(t) = CHOOSE d : Eq(d)
  BY DEF Carries, n
<1> DEFINE p == Carries(t)
<1>8. Eq(p)
  <2> HIDE DEF Eq, c
  <2> QED
    BY <1>6, <1>7, Zenon
<1> HIDE DEF p
<1>9. \A i \in 1 .. n + 1 : p[i] = IF i = n + 1 THEN 0 ELSE (t[i] + p[i + 1]) \div Base
  BY <1>8
<1>10. p[n + 1] = 0 /\ \A i \in 1 .. n : p[i] = (t[i] + p[i + 1]) \div Base
  BY <1>1, <1>9
<1> DEFINE T == {j \in 0 .. n : p[n + 1 - j] \in Int}
<1>11. \A j \in 0 .. n : j \in T
  <2>1. 0 \in T
    <3>1. n + 1 - 0 = n + 1
      BY <1>1
    <3> QED
      BY <1>1, <1>10, <3>1
  <2>2. ASSUME NEW j \in 0 .. n - 1, j \in T PROVE j + 1 \in T
    <3> DEFINE i == n + 1 - (j + 1)
    <3>1. i \in 1 .. n /\ i + 1 = n + 1 - j /\ j + 1 \in 0 .. n
      BY <1>1
    <3>2. p[i] = (t[i] + p[i + 1]) \div Base
      BY <1>10, <3>1
    <3>3. t[i] + p[i + 1] \in Int
      BY <1>1, <2>2, <3>1
    <3>4. p[i] \in Int
      BY <3>2, <3>3, DivMod
    <3> QED
      BY <3>1, <3>4
  <2> HIDE DEF T
  <2> QED
    BY <1>1, <2>1, <2>2, Upward
<1>12. ASSUME NEW i \in 1 .. n + 1 PROVE p[i] \in Int
  <2>1. n + 1 - i \in 0 .. n /\ n + 1 - (n + 1 - i) = i
    BY <1>1
  <2> QED
    BY <1>11, <2>1
<1> QED
  BY <1>10, <1>12 DEF n, p

\* Carrying keeps the number: what leaves the first column is what the columns have lost.
LEMMA CarriedIs ==
  ASSUME NEW t \in Seq(Int)
  PROVE  /\ Carried(t) \in Seq(Digit) /\ Len(Carried(t)) = Len(t)
         /\ Carries(t)[1] \in Int
         /\ Number(t) = Carries(t)[1] * Power[Len(t)] + Number(Carried(t))
<1> DEFINE n == Len(t)
           c == Carries(t)
           s == Carried(t)
<1>1. n \in Nat /\ \A i \in 1 .. n : t[i] \in Int
  OBVIOUS
<1>2. /\ \A i \in 1 .. n + 1 : c[i] \in Int
      /\ c[n + 1] = 0
      /\ \A i \in 1 .. n : c[i] = (t[i] + c[i + 1]) \div Base
  BY CarriesAre
<1>3. s = [i \in 1 .. n |-> (t[i] + c[i + 1]) % Base]
  BY DEF Carried
<1> HIDE DEF n, c, s
<1>4. ASSUME NEW i \in 1 .. n
      PROVE  s[i] \in Digit /\ s[i] \in Int /\ t[i] + c[i + 1] = c[i] * Base + s[i]
  <2>1. i + 1 \in 1 .. n + 1
    BY <1>1
  <2>2. t[i] + c[i + 1] \in Int
    BY <1>1, <1>2, <2>1
  <2> QED
    BY <1>2, <1>3, <2>2, DivMod
<1>5. s \in Seq(Digit) /\ s \in Seq(Int) /\ Len(s) = n
  <2>1. s \in [1 .. n -> Digit]
    BY <1>3, <1>4
  <2>2. s \in Seq(Digit) /\ Len(s) = n
    BY <1>1, <2>1
  <2> QED
    BY <2>2, DigitsAre
<1> DEFINE T == {i \in 0 .. n : Leading(t)[i] + c[i + 1] = Leading(s)[i] + c[1] * Power[i]}
<1>6. 0 \in T
  <2>1. Leading(t)[0] = 0 /\ Leading(s)[0] = 0 /\ Power[0] = 1 /\ 0 + 1 = 1
    BY <1>5, NumberIs, PowerIs
  <2>2. c[1] \in Int
    BY <1>1, <1>2
  <2> QED
    BY <1>1, <2>1, <2>2
<1>7. ASSUME NEW i \in 0 .. n - 1, i \in T PROVE i + 1 \in T
  <2> DEFINE u == Leading(t)[i]
             v == Leading(s)[i]
             p == Power[i]
             a == c[i + 1]
             b == c[(i + 1) + 1]
             d == t[i + 1]
             e == s[i + 1]
             f == c[1]
  <2>1. i \in 0 .. n /\ i \in Nat /\ i + 1 \in 1 .. n /\ i + 1 \in 0 .. n /\ i + 1 \in 1 .. n + 1 /\ (i + 1) + 1 \in 1 .. n + 1 /\ 1 \in 1 .. n + 1
    BY <1>1
  <2>2. u \in Int /\ v \in Int /\ p \in Int /\ a \in Int /\ b \in Int /\ d \in Int /\ e \in Int /\ f \in Int
    <3>1. u \in Int
      BY <2>1, NumberIs DEF n
    <3>2. v \in Int
      BY <1>5, <2>1, NumberIs
    <3> QED
      BY <1>1, <1>2, <1>4, <2>1, <3>1, <3>2, PowerAt
  <2>3. d + b = a * Base + e
    BY <1>4, <2>1
  <2>4. u + a = v + f * p
    BY <1>7
  <2>5. Leading(t)[i + 1] = u * Base + d
    BY NumberIs DEF n
  <2>6. Leading(s)[i + 1] = v * Base + e
    BY <1>5, NumberIs
  <2>7. Power[i + 1] = Base * p
    BY <2>1, PowerAt
  <2> HIDE DEF u, v, p, a, b, d, e, f
  <2>8. (u * Base + d) + b = (v * Base + e) + f * (Base * p)
    <3>1. u * Base + a * Base = v * Base + f * (Base * p)
      <4>1. (u + a) * Base = u * Base + a * Base /\ (v + f * p) * Base = v * Base + f * (Base * p)
        BY <2>2, BaseIs
      <4> QED
        BY <2>4, <4>1
    <3>2. u * Base \in Int /\ a * Base \in Int /\ v * Base \in Int /\ f * (Base * p) \in Int
      BY <2>2, BaseIs
    <3> DEFINE w == u * Base
               x == a * Base
               y == v * Base
               z == f * (Base * p)
    <3>3. w + x = y + z /\ w \in Int /\ x \in Int /\ y \in Int /\ z \in Int /\ d + b = x + e
      BY <2>3, <3>1, <3>2
    <3> HIDE DEF w, x, y, z
    <3>4. (w + d) + b = (y + e) + z
      BY <2>2, <3>3
    <3> QED
      BY <3>4 DEF w, y, z
  <2>9. Leading(t)[i + 1] + c[(i + 1) + 1] = Leading(s)[i + 1] + c[1] * Power[i + 1]
    BY <2>5, <2>6, <2>7, <2>8 DEF b, f
  <2> QED
    BY <2>1, <2>9
<1> HIDE DEF T
<1>8. \A i \in 0 .. n : i \in T
  BY <1>1, <1>6, <1>7, Upward
<1>9. Leading(t)[n] + c[n + 1] = Leading(s)[n] + c[1] * Power[n]
  BY <1>1, <1>8 DEF T
<1>10. Number(t) = Leading(t)[n] /\ Number(s) = Leading(s)[n] /\ Number(t) \in Int /\ Number(s) \in Int
  BY <1>5, NumberIs DEF n
<1>11. c[1] \in Int /\ Power[n] \in Int
  <2>1. 1 \in 1 .. n + 1
    BY <1>1
  <2> QED
    BY <1>1, <1>2, <2>1, PowerAt
<1>12. c[1] * Power[n] \in Int
  <2> DEFINE f == c[1]
             p == Power[n]
  <2>1. f \in Int /\ p \in Int
    BY <1>11
  <2> HIDE DEF f, p
  <2>2. f * p \in Int
    BY <2>1
  <2> QED
    BY <2>2 DEF f, p
<1>13. Number(t) = c[1] * Power[n] + Number(s)
  BY <1>2, <1>9, <1>10, <1>12
<1> QED
  BY <1>5, <1>11, <1>13 DEF n, c, s

\* A carry between 0 and what the columns can hold is what their number says it is.
LEMMA CarryBound ==
  ASSUME NEW c \in Int, NEW p \in Int, NEW s \in Int, NEW m \in Int, p >= 1, 0 <= s, s < p, 0 <= c * p + s, c * p + s < m * p
  PROVE  0 <= c /\ c < m
<1>1. CASE c < 0
  <2>1. (-1 - c) * p >= 0 /\ (-1 - c) * p = -p - c * p /\ c * p \in Int
    BY <1>1
  <2> QED
    BY <2>1
<1>2. CASE c >= m
  <2>1. (c - m) * p >= 0 /\ (c - m) * p = c * p - m * p /\ c * p \in Int /\ m * p \in Int
    BY <1>2
  <2> QED
    BY <2>1
<1> QED
  BY <1>1, <1>2

\* addDigits adds.
LEMMA AddDigitsIs ==
  ASSUME NEW a \in Seq(Digit), NEW b \in Seq(Digit), Len(a) = Len(b)
  PROVE  AddDigits(a, b) \in Seq(Digit) /\ Number(AddDigits(a, b)) = Number(a) + Number(b)
<1> DEFINE n == Len(a)
           t == [i \in 1 .. n |-> a[i] + b[i]]
           c == Carries(t)[1]
           s == Carried(t)
           p == Power[n]
<1>1. n \in Nat /\ a \in Seq(Int) /\ b \in Seq(Int) /\ \A i \in 1 .. n : a[i] \in Int /\ b[i] \in Int
  BY DigitsAre
<1>2. t \in Seq(Int) /\ Len(t) = n /\ \A i \in 1 .. n : t[i] = a[i] + b[i]
  BY <1>1
<1>3. AddDigits(a, b) = IF c = 0 THEN s ELSE <<c>> \o s
  BY DEF AddDigits, WithCarry
<1> HIDE DEF t
<1>4. Number(t) = Number(a) + Number(b)
  <2>1. \A i \in 1 .. Len(t) : t[i] = 1 * a[i] + 1 * b[i]
    BY <1>1, <1>2
  <2>2. Columns(t, 1, a, 1, b) /\ 1 \in Int
    BY <1>2, <2>1 DEF Columns
  <2>3. Number(t) = 1 * Number(a) + 1 * Number(b)
    BY <1>1, <1>2, <2>2, Linear
  <2> QED
    BY <1>1, <2>3, NumberIs
<1>5. s \in Seq(Digit) /\ Len(s) = n /\ c \in Int /\ Number(t) = c * p + Number(s)
  BY <1>2, CarriedIs
<1>6. /\ Number(a) \in Nat /\ Number(a) < p /\ Number(b) \in Nat /\ Number(b) < p
      /\ Number(s) \in Nat /\ Number(s) < p /\ p \in Int /\ p >= 1
  BY <1>1, <1>5, NumberBounds, PowerAt
<1> HIDE DEF n, c, s, p
<1>7. 0 <= c /\ c < 2
  <2> DEFINE w == Number(s)
             m == 2
  <2>1. w \in Int /\ 0 <= w /\ w < p /\ 0 <= c * p + w /\ c * p + w < m * p /\ m \in Int
    BY <1>4, <1>5, <1>6
  <2> HIDE DEF w, m
  <2>2. 0 <= c /\ c < m
    BY <1>5, <1>6, <2>1, CarryBound
  <2> QED
    BY <2>2 DEF m
<1>8. CASE c = 0
  <2>1. Number(t) = Number(s)
    BY <1>5, <1>6, <1>8
  <2> QED
    BY <1>3, <1>4, <1>5, <1>8, <2>1
<1>9. CASE c # 0
  <2>1. c = 1 /\ c \in Digit
    BY <1>5, <1>7, <1>9, BaseIs DEF Digit
  <2> DEFINE h == <<c>>
  <2>2. h \in Seq(Digit) /\ h \in Seq(Int) /\ Number(h) = c
    BY <1>5, <2>1, OneDigit
  <2> HIDE DEF h
  <2>3. s \in Seq(Int)
    BY <1>5, DigitsAre
  <2>4. Number(h \o s) = c * p + Number(s)
    BY <1>5, <2>2, <2>3, Joined DEF p
  <2>5. h \o s \in Seq(Digit)
    BY <1>5, <2>2, ConcatProperties
  <2> QED
    BY <1>3, <1>4, <1>5, <1>9, <2>4, <2>5 DEF h
<1> QED
  BY <1>8, <1>9

\* subDigits subtracts the smaller number from the larger.
LEMMA SubDigitsIs ==
  ASSUME NEW x \in Seq(Digit), NEW y \in Seq(Digit), Len(y) <= Len(x), Number(y) <= Number(x)
  PROVE  SubDigits(x, y) \in Seq(Digit) /\ Number(SubDigits(x, y)) = Number(x) - Number(y)
<1> DEFINE n == Len(x)
           k == n - Len(y)
           b == Zeros(k) \o y
           t == [i \in 1 .. n |-> x[i] - b[i]]
           c == Carries(t)[1]
           s == Carried(t)
           p == Power[n]
<1>1. n \in Nat /\ x \in Seq(Int) /\ y \in Seq(Int) /\ \A i \in 1 .. n : x[i] \in Int
  BY DigitsAre
<1>2. k \in Nat /\ Len(y) \in Nat /\ k + Len(y) = n
  BY <1>1
<1>3. b \in Seq(Int) /\ Len(b) = n /\ Number(b) = Number(y)
  <2> DEFINE z == Zeros(k)
  <2> HIDE DEF k
  <2>1. z \in Seq(Int) /\ Len(z) = k /\ Number(z) = 0
    BY <1>2, ZerosAre
  <2> HIDE DEF z
  <2>2. z \o y \in Seq(Int) /\ Len(z \o y) = Len(z) + Len(y) /\ Number(z \o y) = Number(z) * Power[Len(y)] + Number(y)
    BY <1>1, <2>1, Joined
  <2>3. 0 * Power[Len(y)] + Number(y) = Number(y)
    BY <1>1, SizeOf
  <2> QED
    BY <1>2, <2>1, <2>2, <2>3 DEF z
<1>4. SubDigits(x, y) = s
  BY DEF SubDigits
<1> HIDE DEF b, k
<1>5. t \in Seq(Int) /\ Len(t) = n /\ \A i \in 1 .. n : t[i] = x[i] - b[i] /\ b[i] \in Int
  <2>1. \A i \in 1 .. n : b[i] \in Int
    BY <1>3
  <2> QED
    BY <1>1, <2>1
<1> HIDE DEF t
<1>6. Number(t) = Number(x) - Number(y)
  <2>1. \A i \in 1 .. Len(t) : t[i] = 1 * x[i] + (-1) * b[i]
    BY <1>1, <1>5
  <2> DEFINE q == -1
  <2>2. q \in Int /\ \A i \in 1 .. Len(t) : t[i] = 1 * x[i] + q * b[i]
    BY <2>1
  <2> HIDE DEF q
  <2>3. q \in Int /\ 1 \in Int /\ Columns(t, 1, x, q, b)
    BY <1>3, <1>5, <2>2 DEF Columns
  <2>4. Number(t) = 1 * Number(x) + q * Number(b)
    <3>1. t \in Seq(Int) /\ x \in Seq(Int) /\ b \in Seq(Int)
      BY <1>1, <1>3, <1>5
    <3> QED
      BY <2>3, <3>1, Linear
  <2>5. Number(x) \in Int /\ Number(b) \in Int
    BY <1>1, <1>3, NumberIs
  <2> QED
    BY <1>3, <2>4, <2>5 DEF q
<1>7. s \in Seq(Digit) /\ Len(s) = n /\ c \in Int /\ Number(t) = c * p + Number(s)
  BY <1>5, CarriedIs
<1>8. /\ Number(x) \in Nat /\ Number(x) < p /\ Number(y) \in Nat
      /\ Number(s) \in Nat /\ Number(s) < p /\ p \in Int /\ p >= 1
  BY <1>1, <1>7, NumberBounds, PowerAt
<1> HIDE DEF n, c, s, p
<1>9. 0 <= c /\ c < 1
  <2> DEFINE w == Number(s)
             m == 1
  <2>1. w \in Int /\ 0 <= w /\ w < p /\ 0 <= c * p + w /\ c * p + w < m * p /\ m \in Int
    BY <1>6, <1>7, <1>8
  <2> HIDE DEF w, m
  <2>2. 0 <= c /\ c < m
    BY <1>7, <1>8, <2>1, CarryBound
  <2> QED
    BY <2>2 DEF m
<1>10. Number(t) = Number(s)
  <2>1. c = 0
    BY <1>7, <1>9
  <2> QED
    BY <1>7, <1>8, <2>1
<1> QED
  BY <1>4, <1>6, <1>7, <1>10

\* mulSingleDigit multiplies by a digit.
LEMMA MulSingleDigitIs ==
  ASSUME NEW a \in Seq(Digit), NEW q \in Digit
  PROVE  MulSingleDigit(a, q) \in Trimmed /\ Number(MulSingleDigit(a, q)) = q * Number(a)
<1> DEFINE n == Len(a)
           t == [i \in 1 .. n |-> a[i] * q]
           c == Carries(t)[1]
           s == Carried(t)
           p == Power[n]
<1>1. n \in Nat /\ a \in Seq(Int) /\ q \in Int /\ 0 <= q /\ q <= Base - 1 /\ \A i \in 1 .. n : a[i] \in Int
  BY DigitsAre, BaseIs DEF Digit
<1>2. t \in Seq(Int) /\ Len(t) = n /\ \A i \in 1 .. n : t[i] = a[i] * q
  <2>1. \A i \in 1 .. n : a[i] * q \in Int
    BY <1>1
  <2> QED
    BY <1>1, <2>1
<1>3. MulSingleDigit(a, q) = TrimToOne(<<c>> \o s)
  BY DEF MulSingleDigit
<1> HIDE DEF t
<1>4. Number(t) = q * Number(a)
  <2>1. \A i \in 1 .. Len(t) : t[i] = q * a[i] + 0 * a[i]
    <3>1. \A i \in 1 .. n : a[i] * q = q * a[i] + 0 * a[i]
      BY <1>1
    <3> QED
      BY <1>2, <3>1
  <2>2. 0 \in Int /\ Columns(t, q, a, 0, a)
    BY <1>2, <2>1 DEF Columns
  <2>3. Number(t) = q * Number(a) + 0 * Number(a)
    BY <1>1, <1>2, <2>2, Linear
  <2>4. Number(a) \in Int
    BY <1>1, NumberIs
  <2> DEFINE w == Number(a)
  <2> HIDE DEF w
  <2>5. q * w + 0 * w = q * w
    BY <1>1, <2>4 DEF w
  <2> QED
    BY <2>3, <2>5 DEF w
<1>5. s \in Seq(Digit) /\ Len(s) = n /\ c \in Int /\ Number(t) = c * p + Number(s)
  BY <1>2, CarriedIs
<1>6. /\ Number(a) \in Nat /\ Number(a) < p
      /\ Number(s) \in Nat /\ Number(s) < p /\ p \in Int /\ p >= 1
  BY <1>1, <1>5, NumberBounds, PowerAt
<1> HIDE DEF n, c, s, p
<1>7. 0 <= c /\ c < Base
  <2> DEFINE w == Number(s)
             v == Number(a)
  <2>1. w \in Int /\ 0 <= w /\ w < p /\ c * p + w = q * v /\ v \in Int /\ 0 <= v /\ v < p
    BY <1>4, <1>5, <1>6
  <2> HIDE DEF w, v
  <2>2. 0 <= q * v /\ q * v \in Int
    BY <1>1, <2>1
  <2>3. q * v < Base * p
    <3>1. q * v <= q * p
      <4>1. q * (p - v) >= 0 /\ q * (p - v) = q * p - q * v /\ q * p \in Int
        BY <1>1, <1>6, <2>1
      <4> QED
        BY <2>2, <4>1
    <3>2. (Base - q) * p >= 1 /\ (Base - q) * p = Base * p - q * p /\ q * p \in Int /\ Base * p \in Int
      <4>1. Base - q \in Int /\ Base - q >= 1
        BY <1>1, BaseIs
      <4> DEFINE r == Base - q
      <4> HIDE DEF r
      <4>2. r * p >= 1
        BY <1>6, <4>1 DEF r
      <4>3. (Base - q) * p = Base * p - q * p /\ q * p \in Int /\ Base * p \in Int
        BY <1>1, <1>6, BaseIs
      <4> QED
        BY <4>2, <4>3 DEF r
    <3> QED
      BY <2>2, <3>1, <3>2
  <2>4. 0 <= c * p + w /\ c * p + w < Base * p
    BY <2>1, <2>2, <2>3
  <2> QED
    BY <1>5, <1>6, <2>1, <2>4, BaseIs, CarryBound
<1>8. c \in Digit
  BY <1>5, <1>7, BaseIs DEF Digit
<1> DEFINE h == <<c>>
<1>9. h \in Seq(Digit) /\ h \in Seq(Int) /\ Number(h) = c
  BY <1>5, <1>8, OneDigit
<1> HIDE DEF h
<1>10. s \in Seq(Int)
  BY <1>5, DigitsAre
<1>11. Number(h \o s) = c * p + Number(s)
  BY <1>5, <1>9, <1>10, Joined DEF p
<1>12. h \o s \in Seq(Digit)
  BY <1>5, <1>9, ConcatProperties
<1>13. TrimToOne(h \o s) \in Trimmed /\ Number(TrimToOne(h \o s)) = q * Number(a)
  BY <1>4, <1>5, <1>11, <1>12, TrimToOneIs
<1> QED
  BY <1>3, <1>13 DEF h

-----------------------------------------------------------------------------
(* Long division (divDigits).                                              *)

\* Appending a digit.
LEMMA Appended ==
  ASSUME NEW x \in Seq(Digit), NEW d \in Digit
  PROVE  /\ Append(x, d) \in Seq(Digit) /\ Len(Append(x, d)) = Len(x) + 1
         /\ \A i \in 1 .. Len(x) : Append(x, d)[i] = x[i]
         /\ Number(Append(x, d)) = Number(x) * Base + d
<1>1. /\ Append(x, d) \in Seq(Digit) /\ Len(Append(x, d)) = Len(x) + 1
      /\ \A i \in 1 .. Len(x) : Append(x, d)[i] = x[i]
  BY AppendProperties
<1>2. Append(x, d) = x \o <<d>>
  BY AppendIsConcat
<1> DEFINE h == <<d>>
<1>3. d \in Int
  BY BaseIs DEF Digit
<1>4. h \in Seq(Int) /\ Number(h) = d /\ Len(h) = 1
  BY <1>3, OneDigit
<1> HIDE DEF h
<1>5. Number(x \o h) = Number(x) * Power[1] + d
  <2>1. x \in Seq(Int)
    BY DigitsAre
  <2>2. Number(x \o h) = Number(x) * Power[Len(h)] + Number(h)
    BY <1>4, <2>1, Joined
  <2> QED
    BY <1>4, <2>2
<1>6. Power[1] = Base
  BY Powers
<1> QED
  BY <1>1, <1>2, <1>5, <1>6 DEF h

\* Bringing a digit down behind a remainder that is less than the divisor.
LEMMA BringDownIs ==
  ASSUME NEW r \in Trimmed, NEW d \in Digit, NEW m \in Nat, Number(r) < m
  PROVE  BringDown(r, d) \in Trimmed /\ Number(BringDown(r, d)) = Number(r) * Base + d /\ Number(BringDown(r, d)) < Base * m
<1>1. r \in Seq(Digit) /\ Len(r) \in Nat /\ Len(r) >= 1 /\ Number(r) \in Nat /\ (r[1] # 0 \/ r = <<0>>)
  BY TrimmedIs DEF Trimmed
<1>2. d \in Int /\ 0 <= d /\ d <= Base - 1
  BY BaseIs DEF Digit
<1>3. BringDown(r, d) \in Trimmed /\ Number(BringDown(r, d)) = Number(r) * Base + d
  <2>1. CASE r = <<0>>
    <3>1. BringDown(r, d) = <<d>>
      BY <2>1 DEF BringDown
    <3>2. Number(r) = 0
      BY <2>1, OneDigit
    <3>3. <<d>> \in Seq(Digit) /\ Len(<<d>>) = 1 /\ <<d>>[1] = d
      OBVIOUS
    <3>4. Number(<<d>>) = d
      BY <1>2, OneDigit
    <3>5. <<d>> \in Trimmed
      BY <3>3 DEF Trimmed
    <3>6. 0 * Base + d = d
      BY <1>2, BaseIs
    <3> QED
      BY <3>1, <3>2, <3>4, <3>5, <3>6
  <2>2. CASE r # <<0>>
    <3>1. BringDown(r, d) = Append(r, d)
      BY <2>2 DEF BringDown
    <3> DEFINE y == Append(r, d)
    <3>2. /\ y \in Seq(Digit) /\ Len(y) = Len(r) + 1
          /\ \A i \in 1 .. Len(r) : y[i] = r[i]
          /\ Number(y) = Number(r) * Base + d
      BY <1>1, Appended
    <3> HIDE DEF y
    <3>3. 1 \in 1 .. Len(r)
      BY <1>1
    <3>4. y[1] # 0 /\ Len(y) > 0
      BY <1>1, <2>2, <3>2, <3>3
    <3> QED
      BY <3>1, <3>2, <3>4 DEF y, Trimmed
  <2> QED
    BY <2>1, <2>2
<1>4. Number(r) * Base + d < Base * m
  <2> DEFINE u == Number(r)
  <2>1. u \in Int /\ u + 1 <= m
    BY <1>1
  <2> HIDE DEF u
  <2>2. (m - (u + 1)) * Base >= 0 /\ (m - (u + 1)) * Base = Base * m - u * Base - Base
    BY <2>1, BaseIs
  <2>3. u * Base \in Int /\ Base * m \in Int
    BY <2>1, BaseIs
  <2>4. u * Base + d < Base * m
    BY <1>2, <2>2, <2>3, BaseIs
  <2> QED
    BY <2>4 DEF u
<1> QED
  BY <1>3, <1>4

\* The digit that is found is the quotient of what was brought down.
LEMMA QuotientDigitIs ==
  ASSUME NEW r \in Trimmed, NEW b \in Trimmed, Number(r) < Base * Number(b)
  PROVE  LET q == QuotientDigit(r, b) IN
         q \in Digit /\ q * Number(b) <= Number(r) /\ Number(r) < (q + 1) * Number(b)
<1> DEFINE Fits(q) == CompareDigits(r, MulSingleDigit(b, q)) >= 0
           S == {q \in Digit : q = 0 \/ Fits(q)}
           m == Base - 1
           q == Max(S)
           R == Number(r)
           B == Number(b)
<1>1. r \in Seq(Digit) /\ b \in Seq(Digit) /\ R \in Nat /\ B \in Nat
  BY TrimmedIs
<1>2. ASSUME NEW d \in Digit
      PROVE  Fits(d) <=> d * B <= R
  <2>1. MulSingleDigit(b, d) \in Seq(Digit) /\ Number(MulSingleDigit(b, d)) = d * B
    BY <1>1, MulSingleDigitIs, TrimmedIs
  <2>2. SaysOrder(CompareDigits(r, MulSingleDigit(b, d)), R, d * B)
    BY <1>1, <2>1, CompareDigitsIs
  <2>3. d \in Int
    BY BaseIs DEF Digit
  <2> DEFINE w == d * B
  <2>4. w \in Int
    BY <1>1, <2>3
  <2> HIDE DEF w
  <2>5. SaysOrder(CompareDigits(r, MulSingleDigit(b, d)), R, w)
    BY <2>2 DEF w
  <2> HIDE DEF R
  <2>6. Fits(d) <=> w <= R
    BY <1>1, <2>4, <2>5 DEF SaysOrder
  <2> QED
    BY <2>6 DEF w
<1>3. m \in Nat /\ S \subseteq 0 .. m /\ 0 \in S
  BY BaseIs DEF Digit
<1>4. QuotientDigit(r, b) = q
  BY DEF QuotientDigit
<1> HIDE DEF Fits, R, B, S
<1>5. q \in S /\ \A y \in S : q >= y
  <2>1. S # {}
    BY <1>3
  <2> HIDE DEF m
  <2> QED
    BY <1>3, <2>1, GreatestOf
<1> HIDE DEF q
<1>6. q \in Digit /\ (q = 0 \/ Fits(q))
  BY <1>5 DEF S
<1>7. q \in Int /\ 0 <= q /\ q <= Base - 1
  BY <1>6, BaseIs DEF Digit
<1>8. q * B <= R
  <2>1. CASE q = 0
    <3>1. 0 * B = 0
      BY <1>1
    <3> QED
      BY <1>1, <2>1, <3>1
  <2>2. CASE Fits(q)
    BY <1>2, <1>6, <2>2
  <2> QED
    BY <1>6, <2>1, <2>2
<1>9. R < (q + 1) * B
  <2>1. CASE q + 1 \in Digit
    <3>1. q + 1 \notin S
      BY <1>5, <1>7
    <3>2. ~Fits(q + 1)
      BY <2>1, <3>1 DEF S
    <3>3. ~((q + 1) * B <= R)
      BY <1>2, <2>1, <3>2
    <3>4. (q + 1) * B \in Int
      BY <1>1, <1>7
    <3> QED
      BY <1>1, <3>3, <3>4
  <2>2. CASE q + 1 \notin Digit
    <3>1. q + 1 = Base
      BY <1>7, <2>2, BaseIs DEF Digit
    <3> QED
      BY <3>1 DEF R, B
  <2> QED
    BY <2>1, <2>2
<1> QED
  BY <1>4, <1>6, <1>8, <1>9 DEF R, B

\* One step of a long division keeps what it has: a digit of the quotient and what is left.
LEMMA DivStepIs ==
  ASSUME NEW quo \in Seq(Digit), NEW r \in Trimmed, NEW b \in Trimmed, Number(r) < Base * Number(b)
  PROVE  LET s == DivStep(quo, r, b) IN
         \E q \in Digit : /\ s = [rem |-> s.rem, quo |-> Append(quo, q)]
                          /\ s.rem \in Trimmed /\ Number(s.rem) < Number(b)
                          /\ Number(r) = q * Number(b) + Number(s.rem)
<1> DEFINE q == QuotientDigit(r, b)
           B == Number(b)
           R == Number(r)
           p == MulSingleDigit(b, q)
           rem == IF q = 0 THEN r ELSE TrimToOne(SubDigits(r, p))
<1>1. r \in Seq(Digit) /\ b \in Seq(Digit) /\ R \in Nat /\ B \in Nat /\ Len(r) \in Nat /\ Len(r) > 0
  BY TrimmedIs
<1>2. q \in Digit /\ q * B <= R /\ R < (q + 1) * B
  BY QuotientDigitIs
<1>3. DivStep(quo, r, b) = [rem |-> rem, quo |-> Append(quo, q)]
  BY DEF DivStep, TakeAway
<1> HIDE DEF q
<1>4. q \in Int /\ q * B \in Int /\ (q + 1) * B = q * B + B
  <2>1. q \in Int
    BY <1>2, BaseIs DEF Digit
  <2> HIDE DEF B
  <2> QED
    BY <1>1, <2>1
<1>5. rem \in Trimmed /\ Number(rem) = R - q * B
  <2>1. CASE q = 0
    <3>1. 0 * B = 0
      BY <1>1
    <3> QED
      BY <1>1, <2>1, <3>1
  <2>2. CASE q # 0
    <3>1. p \in Trimmed /\ Number(p) = q * B
      BY <1>1, <1>2, MulSingleDigitIs
    <3> HIDE DEF p
    <3>2. p \in Seq(Digit) /\ Len(p) \in Nat
      BY <3>1, TrimmedIs
    <3>3. Len(p) <= Len(r)
      <4>1. CASE Len(r) < Len(p)
        <5>1. R < q * B
          BY <1>1, <3>1, <4>1, ShorterIsLess
        <5> QED
          BY <1>1, <1>2, <1>4, <5>1
      <4> QED
        BY <1>1, <3>2, <4>1
    <3>4. SubDigits(r, p) \in Seq(Digit) /\ Number(SubDigits(r, p)) = R - q * B
      BY <1>1, <1>2, <3>1, <3>2, <3>3, SubDigitsIs
    <3> QED
      BY <2>2, <3>4, TrimToOneIs
  <2> QED
    BY <2>1, <2>2
<1> HIDE DEF rem, B, R
<1>6. Number(rem) < B /\ R = q * B + Number(rem)
  <2> DEFINE w == q * B
  <2>1. w \in Int /\ w <= R /\ R < w + B /\ Number(rem) = R - w
    BY <1>2, <1>4, <1>5
  <2> HIDE DEF w
  <2>2. Number(rem) < B /\ R = w + Number(rem)
    BY <1>1, <2>1
  <2> QED
    BY <2>2 DEF w
<1>7. DivStep(quo, r, b).rem = rem
  BY <1>3
<1> QED
  BY <1>2, <1>3, <1>5, <1>6, <1>7 DEF B, R

\* What divDigits carries from one digit of the dividend to the next.
Division(b) == {s \in [rem : Trimmed, quo : Seq(Digit)] : Number(s.rem) < Number(b)}

\* The next state of a long division, for the next digit of the dividend.
DivNext(s, d, b) == DivStep(s.quo, BringDown(s.rem, d), b)

\* What is divided so far is the quotient so far times the divisor, and what is left.
LEMMA DivNextIs ==
  ASSUME NEW b \in Trimmed, NEW s \in Division(b), NEW d \in Digit
  PROVE  /\ DivNext(s, d, b) \in Division(b)
         /\ Number(DivNext(s, d, b).quo) * Number(b) + Number(DivNext(s, d, b).rem)
              = (Number(s.quo) * Number(b) + Number(s.rem)) * Base + d
         /\ Len(DivNext(s, d, b).quo) = Len(s.quo) + 1
<1> DEFINE r == BringDown(s.rem, d)
           t == DivStep(s.quo, r, b)
           B == Number(b)
<1>1. s.rem \in Trimmed /\ s.quo \in Seq(Digit) /\ Number(s.rem) < B /\ B \in Nat
  BY TrimmedIs DEF Division
<1>2. r \in Trimmed /\ Number(r) = Number(s.rem) * Base + d /\ Number(r) < Base * B
  BY <1>1, BringDownIs
<1>3. DivNext(s, d, b) = t
  BY DEF DivNext
<1> HIDE DEF r
<1>4. PICK q \in Digit : /\ t = [rem |-> t.rem, quo |-> Append(s.quo, q)]
                         /\ t.rem \in Trimmed /\ Number(t.rem) < B
                         /\ Number(r) = q * B + Number(t.rem)
  BY <1>1, <1>2, DivStepIs
<1> HIDE DEF t
<1>5. t.quo = Append(s.quo, q)
  BY <1>4
<1>6. t.quo \in Seq(Digit) /\ Number(t.quo) = Number(s.quo) * Base + q /\ Len(t.quo) = Len(s.quo) + 1
  BY <1>1, <1>5, Appended
<1>7. t \in Division(b)
  BY <1>4, <1>6 DEF Division
<1>8. Number(t.quo) * B + Number(t.rem) = (Number(s.quo) * B + Number(s.rem)) * Base + d
  <2> DEFINE u == Number(s.quo)
             v == Number(s.rem)
             w == Number(t.rem)
  <2>1. q \in Int /\ d \in Int
    BY BaseIs DEF Digit
  <2>2. u \in Int /\ v \in Int /\ w \in Int
    BY <1>1, <1>4, TrimmedIs, NumberBounds
  <2>3. v * Base + d = q * B + w
    BY <1>2, <1>4
  <2> HIDE DEF u, v, w, B
  <2>4. (u * Base + q) * B = u * Base * B + q * B /\ (u * B + v) * Base = u * Base * B + v * Base
    BY <1>1, <2>1, <2>2, BaseIs
  <2>5. u * Base * B \in Int /\ q * B \in Int /\ v * Base \in Int
    BY <1>1, <2>1, <2>2, BaseIs
  <2>6. (u * Base + q) * B + w = (u * B + v) * Base + d
    <3> DEFINE x == u * Base * B
               y == q * B
               z == v * Base
    <3>1. x \in Int /\ y \in Int /\ z \in Int /\ z + d = y + w /\ (u * Base + q) * B = x + y /\ (u * B + v) * Base = x + z
      BY <2>3, <2>4, <2>5
    <3> HIDE DEF x, y, z
    <3> QED
      BY <2>1, <2>2, <3>1
  <2> QED
    BY <1>6, <2>6 DEF u, v, w
<1> QED
  BY <1>3, <1>6, <1>7, <1>8

\* The quotient of two numbers, rounded down (divDigits).
LEMMA DivDigitsIs ==
  ASSUME NEW x \in Seq(Digit), NEW b \in Trimmed, Number(b) > 0
  PROVE  DivDigits(x, b) \in Trimmed /\ Number(DivDigits(x, b)) = Number(x) \div Number(b)
<1> DEFINE n == Len(x)
           S == Division(b)
           s0 == [rem |-> <<0>>, quo |-> <<>>]
           G == [i \in 1 .. n |-> [s \in S |-> DivNext(s, x[i], b)]]
           Eq(g) == g = [k \in 0 .. n |-> IF k = 0 THEN s0 ELSE DivNext(g[k - 1], x[k], b)]
<1>1. n \in Nat /\ (\A i \in 1 .. n : x[i] \in Digit) /\ Number(b) \in Nat /\ x \in Seq(Int)
  BY DigitsAre, TrimmedIs
<1>2. s0 \in S
  <2>1. <<0>> \in Seq(Digit) /\ Len(<<0>>) = 1 /\ <<>> \in Seq(Digit)
    BY BaseIs DEF Digit
  <2>2. <<0>> \in Trimmed
    BY <2>1 DEF Trimmed
  <2>3. Number(<<0>>) = 0
    BY OneDigit
  <2> QED
    BY <1>1, <2>1, <2>2, <2>3 DEF Division
<1>3. G \in [1 .. n -> [S -> S]] /\ \A i \in 1 .. n, s \in S : G[i][s] = DivNext(s, x[i], b)
  <2>1. \A i \in 1 .. n, s \in S : DivNext(s, x[i], b) \in S
    BY <1>1, DivNextIs
  <2> HIDE DEF n, S
  <2> QED
    BY <2>1
<1> HIDE DEF n, G, S, s0
<1>4. PICK f : Follows(f, S, s0, n, G)
  <2>1. n \in Nat /\ s0 \in S /\ G \in [1 .. n -> [S -> S]]
    BY <1>1, <1>2, <1>3
  <2> QED
    BY <2>1, Recursion, Zenon
<1>5. ASSUME NEW i \in 1 .. n PROVE f[i - 1] \in S /\ f[i] = DivNext(f[i - 1], x[i], b)
  <2>1. i - 1 \in 0 .. n
    BY <1>1
  <2>2. f[i - 1] \in S
    BY <1>4, <2>1 DEF Follows
  <2>3. f[i] = G[i][f[i - 1]]
    BY <1>4 DEF Follows
  <2> QED
    BY <1>3, <2>2, <2>3
<1>6. Eq(f)
  <2>1. f = [k \in 0 .. n |-> f[k]] /\ f[0] = s0
    BY <1>4 DEF Follows
  <2>2. ASSUME NEW k \in 0 .. n PROVE f[k] = IF k = 0 THEN s0 ELSE DivNext(f[k - 1], x[k], b)
    <3>1. k # 0 => k \in 1 .. n
      BY <1>1
    <3> QED
      BY <1>5, <2>1, <3>1
  <2> QED
    BY <2>1, <2>2
<1> DEFINE acc == CHOOSE g : Eq(g)
<1>7. DivDigits(x, b) = TrimToOne(acc[n].quo)
  BY DEF DivDigits, n, s0, DivNext
<1>8. Eq(acc)
  <2> HIDE DEF Eq
  <2> QED
    BY <1>6, Zenon
<1> HIDE DEF acc
<1>9. \A k \in 0 .. n : acc[k] = IF k = 0 THEN s0 ELSE DivNext(acc[k - 1], x[k], b)
  BY <1>8
<1> DEFINE T == {k \in 0 .. n : acc[k] \in S /\ Number(acc[k].quo) * Number(b) + Number(acc[k].rem) = Leading(x)[k]}
<1>10. 0 \in T
  <2>1. acc[0] = s0
    BY <1>1, <1>9
  <2>2. Number(s0.quo) = 0 /\ Number(s0.rem) = 0
    BY OneDigit DEF s0
  <2>3. 0 * Number(b) + 0 = 0
    BY <1>1
  <2>4. Leading(x)[0] = 0
    BY <1>1, NumberIs
  <2>5. acc[0] \in S /\ Number(acc[0].quo) = 0 /\ Number(acc[0].rem) = 0
    BY <1>2, <2>1, <2>2
  <2>6. 0 \in 0 .. n
    BY <1>1
  <2> QED
    BY <2>3, <2>4, <2>5, <2>6
<1>11. ASSUME NEW k \in 0 .. n - 1, k \in T PROVE k + 1 \in T
  <2>1. k + 1 \in 1 .. n /\ k + 1 \in 0 .. n /\ k + 1 # 0 /\ (k + 1) - 1 = k
    BY <1>1
  <2>2. acc[k + 1] = DivNext(acc[k], x[k + 1], b)
    BY <1>9, <2>1
  <2>3. acc[k] \in S /\ x[k + 1] \in Digit
    BY <1>1, <1>11, <2>1
  <2>4. /\ acc[k + 1] \in S
        /\ Number(acc[k + 1].quo) * Number(b) + Number(acc[k + 1].rem)
             = (Number(acc[k].quo) * Number(b) + Number(acc[k].rem)) * Base + x[k + 1]
    BY <2>2, <2>3, DivNextIs DEF S
  <2>5. Leading(x)[k + 1] = Leading(x)[k] * Base + x[k + 1]
    BY <1>1, NumberIs DEF n
  <2> QED
    BY <1>11, <2>1, <2>4, <2>5
<1> HIDE DEF T
<1>12. \A k \in 0 .. n : k \in T
  BY <1>1, <1>10, <1>11, Upward
<1>13. acc[n] \in S /\ Number(acc[n].quo) * Number(b) + Number(acc[n].rem) = Leading(x)[n]
  BY <1>1, <1>12 DEF T
<1> DEFINE q == Number(acc[n].quo)
           r == Number(acc[n].rem)
           m == Number(b)
<1>14. acc[n].quo \in Seq(Digit) /\ acc[n].rem \in Trimmed /\ r < m
  BY <1>13 DEF S, Division
<1>15. q \in Int /\ r \in Nat /\ m \in Nat \ {0} /\ Number(x) \in Int
  BY <1>1, <1>14, NumberBounds, TrimmedIs, NumberIs
<1>16. q * m + r = Number(x)
  BY <1>1, <1>13, NumberIs DEF n
<1> HIDE DEF q, r, m
<1>17. m * q <= Number(x) /\ Number(x) < m * q + m
  <2>1. q * m = m * q /\ q * m \in Int
    BY <1>15
  <2> QED
    BY <1>14, <1>15, <1>16, <2>1
<1>18. Number(x) \div m = q
  BY <1>15, <1>17, DivIs
<1> QED
  BY <1>7, <1>14, <1>18, TrimToOneIs DEF q, m

-----------------------------------------------------------------------------
(* Long multiplication (mulDigits).                                        *)

\* The digits of two sequences of digits, one after the other.
LEMMA JoinedAt ==
  ASSUME NEW S, NEW x \in Seq(S), NEW y \in Seq(S)
  PROVE  /\ \A i \in 1 .. Len(x) : (x \o y)[i] = x[i]
         /\ \A i \in 1 .. Len(y) : (x \o y)[Len(x) + i] = y[i]
<1>1. Len(x) \in Nat /\ Len(y) \in Nat
  OBVIOUS
<1> QED
  BY <1>1

\* A column changed.
Put(x, p, v) == [x EXCEPT ![p] = v]

\* Changing one digit changes the number by the difference, at the weight of its place.
LEMMA Updated ==
  ASSUME NEW x \in Seq(Int), NEW p \in 1 .. Len(x), NEW v \in Int
  PROVE  LET y == Put(x, p, v) IN
         /\ y \in Seq(Int) /\ Len(y) = Len(x)
         /\ y[p] = v /\ \A i \in 1 .. Len(x) : i # p => y[i] = x[i]
         /\ Number(y) = Number(x) + (v - x[p]) * Power[Len(x) - p]
<1> DEFINE n == Len(x)
           y == Put(x, p, v)
           left == Zeros(p - 1)
           right == Zeros(n - p)
           one == <<1>>
           unit == (left \o one) \o right
           q == v - x[p]
<1>1. /\ n \in Nat /\ p \in Int /\ p - 1 \in Nat /\ n - p \in Nat /\ n - p + p = n
      /\ \A i \in 1 .. n : x[i] \in Int
      /\ x[p] \in Int /\ q \in Int
  OBVIOUS
<1>2. y \in Seq(Int) /\ Len(y) = n /\ y[p] = v /\ \A i \in 1 .. n : i # p => y[i] = x[i]
  BY DEF Put
<1>3. left \in Seq(Int) /\ Len(left) = p - 1 /\ (\A i \in 1 .. p - 1 : left[i] = 0) /\ Number(left) = 0
  <2> DEFINE k == p - 1
  <2>1. k \in Nat
    BY <1>1
  <2> HIDE DEF k
  <2>2. Zeros(k) \in Seq(Int) /\ Len(Zeros(k)) = k /\ (\A i \in 1 .. k : Zeros(k)[i] = 0) /\ Number(Zeros(k)) = 0
    BY <2>1, ZerosAre
  <2> QED
    BY <2>2 DEF k
<1>4. right \in Seq(Int) /\ Len(right) = n - p /\ (\A i \in 1 .. n - p : right[i] = 0) /\ Number(right) = 0
  <2> DEFINE k == n - p
  <2>1. k \in Nat
    BY <1>1
  <2> HIDE DEF k
  <2>2. Zeros(k) \in Seq(Int) /\ Len(Zeros(k)) = k /\ (\A i \in 1 .. k : Zeros(k)[i] = 0) /\ Number(Zeros(k)) = 0
    BY <2>1, ZerosAre
  <2> QED
    BY <2>2 DEF k
<1> HIDE DEF left, right, n
<1>5. one \in Seq(Int) /\ Len(one) = 1 /\ one[1] = 1 /\ Number(one) = 1
  <2>1. 1 \in Int
    OBVIOUS
  <2> QED
    BY <2>1, OneDigit
<1> HIDE DEF one
<1> DEFINE head == left \o one
<1>6. /\ head \in Seq(Int) /\ Len(head) = p /\ Number(head) = 1
      /\ (\A i \in 1 .. p - 1 : head[i] = 0) /\ head[p] = 1
  <2>1. head \in Seq(Int) /\ Len(head) = Len(left) + Len(one) /\ Number(head) = Number(left) * Power[Len(one)] + Number(one)
    BY <1>3, <1>5, Joined
  <2>2. 0 * Power[1] + 1 = 1
    BY Powers, BaseIs
  <2>3. /\ \A i \in 1 .. Len(left) : head[i] = left[i]
        /\ \A i \in 1 .. Len(one) : head[Len(left) + i] = one[i]
    <3>1. left \in Seq(Int) /\ one \in Seq(Int)
      BY <1>3, <1>5
    <3>2. \A i \in 1 .. Len(left) : (left \o one)[i] = left[i]
      BY <3>1, JoinedAt
    <3>3. \A i \in 1 .. Len(one) : (left \o one)[Len(left) + i] = one[i]
      BY <3>1, JoinedAt
    <3> QED
      BY <3>2, <3>3
  <2>4. head[p] = one[1]
    <3>1. 1 \in 1 .. Len(one) /\ Len(left) + 1 = p
      BY <1>1, <1>3, <1>5
    <3> HIDE DEF head
    <3> QED
      BY <2>3, <3>1
  <2> QED
    BY <1>1, <1>3, <1>5, <2>1, <2>2, <2>3, <2>4
<1> HIDE DEF head
<1>7. /\ unit \in Seq(Int) /\ Len(unit) = n /\ Number(unit) = Power[n - p]
      /\ unit[p] = 1 /\ \A i \in 1 .. n : i # p => unit[i] = 0
  <2>1. head \o right \in Seq(Int) /\ Len(head \o right) = Len(head) + Len(right)
        /\ Number(head \o right) = Number(head) * Power[Len(right)] + Number(right)
    BY <1>4, <1>6, Joined
  <2>2. 1 * Power[n - p] + 0 = Power[n - p] /\ Power[n - p] \in Int
    <3> DEFINE k == n - p
    <3>1. k \in Nat
      BY <1>1
    <3> HIDE DEF k
    <3>2. Power[k] \in Int
      BY <3>1, PowerAt
    <3> QED
      BY <3>2 DEF k
  <2>3. /\ \A i \in 1 .. Len(head) : (head \o right)[i] = head[i]
        /\ \A i \in 1 .. Len(right) : (head \o right)[Len(head) + i] = right[i]
    <3>1. head \in Seq(Int) /\ right \in Seq(Int)
      BY <1>4, <1>6
    <3>2. \A i \in 1 .. Len(head) : (head \o right)[i] = head[i]
      BY <3>1, JoinedAt
    <3>3. \A i \in 1 .. Len(right) : (head \o right)[Len(head) + i] = right[i]
      BY <3>1, JoinedAt
    <3> QED
      BY <3>2, <3>3
  <2>4. ASSUME NEW i \in 1 .. n, i > p PROVE (head \o right)[i] = 0
    <3>1. i - p \in 1 .. n - p /\ p + (i - p) = i
      BY <1>1, <2>4
    <3> QED
      BY <1>4, <1>6, <2>3, <3>1
  <2>5. \A i \in 1 .. p : (head \o right)[i] = head[i]
    BY <1>6, <2>3
  <2> DEFINE w == head \o right
  <2>6. w \in Seq(Int) /\ Len(w) = n /\ Number(w) = Power[n - p]
    BY <1>1, <1>4, <1>6, <2>1, <2>2
  <2>7. (\A i \in 1 .. p : w[i] = head[i]) /\ \A i \in 1 .. n : i > p => w[i] = 0
    BY <2>4, <2>5
  <2>8. unit = w
    BY DEF head
  <2> HIDE DEF w, unit
  <2>9. w[p] = 1 /\ \A i \in 1 .. n : i # p => w[i] = 0
    <3>1. p \in 1 .. p
      BY <1>1
    <3>2. ASSUME NEW i \in 1 .. n, i # p PROVE w[i] = 0
      <4>1. i > p \/ i \in 1 .. p - 1
        BY <1>1, <3>2
      <4>2. i \in 1 .. p - 1 => i \in 1 .. p
        BY <1>1
      <4> QED
        BY <1>6, <2>7, <4>1, <4>2
    <3> QED
      BY <1>6, <2>7, <3>1, <3>2
  <2> QED
    BY <2>6, <2>8, <2>9
<1> HIDE DEF unit
<1>8. \A i \in 1 .. n : y[i] = 1 * x[i] + q * unit[i]
  <2>1. ASSUME NEW i \in 1 .. n, i # p PROVE y[i] = 1 * x[i] + q * unit[i]
    <3>1. y[i] = x[i] /\ unit[i] = 0 /\ x[i] \in Int
      BY <1>1, <1>2, <1>7, <2>1
    <3> HIDE DEF y, q
    <3> QED
      BY <1>1, <3>1
  <2>2. y[p] = 1 * x[p] + q * unit[p]
    BY <1>1, <1>2, <1>7
  <2> QED
    BY <2>1, <2>2
<1>9. Columns(y, 1, x, q, unit)
  BY <1>2, <1>7, <1>8 DEF Columns, n
<1> HIDE DEF y, q
<1>10. Number(y) = 1 * Number(x) + q * Number(unit)
  <2>1. 1 \in Int
    OBVIOUS
  <2> QED
    BY <1>1, <1>2, <1>7, <1>9, <2>1, Linear
<1>11. Number(y) = Number(x) + q * Power[n - p]
  <2> DEFINE k == n - p
             a == Number(x)
             b == Number(unit)
  <2>1. k \in Nat /\ a \in Int /\ b = Power[k]
    BY <1>1, <1>7, NumberIs
  <2> HIDE DEF k
  <2>2. Power[k] \in Int
    BY <2>1, PowerAt
  <2> HIDE DEF a, b
  <2>3. 1 * a + q * b = a + q * Power[k]
    BY <1>1, <2>1, <2>2
  <2> QED
    BY <1>10, <2>3 DEF a, b, k
<1> QED
  BY <1>2, <1>11 DEF y, q, n

\* The number of the last u digits.
Low(x, u) == Number(x) - Leading(x)[Len(x) - u] * Power[u]

\* The value of the last columns is computed one column after the other.
LEMMA LowIs ==
  ASSUME NEW x \in Seq(Int)
  PROVE  /\ \A u \in 0 .. Len(x) : Low(x, u) \in Int
         /\ Low(x, 0) = 0 /\ Low(x, Len(x)) = Number(x)
         /\ \A u \in 0 .. Len(x) - 1 : Low(x, u + 1) = Low(x, u) + x[Len(x) - u] * Power[u]
<1> DEFINE n == Len(x)
<1>1. n \in Nat /\ Number(x) \in Int /\ \A i \in 1 .. n : x[i] \in Int
  BY NumberIs
<1>2. \A u \in 0 .. n : n - u \in 0 .. n /\ u \in Nat
  BY <1>1
<1>3. ASSUME NEW u \in 0 .. n PROVE Low(x, u) \in Int
  <2>1. Leading(x)[n - u] \in Int /\ Power[u] \in Int
    BY <1>2, NumberIs, PowerAt
  <2> QED
    BY <1>1, <2>1 DEF Low
<1>4. Low(x, 0) = 0
  <2>0. n - 0 = n
    BY <1>1
  <2>1. n - 0 = n /\ Leading(x)[n] = Number(x) /\ Power[0] = 1
    BY <2>0, NumberIs, Powers
  <2> QED
    BY <1>1, <2>1 DEF Low
<1>5. Low(x, n) = Number(x)
  <2>1. n - n = 0 /\ Leading(x)[0] = 0 /\ Power[n] \in Int
    BY <1>1, NumberIs, PowerAt
  <2> QED
    BY <1>1, <2>1 DEF Low
<1>6. ASSUME NEW u \in 0 .. n - 1 PROVE Low(x, u + 1) = Low(x, u) + x[n - u] * Power[u]
  <2> DEFINE i == n - (u + 1)
             p == Power[u]
             v == Leading(x)[i]
             d == x[n - u]
  <2>1. u \in Nat /\ u + 1 \in 0 .. n /\ i \in 0 .. n - 1 /\ i + 1 = n - u /\ i + 1 \in 1 .. n /\ i \in 0 .. n
    BY <1>1
  <2>2. p \in Int /\ Power[u + 1] = Base * p
    BY <2>1, PowerAt
  <2>3. v \in Int /\ d \in Int /\ Leading(x)[n - u] = v * Base + d
    <3>1. Leading(x)[i + 1] = v * Base + x[i + 1] /\ v \in Int
      BY <2>1, NumberIs
    <3> QED
      BY <1>1, <2>1, <3>1
  <2>4. Low(x, u + 1) = Number(x) - v * Power[u + 1] /\ Low(x, u) = Number(x) - Leading(x)[n - u] * p
    BY DEF Low
  <2> HIDE DEF p, v, d, i
  <2>5. v * (Base * p) = (v * Base) * p /\ (v * Base + d) * p = (v * Base) * p + d * p
    BY <2>2, <2>3, BaseIs
  <2>6. (v * Base) * p \in Int /\ d * p \in Int
    BY <2>2, <2>3, BaseIs
  <2> DEFINE e == (v * Base) * p
             f == d * p
  <2>7. Low(x, u + 1) = Number(x) - e /\ Low(x, u) = Number(x) - (e + f)
    BY <2>2, <2>3, <2>4, <2>5
  <2> HIDE DEF e, f
  <2>8. Low(x, u + 1) = Low(x, u) + f
    BY <1>1, <2>6, <2>7 DEF e, f
  <2> QED
    BY <2>8 DEF f, p, d
<1> QED
  BY <1>3, <1>4, <1>5, <1>6 DEF n

\* Adding a product into a column and its carry into the next adds the product at its place.
LEMMA MulAtIs ==
  ASSUME NEW x \in Seq(Int), NEW p \in 2 .. Len(x), NEW d \in Int
  PROVE  LET y == MulAt(x, p, d) IN
         /\ y \in Seq(Int) /\ Len(y) = Len(x)
         /\ y[p] = (d + x[p]) % Base /\ y[p - 1] = x[p - 1] + (d + x[p]) \div Base
         /\ \A i \in 1 .. Len(x) : i # p /\ i # p - 1 => y[i] = x[i]
         /\ Number(y) = Number(x) + d * Power[Len(x) - p]
<1> DEFINE n == Len(x)
           y == MulAt(x, p, d)
           s == d + x[p]
           r == s % Base
           c == s \div Base
           z == Put(x, p, r)
           k == p - 1
           v == x[k] + c
           P == Power[n - p]
<1>1. /\ n \in Nat /\ p \in 1 .. n /\ k \in 1 .. n /\ k # p /\ n - p \in Nat /\ n - k = (n - p) + 1
      /\ x[p] \in Int /\ x[k] \in Int /\ s \in Int
  OBVIOUS
<1>2. c \in Int /\ r \in Int /\ s = c * Base + r
  BY <1>1, DivMod
<1>3. P \in Int /\ Power[n - k] = Base * P
  BY <1>1, PowerAt
<1>4. y = Put(z, k, v)
  <2>1. z[k] = x[k]
    BY <1>1 DEF Put
  <2> QED
    BY <2>1 DEF MulAt, Put
<1> HIDE DEF y, s, r, c
<1>5. /\ z \in Seq(Int) /\ Len(z) = n /\ z[p] = r /\ \A i \in 1 .. n : i # p => z[i] = x[i]
      /\ Number(z) = Number(x) + (r - x[p]) * P
  <2>1. p \in 1 .. Len(x) /\ r \in Int
    BY <1>1, <1>2
  <2>2. /\ z \in Seq(Int) /\ Len(z) = Len(x) /\ z[p] = r /\ \A i \in 1 .. Len(x) : i # p => z[i] = x[i]
        /\ Number(z) = Number(x) + (r - x[p]) * Power[Len(x) - p]
    BY <2>1, Updated
  <2> HIDE DEF z
  <2> QED
    BY <2>2
<1>6. v \in Int /\ z[k] = x[k]
  <2>1. k \in 1 .. n /\ k # p
    BY <1>1
  <2>2. \A i \in 1 .. n : i # p => z[i] = x[i]
    BY <1>5
  <2>3. z[k] = x[k]
    <3> HIDE DEF k, z, n
    <3> QED
      BY <2>1, <2>2
  <2>4. v \in Int
    BY <1>1, <1>2
  <2> QED
    BY <2>3, <2>4
<1> HIDE DEF z, v, P, n, k
<1>7. /\ y \in Seq(Int) /\ Len(y) = n /\ y[k] = v /\ \A i \in 1 .. n : i # k => y[i] = z[i]
      /\ Number(y) = Number(z) + (v - z[k]) * Power[n - k]
  <2>1. k \in 1 .. Len(z) /\ z \in Seq(Int) /\ v \in Int /\ Len(z) = n
    BY <1>1, <1>5, <1>6
  <2> DEFINE t == Put(z, k, v)
  <2>2. /\ t \in Seq(Int) /\ Len(t) = Len(z) /\ t[k] = v /\ \A i \in 1 .. Len(z) : i # k => t[i] = z[i]
        /\ Number(t) = Number(z) + (v - z[k]) * Power[Len(z) - k]
    <3>1. t \in Seq(Int) /\ Len(t) = Len(z)
      BY <2>1, Updated
    <3>2. t[k] = v /\ \A i \in 1 .. Len(z) : i # k => t[i] = z[i]
      BY <2>1, Updated
    <3>3. Number(t) = Number(z) + (v - z[k]) * Power[Len(z) - k]
      BY <2>1, Updated
    <3> QED
      BY <3>1, <3>2, <3>3
  <2>3. y = t
    BY <1>4
  <2> HIDE DEF t
  <2> QED
    BY <2>1, <2>2, <2>3
<1>8. Number(y) = Number(x) + d * P
  <2>1. v - z[k] = c
    BY <1>1, <1>2, <1>6 DEF v
  <2>2. Number(x) \in Int
    BY NumberIs
  <2> DEFINE xp == x[p]
             bp == Base * P
  <2>3. (r - xp) * P + c * (Base * P) = (c * Base + r - xp) * P
    BY <1>1, <1>2, <1>3, BaseIs
  <2>4. c * Base + r - xp = d
    <3>1. s = d + xp /\ xp \in Int
      BY <1>1 DEF s
    <3> DEFINE e == c * Base
    <3>2. e \in Int /\ s = e + r
      BY <1>2, BaseIs
    <3> HIDE DEF e, xp
    <3>3. e + r - xp = d
      BY <1>2, <3>1, <3>2
    <3> QED
      BY <3>3 DEF e
  <2>5. (r - xp) * P \in Int /\ c * (Base * P) \in Int
    BY <1>1, <1>2, <1>3, BaseIs
  <2>6. Number(y) = Number(x) + (r - xp) * P + c * (Base * P)
    BY <1>3, <1>5, <1>7, <2>1
  <2> HIDE DEF xp
  <2>7. (r - xp) * P + c * (Base * P) = d * P
    BY <2>3, <2>4
  <2> DEFINE e == (r - xp) * P
             f == c * (Base * P)
             g == d * P
  <2>8. e \in Int /\ f \in Int /\ e + f = g /\ Number(y) = Number(x) + e + f
    BY <2>5, <2>6, <2>7
  <2> HIDE DEF e, f, g
  <2>9. Number(y) = Number(x) + g
    BY <2>2, <2>8
  <2> QED
    BY <2>9 DEF g
<1> QED
  BY <1>1, <1>5, <1>7, <1>8 DEF y, s, r, c, k, n, v, P

\* The columns of a product after the last u digits of a, and at the first w digits of the next
\* row: no column holds more than a digit but the one the next product goes into, which holds a
\* carry too, and the columns on the left of the row are zero.
Rows(s, a, b, u) ==
    /\ s \in Seq(Int) /\ Len(s) = Len(a) + Len(b)
    /\ \A q \in 1 .. Len(a) + Len(b) : 0 <= s[q] /\ s[q] <= Base - 1 /\ (q <= Len(a) - u => s[q] = 0)
    /\ Number(s) = Number(b) * Low(a, u)

\* The columns after w places of the row of the digit u places from the end of a.
Row(s, a, b, u, w) ==
    /\ s \in Seq(Int) /\ Len(s) = Len(a) + Len(b)
    /\ \A q \in 1 .. Len(a) + Len(b) :
          /\ 0 <= s[q]
          /\ s[q] <= (IF q = Len(a) - u + Len(b) - w THEN 2 * (Base - 1) ELSE Base - 1)
          /\ q <= Len(a) - u => s[q] = 0
    /\ Number(s) = Number(b) * Low(a, u) + a[Len(a) - u] * Power[u] * Low(b, w)

\* A row begins where the last ended.
LEMMA RowBegins ==
  ASSUME NEW a \in Seq(Digit), NEW b \in Seq(Digit), NEW u \in 0 .. Len(a) - 1, NEW s, Rows(s, a, b, u)
  PROVE  Row(s, a, b, u, 0)
<1> DEFINE x == a[Len(a) - u]
           v == Number(b) * Low(a, u)
<1>1. a \in Seq(Int) /\ b \in Seq(Int) /\ Len(a) \in Nat /\ Len(b) \in Nat /\ u \in Nat /\ Len(a) - u \in 1 .. Len(a) /\ u \in 0 .. Len(a)
  BY DigitsAre
<1>2. x \in Int /\ Power[u] \in Int /\ Low(b, 0) = 0 /\ v \in Int /\ Number(s) = v
  BY <1>1, DigitsAre, PowerAt, LowIs, NumberIs DEF Rows
<1> HIDE DEF v, x
<1>3. x * Power[u] * 0 = 0
  BY <1>2
<1>4. Number(s) = v + x * Power[u] * Low(b, 0)
  BY <1>2, <1>3
<1>5. Base - 1 <= 2 * (Base - 1) /\ Base - 1 \in Int
  BY BaseIs
<1>6. ASSUME NEW q \in 1 .. Len(a) + Len(b)
      PROVE  /\ 0 <= s[q]
             /\ s[q] <= (IF q = Len(a) - u + Len(b) - 0 THEN 2 * (Base - 1) ELSE Base - 1)
             /\ q <= Len(a) - u => s[q] = 0
  <2>1. s \in Seq(Int) /\ Len(s) = Len(a) + Len(b) /\ 0 <= s[q] /\ s[q] <= Base - 1 /\ (q <= Len(a) - u => s[q] = 0)
    BY DEF Rows
  <2>2. s[q] \in Int
    BY <2>1
  <2> QED
    BY <1>5, <2>1, <2>2
<1> QED
  BY <1>4, <1>6 DEF Row, Rows, v, x

\* One step of a row, and the last, which ends it.
LEMMA RowContinues ==
  ASSUME NEW a \in Seq(Digit), NEW b \in Seq(Digit), NEW u \in 0 .. Len(a) - 1, NEW w \in 0 .. Len(b) - 1,
         NEW s, Row(s, a, b, u, w)
  PROVE  LET y == MulAt(s, Len(a) - u + Len(b) - w, a[Len(a) - u] * b[Len(b) - w]) IN
         IF w + 1 < Len(b) THEN Row(y, a, b, u, w + 1) ELSE Rows(y, a, b, u + 1)
<1> DEFINE n == Len(a)
           m == Len(b)
           i == n - u
           j == m - w
           p == n - u + m - w
           k == p - 1
           e == a[i]
           f == b[j]
           d == e * f
           y == MulAt(s, p, d)
           t == d + s[p]
           c == t \div Base
           r == t % Base
           B == Base - 1
<1>1. /\ n \in Nat /\ m \in Nat /\ u \in Nat /\ w \in Nat /\ u <= n - 1 /\ w <= m - 1 /\ i \in 1 .. n /\ j \in 1 .. m
      /\ p \in 2 .. n + m /\ p \in 1 .. n + m /\ k \in 1 .. n + m /\ k # p /\ p = k + 1 /\ n + m - p = u + w /\ k = n - u + m - (w + 1) /\ k >= n - u
      /\ a \in Seq(Int) /\ b \in Seq(Int)
  BY DigitsAre
<1>2. e \in Int /\ f \in Int /\ 0 <= e /\ e <= B /\ 0 <= f /\ f <= B /\ B \in Nat /\ B >= 1
  <2>1. i \in 1 .. n /\ j \in 1 .. m
    BY <1>1
  <2> HIDE DEF i, j
  <2>2. e \in Int /\ 0 <= e /\ e <= Base - 1
    BY <2>1, DigitsAre
  <2>3. f \in Int /\ 0 <= f /\ f <= Base - 1
    BY <2>1, DigitsAre
  <2> QED
    BY <2>2, <2>3, BaseIs
<1>3. s \in Seq(Int) /\ Len(s) = n + m /\ (\A q \in 1 .. n + m : s[q] \in Int)
  BY DEF Row
<1>4. ASSUME NEW q \in 1 .. n + m
      PROVE  0 <= s[q] /\ (q # p => s[q] <= B) /\ s[q] <= 2 * B /\ (q <= n - u => s[q] = 0)
  <2>1. 0 <= s[q] /\ s[q] <= (IF q = p THEN 2 * B ELSE B) /\ (q <= n - u => s[q] = 0)
    BY DEF Row
  <2>2. B \in Nat
    BY <1>2
  <2>3. s[q] \in Int
    BY <1>3
  <2> HIDE DEF p, B, n
  <2>4. s[q] <= B => s[q] <= 2 * B
    BY <2>1, <2>2, <2>3
  <2> QED
    BY <2>1, <2>2, <2>3, <2>4
<1>5. d \in Int /\ 0 <= d /\ d <= B * B /\ B * B \in Int
  <2> HIDE DEF e, f, B
  <2>1. e * f >= 0 /\ e * (B - f) >= 0 /\ (B - e) * B >= 0
    BY <1>2
  <2>2. e * (B - f) = e * B - e * f /\ (B - e) * B = B * B - e * B
    BY <1>2
  <2>3. e * f \in Int /\ e * B \in Int /\ B * B \in Int
    BY <1>2
  <2> QED
    BY <2>1, <2>2, <2>3
<1> HIDE DEF d
<1>6. t \in Int /\ c \in Int /\ r \in Int /\ 0 <= r /\ r <= B /\ t = c * Base + r
  <2>1. t \in Int
    <3>1. p \in 1 .. n + m
      BY <1>1
    <3> HIDE DEF p
    <3> QED
      BY <1>3, <1>5, <3>1
  <2> HIDE DEF t
  <2>2. c \in Int /\ r \in Int /\ r \in Digit /\ t = c * Base + r
    BY <2>1, DivMod
  <2> QED
    BY <2>1, <2>2, BaseIs DEF Digit
<1>7. 0 <= t /\ t < Base * Base
  <2>1. 0 <= s[p] /\ s[p] <= 2 * B /\ s[p] \in Int
    BY <1>1, <1>3, <1>4
  <2>2. Base * Base = B * B + 2 * B + 1 /\ Base * Base \in Int
    BY BaseIs
  <2> DEFINE h == s[p]
             BB == B * B
  <2>3. t = d + h /\ h \in Int /\ 0 <= h /\ h <= 2 * B /\ BB \in Int /\ d <= BB /\ Base * Base = BB + 2 * B + 1
    BY <1>5, <2>1, <2>2
  <2> HIDE DEF B, t, h, BB
  <2> QED
    BY <1>2, <1>5, <2>3
<1> HIDE DEF t, c, r
<1>8. 0 <= c /\ c <= B
  <2>1. 0 <= c * Base + r /\ c * Base + r < Base * Base /\ r < Base /\ Base >= 1
    BY <1>2, <1>6, <1>7, BaseIs
  <2>2. 0 <= c /\ c < Base
    BY <1>6, <2>1, BaseIs, CarryBound
  <2> QED
    BY <1>6, <2>2, BaseIs
<1>9. /\ y \in Seq(Int) /\ Len(y) = n + m
      /\ y[p] = r /\ y[k] = s[k] + c
      /\ \A q \in 1 .. n + m : q # p /\ q # k => y[q] = s[q]
      /\ Number(y) = Number(s) + d * Power[u + w]
  <2>1. p \in 2 .. Len(s) /\ Len(s) - p = u + w
    BY <1>1, <1>3
  <2> HIDE DEF p, n, m
  <2>2. /\ y \in Seq(Int) /\ Len(y) = Len(s)
        /\ y[p] = (d + s[p]) % Base /\ y[p - 1] = s[p - 1] + (d + s[p]) \div Base
        /\ \A q \in 1 .. Len(s) : q # p /\ q # p - 1 => y[q] = s[q]
        /\ Number(y) = Number(s) + d * Power[Len(s) - p]
    BY <1>3, <1>5, <2>1, MulAtIs
  <2> HIDE DEF y
  <2> QED
    BY <1>3, <2>1, <2>2 DEF t, c, r
<1> HIDE DEF y
<1>10. Number(y) = Number(b) * Low(a, u) + e * Power[u] * Low(b, w + 1)
  <2> DEFINE v == Number(b) * Low(a, u)
             U == Power[u]
             W == Power[w]
             l == Low(b, w)
  <2>1. Number(s) = v + e * U * l
    BY DEF Row
  <2>2. Power[u + w] = U * W
    BY <1>1, PowerSum
  <2>3. Low(b, w + 1) = l + f * W
    BY <1>1, LowIs
  <2>4. l \in Int /\ U \in Int /\ W \in Int /\ v \in Int
    <3>1. w \in 0 .. Len(b) /\ u \in 0 .. Len(a) /\ w \in Nat /\ u \in Nat /\ a \in Seq(Int) /\ b \in Seq(Int)
      <4>1. n \in Nat /\ m \in Nat /\ u \in Nat /\ w \in Nat /\ u <= n - 1 /\ w <= m - 1
        BY <1>1
      <4>2. a \in Seq(Int) /\ b \in Seq(Int)
        BY DigitsAre
      <4>3. w \in 0 .. m /\ u \in 0 .. n
        BY <4>1
      <4> QED
        BY <4>1, <4>2, <4>3
    <3>2. Number(b) \in Int /\ Low(a, u) \in Int /\ l \in Int
      BY <3>1, NumberIs, LowIs
    <3>3. U \in Int /\ W \in Int
      BY <3>1, PowerAt
    <3> QED
      BY <3>2, <3>3
  <2> HIDE DEF v, U, W, l, e, f
  <2>5. e * U * (l + f * W) = e * U * l + (e * f) * (U * W)
    <3> DEFINE eU == e * U
               fW == f * W
    <3>1. eU \in Int /\ fW \in Int /\ eU * fW = (e * f) * (U * W)
      BY <1>2, <2>4
    <3> HIDE DEF eU, fW
    <3>2. eU * (l + fW) = eU * l + eU * fW
      BY <2>4, <3>1
    <3> QED
      BY <3>1, <3>2 DEF eU, fW
  <2>6. e * U * l \in Int /\ (e * f) * (U * W) \in Int
    BY <1>2, <2>4
  <2>7. Number(y) = v + e * U * l + (e * f) * (U * W)
    BY <1>9, <2>1, <2>2 DEF d
  <2> DEFINE g == e * U * l
             h == (e * f) * (U * W)
  <2>8. Number(y) = v + g + h /\ g \in Int /\ h \in Int /\ e * U * Low(b, w + 1) = g + h
    BY <2>3, <2>5, <2>6, <2>7
  <2> HIDE DEF g, h
  <2>9. Number(y) = v + e * U * Low(b, w + 1)
    BY <2>4, <2>8
  <2> QED
    BY <2>9 DEF v, U
<1>14. p = k + 1 /\ k >= n - u /\ p \in Int /\ k \in Int /\ n - u \in Int
  BY <1>1
<1>11. ASSUME NEW q \in 1 .. n + m
       PROVE  /\ 0 <= y[q] /\ y[q] <= (IF q = k THEN 2 * B ELSE B)
              /\ k = n - u => y[q] <= B
              /\ q <= n - u /\ q # k => y[q] = 0
  <2> HIDE DEF n, m, p, k, B
  <2>1. CASE q = p
    <3>1. y[q] = r /\ ~(q <= n - u) /\ q # k
      BY <1>14, <1>9, <2>1
    <3> QED
      BY <1>2, <1>6, <2>1, <3>1
  <2>2. CASE q = k
    <3>1. y[q] = s[k] + c /\ s[k] \in Int /\ 0 <= s[k] /\ s[k] <= B /\ (k = n - u => s[k] = 0)
      <4>1. k # p /\ k \in 1 .. n + m
        BY <1>1
      <4>2. k = n - u => k <= n - u
        BY <1>1
      <4> QED
        BY <1>3, <1>4, <1>9, <2>2, <4>1, <4>2
    <3> DEFINE h == s[k]
    <3>2. y[q] = h + c /\ h \in Int /\ 0 <= h /\ h <= B /\ (k = n - u => h = 0)
      BY <3>1
    <3> HIDE DEF h
    <3> QED
      BY <1>2, <1>6, <1>8, <2>2, <3>2
  <2>3. CASE q # p /\ q # k
    <3>1. y[q] = s[q] /\ 0 <= s[q] /\ s[q] <= B /\ (q <= n - u => s[q] = 0)
      BY <1>4, <1>9, <2>3
    <3> QED
      BY <2>3, <3>1
  <2> QED
    BY <2>1, <2>2, <2>3
<1>12. CASE w + 1 < m
  <2>1. k > n - u
    BY <1>1, <1>12
  <2>2. ASSUME NEW q \in 1 .. n + m
        PROVE  0 <= y[q] /\ y[q] <= (IF q = n - u + m - (w + 1) THEN 2 * B ELSE B) /\ (q <= n - u => y[q] = 0)
    <3>1. k = n - u + m - (w + 1) /\ (q <= n - u => q # k)
      BY <1>1, <2>1
    <3> HIDE DEF k, n, m, B
    <3> QED
      BY <1>11, <3>1
  <2>3. Row(y, a, b, u, w + 1)
    BY <1>9, <1>10, <2>2 DEF Row
  <2> QED
    BY <1>12, <2>3 DEF y, d
<1>13. CASE ~(w + 1 < m)
  <2>0. w \in Nat /\ m \in Nat /\ w <= m - 1 /\ n \in Nat /\ u \in Nat
    BY <1>1
  <2>1. w + 1 = m /\ k = n - u
    BY <1>13, <2>0
  <2>2. ASSUME NEW q \in 1 .. n + m
        PROVE  0 <= y[q] /\ y[q] <= B /\ (q <= n - (u + 1) => y[q] = 0)
    <3>1. q <= n - (u + 1) => q <= n - u /\ q # k
      BY <2>0, <2>1
    <3>2. k = n - u
      BY <2>1
    <3> HIDE DEF k, n, m, B
    <3> QED
      BY <1>11, <3>1, <3>2
  <2>3. Number(y) = Number(b) * Low(a, u + 1)
    <3> DEFINE N == Number(b)
               l == Low(a, u)
               g == e * Power[u]
    <3>1. Low(b, w + 1) = N /\ N \in Int
      BY <1>1, <2>1, LowIs, NumberIs
    <3>2. Low(a, u + 1) = l + g
      BY <1>1, LowIs
    <3>3. l \in Int /\ g \in Int
      <4>1. u \in 0 .. Len(a) /\ u \in Nat /\ a \in Seq(Int)
        BY <1>1, <2>0
      <4>2. Low(a, u) \in Int /\ Power[u] \in Int
        BY <4>1, LowIs, PowerAt
      <4> QED
        BY <1>2, <4>2
    <3>4. Number(y) = N * l + g * N
      BY <1>10, <3>1
    <3> HIDE DEF N, l, g
    <3>5. N * l + g * N = N * (l + g)
      BY <3>1, <3>3
    <3> QED
      BY <3>2, <3>4, <3>5 DEF N
  <2>4. Rows(y, a, b, u + 1)
    BY <1>9, <2>2, <2>3 DEF Rows
  <2> QED
    BY <1>13, <2>4 DEF y, d
<1> QED
  BY <1>12, <1>13

\* The row and the place in it of the product number k, counted from 0.
LEMMA PlaceIs ==
  ASSUME NEW n \in Nat, NEW m \in Nat, NEW k \in 0 .. n * m - 1
  PROVE  m > 0 /\ k \div m \in 0 .. n - 1 /\ k % m \in 0 .. m - 1
<1>1. m > 0
  <2>1. m = 0 => n * m = 0
    OBVIOUS
  <2>2. n * m \in Int /\ k \in Int /\ 0 <= k /\ k <= n * m - 1
    OBVIOUS
  <2> QED
    BY <2>1, <2>2
<1> DEFINE u == k \div m
           w == k % m
<1>2. u \in Int /\ w \in Int /\ 0 <= w /\ w < m /\ k = m * u + w
  BY <1>1
<1> HIDE DEF u, w
<1>3. u >= 0
  <2>1. u < 0 => m * u <= -m
    <3>1. u < 0 => m * (-1 - u) >= 0
      BY <1>1, <1>2
    <3>2. m * (-1 - u) = -m - m * u /\ m * u \in Int
      BY <1>1, <1>2
    <3> QED
      BY <3>1, <3>2
  <2>2. m * u \in Int
    BY <1>2
  <2> QED
    BY <1>2, <2>1, <2>2
<1>4. u <= n - 1
  <2>1. u >= n => m * (u - n) >= 0
    BY <1>1, <1>2
  <2>2. m * (u - n) = m * u - m * n /\ m * u \in Int /\ m * n \in Int /\ m * n = n * m
    BY <1>1, <1>2
  <2> QED
    BY <1>2, <2>1, <2>2
<1> QED
  BY <1>1, <1>2, <1>3, <1>4 DEF u, w

\* The number of a product, from its row and its place in the row.
LEMMA PlaceOf ==
  ASSUME NEW n \in Nat, NEW m \in Nat, NEW u \in 0 .. n - 1, NEW w \in 0 .. m - 1
  PROVE  /\ m * u \in 0 .. n * m /\ m * u + w \in 0 .. n * m - 1 /\ m * (u + 1) = m * u + m
         /\ (m * u + w) \div m = u /\ (m * u + w) % m = w
<1> DEFINE r == m * u
           k == r + w
<1>1. r \in Int /\ r >= 0 /\ m > 0 /\ m * (u + 1) = r + m
  OBVIOUS
<1>2. r + m <= n * m
  <2>1. (n - 1 - u) * m >= 0 /\ (n - 1 - u) * m = n * m - m - m * u /\ n * m \in Int
    OBVIOUS
  <2> QED
    BY <1>1, <2>1
<1> HIDE DEF r
<1>3. r \in 0 .. n * m /\ k \in 0 .. n * m - 1
  BY <1>1, <1>2
<1>4. k \div m = u
  <2>1. k \in Int /\ u \in Int /\ m \in Nat \ {0} /\ m * u <= k /\ k < m * u + m
    BY <1>1 DEF r
  <2> HIDE DEF k
  <2> QED
    BY <2>1, DivIs
<1>5. k % m = w
  <2>1. k = m * (k \div m) + (k % m)
    BY <1>1, <1>3
  <2>2. k % m \in Int
    BY <1>1, <1>3
  <2> QED
    BY <1>1, <1>4, <2>1, <2>2 DEF r
<1> QED
  BY <1>1, <1>3, <1>4, <1>5 DEF r

\* The product of two numbers (mulDigits).
LEMMA MulDigitsIs ==
  ASSUME NEW a \in Seq(Digit), NEW b \in Seq(Digit)
  PROVE  MulDigits(a, b) \in Trimmed /\ Number(MulDigits(a, b)) = Number(a) * Number(b)
<1> DEFINE n == Len(a)
           m == Len(b)
           N == n * m
           S == {s \in Seq(Int) : Len(s) = n + m}
           s0 == Zeros(n + m)
           i(k) == n - ((k - 1) \div m)
           j(k) == m - ((k - 1) % m)
           Step(s, k) == MulAt(s, i(k) + j(k), a[i(k)] * b[j(k)])
           G == [k \in 1 .. N |-> [s \in S |-> Step(s, k)]]
           Eq(g) == g = [k \in 0 .. N |-> IF k = 0 THEN s0 ELSE Step(g[k - 1], k)]
<1>1. n \in Nat /\ m \in Nat /\ N \in Nat /\ n + m \in Nat /\ a \in Seq(Int) /\ b \in Seq(Int)
  BY DigitsAre
<1>2. s0 \in S /\ (\A q \in 1 .. n + m : s0[q] = 0) /\ Number(s0) = 0
  <2> DEFINE t == n + m
  <2>1. t \in Nat
    BY <1>1
  <2> HIDE DEF t
  <2>2. Zeros(t) \in Seq(Int) /\ Len(Zeros(t)) = t /\ (\A q \in 1 .. t : Zeros(t)[q] = 0) /\ Number(Zeros(t)) = 0
    BY <2>1, ZerosAre
  <2> QED
    BY <2>2 DEF t
<1>3. ASSUME NEW k \in 1 .. N, NEW s \in S PROVE Step(s, k) \in S
  <2> DEFINE z == k - 1
  <2>1. z \in 0 .. n * m - 1
    BY <1>1
  <2>2. (z \div m) \in 0 .. n - 1 /\ (z % m) \in 0 .. m - 1
    <3> HIDE DEF z, n, m
    <3> QED
      BY <1>1, <2>1, PlaceIs
  <2>3. i(k) \in 1 .. n /\ j(k) \in 1 .. m
    <3> DEFINE U == z \div m
               V == z % m
    <3>1. i(k) = n - U /\ j(k) = m - V
      OBVIOUS
    <3> HIDE DEF U, V, n, m, i, j
    <3>2. U \in 0 .. n - 1 /\ V \in 0 .. m - 1
      BY <2>2 DEF U, V
    <3> QED
      BY <1>1, <3>1, <3>2
  <2>4. a[i(k)] \in Int /\ b[j(k)] \in Int
    BY <2>3, DigitsAre
  <2> DEFINE p == i(k) + j(k)
             d == a[i(k)] * b[j(k)]
  <2>5. p \in 2 .. n + m /\ d \in Int
    <3> DEFINE e == a[i(k)]
               g == b[j(k)]
               I == i(k)
               J == j(k)
    <3>1. I \in 1 .. n /\ J \in 1 .. m /\ p = I + J /\ e \in Int /\ g \in Int /\ d = e * g
      BY <2>3, <2>4
    <3> HIDE DEF e, g, I, J, p, d, n, m
    <3>2. e * g \in Int
      BY <3>1
    <3> QED
      BY <1>1, <3>1, <3>2
  <2> HIDE DEF p, d
  <2>6. s \in Seq(Int) /\ Len(s) = n + m /\ p \in 2 .. Len(s)
    BY <2>5
  <2>7. MulAt(s, p, d) \in Seq(Int) /\ Len(MulAt(s, p, d)) = Len(s)
    BY <2>5, <2>6, MulAtIs
  <2> QED
    BY <2>6, <2>7 DEF p, d
<1> HIDE DEF i, j
<1>4. G \in [1 .. N -> [S -> S]] /\ \A k \in 1 .. N, s \in S : G[k][s] = Step(s, k)
  <2> HIDE DEF N, S
  <2> QED
    BY <1>3
<1> HIDE DEF N, G, S, s0
<1>5. PICK f : Follows(f, S, s0, N, G)
  <2>1. N \in Nat /\ s0 \in S /\ G \in [1 .. N -> [S -> S]]
    BY <1>1, <1>2, <1>4
  <2> QED
    BY <2>1, Recursion, Zenon
<1>6. ASSUME NEW k \in 1 .. N PROVE f[k - 1] \in S /\ f[k] = Step(f[k - 1], k)
  <2>1. k - 1 \in 0 .. N
    BY <1>1
  <2>2. f[k - 1] \in S
    BY <1>5, <2>1 DEF Follows
  <2>3. f[k] = G[k][f[k - 1]]
    BY <1>5 DEF Follows
  <2> QED
    BY <1>4, <2>2, <2>3
<1>7. Eq(f)
  <2>1. f = [k \in 0 .. N |-> f[k]] /\ f[0] = s0
    BY <1>5 DEF Follows
  <2>2. ASSUME NEW k \in 0 .. N PROVE f[k] = IF k = 0 THEN s0 ELSE Step(f[k - 1], k)
    <3>1. k # 0 => k \in 1 .. N
      BY <1>1
    <3> QED
      BY <1>6, <2>1, <3>1
  <2> QED
    BY <2>1, <2>2
<1> DEFINE res == CHOOSE g : Eq(g)
<1>8. MulDigits(a, b) = TrimToOne(res[N])
  BY DEF MulDigits, n, m, N, s0, i, j
<1>9. Eq(res)
  <2> HIDE DEF Eq
  <2> QED
    BY <1>7, Zenon
<1> HIDE DEF res
<1>10. \A k \in 0 .. N : res[k] = IF k = 0 THEN s0 ELSE Step(res[k - 1], k)
  BY <1>9
<1> DEFINE T == {u \in 0 .. n : Rows(res[m * u], a, b, u)}
<1>11. 0 \in T
  <2>1. m * 0 = 0 /\ 0 \in 0 .. N /\ 0 \in 0 .. n
    BY <1>1
  <2>2. res[m * 0] = s0
    BY <1>10, <2>1
  <2>3. Number(b) * Low(a, 0) = 0
    BY <1>1, LowIs, NumberIs
  <2>4. \A q \in 1 .. n + m : 0 <= s0[q] /\ s0[q] <= Base - 1
    BY <1>2, BaseIs
  <2>5. s0 \in Seq(Int) /\ Len(s0) = n + m
    BY <1>2 DEF S
  <2>6. Rows(s0, a, b, 0)
    BY <1>2, <2>3, <2>4, <2>5 DEF Rows
  <2> QED
    BY <2>1, <2>2, <2>6
<1>12. ASSUME NEW u \in 0 .. n - 1, u \in T PROVE u + 1 \in T
  <2> DEFINE r == m * u
             l == m - 1
             W == {w \in 0 .. l : Row(res[r + w], a, b, u, w)}
  <2>1. u \in Nat /\ u \in 0 .. n /\ u + 1 \in 0 .. n /\ r \in Int
    BY <1>1
  <2>2. Rows(res[r], a, b, u)
    BY <1>12
  <2>3. CASE m = 0
    <3>1. r = 0 /\ m * (u + 1) = 0
      BY <2>1, <2>3
    <3>2. Low(a, u) \in Int /\ Low(a, u + 1) \in Int
      BY <1>1, <2>1, LowIs
    <3>3. Number(b) = 0
      <4>1. b = <<>>
        BY <2>3
      <4> QED
        BY <4>1, OneDigit, BaseIs
    <3>4. Number(b) * Low(a, u) = Number(b) * Low(a, u + 1)
      BY <3>2, <3>3
    <3>5. \A q \in Int : q <= n - (u + 1) => q <= n - u
      BY <1>1, <2>1
    <3>6. Rows(res[r], a, b, u + 1)
      <4>1. \A q \in 1 .. Len(a) + Len(b) : q <= Len(a) - (u + 1) => q <= Len(a) - u
        BY <3>5, <1>1
      <4> QED
        BY <2>2, <3>4, <4>1 DEF Rows
    <3> QED
      BY <2>1, <3>1, <3>6
  <2>4. CASE m > 0
    <3>1. l \in Nat
      BY <1>1, <2>4
    <3>2. ASSUME NEW w \in 0 .. l PROVE r + w \in 0 .. N - 1 /\ res[r + w + 1] = MulAt(res[r + w], n - u + m - w, a[n - u] * b[m - w])
      <4> DEFINE k == r + w + 1
      <4>1. w \in 0 .. m - 1 /\ w \in Int
        BY <1>1
      <4>2. r + w \in 0 .. N - 1 /\ (r + w) \div m = u /\ (r + w) % m = w
        <5> HIDE DEF n, m
        <5>1. r + w \in 0 .. n * m - 1 /\ (r + w) \div m = u /\ (r + w) % m = w
          BY <1>1, <4>1, PlaceOf
        <5> QED
          BY <5>1 DEF N
      <4>3. k \in 0 .. N /\ k # 0 /\ k - 1 = r + w
        <5>1. N \in Int /\ r \in Int /\ w \in Int
          BY <1>1, <2>1, <4>1
        <5> HIDE DEF N, r
        <5> QED
          BY <4>2, <5>1
      <4>4. i(k) = n - u /\ j(k) = m - w
        BY <4>2, <4>3 DEF i, j
      <4>5. i(k) + j(k) = n - u + m - w
        BY <1>1, <2>1, <4>1, <4>4
      <4> HIDE DEF k, r
      <4>6. res[k] = Step(res[k - 1], k)
        BY <1>10, <4>3
      <4>7. res[k] = MulAt(res[r + w], n - u + m - w, a[n - u] * b[m - w])
        BY <4>3, <4>4, <4>5, <4>6
      <4> QED
        BY <4>2, <4>7 DEF k
    <3>3. 0 \in W
      <4>1. 0 \in 0 .. l /\ r + 0 = r
        BY <2>1, <3>1
      <4>2. Row(res[r], a, b, u, 0)
        BY <2>2, RowBegins
      <4> QED
        BY <4>1, <4>2
    <3>4. ASSUME NEW w \in 0 .. l - 1, w \in W PROVE w + 1 \in W
      <4>1. w \in 0 .. l /\ w \in 0 .. Len(b) - 1 /\ w + 1 \in 0 .. l /\ w + 1 < Len(b) /\ r + (w + 1) = r + w + 1
        BY <1>1, <2>1
      <4>2. Row(res[r + w], a, b, u, w) /\ u \in 0 .. Len(a) - 1
        BY <3>4
      <4>3. res[r + w + 1] = MulAt(res[r + w], Len(a) - u + Len(b) - w, a[Len(a) - u] * b[Len(b) - w])
        BY <3>2, <4>1
      <4> HIDE DEF r, l, n, m
      <4>4. Row(res[r + w + 1], a, b, u, w + 1)
        BY <4>1, <4>2, <4>3, RowContinues
      <4> QED
        BY <4>1, <4>4
    <3> HIDE DEF W, l
    <3>5. \A w \in 0 .. l : w \in W
      BY <3>1, <3>3, <3>4, Upward
    <3>6. l \in 0 .. l /\ l \in W
      BY <3>1, <3>5
    <3>7. Row(res[r + l], a, b, u, l)
      BY <3>6 DEF W
    <3>8. l \in 0 .. Len(b) - 1 /\ ~(l + 1 < Len(b)) /\ u \in 0 .. Len(a) - 1 /\ r + l + 1 = m * (u + 1)
      <4>1. m * (u + 1) = r + m
        BY <1>1, <2>1
      <4> QED
        BY <1>1, <2>1, <3>1, <4>1 DEF l
    <3>9. res[r + l + 1] = MulAt(res[r + l], Len(a) - u + Len(b) - l, a[Len(a) - u] * b[Len(b) - l])
      BY <3>2, <3>6
    <3> HIDE DEF r
    <3>10. Rows(res[r + l + 1], a, b, u + 1)
      BY <3>7, <3>8, <3>9, RowContinues
    <3> QED
      BY <2>1, <3>8, <3>10
  <2> QED
    BY <1>1, <2>3, <2>4
<1> HIDE DEF T
<1>13. \A u \in 0 .. n : u \in T
  BY <1>1, <1>11, <1>12, Upward
<1>14. Rows(res[N], a, b, n)
  <2>1. n \in 0 .. n /\ m * n = n * m
    BY <1>1
  <2> QED
    BY <1>13, <2>1 DEF T, N
<1>15. res[N] \in Seq(Digit)
  <2> DEFINE s == res[N]
  <2>1. s \in Seq(Int) /\ Len(s) = n + m /\ \A q \in 1 .. n + m : 0 <= s[q] /\ s[q] <= Base - 1 /\ s[q] \in Int
    BY <1>14 DEF Rows
  <2>2. \A q \in 1 .. Len(s) : s[q] \in Digit
    BY <2>1, BaseIs DEF Digit
  <2> HIDE DEF s
  <2>3. s \in Seq(Digit)
    BY <2>1, <2>2
  <2> QED
    BY <2>3 DEF s
<1>16. Number(res[N]) = Number(a) * Number(b)
  <2>1. Number(res[N]) = Number(b) * Number(a)
    BY <1>1, <1>14, LowIs DEF Rows
  <2>2. Number(a) \in Int /\ Number(b) \in Int
    BY <1>1, NumberIs
  <2> QED
    BY <2>1, <2>2
<1> QED
  BY <1>8, <1>15, <1>16, TrimToOneIs

\* Trimming digits that are not all zero keeps the first that is not and the last.
LEMMA TrimToOneKeeps ==
  ASSUME NEW x \in Seq(Digit), NEW i \in 1 .. Len(x), x[i] # 0
  PROVE  LET y == TrimToOne(x) IN
         Len(y) \in Nat /\ Len(y) >= 1 /\ Len(y) <= Len(x) /\ y[1] # 0 /\ y[Len(y)] = x[Len(x)]
<1> DEFINE n == Len(x)
           nonzero == {j \in DOMAIN x : x[j] # 0}
           m == Min(nonzero)
           z == SubSeq(x, m, n)
<1>1. n \in Nat /\ DOMAIN x = 1 .. n /\ nonzero \subseteq Nat /\ nonzero # {}
  BY DigitsAre
<1>2. m \in nonzero
  BY <1>1, LeastOf
<1>3. TrimToOne(x) = z
  BY <1>1 DEF TrimToOne
<1> HIDE DEF m
<1>4. m \in 1 .. n /\ x[m] # 0
  BY <1>1, <1>2
<1> DEFINE k == m - 1
<1>5. k \in 0 .. n /\ k + 1 = m /\ n - k >= 1 /\ n - k \in Nat
  BY <1>1, <1>4
<1>6. Len(z) = n - k /\ \A j \in 1 .. n - k : z[j] = x[k + j]
  <2>1. z = SubSeq(x, k + 1, Len(x))
    BY <1>5
  <2> HIDE DEF z, k
  <2> QED
    BY <1>5, <2>1, PartsOfSeq
<1> HIDE DEF z
<1>7. z[1] = x[m]
  <2>1. 1 \in 1 .. n - k /\ k + 1 = m
    BY <1>5
  <2> HIDE DEF k
  <2> QED
    BY <1>6, <2>1
<1>8. z[n - k] = x[n]
  <2>1. n - k \in 1 .. n - k /\ k + (n - k) = n
    BY <1>1, <1>5
  <2> HIDE DEF k
  <2> QED
    BY <1>6, <2>1
<1>9. Len(z) \in Nat /\ Len(z) >= 1 /\ Len(z) <= n
  BY <1>1, <1>5, <1>6
<1> QED
  BY <1>3, <1>4, <1>6, <1>7, <1>8, <1>9

-----------------------------------------------------------------------------
(* The number a decimal stands for, and its normal form (normalize).       *)

\* The decimals the code can hold: any digits, normalized or not.
AllDecimals == [neg : BOOLEAN, digits : Seq(Digit), scale : Nat]

\* The magnitude of a decimal at a scale.
Magnitude(d, t) == Number(d.digits) * Power[t - d.scale]

\* A magnitude with its sign.
Signed(neg, n) == IF neg THEN -n ELSE n

\* A magnitude is a natural number, and zero is that of zeroes.
LEMMA MagnitudeIs ==
  ASSUME NEW d \in AllDecimals, NEW t \in Nat, d.scale <= t
  PROVE  /\ Number(d.digits) \in Nat /\ t - d.scale \in Nat
         /\ Power[t - d.scale] \in Int /\ Power[t - d.scale] >= 1
         /\ Magnitude(d, t) \in Nat
         /\ Magnitude(d, t) = 0 <=> Number(d.digits) = 0
<1> DEFINE N == Number(d.digits)
           k == t - d.scale
           P == Power[k]
<1>1. d.digits \in Seq(Digit) /\ d.scale \in Nat
  BY DEF AllDecimals
<1>2. N \in Nat
  BY <1>1, NumberBounds
<1>3. k \in Nat
  BY <1>1
<1> HIDE DEF k
<1>4. P \in Int /\ P >= 1
  BY <1>3, PowerAt
<1>5. Magnitude(d, t) = N * P
  BY DEF Magnitude, k
<1> HIDE DEF N, P
<1>6. N * P \in Nat /\ (N * P = 0 <=> N = 0)
  <2>1. N * P \in Int
    BY <1>2, <1>4
  <2>2. N * (P - 1) >= 0 /\ N * (P - 1) = N * P - N
    BY <1>2, <1>4
  <2>3. N = 0 => N * P = 0
    BY <1>4
  <2> QED
    BY <1>2, <2>1, <2>2, <2>3
<1> QED
  BY <1>2, <1>3, <1>4, <1>5, <1>6 DEF N, k, P

\* The number at a scale is the magnitude with the sign.
LEMMA ValueIs ==
  ASSUME NEW d \in AllDecimals, NEW t \in Nat, d.scale <= t
  PROVE  NumberAt(d, t) \in Int /\ NumberAt(d, t) = Signed(d.neg, Magnitude(d, t))
<1> DEFINE N == Number(d.digits)
           P == Power[t - d.scale]
           m == Magnitude(d, t)
<1>1. N \in Nat /\ P \in Int /\ m \in Nat
  BY MagnitudeIs
<1>2. m = N * P
  BY DEF Magnitude
<1>3. NumberAt(d, t) = (IF d.neg THEN -1 ELSE 1) * N * P
  BY DEF NumberAt
<1> HIDE DEF N, P, m
<1>4. CASE d.neg
  <2>1. -1 * N * P = -(N * P)
    BY <1>1
  <2> QED
    BY <1>1, <1>2, <1>3, <1>4, <2>1 DEF Signed, m
<1>5. CASE ~d.neg
  <2>1. 1 * N * P = N * P
    BY <1>1
  <2> QED
    BY <1>1, <1>2, <1>3, <1>5, <2>1 DEF Signed, m
<1> QED
  BY <1>4, <1>5

\* Magnitudes at a larger scale.
LEMMA MagnitudeAt ==
  ASSUME NEW d \in AllDecimals, NEW t \in Nat, d.scale <= t, NEW k \in Nat
  PROVE  Magnitude(d, t + k) = Magnitude(d, t) * Power[k]
<1> DEFINE N == Number(d.digits)
           j == t - d.scale
           P == Power[j]
           K == Power[k]
<1>1. N \in Nat /\ j \in Nat /\ P \in Int
  BY MagnitudeIs
<1>2. (t + k) - d.scale = j + k
  BY DEF AllDecimals
<1>3. Magnitude(d, t + k) = N * Power[j + k] /\ Magnitude(d, t) = N * P
  <2>1. Magnitude(d, t + k) = N * Power[(t + k) - d.scale] /\ Magnitude(d, t) = N * P
    BY DEF Magnitude
  <2> HIDE DEF j, N
  <2> QED
    BY <1>2, <2>1
<1> HIDE DEF j, N
<1>4. Power[j + k] = P * K /\ K \in Int
  BY <1>1, PowerSum, PowerAt
<1> HIDE DEF P, K
<1>5. N * (P * K) = (N * P) * K
  BY <1>1, <1>4
<1> QED
  BY <1>3, <1>4, <1>5 DEF K

\* The decimals normalize answers: zero has one form, others no zeroes that say nothing.
Normal ==
    {d \in AllDecimals : \/ d = ZeroDecimal
                      \/ /\ Len(d.digits) > 0 /\ d.digits[1] # 0
                         /\ d.scale = 0 \/ d.digits[Len(d.digits)] # 0}

\* The one zero.
LEMMA ZeroIs ==
  /\ ZeroDecimal \in Normal /\ ZeroDecimal \in AllDecimals /\ ZeroDecimal.scale = 0 /\ ZeroDecimal.neg = FALSE
  /\ ZeroDecimal.digits = <<0>> /\ Number(ZeroDecimal.digits) = 0
<1>1. <<0>> \in Seq(Digit)
  BY BaseIs DEF Digit
<1>2. Number(<<0>>) = 0
  BY OneDigit
<1> QED
  BY <1>1, <1>2 DEF ZeroDecimal, Decimal, Normal, AllDecimals

\* What a normal decimal is.
LEMMA NormalIs ==
  ASSUME NEW d \in Normal
  PROVE  /\ d \in AllDecimals /\ d.digits \in Trimmed /\ d.digits \in Seq(Digit) /\ d.scale \in Nat /\ d.neg \in BOOLEAN
         /\ Number(d.digits) \in Nat
         /\ Number(d.digits) = 0 <=> d = ZeroDecimal
         /\ IsZero(d) <=> d = ZeroDecimal
<1>1. d \in AllDecimals /\ d.digits \in Seq(Digit) /\ d.scale \in Nat /\ d.neg \in BOOLEAN
  BY DEF Normal, AllDecimals
<1>2. Number(d.digits) \in Nat
  BY <1>1, NumberBounds
<1>3. CASE d = ZeroDecimal
  <2>1. d.digits \in Trimmed
    BY <1>1, <1>3, ZeroIs DEF Trimmed
  <2> QED
    BY <1>1, <1>2, <1>3, <2>1, ZeroIs DEF IsZero
<1>4. CASE d # ZeroDecimal
  <2>1. Len(d.digits) > 0 /\ d.digits[1] # 0
    BY <1>4 DEF Normal
  <2>2. d.digits \in Trimmed
    BY <1>1, <2>1 DEF Trimmed
  <2>3. d.digits # <<0>>
    BY <2>1
  <2>4. Number(d.digits) # 0
    <3> DEFINE k == Len(d.digits) - 1
    <3>1. k \in Nat
      BY <1>1, <2>1, DigitsAre
    <3>2. Power[k] <= Number(d.digits)
      BY <1>1, <2>1, NumberBounds
    <3> HIDE DEF k
    <3>3. Power[k] \in Int /\ Power[k] >= 1
      BY <3>1, PowerAt
    <3> QED
      BY <1>2, <3>2, <3>3
  <2> QED
    BY <1>1, <1>2, <1>4, <2>2, <2>3, <2>4 DEF IsZero
<1> QED
  BY <1>3, <1>4

\* How many zeroes at the end of a fraction normalize takes away.
Dropped(d, k) ==
    /\ k <= d.scale
    /\ \A i \in Len(d.digits) - k + 1 .. Len(d.digits) : d.digits[i] = 0
    /\ k = Len(d.digits) \/ k = d.scale \/ d.digits[Len(d.digits) - k] # 0

\* There is a number of zeroes normalize takes away.
LEMMA DroppedExists ==
  ASSUME NEW d \in AllDecimals
  PROVE  \E k \in 0 .. Len(d.digits) : Dropped(d, k)
<1> DEFINE x == d.digits
           n == Len(x)
           s == d.scale
           S == {k \in 0 .. n : k <= s /\ \A i \in n - k + 1 .. n : x[i] = 0}
           k == Max(S)
<1>1. x \in Seq(Digit) /\ s \in Nat /\ n \in Nat
  BY DEF AllDecimals
<1>2. S \subseteq 0 .. n
  OBVIOUS
<1>3. 0 \in S
  BY <1>1
<1> HIDE DEF n, x, s
<1>4. k \in S /\ \A y \in S : k >= y
  <2> HIDE DEF S
  <2> QED
    BY <1>1, <1>2, <1>3, GreatestOf
<1> HIDE DEF k
<1>5. k \in 0 .. n /\ k <= s /\ \A i \in n - k + 1 .. n : x[i] = 0
  BY <1>4
<1>6. k = n \/ k = s \/ x[n - k] # 0
  <2> SUFFICES ASSUME k # n, k # s, x[n - k] = 0 PROVE FALSE
    OBVIOUS
  <2>1. k + 1 \in 0 .. n /\ k + 1 <= s
    BY <1>1, <1>5
  <2>2. \A i \in n - (k + 1) + 1 .. n : i = n - k \/ i \in n - k + 1 .. n
    BY <1>1, <1>5
  <2>3. k + 1 \in S
    BY <1>5, <2>1, <2>2
  <2>4. k >= k + 1 /\ k \in Int
    BY <1>4, <1>5, <2>3
  <2> QED
    BY <2>4
<1> QED
  BY <1>5, <1>6 DEF Dropped, n, x, s

\* normalize: one form, the same number, never at a larger scale.
LEMMA NormalizeIs ==
  ASSUME NEW d \in AllDecimals
  PROVE  /\ Normalize(d) \in Normal
         /\ Normalize(d).scale <= d.scale
         /\ \A t \in Nat : d.scale <= t => NumberAt(Normalize(d), t) = NumberAt(d, t)
<1> DEFINE x == d.digits
           n == Len(x)
           s == d.scale
           D(k) == /\ k <= d.scale
                   /\ \A i \in n - k + 1 .. n : d.digits[i] = 0
                   /\ k = n \/ k = d.scale \/ d.digits[n - k] # 0
           drop == CHOOSE k \in 0 .. n : D(k)
           h == n - drop
           head == SubSeq(x, 1, h)
           tail == SubSeq(x, h + 1, n)
           e == Normalize(d)
<1>1. x \in Seq(Digit) /\ s \in Nat /\ n \in Nat /\ d.neg \in BOOLEAN /\ \A i \in 1 .. n : x[i] \in Digit
  BY DEF AllDecimals
<1>2. drop \in 0 .. n /\ D(drop)
  <2>1. \E k \in 0 .. n : D(k)
    BY DroppedExists DEF Dropped
  <2> HIDE DEF D, n
  <2> QED
    BY <2>1
<1>3. e = WithoutLeading(d.neg, head, s - drop)
  BY DEF Normalize
<1> HIDE DEF drop, e
<1>4. h \in 0 .. n /\ drop \in Nat /\ n - h = drop /\ drop <= s /\ s - drop \in Nat
  BY <1>1, <1>2
<1>5. /\ head \in Seq(Digit) /\ Len(head) = h /\ \A i \in 1 .. h : head[i] = x[i]
      /\ tail \in Seq(Digit) /\ Len(tail) = drop /\ \A i \in 1 .. drop : tail[i] = x[h + i]
      /\ x = head \o tail
  <2> HIDE DEF h, x
  <2> QED
    BY <1>1, <1>4, PartsOfSeq
<1> HIDE DEF head, tail
<1>6. Number(tail) = 0
  <2>1. \A i \in 1 .. drop : h + i \in n - drop + 1 .. n
    BY <1>1, <1>4
  <2>2. \A i \in 1 .. Len(tail) : tail[i] = 0
    BY <1>2, <1>5, <2>1
  <2> QED
    BY <1>5, <2>2, AllZero, DigitsAre
<1>7. Number(x) = Number(head) * Power[drop] /\ Number(head) \in Nat /\ Power[drop] \in Int
  <2>1. head \in Seq(Int) /\ tail \in Seq(Int)
    BY <1>5, DigitsAre
  <2>2. Number(head \o tail) = Number(head) * Power[Len(tail)] + Number(tail)
    BY <2>1, Joined
  <2>3. Number(head) \in Nat /\ Power[drop] \in Int
    BY <1>4, <1>5, NumberBounds, PowerAt
  <2>4. Number(head) * Power[drop] + 0 = Number(head) * Power[drop]
    BY <2>3
  <2> QED
    BY <1>5, <1>6, <2>2, <2>3, <2>4
<1>8. CASE \A i \in DOMAIN head : head[i] = 0
  <2>1. e = ZeroDecimal
    BY <1>3, <1>8 DEF WithoutLeading
  <2>2. Number(head) = 0
    <3>0. DOMAIN head = 1 .. Len(head)
      BY <1>5
    <3>1. \A i \in 1 .. Len(head) : head[i] = 0
      BY <1>8, <3>0
    <3> QED
      BY <1>5, <3>1, AllZero, DigitsAre
  <2>3. Number(x) = 0
    BY <1>7, <2>2
  <2>4. ASSUME NEW t \in Nat, s <= t PROVE NumberAt(e, t) = NumberAt(d, t)
    <3>1. NumberAt(d, t) = Signed(d.neg, Magnitude(d, t)) /\ Magnitude(d, t) = 0
      BY <2>3, <2>4, ValueIs, MagnitudeIs
    <3>2. ZeroDecimal \in AllDecimals /\ ZeroDecimal.scale <= t
      BY ZeroIs
    <3>3. NumberAt(e, t) = Signed(ZeroDecimal.neg, Magnitude(ZeroDecimal, t)) /\ Magnitude(ZeroDecimal, t) = 0
      BY <2>1, <3>2, ValueIs, MagnitudeIs, ZeroIs
    <3> QED
      BY <3>1, <3>3 DEF Signed
  <2>5. e \in Normal /\ e.scale <= s
    <3>1. e \in Normal /\ e.scale = 0
      BY <2>1, ZeroIs
    <3> QED
      BY <1>1, <3>1
  <2> QED
    BY <2>4, <2>5 DEF e
<1>9. CASE \E i \in DOMAIN head : head[i] # 0
  <2> DEFINE y == TrimToOne(head)
             r == s - drop
  <2>1. PICK i \in 1 .. Len(head) : head[i] # 0
    BY <1>5, <1>9
  <2>2. e = Decimal(d.neg, y, r)
    BY <1>3, <1>9 DEF WithoutLeading
  <2>3. Len(y) \in Nat /\ Len(y) >= 1 /\ Len(y) <= Len(head) /\ y[1] # 0 /\ y[Len(y)] = head[Len(head)]
    BY <1>5, <2>1, TrimToOneKeeps
  <2>4. y \in Seq(Digit) /\ Number(y) = Number(head)
    BY <1>5, TrimToOneIs DEF Trimmed
  <2> HIDE DEF y
  <2>5. e.neg = d.neg /\ e.digits = y /\ e.scale = r /\ e \in AllDecimals
    BY <1>1, <1>4, <2>2, <2>4 DEF Decimal, AllDecimals
  <2>6. r = 0 \/ y[Len(y)] # 0
    <3>1. drop # n
      BY <1>1, <1>4, <1>5, <2>1
    <3>2. CASE drop = s
      BY <1>1, <3>2
    <3>3. CASE x[n - drop] # 0
      <4>1. h \in 1 .. h
        BY <1>1, <1>4, <3>1
      <4>2. head[h] = x[h]
        BY <1>5, <4>1
      <4> QED
        BY <1>5, <2>3, <3>3, <4>2
    <3> QED
      BY <1>2, <3>1, <3>2, <3>3
  <2>7. e \in Normal
    BY <2>3, <2>5, <2>6 DEF Normal
  <2>8. ASSUME NEW t \in Nat, s <= t PROVE NumberAt(e, t) = NumberAt(d, t)
    <3> DEFINE k == t - s
               N == Number(head)
    <3>1. k \in Nat /\ r <= t /\ r \in Nat /\ t - r = drop + k
      <4>1. s \in Nat /\ drop \in Nat /\ drop <= s /\ t \in Nat /\ s <= t
        BY <1>1, <1>4, <2>8
      <4> HIDE DEF s
      <4> QED
        BY <4>1
    <3>2. Power[drop + k] = Power[drop] * Power[k] /\ Power[k] \in Int
      <4> HIDE DEF k
      <4> QED
        BY <1>4, <3>1, PowerSum, PowerAt
    <3>3. Magnitude(e, t) = N * (Power[drop] * Power[k])
      <4> HIDE DEF k, r
      <4> QED
        BY <2>4, <2>5, <3>1, <3>2 DEF Magnitude
    <3>4. Magnitude(d, t) = (N * Power[drop]) * Power[k]
      BY <1>7 DEF Magnitude
    <3>5. N * (Power[drop] * Power[k]) = (N * Power[drop]) * Power[k]
      <4> DEFINE p == Power[drop]
                 q == Power[k]
      <4>1. N \in Int /\ p \in Int /\ q \in Int
        BY <1>7, <3>2
      <4> HIDE DEF N, p, q
      <4>2. N * (p * q) = (N * p) * q
        BY <4>1
      <4> QED
        BY <4>2 DEF p, q
    <3>6. NumberAt(e, t) = Signed(e.neg, Magnitude(e, t))
      BY <2>5, <3>1, ValueIs
    <3>7. NumberAt(d, t) = Signed(d.neg, Magnitude(d, t))
      BY <2>8, ValueIs
    <3> QED
      BY <2>5, <3>3, <3>4, <3>5, <3>6, <3>7
  <2>9. r <= s
    BY <1>1, <1>4
  <2> QED
    BY <2>5, <2>7, <2>8, <2>9 DEF e
<1> QED
  BY <1>8, <1>9 DEF e

\* A number gives its magnitude, and its sign unless it is zero.
LEMMA SignedIs ==
  ASSUME NEW p \in BOOLEAN, NEW q \in BOOLEAN, NEW m \in Nat, NEW n \in Nat, Signed(p, m) = Signed(q, n)
  PROVE  m = n /\ (m # 0 => p = q)
<1>1. CASE p = TRUE /\ q = TRUE
  <2>1. -m = -n
    BY <1>1 DEF Signed
  <2>2. m = n
    BY <2>1
  <2> QED
    BY <1>1, <2>2
<1>2. CASE p = TRUE /\ q = FALSE
  <2>1. -m = n
    BY <1>2 DEF Signed
  <2>2. m = n /\ m = 0
    BY <2>1
  <2> QED
    BY <2>2
<1>3. CASE p = FALSE /\ q = TRUE
  <2>1. m = -n
    BY <1>3 DEF Signed
  <2>2. m = n /\ m = 0
    BY <2>1
  <2> QED
    BY <2>2
<1>4. CASE p = FALSE /\ q = FALSE
  <2>1. m = n
    BY <1>4 DEF Signed
  <2> QED
    BY <1>4, <2>1
<1>5. (p = TRUE \/ p = FALSE) /\ (q = TRUE \/ q = FALSE)
  OBVIOUS
<1> QED
  BY <1>1, <1>2, <1>3, <1>4, <1>5, Zenon

\* A number has one normal form.
LEMMA NormalUnique ==
  ASSUME NEW a \in Normal, NEW b \in Normal, NEW t \in Nat, a.scale <= t, b.scale <= t, a.scale <= b.scale,
         NumberAt(a, t) = NumberAt(b, t)
  PROVE  a = b
<1> DEFINE M == Number(a.digits)
           N == Number(b.digits)
           j == b.scale - a.scale
           k == t - b.scale
           P == Power[j]
           Q == Power[k]
<1>1. a \in AllDecimals /\ b \in AllDecimals /\ M \in Nat /\ N \in Nat
  BY NormalIs
<1>2. /\ NumberAt(a, t) = Signed(a.neg, Magnitude(a, t)) /\ Magnitude(a, t) \in Nat /\ (Magnitude(a, t) = 0 <=> M = 0)
      /\ NumberAt(b, t) = Signed(b.neg, Magnitude(b, t)) /\ Magnitude(b, t) \in Nat /\ (Magnitude(b, t) = 0 <=> N = 0)
      /\ a.neg \in BOOLEAN /\ b.neg \in BOOLEAN
  BY <1>1, ValueIs, MagnitudeIs DEF AllDecimals
<1>3. Magnitude(a, t) = Magnitude(b, t) /\ (Magnitude(a, t) # 0 => a.neg = b.neg)
  <2> DEFINE p == a.neg
             q == b.neg
             m == Magnitude(a, t)
             n == Magnitude(b, t)
  <2>1. p \in BOOLEAN /\ q \in BOOLEAN /\ m \in Nat /\ n \in Nat /\ Signed(p, m) = Signed(q, n)
    BY <1>2
  <2> HIDE DEF p, q, m, n
  <2>2. m = n /\ (m # 0 => p = q)
    BY <2>1, SignedIs
  <2> QED
    BY <2>2 DEF p, q, m, n
<1>4. CASE M = 0
  <2>1. N = 0
    BY <1>2, <1>3, <1>4
  <2> QED
    BY <1>4, <2>1, NormalIs
<1>5. CASE M # 0
  <2>1. N # 0 /\ a.neg = b.neg
    BY <1>2, <1>3, <1>5
  <2>2. a.scale \in Nat /\ b.scale \in Nat /\ j \in Nat /\ k \in Nat /\ t - a.scale = j + k
    BY <1>1 DEF AllDecimals
  <2>3. Power[j + k] = P * Q /\ P \in Int /\ P >= 1 /\ Q \in Int /\ Q >= 1
    <3> HIDE DEF j, k
    <3> QED
      BY <2>2, PowerSum, PowerAt
  <2>4. Magnitude(a, t) = M * (P * Q) /\ Magnitude(b, t) = N * Q
    BY <2>2, <2>3 DEF Magnitude
  <2>5. M * P = N
    <3> HIDE DEF M, N, P, Q
    <3>1. M * (P * Q) = N * Q
      BY <1>3, <2>4
    <3>2. (M * P) * Q = N * Q /\ M * P \in Int
      BY <1>1, <2>3, <3>1
    <3> DEFINE z == M * P
    <3> HIDE DEF z
    <3>3. z \in Int /\ z * Q = N * Q
      BY <3>2 DEF z
    <3>4. (z - N) * Q = 0
      BY <1>1, <2>3, <3>3
    <3>5. z - N >= 1 => (z - N) * Q >= 1
      BY <1>1, <2>3, <3>3
    <3>6. N - z >= 1 => (N - z) * Q >= 1
      BY <1>1, <2>3, <3>3
    <3>7. (N - z) * Q = -((z - N) * Q)
      BY <1>1, <2>3, <3>3
    <3> QED
      BY <1>1, <3>3, <3>4, <3>5, <3>6, <3>7 DEF z
  <2>6. j = 0
    <3> SUFFICES ASSUME j # 0 PROVE FALSE
      OBVIOUS
    <3> DEFINE i == j - 1
               y == b.digits
               n == Len(y)
               l == n - 1
               L == Leading(y)[l]
               c == y[n]
               R == Power[i]
    <3>1. i \in Nat /\ i + 1 = j /\ b.scale # 0
      BY <2>2
    <3>2. R \in Int /\ P = Base * R
      <4> HIDE DEF i, j
      <4>1. R \in Int /\ Power[i + 1] = Base * R
        BY <3>1, PowerAt
      <4> QED
        BY <3>1, <4>1
    <3>3. b # ZeroDecimal
      BY <2>1, NormalIs
    <3>4. y \in Seq(Digit) /\ y \in Seq(Int) /\ n \in Nat /\ n > 0 /\ c # 0
      BY <3>1, <3>3, NormalIs, DigitsAre DEF Normal
    <3>5. l \in 0 .. n - 1 /\ l + 1 = n /\ n \in 1 .. n
      BY <3>4
    <3>6. L \in Int /\ N = L * Base + c /\ c \in Int /\ 0 <= c /\ c <= Base - 1
      <4>1. Leading(y)[l + 1] = Leading(y)[l] * Base + y[l + 1] /\ N = Leading(y)[n]
        BY <3>4, <3>5, NumberIs
      <4>2. L \in Int
        <5>1. l \in 0 .. n
          BY <3>4, <3>5
        <5> QED
          BY <3>4, <5>1, NumberIs
      <4>3. c \in Int /\ 0 <= c /\ c <= Base - 1
        BY <3>4, <3>5, DigitsAre
      <4> HIDE DEF l, n
      <4> QED
        BY <3>5, <4>1, <4>2, <4>3
    <3> HIDE DEF L, c, R, M, N, P, i, j, n, l
    <3>7. M * (Base * R) = L * Base + c
      BY <2>5, <3>2, <3>6
    <3> DEFINE g == M * R - L
    <3>8. g \in Int /\ g * Base = c
      <4>1. M * R \in Int
        BY <1>1, <3>2
      <4>2. M * (Base * R) = (M * R) * Base
        BY <1>1, <3>2, BaseIs
      <4>3. g * Base = (M * R) * Base - L * Base
        BY <3>6, <4>1, BaseIs
      <4>4. (M * R) * Base \in Int /\ L * Base \in Int
        BY <3>6, <4>1, BaseIs
      <4> QED
        BY <3>6, <3>7, <4>1, <4>2, <4>3, <4>4
    <3> HIDE DEF g
    <3>9. g >= 1 => g * Base >= Base
      BY <3>8, BaseIs
    <3>10. g <= 0 => g * Base <= 0
      BY <3>8, BaseIs
    <3>11. c # 0
      BY <3>4 DEF c
    <3> QED
      BY <3>6, <3>8, <3>9, <3>10, <3>11, BaseIs
  <2>7. P = 1
    BY <2>6, Powers
  <2>8. M = N
    BY <1>1, <2>5, <2>7
  <2>9. a.scale = b.scale /\ a.digits = b.digits
    <3>1. a.scale = b.scale
      BY <2>2, <2>6
    <3>2. a.digits = b.digits
      BY <2>8, NormalIs, SameNumber
    <3> QED
      BY <3>1, <3>2
  <2> QED
    BY <1>1, <2>1, <2>9 DEF AllDecimals
<1> QED
  BY <1>4, <1>5

\* Two normal decimals of one value are one decimal.
LEMMA SameValue ==
  ASSUME NEW a \in Normal, NEW b \in Normal, NEW t \in Nat, a.scale <= t, b.scale <= t, NumberAt(a, t) = NumberAt(b, t)
  PROVE  a = b
<1>1. a.scale \in Nat /\ b.scale \in Nat
  BY NormalIs
<1>2. CASE a.scale <= b.scale
  BY <1>2, NormalUnique
<1>3. CASE b.scale <= a.scale
  BY <1>3, NormalUnique
<1> QED
  BY <1>1, <1>2, <1>3

\* Normalizing a normal decimal changes nothing.
LEMMA NormalizeAgain ==
  ASSUME NEW d \in Normal
  PROVE  Normalize(d) = d
<1> DEFINE t == d.scale
           e == Normalize(d)
<1>1. d \in AllDecimals /\ t \in Nat
  BY NormalIs
<1>2. e \in Normal /\ e.scale <= t /\ NumberAt(e, t) = NumberAt(d, t)
  BY <1>1, NormalizeIs
<1> HIDE DEF e
<1>3. e = d
  BY <1>1, <1>2, SameValue
<1> QED
  BY <1>3 DEF e

-----------------------------------------------------------------------------
(* Decimals at one scale (alignScales, compareAbs).                        *)

\* A value at a larger scale.
LEMMA ValueAt ==
  ASSUME NEW d \in AllDecimals, NEW t \in Nat, d.scale <= t, NEW k \in Nat
  PROVE  /\ NumberAt(d, t + k) = NumberAt(d, t) * Power[k] /\ NumberAt(d, t) \in Int
         /\ Magnitude(d, t + k) = Magnitude(d, t) * Power[k] /\ Magnitude(d, t) \in Nat
         /\ Power[k] \in Int /\ Power[k] >= 1
<1> DEFINE m == Magnitude(d, t)
           K == Power[k]
           l == t + k
<1>1. K \in Int /\ K >= 1 /\ m \in Nat /\ d.scale \in Nat /\ d.neg \in BOOLEAN
  BY PowerAt, MagnitudeIs DEF AllDecimals
<1>2. Magnitude(d, l) = m * K
  BY MagnitudeAt
<1>3. l \in Nat /\ d.scale <= l
  BY <1>1
<1> HIDE DEF l
<1>4. NumberAt(d, l) = Signed(d.neg, m * K) /\ NumberAt(d, t) = Signed(d.neg, m) /\ NumberAt(d, t) \in Int
  BY <1>2, <1>3, ValueIs
<1> HIDE DEF m, K
<1>5. Signed(d.neg, m * K) = Signed(d.neg, m) * K
  <2>1. -(m * K) = (-m) * K
    BY <1>1
  <2> QED
    BY <2>1 DEF Signed
<1> QED
  BY <1>1, <1>2, <1>4, <1>5 DEF l, m, K

\* The larger of two scales.
LEMMA MaxScaleIs ==
  ASSUME NEW a \in AllDecimals, NEW b \in AllDecimals
  PROVE  /\ MaxScale(a, b) \in Nat /\ a.scale \in Nat /\ b.scale \in Nat
         /\ a.scale <= MaxScale(a, b) /\ b.scale <= MaxScale(a, b)
         /\ \A t \in Nat : a.scale <= t /\ b.scale <= t => MaxScale(a, b) <= t /\ t - MaxScale(a, b) \in Nat
                                                        /\ MaxScale(a, b) + (t - MaxScale(a, b)) = t
<1>1. a.scale \in Nat /\ b.scale \in Nat
  BY DEF AllDecimals
<1> QED
  BY <1>1 DEF MaxScale

\* A number of digits at the scale of an alignment.
LEMMA ScaledIs ==
  ASSUME NEW d \in AllDecimals, NEW t \in Nat, d.scale <= t
  PROVE  Scaled(d, t) \in Seq(Digit) /\ Number(Scaled(d, t)) = Magnitude(d, t)
<1> DEFINE x == d.digits
           k == t - d.scale
           z == Zeros(k)
<1>1. x \in Seq(Digit) /\ k \in Nat /\ x \in Seq(Int) /\ Number(x) \in Nat
  BY MagnitudeIs, DigitsAre DEF AllDecimals
<1>2. Scaled(d, t) = x \o z
  BY DEF Scaled
<1>3. Magnitude(d, t) = Number(x) * Power[k]
  BY DEF Magnitude
<1> HIDE DEF k, x
<1>4. z \in Seq(Int) /\ z \in Seq(Digit) /\ Len(z) = k /\ Number(z) = 0
  BY <1>1, ZerosAre
<1> HIDE DEF z
<1>5. x \o z \in Seq(Digit)
  BY <1>1, <1>4, ConcatProperties
<1>6. Number(x \o z) = Number(x) * Power[k] + 0
  BY <1>1, <1>4, Joined
<1>7. Power[k] \in Int
  BY <1>1, PowerAt
<1> QED
  BY <1>1, <1>2, <1>3, <1>5, <1>6, <1>7

\* alignDigits: the same magnitudes in digits of one length.
LEMMA PaddedIs ==
  ASSUME NEW x \in Seq(Digit), NEW y \in Seq(Digit)
  PROVE  /\ Padded(x, y)[1] \in Seq(Digit) /\ Padded(x, y)[2] \in Seq(Digit)
         /\ Len(Padded(x, y)[1]) = Len(Padded(x, y)[2])
         /\ Number(Padded(x, y)[1]) = Number(x) /\ Number(Padded(x, y)[2]) = Number(y)
<1> DEFINE n == IF Len(x) > Len(y) THEN Len(x) ELSE Len(y)
           Pad(z) == Zeros(n - Len(z)) \o z
<1>1. n \in Nat /\ Len(x) \in Nat /\ Len(y) \in Nat /\ n - Len(x) \in Nat /\ n - Len(y) \in Nat
  BY DigitsAre
<1>2. Padded(x, y)[1] = Pad(x) /\ Padded(x, y)[2] = Pad(y)
  BY DEF Padded
<1> HIDE DEF n
<1>3. ASSUME NEW z \in Seq(Digit), n - Len(z) \in Nat PROVE Pad(z) \in Seq(Digit) /\ Len(Pad(z)) = n /\ Number(Pad(z)) = Number(z)
  <2> DEFINE k == n - Len(z)
             w == Zeros(k)
  <2>1. k \in Nat /\ Len(z) \in Nat /\ k + Len(z) = n
    BY <1>1, <1>3, DigitsAre
  <2> HIDE DEF k
  <2>2. w \in Seq(Int) /\ w \in Seq(Digit) /\ Len(w) = k /\ Number(w) = 0
    BY <2>1, ZerosAre
  <2>3. z \in Seq(Int)
    BY DigitsAre
  <2> HIDE DEF w
  <2>4. w \o z \in Seq(Digit)
    BY <2>2, ConcatProperties
  <2>5. Len(w \o z) = Len(w) + Len(z) /\ Number(w \o z) = Number(w) * Power[Len(z)] + Number(z)
    BY <2>2, <2>3, Joined
  <2>6. 0 * Power[Len(z)] + Number(z) = Number(z)
    BY <2>3, SizeOf
  <2> QED
    BY <2>1, <2>2, <2>4, <2>5, <2>6 DEF w, k
<1> HIDE DEF Pad
<1> QED
  BY <1>1, <1>2, <1>3

\* compareAbs: the order of the magnitudes.
LEMMA CompareAbsIs ==
  ASSUME NEW a \in AllDecimals, NEW b \in AllDecimals, NEW t \in Nat, a.scale <= t, b.scale <= t
  PROVE  SaysOrder(CompareAbs(a, b), Magnitude(a, t), Magnitude(b, t))
<1> DEFINE M == MaxScale(a, b)
           k == t - M
           m == Magnitude(a, M)
           n == Magnitude(b, M)
           K == Power[k]
           c == CompareAbs(a, b)
<1>1. M \in Nat /\ a.scale <= M /\ b.scale <= M /\ k \in Nat /\ M + k = t
  BY MaxScaleIs
<1>2. SaysOrder(c, m, n)
  <2> DEFINE x == Scaled(a, M)
             y == Scaled(b, M)
  <2>1. c = CompareDigits(x, y)
    BY DEF CompareAbs
  <2> HIDE DEF M, c
  <2>2. x \in Seq(Digit) /\ Number(x) = m /\ y \in Seq(Digit) /\ Number(y) = n
    BY <1>1, ScaledIs
  <2> HIDE DEF x, y, m, n
  <2> QED
    BY <2>1, <2>2, CompareDigitsIs
<1> HIDE DEF k, M
<1>3. Magnitude(a, M + k) = m * K /\ Magnitude(b, M + k) = n * K /\ m \in Nat /\ n \in Nat /\ K \in Int /\ K >= 1
  BY <1>1, ValueAt
<1> HIDE DEF m, n, K, c
<1>4. m < n => m * K < n * K
  <2>1. m < n => (n - m) * K >= 1
    BY <1>3
  <2>2. (n - m) * K = n * K - m * K /\ n * K \in Int /\ m * K \in Int
    BY <1>3
  <2> QED
    BY <2>1, <2>2
<1>5. m > n => m * K > n * K
  <2>1. m > n => (m - n) * K >= 1
    BY <1>3
  <2>2. (m - n) * K = m * K - n * K /\ n * K \in Int /\ m * K \in Int
    BY <1>3
  <2> QED
    BY <2>1, <2>2
<1>6. SaysOrder(c, m * K, n * K)
  BY <1>2, <1>4, <1>5 DEF SaysOrder
<1> QED
  BY <1>1, <1>3, <1>6 DEF c

-----------------------------------------------------------------------------
(* Sums, differences and the order (Add, Sub, Less).                       *)

\* A decimal made of digits, at its own scale.
LEMMA MadeIs ==
  ASSUME NEW p \in BOOLEAN, NEW x \in Seq(Digit), NEW s \in Nat
  PROVE  /\ Decimal(p, x, s) \in AllDecimals /\ Decimal(p, x, s).scale = s
         /\ Decimal(p, x, s).neg = p /\ Decimal(p, x, s).digits = x
         /\ Number(x) \in Nat
         /\ Magnitude(Decimal(p, x, s), s) = Number(x)
         /\ NumberAt(Decimal(p, x, s), s) = Signed(p, Number(x))
<1> DEFINE d == Decimal(p, x, s)
<1>1. d \in AllDecimals /\ d.scale = s /\ d.neg = p /\ d.digits = x
  BY DEF Decimal, AllDecimals
<1>2. Number(x) \in Nat
  BY NumberBounds
<1> HIDE DEF d
<1>3. Magnitude(d, s) = Number(x)
  <2>1. s - s = 0
    OBVIOUS
  <2>2. Magnitude(d, s) = Number(x) * Power[0]
    BY <1>1, <2>1 DEF Magnitude
  <2> QED
    BY <1>2, <2>2, Powers
<1>4. NumberAt(d, s) = Signed(p, Number(x))
  BY <1>1, <1>3, ValueIs
<1> QED
  BY <1>1, <1>2, <1>3, <1>4 DEF d

\* Add: the sum, in normal form, at a scale no larger than the larger of the operands'.
LEMMA NormalAddIs ==
  ASSUME NEW a \in AllDecimals, NEW b \in AllDecimals
  PROVE  LET d == NormalAdd(a, b) IN
         /\ d \in Normal /\ d.scale <= MaxScale(a, b)
         /\ \A t \in Nat : a.scale <= t /\ b.scale <= t => NumberAt(d, t) = NumberAt(a, t) + NumberAt(b, t)
<1> DEFINE M == MaxScale(a, b)
           d == NormalAdd(a, b)
           x == AlignDigits(a, b)[1]
           y == AlignDigits(a, b)[2]
           m == Magnitude(a, M)
           n == Magnitude(b, M)
           c == CompareAbs(a, b)
           e == IF a.neg = b.neg
                  THEN Decimal(a.neg, AddDigits(x, y), M)
                  ELSE CASE c = 0 -> ZeroDecimal
                         [] c = 1 -> Decimal(a.neg, SubDigits(x, y), M)
                         [] OTHER -> Decimal(b.neg, SubDigits(y, x), M)
<1>1. M \in Nat /\ a.scale <= M /\ b.scale <= M /\ a.neg \in BOOLEAN /\ b.neg \in BOOLEAN
  BY MaxScaleIs DEF AllDecimals
<1>2. /\ x \in Seq(Digit) /\ y \in Seq(Digit) /\ Len(x) = Len(y) /\ Number(x) = m /\ Number(y) = n
      /\ m \in Nat /\ n \in Nat /\ Len(x) \in Nat
  <2> DEFINE u == Scaled(a, M)
             v == Scaled(b, M)
  <2>1. AlignDigits(a, b) = Padded(u, v)
    BY DEF AlignDigits
  <2> HIDE DEF M
  <2>2. u \in Seq(Digit) /\ Number(u) = m /\ v \in Seq(Digit) /\ Number(v) = n
    BY <1>1, ScaledIs
  <2> HIDE DEF u, v
  <2>3. /\ Padded(u, v)[1] \in Seq(Digit) /\ Padded(u, v)[2] \in Seq(Digit)
        /\ Len(Padded(u, v)[1]) = Len(Padded(u, v)[2])
        /\ Number(Padded(u, v)[1]) = Number(u) /\ Number(Padded(u, v)[2]) = Number(v)
    BY <2>2, PaddedIs
  <2>4. m \in Nat /\ n \in Nat
    BY <1>1, MagnitudeIs
  <2>5. Len(x) \in Nat
    BY <2>1, <2>3, DigitsAre
  <2> QED
    BY <2>1, <2>2, <2>3, <2>4, <2>5
<1>3. SaysOrder(c, m, n)
  <2> HIDE DEF M
  <2> QED
    BY <1>1, CompareAbsIs
<1>4. d = Normalize(e)
  BY DEF NormalAdd, AlignedAdd
<1>5. NumberAt(a, M) = Signed(a.neg, m) /\ NumberAt(b, M) = Signed(b.neg, n)
  <2> HIDE DEF M
  <2> QED
    BY <1>1, ValueIs
<1> HIDE DEF M, x, y, m, n, c, d
<1>6. e \in AllDecimals /\ e.scale <= M /\ NumberAt(e, M) = Signed(a.neg, m) + Signed(b.neg, n)
  <2>1. CASE a.neg = b.neg
    <3> DEFINE z == AddDigits(x, y)
    <3>1. z \in Seq(Digit) /\ Number(z) = m + n
      BY <1>2, AddDigitsIs
    <3>2. e = Decimal(a.neg, z, M)
      BY <2>1
    <3> HIDE DEF z, e
    <3>3. e \in AllDecimals /\ e.scale = M /\ NumberAt(e, M) = Signed(a.neg, Number(z))
      BY <1>1, <3>1, <3>2, MadeIs
    <3>4. Signed(a.neg, m + n) = Signed(a.neg, m) + Signed(a.neg, n)
      <4>1. -(m + n) = (-m) + (-n)
        BY <1>2
      <4> QED
        BY <4>1 DEF Signed
    <3> QED
      BY <1>1, <2>1, <3>1, <3>3, <3>4
  <2>2. CASE a.neg # b.neg /\ c = 0
    <3>1. e = ZeroDecimal
      BY <2>2
    <3>2. m = n
      BY <1>3, <2>2 DEF SaysOrder
    <3> HIDE DEF e
    <3>3. ZeroDecimal \in AllDecimals /\ ZeroDecimal.scale <= M
      BY <1>1, ZeroIs
    <3>4. NumberAt(ZeroDecimal, M) = Signed(FALSE, 0)
      <4>1. NumberAt(ZeroDecimal, M) = Signed(ZeroDecimal.neg, Magnitude(ZeroDecimal, M))
        BY <1>1, <3>3, ValueIs
      <4>2. Magnitude(ZeroDecimal, M) = 0
        BY <1>1, <3>3, MagnitudeIs, ZeroIs
      <4> QED
        BY <4>1, <4>2, ZeroIs
    <3>5. Signed(FALSE, 0) = 0
      BY DEF Signed
    <3>6. Signed(a.neg, m) + Signed(b.neg, m) = 0
      <4>1. CASE a.neg = TRUE
        <5>1. b.neg = FALSE
          BY <1>1, <2>2, <4>1
        <5>2. -m + m = 0
          BY <1>2
        <5> QED
          BY <4>1, <5>1, <5>2 DEF Signed
      <4>2. CASE a.neg = FALSE
        <5>1. b.neg = TRUE
          BY <1>1, <2>2, <4>2
        <5>2. m + (-m) = 0
          BY <1>2
        <5> QED
          BY <4>2, <5>1, <5>2 DEF Signed
      <4> QED
        BY <1>1, <4>1, <4>2
    <3> QED
      BY <3>1, <3>2, <3>3, <3>4, <3>5, <3>6
  <2>3. CASE a.neg # b.neg /\ c = 1
    <3> DEFINE z == SubDigits(x, y)
    <3>1. m > n
      BY <1>3, <2>3 DEF SaysOrder
    <3>2. z \in Seq(Digit) /\ Number(z) = m - n
      <4>1. Len(y) <= Len(x) /\ Number(y) <= Number(x)
        BY <1>2, <3>1
      <4> QED
        BY <1>2, <4>1, SubDigitsIs
    <3>3. e = Decimal(a.neg, z, M)
      BY <2>3
    <3> HIDE DEF z, e
    <3>4. e \in AllDecimals /\ e.scale = M /\ NumberAt(e, M) = Signed(a.neg, Number(z))
      BY <1>1, <3>2, <3>3, MadeIs
    <3>5. Signed(a.neg, m - n) = Signed(a.neg, m) + Signed(b.neg, n)
      <4>1. CASE a.neg = TRUE
        <5>1. b.neg = FALSE
          BY <1>1, <2>3, <4>1
        <5>2. -(m - n) = (-m) + n
          BY <1>2
        <5> QED
          BY <4>1, <5>1, <5>2 DEF Signed
      <4>2. CASE a.neg = FALSE
        <5>1. b.neg = TRUE
          BY <1>1, <2>3, <4>2
        <5>2. m - n = m + (-n)
          BY <1>2
        <5> QED
          BY <4>2, <5>1, <5>2 DEF Signed
      <4> QED
        BY <1>1, <4>1, <4>2
    <3> QED
      BY <1>1, <3>2, <3>4, <3>5
  <2>4. CASE a.neg # b.neg /\ c # 0 /\ c # 1
    <3> DEFINE z == SubDigits(y, x)
    <3>1. m < n
      BY <1>3, <2>4 DEF SaysOrder
    <3>2. z \in Seq(Digit) /\ Number(z) = n - m
      <4>1. Len(x) <= Len(y) /\ Number(x) <= Number(y)
        BY <1>2, <3>1
      <4> QED
        BY <1>2, <4>1, SubDigitsIs
    <3>3. e = Decimal(b.neg, z, M)
      BY <2>4
    <3> HIDE DEF z, e
    <3>4. e \in AllDecimals /\ e.scale = M /\ NumberAt(e, M) = Signed(b.neg, Number(z))
      BY <1>1, <3>2, <3>3, MadeIs
    <3>5. Signed(b.neg, n - m) = Signed(a.neg, m) + Signed(b.neg, n)
      <4>1. CASE a.neg = TRUE
        <5>1. b.neg = FALSE
          BY <1>1, <2>4, <4>1
        <5>2. n - m = (-m) + n
          BY <1>2
        <5> QED
          BY <4>1, <5>1, <5>2 DEF Signed
      <4>2. CASE a.neg = FALSE
        <5>1. b.neg = TRUE
          BY <1>1, <2>4, <4>2
        <5>2. -(n - m) = m + (-n)
          BY <1>2
        <5> QED
          BY <4>2, <5>1, <5>2 DEF Signed
      <4> QED
        BY <1>1, <4>1, <4>2
    <3> QED
      BY <1>1, <3>2, <3>4, <3>5
  <2> QED
    BY <2>1, <2>2, <2>3, <2>4
<1> HIDE DEF e
<1>7. d \in Normal /\ d.scale <= e.scale
  BY <1>4, <1>6, NormalizeIs
<1>8. d.scale <= M
  <2>1. d.scale \in Nat /\ e.scale \in Nat
    BY <1>6, <1>7, NormalIs DEF AllDecimals
  <2> QED
    BY <1>1, <1>6, <1>7, <2>1
<1>9. ASSUME NEW t \in Nat, a.scale <= t, b.scale <= t PROVE NumberAt(d, t) = NumberAt(a, t) + NumberAt(b, t)
  <2> DEFINE k == t - M
             K == Power[k]
             A == NumberAt(a, M)
             B == NumberAt(b, M)
  <2>1. k \in Nat /\ M + k = t
    BY <1>9, MaxScaleIs DEF M
  <2>2. e.scale <= t
    <3>1. e.scale \in Nat
      BY <1>6 DEF AllDecimals
    <3> QED
      BY <1>1, <1>6, <2>1, <3>1
  <2>3. NumberAt(d, t) = NumberAt(e, t)
    BY <1>4, <1>6, <2>2, NormalizeIs
  <2> HIDE DEF k
  <2>4. /\ NumberAt(e, M + k) = NumberAt(e, M) * K /\ NumberAt(a, M + k) = A * K /\ NumberAt(b, M + k) = B * K
        /\ A \in Int /\ B \in Int /\ K \in Int
    BY <1>1, <1>6, <2>1, ValueAt
  <2>5. NumberAt(e, M) = A + B
    BY <1>5, <1>6
  <2> HIDE DEF A, B, K
  <2>6. (A + B) * K = A * K + B * K
    BY <2>4
  <2> QED
    BY <2>1, <2>3, <2>4, <2>5, <2>6
<1> QED
  BY <1>7, <1>8, <1>9 DEF d, M

\* Two scales of operands that Normalize only makes smaller.
LEMMA NormalizedIs ==
  ASSUME NEW x \in AllDecimals, NEW y \in AllDecimals
  PROVE  LET a == Normalize(x)
             b == Normalize(y)
         IN  /\ a \in Normal /\ b \in Normal /\ a \in AllDecimals /\ b \in AllDecimals
             /\ \A t \in Nat : x.scale <= t => a.scale <= t /\ NumberAt(a, t) = NumberAt(x, t)
             /\ \A t \in Nat : y.scale <= t => b.scale <= t /\ NumberAt(b, t) = NumberAt(y, t)
<1> DEFINE a == Normalize(x)
           b == Normalize(y)
<1>1. a \in Normal /\ a.scale <= x.scale /\ \A t \in Nat : x.scale <= t => NumberAt(a, t) = NumberAt(x, t)
  BY NormalizeIs
<1>2. b \in Normal /\ b.scale <= y.scale /\ \A t \in Nat : y.scale <= t => NumberAt(b, t) = NumberAt(y, t)
  BY NormalizeIs
<1> HIDE DEF a, b
<1>3. a \in AllDecimals /\ b \in AllDecimals /\ a.scale \in Nat /\ b.scale \in Nat /\ x.scale \in Nat /\ y.scale \in Nat
  BY <1>1, <1>2, NormalIs DEF AllDecimals
<1>4. ASSUME NEW t \in Nat, x.scale <= t PROVE a.scale <= t
  BY <1>1, <1>3, <1>4
<1>5. ASSUME NEW t \in Nat, y.scale <= t PROVE b.scale <= t
  BY <1>2, <1>3, <1>5
<1> QED
  BY <1>1, <1>2, <1>3, <1>4, <1>5 DEF a, b

\* Add, of decimals in any form.
LEMMA DecimalAddIs ==
  ASSUME NEW x \in AllDecimals, NEW y \in AllDecimals
  PROVE  LET d == DecimalAdd(x, y) IN
         /\ d \in Normal
         /\ \A t \in Nat : x.scale <= t /\ y.scale <= t => d.scale <= t /\ NumberAt(d, t) = NumberAt(x, t) + NumberAt(y, t)
<1> DEFINE a == Normalize(x)
           b == Normalize(y)
           d == DecimalAdd(x, y)
<1>1. /\ a \in AllDecimals /\ b \in AllDecimals
      /\ \A t \in Nat : x.scale <= t => a.scale <= t /\ NumberAt(a, t) = NumberAt(x, t)
      /\ \A t \in Nat : y.scale <= t => b.scale <= t /\ NumberAt(b, t) = NumberAt(y, t)
  BY NormalizedIs
<1>2. d = NormalAdd(a, b)
  BY DEF DecimalAdd
<1> HIDE DEF a, b, d
<1>3. /\ d \in Normal /\ d.scale <= MaxScale(a, b)
      /\ \A t \in Nat : a.scale <= t /\ b.scale <= t => NumberAt(d, t) = NumberAt(a, t) + NumberAt(b, t)
  BY <1>1, <1>2, NormalAddIs
<1>4. ASSUME NEW t \in Nat, x.scale <= t, y.scale <= t PROVE d.scale <= t /\ NumberAt(d, t) = NumberAt(x, t) + NumberAt(y, t)
  <2>1. a.scale <= t /\ b.scale <= t
    BY <1>1, <1>4
  <2>2. MaxScale(a, b) <= t /\ MaxScale(a, b) \in Nat
    BY <1>1, <2>1, MaxScaleIs
  <2>3. d.scale <= t
    <3>1. d.scale \in Nat
      BY <1>3, NormalIs
    <3> QED
      BY <1>3, <2>2, <3>1
  <2>4. NumberAt(d, t) = NumberAt(a, t) + NumberAt(b, t)
    BY <1>3, <2>1
  <2>5. NumberAt(a, t) = NumberAt(x, t) /\ NumberAt(b, t) = NumberAt(y, t)
    BY <1>1, <1>4
  <2> QED
    BY <2>3, <2>4, <2>5
<1> QED
  BY <1>3, <1>4 DEF d

\* Sub, which negates a zero too.
LEMMA DecimalSubIs ==
  ASSUME NEW x \in AllDecimals, NEW y \in AllDecimals
  PROVE  LET d == DecimalSub(x, y) IN
         /\ d \in Normal
         /\ \A t \in Nat : x.scale <= t /\ y.scale <= t => d.scale <= t /\ NumberAt(d, t) = NumberAt(x, t) - NumberAt(y, t)
<1> DEFINE z == [y EXCEPT !.neg = ~@]
           d == DecimalSub(x, y)
<1>1. d = DecimalAdd(x, z)
  BY DEF DecimalSub
<1>2. z \in AllDecimals /\ z.scale = y.scale /\ z.digits = y.digits /\ z.neg = ~y.neg /\ y.neg \in BOOLEAN
  BY DEF AllDecimals
<1> HIDE DEF z, d
<1>3. /\ d \in Normal
      /\ \A t \in Nat : x.scale <= t /\ z.scale <= t => d.scale <= t /\ NumberAt(d, t) = NumberAt(x, t) + NumberAt(z, t)
  BY <1>1, <1>2, DecimalAddIs
<1>4. ASSUME NEW t \in Nat, x.scale <= t, y.scale <= t PROVE NumberAt(x, t) + NumberAt(z, t) = NumberAt(x, t) - NumberAt(y, t)
  <2> DEFINE m == Magnitude(y, t)
  <2>1. NumberAt(x, t) \in Int
    BY <1>4, ValueIs
  <2>2. m \in Nat /\ NumberAt(y, t) = Signed(y.neg, m)
    BY <1>4, ValueIs, MagnitudeIs
  <2>3. NumberAt(z, t) = Signed(z.neg, m)
    <3>1. Magnitude(z, t) = m
      BY <1>2 DEF Magnitude
    <3> QED
      BY <1>2, <1>4, <3>1, ValueIs
  <2> HIDE DEF m
  <2>4. CASE y.neg = TRUE
    <3>1. NumberAt(y, t) = -m /\ NumberAt(z, t) = m
      BY <1>2, <2>2, <2>3, <2>4 DEF Signed
    <3> QED
      BY <2>1, <2>2, <3>1
  <2>5. CASE y.neg = FALSE
    <3>1. NumberAt(y, t) = m /\ NumberAt(z, t) = -m
      BY <1>2, <2>2, <2>3, <2>5 DEF Signed
    <3> QED
      BY <2>1, <2>2, <3>1
  <2> QED
    BY <1>2, <2>4, <2>5
<1> QED
  BY <1>2, <1>3, <1>4 DEF d

\* Less: the order of the values.
LEMMA NormalLessIs ==
  ASSUME NEW a \in Normal, NEW b \in Normal, NEW t \in Nat, a.scale <= t, b.scale <= t
  PROVE  NormalLess(a, b) <=> NumberAt(a, t) < NumberAt(b, t)
<1> DEFINE m == Magnitude(a, t)
           n == Magnitude(b, t)
           c == CompareAbs(a, b)
           u == NumberAt(a, t)
           v == NumberAt(b, t)
<1>1. a \in AllDecimals /\ b \in AllDecimals /\ a.neg \in BOOLEAN /\ b.neg \in BOOLEAN
  BY NormalIs
<1>2. m \in Nat /\ n \in Nat /\ u = Signed(a.neg, m) /\ v = Signed(b.neg, n)
  BY <1>1, ValueIs, MagnitudeIs
<1>3. SaysOrder(c, m, n)
  BY <1>1, CompareAbsIs
<1>4. NormalEqual(a, b) <=> a = b
  BY NormalIs DEF NormalEqual
<1>5. NormalLess(a, b) <=> a # b /\ (IF a.neg # b.neg THEN a.neg ELSE c = IF a.neg THEN 1 ELSE -1)
  BY <1>4 DEF NormalLess
<1>6. u = v => a = b
  BY SameValue
<1>7. a = b => u = v
  OBVIOUS
<1> HIDE DEF m, n, c, u, v
<1>8. CASE a.neg = TRUE /\ b.neg = FALSE
  <2>1. u = -m /\ v = n
    BY <1>2, <1>8 DEF Signed
  <2>2. u <= v
    BY <1>2, <2>1
  <2>3. NormalLess(a, b) <=> a # b
    BY <1>5, <1>8
  <2>4. u < v <=> u # v
    BY <1>2, <2>1, <2>2
  <2> QED
    BY <1>6, <1>7, <2>3, <2>4 DEF u, v
<1>9. CASE a.neg = FALSE /\ b.neg = TRUE
  <2>1. u = m /\ v = -n
    BY <1>2, <1>9 DEF Signed
  <2>2. ~(u < v)
    BY <1>2, <2>1
  <2>3. ~NormalLess(a, b)
    BY <1>5, <1>9
  <2> QED
    BY <2>2, <2>3 DEF u, v
<1>10. CASE a.neg = TRUE /\ b.neg = TRUE
  <2>1. u = -m /\ v = -n
    BY <1>2, <1>10 DEF Signed
  <2>2. u < v <=> m > n
    BY <1>2, <2>1
  <2>3. c = 1 <=> m > n
    BY <1>2, <1>3 DEF SaysOrder
  <2>4. NormalLess(a, b) <=> a # b /\ c = 1
    BY <1>5, <1>10
  <2>5. a = b => ~(u < v)
    BY <1>2, <1>7, <2>1
  <2> QED
    BY <2>2, <2>3, <2>4, <2>5 DEF u, v
<1>11. CASE a.neg = FALSE /\ b.neg = FALSE
  <2>1. u = m /\ v = n
    BY <1>2, <1>11 DEF Signed
  <2>2. u < v <=> m < n
    BY <1>2, <2>1
  <2>3. c = -1 <=> m < n
    BY <1>2, <1>3 DEF SaysOrder
  <2>4. NormalLess(a, b) <=> a # b /\ c = -1
    BY <1>5, <1>11
  <2>5. a = b => ~(u < v)
    BY <1>2, <1>7, <2>1
  <2> QED
    BY <2>2, <2>3, <2>4, <2>5 DEF u, v
<1> QED
  BY <1>1, <1>8, <1>9, <1>10, <1>11

-----------------------------------------------------------------------------
(* Products and quotients (Mul, Div).                                      *)

\* The sign of a product.
LEMMA SignedProduct ==
  ASSUME NEW p \in BOOLEAN, NEW q \in BOOLEAN, NEW m \in Nat, NEW n \in Nat
  PROVE  Signed(p, m) * Signed(q, n) = Signed(p # q, m * n) /\ Signed(p, m) * n = Signed(p, m * n) /\ m * n \in Nat
<1>0. m * n \in Nat /\ (-m) * n = -(m * n) /\ m * (-n) = -(m * n) /\ (-m) * (-n) = m * n
  OBVIOUS
<1>1. CASE p = TRUE /\ q = TRUE
  BY <1>0, <1>1 DEF Signed
<1>2. CASE p = TRUE /\ q = FALSE
  BY <1>0, <1>2 DEF Signed
<1>3. CASE p = FALSE /\ q = TRUE
  BY <1>0, <1>3 DEF Signed
<1>4. CASE p = FALSE /\ q = FALSE
  BY <1>0, <1>4 DEF Signed
<1> QED
  BY <1>1, <1>2, <1>3, <1>4

\* Mul: the product, at a scale no larger than the sum of the operands'.
LEMMA NormalMulIs ==
  ASSUME NEW a \in Normal, NEW b \in Normal
  PROVE  LET d == NormalMul(a, b)
             s == a.scale + b.scale
         IN  /\ d \in Normal /\ d.scale <= s /\ s \in Nat /\ a.scale <= s /\ b.scale <= s
             /\ NumberAt(d, s) * Power[s] = NumberAt(a, s) * NumberAt(b, s)
<1> DEFINE d == NormalMul(a, b)
           s == a.scale + b.scale
           m == Number(a.digits)
           n == Number(b.digits)
           A == Power[a.scale]
           B == Power[b.scale]
           p == a.neg
           q == b.neg
           z == MulDigits(a.digits, b.digits)
           e == Decimal(p # q, z, s)
<1>1. /\ a \in AllDecimals /\ b \in AllDecimals /\ a.scale \in Nat /\ b.scale \in Nat
      /\ p \in BOOLEAN /\ q \in BOOLEAN /\ m \in Nat /\ n \in Nat
      /\ a.digits \in Seq(Digit) /\ b.digits \in Seq(Digit)
  BY NormalIs
<1>2. s \in Nat /\ a.scale <= s /\ b.scale <= s /\ s - a.scale = b.scale /\ s - b.scale = a.scale
  BY <1>1
<1>3. Power[s] = A * B /\ A \in Int /\ A >= 1 /\ B \in Int /\ B >= 1
  BY <1>1, PowerSum, PowerAt
<1>4. d = IF IsZero(a) \/ IsZero(b) THEN ZeroDecimal ELSE Normalize(e)
  BY DEF NormalMul
<1>5. Magnitude(a, s) = m * B /\ Magnitude(b, s) = n * A
  <2>1. Magnitude(a, s) = m * Power[s - a.scale] /\ Magnitude(b, s) = n * Power[s - b.scale]
    BY DEF Magnitude
  <2> HIDE DEF s, m, n
  <2> QED
    BY <1>2, <2>1
<1> HIDE DEF s, d
<1>6. NumberAt(a, s) = Signed(p, m * B) /\ NumberAt(b, s) = Signed(q, n * A)
  BY <1>1, <1>2, <1>5, ValueIs
<1>7. d \in Normal /\ d.scale <= s /\ NumberAt(d, s) = Signed(p # q, m * n)
  <2>1. CASE IsZero(a) \/ IsZero(b)
    <3>1. d = ZeroDecimal
      BY <1>4, <2>1
    <3>2. m = 0 \/ n = 0
      BY <2>1, NormalIs
    <3>3. m * n = 0
      BY <1>1, <3>2
    <3>4. ZeroDecimal \in AllDecimals /\ ZeroDecimal.scale <= s /\ ZeroDecimal \in Normal
      BY <1>2, ZeroIs
    <3>5. NumberAt(ZeroDecimal, s) = Signed(ZeroDecimal.neg, Magnitude(ZeroDecimal, s)) /\ Magnitude(ZeroDecimal, s) = 0
      BY <1>2, <3>4, ValueIs, MagnitudeIs, ZeroIs
    <3> QED
      BY <3>1, <3>3, <3>4, <3>5 DEF Signed
  <2>2. CASE ~(IsZero(a) \/ IsZero(b))
    <3>1. z \in Seq(Digit) /\ Number(z) = m * n
      BY <1>1, MulDigitsIs DEF Trimmed
    <3>2. d = Normalize(e)
      BY <1>4, <2>2
    <3> DEFINE r == p # q
    <3>3. r \in BOOLEAN
      OBVIOUS
    <3> DEFINE f == Decimal(r, z, s)
    <3>6. e = f
      OBVIOUS
    <3> HIDE DEF z, r, e
    <3>4. e \in AllDecimals /\ e.scale = s /\ NumberAt(e, s) = Signed(r, Number(z))
      BY <1>2, <3>1, <3>3, <3>6, MadeIs
    <3>5. d \in Normal /\ d.scale <= e.scale /\ NumberAt(d, s) = NumberAt(e, s)
      BY <1>2, <3>2, <3>4, NormalizeIs
    <3> QED
      BY <3>1, <3>4, <3>5 DEF r
  <2> QED
    BY <2>1, <2>2
<1> HIDE DEF m, n, A, B, p, q
<1>8. NumberAt(d, s) * Power[s] = Signed(p # q, (m * n) * (A * B))
  <2> DEFINE r == p # q
             w == m * n
             v == A * B
  <2>1. r \in BOOLEAN /\ w \in Nat /\ v \in Nat
    BY <1>1, <1>3
  <2> HIDE DEF r, w, v
  <2>2. Signed(r, w) * v = Signed(r, w * v)
    BY <2>1, SignedProduct
  <2> QED
    BY <1>3, <1>7, <2>2 DEF r, w, v
<1>9. NumberAt(a, s) * NumberAt(b, s) = Signed(p # q, (m * B) * (n * A))
  <2> DEFINE w == m * B
             v == n * A
  <2>1. w \in Nat /\ v \in Nat
    BY <1>1, <1>3
  <2> HIDE DEF w, v
  <2>2. Signed(p, w) * Signed(q, v) = Signed(p # q, w * v)
    BY <1>1, <2>1, SignedProduct
  <2> QED
    BY <1>6, <2>2 DEF w, v
<1>10. (m * n) * (A * B) = (m * B) * (n * A)
  BY <1>1, <1>3
<1> QED
  BY <1>2, <1>7, <1>8, <1>9, <1>10 DEF d, s

\* A common factor cancels out of a quotient.
LEMMA DivCancel ==
  ASSUME NEW u \in Nat, NEW n \in Nat \ {0}, NEW k \in Nat \ {0}
  PROVE  (u * k) \div (n * k) = u \div n /\ u * k \in Nat /\ n * k \in Nat \ {0}
<1> DEFINE q == u \div n
           x == u * k
           y == n * k
<1>1. q \in Int /\ n * q <= u /\ u < n * q + n
  OBVIOUS
<1>2. x \in Nat /\ y \in Nat /\ y > 0
  OBVIOUS
<1> HIDE DEF q
<1>3. y * q <= x
  <2>1. (u - n * q) * k >= 0 /\ (u - n * q) * k = u * k - (n * q) * k /\ (n * q) * k = y * q
    BY <1>1
  <2> QED
    BY <1>1, <1>2, <2>1
<1>4. x < y * q + y
  <2> DEFINE w == n * q
  <2>1. w \in Int /\ u < w + n
    BY <1>1
  <2>2. w * k = y * q
    BY <1>1
  <2> HIDE DEF w
  <2>3. (w + n - u) * k >= 1 /\ (w + n - u) * k = w * k + n * k - u * k
    BY <2>1
  <2>4. w * k \in Int
    BY <2>1
  <2> QED
    BY <1>2, <2>2, <2>3, <2>4
<1> HIDE DEF x, y
<1>5. x \div y = q
  BY <1>1, <1>2, <1>3, <1>4, DivIs
<1> QED
  BY <1>2, <1>5 DEF q, x, y

\* The quotient of signed numbers, truncated toward zero.
LEMMA QuoSigned ==
  ASSUME NEW p \in BOOLEAN, NEW q \in BOOLEAN, NEW x \in Nat, NEW y \in Nat \ {0}
  PROVE  Quo(Signed(p, x), Signed(q, y)) = Signed(p # q, x \div y) /\ x \div y \in Nat
<1> DEFINE X == Signed(p, x)
           Y == Signed(q, y)
           w == x \div y
<1>1. w \in Nat /\ (x = 0 => w = 0)
  <2>1. w \in Int /\ y * w <= x /\ x < y * w + y
    OBVIOUS
  <2>2. w \in Nat
    OBVIOUS
  <2>3. x = 0 => w = 0
    <3> HIDE DEF w
    <3>1. w >= 1 => y * w >= 1
      BY <2>1
    <3> QED
      BY <2>1, <2>2, <3>1
  <2> QED
    BY <2>2, <2>3
<1>2. Absolute(X) = x /\ (X < 0 <=> p /\ x # 0) /\ X \in Int
  <2>1. CASE p = TRUE
    <3>1. X = -x
      BY <2>1 DEF Signed
    <3> HIDE DEF X
    <3> QED
      BY <2>1, <3>1 DEF Absolute
  <2>2. CASE p = FALSE
    <3>1. X = x
      BY <2>2 DEF Signed
    <3> HIDE DEF X
    <3> QED
      BY <2>2, <3>1 DEF Absolute
  <2> QED
    BY <2>1, <2>2
<1>3. Absolute(Y) = y /\ (Y < 0 <=> q) /\ Y \in Int
  <2>1. CASE q = TRUE
    <3>1. Y = -y
      BY <2>1 DEF Signed
    <3> HIDE DEF Y
    <3> QED
      BY <2>1, <3>1 DEF Absolute
  <2>2. CASE q = FALSE
    <3>1. Y = y
      BY <2>2 DEF Signed
    <3> HIDE DEF Y
    <3> QED
      BY <2>2, <3>1 DEF Absolute
  <2> QED
    BY <2>1, <2>2
<1> HIDE DEF X, Y
<1>4. Quo(X, Y) = (IF (X < 0) = (Y < 0) THEN 1 ELSE -1) * w
  BY <1>2, <1>3 DEF Quo
<1> HIDE DEF w
<1>5. 1 * w = w /\ (-1) * w = -w
  BY <1>1
<1>6. CASE x = 0
  <2>1. w = 0 /\ Quo(X, Y) = 0
    BY <1>1, <1>4, <1>5, <1>6
  <2> QED
    BY <2>1 DEF Signed, X, Y, w
<1>7. CASE x # 0 /\ p = q
  <2>1. (X < 0) = (Y < 0)
    BY <1>2, <1>3, <1>7
  <2>2. Quo(X, Y) = w
    BY <1>4, <1>5, <2>1
  <2> QED
    BY <1>1, <1>7, <2>2 DEF Signed, X, Y, w
<1>8. CASE x # 0 /\ p # q
  <2>1. ~((X < 0) = (Y < 0))
    BY <1>2, <1>3, <1>8
  <2>2. Quo(X, Y) = -w
    BY <1>4, <1>5, <2>1
  <2> QED
    BY <1>1, <1>8, <2>2 DEF Signed, X, Y, w
<1> QED
  BY <1>6, <1>7, <1>8

\* Div: refused for a zero, else the quotient truncated at DivisionScale digits past the
\* dividend's own.
LEMMA NormalDivIs ==
  ASSUME NEW a \in Normal, NEW b \in Normal
  PROVE  LET d == NormalDiv(a, b).d
             s == a.scale + b.scale
             t == a.scale + DivisionScale
         IN  /\ NormalDiv(a, b).ok <=> NumberAt(b, s) # 0
             /\ NumberAt(b, s) # 0 =>
                  d \in Normal /\ d.scale <= t /\ t \in Nat
                  /\ NumberAt(d, t) = Quo(NumberAt(a, s) * Power[t], NumberAt(b, s))
<1> DEFINE d == NormalDiv(a, b).d
           s == a.scale + b.scale
           t == a.scale + DivisionScale
           m == Number(a.digits)
           n == Number(b.digits)
           A == Power[a.scale]
           B == Power[b.scale]
           E == Power[DivisionScale]
           k == DivisionScale + b.scale
           u == m * (E * B)
           p == a.neg
           q == b.neg
           w == a.digits \o Zeros(k)
           z == DivDigits(w, b.digits)
           r == p # q
           e == Decimal(r, z, t)
<1>1. /\ a \in AllDecimals /\ b \in AllDecimals /\ a.scale \in Nat /\ b.scale \in Nat
      /\ p \in BOOLEAN /\ q \in BOOLEAN /\ m \in Nat /\ n \in Nat /\ r \in BOOLEAN
      /\ a.digits \in Seq(Digit) /\ b.digits \in Trimmed
  BY NormalIs
<1>2. /\ s \in Nat /\ a.scale <= s /\ b.scale <= s /\ s - a.scale = b.scale /\ s - b.scale = a.scale
      /\ t \in Nat /\ a.scale <= t /\ k \in Nat /\ DivisionScale \in Nat
  BY <1>1, DecimalAssumption
<1>3. /\ Power[t] = A * E /\ Power[k] = E * B
      /\ A \in Int /\ A >= 1 /\ B \in Int /\ B >= 1 /\ E \in Int /\ E >= 1
  BY <1>1, <1>2, PowerSum, PowerAt
<1>4. NormalDiv(a, b) = IF IsZero(b) THEN [ok |-> FALSE, d |-> NoDecimal]
                        ELSE IF IsZero(a) THEN [ok |-> TRUE, d |-> ZeroDecimal]
                        ELSE [ok |-> TRUE, d |-> Normalize(e)]
  BY DEF NormalDiv
<1>5. Magnitude(a, s) = m * B /\ Magnitude(b, s) = n * A
  <2>1. Magnitude(a, s) = m * Power[s - a.scale] /\ Magnitude(b, s) = n * Power[s - b.scale]
    BY DEF Magnitude
  <2> HIDE DEF s, m, n
  <2> QED
    BY <1>2, <2>1
<1>6. w \in Seq(Digit) /\ Number(w) = u
  <2> DEFINE x == a.digits
             v == Zeros(k)
  <2>1. x \in Seq(Digit) /\ x \in Seq(Int)
    BY <1>1, DigitsAre
  <2> HIDE DEF k, x
  <2>2. v \in Seq(Int) /\ v \in Seq(Digit) /\ Len(v) = k /\ Number(v) = 0
    BY <1>2, ZerosAre
  <2> HIDE DEF v
  <2>3. x \o v \in Seq(Digit)
    BY <2>1, <2>2, ConcatProperties
  <2>4. Number(x \o v) = Number(x) * Power[k] + 0
    BY <2>1, <2>2, Joined
  <2>5. Number(x) = m /\ m * (E * B) \in Int
    BY <1>1, <1>3 DEF x
  <2> QED
    BY <1>3, <2>3, <2>4, <2>5 DEF v, x
<1> HIDE DEF s, d, w, k, t, m, n, A, B, E, u, p, q, r
<1>7. NumberAt(a, s) = Signed(p, m * B) /\ NumberAt(b, s) = Signed(q, n * A) /\ NumberAt(b, s) \in Int
  BY <1>1, <1>2, <1>5, ValueIs DEF p, q
<1>8. NumberAt(b, s) # 0 <=> n # 0
  <2>1. Magnitude(b, s) \in Nat /\ (Magnitude(b, s) = 0 <=> n = 0)
    BY <1>1, <1>2, MagnitudeIs DEF n
  <2> DEFINE y == Magnitude(b, s)
  <2>2. NumberAt(b, s) = Signed(q, y)
    BY <1>5, <1>7
  <2> HIDE DEF y
  <2>3. y \in Nat => (Signed(q, y) # 0 <=> y # 0)
    <3>1. CASE q = TRUE
      BY <3>1 DEF Signed
    <3>2. CASE q = FALSE
      BY <3>2 DEF Signed
    <3> QED
      BY <1>1, <3>1, <3>2
  <2> QED
    BY <2>1, <2>2, <2>3 DEF y
<1>9. IsZero(b) <=> n = 0
  BY NormalIs DEF n
<1>10. NormalDiv(a, b).ok <=> n # 0
  BY <1>4, <1>9
<1>11. ASSUME n # 0 PROVE d \in Normal /\ d.scale <= t /\ NumberAt(d, t) = Signed(r, u \div n)
  <2>1. CASE IsZero(a)
    <3>1. d = ZeroDecimal
      BY <1>4, <1>9, <1>11, <2>1 DEF d
    <3>2. m = 0
      BY <2>1, NormalIs DEF m
    <3>3. u = 0
      BY <1>3, <3>2 DEF u
    <3>4. ZeroDecimal \in AllDecimals /\ ZeroDecimal.scale <= t /\ ZeroDecimal \in Normal
      BY <1>2, ZeroIs
    <3>5. NumberAt(ZeroDecimal, t) = Signed(ZeroDecimal.neg, Magnitude(ZeroDecimal, t)) /\ Magnitude(ZeroDecimal, t) = 0
      BY <1>2, <3>4, ValueIs, MagnitudeIs, ZeroIs
    <3>6. 0 \div n = 0
      <4>1. 0 \in Int /\ n \in Nat \ {0} /\ n * 0 <= 0 /\ 0 < n * 0 + n
        BY <1>1, <1>11
      <4> DEFINE o == 0
      <4>2. o \in Int /\ n * o <= o /\ o < n * o + n
        BY <4>1
      <4> HIDE DEF o
      <4>3. o \div n = o
        BY <4>1, <4>2, DivIs
      <4> QED
        BY <4>3 DEF o
    <3> QED
      BY <3>1, <3>3, <3>4, <3>5, <3>6 DEF Signed
  <2>2. CASE ~IsZero(a)
    <3>1. d = Normalize(e)
      BY <1>4, <1>9, <1>11, <2>2 DEF d
    <3>2. z \in Seq(Digit) /\ Number(z) = u \div n
      <4>1. Number(b.digits) > 0
        BY <1>1, <1>11 DEF n
      <4> QED
        BY <1>1, <1>6, <4>1, DivDigitsIs DEF Trimmed, n
    <3> HIDE DEF z
    <3>3. e \in AllDecimals /\ e.scale = t /\ NumberAt(e, t) = Signed(r, Number(z))
      BY <1>1, <1>2, <3>2, MadeIs
    <3> HIDE DEF e
    <3>4. d \in Normal /\ d.scale <= e.scale /\ NumberAt(d, t) = NumberAt(e, t)
      BY <1>2, <3>1, <3>3, NormalizeIs
    <3> QED
      BY <3>2, <3>3, <3>4
  <2> QED
    BY <2>1, <2>2
<1>12. ASSUME n # 0 PROVE Quo(NumberAt(a, s) * Power[t], NumberAt(b, s)) = Signed(r, u \div n)
  <2> DEFINE x == (m * B) * (A * E)
             y == n * A
             f == m * B
             g == A * E
  <2>1. f \in Nat /\ g \in Nat /\ u \in Nat /\ A \in Nat \ {0} /\ n \in Nat \ {0} /\ x = u * A
    <3>1. f \in Nat /\ g \in Nat /\ u \in Nat
      BY <1>1, <1>3 DEF u
    <3>2. (m * B) * (A * E) = (m * (E * B)) * A
      BY <1>1, <1>3
    <3> QED
      BY <1>1, <1>3, <1>12, <3>1, <3>2 DEF u
  <2>2. x \div y = u \div n /\ x \in Nat /\ y \in Nat \ {0}
    BY <2>1, DivCancel
  <2>3. NumberAt(a, s) * Power[t] = Signed(p, x)
    <3> HIDE DEF f, g
    <3>1. Signed(p, f) * g = Signed(p, f * g)
      BY <1>1, <2>1, SignedProduct
    <3> QED
      BY <1>3, <1>7, <3>1 DEF f, g
  <2> HIDE DEF x, y
  <2>5. p \in BOOLEAN /\ q \in BOOLEAN
    BY <1>1
  <2>4. Quo(Signed(p, x), Signed(q, y)) = Signed(p # q, x \div y)
    <3> HIDE DEF p, q
    <3> QED
      BY <2>2, <2>5, QuoSigned
  <2> QED
    BY <1>7, <2>2, <2>3, <2>4 DEF r, y
<1> QED
  BY <1>2, <1>8, <1>10, <1>11, <1>12 DEF d, s, t

-----------------------------------------------------------------------------
(* Texts (parseDecimal, String).                                           *)

\* A sign before the rest of a text.
Sign(neg) == IF neg THEN <<Minus>> ELSE <<>>

\* Where the first point of a text is, or one past its end.
PointOf(s) == Min({i \in DOMAIN s : s[i] = Dot} \cup {Len(s) + 1})

\* A text that is accepted gives a normal decimal within the cap.
LEMMA AcceptedDigits ==
  ASSUME NEW p \in BOOLEAN, NEW x \in Seq(Int), NEW k \in Nat, DigitsAndScale(p, x, k).ok
  PROVE  DigitsAndScale(p, x, k).d \in Normal /\ Len(DigitsAndScale(p, x, k).d.digits) <= MaxDigits
<1> DEFINE e == Decimal(p, x, k)
           f == Normalize(e)
<1>1. DigitsAndScale(p, x, k) = WithinCap(x, f)
  BY DEF DigitsAndScale
<1> HIDE DEF f
<1>2. (\A i \in DOMAIN x : x[i] \in Digit) /\ ~(Len(f.digits) > MaxDigits) /\ DigitsAndScale(p, x, k).d = f
  BY <1>1 DEF WithinCap
<1>3. x \in Seq(Digit)
  <2>1. Len(x) \in Nat /\ x = [i \in 1 .. Len(x) |-> x[i]] /\ DOMAIN x = 1 .. Len(x)
    OBVIOUS
  <2> DEFINE n == Len(x)
  <2>2. \A i \in 1 .. n : x[i] \in Digit
    BY <1>2, <2>1
  <2>3. n \in Nat /\ x = [i \in 1 .. n |-> x[i]]
    BY <2>1
  <2> HIDE DEF n
  <2> QED
    BY <2>2, <2>3
<1>4. e \in AllDecimals
  BY <1>3, MadeIs
<1> HIDE DEF e
<1>5. f \in Normal
  BY <1>4, NormalizeIs DEF f
<1>6. Len(f.digits) \in Nat
  BY <1>5, NormalIs
<1>7. MaxDigits \in Nat
  BY DecimalAssumption
<1> QED
  BY <1>2, <1>5, <1>6, <1>7

\* Where the point is.
LEMMA PointIs ==
  ASSUME NEW s \in Seq(Int)
  PROVE  /\ Len(s) \in Nat /\ PointOf(s) \in 1 .. Len(s) + 1
         /\ PointOf(s) <= Len(s) => s[PointOf(s)] = Dot
         /\ \A i \in 1 .. Len(s) : s[i] = Dot => PointOf(s) <= i
<1> DEFINE n == Len(s)
           S == {i \in DOMAIN s : s[i] = Dot} \cup {n + 1}
<1>1. n \in Nat /\ DOMAIN s = 1 .. n
  OBVIOUS
<1>2. S \subseteq Nat /\ S # {} /\ S \subseteq 1 .. n + 1 /\ \A i \in S : i <= n => s[i] = Dot
  <2> HIDE DEF n
  <2> QED
    BY <1>1
<1>3. Min(S) \in S /\ \A y \in S : Min(S) <= y
  <2> HIDE DEF S
  <2> QED
    BY <1>2, LeastOf
<1>4. \A i \in 1 .. n : s[i] = Dot => i \in S
  BY <1>1
<1>5. PointOf(s) = Min(S)
  BY DEF PointOf
<1> HIDE DEF S
<1> QED
  BY <1>1, <1>2, <1>3, <1>4, <1>5 DEF n

\* What is left of a text without its point.
LEMMA WithoutPoint ==
  ASSUME NEW s \in Seq(Int), NEW m \in 1 .. Len(s) + 1
  PROVE  /\ SubSeq(s, 1, m - 1) \o SubSeq(s, m + 1, Len(s)) \in Seq(Int)
         /\ (IF m > Len(s) THEN 0 ELSE Len(s) - m) \in Nat
<1> DEFINE k == m - 1
           x == SubSeq(s, 1, m - 1)
           y == SubSeq(s, m + 1, Len(s))
<1>1. Len(s) \in Nat
  OBVIOUS
<1>2. x \in Seq(Int)
  <2>1. k \in 0 .. Len(s)
    BY <1>1
  <2>2. SubSeq(s, 1, k) \in Seq(Int)
    <3> HIDE DEF k
    <3> QED
      BY <2>1, PartsOfSeq
  <2> QED
    BY <2>2
<1>3. y \in Seq(Int)
  <2>1. CASE m <= Len(s)
    <3>1. m \in 0 .. Len(s)
      BY <1>1, <2>1
    <3> QED
      BY <3>1, PartsOfSeq
  <2>2. CASE m > Len(s)
    <3>1. y = <<>>
      BY <1>1, <2>2, SubSeqEmpty
    <3> QED
      BY <3>1
  <2> QED
    BY <1>1, <2>1, <2>2
<1> HIDE DEF x, y
<1>4. x \o y \in Seq(Int)
  BY <1>2, <1>3, ConcatProperties
<1> QED
  BY <1>1, <1>4 DEF x, y

\* parseDecimal answers a normal decimal within the cap.
LEMMA ParseDecimalIs ==
  ASSUME NEW text \in Seq(Int), ParseDecimal(text).ok
  PROVE  ParseDecimal(text).d \in Normal /\ Len(ParseDecimal(text).d.digits) <= MaxDigits
<1> DEFINE signed == text # <<>> /\ Head(text) \in {Minus, Plus}
           s == IF signed THEN Tail(text) ELSE text
           p == signed /\ Head(text) = Minus
           m == PointOf(s)
           x == SubSeq(s, 1, m - 1) \o SubSeq(s, m + 1, Len(s))
           k == IF m > Len(s) THEN 0 ELSE Len(s) - m
<1>1. ParseDecimal(text) = DigitsAndScale(p, x, k)
  BY DEF ParseDecimal, AtDot, PointOf
<1>2. s \in Seq(Int)
  <2>1. CASE signed
    BY <2>1, HeadTailProperties
  <2>2. CASE ~signed
    BY <2>2
  <2> QED
    BY <2>1, <2>2
<1>3. p \in BOOLEAN
  OBVIOUS
<1> HIDE DEF s, p
<1>4. m \in 1 .. Len(s) + 1
  BY <1>2, PointIs
<1> HIDE DEF m
<1>5. x \in Seq(Int) /\ k \in Nat
  BY <1>2, <1>4, WithoutPoint
<1> HIDE DEF x, k
<1> QED
  BY <1>1, <1>3, <1>5, AcceptedDigits

\* A text that does not begin with a sign, behind the sign of a number.
LEMMA ReadSigned ==
  ASSUME NEW p \in BOOLEAN, NEW s \in Seq(Int), Len(s) > 0, s[1] # Minus, s[1] # Plus
  PROVE  ParseDecimal(Sign(p) \o s) = AtDot(p, s, PointOf(s))
<1>1. CASE p = TRUE
  <2> DEFINE t == <<Minus>> \o s
  <2>1. t # <<>> /\ Head(t) = Minus /\ Tail(t) = s
    OBVIOUS
  <2>2. Sign(p) \o s = t
    BY <1>1 DEF Sign
  <2> HIDE DEF t
  <2>3. ParseDecimal(t) = AtDot(TRUE, s, PointOf(s))
    BY <2>1 DEF ParseDecimal, PointOf
  <2> QED
    BY <1>1, <2>2, <2>3
<1>2. CASE p = FALSE
  <2>1. Sign(p) \o s = s
    BY <1>2 DEF Sign
  <2>2. s # <<>> /\ Head(s) = s[1]
    OBVIOUS
  <2>3. ParseDecimal(s) = AtDot(FALSE, s, PointOf(s))
    BY <2>2 DEF ParseDecimal, PointOf
  <2> QED
    BY <1>2, <2>1, <2>3
<1> QED
  BY <1>1, <1>2

\* No digit is a sign or a point.
LEMMA DigitIsNoMark ==
  ASSUME NEW c \in Digit
  PROVE  c # Minus /\ c # Plus /\ c # Dot
BY BaseIs DEF Digit, Minus, Plus, Dot

\* A text without a point.
LEMMA ReadWhole ==
  ASSUME NEW p \in BOOLEAN, NEW x \in Seq(Digit)
  PROVE  AtDot(p, x, PointOf(x)) = DigitsAndScale(p, x, 0)
<1> DEFINE n == Len(x)
           m == PointOf(x)
           l == SubSeq(x, 1, m - 1)
           r == SubSeq(x, m + 1, n)
<1>1. n \in Nat /\ x \in Seq(Int) /\ \A i \in 1 .. n : x[i] \in Digit
  BY DigitsAre
<1>2. m = n + 1
  <2>1. m \in 1 .. n + 1 /\ (m <= n => x[m] = Dot)
    BY <1>1, PointIs
  <2> HIDE DEF m, n
  <2> QED
    BY <1>1, <2>1, DigitIsNoMark
<1>3. AtDot(p, x, m) = DigitsAndScale(p, l \o r, IF m > n THEN 0 ELSE n - m)
  BY DEF AtDot
<1> HIDE DEF m
<1>4. l = x
  <2>1. l = SubSeq(x, 1, n)
    BY <1>1, <1>2
  <2> QED
    BY <2>1, SubSeqFull
<1>5. r = <<>>
  BY <1>1, <1>2, SubSeqEmpty
<1> HIDE DEF l, r
<1>6. l \o r = x
  BY <1>4, <1>5, ConcatEmptySeq
<1> QED
  BY <1>1, <1>2, <1>3, <1>6 DEF m

\* A text with a point between digits.
LEMMA ReadPoint ==
  ASSUME NEW p \in BOOLEAN, NEW x \in Seq(Digit), NEW y \in Seq(Digit)
  PROVE  LET s == (x \o <<Dot>>) \o y IN AtDot(p, s, PointOf(s)) = DigitsAndScale(p, x \o y, Len(y))
<1> DEFINE h == x \o <<Dot>>
           s == h \o y
           j == Len(x)
           n == Len(s)
           m == PointOf(s)
           l == SubSeq(s, 1, m - 1)
           r == SubSeq(s, m + 1, n)
<1>1. /\ x \in Seq(Int) /\ y \in Seq(Int) /\ j \in Nat /\ Len(y) \in Nat
      /\ \A i \in 1 .. j : x[i] \in Digit
  BY DigitsAre
<1>2. h \in Seq(Int) /\ Len(h) = j + 1 /\ h[j + 1] = Dot /\ \A i \in 1 .. j : h[i] = x[i]
  <2>1. <<Dot>> \in Seq(Int) /\ Len(<<Dot>>) = 1 /\ <<Dot>>[1] = Dot
    BY DEF Dot
  <2> DEFINE z == <<Dot>>
  <2> HIDE DEF z
  <2>2. z \in Seq(Int) /\ Len(z) = 1 /\ z[1] = Dot
    BY <2>1 DEF z
  <2>3. x \o z \in Seq(Int) /\ Len(x \o z) = Len(x) + Len(z)
    BY <1>1, <2>2, ConcatProperties
  <2>4. (\A i \in 1 .. Len(x) : (x \o z)[i] = x[i]) /\ \A i \in 1 .. Len(z) : (x \o z)[Len(x) + i] = z[i]
    <3>1. x \in Seq(Int) /\ z \in Seq(Int)
      BY <1>1, <2>2
    <3> QED
      BY <3>1, JoinedAt
  <2>5. 1 \in 1 .. Len(z)
    BY <2>2
  <2>6. (x \o z)[j + 1] = Dot
    BY <2>2, <2>4, <2>5
  <2>7. Len(x \o z) = j + 1
    BY <2>2, <2>3
  <2>8. h = x \o z
    BY DEF z
  <2> HIDE DEF h
  <2> QED
    BY <2>3, <2>4, <2>6, <2>7, <2>8
<1> HIDE DEF h
<1>3. /\ s \in Seq(Int) /\ n = j + 1 + Len(y) /\ n \in Nat
      /\ (\A i \in 1 .. Len(h) : s[i] = h[i]) /\ \A i \in 1 .. Len(y) : s[Len(h) + i] = y[i]
  <2>1. h \in Seq(Int) /\ y \in Seq(Int)
    BY <1>1, <1>2
  <2>2. s \in Seq(Int) /\ n = Len(h) + Len(y)
    BY <2>1, ConcatProperties
  <2>3. (\A i \in 1 .. Len(h) : s[i] = h[i]) /\ \A i \in 1 .. Len(y) : s[Len(h) + i] = y[i]
    BY <2>1, JoinedAt
  <2>4. n = j + 1 + Len(y) /\ n \in Nat
    BY <1>1, <1>2, <2>2
  <2> QED
    BY <2>2, <2>3, <2>4
<1>4. s[j + 1] = Dot /\ \A i \in 1 .. j : s[i] = x[i]
  <2>1. j + 1 \in 1 .. j + 1 /\ \A i \in 1 .. j : i \in 1 .. j + 1
    BY <1>1
  <2> HIDE DEF s, j
  <2> QED
    BY <1>2, <1>3, <2>1
<1> HIDE DEF s
<1>5. m = j + 1
  <2>1. m \in 1 .. n + 1 /\ (m <= n => s[m] = Dot) /\ \A i \in 1 .. n : s[i] = Dot => m <= i
    BY <1>3, PointIs
  <2>2. j + 1 \in 1 .. n
    BY <1>1, <1>3
  <2>3. m <= j + 1
    BY <1>4, <2>1, <2>2
  <2>4. m \notin 1 .. j
    <3> SUFFICES ASSUME m \in 1 .. j PROVE FALSE
      OBVIOUS
    <3>1. m <= n
      BY <1>1, <2>2
    <3> QED
      BY <1>1, <1>4, <2>1, <3>1, DigitIsNoMark
  <2> HIDE DEF m, j, n
  <2> QED
    BY <1>1, <2>1, <2>3, <2>4
<1>6. AtDot(p, s, m) = DigitsAndScale(p, l \o r, IF m > n THEN 0 ELSE n - m)
  BY DEF AtDot
<1> HIDE DEF m
<1>7. l = x
  <2>1. j \in 0 .. n /\ m - 1 = j
    BY <1>1, <1>3, <1>5
  <2>2. SubSeq(s, 1, j) \in Seq(Int) /\ Len(SubSeq(s, 1, j)) = j /\ \A i \in 1 .. j : SubSeq(s, 1, j)[i] = s[i]
    <3> HIDE DEF j
    <3> QED
      BY <1>3, <2>1, PartsOfSeq DEF n
  <2>3. l = SubSeq(s, 1, j)
    BY <2>1
  <2> HIDE DEF l
  <2> QED
    BY <1>1, <1>4, <2>2, <2>3
<1>8. r = y
  <2> DEFINE i == j + 1
  <2>1. i \in 0 .. n /\ m = i /\ n - i = Len(y) /\ Len(h) = i
    BY <1>1, <1>2, <1>3, <1>5
  <2> HIDE DEF i
  <2>2. /\ SubSeq(s, i + 1, n) \in Seq(Int) /\ Len(SubSeq(s, i + 1, n)) = n - i
        /\ \A u \in 1 .. n - i : SubSeq(s, i + 1, n)[u] = s[i + u]
    BY <1>3, <2>1, PartsOfSeq DEF n
  <2>3. r = SubSeq(s, i + 1, n)
    BY <2>1
  <2> HIDE DEF r, n
  <2>4. Len(r) = Len(y) /\ \A u \in 1 .. Len(y) : r[u] = y[u]
    BY <1>3, <2>1, <2>2, <2>3
  <2>5. r \in Seq(Int) /\ y \in Seq(Int)
    BY <1>1, <2>2, <2>3
  <2> QED
    BY <2>4, <2>5, SeqEqual
<1> HIDE DEF l, r
<1>9. (IF m > n THEN 0 ELSE n - m) = Len(y)
  <2> HIDE DEF n, j
  <2> QED
    BY <1>1, <1>3, <1>5
<1> QED
  BY <1>6, <1>7, <1>8, <1>9 DEF m, s, h, n

\* Digits that stand for the number of a normal decimal read as that decimal.
LEMMA DigitsBack ==
  ASSUME NEW d \in Normal, Len(d.digits) <= MaxDigits, NEW x \in Seq(Digit), Len(x) > 0, Number(x) = Number(d.digits)
  PROVE  DigitsAndScale(d.neg, x, d.scale) = [ok |-> TRUE, d |-> d]
<1> DEFINE t == d.scale
           p == d.neg
           e == Decimal(p, x, t)
           f == Normalize(e)
<1>1. d \in AllDecimals /\ t \in Nat /\ p \in BOOLEAN /\ d.digits \in Seq(Digit) /\ Len(d.digits) \in Nat
  BY NormalIs
<1>2. e \in AllDecimals /\ e.scale = t /\ e.neg = p /\ Magnitude(e, t) = Number(x) /\ NumberAt(e, t) = Signed(p, Number(x))
  <2> HIDE DEF t, p
  <2> QED
    BY <1>1, MadeIs
<1>3. Magnitude(d, t) = Number(d.digits) /\ NumberAt(d, t) = Signed(p, Magnitude(d, t))
  <2>1. d = Decimal(p, d.digits, t)
    BY <1>1 DEF AllDecimals, Decimal
  <2>2. Magnitude(Decimal(p, d.digits, t), t) = Number(d.digits)
    <3> DEFINE y == d.digits
    <3> HIDE DEF p, t, y
    <3>1. Magnitude(Decimal(p, y, t), t) = Number(y)
      BY <1>1, MadeIs DEF y
    <3> QED
      BY <3>1 DEF y
  <2> QED
    BY <1>1, <2>1, <2>2, ValueIs
<1> HIDE DEF e
<1>4. f \in Normal /\ f.scale <= t /\ NumberAt(f, t) = NumberAt(e, t)
  BY <1>1, <1>2, NormalizeIs
<1> HIDE DEF f
<1>5. f = d
  <2>1. NumberAt(f, t) = NumberAt(d, t)
    BY <1>2, <1>3, <1>4
  <2> QED
    BY <1>1, <1>4, <2>1, SameValue
<1>6. x # <<>> /\ \A i \in DOMAIN x : x[i] \in Digit
  OBVIOUS
<1>7. ~(Len(d.digits) > MaxDigits)
  BY <1>1, DecimalAssumption
<1>8. DigitsAndScale(p, x, t) = WithinCap(x, f)
  BY DEF DigitsAndScale, f, e
<1> QED
  BY <1>5, <1>6, <1>7, <1>8 DEF WithinCap

\* What String writes of a normal decimal within the cap is read back as that decimal.
LEMMA TextReadsBack ==
  ASSUME NEW d \in Normal, Len(d.digits) <= MaxDigits
  PROVE  ParseDecimal(NormalText(d)) = [ok |-> TRUE, d |-> d]
<1> DEFINE x == d.digits
           n == Len(x)
           k == d.scale
           p == d.neg
<1>1. /\ d \in AllDecimals /\ x \in Trimmed /\ x \in Seq(Digit) /\ x \in Seq(Int) /\ n \in Nat /\ n > 0
      /\ k \in Nat /\ p \in BOOLEAN /\ \A i \in 1 .. n : x[i] \in Digit
  BY NormalIs, DigitsAre DEF Trimmed
<1>2. 0 \in Digit /\ <<0>> \in Seq(Digit) /\ <<0>> \in Seq(Int) /\ Len(<<0>>) = 1 /\ <<0>>[1] = 0
  BY BaseIs DEF Digit
<1>3. CASE IsZero(d)
  <2>1. NormalText(d) = <<0>> /\ d = ZeroDecimal
    BY <1>3, NormalIs DEF NormalText
  <2> DEFINE z == <<0>>
  <2>2. Sign(FALSE) \o z = z
    BY DEF Sign
  <2>3. z \in Seq(Digit) /\ z \in Seq(Int) /\ Len(z) > 0 /\ z[1] \in Digit /\ z = x
    BY <1>2, <2>1, ZeroIs
  <2> HIDE DEF z
  <2>4. ParseDecimal(Sign(FALSE) \o z) = AtDot(FALSE, z, PointOf(z))
    BY <2>3, ReadSigned, DigitIsNoMark
  <2>5. AtDot(FALSE, z, PointOf(z)) = DigitsAndScale(FALSE, z, 0)
    BY <2>3, ReadWhole
  <2>6. DigitsAndScale(p, z, k) = [ok |-> TRUE, d |-> d]
    BY <2>3, DigitsBack
  <2>7. p = FALSE /\ k = 0
    BY <2>1, ZeroIs
  <2> QED
    BY <2>1, <2>2, <2>4, <2>5, <2>6, <2>7 DEF z
<1>4. CASE ~IsZero(d) /\ k = 0
  <2>1. NormalText(d) = Sign(p) \o x
    BY <1>4 DEF NormalText, Sign
  <2>2. x[1] \in Digit
    BY <1>1
  <2> HIDE DEF p, x
  <2>3. ParseDecimal(Sign(p) \o x) = AtDot(p, x, PointOf(x))
    BY <1>1, <2>2, ReadSigned, DigitIsNoMark DEF n
  <2>4. AtDot(p, x, PointOf(x)) = DigitsAndScale(p, x, 0)
    BY <1>1, ReadWhole
  <2>5. DigitsAndScale(p, x, k) = [ok |-> TRUE, d |-> d]
    BY <1>1, DigitsBack DEF p, x, n
  <2> QED
    BY <1>4, <2>1, <2>3, <2>4, <2>5
\* The two forms with a point.
<1>5. ASSUME NEW l \in Seq(Digit), NEW r \in Seq(Digit), Len(l) > 0, Len(r) = k, Number(l \o r) = Number(x),
             NormalText(d) = Sign(p) \o ((l \o <<Dot>>) \o r)
      PROVE  ParseDecimal(NormalText(d)) = [ok |-> TRUE, d |-> d]
  <2> DEFINE z == <<Dot>>
             h == l \o z
             s == h \o r
             y == l \o r
  <2>0. z \in Seq(Int) /\ Len(z) = 1
    BY DEF Dot
  <2>1. l \in Seq(Int) /\ r \in Seq(Int) /\ Len(l) \in Nat /\ Len(r) \in Nat /\ l[1] \in Digit
    BY <1>5, DigitsAre
  <2>2. y \in Seq(Digit) /\ Len(y) = Len(l) + Len(r)
    <3>1. l \in Seq(Digit) /\ r \in Seq(Digit)
      OBVIOUS
    <3> QED
      BY <3>1, ConcatProperties
  <2>3. Len(y) > 0
    BY <1>5, <2>1, <2>2
  <2> HIDE DEF z
  <2>4. h \in Seq(Int) /\ Len(h) = Len(l) + Len(z) /\ h[1] = l[1]
    <3>1. 1 \in 1 .. Len(l)
      BY <1>5, <2>1
    <3>2. l \in Seq(Int) /\ z \in Seq(Int)
      BY <2>0, <2>1
    <3>3. \A i \in 1 .. Len(l) : (l \o z)[i] = l[i]
      BY <3>2, JoinedAt
    <3>4. h \in Seq(Int) /\ Len(h) = Len(l) + Len(z)
      BY <3>2, Joined
    <3> QED
      BY <3>1, <3>3, <3>4
  <2> HIDE DEF h
  <2>5. s \in Seq(Int) /\ Len(s) = Len(h) + Len(r) /\ s[1] = h[1]
    <3>1. 1 \in 1 .. Len(h)
      BY <1>5, <2>0, <2>1, <2>4
    <3>2. h \in Seq(Int) /\ r \in Seq(Int)
      BY <2>1, <2>4
    <3>3. \A i \in 1 .. Len(h) : (h \o r)[i] = h[i]
      BY <3>2, JoinedAt
    <3>4. s \in Seq(Int) /\ Len(s) = Len(h) + Len(r)
      BY <3>2, Joined
    <3> QED
      BY <3>1, <3>3, <3>4
  <2>6. Len(s) > 0 /\ s[1] # Minus /\ s[1] # Plus
    BY <1>5, <2>0, <2>1, <2>4, <2>5, DigitIsNoMark
  <2>7. AtDot(p, s, PointOf(s)) = DigitsAndScale(p, y, Len(r))
    BY <1>1, ReadPoint DEF h, z
  <2>8. NormalText(d) = Sign(p) \o s
    BY <1>5 DEF h, z
  <2> HIDE DEF s, y, p, k, x
  <2>9. ParseDecimal(Sign(p) \o s) = AtDot(p, s, PointOf(s))
    BY <1>1, <2>5, <2>6, ReadSigned
  <2>10. DigitsAndScale(p, y, k) = [ok |-> TRUE, d |-> d]
    <3>1. Number(y) = Number(d.digits)
      BY <1>5 DEF y, x
    <3> QED
      BY <2>2, <2>3, <3>1, DigitsBack DEF p, k
  <2> QED
    BY <1>5, <2>7, <2>8, <2>9, <2>10
<1>6. CASE ~IsZero(d) /\ k # 0 /\ n <= k
  <2> DEFINE u == k - n
             l == <<0>>
             z == Zeros(u)
             r == z \o x
  <2>1. NormalText(d) = Sign(p) \o ((l \o <<Dot>>) \o r)
    BY <1>6 DEF NormalText, Sign
  <2>2. u \in Nat
    BY <1>1, <1>6
  <2>3. z \in Seq(Int) /\ z \in Seq(Digit) /\ Len(z) = u /\ Number(z) = 0
    <3> HIDE DEF u
    <3> QED
      BY <2>2, ZerosAre
  <2> HIDE DEF z, x
  <2>4. r \in Seq(Digit) /\ Len(r) = Len(z) + Len(x)
    BY <1>1, <2>3, ConcatProperties
  <2>5. Len(r) = k
    <3> HIDE DEF k, r
    <3> QED
      BY <1>1, <2>2, <2>3, <2>4 DEF n
  <2>6. Number(r) = Number(x) /\ r \in Seq(Int)
    <3>1. Number(r) = Number(z) * Power[Len(x)] + Number(x) /\ r \in Seq(Int)
      BY <1>1, <2>3, Joined
    <3>2. Power[Len(x)] \in Int /\ Number(x) \in Int
      BY <1>1, SizeOf
    <3>3. 0 * Power[Len(x)] + Number(x) = Number(x)
      BY <3>2
    <3> QED
      BY <2>3, <3>1, <3>3
  <2> HIDE DEF r
  <2>7. Number(l \o r) = Number(x)
    <3>1. l \in Seq(Int) /\ Number(l) = 0
      BY OneDigit
    <3> HIDE DEF l
    <3>2. Number(l \o r) = Number(l) * Power[Len(r)] + Number(r)
      BY <2>6, <3>1, Joined
    <3>3. Power[Len(r)] \in Int /\ Number(r) \in Int
      BY <2>6, SizeOf
    <3>4. 0 * Power[Len(r)] + Number(r) = Number(r)
      BY <3>3
    <3> QED
      BY <2>6, <3>1, <3>2, <3>4
  <2>8. l \in Seq(Digit) /\ Len(l) > 0
    BY <1>2
  <2> HIDE DEF l, k, p
  <2> QED
    BY <1>5, <2>1, <2>4, <2>5, <2>7, <2>8
<1>7. CASE ~IsZero(d) /\ k # 0 /\ ~(n <= k)
  <2> DEFINE u == n - k
             l == SubSeq(x, 1, u)
             r == SubSeq(x, u + 1, n)
  <2>1. NormalText(d) = Sign(p) \o ((l \o <<Dot>>) \o r)
    BY <1>7 DEF NormalText, Sign
  <2>2. u \in 0 .. n /\ u > 0 /\ n - u = k
    BY <1>1, <1>7
  <2>3. l \in Seq(Digit) /\ Len(l) = u /\ r \in Seq(Digit) /\ Len(r) = n - u /\ x = l \o r
    <3>1. x \in Seq(Digit) /\ u \in 0 .. Len(x)
      BY <1>1, <2>2
    <3>2. l = SubSeq(x, 1, u) /\ r = SubSeq(x, u + 1, Len(x)) /\ n = Len(x)
      OBVIOUS
    <3> HIDE DEF u, x, l, r, n
    <3>3. SubSeq(x, 1, u) \in Seq(Digit) /\ Len(SubSeq(x, 1, u)) = u
      BY <3>1, PartsOfSeq
    <3>4. SubSeq(x, u + 1, Len(x)) \in Seq(Digit) /\ Len(SubSeq(x, u + 1, Len(x))) = Len(x) - u
      BY <3>1, PartsOfSeq
    <3>5. x = SubSeq(x, 1, u) \o SubSeq(x, u + 1, Len(x))
      BY <3>1, PartsOfSeq
    <3> QED
      BY <3>2, <3>3, <3>4, <3>5
  <2> HIDE DEF l, r, k, p, x, n
  <2> QED
    BY <1>5, <2>1, <2>2, <2>3
<1> QED
  BY <1>3, <1>4, <1>6, <1>7

-----------------------------------------------------------------------------
(* The calculations on decimals.                                           *)

\* A normal decimal survives being written and read, and String writes it as it is.
LEMMA NormalTrips ==
  ASSUME NEW d \in Normal
  PROVE  Trips(d) /\ DecimalText(d) = NormalText(d)
<1>1. DecimalText(d) = NormalText(d)
  BY NormalizeAgain DEF DecimalText
<1> QED
  BY <1>1, TextReadsBack DEF Trips

\* Two numbers within the digit cap have one text exactly when they are equal.
LEMMA SameText ==
  ASSUME NEW a \in Normal, NEW b \in Normal, Len(a.digits) <= MaxDigits, Len(b.digits) <= MaxDigits,
         NEW t \in Nat, a.scale <= t, b.scale <= t
  PROVE  (DecimalText(a) = DecimalText(b)) <=> NumberAt(a, t) = NumberAt(b, t)
<1>1. ASSUME DecimalText(a) = DecimalText(b) PROVE a = b
  <2>1. NormalText(a) = NormalText(b)
    BY <1>1, NormalTrips
  <2>2. ParseDecimal(NormalText(a)) = [ok |-> TRUE, d |-> a] /\ ParseDecimal(NormalText(b)) = [ok |-> TRUE, d |-> b]
    BY TextReadsBack
  <2>3. [ok |-> TRUE, d |-> a].d = [ok |-> TRUE, d |-> b].d
    BY <2>1, <2>2
  <2> QED
    BY <2>3
<1>2. ASSUME NumberAt(a, t) = NumberAt(b, t) PROVE a = b
  BY <1>2, SameValue
<1> QED
  BY <1>1, <1>2

\* The calculations of decimal.go on two normal decimals within the cap.
LEMMA DecimalsCalculate ==
  ASSUME NEW a \in Normal, NEW b \in Normal, Len(a.digits) <= MaxDigits, Len(b.digits) <= MaxDigits
  PROVE  Calculated(a, b)
<1> DEFINE s == a.scale + b.scale
           t == a.scale + DivisionScale
           x == NumberAt(a, s)
           y == NumberAt(b, s)
<1>1. a \in AllDecimals /\ b \in AllDecimals /\ a.scale \in Nat /\ b.scale \in Nat
  BY NormalIs
<1>2. s \in Nat /\ a.scale <= s /\ b.scale <= s
  BY <1>1
<1>3. Normalize(a) = a /\ Normalize(b) = b
  BY NormalizeAgain
<1>4. DecimalMul(a, b) = NormalMul(a, b)
  BY <1>3 DEF DecimalMul
<1>5. DecimalDiv(a, b) = NormalDiv(a, b)
  BY <1>3 DEF DecimalDiv
<1>6. DecimalLess(a, b) <=> NormalLess(a, b)
  BY <1>3 DEF DecimalLess
<1>7. NumberAt(NormalMul(a, b), s) * Power[s] = x * y /\ NormalMul(a, b) \in Normal
  BY NormalMulIs
<1>8. /\ NormalDiv(a, b).ok <=> y # 0
      /\ y # 0 => NumberAt(NormalDiv(a, b).d, t) = Quo(x * Power[t], y)
  BY NormalDivIs
<1> HIDE DEF s
<1>9. DecimalAdd(a, b) \in Normal /\ NumberAt(DecimalAdd(a, b), s) = x + y
  BY <1>1, <1>2, DecimalAddIs
<1>10. NumberAt(DecimalSub(a, b), s) = x - y
  BY <1>1, <1>2, DecimalSubIs
<1>11. NormalLess(a, b) <=> x < y
  BY <1>2, NormalLessIs
<1>12. (DecimalText(a) = DecimalText(b)) <=> x = y
  BY <1>2, SameText
<1>13. Trips(a) /\ Trips(DecimalAdd(a, b)) /\ Trips(NormalMul(a, b))
  BY <1>7, <1>9, NormalTrips
<1> HIDE DEF t, x, y
<1>14. /\ NumberAt(DecimalMul(a, b), s) * Power[s] = x * y
       /\ DecimalLess(a, b) <=> x < y
       /\ Trips(DecimalMul(a, b))
  BY <1>4, <1>6, <1>7, <1>11, <1>13
<1>15. /\ DecimalDiv(a, b).ok <=> y # 0
       /\ y # 0 => NumberAt(DecimalDiv(a, b).d, t) = Quo(x * Power[t], y)
  BY <1>5, <1>8
<1> QED
  BY <1>9, <1>10, <1>12, <1>13, <1>14, <1>15, Zenon DEF s, t, x, y, Calculated

\* The calculations on every two texts that are accepted.
LEMMA NumbersAreExact ==
  ASSUME number \in Seq(Int) \X Seq(Int)
  PROVE  DecimalsAreExact
<1> DEFINE p == ParseDecimal(number[1])
           q == ParseDecimal(number[2])
<1>1. number[1] \in Seq(Int) /\ number[2] \in Seq(Int)
  OBVIOUS
<1>2. ASSUME p.ok, q.ok
      PROVE  p.d \in Normal /\ q.d \in Normal /\ Len(p.d.digits) <= MaxDigits /\ Len(q.d.digits) <= MaxDigits
  BY <1>1, <1>2, ParseDecimalIs
<1> HIDE DEF p, q
<1>3. ASSUME p.ok, q.ok PROVE Calculated(p.d, q.d)
  <2> DEFINE a == p.d
             b == q.d
  <2>1. a \in Normal /\ b \in Normal /\ Len(a.digits) <= MaxDigits /\ Len(b.digits) <= MaxDigits
    BY <1>2, <1>3
  <2> HIDE DEF a, b
  <2>2. Calculated(a, b)
    BY <2>1, DecimalsCalculate
  <2> QED
    BY <2>2 DEF a, b
<1> QED
  BY <1>3, Zenon DEF DecimalsAreExact, p, q

-----------------------------------------------------------------------------
(* Machine integers (addInt64, mulInt64, the divisions of evaluateExpr).   *)

\* The width of a machine integer: how many there are.
Width == 2 * IntMax + 2

\* The ends of the machine integers.
LEMMA IntsAre ==
  /\ IntMax \in Int /\ IntMax >= 1 /\ IntMin \in Int /\ IntMin = -IntMax - 1
  /\ Width \in Nat \ {0} /\ Width = 2 * IntMax + 2
  /\ \A n : n \in Int64 <=> n \in Int /\ IntMin <= n /\ n <= IntMax
BY IntAssumption DEF IntMin, Int64, Width

\* A machine word keeps an integer up to a multiple of the width.
LEMMA WrapIs ==
  ASSUME NEW n \in Int
  PROVE  Wrap(n) \in Int64 /\ Wrap(n) \in Int /\ \E k \in Int : n = Wrap(n) + k * Width
<1> DEFINE m == n - IntMin
           q == m \div Width
           r == m % Width
<1>1. m \in Int /\ Width \in Nat \ {0}
  BY IntsAre
<1>2. q \in Int /\ r \in Int /\ 0 <= r /\ r < Width /\ m = Width * q + r
  <2> HIDE DEF m
  <2> QED
    BY <1>1
<1>3. Wrap(n) = r + IntMin
  BY DEF Wrap, Width
<1>4. Width * q = q * Width /\ q * Width \in Int
  <2> HIDE DEF q
  <2> QED
    BY <1>1, <1>2
<1> DEFINE w == q * Width
<1>5. m = w + r /\ w \in Int
  BY <1>2, <1>4
<1> HIDE DEF q, r, w
<1>6. n = Wrap(n) + w
  BY <1>2, <1>3, <1>5, IntsAre
<1>7. Wrap(n) \in Int64 /\ Wrap(n) \in Int
  BY <1>2, <1>3, IntsAre
<1> QED
  BY <1>2, <1>6, <1>7 DEF w

\* Two integers a multiple of the width apart and less than the width apart are one.
LEMMA WidthApart ==
  ASSUME NEW m \in Int, NEW n \in Int, NEW k \in Int, m = n + k * Width, -Width < m - n, m - n < Width
  PROVE  m = n
<1> DEFINE w == k * Width
<1>1. Width \in Int /\ Width >= 1 /\ w \in Int
  BY IntsAre
<1>2. k >= 1 => w >= Width
  BY <1>1
<1>3. k <= -1 => w <= -Width
  BY <1>1
<1>4. k = 0 => w = 0
  BY <1>1
<1>5. m = n + w
  OBVIOUS
<1> HIDE DEF w
<1> QED
  BY <1>1, <1>2, <1>3, <1>4, <1>5

\* A machine word keeps a machine integer as it is.
LEMMA WrapKeeps ==
  ASSUME NEW n \in Int64
  PROVE  Wrap(n) = n
<1>1. n \in Int /\ IntMin <= n /\ n <= IntMax
  BY IntsAre
<1>2. PICK k \in Int : n = Wrap(n) + k * Width
  BY <1>1, WrapIs
<1>3. Wrap(n) \in Int64 /\ Wrap(n) \in Int
  BY <1>1, WrapIs
<1>4. -Width < n - Wrap(n) /\ n - Wrap(n) < Width
  BY <1>1, <1>3, IntsAre
<1> QED
  BY <1>1, <1>2, <1>3, <1>4, WidthApart

\* The word a sum of two machine integers is kept in: one width off at most.
LEMMA WrapNear ==
  ASSUME NEW n \in Int, -(2 * Width) <= n + n, n + n < 2 * Width
  PROVE  \/ Wrap(n) = n /\ n \in Int64
         \/ Wrap(n) = n - Width /\ n > IntMax
         \/ Wrap(n) = n + Width /\ n < IntMin
<1>1. CASE n \in Int64
  BY <1>1, WrapKeeps
<1>2. CASE n > IntMax
  <2> DEFINE m == n - Width
  <2>1. m \in Int64 /\ m \in Int
    BY <1>2, IntsAre
  <2>2. PICK k \in Int : n = Wrap(n) + k * Width
    BY WrapIs
  <2>3. Wrap(n) \in Int64 /\ Wrap(n) \in Int
    BY WrapIs
  <2>4. m = Wrap(n) + (k - 1) * Width /\ k - 1 \in Int
    <3> DEFINE w == k * Width
    <3>1. (k - 1) * Width = w - Width /\ w \in Int
      BY IntsAre
    <3> HIDE DEF w
    <3>2. n = Wrap(n) + w
      BY <2>2 DEF w
    <3> QED
      BY <2>3, <3>1, <3>2, IntsAre
  <2>5. -Width < m - Wrap(n) /\ m - Wrap(n) < Width
    BY <2>1, <2>3, IntsAre
  <2> HIDE DEF m
  <2>6. m = Wrap(n)
    <3> DEFINE j == k - 1
    <3>1. j \in Int /\ m = Wrap(n) + j * Width
      BY <2>4
    <3> HIDE DEF j
    <3> QED
      BY <2>1, <2>3, <2>5, <3>1, WidthApart
  <2> QED
    BY <1>2, <2>6 DEF m
<1>3. CASE n < IntMin
  <2> DEFINE m == n + Width
  <2>1. m \in Int64 /\ m \in Int
    BY <1>3, IntsAre
  <2>2. PICK k \in Int : n = Wrap(n) + k * Width
    BY WrapIs
  <2>3. Wrap(n) \in Int64 /\ Wrap(n) \in Int
    BY WrapIs
  <2>4. m = Wrap(n) + (k + 1) * Width /\ k + 1 \in Int
    <3> DEFINE w == k * Width
    <3>1. (k + 1) * Width = w + Width /\ w \in Int
      BY IntsAre
    <3> HIDE DEF w
    <3>2. n = Wrap(n) + w
      BY <2>2 DEF w
    <3> QED
      BY <2>3, <3>1, <3>2, IntsAre
  <2>5. -Width < m - Wrap(n) /\ m - Wrap(n) < Width
    BY <2>1, <2>3, IntsAre
  <2> HIDE DEF m
  <2>6. m = Wrap(n)
    <3> DEFINE j == k + 1
    <3>1. j \in Int /\ m = Wrap(n) + j * Width
      BY <2>4
    <3> HIDE DEF j
    <3> QED
      BY <2>1, <2>3, <2>5, <3>1, WidthApart
  <2> QED
    BY <1>3, <2>6 DEF m
<1> QED
  BY <1>1, <1>2, <1>3, IntsAre

\* addInt64: the sum, or its overflow seen in its sign.
LEMMA AddInt64Is ==
  ASSUME NEW a \in Int64, NEW b \in Int64
  PROVE  (AddInt64(a, b).ok <=> a + b \in Int64) /\ (AddInt64(a, b).ok => AddInt64(a, b).n = a + b)
<1> DEFINE n == a + b
           w == Wrap(n)
<1>1. /\ a \in Int /\ IntMin <= a /\ a <= IntMax /\ b \in Int /\ IntMin <= b /\ b <= IntMax
  BY IntsAre
<1>2. n \in Int /\ -(2 * Width) <= n + n /\ n + n < 2 * Width
  <2>1. n \in Int /\ n <= IntMax + IntMax /\ IntMin + IntMin <= n
    BY <1>1, IntsAre
  <2>2. Width = 2 * IntMax + 2 /\ IntMin = -IntMax - 1 /\ IntMax \in Int /\ Width \in Int
    BY IntsAre
  <2> HIDE DEF n
  <2> QED
    BY <2>1, <2>2
<1>3. \/ w = n /\ n \in Int64
      \/ w = n - Width /\ n > IntMax
      \/ w = n + Width /\ n < IntMin
  <2> HIDE DEF n
  <2> QED
    BY <1>2, WrapNear
<1>4. AddInt64(a, b).n = w /\ (AddInt64(a, b).ok <=> ~((b > 0 /\ w < a) \/ (b < 0 /\ w > a)))
  BY DEF AddInt64
<1> HIDE DEF w
<1>5. AddInt64(a, b).ok <=> n \in Int64
  BY <1>1, <1>3, <1>4, IntsAre
<1>6. n \in Int64 => w = n
  BY <1>1, <1>3, IntsAre
<1> QED
  BY <1>4, <1>5, <1>6

\* subInt64.
LEMMA SubInt64Is ==
  ASSUME NEW a \in Int64, NEW b \in Int64
  PROVE  (SubInt64(a, b).ok <=> a - b \in Int64) /\ (SubInt64(a, b).ok => SubInt64(a, b).n = a - b)
<1> DEFINE n == a - b
           w == Wrap(n)
<1>1. /\ a \in Int /\ IntMin <= a /\ a <= IntMax /\ b \in Int /\ IntMin <= b /\ b <= IntMax
  BY IntsAre
<1>2. n \in Int /\ -(2 * Width) <= n + n /\ n + n < 2 * Width
  <2>1. n \in Int /\ n <= IntMax - IntMin /\ IntMin - IntMax <= n
    BY <1>1, IntsAre
  <2> HIDE DEF n
  <2> QED
    BY <2>1, IntsAre
<1>3. \/ w = n /\ n \in Int64
      \/ w = n - Width /\ n > IntMax
      \/ w = n + Width /\ n < IntMin
  <2> HIDE DEF n
  <2> QED
    BY <1>2, WrapNear
<1>4. SubInt64(a, b).n = w /\ (SubInt64(a, b).ok <=> ~((b > 0 /\ w > a) \/ (b < 0 /\ w < a)))
  BY DEF SubInt64
<1> HIDE DEF w
<1>5. SubInt64(a, b).ok <=> n \in Int64
  BY <1>1, <1>3, <1>4, IntsAre
<1>6. n \in Int64 => w = n
  BY <1>1, <1>3, IntsAre
<1> QED
  BY <1>4, <1>5, <1>6

\* Go's division: the quotient and what it leaves.
LEMMA QuoIs ==
  ASSUME NEW a \in Int, NEW b \in Int, b # 0
  PROVE  LET q == Quo(a, b)
             v == b * Quo(a, b)
         IN  /\ q \in Int /\ v \in Int
             /\ a >= 0 => 0 <= v /\ v <= a /\ a < v + Absolute(b)
             /\ a < 0 => v <= 0 /\ a <= v /\ v - Absolute(b) < a
             /\ -Absolute(a) <= q /\ q <= Absolute(a)
             /\ b # 1 /\ b # -1 => -Absolute(a) <= 2 * q /\ 2 * q <= Absolute(a)
             /\ b = 1 => q = a
             /\ b = -1 => q = -a
             /\ Absolute(a) \in Nat /\ Absolute(b) \in Nat
<1> DEFINE x == Absolute(a)
           y == Absolute(b)
           w == x \div y
           q == Quo(a, b)
           v == b * q
           u == y * w
<1>1. /\ x \in Nat /\ y \in Nat /\ y >= 1
      /\ (a >= 0 => x = a) /\ (a < 0 => x = -a)
      /\ (b >= 0 => y = b) /\ (b < 0 => y = -b)
  BY DEF Absolute
<1>2. q = (IF (a < 0) = (b < 0) THEN 1 ELSE -1) * w
  BY DEF Quo
<1> HIDE DEF x, y, q
<1>3. w \in Int /\ u <= x /\ x < u + y /\ u \in Int
  BY <1>1
<1> HIDE DEF w
<1>4. w >= 0
  <2> SUFFICES ASSUME w <= -1 PROVE FALSE
    BY <1>3
  <2>1. y * w <= -y
    BY <1>1, <1>3
  <2> QED
    BY <1>1, <1>3, <2>1
<1>5. w <= u /\ (y >= 2 => 2 * w <= u) /\ (y = 1 => w = u)
  BY <1>1, <1>3, <1>4
<1>6. (a < 0) = (b < 0) => q = w
  BY <1>2, <1>3
<1>7. (a < 0) # (b < 0) => q = -w
  BY <1>2, <1>3
<1>8. (b >= 0 => b * w = u) /\ (b < 0 => b * w = -u) /\ b * (-w) = -(b * w)
  BY <1>1, <1>3
<1>9. CASE a >= 0 /\ b >= 0
  <2>1. q = w /\ v = u
    BY <1>6, <1>8, <1>9
  <2> HIDE DEF u, v
  <2> QED
    BY <1>1, <1>3, <1>4, <1>5, <1>9, <2>1 DEF v, x, y, q
<1>10. CASE a >= 0 /\ b < 0
  <2>1. q = -w /\ v = u
    BY <1>3, <1>7, <1>8, <1>10
  <2> HIDE DEF u, v
  <2> QED
    BY <1>1, <1>3, <1>4, <1>5, <1>10, <2>1 DEF v, x, y, q
<1>11. CASE a < 0 /\ b >= 0
  <2>1. q = -w /\ v = -u
    BY <1>7, <1>8, <1>11
  <2> HIDE DEF u, v
  <2> QED
    BY <1>1, <1>3, <1>4, <1>5, <1>11, <2>1 DEF v, x, y, q
<1>12. CASE a < 0 /\ b < 0
  <2>1. q = w /\ v = -u
    BY <1>6, <1>8, <1>12
  <2> HIDE DEF u, v
  <2> QED
    BY <1>1, <1>3, <1>4, <1>5, <1>12, <2>1 DEF v, x, y, q
<1> QED
  BY <1>9, <1>10, <1>11, <1>12

\* A product divided by one of its factors is the other.
LEMMA QuoOfProduct ==
  ASSUME NEW a \in Int, NEW b \in Int, b # 0
  PROVE  Quo(a * b, b) = a
<1> DEFINE p == a * b
           q == Quo(p, b)
           v == b * q
           y == Absolute(b)
<1>1. p \in Int
  OBVIOUS
<1> HIDE DEF p
<1>2. /\ q \in Int /\ v \in Int /\ y \in Nat
      /\ p >= 0 => v <= p /\ p < v + y
      /\ p < 0 => p <= v /\ v - y < p
  BY <1>1, QuoIs
<1>3. (b >= 0 => y = b) /\ (b < 0 => y = -b)
  BY DEF Absolute
<1> HIDE DEF q, y
<1> DEFINE d == a - q
           e == b * d
<1>4. e = p - v /\ d \in Int /\ e \in Int
  BY <1>2 DEF p
<1>5. -y < e /\ e < y
  <2> HIDE DEF e, v
  <2> QED
    BY <1>1, <1>2, <1>4
<1> HIDE DEF d
<1>6. d >= 1 => (b >= 0 => e >= b) /\ (b < 0 => e <= b)
  BY <1>4
<1>7. d <= -1 => (b >= 0 => e <= -b) /\ (b < 0 => e >= -b)
  BY <1>4
<1> HIDE DEF e
<1>8. d = 0
  BY <1>3, <1>4, <1>5, <1>6, <1>7
<1> QED
  BY <1>2, <1>8 DEF d, q, p

\* The quotients of machine integers that are no machine integers: one.
LEMMA QuoFits ==
  ASSUME NEW a \in Int64, NEW b \in Int64, b # 0
  PROVE  /\ Quo(a, b) \in Int64 <=> ~(a = IntMin /\ b = -1)
         /\ Rem(a, b) \in Int64
<1> DEFINE q == Quo(a, b)
           v == b * q
           x == Absolute(a)
           y == Absolute(b)
<1>1. /\ a \in Int /\ IntMin <= a /\ a <= IntMax /\ b \in Int /\ IntMin <= b /\ b <= IntMax
  BY IntsAre
<1>2. /\ q \in Int /\ v \in Int
      /\ a >= 0 => 0 <= v /\ v <= a /\ a < v + y
      /\ a < 0 => v <= 0 /\ a <= v /\ v - y < a
      /\ -x <= q /\ q <= x
      /\ b # 1 /\ b # -1 => -x <= 2 * q /\ 2 * q <= x
      /\ b = 1 => q = a
      /\ b = -1 => q = -a
      /\ x \in Nat /\ y \in Nat
  BY <1>1, QuoIs
<1>3. (a >= 0 => x = a) /\ (a < 0 => x = -a) /\ (b >= 0 => y = b) /\ (b < 0 => y = -b)
  BY <1>1 DEF Absolute
<1>4. Rem(a, b) = a - v
  BY DEF Rem
<1> HIDE DEF q, v, x, y
<1>5. q \in Int64 <=> ~(a = IntMin /\ b = -1)
  BY <1>1, <1>2, <1>3, IntsAre
<1>6. a - v \in Int64
  BY <1>1, <1>2, <1>3, IntsAre
<1> QED
  BY <1>4, <1>5, <1>6 DEF q

\* The division and the remainder of evaluateExpr.
LEMMA DivisionIs ==
  ASSUME NEW a \in Int64, NEW b \in Int64
  PROVE  /\ b # 0 => (DivInt64(a, b).ok <=> Quo(a, b) \in Int64) /\ (DivInt64(a, b).ok => DivInt64(a, b).n = Quo(a, b))
         /\ b # 0 => (ModInt64(a, b).ok <=> Quo(a, b) \in Int64)
                     /\ (ModInt64(a, b).ok => ModInt64(a, b).n = Rem(a, b)) /\ Rem(a, b) \in Int64
         /\ b = 0 => ~DivInt64(a, b).ok /\ ~ModInt64(a, b).ok
<1>1. CASE b = 0
  BY <1>1 DEF DivInt64, ModInt64
<1>2. CASE b # 0
  <2>1. (Quo(a, b) \in Int64 <=> ~(a = IntMin /\ b = -1)) /\ Rem(a, b) \in Int64
    BY <1>2, QuoFits
  <2>2. Quo(a, b) \in Int64 => Wrap(Quo(a, b)) = Quo(a, b)
    BY WrapKeeps
  <2> DEFINE q == Quo(a, b)
             r == Rem(a, b)
  <2>3. DivInt64(a, b).ok = ~(a = IntMin /\ b = -1) /\ DivInt64(a, b).n = Wrap(q)
    BY <1>2 DEF DivInt64
  <2>4. ModInt64(a, b).ok = ~(a = IntMin /\ b = -1) /\ ModInt64(a, b).n = r
    BY <1>2 DEF ModInt64
  <2> QED
    BY <1>2, <2>1, <2>2, <2>3, <2>4
<1> QED
  BY <1>1, <1>2

\* abs.
LEMMA AbsInt64Is ==
  ASSUME NEW a \in Int64
  PROVE  (AbsInt64(a).ok <=> Absolute(a) \in Int64) /\ (AbsInt64(a).ok => AbsInt64(a).n = Absolute(a))
<1>1. a \in Int /\ IntMin <= a /\ a <= IntMax
  BY IntsAre
<1>2. AbsInt64(a).ok = (a # IntMin) /\ AbsInt64(a).n = Absolute(a)
  BY DEF AbsInt64, Absolute
<1>3. (a >= 0 => Absolute(a) = a) /\ (a < 0 => Absolute(a) = -a)
  BY <1>1 DEF Absolute
<1>4. a # IntMin <=> Absolute(a) \in Int64
  BY <1>1, <1>3, IntsAre
<1> QED
  BY <1>2, <1>4

\* mulInt64: its test by a division sees every overflow but one.
LEMMA MulInt64Is ==
  ASSUME NEW a \in Int64, NEW b \in Int64, a # IntMin \/ b # -1
  PROVE  (MulInt64(a, b).ok <=> a * b \in Int64) /\ (MulInt64(a, b).ok => MulInt64(a, b).n = a * b)
<1> DEFINE p == a * b
           w == Wrap(p)
           q == Quo(w, b)
<1>1. /\ a \in Int /\ IntMin <= a /\ a <= IntMax /\ b \in Int /\ IntMin <= b /\ b <= IntMax
  BY IntsAre
<1>2. p \in Int /\ (a = 0 \/ b = 0 => p = 0) /\ (a = -1 => p = -b)
  BY <1>1
<1>3. CASE a = 0 \/ b = 0
  <2>1. MulInt64(a, b) = [ok |-> TRUE, n |-> 0]
    BY <1>3 DEF MulInt64
  <2>2. p = 0 /\ 0 \in Int64
    BY <1>2, <1>3, IntsAre
  <2> QED
    BY <2>1, <2>2
<1>4. CASE a # 0 /\ b # 0
  <2>1. MulInt64(a, b).ok = ~(Wrap(q) # a \/ (a = -1 /\ b = IntMin)) /\ MulInt64(a, b).n = w
    BY <1>4 DEF MulInt64
  <2>2. w \in Int64 /\ w \in Int
    <3> HIDE DEF p
    <3> QED
      BY <1>2, WrapIs
  <2>3. ASSUME p \in Int64 PROVE MulInt64(a, b).ok /\ w = p
    <3>1. w = p
      <4> HIDE DEF p
      <4> QED
        BY <2>3, WrapKeeps
    <3>2. q = a
      BY <1>1, <1>4, <3>1, QuoOfProduct
    <3>3. Wrap(q) = a
      BY <3>2, WrapKeeps
    <3>4. ~(a = -1 /\ b = IntMin)
      <4> HIDE DEF p
      <4> QED
        BY <1>2, <2>3, IntsAre
    <3> QED
      BY <2>1, <3>1, <3>3, <3>4
  <2>4. ASSUME MulInt64(a, b).ok PROVE p = w
    <3>1. Wrap(q) = a
      BY <2>1, <2>4
    <3>2. PICK k \in Int : p = w + k * Width
      <4> HIDE DEF p
      <4> QED
        BY <1>2, WrapIs
    <3> HIDE DEF w
    <3>3. q \in Int64
      <4> SUFFICES ASSUME q \notin Int64 PROVE FALSE
        OBVIOUS
      <4>1. w = IntMin /\ b = -1
        BY <1>4, <2>2, QuoFits
      <4>2. q = -w
        BY <1>1, <2>2, <4>1, QuoIs
      <4> DEFINE m == -w
      <4>3. m = IntMax + 1 /\ m \in Int
        BY <4>1, IntsAre
      <4>4. Wrap(m) = m - Width
        <5>1. -(2 * Width) <= m + m /\ m + m < 2 * Width
          BY <4>3, IntsAre
        <5> HIDE DEF m
        <5>2. \/ Wrap(m) = m /\ m \in Int64
              \/ Wrap(m) = m - Width /\ m > IntMax
              \/ Wrap(m) = m + Width /\ m < IntMin
          BY <4>3, <5>1, WrapNear
        <5> QED
          BY <4>3, <5>2, IntsAre
      <4> HIDE DEF m
      <4>5. a = IntMin
        BY <3>1, <4>2, <4>3, <4>4, IntsAre DEF m
      <4> QED
        BY <4>1, <4>5
    <3>4. q = a
      BY <3>1, <3>3, WrapKeeps
    <3> DEFINE v == b * q
               y == Absolute(b)
    <3>5. /\ v \in Int /\ y \in Nat
          /\ w >= 0 => v <= w /\ w < v + y
          /\ w < 0 => w <= v /\ v - y < w
      BY <1>1, <1>4, <2>2, QuoIs
    <3>6. v = p
      BY <1>1, <3>4
    <3>7. (b >= 0 => y = b) /\ (b < 0 => y = -b)
      BY <1>1 DEF Absolute
    <3> HIDE DEF v, y, p
    <3>8. -Width < p - w /\ p - w < Width
      BY <1>1, <1>2, <2>2, <3>5, <3>6, <3>7, IntsAre
    <3> QED
      BY <1>2, <2>2, <3>2, <3>8, WidthApart
  <2> QED
    BY <2>1, <2>2, <2>3, <2>4
<1> QED
  BY <1>3, <1>4

\* The calculations of evaluate_expr.go on every two machine integers.
LEMMA WordsAreExact ==
  ASSUME word \in Int64 \X Int64
  PROVE  IntegersAreExact
<1> DEFINE a == word[1]
           b == word[2]
<1>1. a \in Int64 /\ b \in Int64
  OBVIOUS
<1> HIDE DEF a, b
<1>2. (AddInt64(a, b).ok <=> a + b \in Int64) /\ (AddInt64(a, b).ok => AddInt64(a, b).n = a + b)
  BY <1>1, AddInt64Is
<1>3. (SubInt64(a, b).ok <=> a - b \in Int64) /\ (SubInt64(a, b).ok => SubInt64(a, b).n = a - b)
  BY <1>1, SubInt64Is
<1>4. (AbsInt64(a).ok <=> Absolute(a) \in Int64) /\ (AbsInt64(a).ok => AbsInt64(a).n = Absolute(a))
  BY <1>1, AbsInt64Is
<1>5. a # IntMin \/ b # -1 => (MulInt64(a, b).ok <=> a * b \in Int64) /\ (MulInt64(a, b).ok => MulInt64(a, b).n = a * b)
  BY <1>1, MulInt64Is
<1>6. /\ b # 0 => (DivInt64(a, b).ok <=> Quo(a, b) \in Int64) /\ (DivInt64(a, b).ok => DivInt64(a, b).n = Quo(a, b))
      /\ b # 0 => (ModInt64(a, b).ok <=> Quo(a, b) \in Int64)
                  /\ (ModInt64(a, b).ok => ModInt64(a, b).n = Rem(a, b)) /\ Rem(a, b) \in Int64
      /\ b = 0 => ~DivInt64(a, b).ok /\ ~ModInt64(a, b).ok
  BY <1>1, DivisionIs
<1> QED
  BY <1>2, <1>3, <1>4, <1>5, <1>6, Zenon DEF IntegersAreExact, a, b

-----------------------------------------------------------------------------
(* Every subject.                                                          *)

\* The subjects a behaviour can pick.
Subjects ==
    /\ word \in Int64 \X Int64
    /\ number \in Seq(Int) \X Seq(Int)
    /\ day \in CalendarDays
    /\ instant \in Int \X Int \X Int /\ IsInstant(instant[1]) /\ IsInstant(instant[2])

\* What has not been picked is a subject too: two zeroes, two empty texts, the first day and two
\* equal instants.
LEMMA NothingIsASubject == NoSubject => Subjects
<1> SUFFICES ASSUME NoSubject PROVE Subjects
  OBVIOUS
<1>1. 0 \in Int64
  BY IntsAre
<1>2. word \in Int64 \X Int64
  BY <1>1 DEF NoSubject, NoWord
<1>3. number \in Seq(Int) \X Seq(Int)
  <2>1. number = <<<<>>, <<>>>> /\ <<>> \in Seq(Int)
    BY DEF NoSubject, NoNumber
  <2> QED
    BY <2>1
<1>4. day \in CalendarDays
  BY SMT DEF NoSubject, CalendarDays
<1>5. IsInstant(0)
  <2>1. MaxSec * Nanos \in Nat /\ MaxFrac \in Nat
    BY TemporalAssumption
  <2> QED
    BY <2>1 DEF IsInstant
<1>6. instant = <<0, 0, 0>>
  BY DEF NoSubject, NoInstant
<1>7. instant[1] = 0 /\ instant[2] = 0 /\ instant \in Int \X Int \X Int
  BY <1>6
<1> QED
  BY <1>2, <1>3, <1>4, <1>5, <1>7 DEF Subjects

\* A behaviour only ever has subjects.
THEOREM OnlySubjects == ArithmeticSpec => []Subjects
<1>1. NoSubject => Subjects
  BY NothingIsASubject
<1>2. Subjects /\ [Pick]_arithmetic => Subjects'
  <2> SUFFICES ASSUME Subjects, [Pick]_arithmetic PROVE Subjects'
    OBVIOUS
  <2>1. CASE PickWords
    <3>1. word' \in Int64 \X Int64
      BY <2>1, ArithmeticAssumption DEF PickWords
    <3> QED
      BY <2>1, <3>1 DEF PickWords, Subjects, IsInstant
  <2>2. CASE PickNumbers
    <3>1. number' \in Seq(Int) \X Seq(Int)
      BY <2>2, ArithmeticAssumption DEF PickNumbers
    <3> QED
      BY <2>2, <3>1 DEF PickNumbers, Subjects, IsInstant
  <2>3. CASE PickDay
    <3>1. day' \in CalendarDays
      BY <2>3, ArithmeticAssumption DEF PickDay
    <3> QED
      BY <2>3, <3>1 DEF PickDay, Subjects, IsInstant
  <2>4. CASE PickInstants
    <3>1. PICK t \in Instants, o \in Instants, s \in Spans : instant' = <<t, o, s>>
      BY <2>4 DEF PickInstants
    <3>2. IsInstant(t) /\ IsInstant(o) /\ s \in Int
      BY ArithmeticAssumption
    <3>3. t \in Int /\ o \in Int
      BY <3>2 DEF IsInstant
    <3>4. instant' \in Int \X Int \X Int /\ instant'[1] = t /\ instant'[2] = o
      BY <3>1, <3>2, <3>3
    <3>5. IsInstant(instant[1])' /\ IsInstant(instant[2])'
      BY <3>2, <3>4 DEF IsInstant
    <3>6. UNCHANGED <<word, number, day>>
      BY <2>4 DEF PickInstants
    <3> QED
      BY <3>4, <3>5, <3>6 DEF Subjects
  <2>5. CASE UNCHANGED arithmetic
    BY <2>5 DEF arithmetic, Subjects, IsInstant
  <2> QED
    BY <2>1, <2>2, <2>3, <2>4, <2>5 DEF Pick
<1> QED
  BY <1>1, <1>2, PTL DEF ArithmeticSpec

\* Arithmetic is exact or refused: on every machine integer of every width, on decimals of every
\* base, digit cap and division scale, on every day of the calendar and on every instant, with a
\* second of any number of units (evaluate_expr.go, decimal.go, temporal.go).
THEOREM ArithmeticAlwaysExact == ArithmeticSpec => []ArithmeticIsExact
<1>1. Subjects => ArithmeticIsExact
  <2> SUFFICES ASSUME Subjects PROVE ArithmeticIsExact
    OBVIOUS
  <2>1. IntegersAreExact
    BY WordsAreExact DEF Subjects
  <2>2. DecimalsAreExact
    BY NumbersAreExact DEF Subjects
  <2>3. CalendarIsCivil
    <3>1. day \in Int /\ -719162 <= day /\ day <= 2932896
      BY SMT DEF Subjects, CalendarDays
    <3> QED
      BY <3>1, CalendarIsExact DEF CalendarIsCivil
  <2>4. InstantsAreExact
    <3> DEFINE t == instant[1]
               o == instant[2]
               s == instant[3]
    <3>1. IsInstant(t) /\ IsInstant(o) /\ s \in Int
      BY DEF Subjects
    <3>2. InCalendar
      BY ArithmeticAssumption
    <3> HIDE DEF t, o, s
    <3>3. IsExact(t, o, s)
      BY <3>1, <3>2, InstantsAlwaysExact
    <3> QED
      BY <3>3 DEF InstantsAreExact, t, o, s
  <2> QED
    BY <2>1, <2>2, <2>3, <2>4 DEF ArithmeticIsExact
<1> QED
  BY <1>1, OnlySubjects, PTL
=============================================================================

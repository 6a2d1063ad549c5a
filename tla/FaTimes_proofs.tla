--------------------------- MODULE FaTimes_proofs ---------------------------
(***************************************************************************)
(* The dates and times are right for every year: the library's calendar    *)
(* (DayNumber and DateOf) and the class's own (Ordinal) number the days    *)
(* alike, strings compare as the moments they name, the day of the week    *)
(* goes round, and an int holds what fits; so every addition moves by what *)
(* was added (AdditionsMove), and every two objects compare and differ as  *)
(* their moments do (CalendarAlwaysRight).                                 *)
(***************************************************************************)
EXTENDS FaTimesProps, FiniteSetTheorems, WellFoundedInduction, TLAPS

(* A nonempty set of numbers has a least one: what replaces induction.     *)
LEMMA LeastNumber ==
  ASSUME NEW S \in SUBSET Nat, S # {}
  PROVE  \E x \in S : \A y \in S : x <= y
<1>1. IsWellFoundedOn(OpToRel(<, Nat), Nat)
  BY NatLessThanWellFounded
<1>2. PICK x \in S : \A y \in S : ~(<<y, x>> \in OpToRel(<, Nat))
  BY <1>1, WFMin
<1>3. ASSUME NEW y \in S PROVE x <= y
  <2>1. ~(<<y, x>> \in OpToRel(<, Nat))
    BY <1>2
  <2>2. ~(y < x)
    BY <2>1 DEF OpToRel
  <2> QED
    BY <2>2
<1> QED
  BY <1>3

-----------------------------------------------------------------------------
(* The years.                                                              *)

(* The leap days up to the end of a year, and all days, from the year 1.   *)
LeapDays(y) == (y \div 4) - (y \div 100) + (y \div 400)
DaysThrough(y) == 365 * y + LeapDays(y)

LEMMA LeapDaysInt ==
  ASSUME NEW y \in Int
  PROVE  LeapDays(y) \in Int /\ DaysThrough(y) \in Int
  BY SMT DEF LeapDays, DaysThrough

LEMMA OneMoreYear ==
  ASSUME NEW y \in Int
  PROVE  LeapDays(y + 1) = LeapDays(y) + (IF isLeapYear(y + 1) THEN 1 ELSE 0)
<1> DEFINE x == y + 1
<1>1. (x \div 4) - (y \div 4) = IF x % 4 = 0 THEN 1 ELSE 0
  BY SMT
<1>2. (x \div 100) - (y \div 100) = IF x % 100 = 0 THEN 1 ELSE 0
  BY SMT
<1>3. (x \div 400) - (y \div 400) = IF x % 400 = 0 THEN 1 ELSE 0
  BY SMT
<1>4. x % 100 = 0 => x % 4 = 0
  BY SMT
<1>5. x % 400 = 0 => x % 100 = 0
  BY SMT
<1>6. /\ x \in Int
      /\ x \div 4 \in Int /\ x \div 100 \in Int /\ x \div 400 \in Int
      /\ y \div 4 \in Int /\ y \div 100 \in Int /\ y \div 400 \in Int
  BY SMT
<1> HIDE DEF x
<1>7. LeapDays(x) = LeapDays(y) + (IF isLeapYear(x) THEN 1 ELSE 0)
  BY <1>1, <1>2, <1>3, <1>4, <1>5, <1>6, SMT DEF LeapDays, isLeapYear
<1> QED
  BY <1>7 DEF x

LEMMA LeapYearsBetween ==
  ASSUME NEW a \in Int, NEW n \in Nat
  PROVE  LET leap == {y \in a .. a + n - 1 : isLeapYear(y)}
         IN  /\ IsFiniteSet(leap)
             /\ Cardinality(leap) = LeapDays(a + n - 1) - LeapDays(a - 1)
<1> DEFINE Leap(k) == {y \in a .. a + k - 1 : isLeapYear(y)}
           Right(k) == /\ IsFiniteSet(Leap(k))
                       /\ Cardinality(Leap(k)) = LeapDays(a + k - 1) - LeapDays(a - 1)
           Wrong == {k \in Nat : ~Right(k)}
<1>1. Right(0)
  <2>1. Leap(0) = {}
    OBVIOUS
  <2>2. LeapDays(a + 0 - 1) - LeapDays(a - 1) = 0
    <3>1. a + 0 - 1 = a - 1 /\ a - 1 \in Int
      OBVIOUS
    <3> QED
      BY <3>1, LeapDaysInt
  <2> QED
    BY <2>1, <2>2, FS_EmptySet
<1>2. ASSUME NEW k \in Nat, Right(k) PROVE Right(k + 1)
  <2> DEFINE y == a + k
  <2>1. /\ y \in Int /\ y - 1 \in Int /\ a - 1 \in Int
        /\ a + (k + 1) - 1 = y /\ a + k - 1 = y - 1
    OBVIOUS
  <2>2. y \notin Leap(k)
    OBVIOUS
  <2>3. LeapDays(y) = LeapDays(y - 1) + (IF isLeapYear(y) THEN 1 ELSE 0)
    <3>1. y - 1 + 1 = y
      OBVIOUS
    <3> QED
      BY <2>1, <3>1, OneMoreYear
  <2>4. Leap(k + 1) = IF isLeapYear(y) THEN Leap(k) \cup {y} ELSE Leap(k)
    OBVIOUS
  <2>5. LeapDays(y - 1) \in Int /\ LeapDays(a - 1) \in Int
    BY <2>1, LeapDaysInt
  <2>6. IsFiniteSet(Leap(k)) /\ Cardinality(Leap(k)) = LeapDays(y - 1) - LeapDays(a - 1)
    BY <1>2, <2>1
  <2> HIDE DEF Leap, y
  <2>7. CASE isLeapYear(y)
    <3>1. /\ IsFiniteSet(Leap(k + 1))
          /\ Cardinality(Leap(k + 1)) = Cardinality(Leap(k)) + 1
      BY <2>2, <2>4, <2>6, <2>7, FS_AddElement
    <3>2. Cardinality(Leap(k + 1)) = LeapDays(y) - LeapDays(a - 1)
      BY <3>1, <2>3, <2>5, <2>6, <2>7
    <3> QED
      BY <3>1, <3>2, <2>1
  <2>8. CASE ~isLeapYear(y)
    <3>1. Cardinality(Leap(k + 1)) = LeapDays(y) - LeapDays(a - 1)
      BY <2>3, <2>4, <2>5, <2>6, <2>8
    <3> QED
      BY <3>1, <2>1, <2>4, <2>6, <2>8
  <2> QED
    BY <2>7, <2>8
<1> HIDE DEF Right
<1>3. Wrong = {}
  <2>1. SUFFICES ASSUME Wrong # {} PROVE FALSE
    OBVIOUS
  <2>2. PICK x \in Wrong : \A y \in Wrong : x <= y
    BY <2>1, LeastNumber
  <2>3. x # 0
    BY <1>1
  <2>4. x - 1 \in Nat /\ x - 1 \notin Wrong
    BY <2>2, <2>3
  <2>5. Right(x - 1 + 1)
    BY <2>4, <1>2
  <2> QED
    BY <2>5
<1> QED
  BY <1>3 DEF Right

LEMMA YearDaysBetween ==
  ASSUME NEW a \in Int, NEW b \in Int, a - 1 <= b
  PROVE  YearDays(a .. b) = DaysThrough(b) - DaysThrough(a - 1)
<1> DEFINE n == b - a + 1
           leap == {y \in a .. b : isLeapYear(y)}
<1>1. n \in Nat /\ a + n - 1 = b
  OBVIOUS
<1>2. Cardinality(leap) = LeapDays(b) - LeapDays(a - 1)
  <2> HIDE DEF n
  <2> QED
    BY <1>1, LeapYearsBetween
<1>3. Cardinality(a .. b) = n
  <2>1. CASE a <= b
    BY <2>1, FS_Interval
  <2>2. CASE a > b
    <3>1. a .. b = {} /\ n = 0
      BY <2>2
    <3> QED
      BY <3>1, FS_EmptySet
  <2> QED
    BY <2>1, <2>2
<1>4. a - 1 \in Int /\ LeapDays(b) \in Int /\ LeapDays(a - 1) \in Int
  BY LeapDaysInt
<1>5. YearDays(a .. b) = 365 * n + (LeapDays(b) - LeapDays(a - 1))
  BY <1>2, <1>3 DEF YearDays
<1> QED
  BY <1>4, <1>5 DEF DaysThrough

-----------------------------------------------------------------------------
(* The months.                                                             *)

(* The days of a year before a month, that of a leap day left out.         *)
DaysOfYear == <<0, 31, 59, 90, 120, 151, 181, 212, 243, 273, 304, 334>>

Leap(year) == IF isLeapYear(year) THEN 1 ELSE 0

Table(year) ==
    [m \in 1 .. 12 |-> DaysOfYear[m] + (IF m > 2 THEN Leap(year) ELSE 0)]

LEMMA LastDays ==
  ASSUME NEW year
  PROVE  /\ getLastDayOfMonth(year, 2) = 28 + Leap(year)
         /\ getLastDayOfMonth(year, 1) = 31 /\ getLastDayOfMonth(year, 3) = 31
         /\ getLastDayOfMonth(year, 4) = 30 /\ getLastDayOfMonth(year, 5) = 31
         /\ getLastDayOfMonth(year, 6) = 30 /\ getLastDayOfMonth(year, 7) = 31
         /\ getLastDayOfMonth(year, 8) = 31 /\ getLastDayOfMonth(year, 9) = 30
         /\ getLastDayOfMonth(year, 10) = 31 /\ getLastDayOfMonth(year, 11) = 30
         /\ getLastDayOfMonth(year, 12) = 31
  BY SMT DEF getLastDayOfMonth, Leap

LEMMA MonthByMonth ==
  ASSUME NEW year
  PROVE  DaysBefore(year) = Table(year)
<1> DEFINE Next0(f) ==
             [m \in 1 .. 12 |->
                 IF m = 1 THEN 0 ELSE f[m - 1] + getLastDayOfMonth(year, m - 1)]
           before == CHOOSE f : f = Next0(f)
<1>1. Table(year) = Next0(Table(year))
  <2>1. ASSUME NEW m \in 1 .. 12
        PROVE  Table(year)[m] = IF m = 1 THEN 0
                                ELSE Table(year)[m - 1] + getLastDayOfMonth(year, m - 1)
    BY LastDays, SMT DEF Table, DaysOfYear, Leap
  <2> QED
    BY <2>1 DEF Table
<1>2. before = Next0(before)
  BY <1>1
<1>3. DaysBefore(year) = before
  BY DEF DaysBefore
<1> HIDE DEF before
<1>4. ASSUME NEW m \in 1 .. 12
      PROVE  before[m] = Table(year)[m]
  <2>1. /\ before[1] = 0
        /\ before[2] = before[1] + getLastDayOfMonth(year, 1)
        /\ before[3] = before[2] + getLastDayOfMonth(year, 2)
        /\ before[4] = before[3] + getLastDayOfMonth(year, 3)
        /\ before[5] = before[4] + getLastDayOfMonth(year, 4)
        /\ before[6] = before[5] + getLastDayOfMonth(year, 5)
        /\ before[7] = before[6] + getLastDayOfMonth(year, 6)
        /\ before[8] = before[7] + getLastDayOfMonth(year, 7)
        /\ before[9] = before[8] + getLastDayOfMonth(year, 8)
        /\ before[10] = before[9] + getLastDayOfMonth(year, 9)
        /\ before[11] = before[10] + getLastDayOfMonth(year, 10)
        /\ before[12] = before[11] + getLastDayOfMonth(year, 11)
    BY <1>2, SMT
  <2>2. Leap(year) \in Int
    BY DEF Leap
  <2> QED
    BY <2>1, <2>2, LastDays, SMT DEF Table, DaysOfYear
<1>5. before = [m \in 1 .. 12 |-> before[m]]
  BY <1>2
<1> QED
  BY <1>3, <1>4, <1>5 DEF Table

LEMMA MonthDays ==
  ASSUME NEW year
  PROVE  /\ DaysBefore(year)[1] = 0
         /\ DaysBefore(year)[2] = 31
         /\ DaysBefore(year)[3] = 59 + Leap(year)
         /\ DaysBefore(year)[4] = 90 + Leap(year)
         /\ DaysBefore(year)[5] = 120 + Leap(year)
         /\ DaysBefore(year)[6] = 151 + Leap(year)
         /\ DaysBefore(year)[7] = 181 + Leap(year)
         /\ DaysBefore(year)[8] = 212 + Leap(year)
         /\ DaysBefore(year)[9] = 243 + Leap(year)
         /\ DaysBefore(year)[10] = 273 + Leap(year)
         /\ DaysBefore(year)[11] = 304 + Leap(year)
         /\ DaysBefore(year)[12] = 334 + Leap(year)
         /\ Leap(year) \in 0 .. 1
  BY MonthByMonth, SMT DEF Table, DaysOfYear, Leap

-----------------------------------------------------------------------------
(* The days.                                                               *)

(* A date in digits: what verifyDate accepts, for a year of any size.      *)
IsDate(year, month, day) ==
    /\ year \in Int
    /\ month \in 1 .. 12
    /\ day \in 1 .. getLastDayOfMonth(year, month)

(* Its number by the class's calendar.                                     *)
DayOf(year, month, day) ==
    DaysThrough(year - 1) - 719162 + DaysBefore(year)[month] + day - 1

LEMMA DateBounds ==
  ASSUME NEW year, NEW month, NEW day, IsDate(year, month, day)
  PROVE  /\ year \in Int /\ month \in Int /\ day \in Int
         /\ 1 <= month /\ month <= 12 /\ 1 <= day /\ day <= 31
         /\ DaysBefore(year)[month] \in Int /\ DayOf(year, month, day) \in Int
<1>1. getLastDayOfMonth(year, month) \in Int /\ getLastDayOfMonth(year, month) <= 31
  BY LastDays, SMT DEF IsDate, Leap
<1>2. DaysBefore(year)[month] \in Int
  BY MonthDays, SMT DEF IsDate
<1>3. DaysThrough(year - 1) \in Int
  BY LeapDaysInt DEF IsDate
<1> QED
  BY <1>1, <1>2, <1>3 DEF IsDate, DayOf

LEMMA OrdinalIs ==
  ASSUME NEW s, IsDate(s.year, s.month, s.day)
  PROVE  Ordinal(s) = Span(DayOf(s.year, s.month, s.day),
                           s.hour * 3600 + s.minute * 60 + s.second)
<1> DEFINE y == s.year
           years == IF y >= 1970 THEN YearDays(1970 .. y - 1) ELSE -YearDays(y .. 1969)
<1>1. y \in Int /\ y - 1 \in Int
  BY DEF IsDate
<1>2. DaysThrough(1969) = 719162
  BY SMT DEF DaysThrough, LeapDays
<1>3. DaysThrough(y - 1) \in Int
  BY <1>1, LeapDaysInt
<1>4. years = DaysThrough(y - 1) - 719162
  <2>1. CASE y >= 1970
    <3>1. YearDays(1970 .. y - 1) = DaysThrough(y - 1) - DaysThrough(1970 - 1)
      BY <1>1, <2>1, YearDaysBetween
    <3> QED
      BY <3>1, <2>1, <1>2
  <2>2. CASE y < 1970
    <3>1. YearDays(y .. 1969) = DaysThrough(1969) - DaysThrough(y - 1)
      BY <1>1, <2>2, YearDaysBetween
    <3> QED
      BY <3>1, <2>2, <1>1, <1>2, <1>3
  <2> QED
    BY <1>1, <2>1, <2>2
<1>5. years + DaysBefore(y)[s.month] + s.day - 1 = DayOf(y, s.month, s.day)
  BY <1>4 DEF DayOf
<1> QED
  BY <1>5 DEF Ordinal

-----------------------------------------------------------------------------
(* The calendar of the C library, whose years begin in March.              *)

(* The days of such a year before a month, March being 0.                  *)
Elapsed(m) == (153 * m + 2) \div 5

LEMMA ElapsedIs ==
  /\ Elapsed(0) = 0 /\ Elapsed(1) = 31 /\ Elapsed(2) = 61 /\ Elapsed(3) = 92
  /\ Elapsed(4) = 122 /\ Elapsed(5) = 153 /\ Elapsed(6) = 184 /\ Elapsed(7) = 214
  /\ Elapsed(8) = 245 /\ Elapsed(9) = 275 /\ Elapsed(10) = 306 /\ Elapsed(11) = 337
  BY SMT DEF Elapsed

(* The number of a day of such a year.                                     *)
MarchDay(y, m, day) == DaysThrough(y) + Elapsed(m) + day - 719469

(* The days of q times 400 years, and r more.                              *)
InCycles(q, r) == q * 146097 + r * 365 + (r \div 4) - (r \div 100)

LEMMA InCenturies ==
  ASSUME NEW y \in Int, NEW q, NEW r, q = y \div 400, r = y % 400
  PROVE  DaysThrough(y) = InCycles(q, r)
<1>1. q \in Int /\ r \in 0 .. 399 /\ y = 400 * q + r
  BY SMT
<1>2. y \div 4 = 100 * q + (r \div 4)
  BY <1>1, SMT
<1>3. y \div 100 = 4 * q + (r \div 100)
  BY <1>1, SMT
<1>4. y \div 400 = q
  BY <1>1, SMT
<1> QED
  BY <1>1, <1>2, <1>3, <1>4, SMT DEF DaysThrough, LeapDays, InCycles

(* DayNumber, its year and month being known.                              *)
Numbered(y, m, day) ==
    (y \div 400) * 146097 + (y % 400) * 365 + ((y % 400) \div 4) - ((y % 400) \div 100)
        + ((153 * m + 2) \div 5) + day - 719469

LEMMA NumberedIs ==
  ASSUME NEW y \in Int, NEW m \in 0 .. 11, NEW day \in Int
  PROVE  Numbered(y, m, day) = MarchDay(y, m, day)
<1> DEFINE q == y \div 400
           r == y % 400
<1>1. Numbered(y, m, day) = InCycles(q, r) + Elapsed(m) + day - 719469
  BY SMT DEF Numbered, Elapsed, InCycles
<1>2. q = y \div 400 /\ r = y % 400
  OBVIOUS
<1> HIDE DEF q, r
<1>3. DaysThrough(y) = InCycles(q, r)
  BY <1>2, InCenturies, SMT
<1> QED
  BY <1>1, <1>3, SMT DEF MarchDay

LEMMA DayNumberIs ==
  ASSUME NEW year \in Int, NEW month \in 1 .. 12, NEW day \in Int
  PROVE  /\ month < 3 =>
               DayNumber(year, month, day) = MarchDay(year - 1, month + 9, day)
         /\ month >= 3 => DayNumber(year, month, day) = MarchDay(year, month - 3, day)
<1> DEFINE y == year + ((month - 1) \div 12) - (IF (month - 1) % 12 < 2 THEN 1 ELSE 0)
           m == (month + 9) % 12
<1>1. DayNumber(year, month, day) = Numbered(y, m, day)
  BY DEF DayNumber, Numbered
<1>2. (month - 1) \div 12 = 0 /\ (month - 1) % 12 = month - 1
  BY SMT
<1>3. y = (IF month < 3 THEN year - 1 ELSE year)
  BY <1>2, SMT
<1>4. m = (IF month < 3 THEN month + 9 ELSE month - 3)
  BY SMT
<1>5. y \in Int /\ m \in 0 .. 11
  BY <1>3, <1>4, SMT
<1> HIDE DEF y, m
<1>6. DayNumber(year, month, day) = MarchDay(y, m, day)
  BY <1>1, <1>5, NumberedIs
<1>7. CASE month < 3
  <2>1. y = year - 1 /\ m = month + 9
    BY <1>3, <1>4, <1>7, Zenon
  <2> QED
    BY <1>6, <1>7, <2>1, SMT
<1>8. CASE ~(month < 3)
  <2>1. y = year /\ m = month - 3
    BY <1>3, <1>4, <1>8, Zenon
  <2> QED
    BY <1>6, <1>8, <2>1, SMT
<1> QED
  BY <1>7, <1>8, SMT

(* Both calendars number the days alike.                                   *)
LEMMA CalendarsAgree ==
  ASSUME NEW year, NEW month, NEW day, IsDate(year, month, day)
  PROVE  DayNumber(year, month, day) = DayOf(year, month, day)
<1>1. /\ year \in Int /\ year - 1 \in Int /\ year - 1 + 1 = year
      /\ month \in 1 .. 12 /\ day \in Int
  BY DateBounds DEF IsDate
<1>2. LeapDays(year) = LeapDays(year - 1) + Leap(year) /\ LeapDays(year - 1) \in Int
  BY <1>1, OneMoreYear, LeapDaysInt DEF Leap
<1>3. DaysThrough(year) = DaysThrough(year - 1) + 365 + Leap(year)
  BY <1>1, <1>2, MonthDays DEF DaysThrough
<1>4. DaysThrough(year - 1) \in Int
  BY <1>1, LeapDaysInt
<1>5. CASE month < 3
  <2>1. DayNumber(year, month, day)
          = DaysThrough(year - 1) + Elapsed(month + 9) + day - 719469
    <3>1. DayNumber(year, month, day) = MarchDay(year - 1, month + 9, day)
      BY <1>1, <1>5, DayNumberIs, Zenon
    <3> QED
      BY <3>1, SMT DEF MarchDay
  <2>2. CASE month = 1
    BY <1>1, <1>4, <2>1, <2>2, MonthDays, ElapsedIs, SMT DEF DayOf
  <2>3. CASE month = 2
    BY <1>1, <1>4, <2>1, <2>3, MonthDays, ElapsedIs, SMT DEF DayOf
  <2> QED
    BY <1>1, <1>5, <2>2, <2>3
<1>6. CASE month >= 3
  <2>1. DayNumber(year, month, day)
          = DaysThrough(year) + Elapsed(month - 3) + day - 719469
    <3>1. DayNumber(year, month, day) = MarchDay(year, month - 3, day)
      BY <1>1, <1>6, DayNumberIs, Zenon
    <3> QED
      BY <3>1, SMT DEF MarchDay
  <2>2. DaysBefore(year)[month] = Elapsed(month - 3) + 59 + Leap(year)
    <3>1. month \in {3, 4, 5, 6, 7, 8, 9, 10, 11, 12}
      BY <1>1, <1>6
    <3> QED
      BY <3>1, MonthDays, ElapsedIs, SMT
  <2>3. Elapsed(month - 3) \in Int
    <3>1. month - 3 \in 0 .. 9
      BY <1>1, <1>6
    <3> QED
      BY <3>1, ElapsedIs, SMT
  <2> QED
    BY <1>1, <1>3, <1>4, <2>1, <2>2, <2>3, MonthDays, SMT DEF DayOf
<1> QED
  BY <1>1, <1>5, <1>6, SMT

-----------------------------------------------------------------------------
(* Day n of 400 years is the j-th after c centuries, b times four years and*)
(* a years more; the 365th is a leap day.                                  *)
DayOfCycle(n, c, b, a, j) ==
    /\ c <= 3 /\ b <= 24 /\ a <= 3 /\ j <= 365
    /\ n = 36524 * c + 1461 * b + 365 * a + j
    /\ j = 365 => a = 3 /\ (b < 24 \/ c = 3)

LEMMA Cycle ==
  ASSUME NEW doe \in Nat, doe <= 146096
  PROVE  \E c, b, a, j \in Nat : DayOfCycle(doe, c, b, a, j)
<1>1. PICK c \in Nat, r \in Nat :
         doe = 36524 * c + r /\ c <= 3 /\ r <= 36524 /\ (r = 36524 => c = 3)
  <2>1. CASE doe = 146096
    <3>1. doe = 36524 * 3 + 36524
      BY <2>1, SMT
    <3> QED
      BY <3>1, SMT
  <2>2. CASE doe < 146096
    <3>1. /\ doe \div 36524 \in Nat /\ doe \div 36524 <= 3
          /\ doe % 36524 \in Nat /\ doe % 36524 < 36524
          /\ doe = 36524 * (doe \div 36524) + (doe % 36524)
      BY <2>2, SMT
    <3> QED
      BY <3>1, SMT
  <2> QED
    BY <2>1, <2>2, SMT
<1>2. PICK b \in Nat, q \in Nat :
         r = 1461 * b + q /\ b <= 24 /\ q <= 1460 /\ (q = 1460 => b < 24 \/ c = 3)
  <2>1. /\ r \div 1461 \in Nat /\ r \div 1461 <= 24
        /\ r % 1461 \in Nat /\ r % 1461 <= 1460
        /\ r = 1461 * (r \div 1461) + (r % 1461)
    BY <1>1, SMT
  <2> QED
    BY <1>1, <2>1, SMT
<1>3. PICK a \in Nat, j \in Nat :
         q = 365 * a + j /\ a <= 3 /\ j <= 365 /\ (j = 365 => a = 3 /\ q = 1460)
  <2>1. CASE q = 1460
    <3>1. q = 365 * 3 + 365
      BY <2>1, SMT
    <3> QED
      BY <2>1, <3>1, SMT
  <2>2. CASE q < 1460
    <3>1. /\ q \div 365 \in Nat /\ q \div 365 <= 3
          /\ q % 365 \in Nat /\ q % 365 < 365
          /\ q = 365 * (q \div 365) + (q % 365)
      BY <2>2, SMT
    <3> QED
      BY <3>1, SMT
  <2> QED
    BY <1>2, <2>1, <2>2, SMT
<1>4. DayOfCycle(doe, c, b, a, j)
  BY <1>1, <1>2, <1>3, SMT DEF DayOfCycle
<1> QED
  BY <1>4

LEMMA YearOf ==
  ASSUME NEW c \in Nat, NEW b \in Nat, NEW a \in Nat, NEW j \in Nat,
         c <= 3, b <= 24, a <= 3, j <= 365, j = 365 => a = 3 /\ (b < 24 \/ c = 3),
         NEW doe, doe = 36524 * c + 1461 * b + 365 * a + j
  PROVE  (doe - (doe \div 1460) + (doe \div 36524) - (doe \div 146096)) \div 365
            = 100 * c + 4 * b + a
<1>1. (doe \div 36524) - (doe \div 146096) = c
  <2>1. CASE doe = 146096
    <3>1. c = 3
      BY <2>1, SMT
    <3>2. doe \div 36524 = 4 /\ doe \div 146096 = 1
      BY <2>1, SMT
    <3> QED
      BY <3>1, <3>2, SMT
  <2>2. CASE doe # 146096
    <3>1. doe \in Nat /\ doe < 146096 /\ 1461 * b + 365 * a + j < 36524
      BY <2>2, SMT
    <3>2. doe \div 36524 = c
      BY <3>1, SMT
    <3>3. doe \div 146096 = 0
      BY <3>1, SMT
    <3> QED
      BY <3>2, <3>3, SMT
  <2> QED
    BY <2>1, <2>2, SMT
<1>2. PICK e \in Nat : /\ doe \div 1460 = 25 * c + b + e
                       /\ j - e \in Nat /\ j - e < 365
  <2> DEFINE u == 24 * c + b + 365 * a + j
  <2>1. u \in Nat /\ u <= 1556 /\ doe = 1460 * (25 * c + b) + u
    BY SMT
  <2>2. (j = 0 => u < 1460) /\ (j = 365 => u >= 1460)
    BY SMT
  <2> HIDE DEF u
  <2>3. CASE u < 1460
    <3>1. doe \div 1460 = 25 * c + b
      BY <2>1, <2>3, SMT
    <3> QED
      BY <3>1, <2>2, <2>3, SMT
  <2>4. CASE u >= 1460
    <3>1. doe \div 1460 = 25 * c + b + 1
      BY <2>1, <2>4, SMT
    <3> QED
      BY <3>1, <2>2, <2>4, <2>1, SMT
  <2> QED
    BY <2>1, <2>3, <2>4, SMT
<1>3. doe - (doe \div 1460) + (doe \div 36524) - (doe \div 146096)
         = 365 * (100 * c + 4 * b + a) + (j - e)
  BY <1>1, <1>2, SMT
<1> QED
  BY <1>2, <1>3, SMT

(* The month of a day of a year that begins in March.                      *)
LEMMA MonthOf ==
  ASSUME NEW j \in Nat, j <= 365, NEW m, m = (5 * j + 2) \div 153
  PROVE  /\ m \in 0 .. 11
         /\ j - Elapsed(m) \in Nat
         /\ \A k \in 0 .. 10 : m = k => j < Elapsed(k + 1)
  BY SMT DEF Elapsed

(* The last year of four, of 25 such, of 4 of those, of q such.            *)
FourthYear(y, q, c, b) ==
    /\ c <= 3 /\ b <= 24 /\ (b < 24 \/ c = 3)
    /\ y = 400 * q + 100 * c + 4 * b + 4

LEMMA LeapDayOfCycle ==
  ASSUME NEW c \in Nat, NEW b \in Nat, NEW q \in Int, NEW y, FourthYear(y, q, c, b)
  PROVE  isLeapYear(y)
<1> USE DEF FourthYear
<1>1. CASE b < 24
  <2>1. y = 100 * (4 * q + c) + (4 * b + 4) /\ 4 * q + c \in Int
    BY SMT
  <2>2. y % 100 = 4 * b + 4
    BY <1>1, <2>1, SMT
  <2>3. y = 4 * (100 * q + 25 * c + b + 1) /\ 100 * q + 25 * c + b + 1 \in Int
    BY SMT
  <2>4. y % 4 = 0
    BY <2>3, SMT
  <2> QED
    BY <2>2, <2>4, SMT DEF isLeapYear
<1>2. CASE b = 24 /\ c = 3
  <2>1. y = 400 * (q + 1) /\ q + 1 \in Int
    BY <1>2, SMT
  <2>2. y % 400 = 0
    BY <2>1, SMT
  <2> QED
    BY <2>2, SMT DEF isLeapYear
<1> QED
  BY <1>1, <1>2, SMT

(* The last day of a month, seen from March.                               *)
LEMMA MonthEnds ==
  ASSUME NEW year
  PROVE  /\ \A m \in 0 .. 9 :
              getLastDayOfMonth(year, m + 3) = Elapsed(m + 1) - Elapsed(m)
         /\ getLastDayOfMonth(year, 1) = Elapsed(11) - Elapsed(10)
         /\ getLastDayOfMonth(year, 2) = 28 + Leap(year)
<1>1. ASSUME NEW m \in {0, 1, 2, 3, 4, 5, 6, 7, 8, 9}
      PROVE  getLastDayOfMonth(year, m + 3) = Elapsed(m + 1) - Elapsed(m)
  BY LastDays, ElapsedIs, SMT
<1> QED
  BY <1>1, LastDays, ElapsedIs, SMT

(* A date with its number.                                                 *)
IsDateOf(d, n) ==
    /\ d = [year |-> d.year, month |-> d.month, day |-> d.day]
    /\ IsDate(d.year, d.month, d.day)
    /\ DayNumber(d.year, d.month, d.day) = n

(* The day with the number n is the j-th of a year that begins in March.   *)
InYear(n, y, j) == n = DaysThrough(y) + j - 719468

LEMMA DateOfMarch ==
  ASSUME NEW y \in Int, NEW j \in Nat, j <= 365, NEW m, m = (5 * j + 2) \div 153,
         j = 365 => isLeapYear(y + 1),
         NEW n, InYear(n, y, j)
  PROVE  IsDateOf([year  |-> y + (IF m < 10 THEN 0 ELSE 1),
                   month |-> IF m < 10 THEN m + 3 ELSE m - 9,
                   day   |-> j - Elapsed(m) + 1], n)
<1> DEFINE year  == y + (IF m < 10 THEN 0 ELSE 1)
           month == IF m < 10 THEN m + 3 ELSE m - 9
           day   == j - Elapsed(m) + 1
           d     == [year |-> year, month |-> month, day |-> day]
<1>1. /\ m \in 0 .. 11 /\ j - Elapsed(m) \in Nat
      /\ \A k \in 0 .. 10 : m = k => j < Elapsed(k + 1)
  BY MonthOf
<1>2. Elapsed(m) \in Int
  <2>1. m \in {0, 1, 2, 3, 4, 5, 6, 7, 8, 9, 10, 11}
    BY <1>1
  <2> QED
    BY <2>1, ElapsedIs, SMT
<1>3. year \in Int /\ month \in 1 .. 12 /\ day \in Int /\ day >= 1
  BY <1>1, <1>2, SMT
<1>4. day <= getLastDayOfMonth(year, month)
  <2>1. CASE m \in 0 .. 9
    <3>1. j < Elapsed(m + 1) /\ month = m + 3
      BY <1>1, <2>1, SMT
    <3>2. m + 1 \in {1, 2, 3, 4, 5, 6, 7, 8, 9, 10}
      BY <2>1, SMT
    <3>3. Elapsed(m + 1) \in Int
      BY <3>2, ElapsedIs, SMT
    <3>4. getLastDayOfMonth(year, m + 3) = Elapsed(m + 1) - Elapsed(m)
      BY <2>1, MonthEnds, Zenon
    <3> HIDE DEF year, month
    <3> QED
      BY <3>1, <3>3, <3>4, <1>2, SMT
  <2>2. CASE m = 10
    <3>1. j < Elapsed(11) /\ month = 1
      BY <1>1, <2>2, SMT
    <3> HIDE DEF year, month
    <3> QED
      BY <3>1, <2>2, MonthEnds, ElapsedIs, SMT
  <2>3. CASE m = 11
    <3>1. month = 2 /\ year = y + 1
      BY <2>3, SMT
    <3>2. (j = 365 => Leap(year) = 1) /\ Leap(year) \in 0 .. 1
      BY <3>1, SMT DEF Leap
    <3> HIDE DEF year, month
    <3> QED
      BY <3>1, <3>2, <2>3, MonthEnds, ElapsedIs, SMT
  <2> QED
    BY <1>1, <2>1, <2>2, <2>3, SMT
<1>5. getLastDayOfMonth(year, month) \in Int
  <2> HIDE DEF year, month
  <2> QED
    BY <1>3, LastDays, SMT DEF Leap
<1>6. IsDate(year, month, day)
  <2> HIDE DEF year, month, day
  <2> QED
    BY <1>3, <1>4, <1>5, SMT DEF IsDate
<1>7. DayNumber(year, month, day) = n
  <2>1. DayNumber(year, month, day) = MarchDay(y, m, day)
    <3>1. CASE m < 10
      <4>1. year = y /\ month >= 3 /\ month - 3 = m
        BY <1>1, <3>1, SMT
      <4> HIDE DEF year, month, day
      <4>2. DayNumber(year, month, day) = MarchDay(year, month - 3, day)
        BY <1>3, <4>1, DayNumberIs, Zenon
      <4> QED
        BY <4>1, <4>2, Zenon
    <3>2. CASE ~(m < 10)
      <4>1. year - 1 = y /\ month < 3 /\ month + 9 = m
        BY <1>1, <3>2, SMT
      <4> HIDE DEF year, month, day
      <4>2. DayNumber(year, month, day) = MarchDay(year - 1, month + 9, day)
        BY <1>3, <4>1, DayNumberIs, Zenon
      <4> QED
        BY <4>1, <4>2, Zenon
    <3> QED
      BY <3>1, <3>2, Zenon
  <2>2. DaysThrough(y) \in Int
    BY LeapDaysInt
  <2> QED
    BY <1>2, <2>1, <2>2, SMT DEF MarchDay, InYear
<1>8. d.year = year /\ d.month = month /\ d.day = day
  BY Zenon
<1> HIDE DEF year, month, day
<1>9. IsDateOf(d, n)
  <2>1. d = [year |-> d.year, month |-> d.month, day |-> d.day]
    BY <1>8, Zenon
  <2> HIDE DEF d
  <2> QED
    BY <1>6, <1>7, <1>8, <2>1, Zenon DEF IsDateOf
<1> QED
  BY <1>9, Zenon DEF year, month, day

(* localtime gives the date with the number it was asked for.              *)
LEMMA DateOfIsDate ==
  ASSUME NEW n \in Int
  PROVE  IsDateOf(DateOf(n), n)
<1> DEFINE z   == n + 719468
           q   == z \div 146097
           doe == z % 146097
           yoe == (doe - (doe \div 1460) + (doe \div 36524) - (doe \div 146096)) \div 365
           j   == doe - (365 * yoe + (yoe \div 4) - (yoe \div 100))
           m   == (5 * j + 2) \div 153
<1>0. q \in Int
  BY SMT
<1>1. /\ doe \in Nat /\ doe <= 146096
      /\ n = 146097 * q + doe - 719468
  BY SMT
<1>2. DateOf(n) = [year  |-> yoe + q * 400 + (IF m < 10 THEN 0 ELSE 1),
                   month |-> IF m < 10 THEN m + 3 ELSE m - 9,
                   day   |-> j - Elapsed(m) + 1]
  BY SMT DEF DateOf, Elapsed
<1> HIDE DEF z, q, doe
<1>3. PICK c \in Nat, b \in Nat, a \in Nat, i \in Nat : DayOfCycle(doe, c, b, a, i)
  BY <1>1, Cycle
<1>4. yoe = 100 * c + 4 * b + a
  BY <1>3, YearOf DEF DayOfCycle
<1> HIDE DEF yoe
<1>5. yoe \div 4 = 25 * c + b /\ yoe \div 100 = c /\ yoe \in Nat /\ yoe <= 399
  BY <1>3, <1>4, SMT DEF DayOfCycle
<1>6. j = i
  BY <1>3, <1>4, <1>5, SMT DEF DayOfCycle
<1>7. i <= 365 /\ (i = 365 => a = 3 /\ (b < 24 \/ c = 3)) /\ c <= 3 /\ b <= 24
  BY <1>3 DEF DayOfCycle
<1> HIDE DEF j
<1> DEFINE y == yoe + q * 400
<1>8. y \in Int /\ y \div 400 = q /\ y % 400 = yoe
  BY <1>0, <1>5, SMT
<1>9. DaysThrough(y) = InCycles(q, yoe)
  <2> HIDE DEF y
  <2> QED
    BY <1>8, InCenturies, SMT
<1>10. InYear(n, y, j)
  BY <1>0, <1>1, <1>3, <1>4, <1>5, <1>6, <1>9, SMT DEF DayOfCycle, InYear, InCycles
<1>11. j = 365 => isLeapYear(y + 1)
  <2> SUFFICES ASSUME j = 365 PROVE isLeapYear(y + 1)
    OBVIOUS
  <2>1. y + 1 = 400 * q + 100 * c + 4 * b + 4
    BY <1>0, <1>4, <1>6, <1>7, SMT
  <2>2. FourthYear(y + 1, q, c, b)
    BY <1>6, <1>7, <2>1 DEF FourthYear
  <2> HIDE DEF y
  <2> QED
    BY <1>0, <2>2, LeapDayOfCycle
<1> HIDE DEF y
<1>12. IsDateOf([year  |-> y + (IF m < 10 THEN 0 ELSE 1),
                 month |-> IF m < 10 THEN m + 3 ELSE m - 9,
                 day   |-> j - Elapsed(m) + 1], n)
  BY <1>6, <1>7, <1>8, <1>10, <1>11, DateOfMarch
<1> QED
  BY <1>2, <1>12, Zenon DEF y

-----------------------------------------------------------------------------
(* Times, as days and seconds of the day.                                  *)

IsTime(a) ==
    /\ a = <<a[1], a[2]>>
    /\ a[1] \in Int /\ a[2] \in Int /\ 0 <= a[2] /\ a[2] < 86400

(* The seconds of a time.                                                  *)
InSeconds(d, s) == 86400 * d + s
Total(a) == InSeconds(a[1], a[2])

LEMMA SpanIsTime ==
  ASSUME NEW d \in Int, NEW s \in Int
  PROVE  /\ IsTime(Span(d, s)) /\ Total(Span(d, s)) = InSeconds(d, s)
         /\ InSeconds(d, s) \in Int
<1> DEFINE q == s \div 86400
           r == s % 86400
<1>1. q \in Int /\ r \in Int /\ 0 <= r /\ r < 86400 /\ s = 86400 * q + r
  BY SMT
<1>2. Span(d, s) = <<d + q, r>>
  BY DEF Span
<1> HIDE DEF q, r
<1>3. IsTime(<<d + q, r>>)
  BY <1>1, SMT DEF IsTime
<1>4. InSeconds(d + q, r) = InSeconds(d, s) /\ InSeconds(d, s) \in Int
  BY <1>1, SMT DEF InSeconds
<1>5. Total(<<d + q, r>>) = InSeconds(d + q, r)
  BY Zenon DEF Total
<1> QED
  BY <1>2, <1>3, <1>4, <1>5, Zenon

LEMMA SumIsTime ==
  ASSUME NEW a, IsTime(a), NEW b, IsTime(b)
  PROVE  /\ IsTime(Plus(a, b)) /\ Total(Plus(a, b)) = Total(a) + Total(b)
         /\ IsTime(Minus(a, b)) /\ Total(Minus(a, b)) = Total(a) - Total(b)
         /\ Total(a) \in Int
<1> DEFINE a1 == a[1]
           a2 == a[2]
           b1 == b[1]
           b2 == b[2]
<1>1. a1 \in Int /\ a2 \in Int /\ b1 \in Int /\ b2 \in Int
  BY SMT DEF IsTime
<1>2. Plus(a, b) = Span(a1 + b1, a2 + b2) /\ Minus(a, b) = Span(a1 - b1, a2 - b2)
  BY Zenon DEF Plus, Minus
<1>3. Total(a) = InSeconds(a1, a2) /\ Total(b) = InSeconds(b1, b2)
  BY Zenon DEF Total
<1> HIDE DEF a1, a2, b1, b2
<1>4. /\ InSeconds(a1, a2) \in Int
      /\ InSeconds(a1 + b1, a2 + b2) = InSeconds(a1, a2) + InSeconds(b1, b2)
      /\ InSeconds(a1 - b1, a2 - b2) = InSeconds(a1, a2) - InSeconds(b1, b2)
  BY <1>1, SMT DEF InSeconds
<1>5. /\ a1 + b1 \in Int /\ a2 + b2 \in Int
      /\ a1 - b1 \in Int /\ a2 - b2 \in Int
  BY <1>1, SMT
<1>6. /\ IsTime(Span(a1 + b1, a2 + b2))
      /\ Total(Span(a1 + b1, a2 + b2)) = InSeconds(a1 + b1, a2 + b2)
  BY <1>5, SpanIsTime, Zenon
<1>7. /\ IsTime(Span(a1 - b1, a2 - b2))
      /\ Total(Span(a1 - b1, a2 - b2)) = InSeconds(a1 - b1, a2 - b2)
  BY <1>5, SpanIsTime, Zenon
<1> QED
  BY <1>2, <1>3, <1>4, <1>6, <1>7, Zenon

LEMMA SecondsCompare ==
  ASSUME NEW a1 \in Int, NEW a2 \in Int, 0 <= a2, a2 < 86400,
         NEW b1 \in Int, NEW b2 \in Int, 0 <= b2, b2 < 86400
  PROVE  /\ (a1 < b1 \/ (a1 = b1 /\ a2 < b2)) <=> InSeconds(a1, a2) < InSeconds(b1, b2)
         /\ InSeconds(a1, a2) = InSeconds(b1, b2) => a1 = b1 /\ a2 = b2
<1>1. CASE a1 < b1
  BY <1>1, SMT DEF InSeconds
<1>2. CASE a1 = b1
  BY <1>2, SMT DEF InSeconds
<1>3. CASE b1 < a1
  BY <1>3, SMT DEF InSeconds
<1> QED
  BY <1>1, <1>2, <1>3, SMT

LEMMA TimesCompare ==
  ASSUME NEW a, IsTime(a), NEW b, IsTime(b)
  PROVE  /\ Before(a, b) <=> Total(a) < Total(b)
         /\ a = b <=> Total(a) = Total(b)
<1>1. /\ a[1] \in Int /\ a[2] \in Int /\ 0 <= a[2] /\ a[2] < 86400
      /\ b[1] \in Int /\ b[2] \in Int /\ 0 <= b[2] /\ b[2] < 86400
  BY DEF IsTime
<1>2. /\ (a[1] < b[1] \/ (a[1] = b[1] /\ a[2] < b[2]))
            <=> InSeconds(a[1], a[2]) < InSeconds(b[1], b[2])
      /\ InSeconds(a[1], a[2]) = InSeconds(b[1], b[2]) => a[1] = b[1] /\ a[2] = b[2]
  BY <1>1, SecondsCompare
<1>3. a[1] = b[1] /\ a[2] = b[2] => a = b
  BY SMT DEF IsTime
<1> QED
  BY <1>2, <1>3 DEF Before, Total

LEMMA IntIs ==
  ASSUME NEW a, IsTime(a)
  PROVE  IsInt(a) <=> -2147483648 <= Total(a) /\ Total(a) < 2147483648
<1>1. IsTime(Half) /\ Total(Half) = 2147483648
  BY SMT DEF IsTime, Half, Total, InSeconds
<1>2. IsTime(<<0, 0>>) /\ Total(<<0, 0>>) = 0
  BY SMT DEF IsTime, Total, InSeconds
<1>3. /\ IsTime(Plus(a, Half)) /\ Total(Plus(a, Half)) = Total(a) + Total(Half)
      /\ Total(a) \in Int
  BY <1>1, SumIsTime
<1>4. Before(a, Half) <=> Total(a) < Total(Half)
  BY <1>1, TimesCompare
<1>5. Before(Plus(a, Half), <<0, 0>>) <=> Total(Plus(a, Half)) < 0
  BY <1>2, <1>3, TimesCompare
<1> QED
  BY <1>1, <1>3, <1>4, <1>5, SMT DEF IsInt

(* a less i times 2^32.                                                    *)
Overflow(i) == 4294967296 * i
Wrapped(a, i) == Minus(a, Span(i * Full[1], i * Full[2]))

LEMMA WrappedIs ==
  ASSUME NEW a, IsTime(a), NEW i \in Int
  PROVE  IsTime(Wrapped(a, i)) /\ Total(Wrapped(a, i)) = Total(a) - Overflow(i)
<1> DEFINE d == i * Full[1]
           r == i * Full[2]
           f == Span(d, r)
<1>1. Full[1] = 49710 /\ Full[2] = 23296
  BY SMT DEF Full
<1>2. d \in Int /\ r \in Int /\ InSeconds(d, r) = Overflow(i)
  BY <1>1, SMT DEF InSeconds, Overflow
<1>3. Wrapped(a, i) = Minus(a, f)
  BY DEF Wrapped
<1> HIDE DEF d, r
<1>4. IsTime(f) /\ Total(f) = InSeconds(d, r)
  BY <1>2, SpanIsTime
<1> HIDE DEF f
<1>5. IsTime(Minus(a, f)) /\ Total(Minus(a, f)) = Total(a) - Total(f)
  BY <1>4, SumIsTime
<1> QED
  BY <1>2, <1>3, <1>4, <1>5, SMT

(* An int holds one of the values that differ by multiples of 2^32.        *)
LEMMA ToIntWraps ==
  ASSUME NEW a, IsTime(a), a[1] \in Ints
  PROVE  \E i \in Int : ToInt(a) = Wrapped(a, i) /\ IsInt(Wrapped(a, i))
<1> DEFINE k == a[1] \div Full[1]
           values == {Wrapped(a, i) : i \in k - 1 .. k + 1}
           j == (Total(a) + 2147483648) \div 4294967296
<1>1. a[1] \in Int /\ Total(a) \in Int
  BY SumIsTime DEF IsTime
<1>2. Full[1] = 49710
  BY SMT DEF Full
<1>3. /\ j \in Int /\ Overflow(j) <= Total(a) + 2147483648
      /\ Total(a) + 2147483648 < Overflow(j) + 4294967296
  BY <1>1, SMT DEF Overflow
<1>4. k \in Int /\ 49710 * k <= a[1] /\ a[1] < 49710 * k + 49710
  BY <1>1, <1>2, SMT
<1> HIDE DEF j, k
<1>5. j \in k - 1 .. k + 1
  BY <1>1, <1>3, <1>4, SMT DEF Total, InSeconds, IsTime, Ints, Overflow
<1>6. IsTime(Wrapped(a, j)) /\ Total(Wrapped(a, j)) = Total(a) - Overflow(j)
  BY <1>3, WrappedIs, SMT
<1>7. IsInt(Wrapped(a, j))
  BY <1>1, <1>3, <1>6, IntIs, SMT DEF Overflow
<1>8. ToInt(a) = CHOOSE b \in values : IsInt(b)
  BY Zenon DEF ToInt, Wrapped, k
<1>9. \E b \in values : IsInt(b)
  BY <1>5, <1>7, Zenon
<1>10. ToInt(a) \in values /\ IsInt(ToInt(a))
  <2> HIDE DEF values
  <2> QED
    BY <1>8, <1>9, Zenon
<1>11. PICK i \in k - 1 .. k + 1 : ToInt(a) = Wrapped(a, i)
  BY <1>10, Zenon
<1>12. i \in Int
  BY <1>4, <1>11, SMT
<1> QED
  BY <1>10, <1>11, <1>12, Zenon

(* ... and what fits stays as it is.                                       *)
LEMMA ToIntKeeps ==
  ASSUME NEW a, IsTime(a), IsInt(a)
  PROVE  ToInt(a) = a
<1>1. Total(a) \in Int /\ -2147483648 <= Total(a) /\ Total(a) < 2147483648
  BY IntIs, SumIsTime
<1>2. a[1] \in Ints
  BY <1>1, SMT DEF Total, InSeconds, IsTime, Ints
<1>3. PICK i \in Int : ToInt(a) = Wrapped(a, i) /\ IsInt(Wrapped(a, i))
  BY <1>2, ToIntWraps
<1>4. IsTime(Wrapped(a, i)) /\ Total(Wrapped(a, i)) = Total(a) - Overflow(i)
  BY WrappedIs, SMT
<1>5. -2147483648 <= Total(Wrapped(a, i)) /\ Total(Wrapped(a, i)) < 2147483648
  BY <1>3, <1>4, IntIs, SMT
<1>6. i = 0
  BY <1>1, <1>4, <1>5, SMT DEF Overflow
<1>7. Total(Wrapped(a, i)) = Total(a)
  BY <1>1, <1>4, <1>6, SMT DEF Overflow
<1> QED
  BY <1>3, <1>4, <1>7, TimesCompare, SMT

-----------------------------------------------------------------------------
(* The order of dates.                                                     *)

LEMMA YearsInOrder ==
  ASSUME NEW a \in Int, NEW b \in Int, a <= b
  PROVE  DaysThrough(a) <= DaysThrough(b)
<1>1. /\ (a \div 4) <= (b \div 4) /\ (a \div 400) <= (b \div 400)
      /\ a \div 4 \in Int /\ b \div 4 \in Int /\ a \div 400 \in Int /\ b \div 400 \in Int
  BY SMT
<1>2. /\ (b \div 100) - (a \div 100) <= b - a
      /\ a \div 100 \in Int /\ b \div 100 \in Int
  BY SMT
<1> QED
  BY <1>1, <1>2, SMT DEF DaysThrough, LeapDays

(* A date is in its year, and in its month.                                *)
LEMMA InItsYear ==
  ASSUME NEW year, NEW month, NEW day, IsDate(year, month, day)
  PROVE  /\ DaysThrough(year - 1) - 719162 <= DayOf(year, month, day)
         /\ DayOf(year, month, day) < DaysThrough(year) - 719162
<1>1. /\ year \in Int /\ year - 1 \in Int /\ year - 1 + 1 = year /\ day \in Int /\ 1 <= day
      /\ month \in 1 .. 12 /\ day <= getLastDayOfMonth(year, month)
      /\ DaysBefore(year)[month] \in Int
  BY DateBounds DEF IsDate
<1>2. LeapDays(year) = LeapDays(year - 1) + Leap(year) /\ LeapDays(year - 1) \in Int
  BY <1>1, OneMoreYear, LeapDaysInt DEF Leap
<1>3. DaysThrough(year) = DaysThrough(year - 1) + 365 + Leap(year)
  BY <1>1, <1>2, MonthDays DEF DaysThrough
<1>4. DaysThrough(year - 1) \in Int /\ Leap(year) \in Int
  BY <1>1, LeapDaysInt, MonthDays
<1>5. /\ 0 <= DaysBefore(year)[month]
      /\ DaysBefore(year)[month] + day <= 365 + Leap(year)
  <2>1. month \in {1, 2, 3, 4, 5, 6, 7, 8, 9, 10, 11, 12}
    BY <1>1
  <2> QED
    BY <1>1, <2>1, MonthDays, LastDays, SMT
<1> QED
  BY <1>1, <1>3, <1>4, <1>5, SMT DEF DayOf

LEMMA MonthsInOrder ==
  ASSUME NEW year, NEW m1 \in 1 .. 12, NEW m2 \in 1 .. 12, m1 < m2
  PROVE  DaysBefore(year)[m1] + getLastDayOfMonth(year, m1) <= DaysBefore(year)[m2]
<1>1. m1 \in {1, 2, 3, 4, 5, 6, 7, 8, 9, 10, 11} /\ m2 \in {2, 3, 4, 5, 6, 7, 8, 9, 10, 11, 12}
  BY SMT
<1> QED
  BY <1>1, MonthDays, LastDays, SMT

(* One date before another, by its digits.                                 *)
Earlier(y1, m1, d1, y2, m2, d2) ==
    y1 < y2 \/ (y1 = y2 /\ (m1 < m2 \/ (m1 = m2 /\ d1 < d2)))

LEMMA DatesInOrder ==
  ASSUME NEW y1, NEW m1, NEW d1, IsDate(y1, m1, d1),
         NEW y2, NEW m2, NEW d2, IsDate(y2, m2, d2),
         Earlier(y1, m1, d1, y2, m2, d2)
  PROVE  DayOf(y1, m1, d1) < DayOf(y2, m2, d2)
<1>1. /\ y1 \in Int /\ m1 \in 1 .. 12 /\ d1 \in Int /\ d1 <= getLastDayOfMonth(y1, m1)
      /\ y2 \in Int /\ m2 \in 1 .. 12 /\ d2 \in Int /\ 1 <= d2
      /\ DaysBefore(y1)[m1] \in Int /\ DaysBefore(y2)[m2] \in Int
      /\ DayOf(y1, m1, d1) \in Int /\ DayOf(y2, m2, d2) \in Int
  BY DateBounds DEF IsDate
<1>2. CASE y1 < y2
  <2>1. y2 - 1 \in Int /\ y1 <= y2 - 1
    BY <1>1, <1>2, SMT
  <2>2. DaysThrough(y1) <= DaysThrough(y2 - 1)
    BY <1>1, <2>1, YearsInOrder
  <2>3. DaysThrough(y1) \in Int /\ DaysThrough(y2 - 1) \in Int
    BY <1>1, <2>1, LeapDaysInt
  <2> QED
    BY <1>1, <2>2, <2>3, InItsYear, SMT
<1>3. CASE y1 = y2 /\ m1 < m2
  <2>1. DaysBefore(y1)[m1] + getLastDayOfMonth(y1, m1) <= DaysBefore(y1)[m2]
    BY <1>1, <1>3, MonthsInOrder
  <2>2. getLastDayOfMonth(y1, m1) \in Int
    <3>1. m1 \in {1, 2, 3, 4, 5, 6, 7, 8, 9, 10, 11, 12}
      BY <1>1
    <3> QED
      BY <3>1, LastDays, MonthDays, SMT
  <2>3. DaysThrough(y1 - 1) \in Int
    BY <1>1, LeapDaysInt
  <2> QED
    BY <1>1, <1>3, <2>1, <2>2, <2>3, SMT DEF DayOf
<1>4. CASE y1 = y2 /\ m1 = m2 /\ d1 < d2
  <2>1. DaysThrough(y1 - 1) \in Int
    BY <1>1, LeapDaysInt
  <2> QED
    BY <1>1, <1>4, <2>1, SMT DEF DayOf
<1> QED
  BY <1>2, <1>3, <1>4 DEF Earlier

LEMMA DatesCompare ==
  ASSUME NEW y1, NEW m1, NEW d1, IsDate(y1, m1, d1),
         NEW y2, NEW m2, NEW d2, IsDate(y2, m2, d2)
  PROVE  /\ DayOf(y1, m1, d1) < DayOf(y2, m2, d2) <=> Earlier(y1, m1, d1, y2, m2, d2)
         /\ DayOf(y1, m1, d1) = DayOf(y2, m2, d2) => y1 = y2 /\ m1 = m2 /\ d1 = d2
<1>1. /\ y1 \in Int /\ m1 \in Int /\ d1 \in Int /\ DayOf(y1, m1, d1) \in Int
      /\ y2 \in Int /\ m2 \in Int /\ d2 \in Int /\ DayOf(y2, m2, d2) \in Int
  BY DateBounds
<1>2. \/ Earlier(y1, m1, d1, y2, m2, d2)
      \/ Earlier(y2, m2, d2, y1, m1, d1)
      \/ y1 = y2 /\ m1 = m2 /\ d1 = d2
  BY <1>1, SMT DEF Earlier
<1>3. CASE Earlier(y1, m1, d1, y2, m2, d2)
  <2>1. DayOf(y1, m1, d1) < DayOf(y2, m2, d2)
    BY <1>3, DatesInOrder
  <2> QED
    BY <1>1, <1>3, <2>1, SMT
<1>4. CASE Earlier(y2, m2, d2, y1, m1, d1)
  <2>1. DayOf(y2, m2, d2) < DayOf(y1, m1, d1)
    BY <1>4, DatesInOrder
  <2>2. ~Earlier(y1, m1, d1, y2, m2, d2)
    BY <1>1, <1>4, SMT DEF Earlier
  <2> QED
    BY <1>1, <2>1, <2>2, SMT
<1>5. CASE y1 = y2 /\ m1 = m2 /\ d1 = d2
  <2>1. ~Earlier(y1, m1, d1, y2, m2, d2)
    BY <1>1, <1>5, SMT DEF Earlier
  <2> QED
    BY <1>1, <1>5, <2>1, SMT
<1> QED
  BY <1>2, <1>3, <1>4, <1>5

-----------------------------------------------------------------------------
(* The day of the week.                                                    *)

(* Zeller's sum, of a month counted from March.                            *)
Zeller(y, m, day) ==
    day + 1 + 2 * (m + 3) + (3 * (m + 4)) \div 5 + y + (y \div 4)
        - (y \div 100) + (y \div 400)

LEMMA ZellerCounts ==
  ASSUME NEW y \in Int, NEW m \in 0 .. 11, NEW day \in Int
  PROVE  Zeller(y, m, day) % 7 = (MarchDay(y, m, day) + 4) % 7
<1> DEFINE x == MarchDay(y, m, day) + 4
<1>1. PICK k \in Int : 2 * m + (3 * (m + 4)) \div 5 - Elapsed(m) + 719472 = 7 * k
  <2> DEFINE f == 2 * m + (3 * (m + 4)) \div 5 - Elapsed(m) + 719472
  <2>1. m \in {0, 1, 2, 3, 4, 5, 6, 7, 8, 9, 10, 11}
    OBVIOUS
  <2>2. /\ 12 \div 5 = 2 /\ 15 \div 5 = 3 /\ 18 \div 5 = 3 /\ 21 \div 5 = 4
        /\ 24 \div 5 = 4 /\ 27 \div 5 = 5 /\ 30 \div 5 = 6 /\ 33 \div 5 = 6
        /\ 36 \div 5 = 7 /\ 39 \div 5 = 7 /\ 42 \div 5 = 8 /\ 45 \div 5 = 9
    BY SMT
  <2>3. f \in Int /\ f % 7 = 0
    BY <2>1, <2>2, ElapsedIs, SMT
  <2> HIDE DEF f
  <2>4. f \div 7 \in Int /\ f = 7 * (f \div 7)
    BY <2>3, SMT
  <2> QED
    BY <2>4, SMT DEF f
<1>2. LeapDays(y) \in Int /\ Elapsed(m) \in Int /\ x \in Int
  <2>1. m \in {0, 1, 2, 3, 4, 5, 6, 7, 8, 9, 10, 11}
    OBVIOUS
  <2>2. Elapsed(m) \in Int
    BY <2>1, ElapsedIs, SMT
  <2> QED
    BY <2>2, LeapDaysInt, SMT DEF MarchDay
<1>3. Zeller(y, m, day) =
        day + 7 + 2 * m + (3 * (m + 4)) \div 5 + y + LeapDays(y)
  BY SMT DEF Zeller, LeapDays
<1>4. x = 365 * y + LeapDays(y) + Elapsed(m) + day - 719465
  BY <1>2, SMT DEF MarchDay, DaysThrough
<1> HIDE DEF x
<1>5. Zeller(y, m, day) = x + 7 * (k - 52 * y)
  BY <1>1, <1>2, <1>3, <1>4, SMT
<1>6. k - 52 * y \in Int
  BY <1>1, SMT
<1>7. (x + 7 * (k - 52 * y)) % 7 = x % 7
  <2> DEFINE i == k - 52 * y
  <2>1. i \in Int
    BY <1>6
  <2> HIDE DEF i
  <2>2. (x + 7 * i) % 7 = x % 7
    BY <1>2, <2>1, SMT
  <2> QED
    BY <2>2 DEF i
<1> QED
  BY <1>5, <1>7 DEF x

LEMMA WeekDayCounts ==
  ASSUME NEW year, NEW month, NEW day, IsDate(year, month, day)
  PROVE  fa_getWeekDay(year, month, day) = (DayOf(year, month, day) + 4) % 7
<1>1. year \in Int /\ year - 1 \in Int /\ month \in 1 .. 12 /\ day \in Int
  BY DateBounds DEF IsDate
<1>2. DayOf(year, month, day) = DayNumber(year, month, day)
  BY CalendarsAgree
<1>3. CASE month < 3
  <2> DEFINE y == year - 1
             m == month + 9
  <2>1. DayOf(year, month, day) = MarchDay(y, m, day)
    BY <1>1, <1>2, <1>3, DayNumberIs
  <2>2. fa_getWeekDay(year, month, day) = WeekDay(y, month + 12, day)
    BY <1>1, <1>3, SMT DEF fa_getWeekDay
  <2>3. y \in Int /\ m \in 0 .. 11 /\ m + 3 = month + 12 /\ m + 4 = month + 12 + 1
    BY <1>1, <1>3, SMT
  <2> HIDE DEF y, m
  <2>4. WeekDay(y, month + 12, day) = Zeller(y, m, day) % 7
    BY <2>3, Zenon DEF WeekDay, Zeller
  <2> QED
    BY <1>1, <2>1, <2>2, <2>3, <2>4, ZellerCounts
<1>4. CASE month >= 3
  <2> DEFINE m == month - 3
  <2>1. DayOf(year, month, day) = MarchDay(year, m, day)
    BY <1>1, <1>2, <1>4, DayNumberIs
  <2>2. fa_getWeekDay(year, month, day) = WeekDay(year, month, day)
    BY <1>1, <1>4, SMT DEF fa_getWeekDay
  <2>3. m \in 0 .. 11 /\ m + 3 = month /\ m + 4 = month + 1
    BY <1>1, <1>4, SMT
  <2> HIDE DEF m
  <2>4. WeekDay(year, month, day) = Zeller(year, m, day) % 7
    BY <2>3, Zenon DEF WeekDay, Zeller
  <2> QED
    BY <1>1, <2>1, <2>2, <2>3, <2>4, ZellerCounts
<1> QED
  BY <1>1, <1>3, <1>4, SMT

-----------------------------------------------------------------------------
(* The objects.                                                            *)

(* What names a day and a time of it.                                      *)
IsValid(s) ==
    /\ s \in Digits
    /\ IsDate(s.year, s.month, s.day)
    /\ verifyTime(s)

TimeOfDay(s) == s.hour * 3600 + s.minute * 60 + s.second

LEMMA VerifiedIsValid ==
  ASSUME NEW s, verifyFormat(s)
  PROVE  IsValid(s) /\ IsYear(s.year)
<1>1. s \in Digits /\ verifyDate(s) /\ verifyTime(s)
  BY DEF verifyFormat
<1>2. s \in Digits /\ s.year \in Int
  BY <1>1 DEF Digits
<1>3. IsDate(s.year, s.month, s.day) /\ IsYear(s.year)
  BY <1>1, <1>2 DEF verifyDate, IsDate
<1> QED
  BY <1>1, <1>2, <1>3 DEF IsValid

LEMMA ValidIsVerified ==
  ASSUME NEW s, IsValid(s), IsYear(s.year)
  PROVE  verifyFormat(s)
<1>1. s \in Digits
  BY DEF IsValid
<1>2. verifyDate(s)
  BY DEF IsValid, IsDate, verifyDate
<1> QED
  BY <1>1, <1>2 DEF IsValid, verifyFormat

LEMMA TimeOfDayIs ==
  ASSUME NEW s, verifyTime(s)
  PROVE  TimeOfDay(s) \in Int /\ 0 <= TimeOfDay(s) /\ TimeOfDay(s) < 86400
<1> DEFINE h == s.hour
           m == s.minute
           c == s.second
<1>1. h \in 0 .. 23 /\ m \in 0 .. 59 /\ c \in 0 .. 59
  BY Zenon DEF verifyTime
<1>2. TimeOfDay(s) = h * 3600 + m * 60 + c
  BY Zenon DEF TimeOfDay
<1> HIDE DEF h, m, c
<1>3. /\ h \in Int /\ 0 <= h /\ h <= 23 /\ m \in Int /\ 0 <= m /\ m <= 59
      /\ c \in Int /\ 0 <= c /\ c <= 59
  BY <1>1, SMT
<1> QED
  BY <1>2, <1>3, SMT

LEMMA ValidTime ==
  ASSUME NEW s, IsValid(s)
  PROVE  /\ Ordinal(s) = <<DayOf(s.year, s.month, s.day), TimeOfDay(s)>>
         /\ mktime(s) = Ordinal(s)
         /\ IsTime(Ordinal(s))
<1> DEFINE d == DayOf(s.year, s.month, s.day)
           t == TimeOfDay(s)
<1>1. d \in Int
  BY DateBounds DEF IsValid
<1>2. t \in Int /\ 0 <= t /\ t < 86400
  BY TimeOfDayIs DEF IsValid
<1>3. Ordinal(s) = Span(d, t)
  BY OrdinalIs DEF IsValid, TimeOfDay
<1>4. mktime(s) = Span(d, t)
  <2>1. DayNumber(s.year, s.month, s.day) = d
    BY CalendarsAgree DEF IsValid
  <2> QED
    BY <2>1 DEF mktime, TimeOfDay
<1> HIDE DEF d, t
<1>5. Span(d, t) = <<d, t>>
  <2>1. t \div 86400 = 0 /\ t % 86400 = t
    BY <1>2, SMT
  <2> QED
    BY <1>1, <2>1, SMT DEF Span
<1>6. IsTime(<<d, t>>)
  BY <1>1, <1>2, SMT DEF IsTime
<1> QED
  BY <1>3, <1>4, <1>5, <1>6 DEF d, t

(* Strings of one length compare as their numbers do, the first deciding.  *)
LEMMA LessIs ==
  ASSUME NEW a \in Digits, NEW b \in Digits
  PROVE  Less(a, b) <=>
           \/ Earlier(a.year, a.month, a.day, b.year, b.month, b.day)
           \/ /\ a.year = b.year /\ a.month = b.month /\ a.day = b.day
              /\ Earlier(a.hour, a.minute, a.second, b.hour, b.minute, b.second)
<1>1. /\ Fields(a)[1] = a.year /\ Fields(a)[2] = a.month /\ Fields(a)[3] = a.day
      /\ Fields(a)[4] = a.hour /\ Fields(a)[5] = a.minute /\ Fields(a)[6] = a.second
      /\ Fields(b)[1] = b.year /\ Fields(b)[2] = b.month /\ Fields(b)[3] = b.day
      /\ Fields(b)[4] = b.hour /\ Fields(b)[5] = b.minute /\ Fields(b)[6] = b.second
  BY DEF Fields
<1> DEFINE At(i) == /\ Fields(a)[i] < Fields(b)[i]
                    /\ \A j \in 1 .. i - 1 : Fields(a)[j] = Fields(b)[j]
<1>2. Less(a, b) <=> \/ At(1) \/ At(2) \/ At(3) \/ At(4) \/ At(5) \/ At(6)
  <2>1. 1 .. 6 = {1, 2, 3, 4, 5, 6}
    BY SMT
  <2> QED
    BY <2>1, Zenon DEF Less
<1>3. /\ At(1) <=> a.year < b.year
      /\ At(2) <=> a.year = b.year /\ a.month < b.month
      /\ At(3) <=> a.year = b.year /\ a.month = b.month /\ a.day < b.day
      /\ At(4) <=> a.year = b.year /\ a.month = b.month /\ a.day = b.day /\ a.hour < b.hour
      /\ At(5) <=> /\ a.year = b.year /\ a.month = b.month /\ a.day = b.day
                   /\ a.hour = b.hour /\ a.minute < b.minute
      /\ At(6) <=> /\ a.year = b.year /\ a.month = b.month /\ a.day = b.day
                   /\ a.hour = b.hour /\ a.minute = b.minute /\ a.second < b.second
  <2>1. /\ 1 .. 1 - 1 = {} /\ 1 .. 2 - 1 = {1} /\ 1 .. 3 - 1 = {1, 2}
        /\ 1 .. 4 - 1 = {1, 2, 3} /\ 1 .. 5 - 1 = {1, 2, 3, 4}
        /\ 1 .. 6 - 1 = {1, 2, 3, 4, 5}
    BY SMT
  <2> QED
    BY <1>1, <2>1, Zenon
<1> HIDE DEF At
<1> QED
  BY <1>2, <1>3, Zenon DEF Earlier

LEMMA TimesOfDayCompare ==
  ASSUME NEW a, verifyTime(a), NEW b, verifyTime(b)
  PROVE  /\ TimeOfDay(a) < TimeOfDay(b)
              <=> Earlier(a.hour, a.minute, a.second, b.hour, b.minute, b.second)
         /\ TimeOfDay(a) = TimeOfDay(b)
              => a.hour = b.hour /\ a.minute = b.minute /\ a.second = b.second
<1> DEFINE h1 == a.hour
           m1 == a.minute
           s1 == a.second
           h2 == b.hour
           m2 == b.minute
           s2 == b.second
<1>1. /\ h1 \in 0 .. 23 /\ m1 \in 0 .. 59 /\ s1 \in 0 .. 59
      /\ h2 \in 0 .. 23 /\ m2 \in 0 .. 59 /\ s2 \in 0 .. 59
  BY Zenon DEF verifyTime
<1>2. /\ TimeOfDay(a) = h1 * 3600 + m1 * 60 + s1
      /\ TimeOfDay(b) = h2 * 3600 + m2 * 60 + s2
  BY SMT DEF TimeOfDay
<1> HIDE DEF h1, m1, s1, h2, m2, s2
<1>3. /\ h1 \in Int /\ m1 \in Int /\ 0 <= m1 /\ m1 <= 59 /\ s1 \in Int /\ 0 <= s1 /\ s1 <= 59
      /\ h2 \in Int /\ m2 \in Int /\ 0 <= m2 /\ m2 <= 59 /\ s2 \in Int /\ 0 <= s2 /\ s2 <= 59
  BY <1>1, SMT
<1>4. /\ TimeOfDay(a) < TimeOfDay(b) <=> Earlier(h1, m1, s1, h2, m2, s2)
      /\ TimeOfDay(a) = TimeOfDay(b) => h1 = h2 /\ m1 = m2 /\ s1 = s2
  BY <1>2, <1>3, SMT DEF Earlier
<1> QED
  BY <1>4, Zenon DEF h1, m1, s1, h2, m2, s2

LEMMA MomentsCompare ==
  ASSUME NEW a, IsValid(a), NEW b, IsValid(b)
  PROVE  /\ Less(a, b) <=> Before(Ordinal(a), Ordinal(b))
         /\ a = b <=> Ordinal(a) = Ordinal(b)
<1> DEFINE d1 == DayOf(a.year, a.month, a.day)
           d2 == DayOf(b.year, b.month, b.day)
           t1 == TimeOfDay(a)
           t2 == TimeOfDay(b)
<1>1. a \in Digits /\ b \in Digits
  BY DEF IsValid
<1>2. Ordinal(a) = <<d1, t1>> /\ Ordinal(b) = <<d2, t2>>
  BY ValidTime
<1>3. /\ d1 < d2 <=> Earlier(a.year, a.month, a.day, b.year, b.month, b.day)
      /\ d1 = d2 => a.year = b.year /\ a.month = b.month /\ a.day = b.day
  BY DatesCompare DEF IsValid
<1>4. /\ t1 < t2 <=> Earlier(a.hour, a.minute, a.second, b.hour, b.minute, b.second)
      /\ t1 = t2 => a.hour = b.hour /\ a.minute = b.minute /\ a.second = b.second
  BY TimesOfDayCompare DEF IsValid
<1>5. a.year = b.year /\ a.month = b.month /\ a.day = b.day => d1 = d2
  OBVIOUS
<1> HIDE DEF d1, d2, t1, t2
<1>6. Less(a, b) <=> Before(Ordinal(a), Ordinal(b))
  <2>1. Before(<<d1, t1>>, <<d2, t2>>) <=> d1 < d2 \/ (d1 = d2 /\ t1 < t2)
    BY DEF Before
  <2> QED
    BY <1>1, <1>2, <1>3, <1>4, <1>5, <2>1, LessIs
<1>7. ASSUME Ordinal(a) = Ordinal(b) PROVE a = b
  <2>1. d1 = d2 /\ t1 = t2
    BY <1>2, <1>7
  <2> QED
    BY <1>1, <1>3, <1>4, <2>1 DEF Digits
<1> QED
  BY <1>6, <1>7

-----------------------------------------------------------------------------
(* localtime gives a moment with the time it was asked for.                *)
LEMMA LocalTimeIs ==
  ASSUME NEW a, IsTime(a)
  PROVE  IsValid(localtime(a)) /\ Ordinal(localtime(a)) = a
<1> DEFINE d == DateOf(a[1])
           t == a[2]
           s == localtime(a)
<1>1. /\ a = <<a[1], t>> /\ a[1] \in Int
      /\ t \in Int /\ 0 <= t /\ t < 86400
  BY DEF IsTime
<1>2. /\ IsDate(d.year, d.month, d.day)
      /\ DayNumber(d.year, d.month, d.day) = a[1]
  BY <1>1, DateOfIsDate DEF IsDateOf
<1>3. DayOf(d.year, d.month, d.day) = a[1]
  BY <1>2, CalendarsAgree
<1>4. d.year \in Int /\ d.month \in Int /\ d.day \in Int
  BY <1>2, DateBounds
<1>5. s = [year |-> d.year, month |-> d.month, day |-> d.day,
           hour |-> t \div 3600, minute |-> (t \div 60) % 60, second |-> t % 60]
  BY Zenon DEF localtime
<1> HIDE DEF d, t
<1> DEFINE u == t \div 60
           c == t % 60
           h == u \div 60
           m == u % 60
<1>0. (t \div 60) % 60 = m /\ t % 60 = c
  OBVIOUS
<1>6. /\ u \in Int /\ 0 <= u /\ u < 1440 /\ c \in Int /\ 0 <= c /\ c < 60
      /\ t = 60 * u + c
  BY <1>1, SMT
<1> HIDE DEF u, c
<1>7. /\ h \in Int /\ 0 <= h /\ h < 24 /\ m \in Int /\ 0 <= m /\ m < 60
      /\ u = 60 * h + m
  BY <1>6, SMT
<1> HIDE DEF h, m
<1>8. t \div 3600 = h /\ (t \div 60) % 60 = m /\ t % 60 = c
  <2>1. t \div 3600 = h
    <3> DEFINE x == 60 * m + c
    <3>1. x \in Int /\ 0 <= x /\ x < 3600 /\ t = 3600 * h + x
      BY <1>6, <1>7, SMT
    <3> HIDE DEF x
    <3> QED
      BY <1>7, <3>1, SMT
  <2> QED
    BY <1>0, <2>1
<1>9. /\ s.year = d.year /\ s.month = d.month /\ s.day = d.day
      /\ s.hour = h /\ s.minute = m /\ s.second = c
  BY <1>5, <1>8
<1>10. s \in Digits
  BY <1>4, <1>5, <1>6, <1>7, <1>8 DEF Digits
<1> HIDE DEF s
<1>11. IsValid(s)
  <2>1. h \in 0 .. 23 /\ m \in 0 .. 59 /\ c \in 0 .. 59
    BY <1>6, <1>7, SMT
  <2> QED
    BY <1>2, <1>9, <1>10, <2>1 DEF IsValid, verifyTime
<1>12. TimeOfDay(s) = t
  <2>1. TimeOfDay(s) = h * 3600 + m * 60 + c
    BY <1>9, SMT DEF TimeOfDay
  <2> QED
    BY <1>6, <1>7, <2>1, SMT
<1>13. Ordinal(s) = <<a[1], t>>
  BY <1>3, <1>9, <1>11, <1>12, ValidTime
<1> QED
  BY <1>1, <1>11, <1>13 DEF s

-----------------------------------------------------------------------------
(* What the objects keep.                                                  *)

(* What FaDate and FaTime leave out, field by field.                       *)
LEMMA TimeCleared ==
  ASSUME NEW s \in Digits
  PROVE  [s EXCEPT !.hour = 0, !.minute = 0, !.second = 0] =
           [year |-> s.year, month |-> s.month, day |-> s.day,
            hour |-> 0, minute |-> 0, second |-> 0]
<1> DEFINE a == [s EXCEPT !.hour = 0]
           b == [a EXCEPT !.minute = 0]
           c == [b EXCEPT !.second = 0]
<1>1. /\ a \in Digits
      /\ a.year = s.year /\ a.month = s.month /\ a.day = s.day
      /\ a.hour = 0 /\ a.minute = s.minute /\ a.second = s.second
  BY SMT DEF Digits
<1> HIDE DEF a
<1>2. /\ b \in Digits
      /\ b.year = s.year /\ b.month = s.month /\ b.day = s.day
      /\ b.hour = 0 /\ b.minute = 0 /\ b.second = s.second
  BY <1>1, SMT DEF Digits
<1> HIDE DEF b
<1>3. /\ c \in Digits
      /\ c.year = s.year /\ c.month = s.month /\ c.day = s.day
      /\ c.hour = 0 /\ c.minute = 0 /\ c.second = 0
  BY <1>2, SMT DEF Digits
<1>4. [s EXCEPT !.hour = 0, !.minute = 0, !.second = 0] = c
  BY DEF a, b
<1> HIDE DEF c
<1>5. c = [year |-> c.year, month |-> c.month, day |-> c.day,
           hour |-> c.hour, minute |-> c.minute, second |-> c.second]
  BY <1>3, SMT DEF Digits
<1> QED
  BY <1>3, <1>4, <1>5

(* The year FaTime fills in.                                               *)
Start == 1970

LEMMA DateCleared ==
  ASSUME NEW s \in Digits
  PROVE  [s EXCEPT !.year = Start, !.month = 1, !.day = 1] =
           [year |-> Start, month |-> 1, day |-> 1,
            hour |-> s.hour, minute |-> s.minute, second |-> s.second]
<1> DEFINE a == [s EXCEPT !.year = Start]
           b == [a EXCEPT !.month = 1]
           c == [b EXCEPT !.day = 1]
<1>0. Start \in Int
  BY DEF Start
<1>1. /\ a \in Digits
      /\ a.year = Start /\ a.month = s.month /\ a.day = s.day
      /\ a.hour = s.hour /\ a.minute = s.minute /\ a.second = s.second
  BY <1>0, SMT DEF Digits
<1> HIDE DEF a
<1>2. /\ b \in Digits
      /\ b.year = Start /\ b.month = 1 /\ b.day = s.day
      /\ b.hour = s.hour /\ b.minute = s.minute /\ b.second = s.second
  BY <1>1, SMT DEF Digits
<1> HIDE DEF b
<1>3. /\ c \in Digits
      /\ c.year = Start /\ c.month = 1 /\ c.day = 1
      /\ c.hour = s.hour /\ c.minute = s.minute /\ c.second = s.second
  BY <1>2, SMT DEF Digits
<1>4. [s EXCEPT !.year = Start, !.month = 1, !.day = 1] = c
  BY DEF a, b
<1> HIDE DEF c
<1>5. c = [year |-> c.year, month |-> c.month, day |-> c.day,
           hour |-> c.hour, minute |-> c.minute, second |-> c.second]
  BY <1>3, SMT DEF Digits
<1> QED
  BY <1>3, <1>4, <1>5

LEMMA KeepIs ==
  ASSUME class \in Classes, NEW s \in Digits
  PROVE  Keep(s) = [year   |-> IF class = "FaTime" THEN 1970 ELSE s.year,
                    month  |-> IF class = "FaTime" THEN 1 ELSE s.month,
                    day    |-> IF class = "FaTime" THEN 1 ELSE s.day,
                    hour   |-> IF class = "FaDate" THEN 0 ELSE s.hour,
                    minute |-> IF class = "FaDate" THEN 0 ELSE s.minute,
                    second |-> IF class = "FaDate" THEN 0 ELSE s.second]
<1>1. s \in Digits
  OBVIOUS
<1>2. CASE class = "FaDate"
  <2>1. Keep(s) = [s EXCEPT !.hour = 0, !.minute = 0, !.second = 0]
    BY <1>1, <1>2 DEF Keep
  <2>2. [s EXCEPT !.hour = 0, !.minute = 0, !.second = 0] =
           [year |-> s.year, month |-> s.month, day |-> s.day,
            hour |-> 0, minute |-> 0, second |-> 0]
    BY TimeCleared, Zenon
  <2> QED
    BY <1>2, <2>1, <2>2
<1>3. CASE class = "FaTime"
  <2>1. Keep(s) = [s EXCEPT !.year = 1970, !.month = 1, !.day = 1]
    BY <1>1, <1>3 DEF Keep
  <2>2. Keep(s) = [s EXCEPT !.year = Start, !.month = 1, !.day = 1]
    BY <2>1 DEF Start
  <2>3. [s EXCEPT !.year = Start, !.month = 1, !.day = 1] =
           [year |-> Start, month |-> 1, day |-> 1,
            hour |-> s.hour, minute |-> s.minute, second |-> s.second]
    BY DateCleared, Zenon
  <2>4. Keep(s) = [year |-> Start, month |-> 1, day |-> 1,
                   hour |-> s.hour, minute |-> s.minute, second |-> s.second]
    BY <2>2, <2>3
  <2> QED
    BY <1>3, <2>4 DEF Start
<1>4. CASE class = "FaDateTime"
  <2>1. Keep(s) = s
    BY <1>1, <1>4 DEF Keep
  <2> QED
    BY <1>4, <2>1 DEF Digits
<1> QED
  BY <1>2, <1>3, <1>4 DEF Classes

LEMMA KeptIsDigits ==
  ASSUME class \in Classes, NEW s \in Digits
  PROVE  Keep(s) \in Digits /\ Keep(Keep(s)) = Keep(s)
<1>1. Keep(s) \in Digits
  BY KeepIs DEF Digits
<1>2. Keep(Keep(s)) = Keep(s)
  <2> DEFINE k == Keep(s)
  <2>1. k = [year   |-> IF class = "FaTime" THEN 1970 ELSE s.year,
             month  |-> IF class = "FaTime" THEN 1 ELSE s.month,
             day    |-> IF class = "FaTime" THEN 1 ELSE s.day,
             hour   |-> IF class = "FaDate" THEN 0 ELSE s.hour,
             minute |-> IF class = "FaDate" THEN 0 ELSE s.minute,
             second |-> IF class = "FaDate" THEN 0 ELSE s.second]
    BY KeepIs
  <2> HIDE DEF k
  <2>2. Keep(k) = [year   |-> IF class = "FaTime" THEN 1970 ELSE k.year,
                   month  |-> IF class = "FaTime" THEN 1 ELSE k.month,
                   day    |-> IF class = "FaTime" THEN 1 ELSE k.day,
                   hour   |-> IF class = "FaDate" THEN 0 ELSE k.hour,
                   minute |-> IF class = "FaDate" THEN 0 ELSE k.minute,
                   second |-> IF class = "FaDate" THEN 0 ELSE k.second]
    BY <1>1, KeepIs DEF k
  <2>3. Keep(k) = k
    BY <2>1, <2>2
  <2> QED
    BY <2>3 DEF k
<1> QED
  BY <1>1, <1>2

(* A valid moment stays valid; a date keeps its day, a time its time.      *)
LEMMA KeptIsValid ==
  ASSUME class \in Classes, NEW s, IsValid(s)
  PROVE  /\ IsValid(Keep(s))
         /\ class # "FaTime" => /\ Keep(s).year = s.year
                                /\ Ordinal(Keep(s))[1] = Ordinal(s)[1]
         /\ class # "FaDate" => Ordinal(Keep(s))[2] = Ordinal(s)[2]
         /\ class = "FaTime" => IsYear(Keep(s).year)
<1> DEFINE k == Keep(s)
<1>1. s \in Digits /\ k \in Digits
  BY KeptIsDigits DEF IsValid
<1>2. /\ k.year   = (IF class = "FaTime" THEN 1970 ELSE s.year)
      /\ k.month  = (IF class = "FaTime" THEN 1 ELSE s.month)
      /\ k.day    = (IF class = "FaTime" THEN 1 ELSE s.day)
      /\ k.hour   = (IF class = "FaDate" THEN 0 ELSE s.hour)
      /\ k.minute = (IF class = "FaDate" THEN 0 ELSE s.minute)
      /\ k.second = (IF class = "FaDate" THEN 0 ELSE s.second)
  BY <1>1, KeepIs
<1> HIDE DEF k
<1>3. IsDate(k.year, k.month, k.day)
  <2>1. CASE class = "FaTime"
    BY <1>2, <2>1, LastDays, SMT DEF IsDate
  <2>2. CASE class # "FaTime"
    BY <1>2, <2>2 DEF IsValid
  <2> QED
    BY <2>1, <2>2
<1>4. verifyTime(k)
  <2>1. CASE class = "FaDate"
    BY <1>2, <2>1, SMT DEF verifyTime
  <2>2. CASE class # "FaDate"
    BY <1>2, <2>2 DEF IsValid, verifyTime
  <2> QED
    BY <2>1, <2>2
<1>5. IsValid(k)
  BY <1>1, <1>3, <1>4 DEF IsValid
<1>6. /\ Ordinal(k) = <<DayOf(k.year, k.month, k.day), TimeOfDay(k)>>
      /\ Ordinal(s) = <<DayOf(s.year, s.month, s.day), TimeOfDay(s)>>
  BY <1>5, ValidTime
<1>7. class # "FaTime" => k.year = s.year /\ Ordinal(k)[1] = Ordinal(s)[1]
  BY <1>2, <1>6
<1>8. class # "FaDate" => Ordinal(k)[2] = Ordinal(s)[2]
  BY <1>2, <1>6 DEF TimeOfDay
<1>9. class = "FaTime" => IsYear(k.year)
  BY <1>2, SMT DEF IsYear
<1> QED
  BY <1>5, <1>7, <1>8, <1>9 DEF k

(* Whatever its digits, an object has a number of seconds.                 *)
LEMMA MktimeIsTime ==
  ASSUME NEW s \in Digits
  PROVE  IsTime(mktime(s))
<1> DEFINE d == DayNumber(s.year, s.month, s.day)
           t == s.hour * 3600 + s.minute * 60 + s.second
<1>1. d \in Int
  BY SMT DEF Digits, DayNumber
<1>2. t \in Int
  BY SMT DEF Digits
<1>3. mktime(s) = Span(d, t)
  BY DEF mktime
<1> HIDE DEF d, t
<1> QED
  BY <1>1, <1>2, <1>3, SpanIsTime

-----------------------------------------------------------------------------
(* The amounts added, as the int the code computes.                        *)
LEMMA AmountsAreTimes ==
  ASSUME NEW n \in Ints
  PROVE  /\ IsTime(Span(n, 0)) /\ IsTime(ToInt(Span(n, 0)))
         /\ LET by == Span(n \div 24, (n % 24) * 3600)
            IN  IsTime(by) /\ IsTime(ToInt(by))
         /\ LET by == Span(n \div 1440, (n % 1440) * 60)
            IN  IsTime(by) /\ IsTime(ToInt(by))
         /\ IsTime(Span(0, n))
<1>1. n \in Int
  BY DEF Ints
<1>2. ASSUME NEW by, IsTime(by), by[1] \in Ints
      PROVE  IsTime(ToInt(by))
  <2>1. PICK i \in Int : ToInt(by) = Wrapped(by, i)
    BY <1>2, ToIntWraps
  <2>2. IsTime(Wrapped(by, i))
    BY <1>2, WrappedIs
  <2> QED
    BY <2>1, <2>2
<1>3. IsTime(Span(n, 0)) /\ Span(n, 0)[1] \in Ints
  <2>1. IsTime(Span(n, 0))
    BY <1>1, SpanIsTime
  <2>2. 0 \div 86400 = 0
    BY SMT
  <2>3. Span(n, 0)[1] = n
    BY <1>1, <2>2 DEF Span
  <2> QED
    BY <2>1, <2>3
<1>4. ASSUME NEW d \in Ints, NEW s \in Int, s \div 86400 = 0
      PROVE  IsTime(Span(d, s)) /\ Span(d, s)[1] \in Ints
  <2>1. d \in Int
    BY DEF Ints
  <2>2. IsTime(Span(d, s))
    BY <2>1, SpanIsTime
  <2>3. Span(d, s)[1] = d
    BY <1>4, <2>1 DEF Span
  <2> QED
    BY <2>2, <2>3
<1>5. /\ n \div 24 \in Ints /\ (n % 24) * 3600 \in Int
      /\ ((n % 24) * 3600) \div 86400 = 0
  <2>1. n % 24 \in Int /\ 0 <= n % 24 /\ n % 24 < 24 /\ n \div 24 \in Ints
    BY SMT DEF Ints
  <2> QED
    BY <2>1, SMT
<1>6. /\ n \div 1440 \in Ints /\ (n % 1440) * 60 \in Int
      /\ ((n % 1440) * 60) \div 86400 = 0
  <2>1. n % 1440 \in Int /\ 0 <= n % 1440 /\ n % 1440 < 1440 /\ n \div 1440 \in Ints
    BY SMT DEF Ints
  <2> QED
    BY <2>1, SMT
<1>7. IsTime(Span(0, n))
  BY <1>1, SpanIsTime
<1>8. /\ IsTime(Span(n \div 24, (n % 24) * 3600))
      /\ Span(n \div 24, (n % 24) * 3600)[1] \in Ints
  BY <1>4, <1>5
<1>9. /\ IsTime(Span(n \div 1440, (n % 1440) * 60))
      /\ Span(n \div 1440, (n % 1440) * 60)[1] \in Ints
  BY <1>4, <1>6
<1> QED
  BY <1>2, <1>3, <1>7, <1>8, <1>9

-----------------------------------------------------------------------------
(* Every string is kept as a string of the class.                          *)
IsKept(s) == s \in AllStrings /\ Keep(s) = s

LEMMA KeptIsKept ==
  ASSUME class \in Classes, NEW s \in AllStrings
  PROVE  IsKept(Keep(s))
<1>1. CASE s \in Digits
  <2>1. Keep(s) \in Digits /\ Keep(Keep(s)) = Keep(s)
    BY <1>1, KeptIsDigits
  <2> QED
    BY <2>1 DEF IsKept, AllStrings
<1>2. CASE s \notin Digits
  BY <1>2 DEF Keep, IsKept
<1> QED
  BY <1>1, <1>2

(* The numbers read from a string.                                         *)
LEMMA ReadIsDigits ==
  ASSUME class \in Classes, NEW s \in AllStrings, s # TooShort
  PROVE  Read(s) \in Digits
<1>1. CASE s \in Digits
  BY <1>1 DEF Read
<1>2. CASE s \notin Digits
  <2>1. s.read \in Digits /\ Read(s) = Keep(s.read)
    BY <1>2 DEF AllStrings, Read
  <2> QED
    BY <2>1, KeptIsDigits
<1> QED
  BY <1>1, <1>2

LEMMA ShiftedIsDigits ==
  ASSUME NEW s \in Digits
  PROVE  Shifted(s) \in Digits
<1>1. /\ s.year \in Int /\ s.month \in Int /\ s.day \in Int
      /\ s.hour \in Int /\ s.minute \in Int /\ s.second \in Int
  BY DEF Digits
<1> DEFINE year   == IF s.year < 0 THEN -s.year ELSE s.year
           to     == IF s.year < 0 THEN -(year \div 10) ELSE year \div 10
           month  == 10 * (year % 10) + s.month \div 10
           day    == 10 * (s.month % 10) + s.day \div 10
           hour   == 10 * (s.day % 10) + s.hour \div 10
           minute == 10 * (s.hour % 10) + s.minute \div 10
           second == 10 * (s.minute % 10) + s.second \div 10
<1>2. /\ to \in Int /\ month \in Int /\ day \in Int
      /\ hour \in Int /\ minute \in Int /\ second \in Int
  BY <1>1, SMT
<1>3. Shifted(s) = [year |-> to, month |-> month, day |-> day,
                    hour |-> hour, minute |-> minute, second |-> second]
  BY DEF Shifted
<1> HIDE DEF to, month, day, hour, minute, second
<1> QED
  BY <1>2, <1>3 DEF Digits

LEMMA OtherIsKept ==
  ASSUME NEW s \in Digits
  PROVE  IsKept([read |-> s])
<1>1. DOMAIN [read |-> s] = {"read"}
  OBVIOUS
<1>2. \A d \in Digits : "year" \in DOMAIN d
  BY DEF Digits
<1>3. "year" # "read"
  OBVIOUS
<1>4. [read |-> s] \notin Digits
  BY <1>1, <1>2, <1>3, Zenon
<1>5. [read |-> s] \in AllStrings
  BY DEF AllStrings
<1> QED
  BY <1>4, <1>5 DEF IsKept, Keep

(* Whatever is written is a string, and in a year of four digits the one   *)
(* the class keeps.                                                        *)
LEMMA WrittenIsKept ==
  ASSUME class \in Classes, NEW s \in Digits
  PROVE  /\ IsKept(Written(s))
         /\ IsYear(s.year) => Written(s) = Keep(s)
<1>1. IsYear(s.year) => 0 <= s.year /\ s.year <= 9999
  BY SMT DEF IsYear, Digits
<1>2. IsYear(s.year) => Written(s) = Keep(s)
  BY <1>1 DEF Written
<1>3. IsKept(Keep(s)) /\ Keep(s) \in Digits
  BY KeptIsKept, KeptIsDigits DEF AllStrings
<1>4. Shifted(s) \in Digits /\ Keep(Shifted(s)) \in Digits
  BY ShiftedIsDigits, KeptIsDigits
<1>5. class = "FaDateTime" => IsKept(Shifted(s))
  BY <1>4 DEF IsKept, Keep, AllStrings
<1>6. IsKept([read |-> Keep(s)]) /\ IsKept([read |-> Keep(Shifted(s))])
  BY <1>3, <1>4, OtherIsKept
<1>7. \/ Written(s) = Keep(s)
      \/ class = "FaDateTime" /\ Written(s) = Shifted(s)
      \/ Written(s) = [read |-> Keep(s)]
      \/ Written(s) = [read |-> Keep(Shifted(s))]
  BY DEF Written
<1> QED
  BY <1>2, <1>3, <1>5, <1>6, <1>7

LEMMA DefaultIsValid ==
  ASSUME class \in Classes
  PROVE  /\ Default(class) \in Digits /\ Keep(Default(class)) = Default(class)
         /\ verifyFormat(Default(class))
<1> DEFINE s == Default(class)
           y == IF class = "FaTime" THEN 1970 ELSE 1900
<1>1. s = [year |-> y, month |-> 1, day |-> 1, hour |-> 0, minute |-> 0, second |-> 0]
  BY DEF Default
<1>2. y \in Int /\ IsYear(y) /\ (class = "FaTime" => y = 1970)
  BY DEF IsYear
<1> HIDE DEF s, y
<1>3. s \in Digits
  BY <1>1, <1>2 DEF Digits
<1>4. Keep(s) = s
  <2> DEFINE k == Keep(s)
  <2>1. /\ k.year = (IF class = "FaTime" THEN 1970 ELSE s.year)
        /\ k.month = (IF class = "FaTime" THEN 1 ELSE s.month)
        /\ k.day = (IF class = "FaTime" THEN 1 ELSE s.day)
        /\ k.hour = (IF class = "FaDate" THEN 0 ELSE s.hour)
        /\ k.minute = (IF class = "FaDate" THEN 0 ELSE s.minute)
        /\ k.second = (IF class = "FaDate" THEN 0 ELSE s.second)
    BY <1>3, KeepIs
  <2>2. k \in Digits
    BY <1>3, KeptIsDigits
  <2> HIDE DEF k
  <2>3. /\ k.year = s.year /\ k.month = s.month /\ k.day = s.day
        /\ k.hour = s.hour /\ k.minute = s.minute /\ k.second = s.second
    <3>1. s.year = y /\ s.month = 1 /\ s.day = 1 /\ s.hour = 0 /\ s.minute = 0 /\ s.second = 0
      BY <1>1
    <3>2. k.year = s.year
      BY <1>2, <2>1, <3>1, SMT
    <3> QED
      BY <2>1, <3>1, <3>2, SMT
  <2>4. k = s
    BY <1>3, <2>2, <2>3 DEF Digits
  <2> QED
    BY <2>4 DEF k
<1>5. verifyDate(s)
  <2>1. s.year = y /\ s.month = 1 /\ s.day = 1
    BY <1>1
  <2>2. getLastDayOfMonth(s.year, s.month) = 31
    BY <2>1, LastDays
  <2>3. s.month \in 1 .. 12
    BY <2>1, SMT
  <2>4. s.day \in 1 .. getLastDayOfMonth(s.year, s.month)
    BY <2>1, <2>2, SMT
  <2>5. IsYear(s.year)
    BY <1>2, <2>1
  <2> QED
    BY <2>3, <2>4, <2>5 DEF verifyDate
<1>6. verifyTime(s)
  BY <1>1 DEF verifyTime
<1> QED
  BY <1>3, <1>4, <1>5, <1>6 DEF verifyFormat, s

LEMMA InitTypes ==
  ASSUME Init
  PROVE  TypeOK
<1>1. class \in Classes /\ left = Default(class) /\ right = Default(class) /\ threw = FALSE /\ calls = 0
  BY DEF Init
<1>2. IsKept(left) /\ IsKept(right)
  BY <1>1, DefaultIsValid DEF IsKept, AllStrings
<1>3. calls \in 0 .. MaxCalls
  BY <1>1, TimesConstants
<1> QED
  BY <1>1, <1>2, <1>3, Zenon DEF TypeOK, IsKept

(* An addition of any time, to any object.                                 *)
LEMMA SumIsKept ==
  ASSUME class \in Classes, IsKept(left), NEW by, IsTime(by), addSecond(by)
  PROVE  IsKept(left') /\ threw' \in BOOLEAN /\ right' = right
<1>1. CASE left = TooShort
  BY <1>1 DEF addSecond
<1>2. CASE left # TooShort
  <2> DEFINE to == Plus(mktime(Read(left)), by)
             s  == localtime(to)
  <2>1. IsTime(to)
    BY <1>2, ReadIsDigits, MktimeIsTime, SumIsTime DEF IsKept
  <2>2. s \in Digits
    BY <2>1, LocalTimeIs DEF IsValid
  <2>3. left' = Written(s)
    BY <1>2 DEF addSecond
  <2> HIDE DEF s
  <2>4. IsKept(left')
    BY <2>2, <2>3, WrittenIsKept
  <2> QED
    BY <2>4 DEF addSecond
<1> QED
  BY <1>1, <1>2

LEMMA NextTypes ==
  ASSUME TypeOK, [Next]_vars
  PROVE  TypeOK'
<1>0. /\ class \in Classes /\ threw \in BOOLEAN /\ calls \in 0 .. MaxCalls /\ MaxCalls \in Nat
      /\ IsKept(left) /\ IsKept(right)
  BY TimesConstants DEF TypeOK, IsKept
<1>1. CASE UNCHANGED vars
  <2>1. \A s : Keep(s)' = Keep(s)
    BY <1>1 DEF Keep, vars
  <2> QED
    BY <1>0, <1>1, <2>1 DEF TypeOK, IsKept, vars
<1>2. CASE Next
  <2>1. class' = class /\ calls' \in 0 .. MaxCalls
    BY <1>0, <1>2 DEF Next, Called
  <2>2. IsKept(left') /\ IsKept(right') /\ threw' \in BOOLEAN
    <3>1. CASE \E s \in Strings : Assign(s)
      <4>1. PICK s \in Strings : Assign(s)
        BY <3>1
      <4>2. IsKept(Keep(s))
        BY <1>0, TimesConstants, KeptIsKept
      <4>3. (~verifyFormat(Keep(s))) \in BOOLEAN
        BY DEF verifyFormat
      <4> QED
        BY <1>0, <4>1, <4>2, <4>3 DEF Assign
    <3>2. CASE Copy
      BY <1>0, <3>2 DEF Copy
    <3>3. ASSUME NEW by, IsTime(by), addSecond(by)
          PROVE  IsKept(left') /\ IsKept(right') /\ threw' \in BOOLEAN
      BY <1>0, <3>3, SumIsKept
    <3>4. CASE \E n \in Days : addDay(n)
      BY <3>3, <3>4, AmountsAreTimes, TimesConstants DEF addDay
    <3>5. CASE \E n \in Hours : addHour(n)
      BY <3>3, <3>5, AmountsAreTimes, TimesConstants DEF addHour
    <3>6. CASE \E n \in Minutes : addMinute(n)
      BY <3>3, <3>6, AmountsAreTimes, TimesConstants DEF addMinute
    <3>7. CASE \E n \in Seconds : addSecond(Span(0, n))
      BY <3>3, <3>7, AmountsAreTimes, TimesConstants
    <3>8. CASE \E now \in Clock : getSysTime(now)
      <4>1. PICK now \in Clock : getSysTime(now)
        BY <3>8
      <4>2. now \in AllStrings
        BY TimesConstants DEF verifyFormat, AllStrings
      <4> QED
        BY <1>0, <4>1, <4>2, KeptIsKept DEF getSysTime
    <3> QED
      BY <1>2, <3>1, <3>2, <3>4, <3>5, <3>6, <3>7, <3>8 DEF Next
  <2>3. \A s : Keep(s)' = Keep(s)
    BY <2>1 DEF Keep
  <2> QED
    BY <2>1, <2>2, <2>3 DEF TypeOK, IsKept
<1> QED
  BY <1>1, <1>2

(* Whatever is assigned to an object, refused or not, and whatever is added*)
(* to it, beyond four digits of the year too, it holds one of the strings  *)
(* the model knows (FaDate.cpp:83-137).                                    *)
THEOREM TimesTypeCorrect == Spec => []TypeOK
<1>1. Init => TypeOK
  BY InitTypes
<1>2. TypeOK /\ [Next]_vars => TypeOK'
  BY NextTypes
<1> QED
  BY <1>1, <1>2, PTL DEF Spec

(* An addition that fits moves by the calendar, and what it writes is      *)
(* valid: localtime's date exists, and four digits hold its year.          *)
LEMMA SumMoves ==
  ASSUME TypeOK, verifyFormat(left), NEW by, IsTime(by), Fits(by), addSecond(by),
         class' = class
  PROVE  Moved(by)
<1>1. class \in Classes /\ left \in Digits /\ IsValid(left) /\ left # TooShort
  BY VerifiedIsValid, TimesConstants DEF TypeOK, IsValid
<1> DEFINE to == Plus(Ordinal(left), by)
           s  == localtime(to)
<1>2. mktime(Read(left)) = Ordinal(left) /\ IsTime(Ordinal(left))
  BY <1>1, ValidTime DEF Read
<1>3. IsTime(to)
  BY <1>2, SumIsTime
<1>4. IsValid(s) /\ Ordinal(s) = to
  BY <1>3, LocalTimeIs
<1>5. s.year = DateOf(to[1]).year
  BY DEF localtime
<1>6. IsYear(s.year)
  BY <1>5 DEF Fits
<1>7. left' = Written(s) /\ ~threw'
  BY <1>1, <1>2 DEF addSecond
<1> HIDE DEF s, to
<1>8. left' = Keep(s)
  BY <1>1, <1>4, <1>6, <1>7, WrittenIsKept DEF IsValid
<1>9. /\ IsValid(left')
      /\ class # "FaTime" => left'.year = s.year /\ Ordinal(left')[1] = to[1]
      /\ class # "FaDate" => Ordinal(left')[2] = to[2]
      /\ class = "FaTime" => IsYear(left'.year)
  BY <1>1, <1>4, <1>8, KeptIsValid
<1>10. verifyFormat(left')
  BY <1>6, <1>9, ValidIsVerified
<1> QED
  BY <1>7, <1>9, <1>10 DEF Moved, to

LEMMA StepMoves ==
  ASSUME TypeOK, [Next]_vars
  PROVE  [MovesExactly]_vars
<1> SUFFICES ASSUME verifyFormat(left), Next
             PROVE  MovesExactly
  BY DEF MovesExactly
<1>0. class' = class
  BY DEF Next, Called
<1>1. ASSUME NEW n \in Days, addDay(n), Fits(Span(n, 0))
      PROVE  Moved(Span(n, 0))
  <2>1. IsTime(Span(n, 0))
    BY AmountsAreTimes, TimesConstants
  <2>2. addSecond(Span(n, 0))
    BY <1>1, <2>1, ToIntKeeps DEF addDay, Fits
  <2> QED
    BY <1>0, <1>1, <2>1, <2>2, SumMoves
<1>2. ASSUME NEW n \in Hours, addHour(n), Fits(Span(n \div 24, (n % 24) * 3600))
      PROVE  Moved(Span(n \div 24, (n % 24) * 3600))
  <2> DEFINE by == Span(n \div 24, (n % 24) * 3600)
  <2>1. IsTime(by)
    BY AmountsAreTimes, TimesConstants
  <2>2. addHour(n) <=> addSecond(ToInt(by))
    BY DEF addHour
  <2> HIDE DEF by
  <2>3. addSecond(by)
    BY <1>2, <2>1, <2>2, ToIntKeeps DEF by, Fits
  <2>4. Moved(by)
    BY <1>0, <1>2, <2>1, <2>3, SumMoves DEF by
  <2> QED
    BY <2>4 DEF by
<1>3. ASSUME NEW n \in Minutes, addMinute(n), Fits(Span(n \div 1440, (n % 1440) * 60))
      PROVE  Moved(Span(n \div 1440, (n % 1440) * 60))
  <2> DEFINE by == Span(n \div 1440, (n % 1440) * 60)
  <2>1. IsTime(by)
    BY AmountsAreTimes, TimesConstants
  <2>2. addMinute(n) <=> addSecond(ToInt(by))
    BY DEF addMinute
  <2> HIDE DEF by
  <2>3. addSecond(by)
    BY <1>3, <2>1, <2>2, ToIntKeeps DEF by, Fits
  <2>4. Moved(by)
    BY <1>0, <1>3, <2>1, <2>3, SumMoves DEF by
  <2> QED
    BY <2>4 DEF by
<1>4. ASSUME NEW n \in Seconds, addSecond(Span(0, n)), Fits(Span(0, n))
      PROVE  Moved(Span(0, n))
  <2>1. IsTime(Span(0, n))
    BY AmountsAreTimes, TimesConstants
  <2> QED
    BY <1>0, <1>4, <2>1, SumMoves
<1> QED
  BY <1>1, <1>2, <1>3, <1>4, SMT DEF MovesExactly

(* A valid object moves by just what is added, by the class's own calendar,*)
(* if an int holds the seconds, from and to every year that four digits    *)
(* hold, and its string is valid again (FaDate.cpp:83-101).                *)
THEOREM AdditionsMove == Spec => AdditionIsExact
<1>1. TypeOK /\ [Next]_vars => [MovesExactly]_vars
  BY StepMoves
<1> QED
  BY <1>1, TimesTypeCorrect, PTL DEF Spec, AdditionIsExact

(* Two valid objects differ by the seconds between their moments.          *)
LEMMA DifferenceIs ==
  ASSUME NEW a, IsValid(a), NEW b, IsValid(b), IsInt(Minus(Ordinal(a), Ordinal(b)))
  PROVE  Difference(a, b, <<0, 0>>) = Minus(Ordinal(a), Ordinal(b))
<1> DEFINE x == Ordinal(a)
           y == Ordinal(b)
           o == <<0, 0>>
<1>1. mktime(a) = x /\ IsTime(x) /\ mktime(b) = y /\ IsTime(y)
  BY ValidTime
<1>2. IsTime(o) /\ Total(o) = 0
  BY SMT DEF IsTime, Total, InSeconds
<1>3. Difference(a, b, o) = ToInt(Minus(x, Minus(y, o)))
  BY <1>1 DEF Difference
<1>4. IsInt(Minus(x, y))
  OBVIOUS
<1> HIDE DEF x, y, o
<1>5. /\ IsTime(Minus(y, o)) /\ Total(Minus(y, o)) = Total(y) - Total(o)
      /\ Total(x) \in Int /\ Total(y) \in Int
  BY <1>1, <1>2, SumIsTime
<1>6. Minus(y, o) = y
  BY <1>1, <1>2, <1>5, TimesCompare
<1>7. IsTime(Minus(x, y))
  BY <1>1, SumIsTime
<1>8. Difference(a, b, o) = Minus(x, y)
  BY <1>3, <1>4, <1>6, <1>7, ToIntKeeps
<1> QED
  BY <1>8 DEF x, y, o

LEMMA GapCompares ==
  ASSUME NEW a, IsTime(a), NEW b, IsTime(b)
  PROVE  /\ Before(a, b) <=> Before(Minus(a, b), <<0, 0>>)
         /\ a = b <=> Minus(a, b) = <<0, 0>>
<1> DEFINE o == <<0, 0>>
<1>1. IsTime(o) /\ Total(o) = 0
  BY DEF IsTime, Total, InSeconds
<1> HIDE DEF o
<1>2. /\ IsTime(Minus(a, b)) /\ Total(Minus(a, b)) = Total(a) - Total(b)
      /\ Total(a) \in Int /\ Total(b) \in Int
  BY SumIsTime
<1>3. /\ Before(a, b) <=> Total(a) < Total(b)
      /\ a = b <=> Total(a) = Total(b)
      /\ Before(Minus(a, b), o) <=> Total(Minus(a, b)) < Total(o)
      /\ Minus(a, b) = o <=> Total(Minus(a, b)) = Total(o)
  BY <1>1, <1>2, TimesCompare
<1>4. /\ Before(a, b) <=> Before(Minus(a, b), o)
      /\ a = b <=> Minus(a, b) = o
  BY <1>1, <1>2, <1>3
<1> QED
  BY <1>4 DEF o

LEMMA OperatorsAreRight ==
  ASSUME TypeOK
  PROVE  CalendarIsRight
<1>1. ComparisonIsRight
  <2> DEFINE x == Ordinal(left)
             y == Ordinal(right)
  <2> SUFFICES ASSUME verifyFormat(left), verifyFormat(right)
               PROVE  /\ Less(left, right) <=> Before(Minus(x, y), <<0, 0>>)
                      /\ left = right <=> Minus(x, y) = <<0, 0>>
                      /\ IsInt(Minus(x, y))
                           => Difference(left, right, <<0, 0>>) = Minus(x, y)
    BY SMT DEF ComparisonIsRight
  <2>1. IsValid(left) /\ IsValid(right)
    BY VerifiedIsValid
  <2>2. IsTime(x) /\ IsTime(y)
    BY <2>1, ValidTime
  <2>3. /\ Less(left, right) <=> Before(x, y)
        /\ left = right <=> x = y
    BY <2>1, MomentsCompare
  <2>4. /\ Before(x, y) <=> Before(Minus(x, y), <<0, 0>>)
        /\ x = y <=> Minus(x, y) = <<0, 0>>
    BY <2>2, GapCompares
  <2>5. IsInt(Minus(x, y)) => Difference(left, right, <<0, 0>>) = Minus(x, y)
    BY <2>1, DifferenceIs
  <2> HIDE DEF x, y
  <2> QED
    BY <2>3, <2>4, <2>5, SMT
<1>2. WeekDayIsRight
  <2> SUFFICES ASSUME verifyFormat(left)
               PROVE  LET told == fa_getWeekDay(left.year, left.month, left.day)
                      IN IF DayOfWeek(left) = 0 THEN told \notin 1 .. 6
                         ELSE told = DayOfWeek(left)
    BY DEF WeekDayIsRight
  <2>1. IsValid(left)
    BY VerifiedIsValid
  <2>2. Ordinal(left)[1] = DayOf(left.year, left.month, left.day)
    BY <2>1, ValidTime
  <2>3. fa_getWeekDay(left.year, left.month, left.day)
          = (DayOf(left.year, left.month, left.day) + 4) % 7
    BY <2>1, WeekDayCounts DEF IsValid
  <2>4. fa_getWeekDay(left.year, left.month, left.day) = DayOfWeek(left)
    BY <2>2, <2>3 DEF DayOfWeek
  <2>5. 0 \notin 1 .. 6
    OBVIOUS
  <2> QED
    BY <2>4, <2>5
<1> QED
  BY <1>1, <1>2 DEF CalendarIsRight

(* Of valid objects, in every year that four digits hold, the operators    *)
(* say what the calendar says: they compare as the moments they name, they *)
(* differ by the seconds between those, where an int holds these and the   *)
(* flag tm_isdst reads as zero, and a date has its day of the week, where  *)
(* it is no Sunday (FaDate.cpp:140-216, FaFunc.cpp:28-36).                 *)
THEOREM CalendarAlwaysRight == Spec => []CalendarIsRight
<1>1. TypeOK => CalendarIsRight
  BY OperatorsAreRight
<1> QED
  BY <1>1, TimesTypeCorrect, PTL
=============================================================================

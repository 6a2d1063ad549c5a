---------------------------- MODULE FaTimesProps ----------------------------
(* What FaTimes must satisfy.                                              *)
EXTENDS FaTimes

TypeOK ==
    /\ class \in Classes
    /\ \A s \in {left, right} : s \in AllStrings /\ Keep(s) = s
    /\ threw \in BOOLEAN
    /\ calls \in 0 .. MaxCalls

(* The calendar of the class itself, a day at a time: the days from 1970   *)
(* to a year, a month of it and a day of that.                             *)
YearDays(years) ==
    365 * Cardinality(years) + Cardinality({y \in years : isLeapYear(y)})

DaysBefore(year) ==
    LET before[m \in 1 .. 12] ==
            IF m = 1 THEN 0 ELSE before[m - 1] + getLastDayOfMonth(year, m - 1)
    IN before

Ordinal(s) ==
    LET years == IF s.year >= 1970 THEN YearDays(1970 .. s.year - 1)
                 ELSE -YearDays(s.year .. 1969)
    IN Span(years + DaysBefore(s.year)[s.month] + s.day - 1,
            s.hour * 3600 + s.minute * 60 + s.second)

(* left after the addition of a time, of which FaDate keeps the day and    *)
(* FaTime the time of day.                                                 *)
Moved(by) ==
    LET to == Plus(Ordinal(left), by)
        is == Ordinal(left')
    IN /\ verifyFormat(left')
       /\ class # "FaTime" => is[1] = to[1]
       /\ class # "FaDate" => is[2] = to[2]
       /\ ~threw'

(* An int holds the seconds added, and four digits the year they lead to.  *)
Fits(by) == IsInt(by) /\ IsYear(DateOf(Plus(Ordinal(left), by)[1]).year)

(* "Add days", "add hours", "add minutes", "add seconds" (FaDate.cpp:83-   *)
(* 101): a valid object moves by just that, by the class's own calendar,   *)
(* over the ends of months, leap years and centuries and over 1970, and    *)
(* stays valid, if the seconds and the year it comes to fit.               *)
MovesExactly ==
    Called /\ verifyFormat(left) =>
        /\ \A n \in Days :
              LET by == Span(n, 0)
              IN addDay(n) /\ Fits(by) => Moved(by)
        /\ \A n \in Hours :
              LET by == Span(n \div 24, (n % 24) * 3600)
              IN addHour(n) /\ Fits(by) => Moved(by)
        /\ \A n \in Minutes :
              LET by == Span(n \div 1440, (n % 1440) * 60)
              IN addMinute(n) /\ Fits(by) => Moved(by)
        /\ \A n \in Seconds :
              LET by == Span(0, n)
              IN addSecond(by) /\ Fits(by) => Moved(by)

AdditionIsExact == [][MovesExactly]_vars

(* Two valid objects compare as the instants they name, though it is their *)
(* strings that are compared (FaDate.cpp:140-192); and where a gap fits an *)
(* int and the flag nobody sets reads as zero, they differ by the seconds  *)
(* between them.  Of other gaps and flags nothing is said: "the result is  *)
(* the seconds between the two (only for times after 1970)" (FaDate.cpp:194*)
(* and FaDateTime.cpp:210), but the code wraps, or is an hour off.         *)
ComparisonIsRight ==
    verifyFormat(left) /\ verifyFormat(right) =>
        LET gap == Minus(Ordinal(left), Ordinal(right))
        IN /\ Less(left, right) <=> Before(gap, <<0, 0>>)
           /\ left = right <=> gap = <<0, 0>>
           /\ IsInt(gap) => Difference(left, right, <<0, 0>>) = gap

(* The day of the week of the calendar, a Sunday being 0: 1 January 1970   *)
(* was a Thursday.                                                         *)
DayOfWeek(s) == (Ordinal(s)[1] + 4) % 7

(* The days of the week are told apart, and from Monday to Saturday are 1  *)
(* to 6 (FaFunc.cpp:28-36).  A Sunday should be 7 (WeekDayAsPromised).     *)
WeekDayIsRight ==
    verifyFormat(left) =>
        LET told == fa_getWeekDay(left.year, left.month, left.day)
        IN IF DayOfWeek(left) = 0 THEN told \notin 1 .. 6 ELSE told = DayOfWeek(left)

(* Whatever calls came before, both objects have strings of their class,   *)
(* and of valid ones the operators say what the calendar says.             *)
CalendarIsRight ==
    /\ TypeOK
    /\ ComparisonIsRight
    /\ WeekDayIsRight

-----------------------------------------------------------------------------
(* "Monday to Sunday are the ints 1 to 7" (FaFunc.h:45), which the code    *)
(* does not do.                                                            *)
WeekDayAsPromised ==
    verifyFormat(left) => fa_getWeekDay(left.year, left.month, left.day) \in 1 .. 7
=============================================================================

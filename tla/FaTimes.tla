------------------------------- MODULE FaTimes -------------------------------
(***************************************************************************)
(* FaDate, FaTime and FaDateTime of unp/src/common, with their base class. *)
(* An object is its string, and a string is the numbers its getters read:  *)
(* of a string of digits of the class's length, where the fields a class   *)
(* does not keep have the values its mkTime fills in; of any other string, *)
(* as [read |-> numbers]; or it is TooShort, and their substr throws.      *)
(*                                                                         *)
(* A number of seconds is a pair of days and seconds of the day, since an  *)
(* int of C and a time_t do not fit an integer of TLC.  The zone has no    *)
(* daylight saving time, so mktime and localtime are inverse where the     *)
(* flag tm_isdst is zero.                                                  *)
(***************************************************************************)
EXTENDS Integers, Sequences, FiniteSets

CONSTANTS
    Strings,    \* the strings assigned to objects
    Clock,      \* what fa_getSysTime may return
    Days, Hours, Minutes, Seconds,  \* the amounts added
    TooShort,   \* a string that ends before the fields of the class
    MaxCalls    \* bound: the calls that change an object

(* What the digits of a string say, or the fields of a tm.                 *)
Digits == [year : Int, month : Int, day : Int, hour : Int, minute : Int, second : Int]

AllStrings == Digits \cup [read : Digits] \cup {TooShort}

(* The values of an int.                                                   *)
Ints == {n \in Int : -2147483647 - 1 <= n /\ n <= 2147483647}

Classes == {"FaDate", "FaTime", "FaDateTime"}

VARIABLES
    class,          \* of both objects
    left, right,    \* two objects
    threw,          \* whether the latest call threw an exception
    calls

vars == <<class, left, right, threw, calls>>

-----------------------------------------------------------------------------
(* The C library and the machine.                                          *)

(* The days from 1 January 1970, of any year, month and day.               *)
DayNumber(year, month, day) ==
    LET y   == year + ((month - 1) \div 12) - (IF (month - 1) % 12 < 2 THEN 1 ELSE 0)
        m   == (month + 9) % 12                 \* from March
        yoe == y % 400
    IN (y \div 400) * 146097 + yoe * 365 + (yoe \div 4) - (yoe \div 100)
         + ((153 * m + 2) \div 5) + day - 719469

(* And back.                                                               *)
DateOf(n) ==
    LET z   == n + 719468
        doe == z % 146097
        yoe == (doe - (doe \div 1460) + (doe \div 36524) - (doe \div 146096)) \div 365
        doy == doe - (365 * yoe + (yoe \div 4) - (yoe \div 100))
        m   == (5 * doy + 2) \div 153
    IN [year  |-> yoe + (z \div 146097) * 400 + (IF m < 10 THEN 0 ELSE 1),
        month |-> IF m < 10 THEN m + 3 ELSE m - 9,
        day   |-> doy - ((153 * m + 2) \div 5) + 1]

Span(d, s) == <<d + (s \div 86400), s % 86400>>

Plus(a, b)  == Span(a[1] + b[1], a[2] + b[2])
Minus(a, b) == Span(a[1] - b[1], a[2] - b[2])
Before(a, b) == a[1] < b[1] \/ (a[1] = b[1] /\ a[2] < b[2])

(* 2^31 and 2^32 seconds.                                                  *)
Half == <<24855, 11648>>
Full == <<49710, 23296>>

IsInt(a) == Before(a, Half) /\ ~Before(Plus(a, Half), <<0, 0>>)

(* What an int holds of a; the build's products wrap around.               *)
ToInt(a) ==
    LET k == a[1] \div Full[1]
    IN CHOOSE b \in {Minus(a, Span(i * Full[1], i * Full[2])) : i \in k - 1 .. k + 1} :
          IsInt(b)

(* mktime and localtime, as seconds from 1 January 1970, local time.       *)
mktime(s) ==
    Span(DayNumber(s.year, s.month, s.day), s.hour * 3600 + s.minute * 60 + s.second)

localtime(a) ==
    LET d == DateOf(a[1])
    IN [year |-> d.year, month |-> d.month, day |-> d.day,
        hour |-> a[2] \div 3600, minute |-> (a[2] \div 60) % 60, second |-> a[2] % 60]

-----------------------------------------------------------------------------
(* FaBaseTime.                                                             *)

(* Mutant: every fourth year is a leap year.                               *)
isLeapYearAlways(year) == year % 4 = 0

isLeapYear(year) ==
    IF year % 100 = 0 THEN year % 400 = 0 ELSE year % 4 = 0

getLastDayOfMonth(year, month) ==
    IF month = 2 /\ isLeapYear(year) THEN 29
    ELSE <<31, 28, 31, 30, 31, 30, 31, 31, 30, 31, 30, 31>>[month]

(* A year that four digits hold.                                           *)
IsYear(year) == year > 0 /\ year <= 9999

verifyDate(s) ==
    /\ IsYear(s.year)
    /\ s.month \in 1 .. 12
    /\ s.day \in 1 .. getLastDayOfMonth(s.year, s.month)

verifyTime(s) ==
    s.hour \in 0 .. 23 /\ s.minute \in 0 .. 59 /\ s.second \in 0 .. 59

verifyFormat(s) == s \in Digits /\ verifyDate(s) /\ verifyTime(s)

(* localtime gives an existing date.                                       *)
ASSUME TimesConstants ==
    /\ Strings \subseteq AllStrings
    /\ TooShort \notin Digits
    /\ \A now \in Clock : verifyFormat(now)
    /\ Days \subseteq Ints /\ Hours \subseteq Ints
    /\ Minutes \subseteq Ints /\ Seconds \subseteq Ints
    /\ MaxCalls \in Nat

-----------------------------------------------------------------------------
(* What a class keeps of a date and time.                                  *)
Keep(s) ==
    IF s \notin Digits THEN s
    ELSE CASE class = "FaDate" -> [s EXCEPT !.hour = 0, !.minute = 0, !.second = 0]
           [] class = "FaTime" -> [s EXCEPT !.year = 1970, !.month = 1, !.day = 1]
           [] class = "FaDateTime" -> s

(* The strings of the constructors without an argument.                    *)
Default(c) ==
    [year |-> IF c = "FaTime" THEN 1970 ELSE 1900, month |-> 1, day |-> 1,
     hour |-> 0, minute |-> 0, second |-> 0]

Init ==
    /\ class \in Classes
    /\ left = Default(class)
    /\ right = Default(class)
    /\ threw = FALSE
    /\ calls = 0

Called == calls < MaxCalls /\ calls' = calls + 1 /\ UNCHANGED class

(* The numbers its getters find in a string that is not too short.         *)
Read(s) == IF s \in Digits THEN s ELSE Keep(s.read)

(* What reads a string where a fifth character of the year moves the rest. *)
Shifted(s) ==
    LET year == IF s.year < 0 THEN -s.year ELSE s.year
    IN [year   |-> IF s.year < 0 THEN -(year \div 10) ELSE year \div 10,
        month  |-> 10 * (year % 10) + s.month \div 10,
        day    |-> 10 * (s.month % 10) + s.day \div 10,
        hour   |-> 10 * (s.day % 10) + s.hour \div 10,
        minute |-> 10 * (s.hour % 10) + s.minute \div 10,
        second |-> 10 * (s.minute % 10) + s.second \div 10]

(* snprintf: %04d is the least width of a year.  A year after 9999 makes   *)
(* FaDate's string one too long, and FaDateTime's is cut to its buffer; a  *)
(* year before 0 has a sign, and before -999 five characters.              *)
Written(s) ==
    IF class = "FaTime" \/ (0 <= s.year /\ s.year <= 9999) THEN Keep(s)
    ELSE IF s.year > 9999 /\ class = "FaDateTime" THEN Shifted(s)
    ELSE [read |-> IF -1000 < s.year /\ s.year < 0 THEN Keep(s) ELSE Keep(Shifted(s))]

(* operator = and the constructors: the string is kept before it is        *)
(* verified, and stays when an exception is thrown.                        *)
Assign(s) ==
    /\ left' = Keep(s)
    /\ threw' = ~verifyFormat(Keep(s))
    /\ UNCHANGED right

(* operator = of two objects verifies nothing.                             *)
Copy ==
    /\ right' = left
    /\ threw' = FALSE
    /\ UNCHANGED left

(* An addition verifies neither what it reads nor what it writes.          *)
addSecond(n) ==
    /\ threw' = (left = TooShort)
    /\ left' = IF left = TooShort THEN left
               ELSE Written(localtime(Plus(mktime(Read(left)), n)))
    /\ UNCHANGED right

addDay(n)    == addSecond(ToInt(Span(n, 0)))
addHour(n)   == addSecond(ToInt(Span(n \div 24, (n % 24) * 3600)))
addMinute(n) == addSecond(ToInt(Span(n \div 1440, (n % 1440) * 60)))

getSysTime(now) ==
    /\ left' = Keep(now)
    /\ threw' = FALSE
    /\ UNCHANGED right

Next ==
    /\ Called
    /\ \/ \E s \in Strings : Assign(s)
       \/ Copy
       \/ \E n \in Days : addDay(n)
       \/ \E n \in Hours : addHour(n)
       \/ \E n \in Minutes : addMinute(n)
       \/ \E n \in Seconds : addSecond(Span(0, n))
       \/ \E now \in Clock : getSysTime(now)

Spec == Init /\ [][Next]_vars

-----------------------------------------------------------------------------
(* The operators with two operands.                                        *)

(* strcmp of two strings of digits of one length.                          *)
Fields(s) == <<s.year, s.month, s.day, s.hour, s.minute, s.second>>

Less(a, b) ==
    \E i \in 1 .. 6 : /\ Fields(a)[i] < Fields(b)[i]
                      /\ \A j \in 1 .. i - 1 : Fields(a)[j] = Fields(b)[j]

(* Mutant: one operand's month counts from 1.                              *)
DifferenceMonth(a, b, off) ==
    ToInt(Minus(mktime(a), Minus(mktime([b EXCEPT !.month = @ + 1]), off)))

(* operator -, whose memset clears tmLeft twice and tmRight never: mktime  *)
(* takes off something, an hour if anything, for the right operand's flag. *)
Difference(a, b, off) == ToInt(Minus(mktime(a), Minus(mktime(b), off)))

-----------------------------------------------------------------------------
(* fa_getWeekDay: January and February count as months of the year before. *)
WeekDay(year, month, day) ==
    (day + 1 + 2 * month + (3 * (month + 1)) \div 5 + year + (year \div 4)
        - (year \div 100) + (year \div 400)) % 7

fa_getWeekDay(year, month, day) ==
    IF month \in {1, 2} THEN WeekDay(year - 1, month + 12, day) ELSE WeekDay(year, month, day)
=============================================================================

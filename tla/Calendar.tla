------------------------------ MODULE Calendar ------------------------------
(* The Gregorian calendar of Fmi::date_time::Date (date_time/Date.cpp), with the
   algorithms of the date library it keeps its days with (date_time/date/date.h).  A
   Date is a number of days since 1970-01-01.

   The reference is a calendar that is counted by hand: today is a day as people
   write it, and it is followed by the next one.  The special values of a Date are
   in TimePeriod.                                                                  *)
EXTENDS Integers

CONSTANTS
  FirstDays,  \* days to start from, with their numbers
  LastDays    \* bound: the numbers of the days to stop at

VARIABLES
  today,  \* [year, month, day, weekday (1 is Monday), yearday]
  number  \* of days since 1970-01-01

calendarVars == <<today, number>>

DayType == [year : Int, month : 1 .. 12, day : 1 .. 31, weekday : 1 .. 7, yearday : 1 .. 366]

CalendarInit == \E first \in FirstDays : today = first.today /\ number = first.number
-----------------------------------------------------------------------------
(* The calendar that is counted by hand *)

IsLeapYear(y) == y % 400 = 0 \/ (y % 4 = 0 /\ y % 100 # 0)
DaysInYear(y) == IF IsLeapYear(y) THEN 366 ELSE 365
DaysInMonth(y, m) ==
  CASE m = 2 -> IF IsLeapYear(y) THEN 29 ELSE 28
    [] m \in {4, 6, 9, 11} -> 30
    [] OTHER -> 31

DaysUntilMonth(y, m) ==
  <<0, 31, 59, 90, 120, 151, 181, 212, 243, 273, 304, 334>>[m]
    + IF m > 2 /\ IsLeapYear(y) THEN 1 ELSE 0

LeapYearsUntil(y) == (y \div 4) - (y \div 100) + (y \div 400)

\* The year 1 began 719162 days before 1970, on a Monday.
NumberOf(t) == 365 * (t.year - 1) + LeapYearsUntil(t.year - 1) + t.yearday - 719163
WeekdayOfNumber(n) == ((n + 3) % 7) + 1

\* t is day number n of the calendar.
IsDay(t, n) ==
  /\ t \in DayType /\ t.day <= DaysInMonth(t.year, t.month)
  /\ t.yearday = DaysUntilMonth(t.year, t.month) + t.day
  /\ n = NumberOf(t) /\ t.weekday = WeekdayOfNumber(n)

ASSUME FirstDaysAssumption == \A first \in FirstDays : IsDay(first.today, first.number)

Weekday == (today.weekday % 7) + 1

\* ++, += and + by a day: the number is what the code counts.
NextDay ==
  /\ number \notin LastDays
  /\ number' = number + 1
  /\ today' =
       IF today.day < DaysInMonth(today.year, today.month)
       THEN [today EXCEPT !.day = @ + 1, !.weekday = Weekday, !.yearday = @ + 1]
       ELSE IF today.month < 12
       THEN [today EXCEPT !.day = 1, !.month = @ + 1, !.weekday = Weekday, !.yearday = @ + 1]
       ELSE [year |-> today.year + 1, month |-> 1, day |-> 1, weekday |-> Weekday, yearday |-> 1]

(* The ISO week: weeks begin on Monday, and belong to the year their Thursday is in,
   whose first week has number 1.                                                   *)
IsoWeek ==
  LET thursday == today.yearday + 4 - today.weekday
      ofYear(yearday) == (yearday - 1) \div 7 + 1
  IN IF thursday < 1 THEN ofYear(thursday + DaysInYear(today.year - 1))
     ELSE IF thursday > DaysInYear(today.year) THEN 1
     ELSE ofYear(thursday)
-----------------------------------------------------------------------------
(* date.h *)

\* Division of C++: towards zero.
Quotient(a, b) == IF a >= 0 THEN a \div b ELSE -((-a) \div b)
Remainder(a, b) == a - b * Quotient(a, b)

is_leap(y) == y % 4 = 0 /\ (y % 100 # 0 \/ y % 400 = 0)

LastDay(y, m) ==
  IF m # 2 \/ ~is_leap(y)
  THEN <<31, 28, 31, 30, 31, 30, 31, 31, 30, 31, 30, 31>>[m]
  ELSE 29

ok(y, m, d) == m \in 1 .. 12 /\ d \in 1 .. LastDay(y, m)

\* year_month_day::to_days(): the years begin in March.
to_days(year, m, d) ==
  LET y == IF m <= 2 THEN year - 1 ELSE year
      era == Quotient(IF y >= 0 THEN y ELSE y - 399, 400)
      yoe == y - era * 400
      doy == Quotient(153 * (IF m > 2 THEN m - 3 ELSE m + 9) + 2, 5) + d - 1
      doe == yoe * 365 + Quotient(yoe, 4) - Quotient(yoe, 100) + doy
  IN era * 146097 + doe - 719468

\* year_month_day::from_days(): the day doy of year y, which begins in March and whose
\* month has number mp; before, the year yoe of the era; and the day doe of the era
InMonth(y, doy, mp) ==
  [year |-> IF mp < 10 THEN y ELSE y + 1, month |-> IF mp < 10 THEN mp + 3 ELSE mp - 9,
   day |-> doy - Quotient(153 * mp + 2, 5) + 1]
InYear(y, doy) == InMonth(y, doy, Quotient(5 * doy + 2, 153))
InEra(era, doe, yoe) ==
  InYear(yoe + era * 400, doe - (365 * yoe + Quotient(yoe, 4) - Quotient(yoe, 100)))
YearOfEra(doe) ==
  Quotient(doe - Quotient(doe, 1460) + Quotient(doe, 36524) - Quotient(doe, 146096), 365)
FromEra(era, doe) == InEra(era, doe, YearOfEra(doe))
SinceMarch(z) ==
  LET era == Quotient(IF z >= 0 THEN z ELSE z - 146096, 146097)
  IN FromEra(era, z - era * 146097)
from_days(n) == SinceMarch(n + 719468)

\* weekday_from_days(): Sunday is 0.  A negative number is 2^32 more when it is unsigned,
\* which is 4 more modulo 7.
weekday_from_days(n) ==
  IF n >= 0 THEN (n + 4) % 7
  ELSE IF n >= -4 THEN n + 4
  ELSE ((n % 7) + 4) % 7

iso_encoding(weekday) == IF weekday = 0 THEN 7 ELSE weekday
-----------------------------------------------------------------------------
(* Date.cpp: a date is its number of days *)

day_of_year(n) == n - to_days(from_days(n).year, 1, 1) + 1

end_of_month(n) ==
  LET ymd == from_days(n)
      next == IF ymd.month = 12 THEN [year |-> ymd.year + 1, month |-> 1]
                                ELSE [year |-> ymd.year, month |-> ymd.month + 1]
  IN to_days(next.year, next.month, 1) - 1

modjulian_day(n) == n + 40587
julian_day(n) == n + 2440588

\* day and week are unsigned.  A day below 0, that of a year that begins before Julian day
\* -3, is no day of a week then, and days ahead below 0 are a week no year has: NoWeek.
NoWeek == -1
WeekIn(year, n) ==
  LET begin == julian_day(to_days(year, 1, 1))
      day == Remainder(begin + 3, 7)
      ahead == julian_day(n) + day - begin + 4
  IN [day |-> day, week |-> IF ahead < 0 THEN NoWeek ELSE ahead \div 7]

\* mutant: the leap year that begins on a Wednesday is forgotten
HasWeek53NoLeap(year, day) == day = 6

\* The first of January is a Thursday, or a Wednesday of a leap year.
HasWeek53(year, day) == day = 6 \/ (day = 5 /\ is_leap(year))

week_number(n) ==
  LET year == from_days(n).year
      in == WeekIn(year, n)
  IN IF in.week = 0 THEN WeekIn(year - 1, n).week
     ELSE IF in.week = 53 /\ ~HasWeek53(year, in.day) THEN 1
     ELSE in.week

\* from_time_t() of a time of the day n, given in seconds; 86400 has been divided by a
\* common factor.
SecondsPerDay == 12
from_time_t(n, seconds) == Quotient(n * SecondsPerDay + seconds, SecondsPerDay)

CalendarNext == NextDay

CalendarSpec == CalendarInit /\ [][CalendarNext]_calendarVars
-----------------------------------------------------------------------------
CalendarTypeOK == today \in DayType /\ number \in Int

\* The Julian days whose year, and the year before it, begin on Julian day 0 or later
WeeksFrom == 731

(* The week number is that of ISO 8601 (Date.h:58-61).  Before Julian day WeeksFrom it
   need not be: the code takes the weekday of the first of January as a remainder
   towards zero (Date.cpp:179, 202).                                                 *)
WeekIsIso == week_number(number) = IsoWeek

(* What a Date says of itself is what the calendar says that is counted by hand: its
   parts, their way back to the date, and which days of its month there are; its
   weekday, its day of the year and the end of its month; and from the third year of
   Julian days on its ISO week (Date.cpp:16-40, 59-93, 124-211), over leap years, the
   ends of centuries and of eras, and the years whose first and last days are in a week
   of another year.                                                                  *)
CalendarAgrees ==
  /\ from_days(number) = [year |-> today.year, month |-> today.month, day |-> today.day]
  /\ to_days(today.year, today.month, today.day) = number
  /\ \A d \in 0 .. 32 :
       ok(today.year, today.month, d) <=> d \in 1 .. DaysInMonth(today.year, today.month)
  /\ iso_encoding(weekday_from_days(number)) = today.weekday
  /\ day_of_year(number) = today.yearday
  /\ end_of_month(number) = number + DaysInMonth(today.year, today.month) - today.day
  /\ julian_day(number) >= WeeksFrom => WeekIsIso
  /\ (julian_day(number) % 7) + 1 = today.weekday
  /\ number >= 0 => \A seconds \in 0 .. SecondsPerDay - 1 : from_time_t(number, seconds) = number
=============================================================================

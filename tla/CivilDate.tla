----------------------------- MODULE CivilDate -----------------------------
(* The dates of the date library (date_time/date/date.h) that Fmi::date_time keeps its
   days with: a day, the last day, the n-th weekday and the last weekday of a month of
   a year.  A program moves all four of them by the same months and years.

   The reference is the number of the month, counted from year 0, and the calendar
   that Calendar counts by hand.                                                      *)
EXTENDS Calendar, FiniteSets

CONSTANTS
  CivilDays,     \* days to start from
  MonthSteps,    \* months to add at a time
  YearSteps,     \* years to add at a time
  MaxCivilSteps  \* bound: steps of a behaviour

VARIABLES
  civil,     \* [day, last, nth, lastNth], a date of each kind
  counted,   \* the number of the month they are in
  civilSteps

civilVars == <<civil, counted, civilSteps>>

-----------------------------------------------------------------------------
(* Days of a month, months, years and weekdays *)

\* ==, !=, <, >, <= and >= are made of == and < in the same way for every kind.
Compared(equal, less, greater) ==
  [eq |-> equal, ne |-> ~equal, lt |-> less, gt |-> greater, le |-> ~greater, ge |-> ~less]

\* A day is kept in 8 bits, a year in 16 bits with a sign.
Unsigned8(n) == n % 256
Short(n)     == ((n + 32768) % 65536) - 32768

\* Days to start from are of years that fit in their 16 bits.
ASSUME CivilAssumption ==
  /\ CivilDays \subseteq [year : Int, month : 1 .. 12, day : 1 .. 31]
  /\ \A first \in CivilDays : Short(first.year) = first.year
  /\ MonthSteps \subseteq Int /\ YearSteps \subseteq Int /\ MaxCivilSteps \in Nat

DayCompared(x, y) == Compared(x = y, x < y, y < x)
DayPlus(d, n)     == Unsigned8(d + n)

MonthCompared(x, y) == Compared(x = y, x < y, y < x)
MonthMinus(x, y)    == LET d == x - y IN IF d \in 0 .. 11 THEN d ELSE d + 12
MonthPlus(m, n) ==
  LET mu == m + n - 1
      yr == Quotient(IF mu >= 0 THEN mu ELSE mu - 11, 12)
  IN mu - yr * 12 + 1

YearCompared(x, y) == Compared(x = y, x < y, y < x)
YearOk(y)          == y # -32768
YearPlus(y, n)     == Short(y + n)

\* Sunday is 0, and 7 is Sunday as well.
WeekdayOf(n)   == IF n # 7 THEN n ELSE 0
WeekdayOk(wd)  == wd <= 6
WeekdayMinus(x, y) ==
  LET wdu == x - y
  IN wdu - Quotient(IF wdu >= 0 THEN wdu ELSE wdu - 6, 7) * 7
WeekdayPlus(wd, n) ==
  LET wdu == wd + n
  IN WeekdayOf(wdu - Quotient(IF wdu >= 0 THEN wdu ELSE wdu - 6, 7) * 7)
-----------------------------------------------------------------------------
(* A date, or a part of one, is a function from the names of its parts.  x / y joins
   two parts; an int is the part that the other one leaves to it.                     *)

DateEnds == {"day", "last", "nth", "lastNth"}
AnInt == {"int"}

Only(name, value) == [p \in {name} |-> value]

YearPart(y)  == Only("year", Short(y))
MonthPart(m) == Only("month", m)
DayPart(d)   == Only("day", d)
LastSpec     == Only("last", "last")
Nth(wd, i)   == Only("nth", <<wd, i>>)
LastNth(wd)  == Only("lastNth", wd)
IntOf(n)     == Only("int", n)

\* The parts of two dates.
Joined(x, y) == [p \in DOMAIN x \cup DOMAIN y |-> IF p \in DOMAIN x THEN x[p] ELSE y[p]]

\* The parts that x / y takes an int for, beside parts with these names: "none" is no
\* overload.
IntBeside(names, onTheRight) ==
  CASE names = {"year"} /\ onTheRight                     -> "month"
    [] names = {"month"} /\ onTheRight                    -> "day"
    [] names = {"year", "month"} /\ onTheRight            -> "day"
    [] \E e \in DateEnds : names = {e}                        -> "month"
    [] \E e \in DateEnds : names = {"month", e}               -> "year"
    [] OTHER                                              -> "none"

Accepted(left, right) ==
  \/ left = {"year"} /\ right = {"month"}
  \/ \E e \in DateEnds : {left, right} = {{"month"}, {e}}
  \/ \E e \in DateEnds : left = {"year", "month"} /\ right = {e}
  \/ \E e \in DateEnds : {left, right} = {{"year"}, {"month", e}}

\* What does not compile is "none".
Slash(x, y) ==
  LET named(z, other, onTheRight) ==
        IF DOMAIN z # AnInt THEN z
        ELSE LET part == IntBeside(DOMAIN other, onTheRight)
             IN IF part = "year" THEN YearPart(z.int) ELSE Only(part, z.int)
      left == named(x, y, FALSE)
      right == named(y, x, TRUE)
  IN IF Accepted(DOMAIN left, DOMAIN right) THEN Joined(left, right) ELSE Only("none", 0)
-----------------------------------------------------------------------------
(* year_month, month_day and their kin *)

Lexically(x, y, first, then) ==
  x[first] < y[first] \/ (~(x[first] > y[first]) /\ then)

YearMonthLess(x, y) == Lexically(x, y, "year", x.month < y.month)
YearMonthCompared(x, y) == Compared(x = y, YearMonthLess(x, y), YearMonthLess(y, x))

YearMonthPlus(ym, n) ==
  LET dmi == ym.month - 1 + n
      dy  == Quotient(IF dmi >= 0 THEN dmi ELSE dmi - 11, 12)
  IN Slash(YearPart(YearPlus(ym.year, dy)), MonthPart(dmi - dy * 12 + 1))
YearMonthMinus(x, y)     == (x.year - y.year) * 12 + (x.month - y.month)
YearMonthPlusYears(ym, n) == Slash(YearPart(YearPlus(ym.year, n)), MonthPart(ym.month))

MonthDayOk(md) ==
  md.month \in 1 .. 12 /\ 1 <= md.day
  /\ md.day <= <<31, 29, 31, 30, 31, 30, 31, 31, 30, 31, 30, 31>>[md.month]
MonthDayLess(x, y) == Lexically(x, y, "month", x.day < y.day)
MonthDayCompared(x, y) == Compared(x = y, MonthDayLess(x, y), MonthDayLess(y, x))

NthOk(wdi)  == WeekdayOk(wdi[1]) /\ 1 <= wdi[2] /\ wdi[2] <= 5

YearMonthIn(date) == [year |-> date.year, month |-> date.month]

(* The last day of a month *)

LastDayOf(date) ==
  IF date.month # 2 \/ ~is_leap(date.year)
  THEN <<31, 28, 31, 30, 31, 30, 31, 31, 30, 31, 30, 31>>[date.month]
  ELSE 29
LastToDays(date) == to_days(date.year, date.month, LastDayOf(date))
LastLess(x, y) == Lexically(x, y, "year", x.month < y.month)
LastCompared(x, y) == Compared(x = y, LastLess(x, y), LastLess(y, x))
LastPlusMonths(date, n) == Slash(YearMonthPlus(YearMonthIn(date), n), LastSpec)
LastPlusYears(date, n) == [date EXCEPT !.year = YearPlus(@, n)]

(* A day of a month *)

DateToDays(date) == to_days(date.year, date.month, date.day)
DateOk(date) ==
  YearOk(date.year) /\ date.month \in 1 .. 12 /\ 1 <= date.day /\ date.day <= LastDayOf(date)
DateLess(x, y) == Lexically(x, y, "year", MonthDayLess(x, y))
DateCompared(x, y) == Compared(x = y, DateLess(x, y), DateLess(y, x))
DatePlusMonths(date, n) == Slash(YearMonthPlus(YearMonthIn(date), n), DayPart(date.day))
DatePlusYears(date, n) ==
  Slash(Slash(YearPart(YearPlus(date.year, n)), MonthPart(date.month)), DayPart(date.day))

(* The n-th weekday of a month *)

NthDate(n) ==
  LET ymd == from_days(n)
  IN [year |-> ymd.year, month |-> ymd.month,
      nth |-> <<weekday_from_days(n), Quotient(ymd.day - 1, 7) + 1>>]
NthToDays(date) ==
  LET d == to_days(date.year, date.month, 1)
  IN d + WeekdayMinus(date.nth[1], weekday_from_days(d)) + (date.nth[2] - 1) * 7
NthDateOk(date) ==
  /\ YearOk(date.year) /\ date.month \in 1 .. 12 /\ WeekdayOk(date.nth[1])
  /\ date.nth[2] >= 1
  /\ \/ date.nth[2] <= 4
     \/ WeekdayMinus(date.nth[1], weekday_from_days(to_days(date.year, date.month, 1)))
          + (date.nth[2] - 1) * 7 + 1 <= LastDayOf(date)
NthPlusMonths(date, n) ==
  Slash(YearMonthPlus(YearMonthIn(date), n), Nth(date.nth[1], date.nth[2]))
NthPlusYears(date, n) == [date EXCEPT !.year = YearPlus(@, n)]

(* The last weekday of a month *)

LastNthToDays(date) ==
  LET d == LastToDays(date)
  IN d - WeekdayMinus(weekday_from_days(d), date.lastNth)
LastNthPlusMonths(date, n) ==
  Slash(YearMonthPlus(YearMonthIn(date), n), LastNth(date.lastNth))
LastNthPlusYears(date, n) == [date EXCEPT !.year = YearPlus(@, n)]
-----------------------------------------------------------------------------
CivilInit ==
  /\ \E first \in CivilDays :
       LET ym == YearMonthIn(first)
           wdi == NthDate(DateToDays(first)).nth
       IN /\ civil = [day |-> first, last |-> Slash(ym, LastSpec),
                      nth |-> Joined(ym, Nth(wdi[1], wdi[2])), lastNth |-> Joined(ym, LastNth(wdi[1]))]
          /\ counted = first.year * 12 + first.month - 1
  /\ civilSteps = 0

\* += and -= of months, and of years
AddMonths(n) ==
  /\ civilSteps < MaxCivilSteps /\ civilSteps' = civilSteps + 1
  /\ civil' = [day |-> DatePlusMonths(civil.day, n), last |-> LastPlusMonths(civil.last, n),
               nth |-> NthPlusMonths(civil.nth, n), lastNth |-> LastNthPlusMonths(civil.lastNth, n)]
  /\ counted' = counted + n

AddYears(n) ==
  /\ civilSteps < MaxCivilSteps /\ civilSteps' = civilSteps + 1
  /\ civil' = [day |-> DatePlusYears(civil.day, n), last |-> LastPlusYears(civil.last, n),
               nth |-> NthPlusYears(civil.nth, n), lastNth |-> LastNthPlusYears(civil.lastNth, n)]
  /\ counted' = counted + 12 * n

CivilNext == (\E n \in MonthSteps : AddMonths(n)) \/ (\E n \in YearSteps : AddYears(n))

CivilSpec == CivilInit /\ [][CivilNext]_civilVars
-----------------------------------------------------------------------------
NearBy == {-25, -13, -12, -11, -1, 0, 1, 12, 23}

CivilYear  == counted \div 12
CivilMonth == (counted % 12) + 1
\* Far enough from the ends of 16 bits for the months that are added.
YearInRange(y) == y >= -32760 /\ y <= 32760
InRange        == YearInRange(CivilYear)
FirstOfMonth == to_days(CivilYear, CivilMonth, 1)
LastOfMonth  == FirstOfMonth + DaysInMonth(CivilYear, CivilMonth) - 1

\* What the six comparisons say of two numbers
Order(a, b) ==
  [eq |-> a = b, ne |-> a # b, lt |-> a < b, gt |-> a > b, le |-> a <= b, ge |-> a >= b]

(* Months and years are added as the numbers of months are, and a difference of months
   is what has to be added; a year beyond 16 bits is another year or none
   (date.h:1617-1650, 1719-1800, 2177-2330, 2820-2895, 3105-3155, 3320-3375, 3500-3557). *)
MonthsAreCounted ==
  /\ \A kind \in DOMAIN civil :
       /\ civil[kind].month = CivilMonth
       /\ civil[kind].year = Short(CivilYear)
  /\ \A n \in NearBy :
       LET ym == YearMonthIn(civil.day)
           there == YearMonthPlus(ym, n)
       IN InRange =>
          /\ YearMonthMinus(there, ym) = n
          /\ YearMonthPlus(there, -n) = ym
          /\ YearMonthCompared(there, ym) = Order(n, 0)
          /\ LastCompared(LastPlusMonths(civil.last, n), civil.last) = Order(n, 0)
          /\ MonthMinus(there.month, ym.month) = n % 12
          /\ MonthPlus(ym.month, n) = there.month
          /\ YearCompared(there.year, ym.year) = Order((counted + n) \div 12, CivilYear)

(* There is such a day just when it comes back from its number; days are in the order of
   their numbers, and the days of a month in the order of a year's
   (date.h:1429-1508, 2358-2440, 2737-2820, 2901-3105).                               *)
DaysAreOrdered ==
  InRange =>
  /\ \A d \in 0 .. 32 :
       LET date == [civil.day EXCEPT !.day = d]
       IN /\ DateOk(date) <=> d \in 1 .. DaysInMonth(CivilYear, CivilMonth)
          /\ DateOk(date) <=> from_days(DateToDays(date)) = date
          /\ MonthDayOk(date) <=> \E y \in {CivilYear, 2000} : d \in 1 .. DaysInMonth(y, CivilMonth)
  /\ LastToDays(civil.last) = LastOfMonth
  /\ DateOk(civil.day) =>
       \A n \in NearBy :
         LET there == from_days(DateToDays(civil.day) + n)
         IN /\ DateCompared(there, civil.day) = Order(n, 0)
            /\ there.year = civil.day.year => MonthDayCompared(there, civil.day) = Order(n, 0)
            /\ there.month = civil.day.month /\ there.year = civil.day.year =>
                 DayCompared(there.day, civil.day.day) = Order(n, 0)
                 /\ DayPlus(civil.day.day, n) = there.day

(* The n-th and the last weekday of a month are those that are met in it, day by day,
   and an n that the month does not have is known (date.h:1815-1945, 3230-3295,
   3440-3475).                                                                       *)
WeekdaysAreMet ==
  InRange =>
  LET month == FirstOfMonth .. LastOfMonth
      met(wd) == {n \in month : weekday_from_days(n) = wd}
  IN /\ \A n \in month :
          /\ NthToDays(NthDate(n)) = n /\ NthDateOk(NthDate(n)) /\ NthOk(NthDate(n).nth)
          /\ NthDate(n).nth[2] = Cardinality({k \in met(weekday_from_days(n)) : k <= n})
          /\ \A k \in month :
               /\ WeekdayPlus(weekday_from_days(n), k - n) = weekday_from_days(k)
               /\ WeekdayMinus(weekday_from_days(k), weekday_from_days(n)) = (k - n) % 7
     /\ \A wd \in 0 .. 6, i \in 0 .. 6 :
          LET date == [civil.nth EXCEPT !.nth = <<wd, i>>]
          IN NthDateOk(date) <=> i \in 1 .. Cardinality(met(wd))
     /\ \A wd \in 0 .. 6 :
          LET n == LastNthToDays([civil.lastNth EXCEPT !.lastNth = wd])
          IN n \in met(wd) /\ \A k \in met(wd) : k <= n

(* A date that is written year/month/end, month/end/year or end/month/year is the same
   date, whichever of its parts are ints, and none of the other orders is taken for one
   when no part is an int (date.h:3560-3885).                                        *)
Written3(x, y, z) == Slash(Slash(x, y), z)
OrdersOfPartsAgree ==
  \A kind \in DOMAIN civil :
    LET date == civil[kind]
        typed(p) == Only(p, date[p])
        \* the parts of the names in I are ints
        part(p, I) == IF p \in I THEN IntOf(date[p]) ELSE typed(p)
        end == IF kind = "day" THEN "day" ELSE kind
        orders == {<<"year", "month", end>>, <<"month", end, "year">>, <<end, "month", "year">>}
        canBeInts == {"year", "month", end} \ {"last", "nth", "lastNth"}
        all == {o \in [1 .. 3 -> {"year", "month", end}] : \A i, j \in 1 .. 3 : o[i] = o[j] => i = j}
    IN /\ \A o \in orders, I \in SUBSET canBeInts :
            LET written == Written3(part(o[1], I), part(o[2], I), part(o[3], I))
            IN written \in {date, Only("none", 0)} /\ (o[1] \notin I => written = date)
       /\ \A o \in all \ orders :
            Written3(typed(o[1]), typed(o[2]), typed(o[3])) = Only("none", 0)

CivilDatesAreSound ==
  MonthsAreCounted /\ DaysAreOrdered /\ WeekdaysAreMet /\ OrdersOfPartsAgree
=============================================================================

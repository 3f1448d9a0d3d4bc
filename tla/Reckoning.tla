----------------------------- MODULE Reckoning -----------------------------
(* Reckoning with times: the arithmetic of DateTime, TimeDuration and Date
   (date_time/DateTime.cpp, TimeDuration.cpp, Date.cpp), their comparisons, the parts
   they are taken apart into, and what they keep in archives and in a struct tm.

   Values and their special types are those of TimePeriod, dates those of Calendar.
   Times and durations are counted in ticks, of which a second has a few in place of
   its 10^6 microseconds.  A special duration still has a count, which nobody set; a
   sum and a sign look at it.                                                         *)
EXTENDS TimePeriod, Calendar, Sequences, FiniteSets

CONSTANTS
  Ticks,       \* in a second
  ClockTimes,  \* the normal times to start from
  Lapses,      \* the normal durations to reckon with
  Leftovers,   \* what there may be in the memory of a duration that was not set
  Factors,     \* to multiply durations by, and to divide them
  MaxReckoned  \* bound on the steps

VARIABLES
  clock,   \* a DateTime
  lapse,   \* a TimeDuration
  steps    \* that have been taken

reckoningVars == <<clock, lapse, steps>>

ASSUME ReckoningAssumption ==
  /\ Ticks \in Nat \ {0} /\ ClockTimes \subseteq Int /\ Lapses \subseteq Int
  /\ Leftovers \subseteq Int /\ Factors \subseteq Nat \ {0} /\ MaxReckoned \in Nat

UnsetSpecials(types) == [type : types, at : Leftovers]
LapseValues == {AtTime(n) : n \in Lapses} \cup UnsetSpecials(Specials)
ClockValues == ValuesOf(ClockTimes)

Hour == 3600 * Ticks
TicksInDay == 24 * Hour
-----------------------------------------------------------------------------
(* TimeDuration: what a special one is added to is special only if it is that too *)

BothSpecial(d, e) == IsSpecial(d) /\ IsSpecial(e)

\* operator+ and operator-
Sums(d, e) == IF BothSpecial(d, e) THEN UnsetSpecials({NOT_A_DATE_TIME}) ELSE {AtTime(d.at + e.at)}
Differences(d, e) ==
  IF BothSpecial(d, e) THEN UnsetSpecials({NOT_A_DATE_TIME}) ELSE {AtTime(d.at - e.at)}

\* operator+= and operator-=, which keep the type
SumsKept(d, e) ==
  IF BothSpecial(d, e) THEN UnsetSpecials({NOT_A_DATE_TIME}) ELSE {[d EXCEPT !.at = @ + e.at]}
DifferencesKept(d, e) ==
  IF BothSpecial(d, e) THEN UnsetSpecials({NOT_A_DATE_TIME}) ELSE {[d EXCEPT !.at = @ - e.at]}

Negated(d) == AtTime(-d.at)
Multiplied(d, factor) == IF IsSpecial(d) THEN d ELSE [d EXCEPT !.at = @ * factor]
Divided(d, factor) == IF IsSpecial(d) THEN d ELSE [d EXCEPT !.at = Quotient(@, factor)]

\* duration_cast, and the parts of a duration, which have its sign
Whole(d, unit) == Quotient(d.at, unit)
HoursIn(d) == Whole(d, Hour)
MinutesIn(d) == Whole(d, 60 * Ticks) - 60 * HoursIn(d)
SecondsIn(d) == Whole(d, Ticks) - 60 * Whole(d, 60 * Ticks)
fractional_seconds(d) == d.at - Ticks * Whole(d, Ticks)

TimeDuration(h, m, s, ticks) == AtTime(h * Hour + m * 60 * Ticks + s * Ticks + ticks)
-----------------------------------------------------------------------------
(* DateTime and Date *)

TimeBetween(t, u) ==
  LET type == sub_impl(t.type, u.type)
  IN IF type = NORMAL THEN {AtTime(t.at - u.at)} ELSE UnsetSpecials({type})

\* ++ and -- of all three, and + and - of a Date and days.
Advanced(v, n) == IF IsSpecial(v) THEN v ELSE [v EXCEPT !.at = @ + n]

DateOf(t) == AtTime(t.at \div TicksInDay)
TimeOfDayOf(t) == AtTime(t.at - TicksInDay * DateOf(t).at)
DateTime(day, d) == AtTime(TicksInDay * day.at + d.at)

as_time_t(t) == Quotient(t.at, Ticks)
DateTime_from_time_t(n) == AtTime(n * Ticks)

\* Date::operator>=, which asks Base::operator<= where one date is special.
DateAtLeast(a, b) == IF IsSpecial(a) \/ IsSpecial(b) THEN a.type <= b.type ELSE a.at >= b.at

\* The other comparisons of all three classes have IsLess, IsEqual and IsAtMost.
IsAtLeast(a, b) == IF IsSpecial(a) \/ IsSpecial(b) THEN a.type >= b.type ELSE a.at >= b.at

\* DateTime::as_tm(); the weekdays of a struct tm are 0, which is Sunday, to 6.
as_tm(t) ==
  LET day == DateOf(t).at
      ymd == from_days(day)
      d == TimeOfDayOf(t)
  IN [tm_year |-> ymd.year - 1900, tm_mon |-> ymd.month - 1, tm_mday |-> ymd.day,
      tm_wday |-> iso_encoding(weekday_from_days(day)), tm_yday |-> day_of_year(day) - 1,
      tm_hour |-> HoursIn(d), tm_min |-> MinutesIn(d), tm_sec |-> SecondsIn(d)]
Date_tm_wday(day) == iso_encoding(weekday_from_days(day)) - 1

from_tm(tm) ==
  DateTime(AtTime(to_days(tm.tm_year + 1900, tm.tm_mon + 1, tm.tm_mday)),
           TimeDuration(tm.tm_hour, tm.tm_min, tm.tm_sec, 0))

\* save() to an archive, and load() into an object that has a value.
Archived(v) == IF IsSpecial(v) THEN <<v.type>> ELSE <<v.type, v.at>>
Loaded(v, archive) ==
  IF Len(archive) = 2 THEN [type |-> archive[1], at |-> archive[2]] ELSE [v EXCEPT !.type = archive[1]]
-----------------------------------------------------------------------------
ReckoningInit ==
  clock \in ClockValues /\ lapse \in LapseValues /\ steps = 0

\* operator+=, operator-=, ++ and --
ClockMoves ==
  /\ clock' \in {Plus(clock, lapse), Less(clock, lapse), Advanced(clock, 1), Advanced(clock, -1)}
  /\ UNCHANGED lapse

LapseCombines(e) ==
  /\ lapse' \in UNION {Sums(lapse, e), Differences(lapse, e),
                       SumsKept(lapse, e), DifferencesKept(lapse, e)}
  /\ UNCHANGED clock

LapseChanges ==
  /\ \/ lapse' \in {Negated(lapse), Advanced(lapse, 1), Advanced(lapse, -1)}
     \/ \E factor \in Factors : lapse' \in {Multiplied(lapse, factor), Divided(lapse, factor)}
  /\ UNCHANGED clock

LapseMeasures(t) ==
  /\ lapse' \in TimeBetween(clock, t)
  /\ UNCHANGED clock

LapseLoads(e) ==
  /\ lapse' = Loaded(lapse, Archived(e))
  /\ UNCHANGED clock

ReckoningNext ==
  /\ steps < MaxReckoned
  /\ steps' = steps + 1
  /\ \/ ClockMoves \/ LapseChanges
     \/ \E e \in LapseValues : LapseCombines(e) \/ LapseLoads(e)
     \/ \E t \in ClockValues : LapseMeasures(t)

ReckoningSpec == ReckoningInit /\ [][ReckoningNext]_reckoningVars
-----------------------------------------------------------------------------
(* Adding a duration to a time is undone by subtracting it, and is what the difference
   is; two durations may be added at once or one after the other, whatever the time;
   and the order of times is kept (DateTime.cpp:225-329, TimeDuration.cpp:204-260).  All
   this with normal durations: of an infinite one an infinite time remains, which is
   after all others, or before them, when it is added; subtracted from a normal time it
   has the wrong sign.                                                                *)
TimesAddUp ==
  LET sum == Plus(clock, lapse)
      rest == Less(clock, lapse)
  IN /\ ~IsSpecial(lapse) =>
          /\ IsEqual(Less(sum, lapse), clock)
          /\ ~IsSpecial(clock) => TimeBetween(sum, clock) = {lapse}
          /\ \A e \in {AtTime(n) : n \in Lapses} : \A both \in Sums(lapse, e) :
               Plus(sum, e) = Plus(clock, both)
          /\ \A t \in ClockValues : IsLess(t, clock) = IsLess(Plus(t, lapse), sum)
     /\ lapse.type \in {POS_INFINITY, NEG_INFINITY} /\ ~IsSpecial(clock) =>
          /\ IsLess(clock, sum) = (lapse.type = POS_INFINITY)
          /\ IsLess(sum, clock) = (lapse.type = NEG_INFINITY)
          /\ rest = sum

(* a += b and a -= b leave what a + b and a - b are, except where only a is special: it
   stays so, but the sum is normal, and has a count that nobody set.  What an archive
   gives back is equal to what was put into it, whatever it replaces
   (TimeDuration.cpp:204-244, TimeDuration.h:127-151).                                *)
FormsAgree ==
  \A e \in LapseValues :
    /\ IF IsSpecial(lapse) /\ ~IsSpecial(e)
       THEN \A kept \in SumsKept(lapse, e), sum \in Sums(lapse, e) :
              IsEqual(kept, lapse) /\ ~IsSpecial(sum)
       ELSE /\ SumsKept(lapse, e) = Sums(lapse, e)
            /\ DifferencesKept(lapse, e) = Differences(lapse, e)
    /\ IsEqual(Loaded(lapse, Archived(e)), e)

(* Of two times, durations or dates one is before the other, or they are equal, and the
   comparisons agree on it, in every order of them (DateTime.cpp:160-223, Base.cpp:31-67);
   but >= of dates does not where one is special and the other is not, or is another
   (Date.cpp:277-283).                                                                *)
OrdersAgree ==
  \A t \in ClockValues :
    /\ Cardinality({i \in 1 .. 3 : <<IsLess(clock, t), IsEqual(clock, t), IsLess(t, clock)>>[i]}) = 1
    /\ IsAtLeast(clock, t) = IsAtMost(t, clock)
    /\ \A u \in ClockValues : IsAtMost(clock, t) /\ IsAtMost(t, u) => IsAtMost(clock, u)
    /\ (DateAtLeast(clock, t) # IsAtLeast(clock, t)) = (clock.type # t.type)

(* The parts give the whole: of a duration, whose parts have its sign; of a time, whose
   time of day is none of them negative, also before 1970; and of a struct tm, but for
   the part of a second.  Its weekday counts Sunday as 7, that of a Date's from Monday,
   neither of which a struct tm does; as_time_t() is the second of the time, or the
   next one before 1970 (TimeDuration.cpp:16-89, DateTime.cpp:397-431, 457-460).       *)
PartsMakeTheWhole ==
  /\ ~IsSpecial(lapse) =>
       LET parts == <<HoursIn(lapse), MinutesIn(lapse), SecondsIn(lapse), fractional_seconds(lapse)>>
       IN /\ TimeDuration(parts[1], parts[2], parts[3], parts[4]) = lapse
          /\ parts[2] \in -59 .. 59 /\ parts[3] \in -59 .. 59
          /\ \A i \in 1 .. 4 : IF lapse.at >= 0 THEN parts[i] >= 0 ELSE parts[i] <= 0
  /\ ~IsSpecial(clock) =>
       LET day == DateOf(clock)
           inDay == TimeOfDayOf(clock)
           tm == as_tm(clock)
           second == AtTime(clock.at - (clock.at % Ticks))
       IN /\ DateTime(day, inDay) = clock /\ inDay.at \in 0 .. TicksInDay - 1
          /\ from_tm(tm) = second
          /\ tm.tm_wday = ((day.at + 3) % 7) + 1 /\ Date_tm_wday(day.at) = (day.at + 3) % 7
          /\ DateTime_from_time_t(as_time_t(clock)) =
               IF clock.at >= 0 \/ second = clock THEN second ELSE AtTime(second.at + Ticks)

(* Times, durations and dates are reckoned with as above, whatever was done before. *)
ReckoningIsSound == TimesAddUp /\ FormsAgree /\ OrdersAgree /\ PartsMakeTheWhole
=============================================================================

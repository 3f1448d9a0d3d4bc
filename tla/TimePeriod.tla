----------------------------- MODULE TimePeriod -----------------------------
(* Fmi::date_time::TimePeriod (date_time/TimePeriod.h), over the times and durations
   of DateTime.cpp and TimeDuration.cpp with their special values (Base.cpp).

   A time, or a duration, is [type, at]; at is 0 in a special one.                  *)
EXTENDS Integers

CONSTANTS
  PeriodTimes,  \* bound: the normal times there are, an interval
  Durations     \* lengths of the normal durations

ASSUME PeriodAssumption == PeriodTimes \subseteq Int /\ PeriodTimes # {} /\ Durations \subseteq Int

VARIABLES
  period,    \* [begin, end]
  overdrawn  \* history: expand() was given a negative or an infinite duration

periodVars == <<period, overdrawn>>

NORMAL == 0
POS_INFINITY == 2
NEG_INFINITY == -1
NOT_A_DATE_TIME == 1

ValueTypes == {NORMAL, POS_INFINITY, NEG_INFINITY, NOT_A_DATE_TIME}
Specials == ValueTypes \ {NORMAL}

AtTime(t) == [type |-> NORMAL, at |-> t]
Special(type) == [type |-> type, at |-> 0]
ValuesOf(S) == {AtTime(t) : t \in S} \cup {Special(type) : type \in Specials}
Undefined == Special(NOT_A_DATE_TIME)

IsSpecial(v) == v.type # NORMAL
IsUndefined(v) == v.type = NOT_A_DATE_TIME
-----------------------------------------------------------------------------
(* Comparisons: one special value, and the types are compared. *)
IsLess(a, b) == IF IsSpecial(a) \/ IsSpecial(b) THEN a.type < b.type ELSE a.at < b.at
IsEqual(a, b) == IF IsSpecial(a) \/ IsSpecial(b) THEN a.type = b.type ELSE a.at = b.at
IsAtMost(a, b) == IsLess(a, b) \/ IsEqual(a, b)

add_impl(a, b) ==
  CASE NOT_A_DATE_TIME \in {a, b} -> NOT_A_DATE_TIME
    [] a = NORMAL -> b
    [] b \in {NORMAL, a} -> a
    [] OTHER -> NOT_A_DATE_TIME

\* An infinity that is subtracted from a normal value stays what it is.
sub_impl(a, b) ==
  IF NOT_A_DATE_TIME \in {a, b} THEN NOT_A_DATE_TIME
  ELSE IF a = NORMAL THEN b
  ELSE IF b # a THEN a
  ELSE NOT_A_DATE_TIME

Plus(t, d) ==
  LET type == add_impl(t.type, d.type) IN IF type = NORMAL THEN AtTime(t.at + d.at) ELSE Special(type)
Less(t, d) ==
  LET type == sub_impl(t.type, d.type) IN IF type = NORMAL THEN AtTime(t.at - d.at) ELSE Special(type)
-----------------------------------------------------------------------------
(* The constructors, and what is asked of a period *)

NoPeriod == [begin |-> Undefined, end |-> Undefined]

\* mutant: a period that ends before it begins is taken as it is
EndsAnywhere(start, end) == ~IsUndefined(start) /\ ~IsUndefined(end)

IsOrderly(start, end) == ~IsUndefined(start) /\ ~IsUndefined(end) /\ ~IsLess(end, start)

Between(start, end) == IF IsOrderly(start, end) THEN [begin |-> start, end |-> end] ELSE NoPeriod

LastingFrom(start, d) ==
  IF IsSpecial(start) \/ IsSpecial(d) \/ d.at < 0 THEN NoPeriod
  ELSE [begin |-> start, end |-> Plus(start, d)]

IsOpen(p) == IsUndefined(p.begin) \/ IsUndefined(p.end)
is_null(p) == IsOpen(p) \/ IsEqual(p.begin, p.end)

length(p) == IF IsSpecial(p.begin) \/ IsSpecial(p.end) THEN Undefined ELSE Less(p.end, p.begin)

contains_time(p, t) ==
  ~is_null(p) /\ ~IsUndefined(t) /\ IsAtMost(p.begin, t) /\ IsAtMost(t, p.end)
\* With an undefined time in either, nothing is contained.
contains(p, q) ==
  ~IsOpen(p) /\ ~IsOpen(q) /\ IsAtMost(p.begin, q.begin) /\ IsAtMost(q.end, p.end)
intersects(p, q) ==
  ~IsOpen(p) /\ ~IsOpen(q) /\ IsLess(p.begin, q.end) /\ IsLess(q.begin, p.end)

Later(a, b) == IF IsLess(b, a) THEN a ELSE b
Earlier(a, b) == IF IsLess(a, b) THEN a ELSE b

intersection(p, q) ==
  IF IsOpen(p) \/ IsOpen(q) THEN NoPeriod
  ELSE Between(Later(p.begin, q.begin), Earlier(p.end, q.end))
span(p, q) ==
  IF IsOpen(p) \/ IsOpen(q) THEN NoPeriod
  ELSE Between(Earlier(p.begin, q.begin), Later(p.end, q.end))
merge(p, q) == IF intersects(p, q) THEN span(p, q) ELSE NoPeriod
-----------------------------------------------------------------------------
Times == ValuesOf(PeriodTimes)
DurationValues == ValuesOf(Durations)
Periods == {Between(s, e) : s \in Times, e \in Times}

InBounds(p) == {p.begin, p.end} \subseteq Times

PeriodInit == period = NoPeriod /\ overdrawn = FALSE

Constructed ==
  /\ \/ \E s, e \in Times : period' = Between(s, e)
     \/ \E s \in Times, d \in DurationValues : period' = LastingFrom(s, d)
  /\ InBounds(period')
  /\ overdrawn' = FALSE

IsShiftable == ~IsSpecial(period.begin) /\ ~IsSpecial(period.end)

Shift(d) ==
  /\ IsShiftable
  /\ period' = [begin |-> Plus(period.begin, d), end |-> Plus(period.end, d)]
  /\ InBounds(period')
  /\ UNCHANGED overdrawn

\* Nothing keeps the beginning before the end.
Expand(d) ==
  /\ IsShiftable
  /\ period' = [begin |-> Less(period.begin, d), end |-> Plus(period.end, d)]
  /\ InBounds(period')
  /\ overdrawn' = (overdrawn \/ d.at < 0 \/ IsSpecial(d))

Combine(q) ==
  /\ period' \in {intersection(period, q), merge(period, q), span(period, q)}
  /\ UNCHANGED overdrawn

PeriodNext ==
  \/ Constructed
  \/ \E d \in DurationValues : Shift(d) \/ Expand(d)
  \/ \E q \in Periods : Combine(q)

PeriodSpec == PeriodInit /\ [][PeriodNext]_periodVars
-----------------------------------------------------------------------------
PeriodTypeOK ==
  /\ period \in [begin : [type : ValueTypes, at : Int], end : [type : ValueTypes, at : Int]]
  /\ overdrawn \in BOOLEAN

\* The times that a period stands for: its beginning, but not its end.  There are
\* times before and after all that a period may begin or end with.
AllTimes == {t + i : t \in PeriodTimes, i \in -1 .. 1}
TimesIn(p) == {t \in AllTimes : IsAtMost(p.begin, AtTime(t)) /\ IsLess(AtTime(t), p.end)}
Hull(T) == {t \in AllTimes : \E a, b \in T : a <= t /\ t <= b}

(* A period that expand() has not spoilt is null or begins before it ends, and the
   periods are the sets of their times (TimePeriod.h:36-66, 132-262): two of them
   intersect, and one contains the other, as the sets do, the intersection is theirs,
   and merge() and span() give the smallest period around both; also when they are
   not bounded on one side or on both.                                              *)
PeriodsAreSets ==
  ~overdrawn /\ ~is_null(period) =>
    /\ IsLess(period.begin, period.end)
    /\ ~IsSpecial(length(period)) => length(period).at > 0
    /\ \A t \in AllTimes :
         contains_time(period, AtTime(t)) <=> t \in TimesIn(period) \/ AtTime(t) = period.end
    /\ \A q \in Periods :
         ~is_null(q) =>
           LET mine == TimesIn(period)
               its == TimesIn(q)
           IN /\ contains(period, q) <=> its \subseteq mine
              /\ intersects(period, q) <=> mine \cap its # {}
              /\ is_null(intersection(period, q)) <=> mine \cap its = {}
              /\ mine \cap its # {} => TimesIn(intersection(period, q)) = mine \cap its
              /\ is_null(merge(period, q)) <=> mine \cap its = {}
              /\ mine \cap its # {} => TimesIn(merge(period, q)) = mine \cup its
              /\ TimesIn(span(period, q)) = Hull(mine \cup its)
=============================================================================

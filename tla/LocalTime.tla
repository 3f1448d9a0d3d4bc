----------------------------- MODULE LocalTime -----------------------------
(* Fmi::date_time::LocalDateTime (date_time/LocalDateTime.cpp): an instant together
   with a time zone.  It is made from UTC, or from a local time, which a zone may show
   twice or not at all; the date library finds out by the zone's transitions
   (date_time/date/tz.cpp, tz.h).

   Instants and offsets are integers.  A zone is the sequence of its transitions
   [at, offset, is_dst]; the first of them is at the beginning of time.             *)
EXTENDS Integers, Sequences, FiniteSets, FiniteSetsExt

CONSTANTS
  Zones,       \* the zones
  Day,         \* 24 hours
  Instants,    \* bound: the instants there are
  LocalTimes,  \* the local times that may be given
  Steps        \* durations for advance()

Transition == [at : Int, offset : Int, is_dst : BOOLEAN]

EndOfTime == 1000000

\* A zone keeps an offset for more than two days, and does not change it by more than one.
\* Time begins before, and ends after, what the program works with.
ASSUME ZoneAssumption ==
  /\ Day \in Nat \ {0}
  /\ Instants \subseteq Int /\ LocalTimes \subseteq Int /\ Steps \subseteq Int
  /\ \A zone \in Zones :
       /\ zone \in Seq(Transition) /\ zone # <<>>
       /\ \A s \in Instants : zone[1].at + 2 * Day < s /\ s < EndOfTime
       /\ \A i \in DOMAIN zone :
            /\ zone[i].at < EndOfTime
            /\ \A local \in LocalTimes : zone[1].at <= local - zone[i].offset
       /\ \A i \in 2 .. Len(zone) :
            /\ zone[i].at - zone[i - 1].at > 2 * Day
            /\ zone[i].offset - zone[i - 1].offset \in -Day .. Day

VARIABLE ldt  \* [type, zone, at]: a LocalDateTime

TimeTypes == {"NORMAL", "NOT_A_DATE_TIME"}
ChooseValues == {"NONE", "EARLIEST", "LATEST", "AUTO"}

NotATime(zone) == [type |-> "NOT_A_DATE_TIME", zone |-> zone, at |-> 0]

LocalInit == \E zone \in Zones : ldt = NotATime(zone)
-----------------------------------------------------------------------------
(* tz.cpp: what is known of an instant, and of a local time *)

\* load_sys_info() of the transition that ends a period, or of none.
load_sys_info(zone, i) ==
  LET of == IF i = 1 THEN 1 ELSE i - 1 IN
  [begin |-> zone[of].at, offset |-> zone[of].offset, save |-> zone[of].is_dst,
   end |-> IF of < Len(zone) THEN zone[of + 1].at ELSE EndOfTime]

\* upper_bound(): the first of the transitions that come after what is looked for.
UpperBound(zone, after) == IF after = {} THEN Len(zone) + 1 ELSE Min(after)

get_sys_info(zone, at) == load_sys_info(zone, UpperBound(zone, {i \in DOMAIN zone : at < zone[i].at}))

\* mutant: the end of the earlier period is one of its instants
UntilItsEnd(at, info) == at <= info.end

BeforeItsEnd(at, info) == at < info.end

Unique(info) == [result |-> "unique", first |-> info]

get_local_info(zone, local) ==
  LET tr == UpperBound(zone, {i \in DOMAIN zone : local - zone[i].offset < zone[i].at})
      first == load_sys_info(zone, tr)
  IN IF local - first.offset < first.begin + Day /\ tr # 1
     THEN LET earlier == load_sys_info(zone, tr - 1) IN
          IF BeforeItsEnd(local - earlier.offset, earlier) /\ first.end # earlier.end
          THEN [result |-> "ambiguous", first |-> earlier, second |-> first]
          ELSE Unique(first)
     ELSE IF local - first.offset >= first.end /\ tr # Len(zone) + 1
     THEN LET later == load_sys_info(zone, tr + 1) IN
          IF local - later.offset < later.begin
          THEN [result |-> "nonexistent", first |-> first, second |-> later]
          ELSE Unique(first)
     ELSE Unique(first)
-----------------------------------------------------------------------------
(* tz.h: to_sys() with a choice *)
to_sys(zone, local, choose) ==
  LET info == get_local_info(zone, local) IN
  IF info.result = "nonexistent" THEN info.first.end
  ELSE IF info.result = "ambiguous" /\ choose = "LATEST" THEN local - info.second.offset
  ELSE local - info.first.offset

\* make_zoned_time(); NONE throws where there is a choice to be made.
ThrowsOnLocal(zone, local, choose) ==
  choose = "NONE" /\ get_local_info(zone, local).result # "unique"

make_zoned_time(zone, local, choose) ==
  LET result == get_local_info(zone, local).result IN
  to_sys(zone, local,
         IF choose # "AUTO" THEN choose ELSE IF result = "ambiguous" THEN "LATEST" ELSE "EARLIEST")

IsNormal == ldt.type = "NORMAL"
local_time == ldt.at + get_sys_info(ldt.zone, ldt.at).offset
utc_time == local_time - get_sys_info(ldt.zone, ldt.at).offset

\* date() and time_of_day() are those of the UTC time.
date == utc_time \div Day
time_of_day == utc_time % Day

dst_on == get_sys_info(ldt.zone, ldt.at).save

\* The period of the summer time, or the one that comes next; 1 is for two seconds, less
\* than any period.
get_dst_times ==
  LET info == get_sys_info(ldt.zone, ldt.at)
      of == IF info.save THEN info ELSE get_sys_info(ldt.zone, info.end + 1)
  IN [begin |-> of.begin, end |-> of.end]

\* compare_with() of two that are no special values
compare_with(a, b) == IF a.at = b.at THEN 0 ELSE IF a.at < b.at THEN -1 ELSE 1
LocalBefore(a, b)  == compare_with(a, b) < 0
LocalAtMost(a, b)  == compare_with(a, b) <= 0
LocalEqual(a, b)   == compare_with(a, b) = 0

LocalPlus(a, step)       == IF a.type = "NORMAL" THEN [a EXCEPT !.at = @ + step] ELSE a
LocalMinus(a, step)      == LocalPlus(a, -step)
LocalDifference(to, from) == to.at - from.at

Normal(zone, at) == [type |-> "NORMAL", zone |-> zone, at |-> at]

FromUtc(zone, at) == at \in Instants /\ ldt' = Normal(zone, at)

FromLocal(zone, local, choose) ==
  IF ThrowsOnLocal(zone, local, choose)
  THEN ldt' = NotATime(zone)
  ELSE /\ make_zoned_time(zone, local, choose) \in Instants
       /\ ldt' = Normal(zone, make_zoned_time(zone, local, choose))

make_time(zone, local) == Normal(zone, make_zoned_time(zone, local, "EARLIEST"))

\* advance(), ++ and --; of a special value nothing changes.
Advance(step) ==
  IF IsNormal
  THEN ldt.at + step \in Instants /\ ldt' = LocalPlus(ldt, step)
  ELSE UNCHANGED ldt

ToTz(zone) == IsNormal /\ ldt' = Normal(zone, utc_time)

LocalNext ==
  \/ \E zone \in Zones :
       \/ \E at \in Instants : FromUtc(zone, at)
       \/ \E local \in LocalTimes, choose \in ChooseValues : FromLocal(zone, local, choose)
       \/ ToTz(zone)
  \/ \E step \in Steps : Advance(step)

LocalSpec == LocalInit /\ [][LocalNext]_ldt
-----------------------------------------------------------------------------
LocalTypeOK == ldt \in [type : TimeTypes, zone : Zones, at : Int]

\* The reference: the offset of the last transition until then, and the instants at which
\* the clocks of a zone show a local time.
OffsetAt(zone, at) ==
  LET past == {i \in DOMAIN zone : zone[i].at <= at}
  IN zone[CHOOSE i \in past : \A j \in past : j <= i].offset
Shown(zone, local) ==
  LET offsets == {zone[i].offset : i \in DOMAIN zone}
  IN {at \in {local - offset : offset \in offsets} : at + OffsetAt(zone, at) = local}
Skipped(zone, local) ==
  {zone[i].at : i \in {i \in 2 .. Len(zone) :
     zone[i].at + zone[i - 1].offset <= local /\ local < zone[i].at + zone[i].offset}}

(* A local time becomes an instant at which the zone's clocks show it, the earlier or
   the later one as was asked for (AUTO takes the later); where they skip it, the
   instant at which they do; and NONE accepts just those that they show once
   (LocalDateTime.cpp:82-130, 496-527).  Later local times do not become earlier
   instants.  From the instant, local_time(), utc_time(), date() and time_of_day()
   lead back to it (189-228).                                                        *)
LocalTimesAreExact ==
  /\ \A local \in LocalTimes :
       LET shown == Shown(ldt.zone, local)
           made(choose) == make_zoned_time(ldt.zone, local, choose)
       IN /\ ThrowsOnLocal(ldt.zone, local, "NONE") <=> Cardinality(shown) # 1
          /\ shown # {} => /\ \A choose \in ChooseValues : made(choose) \in shown
                           /\ \A at \in shown : /\ made("EARLIEST") <= at /\ at <= made("LATEST")
                                                /\ at <= made("AUTO")
          /\ shown = {} => \A choose \in ChooseValues : made(choose) \in Skipped(ldt.zone, local)
          /\ local + 1 \in LocalTimes =>
               \A choose \in ChooseValues : made(choose) <= make_zoned_time(ldt.zone, local + 1, choose)
  /\ IsNormal => /\ ldt.at \in Shown(ldt.zone, local_time)
                 /\ date * Day + time_of_day = ldt.at

(* Local times of any zones are ordered and subtracted as the instants they stand for,
   while the local time that is shown may go back as the instant goes on; a duration
   that is added is what lies between; and get_dst_times() is the period of summer time
   that the instant is in, or the whole period that follows (230-254, 357-495, 566-597). *)
LocalTimesAreReckoned ==
  IsNormal =>
    /\ \A zone \in Zones, local \in LocalTimes :
         LET other == make_time(zone, local)
             between == LocalDifference(other, ldt)
         IN /\ LocalEqual(LocalPlus(ldt, between), other)
            /\ LocalMinus(LocalPlus(ldt, between), between) = ldt
            /\ LocalBefore(ldt, other) <=> between > 0
            /\ LocalAtMost(ldt, other) <=> ~LocalBefore(other, ldt)
            /\ zone = ldt.zone /\ local < local_time /\ LocalBefore(ldt, other) =>
                 \E at \in ldt.at .. other.at - 1 : OffsetAt(zone, at) > OffsetAt(zone, at + 1)
    /\ LET period == get_dst_times
           later == {i \in DOMAIN ldt.zone : ldt.zone[i].at > ldt.at}
       IN IF dst_on THEN period.begin <= ldt.at /\ ldt.at < period.end
          ELSE later # {} => period.begin = ldt.zone[Min(later)].at
                             /\ \A i \in later : i # Min(later) => period.end <= ldt.zone[i].at

LocalTimesAreSound == LocalTimesAreExact /\ LocalTimesAreReckoned
=============================================================================

----------------------------- MODULE ZoneSearch -----------------------------
(* The time zone of a coordinate: the binary search of WorldTimeZones::zone_name()
   (WorldTimeZones.cpp:75-131) in a table of records in the order of their positions.
   A record holds for the positions from its own up to that of the next one.

   What is read behind the end of the table is undefined, and any number here.        *)
EXTENDS Integers, Sequences

CONSTANTS
  Tables,   \* the positions of the records, in order, the first of which is 0
  Outside,  \* numbers that may be found behind the end of the table
  LastPos   \* the last position

VARIABLES
  positions, \* of the table: that of record k is positions[k + 1]
  pos,       \* that is looked for
  lo, hi     \* bounds of the search

zoneVars == <<positions, pos, lo, hi>>

ASSUME TableAssumption ==
  /\ \A t \in Tables : /\ t \in Seq(Nat) /\ t # <<>> /\ t[1] = 0
                       /\ \A i, j \in DOMAIN t : i < j => t[i] < t[j]
  /\ Outside \subseteq Nat /\ LastPos \in Nat

records == Len(positions)

\* uint32_t, so that it is no less than zero
read_pos(k) == IF k < records THEN {positions[k + 1]} ELSE Outside

ZoneInit == positions \in Tables /\ pos \in 0 .. LastPos /\ lo = 0 /\ hi = records

mid == (lo + hi) \div 2 + 1

Halves ==
  /\ lo # hi
  /\ \E midpos \in read_pos(mid) :
       IF midpos > pos
       THEN hi' = mid - 1 /\ lo' = lo
       ELSE lo' = mid /\ hi' = hi
  /\ UNCHANGED <<positions, pos>>

ZoneNext == Halves

ZoneSpec == ZoneInit /\ [][ZoneNext]_zoneVars
-----------------------------------------------------------------------------
(* The search closes in on the record that holds for the position, and ends at it.  For
   the positions of the last two records it may look one record behind the table, and
   end there; for all others it stays inside (WorldTimeZones.cpp:93-118).             *)
ZoneIsFound ==
  LET holds == CHOOSE k \in 0 .. records - 1 :
                 /\ positions[k + 1] <= pos
                 /\ k + 1 < records => pos < positions[k + 2]
      astray == holds >= records - 2 /\ lo = records
  IN /\ holds \in lo .. hi \/ astray
     /\ holds < records - 2 /\ lo # hi => mid < records
     /\ lo = hi => lo = holds \/ astray
=============================================================================

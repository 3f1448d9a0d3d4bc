---------------------------- MODULE ValueProofs ----------------------------
(***************************************************************************)
(* What TLAPS proves of the algorithms on values: the search for a zone in *)
(* tables of every length, periods as sets of times, the calendar for      *)
(* every day, the reckoning with times and durations, local times in every *)
(* zone, the dates that are reached by adding months and years, and base64 *)
(* for strings of every length.                                            *)
(***************************************************************************)
EXTENDS Values, CollectionLemmas

(* ZoneSearch, for every table *)

\* Record k holds for the position that is looked for.
HoldsFor(k) ==
  /\ k \in 0 .. records - 1
  /\ positions[k + 1] <= pos
  /\ k + 1 < records => pos < positions[k + 2]

ZoneTypeOK ==
  /\ positions \in Tables /\ pos \in Nat
  /\ lo \in 0 .. records /\ hi \in 0 .. records /\ lo <= hi

\* The search is around the record, or has gone one behind the table.
Encloses(k) == k \in lo .. hi \/ (k >= records - 2 /\ lo = records)

ZoneInv == ZoneTypeOK /\ \A k \in 0 .. records - 1 : HoldsFor(k) => Encloses(k)

LEMMA TableParts ==
  ASSUME positions \in Tables
  PROVE  /\ records \in Nat \ {0} /\ DOMAIN positions = 1 .. records
         /\ positions[1] = 0
         /\ \A i \in 1 .. records : positions[i] \in Nat
         /\ \A i, j \in 1 .. records : i < j => positions[i] < positions[j]
<1>1. positions \in Seq(Nat) /\ positions # <<>>
  BY TableAssumption
<1>2. records \in Nat \ {0} /\ DOMAIN positions = 1 .. records
  BY <1>1 DEF records
<1>3. positions[1] = 0 /\ \A i, j \in DOMAIN positions : i < j => positions[i] < positions[j]
  BY TableAssumption
<1>4. \A i \in 1 .. records : positions[i] \in Nat
  BY <1>1, <1>2, ElementOfSeq DEF records
<1> QED BY <1>2, <1>3, <1>4

(* One record of a table holds for a position, and no other. *)
LEMMA OneRecordHolds ==
  ASSUME positions \in Tables, pos \in Nat
  PROVE  \E k \in 0 .. records - 1 :
            HoldsFor(k) /\ \A j \in 0 .. records - 1 : HoldsFor(j) => j = k
<1> DEFINE Before == {i \in 1 .. records : positions[i] <= pos}
<1> USE TableParts
<1>1. Before \in SUBSET (1 .. records) /\ 1 \in Before
  OBVIOUS
<1>2. \A i \in Before : \A j \in 1 .. i : j \in Before
  <2> SUFFICES ASSUME NEW i \in Before, NEW j \in 1 .. i PROVE j \in Before
    OBVIOUS
  <2>1. j \in 1 .. records /\ (j = i \/ positions[j] < positions[i])
    OBVIOUS
  <2> QED BY <2>1
<1>3. PICK n \in 0 .. records : Before = 1 .. n
  <2>1. records \in Nat
    OBVIOUS
  <2> HIDE DEF Before
  <2> QED BY <2>1, <1>1, <1>2, FirstNumbers
<1>4. n - 1 \in 0 .. records - 1
  BY <1>1, <1>3
<1>5. HoldsFor(n - 1)
  <2>1. n \in Before /\ (n < records => n + 1 \notin Before /\ n + 1 \in 1 .. records)
    BY <1>1, <1>3
  <2> QED BY <2>1, <1>4 DEF HoldsFor
<1>6. ASSUME NEW j \in 0 .. records - 1, HoldsFor(j) PROVE j = n - 1
  <2>1. j + 1 \in Before /\ (j + 1 < records => j + 2 \notin Before)
    BY <1>6 DEF HoldsFor
  <2> HIDE DEF Before
  <2>2. j + 1 \in 1 .. n /\ (j + 1 < records => j + 2 \notin 1 .. n)
    BY <2>1, <1>3
  <2> QED BY <2>2
<1> QED BY <1>4, <1>5, <1>6

LEMMA ZoneInitInv == ZoneInit => ZoneInv
<1> SUFFICES ASSUME ZoneInit PROVE ZoneInv
  OBVIOUS
<1>1. positions \in Tables /\ pos \in Nat
  BY TableAssumption DEF ZoneInit
<1> QED BY <1>1, TableParts DEF ZoneInit, ZoneInv, ZoneTypeOK, Encloses

(* A step keeps the record between the bounds, which come closer. *)
LEMMA HalvesKeeps ==
  ASSUME ZoneInv, Halves
  PROVE  ZoneInv'
<1>1. /\ positions \in Tables /\ pos \in Nat /\ lo \in 0 .. records /\ hi \in 0 .. records
      /\ lo <= hi /\ lo # hi /\ UNCHANGED <<positions, pos>> /\ records' = records
  BY DEF ZoneInv, ZoneTypeOK, Halves, records
<1>2. /\ records \in Nat \ {0} /\ \A i \in 1 .. records : positions[i] \in Nat
      /\ \A i, j \in 1 .. records : i < j => positions[i] < positions[j]
  BY <1>1, TableParts
<1>3. mid \in lo + 1 .. hi
  BY <1>1, <1>2 DEF mid
<1>4. PICK midpos \in read_pos(mid) :
        IF midpos > pos THEN hi' = mid - 1 /\ lo' = lo ELSE lo' = mid /\ hi' = hi
  BY DEF Halves
<1>5. midpos \in Nat
  <2>1. CASE mid < records
    <3>1. mid + 1 \in 1 .. records /\ midpos = positions[mid + 1]
      BY <2>1, <1>1, <1>2, <1>3 DEF read_pos
    <3> QED BY <3>1, <1>2
  <2> QED BY <2>1, TableAssumption DEF read_pos
<1>6. ZoneTypeOK'
  BY <1>1, <1>2, <1>3, <1>4, <1>5 DEF ZoneTypeOK
<1>7. ASSUME NEW k \in 0 .. records - 1, HoldsFor(k) PROVE Encloses(k)'
  <2>1. k \in lo .. hi
    BY <1>1, <1>2, <1>7 DEF ZoneInv, Encloses
  <2>2. CASE mid < records
    <3>1. midpos = positions[mid + 1] /\ mid + 1 \in 1 .. records
      BY <2>2, <1>1, <1>2, <1>3, <1>4 DEF read_pos
    <3>2. midpos > pos => k < mid
      <4>1. k = mid => midpos = positions[k + 1]
        BY <3>1
      <4>2. k > mid => midpos < positions[k + 1]
        BY <3>1, <1>1, <1>2, <1>3
      <4> QED BY <4>1, <4>2, <1>1, <1>2, <1>3, <1>5, <1>7 DEF HoldsFor
    <3>3. ~(midpos > pos) => k >= mid
      <4>1. k + 1 = mid => midpos = positions[k + 2] /\ k + 1 < records
        BY <3>1, <2>2, <1>1, <1>2, <1>3
      <4>2. k + 1 < mid => positions[k + 2] < midpos /\ k + 1 < records /\ positions[k + 2] \in Nat
        BY <3>1, <2>2, <1>1, <1>2, <1>3
      <4> QED BY <4>1, <4>2, <1>1, <1>2, <1>3, <1>5, <1>7 DEF HoldsFor
    <3> QED BY <3>2, <3>3, <2>1, <1>1, <1>3, <1>4, <1>5 DEF Encloses
  <2>3. CASE mid = records
    <3>1. hi = records /\ lo >= records - 2
      BY <2>3, <1>1, <1>2, <1>3 DEF mid
    <3> QED BY <3>1, <2>1, <2>3, <1>1, <1>2, <1>4, <1>5 DEF Encloses
  <2> QED BY <2>2, <2>3, <1>1, <1>2, <1>3
<1>8. \A k \in 0 .. records - 1 : HoldsFor(k)' => HoldsFor(k)
  BY <1>1 DEF HoldsFor
<1> QED BY <1>1, <1>6, <1>7, <1>8 DEF ZoneInv

LEMMA ZoneNextInv == ZoneInv /\ [ZoneNext]_zoneVars => ZoneInv'
<1>1. ASSUME ZoneInv, UNCHANGED zoneVars PROVE ZoneInv'
  BY <1>1 DEF zoneVars, ZoneInv, ZoneTypeOK, HoldsFor, Encloses, records
<1> QED BY <1>1, HalvesKeeps DEF ZoneNext

(* The binary search ends at the record that holds for the position, in every table, also
   where it reads one record behind the end, whatever it finds there: for the last two
   records it may then say that there is none (WorldTimeZones.cpp:75-131).                *)
THEOREM ZoneFound == ZoneSpec => []ZoneIsFound
<1>1. ZoneInv => ZoneIsFound
  <2> SUFFICES ASSUME ZoneInv PROVE ZoneIsFound
    OBVIOUS
  <2>1. /\ positions \in Tables /\ pos \in Nat /\ lo \in 0 .. records /\ hi \in 0 .. records
        /\ lo <= hi /\ records \in Nat
    BY TableParts DEF ZoneInv, ZoneTypeOK
  <2> DEFINE holds == CHOOSE k \in 0 .. records - 1 :
                        /\ positions[k + 1] <= pos
                        /\ k + 1 < records => pos < positions[k + 2]
  <2>2. holds \in 0 .. records - 1 /\ HoldsFor(holds)
    <3>1. PICK k \in 0 .. records - 1 : HoldsFor(k)
      BY <2>1, OneRecordHolds
    <3> QED BY <3>1 DEF HoldsFor
  <2> HIDE DEF holds
  <2>3. Encloses(holds)
    BY <2>2 DEF ZoneInv
  <2>4. /\ holds \in lo .. hi \/ (holds >= records - 2 /\ lo = records)
        /\ holds < records - 2 /\ lo # hi => mid < records
        /\ lo = hi => lo = holds \/ (holds >= records - 2 /\ lo = records)
    BY <2>1, <2>2, <2>3 DEF Encloses, mid
  <2> QED BY <2>4 DEF ZoneIsFound, holds
<1> QED BY <1>1, ZoneInitInv, ZoneNextInv, PTL DEF ZoneSpec
-----------------------------------------------------------------------------
(* TimePeriod, for all times *)

\* What a period that is not null may begin and end with.
BeginValues == {AtTime(t) : t \in PeriodTimes} \cup {Special(NEG_INFINITY)}
EndValues == {AtTime(t) : t \in PeriodTimes} \cup {Special(POS_INFINITY)}

\* It lasts.
Lasts(p) == p.begin \in BeginValues /\ p.end \in EndValues /\ IsLess(p.begin, p.end)

\* The time t is not before a, and before c.
From(a, t) == IsAtMost(a, AtTime(t))
Until(c, t) == IsLess(AtTime(t), c)

LEMMA BoundValues ==
  /\ \A a \in BeginValues : /\ a.type \in {NORMAL, NEG_INFINITY}
                            /\ a.type = NORMAL => a.at \in PeriodTimes /\ a.at \in Int
  /\ \A c \in EndValues : /\ c.type \in {NORMAL, POS_INFINITY}
                          /\ c.type = NORMAL => c.at \in PeriodTimes /\ c.at \in Int
  /\ \E t : t \in PeriodTimes
<1>1. /\ \A t \in PeriodTimes : t \in Int
      /\ \E t : t \in PeriodTimes
  BY PeriodAssumption
<1>2. ASSUME NEW a \in BeginValues
      PROVE  /\ a.type \in {NORMAL, NEG_INFINITY}
             /\ a.type = NORMAL => a.at \in PeriodTimes /\ a.at \in Int
  BY <1>1 DEF BeginValues, AtTime, Special, NORMAL, NEG_INFINITY
<1>3. ASSUME NEW c \in EndValues
      PROVE  /\ c.type \in {NORMAL, POS_INFINITY}
             /\ c.type = NORMAL => c.at \in PeriodTimes /\ c.at \in Int
  BY <1>1 DEF EndValues, AtTime, Special, NORMAL, POS_INFINITY
<1> QED BY <1>1, <1>2, <1>3

(* What the comparisons say of the bounds. *)
LEMMA BoundsCompared ==
  /\ \A a \in BeginValues, t \in Int : From(a, t) <=> (a.type = NORMAL => a.at <= t)
  /\ \A c \in EndValues, t \in Int : Until(c, t) <=> (c.type = NORMAL => t < c.at)
  /\ \A a \in BeginValues, c \in EndValues :
       IsLess(a, c) <=> (a.type = NORMAL /\ c.type = NORMAL => a.at < c.at)
  /\ \A a, b \in BeginValues :
       /\ IsLess(a, b) <=> b.type = NORMAL /\ (a.type = NORMAL => a.at < b.at)
       /\ IsAtMost(a, b) <=> (a.type = NORMAL => b.type = NORMAL /\ a.at <= b.at)
  /\ \A c, d \in EndValues :
       /\ IsLess(c, d) <=> c.type = NORMAL /\ (d.type = NORMAL => c.at < d.at)
       /\ IsAtMost(c, d) <=> (d.type = NORMAL => c.type = NORMAL /\ c.at <= d.at)
<1> USE DEF NORMAL, NEG_INFINITY, POS_INFINITY
<1>1. \A a \in BeginValues : a.type \in {NORMAL, NEG_INFINITY} /\ (a.type = NORMAL => a.at \in Int)
  BY BoundValues, Zenon
<1>2. \A c \in EndValues : c.type \in {NORMAL, POS_INFINITY} /\ (c.type = NORMAL => c.at \in Int)
  BY BoundValues, Zenon
<1>3. \A t : AtTime(t).type = NORMAL /\ AtTime(t).at = t
  BY DEF AtTime
<1> USE DEF IsAtMost, IsLess, IsEqual, IsSpecial
<1>4. ASSUME NEW a \in BeginValues, NEW t \in Int
      PROVE  From(a, t) <=> (a.type = NORMAL => a.at <= t)
  BY <1>1, <1>3 DEF From
<1>5. ASSUME NEW c \in EndValues, NEW t \in Int
      PROVE  Until(c, t) <=> (c.type = NORMAL => t < c.at)
  BY <1>2, <1>3 DEF Until
<1>6. ASSUME NEW a \in BeginValues, NEW c \in EndValues
      PROVE  IsLess(a, c) <=> (a.type = NORMAL /\ c.type = NORMAL => a.at < c.at)
  BY <1>1, <1>2
<1>7. ASSUME NEW a \in BeginValues, NEW b \in BeginValues
      PROVE  /\ IsLess(a, b) <=> b.type = NORMAL /\ (a.type = NORMAL => a.at < b.at)
             /\ IsAtMost(a, b) <=> (a.type = NORMAL => b.type = NORMAL /\ a.at <= b.at)
  BY <1>1
<1>8. ASSUME NEW c \in EndValues, NEW d \in EndValues
      PROVE  /\ IsLess(c, d) <=> c.type = NORMAL /\ (d.type = NORMAL => c.at < d.at)
             /\ IsAtMost(c, d) <=> (d.type = NORMAL => c.type = NORMAL /\ c.at <= d.at)
  BY <1>2
<1> HIDE DEF IsAtMost, IsLess, IsEqual, IsSpecial
<1> QED BY <1>4, <1>5, <1>6, <1>7, <1>8

LEMMA NeighboursThere ==
  /\ \A t \in AllTimes : t \in Int
  /\ \A t \in PeriodTimes : t \in AllTimes /\ t - 1 \in AllTimes /\ t + 1 \in AllTimes
<1>1. \A t \in PeriodTimes : t \in Int
  BY PeriodAssumption
<1>2. \A i : i \in -1 .. 1 <=> i \in Int /\ (i = -1 \/ i = 0 \/ i = 1)
  OBVIOUS
<1>3. \A t \in AllTimes : t \in Int
  BY <1>1, <1>2 DEF AllTimes
<1>4. ASSUME NEW t \in PeriodTimes
      PROVE  t \in AllTimes /\ t - 1 \in AllTimes /\ t + 1 \in AllTimes
  <2>1. t = t + 0 /\ t - 1 = t + (-1)
    BY <1>1
  <2>2. 0 \in -1 .. 1 /\ 1 \in -1 .. 1 /\ (-1) \in -1 .. 1
    OBVIOUS
  <2> QED BY <2>1, <2>2 DEF AllTimes
<1> QED BY <1>3, <1>4

(* A period begins before it ends exactly if there is a time in it. *)
LEMMA LessMeansTimes ==
  ASSUME NEW a \in BeginValues, NEW c \in EndValues
  PROVE  IsLess(a, c) <=> \E t \in AllTimes : From(a, t) /\ Until(c, t)
<1>0. /\ \A t \in AllTimes : t \in Int
      /\ a.type = NORMAL => a.at \in PeriodTimes /\ a.at \in Int
      /\ c.type = NORMAL => c.at \in PeriodTimes /\ c.at \in Int
      /\ \A t \in Int : /\ From(a, t) <=> (a.type = NORMAL => a.at <= t)
                        /\ Until(c, t) <=> (c.type = NORMAL => t < c.at)
      /\ IsLess(a, c) <=> (a.type = NORMAL /\ c.type = NORMAL => a.at < c.at)
  BY BoundValues, BoundsCompared, NeighboursThere
<1>1. ASSUME NEW t \in AllTimes, From(a, t), Until(c, t) PROVE IsLess(a, c)
  <2>1. t \in Int
    BY <1>0
  <2>2. (a.type = NORMAL => a.at <= t) /\ (c.type = NORMAL => t < c.at)
    BY <1>0, <1>1, <2>1
  <2> QED BY <1>0, <2>1, <2>2
<1>2. ASSUME IsLess(a, c) PROVE \E t \in AllTimes : From(a, t) /\ Until(c, t)
  <2>1. CASE a.type = NORMAL
    <3>1. a.at \in AllTimes /\ From(a, a.at) /\ Until(c, a.at)
      BY <1>0, <1>2, <2>1, NeighboursThere
    <3> QED BY <3>1
  <2>2. CASE a.type # NORMAL /\ c.type = NORMAL
    <3>1. c.at - 1 \in AllTimes /\ From(a, c.at - 1) /\ Until(c, c.at - 1)
      BY <1>0, <1>2, <2>2, NeighboursThere
    <3> QED BY <3>1
  <2>3. CASE a.type # NORMAL /\ c.type # NORMAL
    <3>1. PICK t \in PeriodTimes : TRUE
      BY BoundValues
    <3>2. t \in AllTimes /\ From(a, t) /\ Until(c, t)
      BY <1>0, <2>3, NeighboursThere
    <3> QED BY <3>2
  <2> QED BY <2>1, <2>2, <2>3
<1> QED BY <1>1, <1>2

(* A time that is after the beginning is after one of the period, or that one. *)
LEMMA TimesReached ==
  ASSUME NEW a \in BeginValues, NEW c \in EndValues, IsLess(a, c), NEW t \in AllTimes
  PROVE  /\ From(a, t) <=> \E x \in AllTimes : x <= t /\ From(a, x) /\ Until(c, x)
         /\ Until(c, t) <=> \E y \in AllTimes : t <= y /\ From(a, y) /\ Until(c, y)
<1>0. /\ t \in Int /\ \A x \in AllTimes : x \in Int
      /\ a.type = NORMAL => a.at \in PeriodTimes /\ a.at \in Int
      /\ c.type = NORMAL => c.at \in PeriodTimes /\ c.at \in Int
      /\ \A x \in Int : /\ From(a, x) <=> (a.type = NORMAL => a.at <= x)
                        /\ Until(c, x) <=> (c.type = NORMAL => x < c.at)
      /\ a.type = NORMAL /\ c.type = NORMAL => a.at < c.at
  BY BoundValues, BoundsCompared, NeighboursThere
<1>1. ASSUME NEW x \in AllTimes, x <= t, From(a, x) PROVE From(a, t)
  <2>1. x \in Int
    BY <1>0
  <2>2. a.type = NORMAL => a.at <= x
    BY <1>0, <1>1, <2>1
  <2> QED BY <1>0, <1>1, <2>1, <2>2
<1>2. ASSUME NEW y \in AllTimes, t <= y, Until(c, y) PROVE Until(c, t)
  <2>1. y \in Int
    BY <1>0
  <2>2. c.type = NORMAL => y < c.at
    BY <1>0, <1>2, <2>1
  <2> QED BY <1>0, <1>2, <2>1, <2>2
<1>3. ASSUME From(a, t) PROVE \E x \in AllTimes : x <= t /\ From(a, x) /\ Until(c, x)
  <2>1. CASE Until(c, t)
    BY <1>0, <1>3, <2>1
  <2>2. CASE ~Until(c, t) /\ a.type = NORMAL
    <3>1. a.at \in AllTimes /\ a.at <= t /\ From(a, a.at) /\ Until(c, a.at)
      BY <1>0, <1>3, <2>2, NeighboursThere
    <3> QED BY <3>1
  <2>3. CASE ~Until(c, t) /\ a.type # NORMAL
    <3>1. c.at - 1 \in AllTimes /\ c.at - 1 <= t /\ From(a, c.at - 1) /\ Until(c, c.at - 1)
      BY <1>0, <2>3, NeighboursThere
    <3> QED BY <3>1
  <2> QED BY <2>1, <2>2, <2>3
<1>4. ASSUME Until(c, t) PROVE \E y \in AllTimes : t <= y /\ From(a, y) /\ Until(c, y)
  <2>1. CASE From(a, t)
    BY <1>0, <1>4, <2>1
  <2>2. CASE ~From(a, t)
    <3>1. a.type = NORMAL /\ a.at \in Int /\ t < a.at /\ a.at \in AllTimes
      BY <1>0, <2>2, NeighboursThere
    <3>2. From(a, a.at) /\ Until(c, a.at)
      BY <1>0, <3>1
    <3> QED BY <1>0, <3>1, <3>2
  <2> QED BY <2>1, <2>2
<1> QED BY <1>1, <1>2, <1>3, <1>4

(* The later of two beginnings is that of the times after both, and so on. *)
LEMMA LaterAndEarlier ==
  /\ \A a, b \in BeginValues :
       /\ Later(a, b) \in BeginValues /\ Earlier(a, b) \in BeginValues
       /\ \A t \in AllTimes : /\ From(Later(a, b), t) <=> From(a, t) /\ From(b, t)
                              /\ From(Earlier(a, b), t) <=> From(a, t) \/ From(b, t)
  /\ \A c, d \in EndValues :
       /\ Later(c, d) \in EndValues /\ Earlier(c, d) \in EndValues
       /\ \A t \in AllTimes : /\ Until(Earlier(c, d), t) <=> Until(c, t) /\ Until(d, t)
                              /\ Until(Later(c, d), t) <=> Until(c, t) \/ Until(d, t)
<1>1. ASSUME NEW a \in BeginValues, NEW b \in BeginValues, NEW t \in AllTimes
      PROVE  /\ From(Later(a, b), t) <=> From(a, t) /\ From(b, t)
             /\ From(Earlier(a, b), t) <=> From(a, t) \/ From(b, t)
  <2>1. /\ t \in Int
        /\ a.type = NORMAL => a.at \in Int
        /\ b.type = NORMAL => b.at \in Int
        /\ From(a, t) <=> (a.type = NORMAL => a.at <= t)
        /\ From(b, t) <=> (b.type = NORMAL => b.at <= t)
        /\ IsLess(a, b) <=> b.type = NORMAL /\ (a.type = NORMAL => a.at < b.at)
        /\ IsLess(b, a) <=> a.type = NORMAL /\ (b.type = NORMAL => b.at < a.at)
    BY BoundValues, BoundsCompared, NeighboursThere
  <2> QED BY <2>1 DEF Later, Earlier
<1>2. ASSUME NEW c \in EndValues, NEW d \in EndValues, NEW t \in AllTimes
      PROVE  /\ Until(Earlier(c, d), t) <=> Until(c, t) /\ Until(d, t)
             /\ Until(Later(c, d), t) <=> Until(c, t) \/ Until(d, t)
  <2>1. /\ t \in Int
        /\ c.type = NORMAL => c.at \in Int
        /\ d.type = NORMAL => d.at \in Int
        /\ Until(c, t) <=> (c.type = NORMAL => t < c.at)
        /\ Until(d, t) <=> (d.type = NORMAL => t < d.at)
        /\ IsLess(c, d) <=> c.type = NORMAL /\ (d.type = NORMAL => c.at < d.at)
        /\ IsLess(d, c) <=> d.type = NORMAL /\ (c.type = NORMAL => d.at < c.at)
    BY BoundValues, BoundsCompared, NeighboursThere
  <2> QED BY <2>1 DEF Later, Earlier
<1> QED BY <1>1, <1>2 DEF Later, Earlier

(* The beginning of a period that contains another one is no later, as far as its times
   show; nor is its end earlier.                                                        *)
LEMMA BoundsOfSubsets ==
  ASSUME NEW a \in BeginValues, NEW c \in EndValues, NEW b \in BeginValues, NEW d \in EndValues,
         IsLess(b, d)
  PROVE  IsAtMost(a, b) /\ IsAtMost(d, c) <=>
           \A t \in AllTimes : From(b, t) /\ Until(d, t) => From(a, t) /\ Until(c, t)
<1>0. /\ \A t \in AllTimes : t \in Int
      /\ a.type = NORMAL => a.at \in PeriodTimes /\ a.at \in Int
      /\ b.type = NORMAL => b.at \in PeriodTimes /\ b.at \in Int
      /\ c.type = NORMAL => c.at \in PeriodTimes /\ c.at \in Int
      /\ d.type = NORMAL => d.at \in PeriodTimes /\ d.at \in Int
      /\ b.type = NORMAL /\ d.type = NORMAL => b.at < d.at
      /\ IsAtMost(a, b) <=> (a.type = NORMAL => b.type = NORMAL /\ a.at <= b.at)
      /\ IsAtMost(d, c) <=> (c.type = NORMAL => d.type = NORMAL /\ d.at <= c.at)
  BY BoundValues, BoundsCompared, NeighboursThere
<1>1. ASSUME NEW t \in Int
      PROVE  /\ From(a, t) <=> (a.type = NORMAL => a.at <= t)
             /\ From(b, t) <=> (b.type = NORMAL => b.at <= t)
             /\ Until(c, t) <=> (c.type = NORMAL => t < c.at)
             /\ Until(d, t) <=> (d.type = NORMAL => t < d.at)
  BY BoundsCompared
<1>2. ASSUME IsAtMost(a, b), IsAtMost(d, c), NEW t \in AllTimes, From(b, t), Until(d, t)
      PROVE  From(a, t) /\ Until(c, t)
  <2>1. t \in Int
    BY <1>0
  <2> QED BY <1>0, <1>1, <1>2, <2>1
<1> DEFINE Subset == \A t \in AllTimes : From(b, t) /\ Until(d, t) => From(a, t) /\ Until(c, t)
<1>3. ASSUME Subset, a.type = NORMAL PROVE b.type = NORMAL /\ a.at <= b.at
  <2>1. CASE b.type = NORMAL
    <3>1. b.at \in AllTimes /\ b.at \in Int
      BY <1>0, <2>1, NeighboursThere
    <3>2. From(b, b.at) /\ Until(d, b.at)
      BY <1>0, <1>1, <2>1, <3>1
    <3> QED BY <1>1, <1>3, <2>1, <3>1, <3>2
  <2>2. ASSUME b.type # NORMAL, d.type = NORMAL => a.at <= d.at PROVE FALSE
    <3>1. a.at - 1 \in AllTimes /\ a.at - 1 \in Int
      BY <1>0, <1>3, NeighboursThere
    <3>2. From(b, a.at - 1) /\ Until(d, a.at - 1)
      BY <1>0, <1>1, <1>3, <2>2, <3>1
    <3> QED BY <1>0, <1>1, <1>3, <3>1, <3>2
  <2>3. ASSUME b.type # NORMAL, d.type = NORMAL, ~(a.at <= d.at) PROVE FALSE
    <3>1. d.at - 1 \in AllTimes /\ d.at - 1 \in Int
      BY <1>0, <2>3, NeighboursThere
    <3>2. From(b, d.at - 1) /\ Until(d, d.at - 1)
      BY <1>0, <1>1, <2>3, <3>1
    <3> QED BY <1>0, <1>1, <1>3, <2>3, <3>1, <3>2
  <2> QED BY <2>1, <2>2, <2>3
<1>4. ASSUME Subset, c.type = NORMAL PROVE d.type = NORMAL /\ d.at <= c.at
  <2>1. CASE d.type = NORMAL
    <3>1. d.at - 1 \in AllTimes /\ d.at - 1 \in Int
      BY <1>0, <2>1, NeighboursThere
    <3>2. From(b, d.at - 1) /\ Until(d, d.at - 1)
      BY <1>0, <1>1, <2>1, <3>1
    <3> QED BY <1>0, <1>1, <1>4, <2>1, <3>1, <3>2
  <2>2. ASSUME d.type # NORMAL, b.type = NORMAL => b.at <= c.at PROVE FALSE
    <3>1. c.at \in AllTimes /\ c.at \in Int
      BY <1>0, <1>4, NeighboursThere
    <3>2. From(b, c.at) /\ Until(d, c.at)
      BY <1>0, <1>1, <1>4, <2>2, <3>1
    <3> QED BY <1>0, <1>1, <1>4, <3>1, <3>2
  <2>3. ASSUME d.type # NORMAL, b.type = NORMAL, ~(b.at <= c.at) PROVE FALSE
    <3>1. b.at \in AllTimes /\ b.at \in Int
      BY <1>0, <2>3, NeighboursThere
    <3>2. From(b, b.at) /\ Until(d, b.at)
      BY <1>0, <1>1, <2>3, <3>1
    <3> QED BY <1>0, <1>1, <1>4, <2>3, <3>1, <3>2
  <2> QED BY <2>1, <2>2, <2>3
<1> QED BY <1>0, <1>2, <1>3, <1>4

(* A period between bounds that are in order is one that lasts; one between others is null. *)
LEMMA BetweenBounds ==
  ASSUME NEW a \in BeginValues, NEW c \in EndValues
  PROVE  /\ IsLess(a, c) => Between(a, c) = [begin |-> a, end |-> c] /\ ~is_null(Between(a, c))
         /\ ~IsLess(a, c) => is_null(Between(a, c))
<1>1. /\ a.type \in {NORMAL, NEG_INFINITY} /\ (a.type = NORMAL => a.at \in Int)
      /\ c.type \in {NORMAL, POS_INFINITY} /\ (c.type = NORMAL => c.at \in Int)
  BY BoundValues
<1>2. /\ IsLess(a, c) => ~IsLess(c, a) /\ ~IsEqual(a, c)
      /\ ~IsLess(a, c) => IsEqual(a, c) \/ IsLess(c, a)
      /\ ~IsUndefined(a) /\ ~IsUndefined(c)
  BY <1>1 DEF IsLess, IsEqual, IsSpecial, IsUndefined, NORMAL, NEG_INFINITY, POS_INFINITY,
              NOT_A_DATE_TIME
<1>3. IsUndefined(Undefined)
  BY DEF IsUndefined, Undefined, Special
<1> QED BY <1>2, <1>3 DEF Between, IsOrderly, is_null, IsOpen, NoPeriod

LEMMA TimesOf ==
  ASSUME NEW a, NEW c
  PROVE  LET p == [begin |-> a, end |-> c]
         IN p.begin = a /\ p.end = c
              /\ \A t : t \in TimesIn(p) <=> t \in AllTimes /\ From(a, t) /\ Until(c, t)
BY DEF TimesIn, From, Until

(* Two periods that last are to each other as the sets of their times. *)
LEMMA PeriodAlgebra ==
  ASSUME NEW p, NEW q, Lasts(p), Lasts(q), ~IsOpen(p), ~IsOpen(q)
  PROVE  LET mine == TimesIn(p)
             its == TimesIn(q)
         IN /\ contains(p, q) <=> its \subseteq mine
            /\ intersects(p, q) <=> mine \cap its # {}
            /\ is_null(intersection(p, q)) <=> mine \cap its = {}
            /\ mine \cap its # {} => TimesIn(intersection(p, q)) = mine \cap its
            /\ is_null(merge(p, q)) <=> mine \cap its = {}
            /\ mine \cap its # {} => TimesIn(merge(p, q)) = mine \cup its
            /\ TimesIn(span(p, q)) = Hull(mine \cup its)
<1> DEFINE mine == TimesIn(p)
           its == TimesIn(q)
<1>1. /\ p.begin \in BeginValues /\ p.end \in EndValues /\ IsLess(p.begin, p.end)
      /\ q.begin \in BeginValues /\ q.end \in EndValues /\ IsLess(q.begin, q.end)
  BY DEF Lasts
<1>2. \A t : /\ t \in mine <=> t \in AllTimes /\ From(p.begin, t) /\ Until(p.end, t)
             /\ t \in its <=> t \in AllTimes /\ From(q.begin, t) /\ Until(q.end, t)
  BY DEF TimesIn, From, Until
<1>3. /\ Later(p.begin, q.begin) \in BeginValues /\ Earlier(p.begin, q.begin) \in BeginValues
      /\ Later(p.end, q.end) \in EndValues /\ Earlier(p.end, q.end) \in EndValues
  BY <1>1, LaterAndEarlier
<1>4. \A t \in AllTimes :
        /\ From(Later(p.begin, q.begin), t) <=> From(p.begin, t) /\ From(q.begin, t)
        /\ From(Earlier(p.begin, q.begin), t) <=> From(p.begin, t) \/ From(q.begin, t)
        /\ Until(Earlier(p.end, q.end), t) <=> Until(p.end, t) /\ Until(q.end, t)
        /\ Until(Later(p.end, q.end), t) <=> Until(p.end, t) \/ Until(q.end, t)
  BY <1>1, LaterAndEarlier
<1>5. \A t \in AllTimes : t \in Int
  BY NeighboursThere
<1> HIDE DEF mine, its
<1>6. contains(p, q) <=> its \subseteq mine
  BY <1>1, <1>2, BoundsOfSubsets DEF contains
<1>7. IsLess(Later(p.begin, q.begin), Earlier(p.end, q.end)) <=> mine \cap its # {}
  BY <1>2, <1>3, <1>4, LessMeansTimes
<1>8. intersects(p, q) <=> IsLess(Later(p.begin, q.begin), Earlier(p.end, q.end))
  <2>1. /\ Later(p.begin, q.begin) \in {p.begin, q.begin} /\ Earlier(p.end, q.end) \in {p.end, q.end}
        /\ IsLess(q.begin, p.begin) => Later(p.begin, q.begin) = p.begin
        /\ ~IsLess(q.begin, p.begin) => Later(p.begin, q.begin) = q.begin
        /\ IsLess(p.end, q.end) => Earlier(p.end, q.end) = p.end
        /\ ~IsLess(p.end, q.end) => Earlier(p.end, q.end) = q.end
    BY DEF Later, Earlier
  <2>2. \A a \in {p.begin, q.begin}, c \in {p.end, q.end} :
          /\ a.type = NORMAL => a.at \in Int
          /\ c.type = NORMAL => c.at \in Int
          /\ IsLess(a, c) <=> (a.type = NORMAL /\ c.type = NORMAL => a.at < c.at)
    BY <1>1, BoundValues, BoundsCompared
  <2>3. /\ IsLess(q.begin, p.begin) <=>
             p.begin.type = NORMAL /\ (q.begin.type = NORMAL => q.begin.at < p.begin.at)
        /\ IsLess(p.end, q.end) <=> p.end.type = NORMAL /\ (q.end.type = NORMAL => p.end.at < q.end.at)
    BY <1>1, BoundsCompared
  <2>4. intersects(p, q) <=> IsLess(p.begin, q.end) /\ IsLess(q.begin, p.end)
    BY DEF intersects
  <2> QED BY <1>1, <2>1, <2>2, <2>3, <2>4
<1>9. /\ IsLess(Earlier(p.begin, q.begin), Later(p.end, q.end))
      /\ \A t : t \in TimesIn(span(p, q)) <=>
                  /\ t \in AllTimes /\ (From(p.begin, t) \/ From(q.begin, t))
                  /\ Until(p.end, t) \/ Until(q.end, t)
      /\ ~is_null(span(p, q))
  <2>1. PICK t \in AllTimes : From(p.begin, t) /\ Until(p.end, t)
    BY <1>1, LessMeansTimes
  <2>2. IsLess(Earlier(p.begin, q.begin), Later(p.end, q.end))
    BY <1>3, <1>4, <2>1, LessMeansTimes
  <2>3. span(p, q) = [begin |-> Earlier(p.begin, q.begin), end |-> Later(p.end, q.end)]
        /\ ~is_null(span(p, q))
    BY <1>3, <2>2, BetweenBounds DEF span
  <2>4. \A x : x \in TimesIn(span(p, q)) <=>
                 /\ x \in AllTimes /\ From(Earlier(p.begin, q.begin), x)
                 /\ Until(Later(p.end, q.end), x)
    BY <2>3, TimesOf
  <2> QED BY <1>4, <2>2, <2>3, <2>4
<1>10. /\ is_null(intersection(p, q)) <=> mine \cap its = {}
       /\ mine \cap its # {} => TimesIn(intersection(p, q)) = mine \cap its
  <2>1. intersection(p, q) = Between(Later(p.begin, q.begin), Earlier(p.end, q.end))
    BY DEF intersection
  <2>2. is_null(intersection(p, q)) <=> mine \cap its = {}
    BY <1>3, <1>7, <2>1, BetweenBounds
  <2>3. ASSUME mine \cap its # {} PROVE TimesIn(intersection(p, q)) = mine \cap its
    <3>1. intersection(p, q) = [begin |-> Later(p.begin, q.begin), end |-> Earlier(p.end, q.end)]
      BY <1>3, <1>7, <2>1, <2>3, BetweenBounds
    <3>2. \A t : t \in TimesIn(intersection(p, q)) <=>
                   /\ t \in AllTimes /\ From(Later(p.begin, q.begin), t)
                   /\ Until(Earlier(p.end, q.end), t)
      BY <3>1, TimesOf
    <3> QED BY <3>2, <1>2, <1>4
  <2> QED BY <2>2, <2>3
<1>11. /\ is_null(merge(p, q)) <=> mine \cap its = {}
       /\ mine \cap its # {} => TimesIn(merge(p, q)) = mine \cup its
  <2>1. is_null(NoPeriod)
    BY DEF is_null, IsOpen, NoPeriod, IsUndefined, Undefined, Special
  <2>2. ASSUME NEW t0, t0 \in mine, t0 \in its, NEW t
        PROVE  t \in TimesIn(span(p, q)) <=> t \in mine \/ t \in its
    <3>1. ASSUME t \in AllTimes, From(p.begin, t), Until(q.end, t) PROVE t \in mine \/ t \in its
      <4>1. CASE t <= t0
        <5>1. Until(p.end, t)
          BY <1>1, <1>2, <2>2, <3>1, <4>1, TimesReached
        <5> QED BY <5>1, <1>2, <3>1
      <4>2. CASE t0 <= t
        <5>1. From(q.begin, t)
          BY <1>1, <1>2, <2>2, <3>1, <4>2, TimesReached
        <5> QED BY <5>1, <1>2, <3>1
      <4> QED BY <4>1, <4>2, <1>2, <1>5, <2>2, <3>1
    <3>2. ASSUME t \in AllTimes, From(q.begin, t), Until(p.end, t) PROVE t \in mine \/ t \in its
      <4>1. CASE t <= t0
        <5>1. Until(q.end, t)
          BY <1>1, <1>2, <2>2, <3>2, <4>1, TimesReached
        <5> QED BY <5>1, <1>2, <3>2
      <4>2. CASE t0 <= t
        <5>1. From(p.begin, t)
          BY <1>1, <1>2, <2>2, <3>2, <4>2, TimesReached
        <5> QED BY <5>1, <1>2, <3>2
      <4> QED BY <4>1, <4>2, <1>2, <1>5, <2>2, <3>2
    <3> QED BY <1>2, <1>9, <3>1, <3>2
  <2>3. intersects(p, q) => merge(p, q) = span(p, q)
    BY DEF merge
  <2>4. ~intersects(p, q) => merge(p, q) = NoPeriod
    BY DEF merge
  <2>5. mine \cap its # {} => TimesIn(span(p, q)) = mine \cup its
    BY <2>2
  <2> QED BY <1>7, <1>8, <1>9, <2>1, <2>3, <2>4, <2>5
<1>12. TimesIn(span(p, q)) = Hull(mine \cup its)
  <2>1. ASSUME NEW t \in AllTimes, From(p.begin, t) \/ From(q.begin, t), Until(p.end, t) \/ Until(q.end, t)
        PROVE  t \in Hull(mine \cup its)
    <3>1. \E x \in mine \cup its : x <= t
      BY <1>1, <1>2, <2>1, TimesReached
    <3>2. \E y \in mine \cup its : t <= y
      BY <1>1, <1>2, <2>1, TimesReached
    <3> QED BY <3>1, <3>2 DEF Hull
  <2>2. ASSUME NEW t \in Hull(mine \cup its)
        PROVE  /\ t \in AllTimes /\ (From(p.begin, t) \/ From(q.begin, t))
               /\ Until(p.end, t) \/ Until(q.end, t)
    <3>1. PICK x \in mine \cup its, y \in mine \cup its : t \in AllTimes /\ x <= t /\ t <= y
      BY DEF Hull
    <3>2. From(p.begin, t) \/ From(q.begin, t)
      BY <1>1, <1>2, <3>1, TimesReached
    <3>3. Until(p.end, t) \/ Until(q.end, t)
      BY <1>1, <1>2, <3>1, TimesReached
    <3> QED BY <3>1, <3>2, <3>3
  <2> QED BY <2>1, <2>2, <1>9
<1> QED BY <1>6, <1>7, <1>8, <1>10, <1>11, <1>12 DEF mine, its

\* A period that was not spoilt does not end before it begins.
PeriodInv ==
  /\ InBounds(period) /\ overdrawn \in BOOLEAN
  /\ ~overdrawn => IsOpen(period) \/ ~IsLess(period.end, period.begin)

LEMMA TimeValues ==
  ASSUME NEW v \in Times
  PROVE  /\ v.type \in ValueTypes
         /\ v.type = NORMAL => v.at \in PeriodTimes /\ v.at \in Int
         /\ v.type = NORMAL => v = AtTime(v.at)
         /\ v.type # NORMAL => v = Special(v.type)
BY PeriodAssumption DEF Times, ValuesOf, AtTime, Special, Specials, ValueTypes

LEMMA NullPeriod == InBounds(NoPeriod) /\ IsOpen(NoPeriod) /\ is_null(NoPeriod)
BY DEF InBounds, NoPeriod, Times, ValuesOf, Specials, ValueTypes, Undefined, Special, IsOpen, is_null,
       IsUndefined, NORMAL, NOT_A_DATE_TIME

(* Of the bounds of a period that is not null, and does not end before it begins. *)
LEMMA LastsIfNotNull ==
  ASSUME NEW p, InBounds(p), ~is_null(p), ~IsLess(p.end, p.begin)
  PROVE  Lasts(p) /\ ~IsOpen(p)
<1>1. p.begin \in Times /\ p.end \in Times /\ ~IsOpen(p) /\ ~IsEqual(p.begin, p.end)
  BY DEF InBounds, is_null
<1>2. /\ p.begin.type \in {NORMAL, POS_INFINITY, NEG_INFINITY}
      /\ p.end.type \in {NORMAL, POS_INFINITY, NEG_INFINITY}
  BY <1>1, TimeValues DEF IsOpen, IsUndefined, ValueTypes
<1>3. /\ p.begin.type = NORMAL => p.begin.at \in Int
      /\ p.end.type = NORMAL => p.end.at \in Int
  BY <1>1, TimeValues
<1>4. IsLess(p.begin, p.end) /\ p.begin.type # POS_INFINITY /\ p.end.type # NEG_INFINITY
  BY <1>1, <1>2, <1>3 DEF IsLess, IsEqual, IsSpecial, NORMAL, POS_INFINITY, NEG_INFINITY
<1>5. p.begin \in BeginValues
  BY <1>1, <1>2, <1>4, TimeValues DEF BeginValues
<1>6. p.end \in EndValues
  BY <1>1, <1>2, <1>4, TimeValues DEF EndValues
<1> QED BY <1>1, <1>4, <1>5, <1>6 DEF Lasts

LEMMA BetweenTimes ==
  ASSUME NEW s \in Times, NEW e \in Times
  PROVE  /\ InBounds(Between(s, e))
         /\ IsOpen(Between(s, e)) \/ ~IsLess(Between(s, e).end, Between(s, e).begin)
<1>1. CASE IsOrderly(s, e)
  BY <1>1 DEF Between, IsOrderly, InBounds
<1>2. CASE ~IsOrderly(s, e)
  BY <1>2, NullPeriod DEF Between
<1> QED BY <1>1, <1>2

LEMMA PeriodsOrdered ==
  ASSUME NEW q \in Periods
  PROVE  InBounds(q) /\ (IsOpen(q) \/ ~IsLess(q.end, q.begin))
<1>1. PICK s \in Times, e \in Times : q = Between(s, e)
  BY DEF Periods
<1> QED BY <1>1, BetweenTimes

LEMMA PeriodInitInv == PeriodInit => PeriodInv
BY NullPeriod DEF PeriodInit, PeriodInv

LEMMA PeriodNextInv == PeriodInv /\ [PeriodNext]_periodVars => PeriodInv'
<1> SUFFICES ASSUME PeriodInv, [PeriodNext]_periodVars PROVE PeriodInv'
  OBVIOUS
<1> USE DEF PeriodInv
<1>0. period.begin \in Times /\ period.end \in Times
  BY DEF InBounds
<1>1. CASE UNCHANGED periodVars
  BY <1>1 DEF periodVars, InBounds
<1>2. ASSUME NEW s \in Times, NEW e \in Times, period' = Between(s, e), overdrawn' = FALSE
      PROVE  PeriodInv'
  BY <1>2, BetweenTimes DEF InBounds
<1>3. ASSUME NEW s \in Times, NEW d \in DurationValues, period' = LastingFrom(s, d),
             InBounds(period'), overdrawn' = FALSE
      PROVE  PeriodInv'
  <2>1. CASE IsSpecial(s) \/ IsSpecial(d) \/ d.at < 0
    BY <1>3, <2>1, NullPeriod DEF LastingFrom, InBounds
  <2>2. CASE ~(IsSpecial(s) \/ IsSpecial(d) \/ d.at < 0)
    <3>1. s.type = NORMAL /\ s.at \in Int /\ d.type = NORMAL /\ d.at \in Int /\ d.at >= 0
      BY <2>2, TimeValues, PeriodAssumption
         DEF IsSpecial, DurationValues, ValuesOf, AtTime, Special, Specials, ValueTypes
    <3>2. Plus(s, d) = AtTime(s.at + d.at)
      BY <3>1 DEF Plus, add_impl, NORMAL, NOT_A_DATE_TIME
    <3>3. period'.begin = s /\ period'.end = AtTime(s.at + d.at)
      BY <1>3, <2>2, <3>2 DEF LastingFrom
    <3>4. ~IsLess(AtTime(s.at + d.at), s)
      BY <3>1 DEF IsLess, IsSpecial, AtTime
    <3> QED BY <1>3, <3>3, <3>4 DEF InBounds
  <2> QED BY <2>1, <2>2
<1>4. ASSUME NEW d \in DurationValues
      PROVE  /\ d.type \in ValueTypes
             /\ d.type = NORMAL => d.at \in Int
             /\ d.type # NORMAL => Plus(period.begin, d) = Special(d.type) \/ ~IsShiftable
             /\ d.type # NORMAL => Plus(period.end, d) = Special(d.type) \/ ~IsShiftable
  <2>0. (\E n \in Durations : d = AtTime(n)) \/ (\E type \in Specials : d = Special(type))
    BY DEF DurationValues, ValuesOf
  <2>1. d.type \in ValueTypes /\ (d.type = NORMAL => d.at \in Int)
    <3>1. ASSUME NEW n \in Durations, d = AtTime(n) PROVE d.type = NORMAL /\ d.at \in Int
      BY <3>1, PeriodAssumption DEF AtTime
    <3>2. ASSUME NEW type \in Specials, d = Special(type) PROVE d.type \in Specials
      BY <3>2 DEF Special
    <3> QED BY <2>0, <3>1, <3>2 DEF Specials, ValueTypes
  <2>2. \A t : t.type = NORMAL /\ d.type # NORMAL => Plus(t, d) = Special(d.type)
    BY <2>1 DEF Plus, add_impl, NORMAL, NOT_A_DATE_TIME
  <2> QED BY <2>1, <2>2 DEF IsShiftable, IsSpecial
<1>5. IsShiftable =>
        /\ period.begin.type = NORMAL /\ period.begin.at \in Int
        /\ period.end.type = NORMAL /\ period.end.at \in Int
        /\ ~overdrawn => period.begin.at <= period.end.at
  BY <1>0, TimeValues DEF IsShiftable, IsSpecial, IsOpen, IsUndefined, IsLess, NORMAL, NOT_A_DATE_TIME
<1>6. ASSUME NEW d \in DurationValues, Shift(d) PROVE PeriodInv'
  <2>1. /\ period'.begin = Plus(period.begin, d) /\ period'.end = Plus(period.end, d)
        /\ InBounds(period') /\ overdrawn' = overdrawn /\ IsShiftable
    BY <1>6 DEF Shift
  <2>2. CASE d.type = NORMAL
    <3>1. /\ period'.begin = AtTime(period.begin.at + d.at)
          /\ period'.end = AtTime(period.end.at + d.at)
      BY <1>4, <1>5, <2>1, <2>2 DEF Plus, add_impl, NORMAL, NOT_A_DATE_TIME
    <3>2. ~overdrawn => ~IsLess(period'.end, period'.begin)
      BY <1>4, <1>5, <2>1, <2>2, <3>1 DEF IsLess, IsSpecial, AtTime
    <3> QED BY <2>1, <3>2 DEF InBounds
  <2>3. CASE d.type # NORMAL
    <3>1. period'.begin = period'.end /\ period'.end.type = d.type
      <4>1. period'.begin = Special(d.type) /\ period'.end = Special(d.type)
        BY <1>4, <2>1, <2>3
      <4> QED BY <4>1 DEF Special
    <3>2. ~IsLess(period'.end, period'.begin)
      BY <1>4, <2>3, <3>1 DEF IsLess, IsSpecial, ValueTypes, NORMAL, POS_INFINITY, NEG_INFINITY, NOT_A_DATE_TIME
    <3> QED BY <2>1, <3>2 DEF InBounds
  <2> QED BY <2>2, <2>3
<1>7. ASSUME NEW d \in DurationValues, Expand(d) PROVE PeriodInv'
  <2>1. /\ period'.begin = Less(period.begin, d) /\ period'.end = Plus(period.end, d)
        /\ InBounds(period') /\ overdrawn' \in BOOLEAN /\ IsShiftable
        /\ ~overdrawn' => ~overdrawn /\ ~(d.at < 0) /\ d.type = NORMAL
    BY <1>7 DEF Expand, IsSpecial
  <2>2. ASSUME ~overdrawn' PROVE ~IsLess(period'.end, period'.begin)
    <3>1. /\ period'.begin = AtTime(period.begin.at - d.at)
          /\ period'.end = AtTime(period.end.at + d.at)
      BY <1>4, <1>5, <2>1, <2>2 DEF Plus, Less, add_impl, sub_impl, NORMAL, NOT_A_DATE_TIME
    <3> QED BY <1>4, <1>5, <2>1, <2>2, <3>1 DEF IsLess, IsSpecial, AtTime
  <2> QED BY <2>1, <2>2 DEF InBounds
<1>8. ASSUME NEW q \in Periods, Combine(q) PROVE PeriodInv'
  <2>1. \E s, e \in Times : period' = NoPeriod \/ period' = Between(s, e)
    <3>1. q.begin \in Times /\ q.end \in Times
      BY PeriodsOrdered DEF InBounds
    <3>2. /\ Later(period.begin, q.begin) \in Times /\ Earlier(period.begin, q.begin) \in Times
          /\ Later(period.end, q.end) \in Times /\ Earlier(period.end, q.end) \in Times
      BY <1>0, <3>1 DEF Later, Earlier
    <3> QED BY <1>8, <3>2 DEF Combine, intersection, merge, span
  <2>2. InBounds(period') /\ (IsOpen(period') \/ ~IsLess(period'.end, period'.begin))
    BY <2>1, BetweenTimes, NullPeriod
  <2> QED BY <1>8, <2>2 DEF Combine, InBounds, IsOpen
<1> QED BY <1>1, <1>2, <1>3, <1>6, <1>7, <1>8 DEF PeriodNext, Constructed

LEMMA SoundPeriods == PeriodInv => PeriodsAreSets
<1> SUFFICES ASSUME PeriodInv, ~overdrawn, ~is_null(period) PROVE PeriodsAreSets
  BY DEF PeriodsAreSets
<1>1. Lasts(period) /\ ~IsOpen(period)
  BY LastsIfNotNull DEF PeriodInv, is_null
<1>2. period.begin \in BeginValues /\ period.end \in EndValues /\ IsLess(period.begin, period.end)
  BY <1>1 DEF Lasts
<1>3. /\ period.begin.type \in {NORMAL, NEG_INFINITY} /\ (period.begin.type = NORMAL => period.begin.at \in Int)
      /\ period.end.type \in {NORMAL, POS_INFINITY} /\ (period.end.type = NORMAL => period.end.at \in Int)
      /\ period.begin.type = NORMAL /\ period.end.type = NORMAL => period.begin.at < period.end.at
  BY <1>2, BoundValues, BoundsCompared
<1>4. ~IsSpecial(length(period)) => length(period).at > 0
  <2>1. CASE IsSpecial(period.begin) \/ IsSpecial(period.end)
    BY <2>1 DEF length, IsSpecial, Undefined, Special, NORMAL, NOT_A_DATE_TIME
  <2>2. CASE ~(IsSpecial(period.begin) \/ IsSpecial(period.end))
    <3>1. length(period) = AtTime(period.end.at - period.begin.at)
      BY <2>2 DEF length, Less, sub_impl, IsSpecial, NORMAL, NOT_A_DATE_TIME
    <3> QED BY <3>1, <1>3, <2>2 DEF AtTime, IsSpecial
  <2> QED BY <2>1, <2>2
<1>5. ASSUME NEW t \in AllTimes
      PROVE  contains_time(period, AtTime(t)) <=> t \in TimesIn(period) \/ AtTime(t) = period.end
  <2>1. t \in Int /\ ~IsUndefined(AtTime(t))
    BY NeighboursThere DEF IsUndefined, AtTime, NORMAL, NOT_A_DATE_TIME
  <2>2. contains_time(period, AtTime(t)) <=> From(period.begin, t) /\ IsAtMost(AtTime(t), period.end)
    BY <2>1 DEF contains_time, From
  <2>3. t \in TimesIn(period) <=> From(period.begin, t) /\ Until(period.end, t)
    BY DEF TimesIn, From, Until
  <2>4. IsAtMost(AtTime(t), period.end) <=> Until(period.end, t) \/ IsEqual(AtTime(t), period.end)
    BY DEF IsAtMost, Until
  <2>5. IsEqual(AtTime(t), period.end) <=> AtTime(t) = period.end
    <3>1. period.end = AtTime(period.end.at) \/ period.end = Special(POS_INFINITY)
      BY <1>2 DEF EndValues, AtTime
    <3> QED BY <3>1, <2>1 DEF IsEqual, IsSpecial, AtTime, Special, NORMAL, POS_INFINITY
  <2>6. AtTime(t) = period.end => From(period.begin, t)
    <3>1. AtTime(t) = period.end => period.end.type = NORMAL /\ period.end.at = t
      BY DEF AtTime
    <3>2. From(period.begin, t) <=> (period.begin.type = NORMAL => period.begin.at <= t)
      BY <1>2, <2>1, BoundsCompared
    <3> QED BY <3>1, <3>2, <1>3, <2>1
  <2> QED BY <2>2, <2>3, <2>4, <2>5, <2>6
<1>6. ASSUME NEW q \in Periods, ~is_null(q) PROVE Lasts(q) /\ ~IsOpen(q)
  BY <1>6, PeriodsOrdered, LastsIfNotNull DEF is_null
<1> QED BY <1>1, <1>2, <1>4, <1>5, <1>6, PeriodAlgebra DEF PeriodsAreSets

(* Periods are the sets of their times, for all times and durations, whatever sequence of
   shift(), expand(), intersection(), merge() and span() made them, the infinite ones
   included (TimePeriod.h:36-66, 132-262).                                              *)
THEOREM PeriodsSound == PeriodSpec => []PeriodsAreSets
BY PeriodInitInv, PeriodNextInv, SoundPeriods, PTL DEF PeriodSpec
-----------------------------------------------------------------------------
(* Calendar, for every day. *)

LEMMA LeapYears ==
  ASSUME NEW y \in Int
  PROVE  /\ LeapYearsUntil(y) = LeapYearsUntil(y - 1) + (IF IsLeapYear(y) THEN 1 ELSE 0)
         /\ LeapYearsUntil(y) \in Int /\ IsLeapYear(y) \in BOOLEAN
         /\ is_leap(y) <=> IsLeapYear(y)
<1>1. LeapYearsUntil(y) \in Int
  BY DEF LeapYearsUntil
<1>2. IsLeapYear(y) \in BOOLEAN
  BY DEF IsLeapYear
<1>3. is_leap(y) <=> IsLeapYear(y)
  BY DEF IsLeapYear, is_leap
<1>4. LeapYearsUntil(y) = LeapYearsUntil(y - 1) + (IF IsLeapYear(y) THEN 1 ELSE 0)
  BY DEF LeapYearsUntil, IsLeapYear
<1> QED BY <1>1, <1>2, <1>3, <1>4

(* What a year has in its era. *)
EraParts(y, era, c, q, r) ==
  /\ y = 400 * era + 100 * c + 4 * q + r
  /\ LeapYearsUntil(y) = 97 * era + 24 * c + q
  /\ IsLeapYear(y + 1) <=> r = 3 /\ (q # 24 \/ c = 3)
  /\ Quotient(IF y >= 0 THEN y ELSE y - 399, 400) = era

LEMMA YearInEra ==
  ASSUME NEW y \in Int
  PROVE  \E era \in Int, c \in 0 .. 3, q \in 0 .. 24, r \in 0 .. 3 : EraParts(y, era, c, q, r)
<1>1. PICK era \in Int, yoe \in 0 .. 399 : y = 400 * era + yoe
  <2>1. y = 400 * (y \div 400) + (y % 400) /\ (y % 400) \in 0 .. 399 /\ (y \div 400) \in Int
    OBVIOUS
  <2> QED BY <2>1
<1>2. PICK c \in 0 .. 3, q \in 0 .. 24, r \in 0 .. 3 : yoe = 100 * c + 4 * q + r
  <2>1. PICK c \in 0 .. 3, e \in 0 .. 99 : yoe = 100 * c + e
    <3>1. yoe = 100 * (yoe \div 100) + (yoe % 100) /\ (yoe \div 100) \in 0 .. 3 /\ (yoe % 100) \in 0 .. 99
      OBVIOUS
    <3> QED BY <3>1
  <2>2. e = 4 * (e \div 4) + (e % 4) /\ (e \div 4) \in 0 .. 24 /\ (e % 4) \in 0 .. 3
    OBVIOUS
  <2> QED BY <2>1, <2>2
<1>3. y = 400 * era + 100 * c + 4 * q + r
  BY <1>1, <1>2
<1>4. /\ y \div 4 = 100 * era + 25 * c + q
      /\ y \div 100 = 4 * era + c
      /\ y \div 400 = era
  BY <1>3
<1>5. LeapYearsUntil(y) = 97 * era + 24 * c + q
  BY <1>4 DEF LeapYearsUntil
<1>6. IsLeapYear(y + 1) <=> r = 3 /\ (q # 24 \/ c = 3)
  <2>1. (y + 1) % 4 = 0 <=> r = 3
    BY <1>3
  <2>2. (y + 1) % 100 = 0 <=> r = 3 /\ q = 24
    BY <1>3
  <2>3. (y + 1) % 400 = 0 <=> r = 3 /\ q = 24 /\ c = 3
    BY <1>3
  <2> QED BY <2>1, <2>2, <2>3 DEF IsLeapYear
<1>7. Quotient(IF y >= 0 THEN y ELSE y - 399, 400) = era
  BY <1>3 DEF Quotient
<1>8. EraParts(y, era, c, q, r)
  BY <1>3, <1>5, <1>6, <1>7 DEF EraParts
<1> QED BY <1>8

(* The months. *)
LeapDays(y)          == IF IsLeapYear(y) THEN 1 ELSE 0
UntilMonth(m, leap)  == IF m > 2 THEN 59 + leap + (153 * (m - 3) + 2) \div 5 ELSE 31 * (m - 1)
MonthLength(m, leap) == IF m = 2 THEN 28 + leap ELSE IF m \in {4, 6, 9, 11} THEN 30 ELSE 31

LEMMA LeapDay ==
  ASSUME NEW y
  PROVE  LeapDays(y) \in 0 .. 1 /\ DaysInYear(y) = 365 + LeapDays(y)
<1>1. LeapDays(y) \in 0 .. 1
  BY DEF LeapDays
<1>2. DaysInYear(y) = 365 + LeapDays(y)
  BY DEF LeapDays, DaysInYear
<1> QED BY <1>1, <1>2

LEMMA LengthOfMonth ==
  ASSUME NEW y, NEW m \in 1 .. 12
  PROVE  DaysInMonth(y, m) = MonthLength(m, LeapDays(y))
BY DEF DaysInMonth, MonthLength, LeapDays

LEMMA BeforeMonth ==
  ASSUME NEW y, NEW m \in 1 .. 12
  PROVE  DaysUntilMonth(y, m) = UntilMonth(m, LeapDays(y))
<1> DEFINE table == <<0, 31, 59, 90, 120, 151, 181, 212, 243, 273, 304, 334>>
           leap == LeapDays(y)
<1>1. /\ table[1] = 0 /\ table[2] = 31 /\ table[3] = 59 /\ table[4] = 90 /\ table[5] = 120
      /\ table[6] = 151 /\ table[7] = 181 /\ table[8] = 212 /\ table[9] = 243 /\ table[10] = 273
      /\ table[11] = 304 /\ table[12] = 334
  OBVIOUS
<1>2. DaysUntilMonth(y, m) = table[m] + IF m > 2 THEN leap ELSE 0
  BY DEF DaysUntilMonth, LeapDays
<1>3. leap \in Int
  BY LeapDay
<1> HIDE DEF table, leap
<1>4. m \in {1, 2, 3, 4, 5, 6, 7, 8, 9, 10, 11, 12}
  OBVIOUS
<1>5. DaysUntilMonth(y, m) = UntilMonth(m, leap)
  BY <1>1, <1>2, <1>3, <1>4 DEF UntilMonth
<1> QED BY <1>5 DEF leap

LEMMA MonthBounds ==
  ASSUME NEW y, NEW m \in 1 .. 12
  PROVE  /\ DaysInMonth(y, m) \in 28 .. 31 /\ DaysUntilMonth(y, m) \in 0 .. 335
         /\ DaysInMonth(y, m) \in Int /\ DaysUntilMonth(y, m) \in Int
<1> DEFINE leap == LeapDays(y)
<1>1. leap \in 0 .. 1
  BY LeapDay
<1>2. DaysInMonth(y, m) = MonthLength(m, leap) /\ DaysUntilMonth(y, m) = UntilMonth(m, leap)
  BY LengthOfMonth, BeforeMonth
<1> HIDE DEF leap
<1>3. MonthLength(m, leap) \in 28 .. 31
  BY <1>1 DEF MonthLength
<1>4. UntilMonth(m, leap) \in 0 .. 335
  BY <1>1 DEF UntilMonth
<1>5. DaysInMonth(y, m) \in 28 .. 31 /\ DaysUntilMonth(y, m) \in 0 .. 335
  BY <1>2, <1>3, <1>4
<1>6. DaysInMonth(y, m) \in Int /\ DaysUntilMonth(y, m) \in Int
  BY <1>5
<1> QED BY <1>5, <1>6

LEMMA LastDayThere ==
  ASSUME NEW y \in Int, NEW m \in 1 .. 12
  PROVE  LastDay(y, m) = DaysInMonth(y, m)
<1> DEFINE last == <<31, 28, 31, 30, 31, 30, 31, 31, 30, 31, 30, 31>>
           leap == LeapDays(y)
<1>1. /\ last[1] = 31 /\ last[2] = 28 /\ last[3] = 31 /\ last[4] = 30 /\ last[5] = 31
      /\ last[6] = 30 /\ last[7] = 31 /\ last[8] = 31 /\ last[9] = 30 /\ last[10] = 31
      /\ last[11] = 30 /\ last[12] = 31
  OBVIOUS
<1>2. is_leap(y) <=> leap = 1
  BY LeapYears DEF LeapDays
<1>3. leap \in 0 .. 1 /\ DaysInMonth(y, m) = MonthLength(m, leap)
  BY LeapDay, LengthOfMonth
<1>4. LastDay(y, m) = IF m # 2 \/ leap = 0 THEN last[m] ELSE 29
  BY <1>2, <1>3 DEF LastDay
<1> HIDE DEF last, leap
<1>5. m \in {1, 2, 3, 4, 5, 6, 7, 8, 9, 10, 11, 12}
  OBVIOUS
<1> QED BY <1>1, <1>3, <1>4, <1>5 DEF MonthLength

LEMMA MonthEnds ==
  ASSUME NEW y, NEW m \in 1 .. 12
  PROVE  /\ m < 12 => DaysUntilMonth(y, m + 1) = DaysUntilMonth(y, m) + DaysInMonth(y, m)
         /\ m = 12 => DaysUntilMonth(y, m) + DaysInMonth(y, m) = DaysInYear(y)
<1> DEFINE leap == LeapDays(y)
<1>1. leap \in 0 .. 1 /\ DaysInYear(y) = 365 + leap
  BY LeapDay
<1>2. DaysInMonth(y, m) = MonthLength(m, leap) /\ DaysUntilMonth(y, m) = UntilMonth(m, leap)
  BY LengthOfMonth, BeforeMonth
<1>3. ASSUME m < 12 PROVE m + 1 \in 1 .. 12 /\ DaysUntilMonth(y, m + 1) = UntilMonth(m + 1, leap)
  <2>1. m + 1 \in 1 .. 12
    BY <1>3
  <2> QED BY <2>1, BeforeMonth
<1> HIDE DEF leap
<1>4. m < 12 => UntilMonth(m + 1, leap) = UntilMonth(m, leap) + MonthLength(m, leap)
  BY <1>1 DEF UntilMonth, MonthLength
<1>5. m = 12 => UntilMonth(m, leap) + MonthLength(m, leap) = 365 + leap
  BY <1>1 DEF UntilMonth, MonthLength
<1> QED BY <1>1, <1>2, <1>3, <1>4, <1>5

LEMMA UntilYearEnds ==
  ASSUME NEW y, NEW m \in 1 .. 12
  PROVE  DaysUntilMonth(y, m) + DaysInMonth(y, m) <= DaysInYear(y) /\ DaysInYear(y) \in Int
<1> DEFINE leap == LeapDays(y)
<1>1. leap \in 0 .. 1 /\ DaysInYear(y) = 365 + leap
  BY LeapDay
<1>2. DaysInMonth(y, m) = MonthLength(m, leap) /\ DaysUntilMonth(y, m) = UntilMonth(m, leap)
  BY LengthOfMonth, BeforeMonth
<1> HIDE DEF leap
<1>3. UntilMonth(m, leap) + MonthLength(m, leap) <= 365 + leap
  BY <1>1 DEF UntilMonth, MonthLength
<1>4. DaysInYear(y) \in Int
  BY <1>1
<1> QED BY <1>1, <1>2, <1>3, <1>4

LEMMA UntilLaterMonth ==
  ASSUME NEW y, NEW m \in 1 .. 12, NEW k \in 1 .. 12, m < k
  PROVE  DaysUntilMonth(y, m) + DaysInMonth(y, m) <= DaysUntilMonth(y, k)
<1> DEFINE leap == LeapDays(y)
<1>1. leap \in 0 .. 1
  BY LeapDay
<1>2. DaysInMonth(y, m) = MonthLength(m, leap) /\ DaysUntilMonth(y, m) = UntilMonth(m, leap)
      /\ DaysUntilMonth(y, k) = UntilMonth(k, leap)
  BY LengthOfMonth, BeforeMonth
<1> HIDE DEF leap
<1>3. UntilMonth(m, leap) + MonthLength(m, leap) <= UntilMonth(k, leap)
  BY <1>1 DEF UntilMonth, MonthLength
<1> QED BY <1>2, <1>3

(* The days of a year that begins in March: counted on from the years before it, and in
   the era it is in.                                                                    *)
MarchNumber(y, doy) == 365 * y + LeapYearsUntil(y) + doy
EraNumber(y, doy) ==
  LET era == Quotient(IF y >= 0 THEN y ELSE y - 399, 400)
      yoe == y - era * 400
  IN era * 146097 + (yoe * 365 + Quotient(yoe, 4) - Quotient(yoe, 100) + doy)

\* The year that begins in March of year y has day doy, counted from 0.
HasMarchDay(y, doy) == doy = 365 => IsLeapYear(y + 1)

LEMMA MarchYears ==
  ASSUME NEW y \in Int, NEW doy \in 0 .. 365, HasMarchDay(y, doy)
  PROVE  /\ MarchNumber(y, doy) = EraNumber(y, doy)
         /\ SinceMarch(MarchNumber(y, doy)) = InYear(y, doy)
<1> DEFINE n == 365 * y + LeapYearsUntil(y) + doy
<1>0. PICK era \in Int, c \in 0 .. 3, q \in 0 .. 24, r \in 0 .. 3 : EraParts(y, era, c, q, r)
  BY YearInEra
<1>1. /\ y = 400 * era + 100 * c + 4 * q + r
      /\ LeapYearsUntil(y) = 97 * era + 24 * c + q
      /\ IsLeapYear(y + 1) <=> r = 3 /\ (q # 24 \/ c = 3)
      /\ Quotient(IF y >= 0 THEN y ELSE y - 399, 400) = era
  BY <1>0 DEF EraParts
<1> DEFINE yoe == 100 * c + 4 * q + r
           doe == 36524 * c + 1461 * q + 365 * r + doy
<1>2. y - era * 400 = yoe /\ yoe + era * 400 = y
  BY <1>1
<1>3. Quotient(yoe, 4) = 25 * c + q /\ Quotient(yoe, 100) = c
  BY DEF Quotient
<1>4. n = era * 146097 + doe
  BY <1>1
<1>5. doe = yoe * 365 + Quotient(yoe, 4) - Quotient(yoe, 100) + doy
  BY <1>3
<1>6. YearOfEra(doe) = yoe /\ doe \in Nat /\ doe <= 146096
  <2>1. doy = 365 => r = 3 /\ (q # 24 \/ c = 3)
    BY <1>1 DEF HasMarchDay
  <2>2. doe \in Nat /\ doe <= 146096
    BY <2>1, SMT
  <2>3. YearOfEra(doe) = yoe
    BY <2>1, SMT DEF YearOfEra, Quotient
  <2> QED BY <2>2, <2>3
<1>7. SinceMarch(n) = InYear(y, doy)
  <2> HIDE DEF n, doe, yoe
  <2>1. Quotient(IF n >= 0 THEN n ELSE n - 146096, 146097) = era
    BY <1>4, <1>6, SMT DEF Quotient
  <2>2. n - era * 146097 = doe /\ n \in Int
    BY <1>4, <1>6, SMT
  <2>3. SinceMarch(n) = FromEra(era, doe)
    BY <2>1, <2>2 DEF SinceMarch
  <2>4. doe - (365 * yoe + Quotient(yoe, 4) - Quotient(yoe, 100)) = doy
    <3> USE DEF yoe
    <3> QED BY <1>5, <1>3
  <2>5. FromEra(era, doe) = InEra(era, doe, yoe)
    BY <1>6 DEF FromEra
  <2>6. InEra(era, doe, yoe) = InYear(y, doy)
    BY <1>2, <2>4 DEF InEra
  <2> QED BY <2>3, <2>5, <2>6
<1>8. n = era * 146097 + (yoe * 365 + Quotient(yoe, 4) - Quotient(yoe, 100) + doy)
  BY <1>4, <1>5
<1> HIDE DEF yoe, doe
<1> QED BY <1>1, <1>2, <1>7, <1>8, SMT DEF MarchNumber, EraNumber

\* The year that begins in March, and the day of it, of year_month_day::to_days().
MarchYear(y, m) == IF m <= 2 THEN y - 1 ELSE y
MarchDay(m, d) == Quotient(153 * (IF m > 2 THEN m - 3 ELSE m + 9) + 2, 5) + d - 1

LEMMA ToDays ==
  ASSUME NEW y \in Int, NEW m \in 1 .. 12, NEW d \in Int
  PROVE  to_days(y, m, d) = EraNumber(MarchYear(y, m), MarchDay(m, d)) - 719468
<1>1. CASE m > 2
  <2>1. MarchYear(y, m) = y /\ MarchDay(m, d) = Quotient(153 * (m - 3) + 2, 5) + d - 1
    BY <1>1 DEF MarchYear, MarchDay
  <2>2. to_days(y, m, d) = EraNumber(y, Quotient(153 * (m - 3) + 2, 5) + d - 1) - 719468
    BY <1>1, SMT DEF to_days, EraNumber, Quotient
  <2> QED BY <2>1, <2>2, SMT
<1>2. CASE m <= 2
  <2>1. MarchYear(y, m) = y - 1 /\ MarchDay(m, d) = Quotient(153 * (m + 9) + 2, 5) + d - 1
    BY <1>2 DEF MarchYear, MarchDay
  <2>2. to_days(y, m, d) = EraNumber(y - 1, Quotient(153 * (m + 9) + 2, 5) + d - 1) - 719468
    BY <1>2, SMT DEF to_days, EraNumber, Quotient
  <2> QED BY <2>1, <2>2, SMT
<1> QED BY <1>1, <1>2, SMT

\* The number of the first of January of a year.
FirstDay(y) == 365 * (y - 1) + LeapYearsUntil(y - 1) - 719162
\* The number of a day of the calendar.
DayNumber(y, m, d) == FirstDay(y) + DaysUntilMonth(y, m) + d - 1

(* A day of the calendar has its number and no other. *)
LEMMA DayAndNumber ==
  ASSUME NEW y \in Int, NEW m \in 1 .. 12, NEW d \in 1 .. DaysInMonth(y, m)
  PROVE  /\ to_days(y, m, d) = DayNumber(y, m, d)
         /\ from_days(DayNumber(y, m, d)) = [year |-> y, month |-> m, day |-> d]
<1> DEFINE n == DayNumber(y, m, d)
           march == IF m <= 2 THEN y - 1 ELSE y
           mp == IF m > 2 THEN m - 3 ELSE m + 9
           doy == Quotient(153 * mp + 2, 5) + d - 1
           leap == LeapDays(y)
<1>0. leap \in 0 .. 1 /\ (leap = 1 <=> IsLeapYear(y)) /\ DaysInMonth(y, m) = MonthLength(m, leap)
      /\ DaysUntilMonth(y, m) = UntilMonth(m, leap)
  BY LeapDay, LengthOfMonth, BeforeMonth DEF LeapDays
<1> HIDE DEF leap
<1>1. /\ march \in Int /\ mp \in 0 .. 11 /\ d \in 1 .. 31
      /\ mp \in {1, 3, 6, 8} => d <= 30
      /\ mp = 11 => d <= 28 + leap /\ march + 1 = y
  BY <1>0 DEF MonthLength
<1>2. /\ doy \in 0 .. 365 /\ Quotient(5 * doy + 2, 153) = mp
      /\ doy = 365 <=> mp = 11 /\ d = 29
      /\ doy - Quotient(153 * mp + 2, 5) + 1 = d
  <2> HIDE DEF mp, march
  <2>1. mp = 11 => d <= 29
    BY <1>0, <1>1
  <2>2. mp \in 0 .. 11 /\ d \in 1 .. 31 /\ (mp \in {1, 3, 6, 8} => d <= 30)
    BY <1>1
  <2> QED BY <2>1, <2>2, SMT DEF Quotient
<1>3. HasMarchDay(march, doy)
  <2> HIDE DEF mp, march, doy
  <2> QED BY <1>0, <1>1, <1>2 DEF HasMarchDay
<1>4. n + 719468 = 365 * march + LeapYearsUntil(march) + doy
  <2>1. LeapYearsUntil(y) = LeapYearsUntil(y - 1) + leap /\ LeapYearsUntil(y) \in Int
        /\ LeapYearsUntil(y - 1) \in Int
    BY LeapYears DEF leap, LeapDays
  <2>2. IF m > 2 THEN DaysUntilMonth(y, m) + d = 60 + leap + doy
                 ELSE DaysUntilMonth(y, m) + d = doy - 305
    <3>1. leap \in Int /\ d \in Int
      BY <1>0, <1>1
    <3> QED BY <1>0, <3>1, SMT DEF Quotient, UntilMonth
  <2>3. DaysUntilMonth(y, m) \in Int
    BY MonthBounds
  <2> DEFINE before == LeapYearsUntil(y - 1)
             here == LeapYearsUntil(y)
             until == DaysUntilMonth(y, m)
  <2>4. doy \in Int /\ d \in Int /\ leap \in Int
    BY <1>0, <1>1, <1>2
  <2> HIDE DEF doy, before, here, until
  <2>5. CASE m > 2
    <3>1. march = y /\ LeapYearsUntil(march) = here
      BY <2>5 DEF here
    <3>2. n = (365 * (y - 1) + before - 719162) + until + d - 1
      BY SMT DEF before, until, DayNumber, FirstDay
    <3>3. here = before + leap /\ here \in Int /\ before \in Int /\ until \in Int /\ until + d = 60 + leap + doy
      BY <2>1, <2>2, <2>3, <2>5, SMT DEF here, before, until
    <3> HIDE DEF n, march
    <3> QED BY <3>1, <3>2, <3>3, <2>4, SMT
  <2>6. CASE ~(m > 2)
    <3>1. march = y - 1 /\ LeapYearsUntil(march) = before
      BY <2>6 DEF before
    <3>2. n = (365 * (y - 1) + before - 719162) + until + d - 1
      BY SMT DEF before, until, DayNumber, FirstDay
    <3>3. before \in Int /\ until \in Int /\ until + d = doy - 305
      BY <2>1, <2>2, <2>3, <2>6, SMT DEF before, until
    <3> HIDE DEF n, march
    <3> QED BY <3>1, <3>2, <3>3, <2>4, SMT
  <2> QED BY <2>5, <2>6
<1>5. n + 719468 = EraNumber(march, doy) /\ SinceMarch(n + 719468) = InYear(march, doy)
  <2> HIDE DEF n, march, doy
  <2>1. n + 719468 = MarchNumber(march, doy)
    BY <1>4 DEF MarchNumber
  <2>2. MarchNumber(march, doy) = EraNumber(march, doy)
        /\ SinceMarch(MarchNumber(march, doy)) = InYear(march, doy)
    <3>1. march \in Int /\ doy \in 0 .. 365
      BY <1>1, <1>2
    <3> QED BY <3>1, <1>3, MarchYears
  <2> QED BY <2>1, <2>2
<1>6. n \in Int
  <2>1. LeapYearsUntil(y - 1) \in Int
    BY LeapYears
  <2>2. DaysUntilMonth(y, m) \in Int
    BY MonthBounds
  <2>3. d \in Int
    BY <1>1
  <2> QED BY <2>1, <2>2, <2>3, SMT DEF DayNumber, FirstDay
<1>7. to_days(y, m, d) = n
  <2>0. d \in Int
    BY <1>1
  <2>1. to_days(y, m, d) = EraNumber(march, doy) - 719468
    <3>1. to_days(y, m, d) = EraNumber(MarchYear(y, m), MarchDay(m, d)) - 719468
      BY <2>0, ToDays, SMT
    <3>2. MarchYear(y, m) = march /\ MarchDay(m, d) = doy
      BY DEF MarchYear, MarchDay
    <3> HIDE DEF march, doy
    <3> QED BY <3>1, <3>2, SMT
  <2> HIDE DEF n, march, doy
  <2> QED BY <2>1, <1>5, <1>6, SMT
<1>8. from_days(n) = InMonth(march, doy, mp)
  BY <1>5, <1>2 DEF from_days, InYear
<1>9. InMonth(march, doy, mp) = [year |-> y, month |-> m, day |-> d]
  <2> HIDE DEF doy
  <2> QED BY <1>2 DEF InMonth
<1> QED BY <1>7, <1>8, <1>9

LEMMA DayParts ==
  ASSUME NEW t, NEW n, IsDay(t, n)
  PROVE  /\ t.year \in Int /\ t.month \in 1 .. 12 /\ t.day \in 1 .. DaysInMonth(t.year, t.month)
         /\ t.weekday \in 1 .. 7 /\ t.yearday \in 1 .. DaysInYear(t.year)
         /\ t.yearday = DaysUntilMonth(t.year, t.month) + t.day
         /\ n \in Int /\ n = NumberOf(t)
         /\ t.weekday = ((n + 3) % 7) + 1
         /\ DaysInMonth(t.year, t.month) \in Int /\ DaysUntilMonth(t.year, t.month) \in Int
<1> DEFINE y == t.year m == t.month d == t.day
<1>1. t \in DayType /\ d <= DaysInMonth(y, m) /\ t.yearday = DaysUntilMonth(y, m) + d
      /\ n = NumberOf(t) /\ t.weekday = ((n + 3) % 7) + 1
  BY DEF IsDay, WeekdayOfNumber
<1>2. y \in Int /\ m \in 1 .. 12 /\ d \in 1 .. 31 /\ t.weekday \in 1 .. 7 /\ t.yearday \in 1 .. 366
  BY <1>1 DEF DayType
<1>3. LeapYearsUntil(y - 1) \in Int
  BY <1>2, LeapYears
<1> HIDE DEF y, m, d
<1>4. DaysInMonth(y, m) \in Int /\ DaysUntilMonth(y, m) \in Int
  BY <1>2, MonthBounds
<1>5. DaysUntilMonth(y, m) + DaysInMonth(y, m) <= DaysInYear(y) /\ DaysInYear(y) \in Int
  BY <1>2, UntilYearEnds
<1>6. t.yearday \in 1 .. DaysInYear(y) /\ d \in 1 .. DaysInMonth(y, m)
  BY <1>1, <1>2, <1>4, <1>5
<1>7. n = 365 * (y - 1) + LeapYearsUntil(y - 1) + t.yearday - 719163
  BY <1>1, SMT DEF NumberOf, y
<1>8. n \in Int
  BY <1>2, <1>3, <1>7, SMT
<1> QED BY <1>1, <1>2, <1>4, <1>6, <1>7, <1>8 DEF y, m, d

CalendarInv == IsDay(today, number)

LEMMA CalendarInitInv == CalendarInit => CalendarInv
BY FirstDaysAssumption DEF CalendarInit, CalendarInv

LEMMA CalendarNextInv == CalendarInv /\ [CalendarNext]_calendarVars => CalendarInv'
<1> SUFFICES ASSUME CalendarInv, NextDay PROVE IsDay(today', number')
  BY DEF CalendarNext, calendarVars, CalendarInv
<1> DEFINE y == today.year m == today.month d == today.day
<1>1. IsDay(today, number)
  BY DEF CalendarInv
<1>2. /\ today \in DayType /\ number' = number + 1
  BY <1>1 DEF IsDay, NextDay
<1>3. /\ y \in Int /\ m \in 1 .. 12 /\ d \in 1 .. DaysInMonth(y, m)
      /\ today.weekday \in 1 .. 7 /\ today.yearday \in 1 .. DaysInYear(y)
      /\ today.yearday = DaysUntilMonth(y, m) + d
      /\ number \in Int /\ number = NumberOf(today)
      /\ today.weekday = ((number + 3) % 7) + 1
      /\ DaysInMonth(y, m) \in Int /\ DaysUntilMonth(y, m) \in Int
  BY <1>1, DayParts
<1>4. Weekday = WeekdayOfNumber(number + 1) /\ Weekday \in 1 .. 7
  BY <1>3 DEF Weekday, WeekdayOfNumber
<1>5. /\ LeapYearsUntil(y) = LeapYearsUntil(y - 1) + (IF IsLeapYear(y) THEN 1 ELSE 0)
      /\ LeapYearsUntil(y) \in Int /\ LeapYearsUntil(y - 1) \in Int
  BY <1>3, LeapYears
<1>6. DaysInYear(y) = 365 + (IF IsLeapYear(y) THEN 1 ELSE 0)
  BY DEF DaysInYear
<1>7. DaysInYear(y) \in 365 .. 366
  BY <1>6
<1>11. number = 365 * (y - 1) + LeapYearsUntil(y - 1) + today.yearday - 719163
  BY <1>3, SMT DEF NumberOf
<1>8. CASE d < DaysInMonth(y, m)
  <2>1. today' = [today EXCEPT !.day = d + 1, !.weekday = Weekday, !.yearday = today.yearday + 1]
    BY <1>8 DEF NextDay
  <2>2. /\ today'.year = y /\ today'.month = m /\ today'.day = d + 1 /\ today'.weekday = Weekday
        /\ today'.yearday = today.yearday + 1
    BY <2>1, <1>2 DEF DayType
  <2>3. d + 1 \in 1 .. 31 /\ today.yearday + 1 \in 1 .. 366
    <3>1. DaysInMonth(y, m) \in 28 .. 31 /\ DaysUntilMonth(y, m) \in 0 .. 335
      BY <1>3, MonthBounds
    <3>2. d \in Int /\ 1 <= d /\ d < DaysInMonth(y, m) /\ today.yearday = DaysUntilMonth(y, m) + d
      BY <1>3, <1>8
    <3>6. DaysInMonth(y, m) \in Int /\ DaysUntilMonth(y, m) \in Int
      BY <1>3
    <3>3. PICK day \in Int, days \in Int, until \in Int :
            day = d /\ days = DaysInMonth(y, m) /\ until = DaysUntilMonth(y, m)
      BY <3>2, <3>6
    <3> HIDE DEF y, m, d
    <3>4. 1 <= day /\ day < days /\ today.yearday = until + day /\ days \in 28 .. 31 /\ until \in 0 .. 335
      BY <3>1, <3>2, <3>3
    <3>5. day + 1 \in 1 .. 31 /\ (until + day) + 1 \in 1 .. 366
      BY <3>4
    <3> QED BY <3>3, <3>4, <3>5
  <2>4. today' \in DayType
    <3>1. today' = [year |-> y, month |-> m, day |-> d + 1, weekday |-> Weekday,
                    yearday |-> today.yearday + 1]
      BY <2>1, <1>2 DEF DayType
    <3> QED BY <3>1, <2>3, <1>3, <1>4 DEF DayType
  <2>5. number' = NumberOf(today')
    <3> HIDE DEF y, m, d
    <3>1. NumberOf(today') = 365 * (y - 1) + LeapYearsUntil(y - 1) + (today.yearday + 1) - 719163
      BY <2>2, SMT DEF NumberOf
    <3> QED BY <3>1, <1>2, <1>3, <1>5, <1>11, SMT
  <2> HIDE DEF y, m, d
  <2> QED BY <1>2, <1>3, <1>4, <1>8, <2>2, <2>4, <2>5 DEF IsDay
<1>9. CASE ~(d < DaysInMonth(y, m)) /\ m < 12
  <2>1. today' = [today EXCEPT !.day = 1, !.month = m + 1, !.weekday = Weekday,
                               !.yearday = today.yearday + 1]
    BY <1>9 DEF NextDay
  <2>2. /\ today'.year = y /\ today'.month = m + 1 /\ today'.day = 1 /\ today'.weekday = Weekday
        /\ today'.yearday = today.yearday + 1
    BY <2>1, <1>2 DEF DayType
  <2>3. /\ m + 1 \in 1 .. 12 /\ d = DaysInMonth(y, m)
        /\ DaysUntilMonth(y, m + 1) = DaysUntilMonth(y, m) + DaysInMonth(y, m)
    BY <1>3, <1>9, MonthEnds
  <2>4. today.yearday + 1 = DaysUntilMonth(y, m + 1) + 1
    <3> HIDE DEF y, m, d
    <3> QED BY <1>3, <2>3
  <2>5. today.yearday + 1 \in 1 .. 366 /\ 1 <= DaysInMonth(y, m + 1)
    <3>1. ASSUME NEW k \in 1 .. 12
          PROVE  DaysUntilMonth(y, k) \in 0 .. 335 /\ DaysInMonth(y, k) \in 28 .. 31
      BY <1>3, MonthBounds
    <3>2. DaysUntilMonth(y, m + 1) \in 0 .. 335 /\ DaysInMonth(y, m + 1) \in 28 .. 31
      BY <2>3, <3>1
    <3> QED BY <3>2, <2>4
  <2>6. today' \in DayType
    <3>1. today' = [year |-> y, month |-> m + 1, day |-> 1, weekday |-> Weekday,
                    yearday |-> today.yearday + 1]
      BY <2>1, <1>2 DEF DayType
    <3> QED BY <3>1, <2>3, <2>5, <1>3, <1>4 DEF DayType
  <2>7. number' = NumberOf(today')
    <3> HIDE DEF y, m, d
    <3>1. NumberOf(today') = 365 * (y - 1) + LeapYearsUntil(y - 1) + (today.yearday + 1) - 719163
      BY <2>2, SMT DEF NumberOf
    <3> QED BY <3>1, <1>2, <1>3, <1>5, <1>11, SMT
  <2> HIDE DEF y, m, d
  <2> QED BY <1>2, <1>3, <1>4, <2>2, <2>4, <2>5, <2>6, <2>7 DEF IsDay
<1>10. CASE ~(d < DaysInMonth(y, m)) /\ ~(m < 12)
  <2>1. today' = [year |-> y + 1, month |-> 1, day |-> 1, weekday |-> Weekday, yearday |-> 1]
    BY <1>10 DEF NextDay
  <2>2. /\ today'.year = y + 1 /\ today'.month = 1 /\ today'.day = 1 /\ today'.weekday = Weekday
        /\ today'.yearday = 1
    BY <2>1
  <2>3. today' \in DayType
    BY <2>1, <1>3, <1>4 DEF DayType
  <2>4. today.yearday = DaysInYear(y)
    <3>1. m = 12 /\ d = DaysInMonth(y, m) /\ DaysUntilMonth(y, m) + DaysInMonth(y, m) = DaysInYear(y)
      BY <1>3, <1>10, MonthEnds
    <3> QED BY <3>1, <1>3
  <2>5. number' = NumberOf(today')
    <3> HIDE DEF y, m, d
    <3>1. NumberOf(today') = 365 * ((y + 1) - 1) + LeapYearsUntil((y + 1) - 1) + 1 - 719163
      BY <2>2, SMT DEF NumberOf
    <3>2. (y + 1) - 1 = y
      BY <1>3
    <3>3. NumberOf(today') = 365 * y + LeapYearsUntil(y) + 1 - 719163
      BY <3>1, <3>2, SMT
    <3> QED BY <3>3, <1>2, <1>3, <1>5, <1>6, <1>11, <2>4, SMT
  <2>6. DaysUntilMonth(y + 1, 1) = 0 /\ 1 <= DaysInMonth(y + 1, 1)
    <3>1. 1 \in 1 .. 12
      OBVIOUS
    <3>2. DaysUntilMonth(y + 1, 1) = UntilMonth(1, LeapDays(y + 1)) /\ DaysInMonth(y + 1, 1) \in 28 .. 31
      BY <3>1, BeforeMonth, MonthBounds
    <3> QED BY <3>2 DEF UntilMonth
  <2> HIDE DEF y, m, d
  <2> QED BY <1>2, <1>3, <1>4, <2>2, <2>3, <2>5, <2>6 DEF IsDay
<1> HIDE DEF y, m, d
<1> QED BY <1>8, <1>9, <1>10

(* The first of January of a year, and what comes after it. *)
LEMMA FirstOfJanuary ==
  ASSUME NEW y \in Int
  PROVE  /\ FirstDay(y) \in Int /\ to_days(y, 1, 1) = FirstDay(y)
         /\ FirstDay(y + 1) = FirstDay(y) + DaysInYear(y)
         /\ DaysInYear(y) = 365 + IF is_leap(y) THEN 1 ELSE 0
<1>1. DaysUntilMonth(y, 1) = 0 /\ 1 \in 1 .. DaysInMonth(y, 1)
  <2>1. 1 \in 1 .. 12
    OBVIOUS
  <2>2. DaysUntilMonth(y, 1) = UntilMonth(1, LeapDays(y)) /\ DaysInMonth(y, 1) \in 28 .. 31
    BY <2>1, BeforeMonth, MonthBounds
  <2> QED BY <2>2 DEF UntilMonth
<1>2. LeapYearsUntil(y - 1) \in Int /\ LeapYearsUntil(y) \in Int
  BY LeapYears
<1>3. FirstDay(y) \in Int
  BY <1>2, SMT DEF FirstDay
<1>4. to_days(y, 1, 1) = DayNumber(y, 1, 1)
  <2>1. 1 \in 1 .. 12
    OBVIOUS
  <2> QED BY <1>1, <2>1, DayAndNumber
<1>5. to_days(y, 1, 1) = FirstDay(y)
  BY <1>1, <1>3, <1>4 DEF DayNumber
<1>6. LeapYearsUntil(y) = LeapYearsUntil(y - 1) + IF IsLeapYear(y) THEN 1 ELSE 0
  BY LeapYears
<1>7. FirstDay(y + 1) = 365 * y + LeapYearsUntil(y) - 719162
  <2>1. (y + 1) - 1 = y
    OBVIOUS
  <2> QED BY <2>1, SMT DEF FirstDay
<1>8. FirstDay(y + 1) = FirstDay(y) + DaysInYear(y)
  BY <1>2, <1>6, <1>7, SMT DEF FirstDay, DaysInYear
<1>9. DaysInYear(y) = 365 + IF is_leap(y) THEN 1 ELSE 0
  BY LeapYears DEF DaysInYear
<1> QED BY <1>3, <1>5, <1>8, <1>9

(* A day of a year, from its first. *)
LEMMA CountedDay ==
  ASSUME NEW t, NEW n, IsDay(t, n)
  PROVE  /\ n = FirstDay(t.year) + t.yearday - 1
         /\ to_days(t.year, t.month, t.day) = n
         /\ from_days(n) = [year |-> t.year, month |-> t.month, day |-> t.day]
<1> DEFINE y == t.year m == t.month d == t.day
<1>1. /\ y \in Int /\ m \in 1 .. 12 /\ d \in 1 .. DaysInMonth(y, m)
      /\ t.yearday = DaysUntilMonth(y, m) + d
      /\ n \in Int /\ n = NumberOf(t) /\ t.yearday \in Int /\ d \in Int
      /\ DaysInMonth(y, m) \in Int /\ DaysUntilMonth(y, m) \in Int
  <2>1. t.yearday \in 1 .. DaysInYear(y) /\ d \in 1 .. DaysInMonth(y, m)
    BY DayParts
  <2> QED BY <2>1, DayParts
<1>2. n = 365 * (y - 1) + LeapYearsUntil(y - 1) + t.yearday - 719163
  BY <1>1, SMT DEF NumberOf
<1>3. LeapYearsUntil(y - 1) \in Int
  BY <1>1, LeapYears
<1> HIDE DEF y, m, d
<1>4. n = DayNumber(y, m, d)
  BY <1>1, <1>2, <1>3, SMT DEF DayNumber, FirstDay
<1>5. to_days(y, m, d) = n /\ from_days(n) = [year |-> y, month |-> m, day |-> d]
  BY <1>1, <1>4, DayAndNumber
<1>6. n = FirstDay(y) + t.yearday - 1
  BY <1>1, <1>2, <1>3, SMT DEF FirstDay
<1> QED BY <1>5, <1>6 DEF y, m, d

(* The week of day yd of a year of len days, after a year of before days: f is the weekday
   of its first of January, from Monday.                                                *)
LEMMA Weeks ==
  ASSUME NEW f \in 0 .. 6, NEW len \in 365 .. 366, NEW before \in 365 .. 366, NEW yd \in 1 .. len
  PROVE  LET thursday == yd + 4 - (((f + yd - 1) % 7) + 1)
             day == (f + 3) % 7
             week == (yd + day + 3) \div 7
             dayBefore == (f - before + 3) % 7
         IN /\ week = 0 <=> thursday < 1
            /\ thursday < 1 =>
                 (yd + before + dayBefore + 3) \div 7 = (thursday + before - 1) \div 7 + 1
            /\ thursday > len <=> week = 53 /\ ~(day = 6 \/ (day = 5 /\ len = 366))
            /\ thursday >= 1 /\ thursday <= len => week = (thursday - 1) \div 7 + 1
<1>1. f \in {0, 1, 2, 3, 4, 5, 6}
  OBVIOUS
<1> DEFINE thursday == yd + 4 - (((f + yd - 1) % 7) + 1)
           day == (f + 3) % 7
           week == (yd + day + 3) \div 7
           dayBefore == (f - before + 3) % 7
<1>2. week = 0 <=> thursday < 1
  OBVIOUS
<1>3. thursday < 1 => (yd + before + dayBefore + 3) \div 7 = (thursday + before - 1) \div 7 + 1
  OBVIOUS
<1>4. thursday > len <=> week = 53 /\ ~(day = 6 \/ (day = 5 /\ len = 366))
  OBVIOUS
<1>5. thursday >= 1 /\ thursday <= len => week = (thursday - 1) \div 7 + 1
  OBVIOUS
<1> QED BY <1>2, <1>3, <1>4, <1>5

(* The number of the last day of a month. *)
LEMMA MonthsEnd ==
  ASSUME NEW t, NEW n, IsDay(t, n)
  PROVE  end_of_month(n) = n + DaysInMonth(t.year, t.month) - t.day
<1> DEFINE y == t.year m == t.month d == t.day
<1>1. /\ y \in Int /\ m \in 1 .. 12 /\ d \in 1 .. DaysInMonth(y, m)
      /\ t.yearday = DaysUntilMonth(y, m) + d
      /\ DaysInMonth(y, m) \in Int /\ DaysUntilMonth(y, m) \in Int
  BY DayParts
<1>2. n = FirstDay(y) + t.yearday - 1 /\ from_days(n) = [year |-> y, month |-> m, day |-> d]
  BY CountedDay
<1>3. FirstDay(y) \in Int /\ FirstDay(y + 1) = FirstDay(y) + DaysInYear(y) /\ y + 1 \in Int
  BY <1>1, FirstOfJanuary
<1>4. ASSUME NEW k \in 1 .. 12
      PROVE  to_days(y, k, 1) = FirstDay(y) + DaysUntilMonth(y, k)
  <2>1. DaysInMonth(y, k) \in 28 .. 31 /\ DaysUntilMonth(y, k) \in Int
    BY <1>1, MonthBounds
  <2>2. 1 \in 1 .. DaysInMonth(y, k)
    BY <2>1
  <2>3. to_days(y, k, 1) = DayNumber(y, k, 1)
    BY <1>1, <2>2, DayAndNumber
  <2> QED BY <1>3, <2>1, <2>3 DEF DayNumber
<1>5. CASE m < 12
  <2>1. m + 1 \in 1 .. 12 /\ DaysUntilMonth(y, m + 1) = DaysUntilMonth(y, m) + DaysInMonth(y, m)
    BY <1>1, <1>5, MonthEnds
  <2>2. to_days(y, m + 1, 1) = FirstDay(y) + DaysUntilMonth(y, m + 1)
    BY <1>4, <2>1
  <2>3. end_of_month(n) = to_days(y, m + 1, 1) - 1
    BY <1>2, <1>5 DEF end_of_month
  <2> HIDE DEF y, m, d
  <2> QED BY <1>1, <1>2, <1>3, <2>1, <2>2, <2>3 DEF d, y, m
<1>6. CASE m = 12
  <2>1. DaysUntilMonth(y, m) + DaysInMonth(y, m) = DaysInYear(y)
    BY <1>1, <1>6, MonthEnds
  <2>2. end_of_month(n) = to_days(y + 1, 1, 1) - 1
    BY <1>2, <1>6 DEF end_of_month
  <2>3. to_days(y + 1, 1, 1) = FirstDay(y + 1)
    BY <1>3, FirstOfJanuary
  <2> QED BY <1>1, <1>2, <1>3, <2>1, <2>2, <2>3
<1>7. m < 12 \/ m = 12
  BY <1>1
<1> QED BY <1>5, <1>6, <1>7

(* The weekday, which is that of the first of January that many days on. *)
LEMMA Weekdays ==
  ASSUME NEW n \in Int
  PROVE  /\ iso_encoding(weekday_from_days(n)) = ((n + 3) % 7) + 1
         /\ (julian_day(n) % 7) + 1 = ((n + 3) % 7) + 1
<1>1. iso_encoding(weekday_from_days(n)) = ((n + 3) % 7) + 1
  BY DEF iso_encoding, weekday_from_days
<1>2. (julian_day(n) % 7) + 1 = ((n + 3) % 7) + 1
  BY SMT DEF julian_day
<1> QED BY <1>1, <1>2

\* The ISO week of a day of the calendar.
IsoWeekOf(t) ==
  LET thursday == t.yearday + 4 - t.weekday
  IN IF thursday < 1 THEN (thursday + DaysInYear(t.year - 1) - 1) \div 7 + 1
     ELSE IF thursday > DaysInYear(t.year) THEN 1
     ELSE (thursday - 1) \div 7 + 1

\* From 0 on, the remainder of C++ is that of the mathematicians.
LEMMA RemainderOfNatural ==
  ASSUME NEW a \in Int, a >= 0
  PROVE  Remainder(a, 7) = a % 7
BY SMT DEF Remainder, Quotient

LEMMA WeekNumbers ==
  ASSUME NEW t, NEW n, IsDay(t, n), julian_day(n) >= WeeksFrom
  PROVE  week_number(n) = IsoWeekOf(t)
<1> DEFINE y == t.year
           yd == t.yearday
           first == FirstDay(y)
           f == (first + 3) % 7
           len == DaysInYear(y)
           before == DaysInYear(y - 1)
           thursday == yd + 4 - (((f + yd - 1) % 7) + 1)
           day == (f + 3) % 7
           week == (yd + day + 3) \div 7
           dayBefore == (f - before + 3) % 7
<1>1. /\ y \in Int /\ yd \in 1 .. len /\ t.weekday = ((n + 3) % 7) + 1
  BY DayParts
<1>2. n = first + yd - 1 /\ from_days(n).year = y
  BY CountedDay
<1>3. /\ first \in Int /\ to_days(y, 1, 1) = first
      /\ len = 365 + IF is_leap(y) THEN 1 ELSE 0
  BY <1>1, FirstOfJanuary
<1>4. /\ to_days(y - 1, 1, 1) = first - before
      /\ before = 365 + IF is_leap(y - 1) THEN 1 ELSE 0
  <2>1. y - 1 \in Int /\ (y - 1) + 1 = y
    BY <1>1
  <2>2. /\ FirstDay(y - 1) \in Int /\ to_days(y - 1, 1, 1) = FirstDay(y - 1)
        /\ FirstDay((y - 1) + 1) = FirstDay(y - 1) + before
        /\ before = 365 + IF is_leap(y - 1) THEN 1 ELSE 0
    BY <2>1, FirstOfJanuary
  <2> HIDE DEF before
  <2>3. before \in Int
    BY <2>2
  <2> QED BY <2>1, <2>2, <2>3
<1>5. len \in 365 .. 366 /\ before \in 365 .. 366 /\ (len = 366 <=> is_leap(y))
  <2> HIDE DEF len, before
  <2> QED BY <1>3, <1>4
<1> HIDE DEF first, len, before, yd, y
<1>6. f \in 0 .. 6 /\ yd \in Int
  BY <1>1, <1>3, <1>5
<1>0. julian_day(first) \in Int /\ julian_day(first) >= 0 /\ julian_day(first - before) >= 0
  BY <1>1, <1>2, <1>3, <1>5, SMT DEF julian_day, WeeksFrom
<1>7. ((n + 3) % 7) = (f + yd - 1) % 7
  BY <1>2, <1>3, <1>6
<1>8. /\ week = 0 <=> thursday < 1
      /\ thursday < 1 =>
           (yd + before + dayBefore + 3) \div 7 = (thursday + before - 1) \div 7 + 1
      /\ thursday > len <=> week = 53 /\ ~(day = 6 \/ (day = 5 /\ len = 366))
      /\ thursday >= 1 /\ thursday <= len => week = (thursday - 1) \div 7 + 1
  <2> HIDE DEF f
  <2> QED BY <1>1, <1>5, <1>6, Weeks
<1>9. WeekIn(y, n) = [day |-> day, week |-> week]
  <2>1. Remainder(julian_day(first) + 3, 7) = day
    <3>1. julian_day(first) + 3 \in Int /\ julian_day(first) + 3 >= 0
      BY <1>0, <1>3
    <3>2. (julian_day(first) + 3) % 7 = day
      BY <1>3, SMT DEF julian_day
    <3> QED BY <3>1, <3>2, RemainderOfNatural
  <2>2. julian_day(n) + day - julian_day(first) + 4 = yd + day + 3
    <3>1. day \in Int
      BY <1>3
    <3> HIDE DEF day
    <3> QED BY <1>2, <1>3, <1>6, <3>1, SMT DEF julian_day
  <2>3. ~(yd + day + 3 < 0)
    <3>1. day \in Nat /\ yd \in Nat
      BY <1>3, <1>1, <1>5
    <3> HIDE DEF day
    <3> QED BY <3>1
  <2>4. week = (yd + day + 3) \div 7
    OBVIOUS
  <2> HIDE DEF day, week
  <2> QED BY <1>3, <2>1, <2>2, <2>3, <2>4 DEF WeekIn
<1>10. WeekIn(y - 1, n).week = (yd + before + dayBefore + 3) \div 7
  <2>0. first - before \in Int
    BY <1>3, <1>5
  <2>1. Remainder(julian_day(first - before) + 3, 7) = dayBefore
    <3>1. julian_day(first - before) + 3 \in Int /\ julian_day(first - before) + 3 >= 0
      BY <1>0, <2>0 DEF julian_day
    <3>2. (julian_day(first - before) + 3) % 7 = dayBefore
      BY <1>3, <1>5, SMT DEF julian_day
    <3> QED BY <3>1, <3>2, RemainderOfNatural
  <2>2. julian_day(n) + dayBefore - julian_day(first - before) + 4 = yd + before + dayBefore + 3
    <3>1. dayBefore \in Int /\ before \in Int
      BY <1>3, <1>5
    <3> HIDE DEF dayBefore
    <3> QED BY <1>2, <1>3, <1>6, <3>1, SMT DEF julian_day
  <2>3. ~(yd + before + dayBefore + 3 < 0)
    <3>1. dayBefore \in Nat /\ yd \in Nat /\ before \in Nat
      BY <1>3, <1>1, <1>5
    <3> HIDE DEF dayBefore
    <3> QED BY <3>1
  <2> HIDE DEF dayBefore
  <2> QED BY <1>4, <2>1, <2>2, <2>3 DEF WeekIn
<1>11. HasWeek53(y, day) <=> day = 6 \/ (day = 5 /\ len = 366)
  BY <1>5 DEF HasWeek53
<1> HIDE DEF day, week
<1>12. week_number(n) = IF week = 0 THEN (yd + before + dayBefore + 3) \div 7
                        ELSE IF week = 53 /\ ~HasWeek53(y, day) THEN 1
                        ELSE week
  BY <1>2, <1>9, <1>10 DEF week_number
<1>13. yd + 4 - t.weekday = thursday /\ thursday \in Int /\ len \in Int
  BY <1>1, <1>5, <1>6, <1>7
<1> HIDE DEF thursday
<1>14. IsoWeekOf(t) = IF thursday < 1 THEN (thursday + before - 1) \div 7 + 1
                      ELSE IF thursday > len THEN 1
                      ELSE (thursday - 1) \div 7 + 1
  BY <1>13 DEF IsoWeekOf, yd, len, before, y
<1> HIDE DEF dayBefore
<1>15. CASE thursday < 1
  BY <1>15, <1>8, <1>12, <1>14
<1>16. CASE thursday >= 1 /\ thursday > len
  BY <1>16, <1>8, <1>11, <1>12, <1>13, <1>14
<1>17. CASE thursday >= 1 /\ thursday <= len
  BY <1>17, <1>8, <1>11, <1>12, <1>13, <1>14
<1> QED BY <1>13, <1>15, <1>16, <1>17

LEMMA CalendarIsSound == CalendarInv => CalendarAgrees
<1> SUFFICES ASSUME CalendarInv PROVE CalendarAgrees
  OBVIOUS
<1> DEFINE y == today.year m == today.month
<1>1. IsDay(today, number)
  BY DEF CalendarInv
<1>2. /\ y \in Int /\ m \in 1 .. 12 /\ number \in Int /\ today.yearday \in Int
      /\ today.weekday = ((number + 3) % 7) + 1
  <2>1. today.yearday \in 1 .. DaysInYear(y)
    BY <1>1, DayParts
  <2> QED BY <1>1, <2>1, DayParts
<1>3. /\ number = FirstDay(y) + today.yearday - 1 /\ to_days(y, m, today.day) = number
      /\ from_days(number) = [year |-> y, month |-> m, day |-> today.day]
  BY <1>1, CountedDay
<1>4. ASSUME NEW d \in 0 .. 32
      PROVE  ok(y, m, d) <=> d \in 1 .. DaysInMonth(y, m)
  <2>1. LastDay(y, m) = DaysInMonth(y, m)
    BY <1>2, LastDayThere
  <2> QED BY <1>2, <2>1 DEF ok
<1>5. /\ iso_encoding(weekday_from_days(number)) = today.weekday
      /\ (julian_day(number) % 7) + 1 = today.weekday
  BY <1>2, Weekdays
<1>6. day_of_year(number) = today.yearday
  <2>1. FirstDay(y) \in Int /\ to_days(y, 1, 1) = FirstDay(y)
    BY <1>2, FirstOfJanuary
  <2> QED BY <1>2, <1>3, <2>1 DEF day_of_year
<1>7. end_of_month(number) = number + DaysInMonth(y, m) - today.day
  BY <1>1, MonthsEnd
<1>8. ASSUME julian_day(number) >= WeeksFrom
      PROVE  WeekIsIso
  <2>1. week_number(number) = IsoWeekOf(today)
    BY <1>1, <1>8, WeekNumbers
  <2>2. IsoWeek = IsoWeekOf(today)
    BY <1>2 DEF IsoWeek, IsoWeekOf, DaysInYear
  <2> QED BY <2>1, <2>2 DEF WeekIsIso
<1>9. number >= 0 => \A seconds \in 0 .. SecondsPerDay - 1 : from_time_t(number, seconds) = number
  BY <1>2 DEF from_time_t, SecondsPerDay, Quotient
<1> QED BY <1>3, <1>4, <1>5, <1>6, <1>7, <1>8, <1>9 DEF CalendarAgrees

(* What a Date says of itself is what the calendar says that is counted by hand, for every
   day from the first days on: its parts, the way back from them, its weekday, the day of
   its year and the end of its month, and from Julian day 731 on, 24 November -4711, its
   ISO week (date.h: year_month_day; Date.cpp:16-40, 59-93, 124-211).                    *)
THEOREM CalendarSound == CalendarSpec => []CalendarAgrees
<1>1. CalendarSpec => []CalendarInv
  BY CalendarInitInv, CalendarNextInv, PTL DEF CalendarSpec
<1> QED BY <1>1, CalendarIsSound, PTL
-----------------------------------------------------------------------------
(* Reckoning, for every time and duration and every number of ticks in a second. *)

Values == [type : ValueTypes, at : Int]

ReckoningInv == clock \in Values /\ lapse \in Values

LEMMA ValueParts ==
  ASSUME NEW v \in Values
  PROVE  /\ v.type \in {NORMAL, POS_INFINITY, NEG_INFINITY, NOT_A_DATE_TIME} /\ v.at \in Int
         /\ v = [type |-> v.type, at |-> v.at]
         /\ ~IsSpecial(v) <=> v.type = NORMAL
         /\ ~IsSpecial(v) => v = AtTime(v.at)
BY DEF Values, ValueTypes, IsSpecial, AtTime

LEMMA TickTypes ==
  /\ Ticks \in Nat \ {0} /\ Leftovers \subseteq Int
  /\ \A e \in LapseValues : e \in Values
  /\ \A t \in ClockValues : t \in Values
  /\ \A types \in SUBSET ValueTypes : UnsetSpecials(types) \subseteq Values
<1>1. \A n \in Int : AtTime(n) \in Values
  BY DEF AtTime, Values, ValueTypes
<1>2. \A type \in ValueTypes : Special(type) \in Values
  BY DEF Special, Values
<1>3. \A types \in SUBSET ValueTypes : UnsetSpecials(types) \subseteq Values
  BY ReckoningAssumption DEF UnsetSpecials, Values
<1>4. \A e \in LapseValues : e \in Values
  BY <1>1, <1>3, ReckoningAssumption DEF LapseValues, Specials
<1>5. \A t \in ClockValues : t \in Values
  BY <1>1, <1>2, ReckoningAssumption DEF ClockValues, ValuesOf, Specials
<1> QED BY <1>3, <1>4, <1>5, ReckoningAssumption

LEMMA AddedTypes ==
  ASSUME NEW a \in ValueTypes, NEW b \in ValueTypes
  PROVE  /\ add_impl(a, b) = IF a = NORMAL THEN b
                             ELSE IF b = NORMAL \/ b = a THEN a ELSE NOT_A_DATE_TIME
         /\ sub_impl(a, b) = IF a = NOT_A_DATE_TIME \/ b = NOT_A_DATE_TIME THEN NOT_A_DATE_TIME
                             ELSE IF a = NORMAL THEN b
                             ELSE IF b # a THEN a ELSE NOT_A_DATE_TIME
         /\ add_impl(a, b) \in ValueTypes /\ sub_impl(a, b) \in ValueTypes
<1>1. a \in {NORMAL, POS_INFINITY, NEG_INFINITY, NOT_A_DATE_TIME}
      /\ b \in {NORMAL, POS_INFINITY, NEG_INFINITY, NOT_A_DATE_TIME}
  BY DEF ValueTypes
<1>2. add_impl(a, b) = IF a = NORMAL THEN b
                       ELSE IF b = NORMAL \/ b = a THEN a ELSE NOT_A_DATE_TIME
  BY <1>1 DEF add_impl, NORMAL, POS_INFINITY, NEG_INFINITY, NOT_A_DATE_TIME
<1>3. sub_impl(a, b) = IF a = NOT_A_DATE_TIME \/ b = NOT_A_DATE_TIME THEN NOT_A_DATE_TIME
                       ELSE IF a = NORMAL THEN b
                       ELSE IF b # a THEN a ELSE NOT_A_DATE_TIME
  BY DEF sub_impl
<1>4. add_impl(a, b) \in ValueTypes /\ sub_impl(a, b) \in ValueTypes
  BY <1>1, <1>2, <1>3 DEF ValueTypes
<1> QED BY <1>2, <1>3, <1>4

LEMMA SumsOfTimes ==
  ASSUME NEW t \in Values, NEW d \in Values
  PROVE  /\ Plus(t, d) \in Values /\ Less(t, d) \in Values
         /\ ~IsSpecial(t) /\ ~IsSpecial(d) =>
              Plus(t, d) = AtTime(t.at + d.at) /\ Less(t, d) = AtTime(t.at - d.at)
         /\ IsSpecial(t) /\ ~IsSpecial(d) => Plus(t, d) = Special(t.type) /\ Less(t, d) = Special(t.type)
         /\ ~IsSpecial(t) /\ IsSpecial(d) => Plus(t, d) = Special(d.type) /\ Less(t, d) = Special(d.type)
<1>1. /\ t.type \in ValueTypes /\ d.type \in ValueTypes /\ t.at \in Int /\ d.at \in Int
  BY DEF Values
<1>2. add_impl(t.type, d.type) = (IF t.type = NORMAL THEN d.type
                       ELSE IF d.type = NORMAL \/ d.type = t.type THEN t.type ELSE NOT_A_DATE_TIME)
      /\ add_impl(t.type, d.type) \in ValueTypes
  BY <1>1, AddedTypes
<1>3. sub_impl(t.type, d.type) = (IF t.type = NOT_A_DATE_TIME \/ d.type = NOT_A_DATE_TIME
                       THEN NOT_A_DATE_TIME
                       ELSE IF t.type = NORMAL THEN d.type
                       ELSE IF d.type # t.type THEN t.type ELSE NOT_A_DATE_TIME)
      /\ sub_impl(t.type, d.type) \in ValueTypes
  BY <1>1, AddedTypes
<1>4. \A n \in Int : AtTime(n) \in Values
  BY DEF AtTime, Values, ValueTypes
<1>5. \A type \in ValueTypes : Special(type) \in Values
  BY DEF Special, Values
<1>6. Plus(t, d) \in Values /\ Less(t, d) \in Values
  BY <1>1, <1>2, <1>3, <1>4, <1>5 DEF Plus, Less
<1>7. NORMAL # NOT_A_DATE_TIME
  BY DEF NORMAL, NOT_A_DATE_TIME
<1>8. ~IsSpecial(t) /\ ~IsSpecial(d) =>
              Plus(t, d) = AtTime(t.at + d.at) /\ Less(t, d) = AtTime(t.at - d.at)
  BY <1>2, <1>3, <1>7 DEF Plus, Less, IsSpecial
<1>9. IsSpecial(t) /\ ~IsSpecial(d) => Plus(t, d) = Special(t.type) /\ Less(t, d) = Special(t.type)
  BY <1>2, <1>3, <1>7 DEF Plus, Less, IsSpecial
<1>10. ~IsSpecial(t) /\ IsSpecial(d) => Plus(t, d) = Special(d.type) /\ Less(t, d) = Special(d.type)
  BY <1>2, <1>3, <1>7 DEF Plus, Less, IsSpecial
<1> QED BY <1>6, <1>8, <1>9, <1>10

LEMMA ReckoningInitInv == ReckoningInit => ReckoningInv
BY TickTypes DEF ReckoningInit, ReckoningInv

LEMMA ReckoningNextInv == ReckoningInv /\ [ReckoningNext]_reckoningVars => ReckoningInv'
<1> SUFFICES ASSUME ReckoningInv, ReckoningNext PROVE ReckoningInv'
  BY DEF ReckoningInv, reckoningVars
<1>1. clock \in Values /\ lapse \in Values
  BY DEF ReckoningInv
<1>2. \A n \in Int : AtTime(n) \in Values
  BY DEF AtTime, Values, ValueTypes
<1>3. UnsetSpecials({NOT_A_DATE_TIME}) \subseteq Values
  BY TickTypes DEF ValueTypes
<1>4. \A v \in Values, n \in Int : [v EXCEPT !.at = n] \in Values
  BY DEF Values
<1>5. lapse.at \in Int
  BY <1>1 DEF Values
<1>6. CASE ClockMoves
  <2>1. Plus(clock, lapse) \in Values /\ Less(clock, lapse) \in Values
    BY <1>1, SumsOfTimes
  <2>2. clock.at \in Int
    BY <1>1 DEF Values
  <2>3. Advanced(clock, 1) \in Values /\ Advanced(clock, -1) \in Values
    BY <1>1, <1>4, <2>2 DEF Advanced
  <2> QED BY <1>1, <1>6, <2>1, <2>3 DEF ClockMoves, ReckoningInv
<1>7. CASE LapseChanges
  <2>1. Negated(lapse) \in Values
    BY <1>2, <1>5 DEF Negated
  <2>2. Advanced(lapse, 1) \in Values /\ Advanced(lapse, -1) \in Values
    BY <1>1, <1>4, <1>5 DEF Advanced
  <2>3. ASSUME NEW factor \in Factors
        PROVE  Multiplied(lapse, factor) \in Values /\ Divided(lapse, factor) \in Values
    <3>1. factor \in Nat \ {0}
      BY ReckoningAssumption
    <3>2. lapse.at * factor \in Int /\ Quotient(lapse.at, factor) \in Int
      BY <1>5, <3>1 DEF Quotient
    <3> QED BY <1>1, <1>4, <3>2 DEF Multiplied, Divided
  <2> QED BY <1>1, <1>7, <2>1, <2>2, <2>3 DEF LapseChanges, ReckoningInv
<1>8. ASSUME NEW e \in LapseValues, LapseCombines(e) PROVE ReckoningInv'
  <2>1. e \in Values /\ e.at \in Int
    BY TickTypes DEF Values
  <2>4. /\ AtTime(lapse.at + e.at) \in Values /\ AtTime(lapse.at - e.at) \in Values
        /\ [lapse EXCEPT !.at = lapse.at + e.at] \in Values
        /\ [lapse EXCEPT !.at = lapse.at - e.at] \in Values
    BY <1>1, <1>2, <1>4, <1>5, <2>1
  <2>2. Sums(lapse, e) \subseteq Values /\ Differences(lapse, e) \subseteq Values
    BY <1>3, <2>4 DEF Sums, Differences
  <2>3. SumsKept(lapse, e) \subseteq Values /\ DifferencesKept(lapse, e) \subseteq Values
    BY <1>3, <2>4 DEF SumsKept, DifferencesKept
  <2> QED BY <1>1, <1>8, <2>2, <2>3 DEF LapseCombines, ReckoningInv
<1>9. ASSUME NEW e \in LapseValues, LapseLoads(e) PROVE ReckoningInv'
  <2>1. e \in Values /\ e.at \in Int /\ e.type \in ValueTypes
    BY TickTypes DEF Values
  <2>2. Loaded(lapse, Archived(e)) \in Values
    BY <1>1, <2>1 DEF Loaded, Archived, Values
  <2> QED BY <1>1, <1>9, <2>2 DEF LapseLoads, ReckoningInv
<1>10. ASSUME NEW t \in ClockValues, LapseMeasures(t) PROVE ReckoningInv'
  <2>1. t \in Values /\ t.at \in Int /\ t.type \in ValueTypes /\ clock.at \in Int /\ clock.type \in ValueTypes
    BY <1>1, TickTypes DEF Values
  <2>2. sub_impl(clock.type, t.type) \in ValueTypes
    BY <2>1, AddedTypes
  <2>3. UnsetSpecials({sub_impl(clock.type, t.type)}) \subseteq Values
    BY <2>2, TickTypes
  <2>4. TimeBetween(clock, t) \subseteq Values
    BY <1>2, <2>1, <2>3 DEF TimeBetween
  <2> QED BY <1>1, <1>10, <2>4 DEF LapseMeasures, ReckoningInv
<1> QED BY <1>6, <1>7, <1>8, <1>9, <1>10 DEF ReckoningNext

LEMMA SoundTimes == ReckoningInv => TimesAddUp
<1> SUFFICES ASSUME ReckoningInv PROVE TimesAddUp
  OBVIOUS
<1> DEFINE sum == Plus(clock, lapse)
           rest == Less(clock, lapse)
<1>1. clock \in Values /\ lapse \in Values /\ clock.at \in Int /\ lapse.at \in Int
      /\ clock.type \in ValueTypes /\ lapse.type \in ValueTypes
  BY DEF ReckoningInv, Values
<1>2. ASSUME ~IsSpecial(lapse)
      PROVE  /\ IsEqual(Less(sum, lapse), clock)
             /\ ~IsSpecial(clock) => TimeBetween(sum, clock) = {lapse}
             /\ \A e \in {AtTime(n) : n \in Lapses} : \A both \in Sums(lapse, e) :
                  Plus(sum, e) = Plus(clock, both)
             /\ \A t \in ClockValues : IsLess(t, clock) = IsLess(Plus(t, lapse), sum)
  <2>0. lapse = AtTime(lapse.at) /\ lapse.type = NORMAL
    BY <1>1, <1>2, ValueParts
  <2>1. sum \in Values /\ sum.type = clock.type /\ (~IsSpecial(clock) => sum = AtTime(clock.at + lapse.at))
    <3>1. sum \in Values
      BY <1>1, SumsOfTimes
    <3>2. CASE IsSpecial(clock)
      <4>1. sum = Special(clock.type)
        BY <1>1, <1>2, <3>2, SumsOfTimes
      <4> QED BY <3>1, <3>2, <4>1 DEF Special
    <3>3. CASE ~IsSpecial(clock)
      <4>1. sum = AtTime(clock.at + lapse.at)
        BY <1>1, <1>2, <3>3, SumsOfTimes
      <4> QED BY <3>1, <3>3, <4>1 DEF AtTime, IsSpecial
    <3> QED BY <3>2, <3>3
  <2> HIDE DEF sum
  <2>2. IsEqual(Less(sum, lapse), clock)
    <3>1. CASE IsSpecial(clock)
      <4>1. IsSpecial(sum)
        BY <2>1, <3>1 DEF IsSpecial
      <4>2. Less(sum, lapse) = Special(clock.type)
        BY <1>1, <1>2, <2>1, <4>1, SumsOfTimes
      <4> QED BY <3>1, <4>2 DEF IsEqual, Special
    <3>2. CASE ~IsSpecial(clock)
      <4>1. ~IsSpecial(sum) /\ sum.at = clock.at + lapse.at
        BY <2>1, <3>2 DEF IsSpecial, AtTime
      <4>2. Less(sum, lapse) = AtTime(sum.at - lapse.at)
        BY <1>1, <1>2, <2>1, <4>1, SumsOfTimes
      <4>3. sum.at - lapse.at = clock.at
        BY <1>1, <4>1
      <4> QED BY <3>2, <4>2, <4>3 DEF IsEqual, AtTime, IsSpecial
    <3> QED BY <3>1, <3>2
  <2>3. ~IsSpecial(clock) => TimeBetween(sum, clock) = {lapse}
    <3> SUFFICES ASSUME ~IsSpecial(clock) PROVE TimeBetween(sum, clock) = {lapse}
      OBVIOUS
    <3>1. sum.type = NORMAL /\ clock.type = NORMAL /\ sum.at = clock.at + lapse.at
      BY <2>1 DEF IsSpecial, AtTime
    <3>2. sub_impl(NORMAL, NORMAL) = NORMAL
      BY DEF sub_impl, NORMAL, NOT_A_DATE_TIME
    <3>3. TimeBetween(sum, clock) = {AtTime(sum.at - clock.at)}
      BY <3>1, <3>2 DEF TimeBetween
    <3>4. sum.at - clock.at = lapse.at
      BY <1>1, <3>1
    <3> QED BY <2>0, <3>3, <3>4
  <2>4. ASSUME NEW e \in {AtTime(n) : n \in Lapses}, NEW both \in Sums(lapse, e)
        PROVE  Plus(sum, e) = Plus(clock, both)
    <3>1. e \in Values /\ e.type = NORMAL /\ e.at \in Int /\ ~IsSpecial(e)
      BY ReckoningAssumption DEF AtTime, Values, ValueTypes, IsSpecial
    <3>2. both = AtTime(lapse.at + e.at) /\ lapse.at + e.at \in Int
      BY <1>1, <1>2, <3>1 DEF Sums, BothSpecial
    <3>3. both \in Values /\ both.at = lapse.at + e.at /\ ~IsSpecial(both)
      BY <3>2 DEF AtTime, Values, ValueTypes, IsSpecial
    <3>4. CASE IsSpecial(clock)
      <4>1. IsSpecial(sum)
        BY <2>1, <3>4 DEF IsSpecial
      <4>2. Plus(sum, e) = Special(clock.type)
        BY <2>1, <3>1, <4>1, SumsOfTimes
      <4>3. Plus(clock, both) = Special(clock.type)
        BY <1>1, <3>3, <3>4, SumsOfTimes
      <4> QED BY <4>2, <4>3
    <3>5. CASE ~IsSpecial(clock)
      <4>1. ~IsSpecial(sum) /\ sum.at = clock.at + lapse.at
        BY <2>1, <3>5 DEF IsSpecial, AtTime
      <4>2. Plus(sum, e) = AtTime(sum.at + e.at)
        BY <2>1, <3>1, <4>1, SumsOfTimes
      <4>3. Plus(clock, both) = AtTime(clock.at + both.at)
        BY <1>1, <3>3, <3>5, SumsOfTimes
      <4>4. sum.at + e.at = clock.at + both.at
        BY <1>1, <3>1, <3>3, <4>1
      <4> QED BY <4>2, <4>3, <4>4
    <3> QED BY <3>4, <3>5
  <2>5. ASSUME NEW t \in ClockValues
        PROVE  IsLess(t, clock) = IsLess(Plus(t, lapse), sum)
    <3>1. t \in Values /\ t.at \in Int
      BY TickTypes DEF Values
    <3>2. CASE IsSpecial(t) 
      <4>0. Plus(t, lapse) = Special(t.type)
        BY <1>1, <1>2, <3>1, <3>2, SumsOfTimes
      <4>1. Plus(t, lapse).type = t.type
        BY <4>0 DEF Special
      <4> QED BY <2>1, <3>2, <4>1 DEF IsLess, IsSpecial
    <3>3. CASE ~IsSpecial(t)
      <4>1. Plus(t, lapse) = AtTime(t.at + lapse.at)
        BY <1>1, <1>2, <3>1, <3>3, SumsOfTimes
      <4>2. Plus(t, lapse).type = t.type /\ Plus(t, lapse).at = t.at + lapse.at
        BY <3>3, <4>1 DEF AtTime, IsSpecial
      <4>3. ~IsSpecial(clock) => sum.at = clock.at + lapse.at
        BY <2>1 DEF AtTime
      <4> QED BY <1>1, <2>1, <3>1, <4>2, <4>3 DEF IsLess, IsSpecial
    <3> QED BY <3>2, <3>3
  <2> QED BY <2>2, <2>3, <2>4, <2>5
<1>3. ASSUME lapse.type \in {POS_INFINITY, NEG_INFINITY}, ~IsSpecial(clock)
      PROVE  /\ IsLess(clock, sum) = (lapse.type = POS_INFINITY)
             /\ IsLess(sum, clock) = (lapse.type = NEG_INFINITY)
             /\ rest = sum
  <2>1. IsSpecial(lapse)
    BY <1>3 DEF IsSpecial, NORMAL, POS_INFINITY, NEG_INFINITY
  <2>2. sum = Special(lapse.type) /\ rest = Special(lapse.type)
    BY <1>1, <1>3, <2>1, SumsOfTimes
  <2> HIDE DEF sum, rest
  <2>3. sum.type = lapse.type /\ clock.type = NORMAL
    BY <1>3, <2>2 DEF Special, IsSpecial
  <2> QED BY <1>3, <2>1, <2>2, <2>3 DEF IsLess, IsSpecial, NORMAL, POS_INFINITY, NEG_INFINITY
<1> QED BY <1>2, <1>3 DEF TimesAddUp

LEMMA SoundForms == ReckoningInv => FormsAgree
<1> SUFFICES ASSUME ReckoningInv, NEW e \in LapseValues
             PROVE  /\ IF IsSpecial(lapse) /\ ~IsSpecial(e)
                       THEN \A kept \in SumsKept(lapse, e), sum \in Sums(lapse, e) :
                              IsEqual(kept, lapse) /\ ~IsSpecial(sum)
                       ELSE /\ SumsKept(lapse, e) = Sums(lapse, e)
                            /\ DifferencesKept(lapse, e) = Differences(lapse, e)
                    /\ IsEqual(Loaded(lapse, Archived(e)), e)
  BY DEF FormsAgree
<1>1. lapse \in Values /\ e \in Values /\ lapse.at \in Int /\ e.at \in Int
  BY TickTypes DEF ReckoningInv, Values
<1>2. ASSUME IsSpecial(lapse), ~IsSpecial(e), NEW kept \in SumsKept(lapse, e), NEW sum \in Sums(lapse, e)
      PROVE  IsEqual(kept, lapse) /\ ~IsSpecial(sum)
  <2>1. kept = [lapse EXCEPT !.at = lapse.at + e.at] /\ sum = AtTime(lapse.at + e.at)
    BY <1>2 DEF SumsKept, Sums, BothSpecial
  <2>2. kept.type = lapse.type
    BY <1>1, <2>1 DEF Values
  <2> QED BY <1>2, <2>1, <2>2 DEF IsEqual, IsSpecial, AtTime
<1>3. ASSUME ~(IsSpecial(lapse) /\ ~IsSpecial(e))
      PROVE  /\ SumsKept(lapse, e) = Sums(lapse, e)
             /\ DifferencesKept(lapse, e) = Differences(lapse, e)
  <2>1. CASE IsSpecial(lapse)
    BY <1>3, <2>1 DEF SumsKept, Sums, DifferencesKept, Differences, BothSpecial
  <2>2. CASE ~IsSpecial(lapse)
    <3>1. lapse.type = NORMAL
      BY <2>2 DEF IsSpecial
    <3>2. [lapse EXCEPT !.at = lapse.at + e.at] = AtTime(lapse.at + e.at)
      BY <1>1, <3>1 DEF Values, AtTime
    <3>3. [lapse EXCEPT !.at = lapse.at - e.at] = AtTime(lapse.at - e.at)
      BY <1>1, <3>1 DEF Values, AtTime
    <3> QED BY <2>2, <3>2, <3>3 DEF SumsKept, Sums, DifferencesKept, Differences, BothSpecial
  <2> QED BY <2>1, <2>2
<1>4. IsEqual(Loaded(lapse, Archived(e)), e)
  <2>1. CASE IsSpecial(e)
    <3>1. Len(Archived(e)) = 1 /\ Archived(e)[1] = e.type
      BY <2>1 DEF Archived
    <3>2. Loaded(lapse, Archived(e)) = [lapse EXCEPT !.type = e.type]
      BY <3>1 DEF Loaded
    <3>3. Loaded(lapse, Archived(e)).type = e.type
      BY <1>1, <3>2 DEF Values
    <3> QED BY <2>1, <3>3 DEF IsEqual
  <2>2. CASE ~IsSpecial(e)
    <3>1. Len(Archived(e)) = 2 /\ Archived(e)[1] = e.type /\ Archived(e)[2] = e.at
      BY <2>2 DEF Archived
    <3>2. Loaded(lapse, Archived(e)) = [type |-> e.type, at |-> e.at]
      BY <3>1 DEF Loaded
    <3> QED BY <3>2 DEF IsEqual
  <2> QED BY <2>1, <2>2
<1> QED BY <1>2, <1>3, <1>4

LEMMA SoundOrders == ReckoningInv => OrdersAgree
<1> SUFFICES ASSUME ReckoningInv, NEW t \in ClockValues
             PROVE  /\ Cardinality({i \in 1 .. 3 :
                                      <<IsLess(clock, t), IsEqual(clock, t), IsLess(t, clock)>>[i]}) = 1
                    /\ IsAtLeast(clock, t) = IsAtMost(t, clock)
                    /\ \A u \in ClockValues : IsAtMost(clock, t) /\ IsAtMost(t, u) => IsAtMost(clock, u)
                    /\ (DateAtLeast(clock, t) # IsAtLeast(clock, t)) = (clock.type # t.type)
  BY DEF OrdersAgree
<1>1. ASSUME NEW v \in Values
      PROVE  v.type \in Int /\ v.at \in Int
  BY DEF Values, ValueTypes, NORMAL, POS_INFINITY, NEG_INFINITY, NOT_A_DATE_TIME
<1>2. clock \in Values /\ t \in Values
  BY TickTypes DEF ReckoningInv
<1>3. clock.type \in Int /\ clock.at \in Int /\ t.type \in Int /\ t.at \in Int
  BY <1>1, <1>2
<1>4. Cardinality({i \in 1 .. 3 : <<IsLess(clock, t), IsEqual(clock, t), IsLess(t, clock)>>[i]}) = 1
  <2> DEFINE before == IsLess(clock, t)
             same == IsEqual(clock, t)
             after == IsLess(t, clock)
             holding == {i \in 1 .. 3 : <<before, same, after>>[i]}
  <2>1. /\ before \/ same \/ after
        /\ ~(before /\ same) /\ ~(before /\ after) /\ ~(same /\ after)
    BY <1>3 DEF IsLess, IsEqual, IsSpecial
  <2> HIDE DEF before, same, after
  <2>2. 1 .. 3 = {1, 2, 3}
    OBVIOUS
  <2>3. holding = {i \in {1, 2, 3} : (i = 1 /\ before) \/ (i = 2 /\ same) \/ (i = 3 /\ after)}
    BY <2>2
  <2>4. \E i \in {1, 2, 3} : holding = {i}
    BY <2>1, <2>3
  <2> QED BY <2>4, FS_Singleton DEF before, same, after
<1>5. IsAtLeast(clock, t) = IsAtMost(t, clock)
  BY <1>3 DEF IsAtLeast, IsAtMost, IsLess, IsEqual, IsSpecial
<1>6. ASSUME NEW u \in ClockValues, IsAtMost(clock, t), IsAtMost(t, u)
      PROVE  IsAtMost(clock, u)
  <2>1. u.type \in Int /\ u.at \in Int
    BY <1>1, TickTypes
  <2> QED BY <1>3, <1>6, <2>1 DEF IsAtMost, IsLess, IsEqual, IsSpecial, NORMAL
<1>7. (DateAtLeast(clock, t) # IsAtLeast(clock, t)) = (clock.type # t.type)
  BY <1>3 DEF DateAtLeast, IsAtLeast, IsSpecial
<1> QED BY <1>4, <1>5, <1>6, <1>7

(* Every number is that of a day. *)
MarchDays == 0 .. 365
IsMarchDay(s, y, doy) == s = MarchNumber(y, doy) /\ HasMarchDay(y, doy)

LEMMA MarchDayOfNumber ==
  ASSUME NEW s \in Int
  PROVE  \E y \in Int, doy \in MarchDays : IsMarchDay(s, y, doy)
<1>1. PICK era \in Int, doe \in Nat : s = 146097 * era + doe /\ doe <= 146096
  <2>1. s = 146097 * (s \div 146097) + (s % 146097) /\ (s \div 146097) \in Int
        /\ (s % 146097) \in Nat /\ (s % 146097) <= 146096
    BY SMT
  <2> QED BY <2>1, SMT
<1>2. PICK c \in 0 .. 3, ofCentury \in Nat :
        doe = 36524 * c + ofCentury /\ ofCentury <= 36524 /\ (ofCentury = 36524 => c = 3)
  <2>1. CASE doe = 146096
    <3>1. 3 \in 0 .. 3 /\ 36524 \in Nat /\ doe = 36524 * 3 + 36524
      BY <2>1, SMT
    <3> QED BY <3>1, SMT
  <2>2. CASE doe < 146096
    <3>1. doe = 36524 * (doe \div 36524) + (doe % 36524) /\ (doe \div 36524) \in Int
          /\ (doe % 36524) \in Nat /\ (doe % 36524) < 36524
      BY SMT
    <3> DEFINE k == doe \div 36524
               l == doe % 36524
    <3>2. k \in Int /\ l \in Nat /\ l < 36524 /\ doe = 36524 * k + l
      BY <3>1
    <3> HIDE DEF k, l
    <3>3. k \in 0 .. 3
      BY <2>2, <3>2, SMT
    <3>4. l <= 36524 /\ l # 36524
      BY <3>2, SMT
    <3> QED BY <3>2, <3>3, <3>4
  <2> QED BY <1>1, <2>1, <2>2, SMT
<1>3. PICK q \in 0 .. 24, ofCycle \in 0 .. 1460 :
        ofCentury = 1461 * q + ofCycle /\ (ofCycle = 1460 /\ q = 24 => c = 3)
  <2>1. (ofCentury \div 1461) \in 0 .. 24 /\ (ofCentury % 1461) \in 0 .. 1460
        /\ ofCentury = 1461 * (ofCentury \div 1461) + (ofCentury % 1461)
    BY <1>2, SMT
  <2>2. (ofCentury % 1461) = 1460 /\ (ofCentury \div 1461) = 24 => c = 3
    BY <1>2, <2>1, SMT
  <2> DEFINE k == ofCentury \div 1461
             l == ofCentury % 1461
  <2>3. k \in 0 .. 24 /\ l \in 0 .. 1460 /\ ofCentury = 1461 * k + l /\ (l = 1460 /\ k = 24 => c = 3)
    BY <2>1, <2>2
  <2> HIDE DEF k, l
  <2> QED BY <2>3, SMT
<1>4. PICK r \in 0 .. 3, doy \in 0 .. 365 :
        ofCycle = 365 * r + doy /\ (doy = 365 => ofCycle = 1460 /\ r = 3)
  <2>1. CASE ofCycle = 1460
    <3>1. 3 \in 0 .. 3 /\ 365 \in 0 .. 365 /\ ofCycle = 365 * 3 + 365
      BY <2>1
    <3> QED BY <2>1, <3>1
  <2>2. CASE ofCycle < 1460
    <3>1. (ofCycle \div 365) \in 0 .. 3 /\ (ofCycle % 365) \in 0 .. 364
          /\ ofCycle = 365 * (ofCycle \div 365) + (ofCycle % 365)
      BY <2>2
    <3>2. (ofCycle % 365) \in 0 .. 365 /\ (ofCycle % 365) # 365
      BY <3>1
    <3> QED BY <3>1, <3>2
  <2> QED BY <2>1, <2>2
<1>5. PICK y \in Int : y = 400 * era + 100 * c + 4 * q + r
  OBVIOUS
<1>6. LeapYearsUntil(y) = 97 * era + 24 * c + q /\ (IsLeapYear(y + 1) <=> r = 3 /\ (q # 24 \/ c = 3))
  <2>1. y \div 4 = 100 * era + 25 * c + q /\ y \div 100 = 4 * era + c /\ y \div 400 = era
    BY <1>5
  <2>2. /\ (y + 1) % 4 = 0 <=> r = 3
        /\ (y + 1) % 100 = 0 <=> r = 3 /\ q = 24
        /\ (y + 1) % 400 = 0 <=> r = 3 /\ q = 24 /\ c = 3
    BY <1>5
  <2>3. LeapYearsUntil(y) = 97 * era + 24 * c + q
    BY <2>1 DEF LeapYearsUntil
  <2>4. IsLeapYear(y + 1) <=> r = 3 /\ (q # 24 \/ c = 3)
    BY <2>2 DEF IsLeapYear
  <2> QED BY <2>3, <2>4
<1>7. 365 * y + LeapYearsUntil(y) + doy = s
  BY <1>1, <1>2, <1>3, <1>4, <1>5, <1>6, SMT
<1>8. s = MarchNumber(y, doy)
  BY <1>7 DEF MarchNumber
<1>9. HasMarchDay(y, doy)
  BY <1>3, <1>4, <1>6 DEF HasMarchDay
<1>10. IsMarchDay(s, y, doy) /\ doy \in MarchDays
  BY <1>8, <1>9 DEF IsMarchDay, MarchDays
<1> QED BY <1>10

LEMMA NumberAndDay ==
  ASSUME NEW n \in Int
  PROVE  LET ymd == from_days(n)
         IN /\ ymd.year \in Int /\ ymd.month \in 1 .. 12 /\ ymd.day \in Int
            /\ to_days(ymd.year, ymd.month, ymd.day) = n
<1>1. n + 719468 \in Int
  BY SMT
<1> DEFINE s == n + 719468
<1>0. s \in Int /\ s = n + 719468
  BY <1>1
<1>13. s \in Int
  BY <1>0
<1> HIDE DEF s
<1>11. PICK y \in Int, doy \in MarchDays : IsMarchDay(s, y, doy)
  BY <1>13, MarchDayOfNumber, Zenon
<1>14. doy \in 0 .. 365
  BY DEF MarchDays
<1>12. s = MarchNumber(y, doy) /\ HasMarchDay(y, doy)
  BY <1>11, Zenon DEF IsMarchDay
<1>2. s = MarchNumber(y, doy) /\ n + 719468 = s
  BY <1>0, <1>12
<1> DEFINE mp == Quotient(5 * doy + 2, 153)
           begin == Quotient(153 * mp + 2, 5)
           Y == IF mp < 10 THEN y ELSE y + 1
           M == IF mp < 10 THEN mp + 3 ELSE mp - 9
           D == doy - begin + 1
<1>3. mp \in 0 .. 11
  BY <1>14 DEF Quotient
<1>4. begin \in Int
  BY <1>3 DEF Quotient
<1>5. MarchNumber(y, doy) = EraNumber(y, doy) /\ SinceMarch(MarchNumber(y, doy)) = InYear(y, doy)
  BY <1>12, <1>14, MarchYears, Zenon
<1>6. from_days(n) = [year |-> Y, month |-> M, day |-> D]
  BY <1>2, <1>5, <1>14, SMT DEF from_days, InYear, InMonth
<1> HIDE DEF mp, begin
<1>7. Y \in Int /\ M \in 1 .. 12 /\ D \in Int
  BY <1>3, <1>4, <1>14
<1>8. /\ (IF M <= 2 THEN Y - 1 ELSE Y) = y
      /\ (IF M > 2 THEN M - 3 ELSE M + 9) = mp
      /\ begin + D - 1 = doy
  BY <1>3, <1>4, <1>14
<1> HIDE DEF Y, M, D
<1>9. to_days(Y, M, D) = EraNumber(y, doy) - 719468
  <2>1. to_days(Y, M, D) = EraNumber(MarchYear(Y, M), MarchDay(M, D)) - 719468
    BY <1>7, ToDays, SMT
  <2>2. MarchYear(Y, M) = y
    BY <1>8 DEF MarchYear
  <2>3. MarchDay(M, D) = doy
    BY <1>8 DEF MarchDay, begin
  <2> QED BY <2>1, <2>2, <2>3, SMT
<1>10. to_days(Y, M, D) = n
  <2>1. EraNumber(y, doy) = n + 719468
    BY <1>2, <1>5
  <2> QED BY <1>9, <2>1, SMT
<1> QED BY <1>6, <1>7, <1>10

(* Division by a number of ticks: its quotient and remainder, and no other. *)
LEMMA Division ==
  ASSUME NEW a \in Nat, NEW b \in Nat \ {0}
  PROVE  \E q \in Nat, r \in Nat : a = b * q + r /\ r < b /\ a \div b = q /\ a % b = r
<1>1. (a \div b) \in Nat /\ (a % b) \in Nat /\ (a % b) < b /\ a = b * (a \div b) + (a % b)
  BY SMT
<1> QED BY <1>1

LEMMA QuotientIs ==
  ASSUME NEW a \in Int, NEW b \in Nat \ {0}, NEW q \in Int, NEW r \in Nat, a = b * q + r, r < b
  PROVE  a \div b = q /\ a % b = r
<1>1. (a \div b) \in Int /\ (a % b) \in Nat /\ (a % b) < b /\ a = b * (a \div b) + (a % b)
  BY SMT
<1>2. PICK k \in Int, s \in Nat : a \div b = k /\ a % b = s /\ s < b /\ a = b * k + s
  BY <1>1
<1>3. b * (k - q) = r - s
  BY <1>2
<1>4. k = q
  <2>1. k > q => b * (k - q) >= b
    BY SMT
  <2>2. k < q => b * (q - k) >= b
    BY SMT
  <2>3. b * (q - k) = s - r
    BY <1>2
  <2> QED BY <1>2, <1>3, <2>1, <2>2, <2>3
<1> QED BY <1>2, <1>4

(* What is divided by a number of ticks and then by a number is divided by both. *)
LEMMA Quotients ==
  ASSUME NEW a \in Nat, NEW b \in Nat \ {0}, NEW n \in Nat \ {0}
  PROVE  a \div (n * b) = (a \div b) \div n
<1>1. PICK q \in Nat, r \in Nat : a = b * q + r /\ r < b /\ a \div b = q
  BY Division
<1>2. PICK p \in Nat, s \in Nat : q = n * p + s /\ s < n /\ q \div n = p
  BY Division
<1>3. n * b \in Nat \ {0}
  BY SMT
<1>4. a = (n * b) * p + (b * s + r)
  <2>1. b * (n * p + s) = (n * b) * p + b * s
    BY SMT
  <2> QED BY <1>1, <1>2, <2>1, SMT
<1>5. b * s + r \in Nat /\ b * s + r < n * b
  <2>1. b * s \in Nat /\ b * (s + 1) <= b * n
    BY <1>2, SMT
  <2> QED BY <1>1, <2>1, SMT
<1>6. a \div (n * b) = p
  BY <1>3, <1>4, <1>5, QuotientIs
<1> QED BY <1>1, <1>2, <1>6

\* The hours, minutes, seconds and ticks in a number of ticks.
LEMMA PartsOfTicks ==
  ASSUME NEW a \in Nat
  PROVE  LET d == AtTime(a)
         IN /\ HoursIn(d) \in Nat /\ MinutesIn(d) \in 0 .. 59 /\ SecondsIn(d) \in 0 .. 59
            /\ fractional_seconds(d) = a % Ticks
            /\ (a % Ticks) \in Nat /\ (a % Ticks) < Ticks /\ (a \div Ticks) \in Nat
            /\ a = Ticks * (a \div Ticks) + (a % Ticks)
            /\ HoursIn(d) * Hour + MinutesIn(d) * 60 * Ticks + SecondsIn(d) * Ticks
                 = Ticks * (a \div Ticks)
<1>1. Ticks \in Nat \ {0}
  BY ReckoningAssumption
<1>2. PICK t \in Nat, f \in Nat : a = Ticks * t + f /\ f < Ticks /\ a \div Ticks = t /\ a % Ticks = f
  BY <1>1, Division
<1> DEFINE d == AtTime(a)
           h == t \div 3600
           k == t \div 60
<1>3. 60 * Ticks \in Nat \ {0} /\ Hour \in Nat \ {0}
  BY <1>1 DEF Hour
<1>4. a \div (60 * Ticks) = k /\ a \div (3600 * Ticks) = h
  <2>1. a \div (60 * Ticks) = (a \div Ticks) \div 60
    BY <1>1, Quotients
  <2>2. a \div (3600 * Ticks) = (a \div Ticks) \div 3600
    BY <1>1, Quotients
  <2> QED BY <1>2, <2>1, <2>2
<1>5. Whole(d, Ticks) = t /\ Whole(d, 60 * Ticks) = k /\ Whole(d, Hour) = h
  BY <1>2, <1>3, <1>4 DEF Whole, Quotient, AtTime, Hour
<1>6. h \in Nat /\ k \in Nat /\ k - 60 * h \in 0 .. 59 /\ t - 60 * k \in 0 .. 59
      /\ 3600 * h + 60 * (k - 60 * h) + (t - 60 * k) = t
  BY <1>2
<1> HIDE DEF h, k
<1>7. HoursIn(d) = h /\ MinutesIn(d) = k - 60 * h /\ SecondsIn(d) = t - 60 * k
  BY <1>5 DEF HoursIn, MinutesIn, SecondsIn
<1>8. fractional_seconds(d) = f
  <2>1. fractional_seconds(d) = a - Ticks * t
    BY <1>5 DEF fractional_seconds, AtTime
  <2>2. Ticks * t \in Int
    BY <1>1
  <2> QED BY <1>2, <2>1, <2>2
<1>9. h * Hour + (k - 60 * h) * 60 * Ticks + (t - 60 * k) * Ticks = Ticks * t
  <2>1. PICK m \in Int, s \in Int : m = k - 60 * h /\ s = t - 60 * k /\ 3600 * h + 60 * m + s = t
    BY <1>6, <1>2
  <2>2. h * (3600 * Ticks) + m * 60 * Ticks + s * Ticks = (3600 * h + 60 * m + s) * Ticks
    BY <1>1, <1>6, <2>1
  <2> QED BY <1>1, <1>2, <2>1, <2>2 DEF Hour
<1> QED BY <1>2, <1>6, <1>7, <1>8, <1>9

\* What is divided of a negative number is what is divided of it without its sign.
LEMMA PartsOfNegative ==
  ASSUME NEW a \in Int, a < 0
  PROVE  LET d == AtTime(a)
             e == AtTime(-a)
         IN /\ HoursIn(d) = -HoursIn(e) /\ MinutesIn(d) = -MinutesIn(e)
            /\ SecondsIn(d) = -SecondsIn(e) /\ fractional_seconds(d) = -fractional_seconds(e)
<1> DEFINE d == AtTime(a)
           e == AtTime(-a)
<1>1. Ticks \in Nat \ {0} /\ 60 * Ticks \in Nat \ {0} /\ Hour \in Nat \ {0} /\ -a \in Nat
  BY ReckoningAssumption DEF Hour
<1>2. ASSUME NEW b \in Nat \ {0} PROVE Whole(d, b) = -Whole(e, b) /\ Whole(e, b) \in Int
  <2>1. (-a) \div b \in Int /\ Quotient(-a, b) = (-a) \div b /\ Quotient(a, b) = -((-a) \div b)
    BY <1>1 DEF Quotient
  <2> QED BY <2>1 DEF Whole, AtTime
<1>3. /\ Whole(d, Ticks) = -Whole(e, Ticks) /\ Whole(e, Ticks) \in Int
      /\ Whole(d, 60 * Ticks) = -Whole(e, 60 * Ticks) /\ Whole(e, 60 * Ticks) \in Int
      /\ Whole(d, Hour) = -Whole(e, Hour) /\ Whole(e, Hour) \in Int
  BY <1>1, <1>2
<1>4. Ticks * (-Whole(e, Ticks)) = -(Ticks * Whole(e, Ticks)) /\ Ticks * Whole(e, Ticks) \in Int
  BY <1>1, <1>3
<1>5. d.at = a /\ e.at = -a
  BY DEF AtTime
<1> HIDE DEF d, e
<1>6. HoursIn(d) = -HoursIn(e) /\ MinutesIn(d) = -MinutesIn(e) /\ SecondsIn(d) = -SecondsIn(e)
  BY <1>3 DEF HoursIn, MinutesIn, SecondsIn
<1>7. fractional_seconds(d) = -fractional_seconds(e)
  BY <1>3, <1>4, <1>5 DEF fractional_seconds
<1> QED BY <1>6, <1>7 DEF d, e

\* n is h hours, m minutes, s seconds and f ticks, of t whole seconds.
HasParts(n, h, m, s, f, t) ==
  /\ h = HoursIn(AtTime(n)) /\ m = MinutesIn(AtTime(n)) /\ s = SecondsIn(AtTime(n))
  /\ f = fractional_seconds(AtTime(n)) /\ n = Ticks * t + f
  /\ h * Hour + m * 60 * Ticks + s * Ticks = Ticks * t

LEMMA PartsThere ==
  ASSUME NEW n \in Nat
  PROVE  \E h \in Nat, m \in 0 .. 59, s \in 0 .. 59, f \in Nat, t \in Nat : HasParts(n, h, m, s, f, t)
<1> DEFINE h == HoursIn(AtTime(n))
           m == MinutesIn(AtTime(n))
           s == SecondsIn(AtTime(n))
           f == fractional_seconds(AtTime(n))
           t == n \div Ticks
<1>1. /\ h \in Nat /\ m \in 0 .. 59 /\ s \in 0 .. 59 /\ f = n % Ticks
      /\ (n % Ticks) \in Nat /\ t \in Nat /\ n = Ticks * t + (n % Ticks)
      /\ h * Hour + m * 60 * Ticks + s * Ticks = Ticks * t
  BY PartsOfTicks
<1>2. f \in Nat /\ n = Ticks * t + f
  <2> HIDE DEF h, m, s, f, t
  <2> QED BY <1>1
<1>3. HasParts(n, h, m, s, f, t)
  BY <1>1, <1>2, Zenon DEF HasParts
<1> HIDE DEF h, m, s, f, t
<1> QED BY <1>1, <1>2, <1>3, Zenon

LEMMA DurationFromParts ==
  ASSUME NEW a \in Int
  PROVE  LET d == AtTime(a)
         IN /\ TimeDuration(HoursIn(d), MinutesIn(d), SecondsIn(d), fractional_seconds(d)) = d
            /\ MinutesIn(d) \in -59 .. 59 /\ SecondsIn(d) \in -59 .. 59
            /\ a >= 0 => HoursIn(d) >= 0 /\ MinutesIn(d) >= 0 /\ SecondsIn(d) >= 0 /\ fractional_seconds(d) >= 0
            /\ a < 0 => HoursIn(d) <= 0 /\ MinutesIn(d) <= 0 /\ SecondsIn(d) <= 0 /\ fractional_seconds(d) <= 0
<1> DEFINE d == AtTime(a)
<1>1. Ticks \in Nat \ {0} /\ Hour \in Nat \ {0}
  BY ReckoningAssumption DEF Hour
<1>2. CASE a >= 0
  <2>1. a \in Nat
    BY <1>2
  <2>2. PICK h \in Nat, m \in 0 .. 59, s \in 0 .. 59, f \in Nat, t \in Nat : HasParts(a, h, m, s, f, t)
    BY <2>1, PartsThere
  <2>3. h = HoursIn(d) /\ m = MinutesIn(d) /\ s = SecondsIn(d) /\ f = fractional_seconds(d)
        /\ a = Ticks * t + f /\ h * Hour + m * 60 * Ticks + s * Ticks = Ticks * t
    BY <2>2, Zenon DEF HasParts
  <2>4. h * Hour + m * 60 * Ticks + s * Ticks + f = a
    BY <2>3
  <2>5. TimeDuration(h, m, s, f) = d
    BY <2>4, Zenon DEF TimeDuration
  <2>6. /\ h >= 0 /\ m >= 0 /\ s >= 0 /\ f >= 0
        /\ m \in -59 .. 59 /\ s \in -59 .. 59
    OBVIOUS
  <2>7. ~(a < 0)
    BY <1>2
  <2> HIDE DEF d
  <2> QED BY <2>3, <2>5, <2>6, <2>7, Zenon DEF d
<1>3. CASE a < 0
  <2>1. -a \in Nat
    BY <1>3
  <2>2. PICK h \in Nat, m \in 0 .. 59, s \in 0 .. 59, f \in Nat, t \in Nat : HasParts(-a, h, m, s, f, t)
    BY <2>1, PartsThere
  <2>3. h = HoursIn(AtTime(-a)) /\ m = MinutesIn(AtTime(-a)) /\ s = SecondsIn(AtTime(-a))
        /\ f = fractional_seconds(AtTime(-a))
        /\ -a = Ticks * t + f /\ h * Hour + m * 60 * Ticks + s * Ticks = Ticks * t
    BY <2>2, Zenon DEF HasParts
  <2>4. HoursIn(d) = -h /\ MinutesIn(d) = -m /\ SecondsIn(d) = -s /\ fractional_seconds(d) = -f
    BY <1>3, <2>3, PartsOfNegative, Zenon
  <2>5. (-h) * Hour + (-m) * 60 * Ticks + (-s) * Ticks + (-f) = a
    <3>1. (-h) * Hour + (-m) * 60 * Ticks + (-s) * Ticks = -(h * Hour + m * 60 * Ticks + s * Ticks)
      BY <1>1
    <3>2. Ticks * t \in Int
      BY <1>1
    <3> QED BY <2>3, <3>1, <3>2
  <2>6. TimeDuration(-h, -m, -s, -f) = d
    BY <2>5, Zenon DEF TimeDuration
  <2>7. /\ -h <= 0 /\ -m <= 0 /\ -s <= 0 /\ -f <= 0
        /\ -m \in -59 .. 59 /\ -s \in -59 .. 59
    OBVIOUS
  <2>8. ~(a >= 0)
    BY <1>3
  <2> HIDE DEF d
  <2> QED BY <2>4, <2>6, <2>7, <2>8, Zenon DEF d
<1> QED BY <1>2, <1>3

LEMMA SoundParts == ReckoningInv => PartsMakeTheWhole
<1> SUFFICES ASSUME ReckoningInv PROVE PartsMakeTheWhole
  OBVIOUS
<1>0. lapse \in Values /\ clock \in Values
  BY DEF ReckoningInv
<1>1. Ticks \in Nat \ {0} /\ TicksInDay = 86400 * Ticks
  BY ReckoningAssumption DEF TicksInDay, Hour
<1>2. ASSUME ~IsSpecial(lapse)
      PROVE  LET parts == <<HoursIn(lapse), MinutesIn(lapse), SecondsIn(lapse), fractional_seconds(lapse)>>
             IN /\ TimeDuration(parts[1], parts[2], parts[3], parts[4]) = lapse
                /\ parts[2] \in -59 .. 59 /\ parts[3] \in -59 .. 59
                /\ \A i \in 1 .. 4 : IF lapse.at >= 0 THEN parts[i] >= 0 ELSE parts[i] <= 0
  <2>1. PICK a \in Int : lapse = AtTime(a) /\ lapse.at = a
    BY <1>0, <1>2, ValueParts
  <2>2. /\ TimeDuration(HoursIn(lapse), MinutesIn(lapse), SecondsIn(lapse), fractional_seconds(lapse)) = lapse
        /\ MinutesIn(lapse) \in -59 .. 59 /\ SecondsIn(lapse) \in -59 .. 59
        /\ a >= 0 => /\ HoursIn(lapse) >= 0 /\ MinutesIn(lapse) >= 0 /\ SecondsIn(lapse) >= 0
                     /\ fractional_seconds(lapse) >= 0
        /\ a < 0 => /\ HoursIn(lapse) <= 0 /\ MinutesIn(lapse) <= 0 /\ SecondsIn(lapse) <= 0
                    /\ fractional_seconds(lapse) <= 0
    BY <2>1, DurationFromParts
  <2>3. 1 .. 4 = {1, 2, 3, 4}
    OBVIOUS
  <2> QED BY <2>1, <2>2, <2>3
<1>3. ASSUME ~IsSpecial(clock)
      PROVE  LET day == DateOf(clock)
                 inDay == TimeOfDayOf(clock)
                 tm == as_tm(clock)
                 second == AtTime(clock.at - (clock.at % Ticks))
             IN /\ DateTime(day, inDay) = clock /\ inDay.at \in 0 .. TicksInDay - 1
                /\ from_tm(tm) = second
                /\ tm.tm_wday = ((day.at + 3) % 7) + 1 /\ Date_tm_wday(day.at) = (day.at + 3) % 7
                /\ DateTime_from_time_t(as_time_t(clock)) =
                     IF clock.at >= 0 \/ second = clock THEN second ELSE AtTime(second.at + Ticks)
  <2>1. PICK a \in Int : clock = AtTime(a) /\ clock.at = a
    BY <1>0, <1>3, ValueParts
  <2>2. PICK n \in Int, rest \in Nat : /\ n = a \div TicksInDay /\ rest < TicksInDay
                                       /\ a = TicksInDay * n + rest
    <3>1. TicksInDay \in Nat \ {0}
      BY <1>1
    <3>2. (a \div TicksInDay) \in Int /\ (a % TicksInDay) \in Nat /\ (a % TicksInDay) < TicksInDay
          /\ a = TicksInDay * (a \div TicksInDay) + (a % TicksInDay)
      BY <3>1, SMT
    <3> QED BY <3>2
  <2>3. PICK t \in Nat, f \in Nat : rest = Ticks * t + f /\ f < Ticks /\ rest \div Ticks = t /\ rest % Ticks = f
    BY <1>1, Division
  <2>4. TicksInDay * n \in Int /\ Ticks * t \in Int
    BY <1>1
  <2>5. DateOf(clock) = AtTime(n) /\ DateOf(clock).at = n
    BY <2>1, <2>2 DEF DateOf, AtTime
  <2>6. TimeOfDayOf(clock) = AtTime(rest) /\ TimeOfDayOf(clock).at = rest
    <3>1. TimeOfDayOf(clock) = AtTime(a - TicksInDay * n)
      BY <2>1, <2>5 DEF TimeOfDayOf
    <3>2. a - TicksInDay * n = rest
      BY <2>2, <2>4
    <3> QED BY <3>1, <3>2 DEF AtTime
  <2>7. DateTime(AtTime(n), AtTime(rest)) = clock /\ rest \in 0 .. TicksInDay - 1
    BY <1>1, <2>1, <2>2 DEF DateTime, AtTime
  <2>8. a = Ticks * (86400 * n + t) + f /\ 86400 * n + t \in Int
    <3>1. Ticks * (86400 * n + t) = (86400 * Ticks) * n + Ticks * t
      BY <1>1, SMT
    <3>2. TicksInDay * n + Ticks * t + f = a
      BY <2>2, <2>3, <2>4
    <3> QED BY <1>1, <2>4, <3>1, <3>2, SMT
  <2>9. a % Ticks = f /\ a \div Ticks = 86400 * n + t
    BY <1>1, <2>3, <2>8, QuotientIs
  <2>10. from_tm(as_tm(clock)) = AtTime(a - f)
    <3> DEFINE ymd == from_days(n)
               d == AtTime(rest)
               tm == as_tm(clock)
    <3>1. /\ ymd.year \in Int /\ ymd.month \in 1 .. 12 /\ ymd.day \in Int
          /\ to_days(ymd.year, ymd.month, ymd.day) = n
      BY NumberAndDay
    <3>2. /\ HoursIn(d) \in Nat /\ MinutesIn(d) \in 0 .. 59 /\ SecondsIn(d) \in 0 .. 59
          /\ HoursIn(d) * Hour + MinutesIn(d) * 60 * Ticks + SecondsIn(d) * Ticks = Ticks * t
      BY <2>3, PartsOfTicks
    <3>3. /\ tm.tm_year = ymd.year - 1900 /\ tm.tm_mon = ymd.month - 1 /\ tm.tm_mday = ymd.day
          /\ tm.tm_hour = HoursIn(d) /\ tm.tm_min = MinutesIn(d) /\ tm.tm_sec = SecondsIn(d)
      BY <2>5, <2>6 DEF as_tm
    <3> HIDE DEF tm, ymd
    <3>4. tm.tm_year + 1900 = ymd.year /\ tm.tm_mon + 1 = ymd.month
      BY <3>1, <3>3
    <3>5. from_tm(tm) = DateTime(AtTime(n), TimeDuration(HoursIn(d), MinutesIn(d), SecondsIn(d), 0))
      BY <3>1, <3>3, <3>4 DEF from_tm
    <3>6. TimeDuration(HoursIn(d), MinutesIn(d), SecondsIn(d), 0) = AtTime(Ticks * t)
      <4>1. HoursIn(d) * Hour + MinutesIn(d) * 60 * Ticks + SecondsIn(d) * Ticks + 0 = Ticks * t
        BY <2>4, <3>2
      <4> QED BY <4>1 DEF TimeDuration
    <3>7. from_tm(tm) = AtTime(TicksInDay * n + Ticks * t)
      BY <3>5, <3>6 DEF DateTime, AtTime
    <3>8. TicksInDay * n + Ticks * t = a - f
      BY <2>2, <2>3, <2>4
    <3> QED BY <3>7, <3>8 DEF tm
  <2>11. as_tm(clock).tm_wday = ((n + 3) % 7) + 1 /\ Date_tm_wday(n) = (n + 3) % 7
    <3>1. iso_encoding(weekday_from_days(n)) = ((n + 3) % 7) + 1
      BY Weekdays
    <3>2. as_tm(clock).tm_wday = iso_encoding(weekday_from_days(n))
      BY <2>5 DEF as_tm
    <3>3. Date_tm_wday(n) = (n + 3) % 7
      BY <3>1 DEF Date_tm_wday
    <3> QED BY <3>1, <3>2, <3>3
  <2>12. DateTime_from_time_t(as_time_t(clock)) =
           IF a >= 0 \/ AtTime(a - f) = clock THEN AtTime(a - f) ELSE AtTime((a - f) + Ticks)
    <3> DEFINE k == 86400 * n + t
    <3>0. k \in Int /\ a = Ticks * k + f /\ Ticks * k \in Int
      BY <1>1, <2>8
    <3>1. as_time_t(clock) = Quotient(a, Ticks)
      BY <2>1 DEF as_time_t
    <3>2. CASE a >= 0
      <4>1. Quotient(a, Ticks) = k
        BY <3>2, <2>9 DEF Quotient
      <4>2. DateTime_from_time_t(k) = AtTime(a - f)
        <5> HIDE DEF k
        <5>1. k * Ticks = a - f
          BY <1>1, <3>0
        <5> QED BY <5>1 DEF DateTime_from_time_t
      <4> QED BY <3>1, <3>2, <4>1, <4>2
    <3>3. CASE a < 0 /\ f = 0
      <4> HIDE DEF k
      <4>1. -a = Ticks * (-k) + 0 /\ -a \in Int /\ -k \in Int
        BY <1>1, <3>0, <3>3
      <4>2. (-a) \div Ticks = -k
        BY <1>1, <4>1, QuotientIs
      <4>3. Quotient(a, Ticks) = k
        BY <3>0, <3>3, <4>2 DEF Quotient
      <4>4. k * Ticks = a - f /\ a - f = a
        BY <1>1, <3>0, <3>3
      <4> QED BY <2>1, <3>1, <4>3, <4>4 DEF DateTime_from_time_t
    <3>4. CASE a < 0 /\ f # 0
      <4> HIDE DEF k
      <4>1. -a = Ticks * (-k - 1) + (Ticks - f)
        <5>1. Ticks * (-k - 1) = -(Ticks * k) - Ticks
          BY <1>1, <3>0
        <5> QED BY <1>1, <3>0, <5>1
      <4>2. -k - 1 \in Int /\ Ticks - f \in Nat /\ Ticks - f < Ticks /\ -a \in Int
        BY <1>1, <2>3, <3>0, <3>4
      <4>3. (-a) \div Ticks = -k - 1
        BY <1>1, <4>1, <4>2, QuotientIs
      <4>4. Quotient(a, Ticks) = k + 1
        BY <3>0, <3>4, <4>3 DEF Quotient
      <4>5. (k + 1) * Ticks = (a - f) + Ticks
        <5>1. (k + 1) * Ticks = Ticks * k + Ticks
          BY <1>1, <3>0
        <5> QED BY <1>1, <3>0, <5>1
      <4>6. AtTime(a - f) # clock
        <5>1. a - f # a
          BY <3>4
        <5> QED BY <2>1, <5>1 DEF AtTime
      <4> QED BY <3>1, <3>4, <4>4, <4>5, <4>6 DEF DateTime_from_time_t
    <3> QED BY <3>2, <3>3, <3>4
  <2>13. AtTime(a - f).at = a - f
    BY DEF AtTime
  <2> QED BY <2>1, <2>5, <2>6, <2>7, <2>9, <2>10, <2>11, <2>12, <2>13
<1> QED BY <1>2, <1>3 DEF PartsMakeTheWhole

LEMMA ReckoningIsExact == ReckoningInv => ReckoningIsSound
BY SoundTimes, SoundForms, SoundOrders, SoundParts DEF ReckoningIsSound

(* Times, durations and dates are reckoned with soundly, for every number of ticks in a
   second and all times and durations, whatever sequence of operations made them
   (DateTime.cpp:160-329, 397-460; TimeDuration.cpp:16-89, 204-260; Base.cpp:31-175).   *)
THEOREM ReckoningSound == ReckoningSpec => []ReckoningIsSound
<1>1. ReckoningSpec => []ReckoningInv
  BY ReckoningInitInv, ReckoningNextInv, PTL DEF ReckoningSpec
<1> QED BY <1>1, ReckoningIsExact, PTL
-----------------------------------------------------------------------------
(* LocalTime, for every zone. *)

LEMMA LeastOf ==
  ASSUME NEW n \in Nat, NEW T \in SUBSET (1 .. n), T # {}
  PROVE  \E m \in T : \A j \in T : m <= j
<1> DEFINE Below == {i \in 1 .. n : \A j \in T : i < j}
<1>1. \A i \in Below : \A j \in 1 .. i : j \in Below
  OBVIOUS
<1>2. PICK k \in 0 .. n : Below = 1 .. k
  <2>1. Below \in SUBSET (1 .. n)
    OBVIOUS
  <2> HIDE DEF Below
  <2> QED BY <2>1, <1>1, FirstNumbers
<1>3. \A j \in T : k < j
  <2>1. k = 0 \/ k \in Below
    BY <1>2
  <2> QED BY <2>1
<1>4. k + 1 \in 1 .. n /\ k + 1 \notin Below
  <2>1. PICK j \in T : k < j
    BY <1>3
  <2>2. j \in 1 .. n
    OBVIOUS
  <2>3. k + 1 \in 1 .. n /\ k + 1 \notin 1 .. k
    BY <2>1, <2>2
  <2> HIDE DEF Below
  <2> QED BY <2>3, <1>2
<1>5. PICK j \in T : ~(k + 1 < j)
  BY <1>4
<1> QED BY <1>3, <1>5

LEMMA ZoneParts ==
  ASSUME NEW zone \in Zones
  PROVE  /\ Len(zone) \in Nat \ {0} /\ DOMAIN zone = 1 .. Len(zone) /\ 1 \in DOMAIN zone
         /\ Day \in Nat \ {0} /\ EndOfTime \in Int
         /\ \A i \in 1 .. Len(zone) :
              /\ zone[i].at \in Int /\ zone[i].offset \in Int /\ zone[i].is_dst \in BOOLEAN
              /\ zone[i].at < EndOfTime
         /\ \A i \in 2 .. Len(zone) :
              /\ zone[i - 1].at + 2 * Day < zone[i].at
              /\ -Day <= zone[i].offset - zone[i - 1].offset
              /\ zone[i].offset - zone[i - 1].offset <= Day
<1>1. zone \in Seq(Transition) /\ zone # <<>> /\ Day \in Nat \ {0}
  BY ZoneAssumption
<1>2. Len(zone) \in Nat \ {0} /\ DOMAIN zone = 1 .. Len(zone)
  BY <1>1
<1>3. \A i \in 1 .. Len(zone) : zone[i] \in Transition
  BY <1>1
<1>4. \A i \in 1 .. Len(zone) :
        zone[i].at \in Int /\ zone[i].offset \in Int /\ zone[i].is_dst \in BOOLEAN
  BY <1>3 DEF Transition
<1>5. \A i \in 1 .. Len(zone) : zone[i].at < EndOfTime
  BY <1>2, ZoneAssumption
<1>6. \A i \in 2 .. Len(zone) :
        /\ zone[i].at - zone[i - 1].at > 2 * Day
        /\ zone[i].offset - zone[i - 1].offset \in -Day .. Day
  BY ZoneAssumption
<1>7. ASSUME NEW i \in 2 .. Len(zone)
      PROVE  /\ zone[i - 1].at + 2 * Day < zone[i].at
             /\ -Day <= zone[i].offset - zone[i - 1].offset
             /\ zone[i].offset - zone[i - 1].offset <= Day
  <2>1. i \in 1 .. Len(zone) /\ i - 1 \in 1 .. Len(zone)
    BY <1>2
  <2>2. PICK a \in Int, b \in Int, p \in Int, q \in Int, day \in Nat :
          /\ a = zone[i - 1].at /\ b = zone[i].at
          /\ p = zone[i - 1].offset /\ q = zone[i].offset /\ day = Day
    BY <1>1, <1>4, <2>1
  <2>3. b - a > 2 * day /\ q - p \in -day .. day
    BY <1>6, <2>2
  <2>4. a + 2 * day < b /\ -day <= q - p /\ q - p <= day
    BY <2>3
  <2> QED BY <2>2, <2>4
<1>8. EndOfTime \in Int
  BY DEF EndOfTime
<1> QED BY <1>1, <1>2, <1>4, <1>5, <1>6, <1>7, <1>8

(* Transitions ascend, and so do the local times at which they are. *)
Apart(zone, i, j) ==
  /\ zone[i].at + 2 * Day < zone[j].at
  /\ zone[i].at + zone[i].offset + Day < zone[j].at + zone[j].offset

LEMMA FurtherApart ==
  ASSUME NEW day \in Nat, NEW a \in Int, NEW b \in Int, NEW c \in Int,
         NEW p \in Int, NEW q \in Int, NEW r \in Int,
         a + 2 * day < b, b + 2 * day < c, a + p + day < b + q, b + q + day < c + r
  PROVE  a + 2 * day < c /\ a + p + day < c + r
OBVIOUS

LEMMA TwiceAfter ==
  ASSUME NEW day \in Nat \ {0}, NEW a \in Int, NEW b \in Int, a + 2 * day < b
  PROVE  a + 1 < b
OBVIOUS

LEMMA ApartMeansBefore ==
  ASSUME NEW day \in Nat, NEW a \in Int, NEW b \in Int, NEW p \in Int, NEW q \in Int,
         a + 2 * day < b, a + p + day < b + q
  PROVE  a < b /\ a + p < b + q
OBVIOUS

LEMMA Ascending ==
  ASSUME NEW zone \in Zones, NEW i \in 1 .. Len(zone), NEW j \in 1 .. Len(zone), i < j
  PROVE  /\ Apart(zone, i, j)
         /\ zone[i].at < zone[j].at
         /\ zone[i].at + zone[i].offset < zone[j].at + zone[j].offset
<1>0. /\ Day \in Nat \ {0}
      /\ \A l \in 1 .. Len(zone) : zone[l].at \in Int /\ zone[l].offset \in Int
  BY ZoneParts
<1>1. ASSUME NEW k \in 2 .. Len(zone) PROVE Apart(zone, k - 1, k)
  <2>1. k \in 1 .. Len(zone) /\ k - 1 \in 1 .. Len(zone)
    BY ZoneParts
  <2>2. zone[k - 1].at \in Int /\ zone[k].at \in Int /\ zone[k - 1].offset \in Int /\ zone[k].offset \in Int
    BY <2>1, ZoneParts
  <2>3. Day \in Nat \ {0} /\ zone[k - 1].at + 2 * Day < zone[k].at /\ -Day <= zone[k].offset - zone[k - 1].offset
    BY ZoneParts
  <2>4. PICK a \in Int, b \in Int, p \in Int, q \in Int, day \in Nat :
          /\ a = zone[k - 1].at /\ b = zone[k].at
          /\ p = zone[k - 1].offset /\ q = zone[k].offset /\ day = Day
    BY <2>2, <2>3
  <2>5. a + 2 * day < b /\ -day <= q - p
    BY <2>3, <2>4
  <2>6. a + p + day < b + q
    BY <2>5
  <2> QED BY <2>4, <2>5, <2>6 DEF Apart
<1> DEFINE Wrong == {k \in 1 .. Len(zone) : i < k /\ ~Apart(zone, i, k)}
<1>2. ASSUME Wrong # {} PROVE FALSE
  <2>3. PICK k \in Wrong : \A l \in Wrong : k <= l
    BY <1>2, LeastOf, ZoneParts
  <2>4. k \in 2 .. Len(zone) /\ k - 1 \in 1 .. Len(zone) /\ k - 1 \notin Wrong
    BY <2>3, ZoneParts
  <2>5. CASE k - 1 = i
    BY <1>1, <2>4, <2>5
  <2>6. CASE i < k - 1
    <3>1. Apart(zone, i, k - 1) /\ Apart(zone, k - 1, k)
      BY <1>1, <2>4, <2>6
    <3> HIDE DEF Wrong
    <3>2. /\ zone[i].at + 2 * Day < zone[k - 1].at
          /\ zone[k - 1].at + 2 * Day < zone[k].at
          /\ zone[i].at + zone[i].offset + Day < zone[k - 1].at + zone[k - 1].offset
          /\ zone[k - 1].at + zone[k - 1].offset + Day < zone[k].at + zone[k].offset
      BY <3>1 DEF Apart
    <3>3. /\ Day \in Nat
          /\ zone[i].at \in Int /\ zone[i].offset \in Int
          /\ zone[k - 1].at \in Int /\ zone[k - 1].offset \in Int
          /\ zone[k].at \in Int /\ zone[k].offset \in Int
      BY <1>0, <2>3, <2>4
    <3>4. PICK a \in Int, b \in Int, c \in Int, p \in Int, q \in Int, r \in Int, day \in Nat :
            /\ a = zone[i].at /\ b = zone[k - 1].at /\ c = zone[k].at
            /\ p = zone[i].offset /\ q = zone[k - 1].offset /\ r = zone[k].offset /\ day = Day
      BY <3>3
    <3>5. a + 2 * day < c /\ a + p + day < c + r
      <4>1. a + 2 * day < b /\ b + 2 * day < c /\ a + p + day < b + q /\ b + q + day < c + r
        BY <3>2, <3>4
      <4> QED BY <4>1
    <3>6. Apart(zone, i, k)
      BY <3>4, <3>5 DEF Apart
    <3> USE DEF Wrong
    <3> QED BY <3>6, <2>3
  <2> QED BY <2>3, <2>4, <2>5, <2>6, ZoneParts
<1>3. Apart(zone, i, j)
  BY <1>2
<1> QED
  <2>1. /\ zone[i].at \in Int /\ zone[i].offset \in Int /\ zone[j].at \in Int /\ zone[j].offset \in Int
    BY <1>0
  <2>2. /\ zone[i].at + 2 * Day < zone[j].at
        /\ zone[i].at + zone[i].offset + Day < zone[j].at + zone[j].offset
    BY <1>3 DEF Apart
  <2>3. Day \in Nat
    BY <1>0
  <2> QED BY <1>3, <2>1, <2>2, <2>3, ApartMeansBefore

LEMMA MinIs ==
  ASSUME NEW n \in Nat, NEW T \in SUBSET (1 .. n), NEW m \in T, \A j \in T : m <= j
  PROVE  Min(T) = m
<1>1. Min(T) \in T /\ \A j \in T : Min(T) <= j
  BY DEF Min
<1>2. PICK l \in T : l = Min(T)
  BY <1>1
<1>3. l \in Int /\ m \in Int /\ l <= m /\ m <= l
  BY <1>1, <1>2
<1>4. l = m
  BY <1>3
<1> QED BY <1>2, <1>4

(* upper_bound() of what comes after the k-th transition. *)
LEMMA UpperBoundIs ==
  ASSUME NEW zone \in Zones, NEW k \in 1 .. Len(zone), NEW T \in SUBSET (1 .. Len(zone)),
         \A i \in 1 .. Len(zone) : i \in T <=> k < i
  PROVE  UpperBound(zone, T) = k + 1
<1>0. Len(zone) \in Nat \ {0}
  BY ZoneParts
<1>1. CASE T = {}
  <2>1. k = Len(zone)
    BY <1>0, <1>1
  <2> QED BY <1>1, <2>1 DEF UpperBound
<1>2. CASE T # {}
  <2>0. PICK j \in T : TRUE
    BY <1>2
  <2>1. k + 1 \in T /\ \A i \in T : k + 1 <= i
    BY <1>0, <2>0
  <2> QED BY <1>0, <1>2, <2>1, MinIs DEF UpperBound
<1> QED BY <1>1, <1>2

(* An instant is in a period, which begins with a transition; and a local time is reached
   in the last period that begins at it or before.                                       *)
InPeriod(zone, k, at) ==
  zone[k].at <= at /\ (k < Len(zone) => at < zone[k + 1].at)
ReachedIn(zone, k, local) ==
  /\ zone[k].at + zone[k].offset <= local
  /\ k < Len(zone) => local < zone[k + 1].at + zone[k + 1].offset

LEMMA PeriodFound ==
  ASSUME NEW zone \in Zones, NEW at \in Int, zone[1].at <= at
  PROVE  \E k \in 1 .. Len(zone) : InPeriod(zone, k, at)
<1> DEFINE After == {i \in 1 .. Len(zone) : at < zone[i].at}
<1>0. Len(zone) \in Nat \ {0} /\ \A i \in 1 .. Len(zone) : zone[i].at \in Int
  BY ZoneParts
<1>1. CASE After = {}
  <2>1. \A i \in 1 .. Len(zone) : zone[i].at <= at
    BY <1>0, <1>1
  <2>2. Len(zone) \in 1 .. Len(zone) /\ zone[Len(zone)].at <= at
    BY <1>0, <2>1
  <2>3. ~ (Len(zone) < Len(zone))
    BY <1>0
  <2> QED BY <2>2, <2>3, Zenon DEF InPeriod
<1>2. CASE After # {}
  <2>1. PICK m \in After : \A j \in After : m <= j
    BY <1>0, <1>2, LeastOf
  <2>2. m - 1 \in 1 .. Len(zone) /\ m - 1 \notin After
    BY <1>0, <2>1
  <2>3. zone[m - 1].at <= at /\ at < zone[m].at /\ (m - 1) + 1 = m
    BY <1>0, <2>1, <2>2
  <2> QED BY <2>2, <2>3 DEF InPeriod
<1> QED BY <1>1, <1>2

LEMMA PeriodReached ==
  ASSUME NEW zone \in Zones, NEW local \in Int, zone[1].at + zone[1].offset <= local
  PROVE  \E k \in 1 .. Len(zone) : ReachedIn(zone, k, local)
<1> DEFINE After == {i \in 1 .. Len(zone) : local < zone[i].at + zone[i].offset}
<1>0. /\ Len(zone) \in Nat \ {0}
      /\ \A i \in 1 .. Len(zone) : zone[i].at \in Int /\ zone[i].offset \in Int
  BY ZoneParts
<1>1. CASE After = {}
  <2>1. \A i \in 1 .. Len(zone) : zone[i].at + zone[i].offset <= local
    BY <1>0, <1>1
  <2>2. Len(zone) \in 1 .. Len(zone) /\ zone[Len(zone)].at + zone[Len(zone)].offset <= local
    BY <1>0, <2>1
  <2>3. ~ (Len(zone) < Len(zone))
    BY <1>0
  <2> QED BY <2>2, <2>3, Zenon DEF ReachedIn
<1>2. CASE After # {}
  <2>1. PICK m \in After : \A j \in After : m <= j
    BY <1>0, <1>2, LeastOf
  <2>2. m - 1 \in 1 .. Len(zone) /\ m - 1 \notin After
    BY <1>0, <2>1
  <2>3. /\ zone[m - 1].at + zone[m - 1].offset <= local
        /\ local < zone[m].at + zone[m].offset /\ (m - 1) + 1 = m
    BY <1>0, <2>1, <2>2
  <2> QED BY <2>2, <2>3 DEF ReachedIn
<1> QED BY <1>1, <1>2

LEMMA InOnePeriod ==
  ASSUME NEW zone \in Zones, NEW k \in 1 .. Len(zone), NEW at \in Int, InPeriod(zone, k, at),
         NEW i \in 1 .. Len(zone)
  PROVE  /\ at < zone[i].at <=> k < i
         /\ zone[i].at <= at <=> i <= k
<1>0. /\ Len(zone) \in Nat \ {0} /\ Day \in Nat \ {0}
      /\ \A j \in 1 .. Len(zone) : zone[j].at \in Int
  BY ZoneParts
<1>1. i < k => zone[i].at < zone[k].at
  BY Ascending
<1>2. k < i => at < zone[i].at
  <2>1. SUFFICES ASSUME k < i PROVE at < zone[i].at
    OBVIOUS
  <2>2. k + 1 \in 1 .. Len(zone) /\ at < zone[k + 1].at
    BY <1>0, <2>1 DEF InPeriod
  <2>3. k + 1 = i \/ zone[k + 1].at < zone[i].at
    BY <1>0, <2>1, <2>2, Ascending
  <2> QED BY <1>0, <2>2, <2>3
<1>3. i <= k => zone[i].at <= at
  BY <1>0, <1>1 DEF InPeriod
<1> QED BY <1>0, <1>2, <1>3

LEMMA ReachedInOne ==
  ASSUME NEW zone \in Zones, NEW k \in 1 .. Len(zone), NEW local \in Int, ReachedIn(zone, k, local),
         NEW i \in 1 .. Len(zone)
  PROVE  local - zone[i].offset < zone[i].at <=> k < i
<1>0. /\ Len(zone) \in Nat \ {0} /\ Day \in Nat \ {0}
      /\ \A j \in 1 .. Len(zone) : zone[j].at \in Int /\ zone[j].offset \in Int
  BY ZoneParts
<1>1. i < k => zone[i].at + zone[i].offset < zone[k].at + zone[k].offset
  BY Ascending
<1>2. k < i => local < zone[i].at + zone[i].offset
  <2>1. SUFFICES ASSUME k < i PROVE local < zone[i].at + zone[i].offset
    OBVIOUS
  <2>2. k + 1 \in 1 .. Len(zone) /\ local < zone[k + 1].at + zone[k + 1].offset
    BY <1>0, <2>1 DEF ReachedIn
  <2>3. k + 1 = i \/ zone[k + 1].at + zone[k + 1].offset < zone[i].at + zone[i].offset
    BY <1>0, <2>1, <2>2, Ascending
  <2>7. zone[k + 1].at + zone[k + 1].offset \in Int /\ zone[i].at + zone[i].offset \in Int
    <3>1. /\ zone[k + 1].at \in Int /\ zone[k + 1].offset \in Int
          /\ zone[i].at \in Int /\ zone[i].offset \in Int
      BY <1>0, <2>2, Zenon
    <3> QED BY <3>1
  <2>4. PICK x \in Int, y \in Int :
          x = zone[k + 1].at + zone[k + 1].offset /\ y = zone[i].at + zone[i].offset
    BY <2>7, Zenon
  <2>5. local < x /\ (x = y \/ x < y)
    BY <2>2, <2>3, <2>4
  <2>6. local < y
    BY <2>5
  <2> QED BY <2>4, <2>6
<1>3. i <= k => zone[i].at + zone[i].offset <= local
  <2>1. zone[i].at + zone[i].offset \in Int /\ zone[k].at + zone[k].offset \in Int
    BY <1>0
  <2>2. PICK x \in Int, y \in Int :
          x = zone[i].at + zone[i].offset /\ y = zone[k].at + zone[k].offset
    BY <2>1, Zenon
  <2>3. y <= local
    BY <2>2 DEF ReachedIn
  <2>4. i < k => x < y
    BY <1>1, <2>2, Zenon
  <2>5. i = k => x = y
    BY <2>2, Zenon
  <2>6. i <= k => x <= local
    BY <1>0, <2>3, <2>4, <2>5
  <2> QED BY <2>2, <2>6, Zenon
<1> QED BY <1>0, <1>2, <1>3

(* What is known of the k-th period, and how it is found. *)
Info(zone, k) ==
  [begin |-> zone[k].at, offset |-> zone[k].offset, save |-> zone[k].is_dst,
   end |-> IF k < Len(zone) THEN zone[k + 1].at ELSE EndOfTime]

LEMMA InfoLoaded ==
  ASSUME NEW zone \in Zones, NEW k \in 1 .. Len(zone)
  PROVE  load_sys_info(zone, k + 1) = Info(zone, k) /\ load_sys_info(zone, 1) = Info(zone, 1)
<1>1. k + 1 # 1 /\ (k + 1) - 1 = k
  OBVIOUS
<1> QED BY <1>1, ZoneParts DEF load_sys_info, Info

LEMMA InfoOfInstant ==
  ASSUME NEW zone \in Zones, NEW k \in 1 .. Len(zone), NEW at \in Int, InPeriod(zone, k, at)
  PROVE  get_sys_info(zone, at) = Info(zone, k)
<1> DEFINE After == {i \in DOMAIN zone : at < zone[i].at}
<1>1. After \in SUBSET (1 .. Len(zone)) /\ \A i \in 1 .. Len(zone) : i \in After <=> k < i
  BY ZoneParts, InOnePeriod
<1>2. UpperBound(zone, After) = k + 1
  <2> HIDE DEF After
  <2> QED BY <1>1, UpperBoundIs
<1> QED BY <1>2, InfoLoaded DEF get_sys_info

LEMMA OffsetInPeriod ==
  ASSUME NEW zone \in Zones, NEW k \in 1 .. Len(zone), NEW at \in Int, InPeriod(zone, k, at)
  PROVE  OffsetAt(zone, at) = zone[k].offset
<1> DEFINE Gone == {i \in DOMAIN zone : zone[i].at <= at}
           Newest == CHOOSE i \in Gone : \A j \in Gone : j <= i
<1>1. Gone \subseteq 1 .. Len(zone) /\ k \in Gone /\ \A i \in Gone : i <= k
  BY ZoneParts, InOnePeriod
<1>2. Newest \in Gone /\ \A j \in Gone : j <= Newest
  <2> HIDE DEF Gone
  <2> QED BY <1>1
<1>3. Newest = k
  <2>1. PICK l \in Gone : l = Newest
    BY <1>2
  <2>2. l \in 1 .. Len(zone) /\ l <= k /\ k <= l
    <3> HIDE DEF Gone, Newest
    <3> QED BY <1>1, <1>2, <2>1
  <2>3. l = k
    BY <2>2
  <2> QED BY <2>1, <2>3
<1> QED BY <1>3 DEF OffsetAt

(* What the library knows of a local time that is reached in the k-th period: it was
   there a period before, or is left out at the end of this one.                      *)
IsTwice(zone, k, local)   == k > 1 /\ local - zone[k - 1].offset < zone[k].at
IsSkipped(zone, k, local) == k < Len(zone) /\ zone[k + 1].at <= local - zone[k].offset

InfoOfLocal(zone, k, local) ==
  IF IsTwice(zone, k, local)
  THEN [result |-> "ambiguous", first |-> Info(zone, k - 1), second |-> Info(zone, k)]
  ELSE IF IsSkipped(zone, k, local)
  THEN [result |-> "nonexistent", first |-> Info(zone, k), second |-> Info(zone, k + 1)]
  ELSE Unique(Info(zone, k))

\* With numbers only: t and p are the transition and the offset of the period, s and o
\* those of the one before, u of the one after.
LEMMA TwiceNumbers ==
  ASSUME NEW day \in Nat \ {0}, NEW local \in Int, NEW t \in Int, NEW p \in Int, NEW s \in Int, NEW o \in Int,
         t + p <= local, s + 2 * day < t, -day <= p - o, p - o <= day
  PROVE  /\ local - o < t => local - p < t + day
         /\ s <= local - o /\ (local - o < t => local - o < local - p)
OBVIOUS

LEMMA SkippedNumbers ==
  ASSUME NEW day \in Nat \ {0}, NEW local \in Int, NEW t \in Int, NEW p \in Int, NEW u \in Int,
         t + 2 * day < u, local - p < t + day
  PROVE  local - p < u
OBVIOUS

LEMMA LocalInfo ==
  ASSUME NEW zone \in Zones, NEW k \in 1 .. Len(zone), NEW local \in Int, ReachedIn(zone, k, local)
  PROVE  /\ get_local_info(zone, local) = InfoOfLocal(zone, k, local)
         /\ ~(IsTwice(zone, k, local) /\ IsSkipped(zone, k, local))
<1> DEFINE After == {i \in DOMAIN zone : local - zone[i].offset < zone[i].at}
<1>0. /\ Len(zone) \in Nat \ {0} /\ Day \in Nat \ {0} /\ EndOfTime \in Int
      /\ \A i \in 1 .. Len(zone) : zone[i].at \in Int /\ zone[i].offset \in Int /\ zone[i].at < EndOfTime
  BY ZoneParts
<1>1. After \in SUBSET (1 .. Len(zone)) /\ \A i \in 1 .. Len(zone) : i \in After <=> k < i
  BY ZoneParts, ReachedInOne
<1>2. UpperBound(zone, After) = k + 1
  <2> HIDE DEF After
  <2> QED BY <1>1, UpperBoundIs
<1> HIDE DEF After
<1>3. /\ load_sys_info(zone, k + 1) = Info(zone, k)
      /\ load_sys_info(zone, (k + 1) - 1) = IF k = 1 THEN Info(zone, 1) ELSE Info(zone, k - 1)
      /\ k < Len(zone) => load_sys_info(zone, (k + 1) + 1) = Info(zone, k + 1)
      /\ k + 1 # 1
  <2>1. k > 1 => k - 1 \in 1 .. Len(zone) /\ (k + 1) - 1 = (k - 1) + 1
    BY <1>0
  <2>2. k = 1 => (k + 1) - 1 = 1
    OBVIOUS
  <2>3. k < Len(zone) => k + 1 \in 1 .. Len(zone)
    BY <1>0
  <2> QED BY <2>1, <2>2, <2>3, <1>0, InfoLoaded
<1>4. PICK t \in Int, p \in Int : t = zone[k].at /\ p = zone[k].offset
  BY <1>0
<1>5. /\ Info(zone, k).begin = t /\ Info(zone, k).offset = p
      /\ Info(zone, k).end = IF k < Len(zone) THEN zone[k + 1].at ELSE EndOfTime
      /\ Info(zone, k).end \in Int
  BY <1>0, <1>4 DEF Info
<1>6. ASSUME k > 1
      PROVE  /\ Info(zone, k - 1).end = t /\ Info(zone, k).end # t
             /\ Info(zone, k - 1).offset = zone[k - 1].offset
             /\ zone[k - 1].offset \in Int
             /\ local - zone[k - 1].offset < t => local - p < t + Day
  <2>1. k - 1 \in 1 .. Len(zone) /\ (k - 1) + 1 = k /\ k \in 2 .. Len(zone) /\ k - 1 < Len(zone)
    BY <1>0, <1>6
  <2>2. Info(zone, k - 1).end = t /\ Info(zone, k - 1).offset = zone[k - 1].offset
    BY <1>4, <2>1 DEF Info
  <2>3. Info(zone, k).end # t
    <3>1. k < Len(zone) => zone[k].at < zone[k + 1].at
      <4>1. k < Len(zone) => k + 1 \in 1 .. Len(zone) /\ k < k + 1
        BY <1>0
      <4> QED BY <4>1, Ascending
    <3>2. PICK e \in Int : e = Info(zone, k).end
      BY <1>5
    <3>3. t < e
      BY <1>0, <1>4, <1>5, <3>1, <3>2
    <3> QED BY <3>2, <3>3
  <2>4. PICK s \in Int, o \in Int : s = zone[k - 1].at /\ o = zone[k - 1].offset
    BY <1>0, <2>1
  <2>5. s + 2 * Day < t /\ -Day <= p - o /\ p - o <= Day
    BY <2>1, <2>4, <1>4, ZoneParts
  <2>6. t + p <= local
    BY <1>4 DEF ReachedIn
  <2>7. local - o < t => local - p < t + Day
    BY <2>5, <2>6, <1>0, TwiceNumbers
  <2> QED BY <2>2, <2>3, <2>4, <2>7
<1>7. ASSUME k < Len(zone)
      PROVE  /\ Info(zone, k).end = zone[k + 1].at /\ zone[k + 1].at \in Int
             /\ local - p < t + Day => local - p < zone[k + 1].at
             /\ Info(zone, k + 1).begin = zone[k + 1].at /\ Info(zone, k + 1).offset = zone[k + 1].offset
             /\ local - zone[k + 1].offset < zone[k + 1].at
  <2>1. k + 1 \in 1 .. Len(zone) /\ (k + 1) - 1 = k /\ k + 1 \in 2 .. Len(zone)
    BY <1>0, <1>7
  <2>2. PICK u \in Int : u = zone[k + 1].at
    BY <1>0, <2>1
  <2>3. t + 2 * Day < u
    BY <2>1, <2>2, <1>4, ZoneParts
  <2>4. local - p < t + Day => local - p < u
    BY <2>3, <1>0, SkippedNumbers
  <2>5. local - zone[k + 1].offset < zone[k + 1].at
    BY <2>1, ReachedInOne
  <2> QED BY <1>5, <1>7, <2>2, <2>4, <2>5 DEF Info
<1>8. IsTwice(zone, k, local) => local - p < t + Day
  BY <1>4, <1>6 DEF IsTwice
<1>9. IsSkipped(zone, k, local) <=> k < Len(zone) /\ Info(zone, k).end <= local - p
  BY <1>4, <1>7 DEF IsSkipped
<1>10. ~(IsTwice(zone, k, local) /\ IsSkipped(zone, k, local))
  <2>1. SUFFICES ASSUME IsTwice(zone, k, local), IsSkipped(zone, k, local) PROVE FALSE
    OBVIOUS
  <2>2. k < Len(zone) /\ local - p < zone[k + 1].at /\ zone[k + 1].at <= local - p /\ zone[k + 1].at \in Int
    BY <2>1, <1>4, <1>7, <1>8 DEF IsSkipped
  <2> QED BY <2>2
<1> DEFINE first == load_sys_info(zone, k + 1)
           earlier == load_sys_info(zone, (k + 1) - 1)
           later == load_sys_info(zone, (k + 1) + 1)
           Got == IF local - first.offset < first.begin + Day /\ k + 1 # 1
                  THEN IF BeforeItsEnd(local - earlier.offset, earlier) /\ first.end # earlier.end
                       THEN [result |-> "ambiguous", first |-> earlier, second |-> first]
                       ELSE Unique(first)
                  ELSE IF local - first.offset >= first.end /\ k + 1 # Len(zone) + 1
                  THEN IF local - later.offset < later.begin
                       THEN [result |-> "nonexistent", first |-> first, second |-> later]
                       ELSE Unique(first)
                  ELSE Unique(first)
<1>11. get_local_info(zone, local) = Got
  BY <1>2 DEF get_local_info, After
<1>12. first = Info(zone, k) /\ first.offset = p /\ first.begin = t
  BY <1>3, <1>5
<1>13. CASE IsTwice(zone, k, local)
  <2>1. k > 1 /\ local - zone[k - 1].offset < t
    BY <1>4, <1>13 DEF IsTwice
  <2>2. earlier = Info(zone, k - 1)
    BY <1>3, <2>1
  <2>3. BeforeItsEnd(local - earlier.offset, earlier) /\ first.end # earlier.end
    BY <1>6, <1>12, <2>1, <2>2 DEF BeforeItsEnd
  <2>4. local - first.offset < first.begin + Day /\ k + 1 # 1
    BY <1>3, <1>8, <1>12, <1>13
  <2>5. Got = [result |-> "ambiguous", first |-> earlier, second |-> first]
    <3> HIDE DEF first, earlier, later
    <3> QED BY <2>3, <2>4
  <2> HIDE DEF Got
  <2> QED BY <2>2, <2>5, <1>10, <1>11, <1>12, <1>13 DEF InfoOfLocal
<1>14. CASE IsSkipped(zone, k, local)
  <2>1. k < Len(zone) /\ Info(zone, k).end <= local - p
    BY <1>9, <1>14
  <2>2. later = Info(zone, k + 1)
    BY <1>3, <2>1
  <2>3. local - first.offset >= first.end /\ k + 1 # Len(zone) + 1
    BY <1>0, <1>5, <1>12, <2>1
  <2>4. local - later.offset < later.begin
    BY <1>7, <2>1, <2>2
  <2>5. ~(local - first.offset < first.begin + Day)
    <3>1. PICK u \in Int : u = zone[k + 1].at
      BY <1>7, <2>1
    <3>2. u <= local - p /\ (local - p < t + Day => local - p < u)
      BY <1>7, <2>1, <3>1
    <3>3. ~(local - p < t + Day)
      BY <3>2
    <3> QED BY <3>3, <1>12
  <2>6. Got = [result |-> "nonexistent", first |-> first, second |-> later]
    <3> HIDE DEF first, earlier, later
    <3> QED BY <2>3, <2>4, <2>5
  <2> HIDE DEF Got
  <2> QED BY <2>2, <2>6, <1>10, <1>11, <1>12, <1>14 DEF InfoOfLocal
<1>15. CASE ~IsTwice(zone, k, local) /\ ~IsSkipped(zone, k, local)
  <2>1. ~(BeforeItsEnd(local - earlier.offset, earlier) /\ first.end # earlier.end)
    <3>1. CASE k = 1
      BY <1>3, <1>12, <3>1
    <3>2. CASE k > 1
      <4>1. earlier = Info(zone, k - 1) /\ earlier.end = t /\ earlier.offset = zone[k - 1].offset
        BY <1>3, <1>6, <3>2
      <4>2. ~(local - zone[k - 1].offset < t)
        BY <1>4, <1>15, <3>2 DEF IsTwice
      <4> QED BY <4>1, <4>2 DEF BeforeItsEnd
    <3> QED BY <3>1, <3>2
  <2>2. ~(local - first.offset >= first.end /\ k + 1 # Len(zone) + 1)
    <3>1. k + 1 # Len(zone) + 1 => k < Len(zone)
      BY <1>0
    <3>2. ~(k < Len(zone) /\ Info(zone, k).end <= local - p)
      BY <1>9, <1>15
    <3> QED BY <3>1, <3>2, <1>5, <1>12
  <2>3. Got = Unique(first)
    <3> HIDE DEF first, earlier, later
    <3> QED BY <2>1, <2>2
  <2> HIDE DEF Got
  <2> QED BY <2>3, <1>11, <1>12, <1>15 DEF InfoOfLocal
<1> QED BY <1>10, <1>13, <1>14, <1>15

\* The instant that is made of a local time.
MadeOf(zone, k, local, choose) ==
  IF IsTwice(zone, k, local)
  THEN IF choose \in {"LATEST", "AUTO"} THEN local - zone[k].offset ELSE local - zone[k - 1].offset
  ELSE IF IsSkipped(zone, k, local) THEN zone[k + 1].at
  ELSE local - zone[k].offset

LEMMA Made ==
  ASSUME NEW zone \in Zones, NEW k \in 1 .. Len(zone), NEW local \in Int, ReachedIn(zone, k, local),
         NEW choose \in ChooseValues
  PROVE  /\ make_zoned_time(zone, local, choose) = MadeOf(zone, k, local, choose)
         /\ ThrowsOnLocal(zone, local, choose) <=>
              choose = "NONE" /\ (IsTwice(zone, k, local) \/ IsSkipped(zone, k, local))
<1> DEFINE info == get_local_info(zone, local)
<1>1. info = InfoOfLocal(zone, k, local)
  BY LocalInfo
<1>2. Info(zone, k).offset = zone[k].offset
  BY DEF Info
<1>3. CASE IsTwice(zone, k, local)
  <2>1. info = [result |-> "ambiguous", first |-> Info(zone, k - 1), second |-> Info(zone, k)]
    BY <1>1, <1>3 DEF InfoOfLocal
  <2>2. Info(zone, k - 1).offset = zone[k - 1].offset
    BY DEF Info
  <2>3. info.result = "ambiguous" /\ info.first.offset = zone[k - 1].offset /\ info.second.offset = zone[k].offset
    BY <2>1, <2>2, <1>2
  <2> HIDE DEF info
  <2>4. \A c \in ChooseValues :
          to_sys(zone, local, c) = IF c = "LATEST" THEN local - zone[k].offset ELSE local - zone[k - 1].offset
    BY <2>3 DEF to_sys, info
  <2> QED BY <1>3, <2>3, <2>4 DEF make_zoned_time, MadeOf, ThrowsOnLocal, ChooseValues, info
<1>4. CASE ~IsTwice(zone, k, local) /\ IsSkipped(zone, k, local)
  <2>1. info = [result |-> "nonexistent", first |-> Info(zone, k), second |-> Info(zone, k + 1)]
    BY <1>1, <1>4 DEF InfoOfLocal
  <2>2. Info(zone, k).end = zone[k + 1].at
    BY <1>4 DEF Info, IsSkipped
  <2>3. info.result = "nonexistent" /\ info.first.end = zone[k + 1].at
    BY <2>1, <2>2
  <2> HIDE DEF info
  <2>4. \A c \in ChooseValues : to_sys(zone, local, c) = zone[k + 1].at
    BY <2>3 DEF to_sys, info
  <2> QED BY <1>4, <2>3, <2>4 DEF make_zoned_time, MadeOf, ThrowsOnLocal, ChooseValues, info
<1>5. CASE ~IsTwice(zone, k, local) /\ ~IsSkipped(zone, k, local)
  <2>1. info = Unique(Info(zone, k))
    BY <1>1, <1>5 DEF InfoOfLocal
  <2>2. info.result = "unique" /\ info.first.offset = zone[k].offset
    BY <2>1, <1>2 DEF Unique
  <2> HIDE DEF info
  <2>3. \A c \in ChooseValues : to_sys(zone, local, c) = local - zone[k].offset
    BY <2>2 DEF to_sys, info
  <2> QED BY <1>5, <2>2, <2>3 DEF make_zoned_time, MadeOf, ThrowsOnLocal, ChooseValues, info
<1> QED BY <1>3, <1>4, <1>5

\* The instants at which a local time is shown.
ShownAt(zone, k, local) ==
  IF IsTwice(zone, k, local) THEN {local - zone[k - 1].offset, local - zone[k].offset}
  ELSE IF IsSkipped(zone, k, local) THEN {}
  ELSE {local - zone[k].offset}

LEMMA NotYetEarlier ==
  ASSUME NEW zone \in Zones, NEW k \in 1 .. Len(zone), NEW local \in Int, ReachedIn(zone, k, local),
         NEW i \in 1 .. Len(zone), InPeriod(zone, i, local - zone[i].offset)
  PROVE  i = k \/ (i = k - 1 /\ IsTwice(zone, k, local))
<1>0. /\ Len(zone) \in Nat \ {0} /\ Day \in Nat
      /\ \A j \in 1 .. Len(zone) : zone[j].at \in Int /\ zone[j].offset \in Int
  BY ZoneParts
<1>1. i <= k
  <2>1. ~(local - zone[i].offset < zone[i].at)
    BY <1>0 DEF InPeriod
  <2>2. local - zone[i].offset < zone[i].at <=> k < i
    BY ReachedInOne
  <2>3. ~(k < i)
    BY <2>1, <2>2
  <2>4. i \in Int /\ k \in Int
    BY <1>0
  <2> QED BY <2>3, <2>4
<1>2. CASE i = k - 1
  <2>1. k > 1 /\ i < Len(zone) /\ i + 1 = k
    BY <1>0, <1>2
  <2> QED BY <1>2, <2>1 DEF InPeriod, IsTwice
<1>3. ASSUME i < k - 1 PROVE FALSE
  <2>1. i + 1 \in 2 .. Len(zone) /\ i + 1 < k /\ i < Len(zone) /\ i + 1 \in 1 .. Len(zone) /\ (i + 1) - 1 = i
    BY <1>0, <1>3
  <2>2. PICK u \in Int, p \in Int, t \in Int, q \in Int, o \in Int :
          u = zone[i + 1].at /\ p = zone[i + 1].offset /\ t = zone[k].at /\ q = zone[k].offset
          /\ o = zone[i].offset
    BY <1>0, <2>1
  <2>3. local - o < u
    BY <2>1, <2>2 DEF InPeriod
  <2>4. -Day <= p - o /\ p - o <= Day
    BY <2>1, <2>2, ZoneParts
  <2>5. u + p + Day < t + q
    BY <2>1, <2>2, Ascending DEF Apart
  <2>6. t + q <= local
    BY <2>2 DEF ReachedIn
  <2> QED BY <2>3, <2>4, <2>5, <2>6, <1>0
<1> QED BY <1>0, <1>1, <1>2, <1>3

LEMMA ShownAre ==
  ASSUME NEW zone \in Zones, NEW k \in 1 .. Len(zone), NEW local \in Int, ReachedIn(zone, k, local),
         \A i \in 1 .. Len(zone) : zone[1].at <= local - zone[i].offset
  PROVE  /\ Shown(zone, local) = ShownAt(zone, k, local)
         /\ IsTwice(zone, k, local) => local - zone[k - 1].offset < local - zone[k].offset
<1>0. /\ Len(zone) \in Nat \ {0} /\ Day \in Nat \ {0} /\ DOMAIN zone = 1 .. Len(zone)
      /\ \A j \in 1 .. Len(zone) : zone[j].at \in Int /\ zone[j].offset \in Int
  BY ZoneParts
<1>1. ASSUME NEW i \in 1 .. Len(zone), InPeriod(zone, i, local - zone[i].offset)
      PROVE  local - zone[i].offset \in Shown(zone, local)
  <2>0. PICK o \in Int : o = zone[i].offset
    BY <1>0
  <2>1. PICK at \in Int : at = local - o /\ at = local - zone[i].offset
    BY <2>0
  <2>2. OffsetAt(zone, at) = o
    BY <1>1, <2>0, <2>1, OffsetInPeriod
  <2>3. at + o = local
    BY <2>1
  <2>4. at \in {local - offset : offset \in {zone[j].offset : j \in DOMAIN zone}}
    BY <1>0, <2>1
  <2>5. at \in Shown(zone, local)
    BY <2>2, <2>3, <2>4 DEF Shown
  <2> QED BY <2>1, <2>5
<1>2. ASSUME NEW at \in Shown(zone, local)
      PROVE  \E i \in 1 .. Len(zone) : at = local - zone[i].offset /\ InPeriod(zone, i, local - zone[i].offset)
  <2>1. PICK j \in 1 .. Len(zone) : at = local - zone[j].offset
    BY <1>0 DEF Shown
  <2>2. at \in Int /\ zone[1].at <= at
    BY <1>0, <2>1
  <2>3. PICK i \in 1 .. Len(zone) : InPeriod(zone, i, at)
    BY <2>2, PeriodFound
  <2>4. OffsetAt(zone, at) = zone[i].offset
    BY <2>2, <2>3, OffsetInPeriod
  <2>5. at + OffsetAt(zone, at) = local
    BY DEF Shown
  <2>6. at = local - zone[i].offset
    <3>1. PICK o \in Int : o = zone[i].offset
      BY <1>0
    <3>2. at + o = local
      BY <2>4, <2>5, <3>1
    <3> QED BY <2>2, <3>1, <3>2
  <2> QED BY <2>3, <2>6
<1>3. \A at : at \in Shown(zone, local) <=>
        \E i \in 1 .. Len(zone) : at = local - zone[i].offset /\ InPeriod(zone, i, local - zone[i].offset)
  BY <1>1, <1>2
<1>4. PICK t \in Int, p \in Int : t = zone[k].at /\ p = zone[k].offset
  BY <1>0
<1>5. t + p <= local
  BY <1>4 DEF ReachedIn
<1>6. InPeriod(zone, k, local - zone[k].offset) <=> ~IsSkipped(zone, k, local)
  <2>1. t <= local - p
    BY <1>5
  <2>2. k < Len(zone) => zone[k + 1].at \in Int
    BY <1>0
  <2> QED BY <1>4, <2>1, <2>2 DEF InPeriod, IsSkipped
<1>7. ASSUME IsTwice(zone, k, local)
      PROVE  /\ k - 1 \in 1 .. Len(zone) /\ InPeriod(zone, k - 1, local - zone[k - 1].offset)
             /\ local - zone[k - 1].offset < local - zone[k].offset
  <2>1. k - 1 \in 1 .. Len(zone) /\ (k - 1) + 1 = k /\ k \in 2 .. Len(zone)
    BY <1>0, <1>7 DEF IsTwice
  <2>2. PICK s \in Int, o \in Int : s = zone[k - 1].at /\ o = zone[k - 1].offset
    BY <1>0, <2>1
  <2>3. s + 2 * Day < t /\ -Day <= p - o /\ p - o <= Day
    BY <1>4, <2>1, <2>2, ZoneParts
  <2>4. local - o < t
    BY <1>4, <1>7, <2>2 DEF IsTwice
  <2>5. s <= local - o /\ local - o < local - p
    BY <1>0, <1>5, <2>3, <2>4, TwiceNumbers
  <2> QED BY <1>4, <2>1, <2>2, <2>4, <2>5 DEF InPeriod
<1>8. ~(IsTwice(zone, k, local) /\ IsSkipped(zone, k, local))
  BY LocalInfo
<1>9. ASSUME NEW i \in 1 .. Len(zone), InPeriod(zone, i, local - zone[i].offset)
      PROVE  i = k \/ (i = k - 1 /\ IsTwice(zone, k, local))
  BY <1>9, NotYetEarlier
<1>10. \A at : at \in Shown(zone, local) <=>
         \/ at = local - zone[k].offset /\ ~IsSkipped(zone, k, local)
         \/ at = local - zone[k - 1].offset /\ IsTwice(zone, k, local)
  BY <1>3, <1>6, <1>7, <1>9
<1>11. Shown(zone, local) = ShownAt(zone, k, local)
  <2>1. ASSUME NEW at PROVE at \in Shown(zone, local) <=> at \in ShownAt(zone, k, local)
    BY <1>8, <1>10 DEF ShownAt
  <2> QED BY <2>1
<1> QED BY <1>7, <1>11

(* Of the instants that are made, none is before that of an earlier local time. *)
LEMMA NextReached ==
  ASSUME NEW zone \in Zones, NEW local \in Int, NEW next \in Int, next = local + 1,
         NEW k \in 1 .. Len(zone), ReachedIn(zone, k, local),
         NEW l \in 1 .. Len(zone), ReachedIn(zone, l, next)
  PROVE  l = k \/ l = k + 1
<1>0. /\ Len(zone) \in Nat \ {0} /\ Day \in Nat \ {0}
      /\ \A j \in 1 .. Len(zone) : zone[j].at \in Int /\ zone[j].offset \in Int
  BY ZoneParts
<1>1. ~(l < k)
  <2>1. SUFFICES ASSUME l < k PROVE FALSE
    OBVIOUS
  <2>2. next - zone[k].offset < zone[k].at
    BY <2>1, ReachedInOne
  <2>3. PICK o \in Int, t \in Int : o = zone[k].offset /\ t = zone[k].at
    BY <1>0
  <2>4. t + o <= local /\ next - o < t
    BY <2>2, <2>3 DEF ReachedIn
  <2> QED BY <2>4
<1>2. ~(k + 1 < l)
  <2>1. SUFFICES ASSUME k + 1 < l PROVE FALSE
    OBVIOUS
  <2>2. k < Len(zone) /\ k + 1 \in 1 .. Len(zone)
    BY <1>0, <2>1
  <2>3. PICK o \in Int, t \in Int, p \in Int, u \in Int :
          o = zone[k + 1].offset /\ t = zone[k + 1].at /\ p = zone[l].offset /\ u = zone[l].at
    BY <1>0, <2>2
  <2>4. local < t + o /\ u + p <= next
    BY <2>2, <2>3 DEF ReachedIn
  <2>5. t + o + Day < u + p
    BY <2>1, <2>2, <2>3, Ascending DEF Apart
  <2> QED BY <1>0, <2>4, <2>5
<1> QED BY <1>0, <1>1, <1>2

\* The instant a moment later, in the same period and in the next, with numbers only: s
\* and o are the offsets before, t and p the transition and the offset of the period
\* and, of the next, u and q.
LEMMA SamePeriod ==
  ASSUME NEW local \in Int, NEW next \in Int, next = local + 1, NEW o \in Int, NEW t \in Int, NEW p \in Int, t + p <= local
  PROVE  /\ local - o < t => local - o <= next - p
         /\ next - o < t => local - o < t
         /\ local - o <= next - o /\ local - p <= next - p
         /\ \A u \in Int : /\ t < u /\ local - o < t => local - o <= u
                           /\ u <= local - p => u <= next - p
                           /\ ~(u <= local - p) => local - p <= u
OBVIOUS

LEMMA NextPeriod ==
  ASSUME NEW local \in Int, NEW next \in Int, next = local + 1, NEW o \in Int, NEW t \in Int, NEW p \in Int, NEW u \in Int, NEW q \in Int,
         t + p <= local, t < u, u + q <= next
  PROVE  /\ local - o < t => local - o <= u /\ local - o <= local - p
         /\ u <= next - q
         /\ ~(u <= local - p) => local - p <= u
         /\ u <= local - p => ~(next - p < u)
         /\ local - p <= next - p
OBVIOUS

LEMMA MadeLater ==
  ASSUME NEW zone \in Zones, NEW local \in Int, NEW next \in Int, next = local + 1,
         NEW choose \in ChooseValues,
         NEW k \in 1 .. Len(zone), ReachedIn(zone, k, local),
         NEW l \in 1 .. Len(zone), ReachedIn(zone, l, next)
  PROVE  MadeOf(zone, k, local, choose) <= MadeOf(zone, l, next, choose)
<1>0. /\ Len(zone) \in Nat \ {0} /\ Day \in Nat \ {0}
      /\ \A j \in 1 .. Len(zone) : zone[j].at \in Int /\ zone[j].offset \in Int
  BY ZoneParts
<1>1. PICK t \in Int, p \in Int : t = zone[k].at /\ p = zone[k].offset
  BY <1>0
<1>2. PICK o \in Int : k > 1 => o = zone[k - 1].offset
  <2>1. CASE k > 1
    <3>1. k - 1 \in 1 .. Len(zone)
      BY <1>0, <2>1
    <3> QED BY <1>0, <3>1
  <2>2. CASE ~(k > 1)
    BY <1>1, <2>2
  <2> QED BY <2>1, <2>2
<1>3. PICK u \in Int, q \in Int :
        k < Len(zone) => u = zone[k + 1].at /\ q = zone[k + 1].offset /\ t < u
  <2>1. CASE k < Len(zone)
    <3>1. k + 1 \in 1 .. Len(zone) /\ zone[k].at < zone[k + 1].at
      BY <1>0, <2>1, Ascending
    <3> QED BY <1>0, <1>1, <3>1
  <2>2. CASE ~(k < Len(zone))
    BY <1>1, <2>2
  <2> QED BY <2>1, <2>2
<1>4. t + p <= local /\ next = local + 1
  BY <1>1 DEF ReachedIn
<1>5. /\ IsTwice(zone, k, local) <=> k > 1 /\ local - o < t
      /\ IsTwice(zone, k, next) <=> k > 1 /\ next - o < t
      /\ IsSkipped(zone, k, local) <=> k < Len(zone) /\ u <= local - p
      /\ IsSkipped(zone, k, next) <=> k < Len(zone) /\ u <= next - p
  BY <1>1, <1>2, <1>3 DEF IsTwice, IsSkipped
<1> DEFINE late == choose \in {"LATEST", "AUTO"}
<1>6. MadeOf(zone, k, local, choose) =
        IF k > 1 /\ local - o < t THEN IF late THEN local - p ELSE local - o
        ELSE IF k < Len(zone) /\ u <= local - p THEN u ELSE local - p
  BY <1>1, <1>2, <1>3, <1>5 DEF MadeOf
<1>7. CASE l = k
  <2>1. MadeOf(zone, l, next, choose) =
          IF k > 1 /\ next - o < t THEN IF late THEN next - p ELSE next - o
          ELSE IF k < Len(zone) /\ u <= next - p THEN u ELSE next - p
    BY <1>1, <1>2, <1>3, <1>5, <1>7 DEF MadeOf
  <2>2. ~(k > 1 /\ local - o < t /\ k < Len(zone) /\ u <= local - p)
    BY LocalInfo, <1>5
  <2>3. ~(k > 1 /\ next - o < t /\ k < Len(zone) /\ u <= next - p)
    BY LocalInfo, <1>4, <1>5, <1>7
  <2> HIDE DEF late
  <2> QED BY <1>3, <1>4, <1>6, <2>1, <2>2, <2>3, SamePeriod
<1>8. CASE l = k + 1
  <2>1. k < Len(zone) /\ l - 1 = k /\ l > 1 /\ u = zone[l].at /\ q = zone[l].offset
    BY <1>0, <1>3, <1>8
  <2>2. u + q <= next
    BY <2>1 DEF ReachedIn
  <2>3. IsTwice(zone, l, next) <=> next - p < u
    BY <1>1, <2>1 DEF IsTwice
  <2>4. PICK w \in Int : l < Len(zone) => w = zone[l + 1].at /\ u < w
    <3>1. CASE l < Len(zone)
      <4>1. l + 1 \in 1 .. Len(zone) /\ zone[l].at < zone[l + 1].at
        BY <1>0, <3>1, Ascending
      <4> QED BY <1>0, <2>1, <4>1
    <3>2. CASE ~(l < Len(zone))
      BY <1>1, <3>2
    <3> QED BY <3>1, <3>2
  <2>5. IsSkipped(zone, l, next) <=> l < Len(zone) /\ w <= next - q
    BY <2>1, <2>4 DEF IsSkipped
  <2>6. MadeOf(zone, l, next, choose) =
          IF next - p < u THEN IF late THEN next - q ELSE next - p
          ELSE IF l < Len(zone) /\ w <= next - q THEN w ELSE next - q
    BY <1>1, <2>1, <2>3, <2>4, <2>5 DEF MadeOf
  <2> HIDE DEF late
  <2>7. ~(k > 1 /\ local - o < t /\ k < Len(zone) /\ u <= local - p)
    BY LocalInfo, <1>5
  <2>8. t < u
    BY <1>3, <2>1
  <2>9. /\ local - o < t => local - o <= u /\ local - o <= local - p
        /\ u <= next - q /\ local - p <= next - p
        /\ ~(u <= local - p) => local - p <= u
        /\ u <= local - p => ~(next - p < u)
    BY <1>4, <2>2, <2>8, NextPeriod
  <2>10. PICK made \in Int :
           /\ made = MadeOf(zone, k, local, choose)
           /\ \/ made = local - o /\ local - o < t
              \/ made = local - p /\ ~(u <= local - p)
              \/ made = u /\ u <= local - p
    <3>1. CASE k > 1 /\ local - o < t /\ late
      <4>1. MadeOf(zone, k, local, choose) = local - p /\ ~(u <= local - p)
        BY <1>6, <2>1, <2>7, <3>1
      <4> QED BY <4>1
    <3>2. CASE k > 1 /\ local - o < t /\ ~late
      <4>1. MadeOf(zone, k, local, choose) = local - o /\ local - o < t
        BY <1>6, <3>2
      <4> QED BY <4>1
    <3>3. CASE ~(k > 1 /\ local - o < t) /\ u <= local - p
      <4>1. MadeOf(zone, k, local, choose) = u
        BY <1>6, <2>1, <3>3
      <4> QED BY <4>1, <3>3
    <3>4. CASE ~(k > 1 /\ local - o < t) /\ ~(u <= local - p)
      <4>1. MadeOf(zone, k, local, choose) = local - p
        BY <1>6, <2>1, <3>4
      <4> QED BY <4>1, <3>4
    <3> QED BY <3>1, <3>2, <3>3, <3>4
  <2>11. made \in {local - o, local - p, u} /\ made <= u
    BY <2>9, <2>10
  <2>12. next - p < u => made <= next - p
    <3>1. SUFFICES ASSUME next - p < u PROVE made <= next - p
      OBVIOUS
    <3>2. ~(u <= local - p)
      BY <2>9, <3>1
    <3>3. (local - o < t => local - o <= local - p) /\ local - p <= next - p
      BY <2>9
    <3>4. made <= local - p
      BY <2>10, <3>2, <3>3
    <3> QED BY <3>3, <3>4
  <2>13. l < Len(zone) => u < w
    BY <2>4
  <2>14. CASE next - p < u
    BY <2>6, <2>9, <2>10, <2>11, <2>12, <2>14
  <2>15. CASE ~(next - p < u)
    BY <2>6, <2>9, <2>10, <2>11, <2>13, <2>15
  <2> QED BY <2>14, <2>15
<1> QED BY <1>7, <1>8, NextReached

LocalInv == LocalTypeOK /\ (IsNormal => ldt.at \in Instants)

LEMMA LocalInitInv == LocalInit => LocalInv
BY DEF LocalInit, LocalInv, LocalTypeOK, NotATime, IsNormal, TimeTypes

LEMMA InstantPeriod ==
  ASSUME NEW zone \in Zones, NEW at \in Instants
  PROVE  at \in Int /\ at < EndOfTime /\ \E k \in 1 .. Len(zone) : InPeriod(zone, k, at)
<1>1. at \in Int /\ zone[1].at + 2 * Day < at /\ at < EndOfTime
  BY ZoneAssumption
<1>2. zone[1].at \in Int /\ Day \in Nat
  BY ZoneParts
<1>3. zone[1].at <= at
  BY <1>1, <1>2
<1> QED BY <1>1, <1>3, PeriodFound

LEMMA LocalReached ==
  ASSUME NEW zone \in Zones, NEW local \in LocalTimes
  PROVE  /\ local \in Int
         /\ \A i \in 1 .. Len(zone) : zone[1].at <= local - zone[i].offset
         /\ \E k \in 1 .. Len(zone) : ReachedIn(zone, k, local)
<1>1. local \in Int /\ \A i \in 1 .. Len(zone) : zone[1].at <= local - zone[i].offset
  BY ZoneParts, ZoneAssumption
<1>2. 1 \in 1 .. Len(zone) /\ zone[1].at \in Int /\ zone[1].offset \in Int
  BY ZoneParts
<1>3. zone[1].at + zone[1].offset <= local
  BY <1>1, <1>2
<1> QED BY <1>1, <1>3, PeriodReached

LEMMA LocalParts ==
  ASSUME LocalInv, IsNormal
  PROVE  /\ ldt = [type |-> "NORMAL", zone |-> ldt.zone, at |-> ldt.at]
         /\ ldt.zone \in Zones /\ ldt.at \in Instants
         /\ \E k \in 1 .. Len(ldt.zone) :
              /\ InPeriod(ldt.zone, k, ldt.at) /\ ldt.zone[k].offset \in Int
              /\ get_sys_info(ldt.zone, ldt.at) = Info(ldt.zone, k)
              /\ local_time = ldt.at + ldt.zone[k].offset
         /\ utc_time = ldt.at /\ local_time \in Int
<1>1. ldt = [type |-> "NORMAL", zone |-> ldt.zone, at |-> ldt.at] /\ ldt.zone \in Zones /\ ldt.at \in Instants
  BY DEF LocalInv, LocalTypeOK, IsNormal
<1>2. ldt.at \in Int
  BY <1>1, InstantPeriod
<1>3. PICK k \in 1 .. Len(ldt.zone) : InPeriod(ldt.zone, k, ldt.at)
  BY <1>1, InstantPeriod
<1>4. get_sys_info(ldt.zone, ldt.at) = Info(ldt.zone, k)
  BY <1>1, <1>2, <1>3, InfoOfInstant
<1>5. PICK o \in Int : o = ldt.zone[k].offset
  BY <1>1, ZoneParts
<1>6. local_time = ldt.at + o
  BY <1>4, <1>5 DEF local_time, Info
<1>7. utc_time = ldt.at
  <2>1. get_sys_info(ldt.zone, ldt.at).offset = o
    BY <1>4, <1>5 DEF Info
  <2>2. utc_time = local_time - o
    BY <2>1 DEF utc_time
  <2> QED BY <1>2, <1>6, <2>2
<1> QED BY <1>1, <1>2, <1>3, <1>4, <1>5, <1>6, <1>7

LEMMA LocalNextInv == LocalInv /\ [LocalNext]_ldt => LocalInv'
<1> SUFFICES ASSUME LocalInv, [LocalNext]_ldt PROVE LocalInv'
  OBVIOUS
<1>1. ASSUME NEW zone \in Zones, NEW at \in Instants, ldt' = Normal(zone, at) PROVE LocalInv'
  BY <1>1, InstantPeriod DEF LocalInv, LocalTypeOK, Normal, IsNormal, TimeTypes
<1>2. ASSUME NEW zone \in Zones, ldt' = NotATime(zone) PROVE LocalInv'
  BY <1>2 DEF LocalInv, LocalTypeOK, NotATime, IsNormal, TimeTypes
<1>3. CASE UNCHANGED ldt
  BY <1>3 DEF LocalInv, LocalTypeOK, IsNormal
<1>4. ASSUME NEW zone \in Zones, NEW at \in Instants, FromUtc(zone, at) PROVE LocalInv'
  BY <1>1, <1>4 DEF FromUtc
<1>5. ASSUME NEW zone \in Zones, NEW local \in LocalTimes, NEW choose \in ChooseValues,
             FromLocal(zone, local, choose)
      PROVE  LocalInv'
  BY <1>1, <1>2, <1>5 DEF FromLocal
<1>6. ASSUME NEW zone \in Zones, ToTz(zone) PROVE LocalInv'
  <2>1. utc_time \in Instants
    BY <1>6, LocalParts DEF ToTz
  <2> QED BY <1>1, <1>6, <2>1 DEF ToTz
<1>7. ASSUME NEW step \in Steps, Advance(step) PROVE LocalInv'
  <2>1. CASE IsNormal
    <3>1. ldt.at + step \in Instants /\ ldt.zone \in Zones /\ ldt.type = "NORMAL"
      BY <1>7, <2>1, LocalParts DEF Advance, IsNormal
    <3>2. ldt' = Normal(ldt.zone, ldt.at + step)
      BY <1>7, <2>1, LocalParts DEF Advance, LocalPlus, Normal, IsNormal
    <3> QED BY <1>1, <3>1, <3>2
  <2>2. CASE ~IsNormal
    BY <1>3, <1>7, <2>2 DEF Advance
  <2> QED BY <2>1, <2>2
<1> QED BY <1>3, <1>4, <1>5, <1>6, <1>7 DEF LocalNext

(* A local time, in a zone *)
LocalIsExact(zone, local) ==
  LET shown == Shown(zone, local)
      made(choose) == make_zoned_time(zone, local, choose)
  IN /\ ThrowsOnLocal(zone, local, "NONE") <=> Cardinality(shown) # 1
     /\ shown # {} => /\ \A choose \in ChooseValues : made(choose) \in shown
                      /\ \A at \in shown : /\ made("EARLIEST") <= at /\ at <= made("LATEST")
                                           /\ at <= made("AUTO")
     /\ shown = {} => \A choose \in ChooseValues : made(choose) \in Skipped(zone, local)
     /\ local + 1 \in LocalTimes =>
          \A choose \in ChooseValues : made(choose) <= make_zoned_time(zone, local + 1, choose)

LEMMA ExactLocal ==
  ASSUME NEW zone \in Zones, NEW local \in LocalTimes
  PROVE  LocalIsExact(zone, local)
<1>1. /\ local \in Int
      /\ \A i \in 1 .. Len(zone) : zone[1].at <= local - zone[i].offset
  BY LocalReached
<1>2. PICK k \in 1 .. Len(zone) : ReachedIn(zone, k, local)
  BY LocalReached
<1>3. Shown(zone, local) = ShownAt(zone, k, local)
  BY <1>1, <1>2, ShownAre
<1>4. \A choose \in ChooseValues : make_zoned_time(zone, local, choose) = MadeOf(zone, k, local, choose)
  BY <1>1, <1>2, Made
<1>5. ThrowsOnLocal(zone, local, "NONE") <=> IsTwice(zone, k, local) \/ IsSkipped(zone, k, local)
  BY <1>1, <1>2, Made DEF ChooseValues
<1>6. ~(IsTwice(zone, k, local) /\ IsSkipped(zone, k, local))
  BY <1>1, <1>2, LocalInfo
<1>7. PICK p \in Int : p = local - zone[k].offset
  BY <1>1, ZoneParts
<1>8. PICK o \in Int : IsTwice(zone, k, local) => o = local - zone[k - 1].offset /\ o < p
  <2>1. CASE IsTwice(zone, k, local)
    <3>1. k - 1 \in 1 .. Len(zone)
      BY <2>1, ZoneParts DEF IsTwice
    <3>4. zone[k - 1].offset \in Int
      BY <3>1, ZoneParts
    <3>2. local - zone[k - 1].offset \in Int
      BY <1>1, <3>4
    <3>3. local - zone[k - 1].offset < local - zone[k].offset
      BY <1>1, <1>2, <2>1, ShownAre
    <3> QED BY <1>7, <3>2, <3>3
  <2>2. CASE ~IsTwice(zone, k, local)
    BY <2>2
  <2> QED BY <2>1, <2>2
<1>9. ASSUME local + 1 \in LocalTimes, NEW choose \in ChooseValues
      PROVE  make_zoned_time(zone, local, choose) <= make_zoned_time(zone, local + 1, choose)
  <2>1. PICK next \in LocalTimes : next = local + 1 /\ next \in Int
    BY <1>9, LocalReached
  <2>2. PICK l \in 1 .. Len(zone) : ReachedIn(zone, l, next)
    BY LocalReached
  <2>3. make_zoned_time(zone, next, choose) = MadeOf(zone, l, next, choose)
    BY <2>1, <2>2, Made
  <2>4. MadeOf(zone, k, local, choose) <= MadeOf(zone, l, next, choose)
    BY <1>1, <1>2, <2>1, <2>2, MadeLater
  <2> QED BY <1>4, <2>1, <2>3, <2>4
<1> DEFINE shown == Shown(zone, local)
           made(choose) == make_zoned_time(zone, local, choose)
<1>10. CASE IsTwice(zone, k, local)
  <2>1. shown = {o, p} /\ o < p
    BY <1>3, <1>7, <1>8, <1>10 DEF ShownAt
  <2>2. Cardinality(shown) # 1
    <3>1. \A x : shown # {x}
      <4> HIDE DEF shown
      <4>1. o \in shown /\ p \in shown /\ o # p
        BY <2>1
      <4> QED BY <4>1
    <3>2. IsFiniteSet(shown)
      <4>1. IsFiniteSet({o} \cup {p}) /\ shown = {o} \cup {p}
        BY <2>1, FS_Singleton, FS_AddElement
      <4> QED BY <4>1
    <3> HIDE DEF shown
    <3> QED BY <3>1, <3>2, FS_Singleton
  <2>3. /\ \A choose \in ChooseValues : made(choose) \in {o, p}
        /\ made("EARLIEST") = o /\ made("LATEST") = p /\ made("AUTO") = p
    BY <1>4, <1>7, <1>8, <1>10 DEF MadeOf, ChooseValues
  <2> HIDE DEF shown, made
  <2>4. \A at \in shown : made("EARLIEST") <= at /\ at <= made("LATEST") /\ at <= made("AUTO")
    BY <2>1, <2>3
  <2>5. /\ ThrowsOnLocal(zone, local, "NONE") <=> Cardinality(shown) # 1
        /\ shown # {} /\ \A choose \in ChooseValues : made(choose) \in shown
    BY <1>5, <1>10, <2>1, <2>2, <2>3
  <2> QED BY <1>9, <2>4, <2>5 DEF LocalIsExact, shown, made
<1>11. CASE IsSkipped(zone, k, local)
  <2>1. shown = {}
    BY <1>3, <1>6, <1>11 DEF ShownAt
  <2>2. Cardinality(shown) # 1
    BY <2>1, FS_EmptySet
  <2>3. \A choose \in ChooseValues : made(choose) = zone[k + 1].at
    BY <1>4, <1>6, <1>11 DEF MadeOf
  <2>4. zone[k + 1].at \in Skipped(zone, local)
    <3>1. PICK i \in 2 .. Len(zone) : i = k + 1 /\ i - 1 = k
      BY <1>11, ZoneParts DEF IsSkipped
    <3>2. zone[i].at \in Int /\ zone[i].offset \in Int /\ zone[k].offset \in Int
      BY <3>1, ZoneParts
    <3>3. PICK u \in Int, q \in Int : u = zone[i].at /\ q = zone[k].offset
      BY <3>2
    <3>4. u + q <= local
      <4>1. u <= local - q
        BY <1>11, <3>1, <3>3 DEF IsSkipped
      <4> QED BY <1>1, <4>1
    <3>5. local < zone[i].at + zone[i].offset
      BY <1>2, <3>1 DEF ReachedIn
    <3>6. zone[i].at + zone[i - 1].offset <= local
      BY <3>1, <3>3, <3>4
    <3> QED BY <3>1, <3>5, <3>6 DEF Skipped
  <2> HIDE DEF shown, made
  <2>5. /\ ThrowsOnLocal(zone, local, "NONE") <=> Cardinality(shown) # 1
        /\ \A choose \in ChooseValues : made(choose) \in Skipped(zone, local)
    BY <1>5, <1>11, <2>2, <2>3, <2>4
  <2> QED BY <1>9, <2>1, <2>5 DEF LocalIsExact, shown, made
<1>12. CASE ~IsTwice(zone, k, local) /\ ~IsSkipped(zone, k, local)
  <2>1. shown = {p}
    BY <1>3, <1>7, <1>12 DEF ShownAt
  <2>2. Cardinality(shown) = 1
    BY <2>1, FS_Singleton
  <2>3. \A choose \in ChooseValues : made(choose) = p
    BY <1>4, <1>7, <1>12 DEF MadeOf
  <2> HIDE DEF shown, made
  <2>4. /\ ThrowsOnLocal(zone, local, "NONE") <=> Cardinality(shown) # 1
        /\ shown # {} /\ \A choose \in ChooseValues : made(choose) \in shown
    BY <1>5, <1>12, <2>1, <2>2, <2>3
  <2>5. \A at \in shown : made("EARLIEST") <= at /\ at <= made("LATEST") /\ at <= made("AUTO")
    BY <2>1, <2>3 DEF ChooseValues
  <2> QED BY <1>9, <2>4, <2>5 DEF LocalIsExact, shown, made
<1> QED BY <1>10, <1>11, <1>12

LEMMA ExactLocals == LocalInv => LocalTimesAreExact
<1> SUFFICES ASSUME LocalInv PROVE LocalTimesAreExact
  OBVIOUS
<1>1. ldt.zone \in Zones
  BY DEF LocalInv, LocalTypeOK
<1>2. \A local \in LocalTimes : LocalIsExact(ldt.zone, local)
  BY <1>1, ExactLocal
<1>3. ASSUME IsNormal
      PROVE  ldt.at \in Shown(ldt.zone, local_time) /\ date * Day + time_of_day = ldt.at
  <2>1. ldt.at \in Int /\ utc_time = ldt.at /\ local_time \in Int
    BY <1>1, <1>3, LocalParts, InstantPeriod
  <2>2. PICK k \in 1 .. Len(ldt.zone) :
           /\ InPeriod(ldt.zone, k, ldt.at) /\ ldt.zone[k].offset \in Int
           /\ local_time = ldt.at + ldt.zone[k].offset
    BY <1>3, LocalParts
  <2>3. PICK o \in Int : o = ldt.zone[k].offset
    BY <2>2
  <2>4. OffsetAt(ldt.zone, ldt.at) = o
    BY <1>1, <2>1, <2>2, <2>3, OffsetInPeriod
  <2>5. ldt.at = local_time - o /\ ldt.at + o = local_time
    BY <2>1, <2>2, <2>3
  <2>6. k \in DOMAIN ldt.zone
    BY <1>1, ZoneParts
  <2>7. ldt.at \in Shown(ldt.zone, local_time)
    <3> DEFINE zone == ldt.zone
               local == local_time
               at == ldt.at
    <3>1. at \in {local - offset : offset \in {zone[i].offset : i \in DOMAIN zone}}
      BY <2>3, <2>5, <2>6
    <3>2. at + OffsetAt(zone, at) = local
      BY <2>4, <2>5
    <3>3. Shown(zone, local) =
            {s \in {local - offset : offset \in {zone[i].offset : i \in DOMAIN zone}} :
               s + OffsetAt(zone, s) = local}
      BY DEF Shown
    <3> HIDE DEF zone, local, at
    <3>4. at \in Shown(zone, local)
      BY <3>1, <3>2, <3>3
    <3> QED BY <3>4 DEF zone, local, at
  <2>8. date * Day + time_of_day = ldt.at
    <3>1. Day \in Nat \ {0}
      BY <1>1, ZoneParts
    <3>2. date = ldt.at \div Day /\ time_of_day = ldt.at % Day
      BY <2>1 DEF date, time_of_day
    <3>3. PICK a \in Int, b \in Nat \ {0} : a = ldt.at /\ b = Day
      BY <2>1, <3>1
    <3>4. (a \div b) * b + (a % b) = a
      OBVIOUS
    <3> QED BY <3>2, <3>3, <3>4
  <2> QED BY <2>7, <2>8
<1> QED BY <1>2, <1>3 DEF LocalTimesAreExact, LocalIsExact

(* Where the offset is less in a later period, the clocks are set back in between. *)
LEMMA ClockSetBack ==
  ASSUME NEW zone \in Zones, NEW j \in 1 .. Len(zone), NEW k \in 1 .. Len(zone), j < k,
         NEW at \in Int, InPeriod(zone, j, at), zone[k].offset < zone[j].offset,
         NEW until \in Int, zone[k].at <= until
  PROVE  \E s \in at .. until - 1 : OffsetAt(zone, s) > OffsetAt(zone, s + 1)
<1> DEFINE Lower == {i \in 1 .. Len(zone) : j < i /\ zone[i].offset < zone[j].offset}
<1>0. /\ Len(zone) \in Nat \ {0} /\ Day \in Nat \ {0}
      /\ \A i \in 1 .. Len(zone) : zone[i].at \in Int /\ zone[i].offset \in Int
  BY ZoneParts
<1>1. PICK m \in Lower : \A i \in Lower : m <= i
  <2>1. k \in Lower
    OBVIOUS
  <2> QED BY <2>1, <1>0, LeastOf
<1>2. /\ m \in 1 .. Len(zone) /\ m - 1 \in 1 .. Len(zone) /\ m \in 2 .. Len(zone) /\ m <= k /\ j < m
      /\ zone[m].offset < zone[m - 1].offset
  <2>1. m \in 1 .. Len(zone) /\ m - 1 \in 1 .. Len(zone) /\ m \in 2 .. Len(zone) /\ m <= k /\ j < m
    BY <1>0, <1>1
  <2>2. m - 1 \notin Lower
    BY <1>1, <2>1
  <2>3. m - 1 = j \/ ~(zone[m - 1].offset < zone[j].offset)
    BY <2>1, <2>2
  <2>4. PICK o \in Int, p \in Int, q \in Int :
          o = zone[m].offset /\ p = zone[m - 1].offset /\ q = zone[j].offset
    BY <1>0, <2>1
  <2>5. o < q /\ (p = q \/ ~(p < q))
    BY <1>1, <2>3, <2>4
  <2>6. o < p
    BY <2>5
  <2>7. zone[m].offset < zone[m - 1].offset
    BY <2>4, <2>6, Zenon
  <2> QED BY <2>1, <2>7, Zenon
<1>3. PICK t \in Int : t = zone[m].at
  BY <1>0, <1>2
<1>4. PICK s \in Int : s = t - 1 /\ s + 1 = t
  OBVIOUS
<1>5. InPeriod(zone, m, t)
  <2>1. m < Len(zone) => zone[m].at < zone[m + 1].at
    BY <1>0, <1>2, Ascending
  <2> QED BY <1>3, <2>1 DEF InPeriod
<1>6. InPeriod(zone, m - 1, s)
  <2>1. PICK u \in Int : u = zone[m - 1].at
    BY <1>0, <1>2
  <2>2. u + 2 * Day < t
    BY <1>2, <1>3, <2>1, ZoneParts
  <2>3. u <= s /\ s < t /\ (m - 1) + 1 = m
    <3>1. PICK day \in Nat \ {0} : day = Day
      BY <1>0
    <3>2. u + 2 * day < t
      BY <2>2, <3>1
    <3> QED BY <1>2, <1>4, <3>2
  <2> QED BY <1>3, <2>1, <2>3 DEF InPeriod
<1>7. OffsetAt(zone, t) = zone[m].offset /\ OffsetAt(zone, s) = zone[m - 1].offset
  BY <1>2, <1>3, <1>4, <1>5, <1>6, OffsetInPeriod
<1>8. s \in at .. until - 1
  <2>1. at < t
    BY <1>2, <1>3, InOnePeriod
  <2>2. m = k \/ zone[m].at < zone[k].at
    BY <1>2, Ascending
  <2>3. PICK v \in Int : v = zone[k].at
    BY <1>0
  <2>4. t <= v /\ v <= until
    BY <1>3, <2>2, <2>3
  <2> QED BY <1>4, <2>1, <2>4
<1>9. OffsetAt(zone, s) > OffsetAt(zone, s + 1)
  BY <1>0, <1>2, <1>4, <1>7
<1> QED BY <1>8, <1>9

(* make_zoned_time() returns an instant. *)
LEMMA MadeInstant ==
  ASSUME NEW zone \in Zones, NEW local \in LocalTimes, NEW choose \in ChooseValues
  PROVE  make_zoned_time(zone, local, choose) \in Int
<1>1. \/ make_zoned_time(zone, local, choose) \in Shown(zone, local)
      \/ make_zoned_time(zone, local, choose) \in Skipped(zone, local)
  BY ExactLocal DEF LocalIsExact
<1>2. ASSUME NEW at \in Shown(zone, local) PROVE at \in Int
  BY ZoneParts, LocalReached DEF Shown
<1>3. ASSUME NEW at \in Skipped(zone, local) PROVE at \in Int
  BY ZoneParts DEF Skipped
<1> QED BY <1>1, <1>2, <1>3

(* A local time that goes back while the instant goes on is due to clocks set back. *)
LEMMA GoesBack ==
  ASSUME NEW zone \in Zones, NEW local \in LocalTimes, NEW at \in Instants,
         NEW j \in 1 .. Len(zone), InPeriod(zone, j, at), local < at + zone[j].offset,
         NEW made \in Int, made = make_zoned_time(zone, local, "EARLIEST"), at < made
  PROVE  \E s \in at .. made - 1 : OffsetAt(zone, s) > OffsetAt(zone, s + 1)
<1>0. /\ Len(zone) \in Nat \ {0} /\ at \in Int /\ local \in Int
      /\ \A i \in 1 .. Len(zone) : zone[i].at \in Int /\ zone[i].offset \in Int
  BY ZoneParts, InstantPeriod, LocalReached
<1>1. PICK o \in Int : o = zone[j].offset
  BY <1>0
<1>2. local < at + o
  BY <1>1
<1>3. CASE Shown(zone, local) # {}
  <2>1. made \in Shown(zone, local)
    BY <1>3, ExactLocal DEF LocalIsExact, ChooseValues
  <2>2. PICK k \in 1 .. Len(zone) : InPeriod(zone, k, made)
    <3>1. zone[1].at <= made
      BY <1>0, InOnePeriod
    <3> QED BY <3>1, PeriodFound
  <2>3. PICK p \in Int : p = zone[k].offset
    BY <1>0
  <2>4. made + p = local
    BY <2>1, <2>2, <2>3, OffsetInPeriod DEF Shown
  <2>5. p < o
    BY <1>0, <1>2, <2>4
  <2>6. zone[j].at <= made
    <3>1. PICK t \in Int : t = zone[j].at
      BY <1>0
    <3>2. t <= at
      BY <3>1 DEF InPeriod
    <3> QED BY <1>0, <3>1, <3>2
  <2>7. j <= k
    BY <2>2, <2>6, InOnePeriod
  <2>8. j # k
    BY <1>1, <2>3, <2>5
  <2>9. j < k /\ zone[k].offset < zone[j].offset /\ zone[k].at <= made
    BY <1>1, <2>2, <2>3, <2>5, <2>7, <2>8 DEF InPeriod
  <2> QED BY <1>0, <2>9, ClockSetBack
<1>4. CASE Shown(zone, local) = {}
  <2>1. made \in Skipped(zone, local)
    BY <1>4, ExactLocal DEF LocalIsExact, ChooseValues
  <2>2. PICK i \in 2 .. Len(zone) :
           made = zone[i].at /\ zone[i].at + zone[i - 1].offset <= local
    BY <2>1 DEF Skipped
  <2>3. i \in 1 .. Len(zone) /\ i - 1 \in 1 .. Len(zone)
    BY <1>0
  <2>4. PICK p \in Int : p = zone[i - 1].offset
    BY <1>0, <2>3
  <2>5. made + p <= local
    BY <2>2, <2>4
  <2>6. p < o
    BY <1>0, <1>2, <2>5
  <2>7. j < i
    BY <1>0, <2>2, <2>3, InOnePeriod
  <2>8. j # i - 1
    BY <1>1, <2>4, <2>6
  <2>9. j < i - 1 /\ zone[i - 1].offset < zone[j].offset
    BY <1>1, <2>3, <2>4, <2>6, <2>7, <2>8
  <2>10. zone[i - 1].at <= made
    <3>1. zone[i - 1].at < zone[i].at
      BY <2>3, Ascending
    <3> QED BY <1>0, <2>2, <2>3, <3>1
  <2> QED BY <1>0, <2>3, <2>9, <2>10, ClockSetBack
<1> QED BY <1>3, <1>4

LocalIsReckoned(zone, local) ==
  LET other == make_time(zone, local)
      between == LocalDifference(other, ldt)
  IN /\ LocalEqual(LocalPlus(ldt, between), other)
     /\ LocalMinus(LocalPlus(ldt, between), between) = ldt
     /\ LocalBefore(ldt, other) <=> between > 0
     /\ LocalAtMost(ldt, other) <=> ~LocalBefore(other, ldt)
     /\ zone = ldt.zone /\ local < local_time /\ LocalBefore(ldt, other) =>
          \E at \in ldt.at .. other.at - 1 : OffsetAt(zone, at) > OffsetAt(zone, at + 1)

SummerTimeFound ==
  LET summer == get_dst_times
      later == {i \in DOMAIN ldt.zone : ldt.zone[i].at > ldt.at}
  IN IF dst_on THEN summer.begin <= ldt.at /\ ldt.at < summer.end
     ELSE later # {} => summer.begin = ldt.zone[Min(later)].at
                        /\ \A i \in later : i # Min(later) => summer.end <= ldt.zone[i].at

LEMMA ComparedInstants ==
  ASSUME NEW x \in Int, NEW y \in Int, NEW c, c = IF x = y THEN 0 ELSE IF x < y THEN -1 ELSE 1
  PROVE  (c < 0 <=> x < y) /\ (c <= 0 <=> ~(y < x))
<1>1. CASE x = y
  BY <1>1
<1>2. CASE x < y
  BY <1>2
<1>3. CASE y < x
  <2>1. c = 1
    BY <1>3
  <2> QED BY <1>3, <2>1
<1> QED BY <1>1, <1>2, <1>3

LEMMA ReckonedLocal ==
  ASSUME LocalInv, IsNormal, NEW zone \in Zones, NEW local \in LocalTimes
  PROVE  LocalIsReckoned(zone, local)
<1> DEFINE other == make_time(zone, local)
           between == LocalDifference(other, ldt)
<1>1. PICK made \in Int : made = make_zoned_time(zone, local, "EARLIEST")
  BY MadeInstant DEF ChooseValues
<1>2. PICK at \in Instants : at = ldt.at /\ at \in Int
  BY LocalParts, InstantPeriod
<1>3. ldt = [type |-> "NORMAL", zone |-> ldt.zone, at |-> at] /\ ldt.zone \in Zones
  BY <1>2, LocalParts
<1>4. other = [type |-> "NORMAL", zone |-> zone, at |-> made] /\ other.at = made
  BY <1>1 DEF make_time, Normal
<1>5. between = made - at /\ between \in Int
  BY <1>2, <1>4 DEF LocalDifference
<1>6. LocalPlus(ldt, between) = [type |-> "NORMAL", zone |-> ldt.zone, at |-> made]
  <2>1. ldt.type = "NORMAL" /\ at + between = made
    BY <1>2, <1>3, <1>5
  <2> HIDE DEF between, other
  <2>2. LocalPlus(ldt, between) = [type |-> "NORMAL", zone |-> ldt.zone, at |-> at + between]
    BY <1>3, <2>1 DEF LocalPlus
  <2> QED BY <2>1, <2>2
<1>7. LocalMinus(LocalPlus(ldt, between), between) = ldt
  <2>1. made + -between = at
    BY <1>2, <1>5
  <2> HIDE DEF between, other
  <2> DEFINE there == [type |-> "NORMAL", zone |-> ldt.zone, at |-> made]
  <2>2. LocalMinus(there, between) = [type |-> "NORMAL", zone |-> ldt.zone, at |-> made + -between]
    BY DEF LocalMinus, LocalPlus
  <2> QED BY <1>3, <1>6, <2>1, <2>2
<1>8. /\ compare_with(ldt, other) = IF at = made THEN 0 ELSE IF at < made THEN -1 ELSE 1
      /\ compare_with(other, ldt) = IF made = at THEN 0 ELSE IF made < at THEN -1 ELSE 1
      /\ compare_with(LocalPlus(ldt, between), other) = 0
  <2>1. LocalPlus(ldt, between).at = made
    BY <1>6
  <2> HIDE DEF between, other
  <2> QED BY <1>2, <1>4, <2>1 DEF compare_with
<1>9. LocalBefore(ldt, other) <=> at < made
  BY <1>2, <1>8, ComparedInstants DEF LocalBefore
<1>10. LocalAtMost(ldt, other) <=> ~(made < at)
  BY <1>2, <1>8, ComparedInstants DEF LocalAtMost
<1>11. LocalBefore(other, ldt) <=> made < at
  BY <1>2, <1>8, ComparedInstants DEF LocalBefore
<1>12. ASSUME zone = ldt.zone, local < local_time, LocalBefore(ldt, other)
       PROVE  \E s \in ldt.at .. other.at - 1 : OffsetAt(zone, s) > OffsetAt(zone, s + 1)
  <2>1. PICK j \in 1 .. Len(zone) : InPeriod(zone, j, at) /\ local_time = at + zone[j].offset
    BY <1>2, <1>12, LocalParts
  <2>2. \E s \in at .. made - 1 : OffsetAt(zone, s) > OffsetAt(zone, s + 1)
    BY <1>1, <1>2, <1>9, <1>12, <2>1, GoesBack
  <2> QED BY <1>2, <1>4, <2>2
<1>13. LocalEqual(LocalPlus(ldt, between), other)
  BY <1>8 DEF LocalEqual
<1>14. LocalBefore(ldt, other) <=> between > 0
  BY <1>2, <1>5, <1>9
<1>15. LocalAtMost(ldt, other) <=> ~LocalBefore(other, ldt)
  BY <1>10, <1>11
<1> HIDE DEF between, other
<1> QED BY <1>7, <1>12, <1>13, <1>14, <1>15 DEF LocalIsReckoned, between, other

LEMMA SummerTime == LocalInv /\ IsNormal => SummerTimeFound
<1> SUFFICES ASSUME LocalInv, IsNormal PROVE SummerTimeFound
  OBVIOUS
<1>1. PICK zone \in Zones, at \in Instants :
        zone = ldt.zone /\ at = ldt.at /\ at \in Int /\ at < EndOfTime
  BY LocalParts, InstantPeriod
<1>2. PICK k \in 1 .. Len(zone) : InPeriod(zone, k, at) /\ get_sys_info(zone, at) = Info(zone, k)
  BY <1>1, LocalParts
<1>0. /\ Len(zone) \in Nat \ {0} /\ Day \in Nat \ {0} /\ EndOfTime \in Int /\ DOMAIN zone = 1 .. Len(zone)
      /\ \A i \in 1 .. Len(zone) :
           zone[i].at \in Int /\ zone[i].is_dst \in BOOLEAN /\ zone[i].at < EndOfTime
  BY ZoneParts
<1> DEFINE of == IF Info(zone, k).save THEN Info(zone, k) ELSE get_sys_info(zone, Info(zone, k).end + 1)
<1>3. get_dst_times = [begin |-> of.begin, end |-> of.end] /\ (dst_on <=> Info(zone, k).save = TRUE)
  <2>1. Info(zone, k).save = zone[k].is_dst
    BY DEF Info
  <2>2. get_dst_times = [begin |-> of.begin, end |-> of.end]
    BY <1>1, <1>2 DEF get_dst_times
  <2>3. dst_on <=> Info(zone, k).save = TRUE
    BY <1>0, <1>1, <1>2, <2>1 DEF dst_on
  <2> QED BY <2>2, <2>3
<1>4. Info(zone, k).save \in BOOLEAN /\ Info(zone, k).begin = zone[k].at
      /\ Info(zone, k).end = IF k < Len(zone) THEN zone[k + 1].at ELSE EndOfTime
  BY <1>0 DEF Info
<1>5. CASE Info(zone, k).save
  <2>1. of = Info(zone, k)
    BY <1>5
  <2>2. zone[k].at <= at /\ at < Info(zone, k).end
    BY <1>1, <1>2, <1>4 DEF InPeriod
  <2>3. dst_on /\ get_dst_times.begin = zone[k].at /\ get_dst_times.end = Info(zone, k).end
    BY <1>3, <1>4, <1>5, <2>1
  <2> QED BY <1>1, <2>2, <2>3 DEF SummerTimeFound
<1>6. CASE ~Info(zone, k).save
  <2> DEFINE later == {i \in DOMAIN ldt.zone : ldt.zone[i].at > ldt.at}
  <2>1. later \in SUBSET (1 .. Len(zone)) /\ \A i \in 1 .. Len(zone) : i \in later <=> k < i
    <3>1. \A i \in 1 .. Len(zone) : zone[i].at > at <=> at < zone[i].at
      BY <1>0, <1>1
    <3> QED BY <1>0, <1>1, <1>2, <3>1, InOnePeriod
  <2>2. ASSUME later # {}
        PROVE  get_dst_times.begin = zone[Min(later)].at
               /\ \A i \in later : i # Min(later) => get_dst_times.end <= zone[i].at
    <3> HIDE DEF later
    <3>1. PICK i0 \in 1 .. Len(zone) : k < i0
      BY <2>1, <2>2
    <3>2. PICK l \in 1 .. Len(zone) : l = k + 1 /\ k < Len(zone) /\ l \in later
      BY <1>0, <2>1, <3>1
    <3>3. \A i \in later : l <= i
      BY <2>1, <3>2
    <3>4. Min(later) = l
      BY <1>0, <2>1, <3>2, <3>3, MinIs
    <3>5. PICK t \in Int, n \in Int : t = zone[l].at /\ n = t + 1
      BY <1>0, <3>2
    <3>6. InPeriod(zone, l, n)
      <4>1. ASSUME l < Len(zone) PROVE n < zone[l + 1].at
        <5>1. PICK u \in Int : u = zone[l + 1].at /\ l + 1 \in 1 .. Len(zone)
          BY <1>0, <4>1
        <5>2. t + 2 * Day < u
          BY <3>2, <3>5, <5>1, Ascending DEF Apart
        <5>3. n < u
          <6>1. Day \in Nat \ {0}
            BY <1>0
          <6>2. t + 1 < u
            BY <5>2, <6>1, TwiceAfter, Zenon
          <6> QED BY <3>5, <6>2, Zenon
        <5> QED BY <5>1, <5>3
      <4>2. zone[l].at <= n
        BY <3>5
      <4> QED BY <4>1, <4>2 DEF InPeriod
    <3>7. of = Info(zone, l)
      <4>1. Info(zone, k).end + 1 = n
        BY <1>4, <3>2, <3>5
      <4> QED BY <1>6, <3>5, <3>6, <4>1, InfoOfInstant
    <3>8. /\ get_dst_times.begin = zone[l].at
          /\ get_dst_times.end = IF l < Len(zone) THEN zone[l + 1].at ELSE EndOfTime
      <4> HIDE DEF of
      <4> QED BY <1>3, <3>7 DEF Info
    <3>9. ASSUME NEW i \in later, i # l PROVE get_dst_times.end <= zone[i].at
      <4>1. i \in 1 .. Len(zone) /\ l < i /\ l < Len(zone) /\ l + 1 \in 1 .. Len(zone) /\ (l + 1 = i \/ l + 1 < i)
        BY <1>0, <2>1, <3>3, <3>9
      <4>2. l + 1 = i \/ zone[l + 1].at < zone[i].at
        BY <4>1, Ascending
      <4> QED BY <1>0, <3>8, <4>1, <4>2
    <3> QED BY <3>4, <3>8, <3>9
  <2>3. ~dst_on
    BY <1>3, <1>6
  <2> HIDE DEF later
  <2> QED BY <1>1, <2>2, <2>3 DEF SummerTimeFound, later
<1> QED BY <1>4, <1>5, <1>6

LEMMA SoundLocals == LocalInv => LocalTimesAreSound
<1> SUFFICES ASSUME LocalInv PROVE LocalTimesAreSound
  OBVIOUS
<1>1. LocalTimesAreExact
  BY ExactLocals
<1>2. IsNormal => \A zone \in Zones, local \in LocalTimes : LocalIsReckoned(zone, local)
  BY ReckonedLocal
<1>3. LocalTimesAreReckoned
  BY <1>2, SummerTime DEF LocalTimesAreReckoned, LocalIsReckoned, SummerTimeFound
<1> QED BY <1>1, <1>3 DEF LocalTimesAreSound

(* In every zone that keeps its offsets for more than two days, a local time becomes the
   instant that was asked for, or the end of the gap that it falls into; instants go
   back to their local times and are reckoned with (LocalDateTime.cpp:82-254, 357-597,
   tz.cpp).                                                                           *)
THEOREM LocalTimesSound == LocalSpec => []LocalTimesAreSound
<1>1. LocalInit => LocalInv
  BY LocalInitInv
<1>2. LocalInv /\ [LocalNext]_ldt => LocalInv'
  BY LocalNextInv
<1>3. LocalInv => LocalTimesAreSound
  BY SoundLocals
<1> QED BY <1>1, <1>2, <1>3, PTL DEF LocalSpec

-----------------------------------------------------------------------------
(* CivilDate, for every date. *)

LEMMA ShortYears ==
  ASSUME NEW y \in Int, NEW n \in Int
  PROVE  /\ Short(y) \in Int /\ Short(y) >= -32768 /\ Short(y) <= 32767
         /\ y >= -32768 /\ y <= 32767 => Short(y) = y
         /\ Short(Short(y) + n) = Short(y + n)
         /\ Short(Short(y)) = Short(y)
<1> DEFINE x == y + 32768
           k == x \div 65536
           rest == x % 65536
           s == rest - 32768
<1>1. Short(y) = s
  BY DEF Short
<1>2. x = 65536 * k + rest /\ k \in Int /\ rest \in Nat /\ rest <= 65535
  <2>1. x \in Int
    OBVIOUS
  <2> HIDE DEF x
  <2> QED BY <2>1
<1> HIDE DEF k, rest
<1>3. s \in Int /\ s >= -32768 /\ s <= 32767 /\ y = s + 65536 * k
  BY <1>2
<1> HIDE DEF x, s
<1>4. y >= -32768 /\ y <= 32767 => y = s
  BY <1>2, <1>3
<1>5. ASSUME NEW i \in Int
      PROVE  Short(s + i) = Short(y + i)
  <2>1. (y + i) + 32768 = ((s + i) + 32768) + 65536 * k
    BY <1>2, <1>3
  <2> DEFINE u == (s + i) + 32768
             w == (y + i) + 32768
  <2>2. w = u + 65536 * k /\ u \in Int
    BY <1>3, <2>1
  <2>3. Short(s + i) = (u % 65536) - 32768 /\ Short(y + i) = (w % 65536) - 32768
    BY DEF Short
  <2> HIDE DEF u, w
  <2>4. w % 65536 = u % 65536
    BY <1>2, <2>2
  <2> QED BY <2>3, <2>4
<1>6. Short(s) = Short(y)
  <2>1. s + 0 = s /\ y + 0 = y
    BY <1>3
  <2> QED BY <1>5, <2>1
<1> QED BY <1>1, <1>3, <1>4, <1>5, <1>6

\* Of the months with numbers c and c + n
YearOfMonth(c) == c \div 12
MonthOfYear(c) == (c % 12) + 1

LEMMA MonthNumbers ==
  ASSUME NEW c \in Int
  PROVE  /\ YearOfMonth(c) \in Int /\ MonthOfYear(c) \in 1 .. 12
         /\ c = 12 * YearOfMonth(c) + MonthOfYear(c) - 1
BY SMT DEF YearOfMonth, MonthOfYear

LEMMA NumberOfMonth ==
  ASSUME NEW y \in Int, NEW m \in 1 .. 12
  PROVE  YearOfMonth(12 * y + m - 1) = y /\ MonthOfYear(12 * y + m - 1) = m
BY SMT DEF YearOfMonth, MonthOfYear

\* The months between a month of a year and the first one, and the year it is that far on.
LEMMA MonthsOn ==
  ASSUME NEW m \in 1 .. 12, NEW n \in Int
  PROVE  LET dmi == m - 1 + n
             dy  == Quotient(IF dmi >= 0 THEN dmi ELSE dmi - 11, 12)
         IN dy = YearOfMonth(dmi) /\ dmi - dy * 12 + 1 = MonthOfYear(dmi)
BY SMT DEF Quotient, YearOfMonth, MonthOfYear

LEMMA MonthAdded ==
  ASSUME NEW c \in Int, NEW n \in Int
  PROVE  LET dmi == MonthOfYear(c) - 1 + n
         IN /\ YearOfMonth(c) + YearOfMonth(dmi) = YearOfMonth(c + n)
            /\ MonthOfYear(dmi) = MonthOfYear(c + n)
            /\ YearOfMonth(dmi) \in Int
BY SMT DEF YearOfMonth, MonthOfYear

LEMMA YearsAdded ==
  ASSUME NEW c \in Int, NEW n \in Int
  PROVE  /\ YearOfMonth(c + 12 * n) = YearOfMonth(c) + n
         /\ MonthOfYear(c + 12 * n) = MonthOfYear(c)
BY SMT DEF YearOfMonth, MonthOfYear

(* What x / y makes of a year and a month, and of the two and an end. *)
YearMonth(y, m) == [year |-> y, month |-> m]
DateIn(y, m, e, v) ==
  [p \in {"year", "month", e} |-> IF p = "year" THEN y ELSE IF p = "month" THEN m ELSE v]

LEMMA MonthOfAYear ==
  ASSUME NEW y, NEW m
  PROVE  Slash(Only("year", y), Only("month", m)) = YearMonth(y, m)
<1>1. Joined(Only("year", y), Only("month", m)) = YearMonth(y, m)
  BY DEF Joined, YearMonth, Only
<1>2. DOMAIN Only("year", y) = {"year"} /\ DOMAIN Only("month", m) = {"month"}
  BY DEF Only
<1> QED BY <1>1, <1>2 DEF Slash, Accepted, AnInt

LEMMA JoinedEnd ==
  ASSUME NEW y, NEW m, NEW e \in DateEnds, NEW v
  PROVE  Joined(YearMonth(y, m), Only(e, v)) = DateIn(y, m, e, v)
BY DEF Joined, Only, DateEnds, YearMonth, DateIn

LEMMA EndOfAMonth ==
  ASSUME NEW y, NEW m, NEW e \in DateEnds, NEW v
  PROVE  Slash(YearMonth(y, m), Only(e, v)) = DateIn(y, m, e, v)
<1>1. DOMAIN YearMonth(y, m) = {"year", "month"} /\ DOMAIN Only(e, v) = {e}
  BY DEF YearMonth, Only
<1>2. {e} # AnInt /\ {"year", "month"} # AnInt
  BY DEF AnInt, DateEnds
<1>3. Accepted({"year", "month"}, {e})
  BY DEF Accepted
<1> QED BY <1>1, <1>2, <1>3, JoinedEnd DEF Slash

LEMMA PartsOfDate ==
  ASSUME NEW y, NEW m, NEW e \in DateEnds, NEW v
  PROVE  /\ DateIn(y, m, e, v).year = y /\ DateIn(y, m, e, v).month = m
         /\ DateIn(y, m, e, v)[e] = v
BY DEF DateIn, DateEnds

LEMMA MonthInDate ==
  ASSUME NEW y, NEW m, NEW e \in DateEnds, NEW v
  PROVE  YearMonthIn(DateIn(y, m, e, v)) = YearMonth(y, m)
BY DEF DateIn, DateEnds, YearMonthIn, YearMonth

LEMMA NamesInDate ==
  ASSUME NEW y, NEW m, NEW e \in DateEnds, NEW v
  PROVE  DOMAIN DateIn(y, m, e, v) = {"year", "month", e}
BY DEF DateIn

LEMMA OtherYear ==
  ASSUME NEW y, NEW m, NEW e \in DateEnds, NEW v, NEW z
  PROVE  [DateIn(y, m, e, v) EXCEPT !.year = z] = DateIn(z, m, e, v)
BY DEF DateIn, DateEnds

\* The month with number c, as a program has it.
MonthWith(c) == YearMonth(Short(YearOfMonth(c)), MonthOfYear(c))
DateWith(c, e, v) == DateIn(Short(YearOfMonth(c)), MonthOfYear(c), e, v)

LEMMA MonthMoves ==
  ASSUME NEW c \in Int, NEW n \in Int
  PROVE  YearMonthPlus(MonthWith(c), n) = MonthWith(c + n)
<1> DEFINE m == MonthOfYear(c)
           y == YearOfMonth(c)
           dmi == m - 1 + n
           dy == Quotient(IF dmi >= 0 THEN dmi ELSE dmi - 11, 12)
<1>1. y \in Int /\ m \in 1 .. 12
  BY MonthNumbers
<1>2. dy = YearOfMonth(dmi) /\ dmi - dy * 12 + 1 = MonthOfYear(dmi)
  <2> HIDE DEF m
  <2> QED BY <1>1, MonthsOn
<1>3. y + YearOfMonth(dmi) = YearOfMonth(c + n) /\ MonthOfYear(dmi) = MonthOfYear(c + n)
      /\ YearOfMonth(dmi) \in Int
  BY MonthAdded
<1>4. YearPlus(Short(y), YearOfMonth(dmi)) = Short(YearOfMonth(c + n))
  <2>1. \A k \in Int : Short(Short(y) + k) = Short(y + k)
    <3> HIDE DEF y
    <3> QED BY <1>1, ShortYears
  <2> HIDE DEF y, dmi
  <2> QED BY <1>3, <2>1 DEF YearPlus
<1>5. MonthWith(c).year = Short(y) /\ MonthWith(c).month = m
  BY DEF MonthWith, YearMonth
<1>6. YearMonthPlus(MonthWith(c), n)
        = Slash(Only("year", Short(YearPlus(Short(y), dy))), Only("month", dmi - dy * 12 + 1))
  BY <1>5 DEF YearMonthPlus, YearPart, MonthPart
<1>7. Short(Short(YearOfMonth(c + n))) = Short(YearOfMonth(c + n))
  <2>1. c + n \in Int
    OBVIOUS
  <2>2. YearOfMonth(c + n) \in Int
    BY <2>1, MonthNumbers
  <2> QED BY <2>2, ShortYears
<1> HIDE DEF y, m, dmi, dy
<1> QED BY <1>2, <1>3, <1>4, <1>6, <1>7, MonthOfAYear DEF MonthWith

LEMMA MonthMovesByYears ==
  ASSUME NEW c \in Int, NEW n \in Int
  PROVE  YearPlus(Short(YearOfMonth(c)), n) = Short(YearOfMonth(c + 12 * n))
         /\ MonthOfYear(c + 12 * n) = MonthOfYear(c)
<1>1. YearOfMonth(c) \in Int
  BY MonthNumbers
<1>2. Short(Short(YearOfMonth(c)) + n) = Short(YearOfMonth(c) + n)
  BY <1>1, ShortYears
<1>3. /\ YearOfMonth(c + 12 * n) = YearOfMonth(c) + n
      /\ MonthOfYear(c + 12 * n) = MonthOfYear(c)
  BY YearsAdded
<1> QED BY <1>2, <1>3 DEF YearPlus

LEMMA DateHas ==
  ASSUME NEW c, NEW e \in DateEnds, NEW w
  PROVE  /\ DateWith(c, e, w).year = Short(YearOfMonth(c)) /\ DateWith(c, e, w).month = MonthOfYear(c)
         /\ DateWith(c, e, w)[e] = w
<1> DEFINE y == Short(YearOfMonth(c))
           m == MonthOfYear(c)
<1> HIDE DEF y, m
<1>1. /\ DateIn(y, m, e, w).year = y /\ DateIn(y, m, e, w).month = m
      /\ DateIn(y, m, e, w)[e] = w
  BY PartsOfDate
<1> QED BY <1>1 DEF DateWith, y, m

LEMMA EndJoins ==
  ASSUME NEW c, NEW e \in DateEnds, NEW w
  PROVE  Slash(MonthWith(c), Only(e, w)) = DateWith(c, e, w)
BY EndOfAMonth DEF DateWith, MonthWith

LEMMA MonthOfDateMoves ==
  ASSUME NEW c \in Int, NEW n \in Int, NEW e \in DateEnds, NEW w
  PROVE  YearMonthPlus(YearMonthIn(DateWith(c, e, w)), n) = MonthWith(c + n)
<1>1. YearMonthIn(DateWith(c, e, w)) = MonthWith(c)
  BY MonthInDate DEF DateWith, MonthWith
<1> QED BY <1>1, MonthMoves

LEMMA DatesMove ==
  ASSUME NEW c \in Int, NEW n \in Int, NEW v
  PROVE  /\ DatePlusMonths(DateWith(c, "day", v), n) = DateWith(c + n, "day", v)
         /\ LastPlusMonths(DateWith(c, "last", "last"), n) = DateWith(c + n, "last", "last")
         /\ LastNthPlusMonths(DateWith(c, "lastNth", v), n) = DateWith(c + n, "lastNth", v)
<1>1. DatePlusMonths(DateWith(c, "day", v), n) = DateWith(c + n, "day", v)
  <2>1. YearMonthPlus(YearMonthIn(DateWith(c, "day", v)), n) = MonthWith(c + n)
    BY MonthOfDateMoves DEF DateEnds
  <2>2. DateWith(c, "day", v).day = v
    BY DateHas DEF DateEnds
  <2>3. Slash(MonthWith(c + n), Only("day", v)) = DateWith(c + n, "day", v)
    BY EndJoins DEF DateEnds
  <2> QED BY <2>1, <2>2, <2>3 DEF DayPart, DatePlusMonths
<1>2. LastPlusMonths(DateWith(c, "last", "last"), n) = DateWith(c + n, "last", "last")
  <2>1. YearMonthPlus(YearMonthIn(DateWith(c, "last", "last")), n) = MonthWith(c + n)
    BY MonthOfDateMoves DEF DateEnds
  <2>2. Slash(MonthWith(c + n), Only("last", "last")) = DateWith(c + n, "last", "last")
    BY EndJoins DEF DateEnds
  <2> QED BY <2>1, <2>2 DEF LastSpec, LastPlusMonths
<1>3. LastNthPlusMonths(DateWith(c, "lastNth", v), n) = DateWith(c + n, "lastNth", v)
  <2>1. YearMonthPlus(YearMonthIn(DateWith(c, "lastNth", v)), n) = MonthWith(c + n)
    BY MonthOfDateMoves DEF DateEnds
  <2>2. DateWith(c, "lastNth", v).lastNth = v
    BY DateHas DEF DateEnds
  <2>3. Slash(MonthWith(c + n), Only("lastNth", v)) = DateWith(c + n, "lastNth", v)
    BY EndJoins DEF DateEnds
  <2> QED BY <2>1, <2>2, <2>3 DEF LastNth, LastNthPlusMonths
<1> QED BY <1>1, <1>2, <1>3

LEMMA EndKeptByYears ==
  ASSUME NEW c \in Int, NEW n \in Int, NEW e \in DateEnds, NEW w
  PROVE  [DateWith(c, e, w) EXCEPT !.year = YearPlus(@, n)] = DateWith(c + 12 * n, e, w)
<1> DEFINE y == Short(YearOfMonth(c))
           m == MonthOfYear(c)
           z == YearPlus(y, n)
<1>1. z = Short(YearOfMonth(c + 12 * n)) /\ m = MonthOfYear(c + 12 * n)
  BY MonthMovesByYears
<1>2. DateWith(c, e, w) = DateIn(y, m, e, w) /\ DateWith(c + 12 * n, e, w) = DateIn(z, m, e, w)
  BY <1>1 DEF DateWith
<1> HIDE DEF y, m
<1>3. DateIn(y, m, e, w).year = y
  BY PartsOfDate
<1>4. [DateIn(y, m, e, w) EXCEPT !.year = YearPlus(@, n)]
        = [DateIn(y, m, e, w) EXCEPT !.year = YearPlus(DateIn(y, m, e, w).year, n)]
  OBVIOUS
<1>5. YearPlus(DateIn(y, m, e, w).year, n) = z
  BY <1>3
<1>6. [DateIn(y, m, e, w) EXCEPT !.year = z] = DateIn(z, m, e, w)
  <2> HIDE DEF z
  <2> QED BY OtherYear
<1> QED BY <1>2, <1>4, <1>5, <1>6

LEMMA NthMoves ==
  ASSUME NEW c \in Int, NEW n \in Int, NEW w, w = <<w[1], w[2]>>
  PROVE  /\ NthPlusMonths(DateWith(c, "nth", w), n) = DateWith(c + n, "nth", w)
         /\ NthPlusYears(DateWith(c, "nth", w), n) = DateWith(c + 12 * n, "nth", w)
<1>1. YearMonthPlus(YearMonthIn(DateWith(c, "nth", w)), n) = MonthWith(c + n)
  BY MonthOfDateMoves DEF DateEnds
<1>2. DateWith(c, "nth", w).nth = w
  BY DateHas DEF DateEnds
<1>3. Slash(MonthWith(c + n), Only("nth", w)) = DateWith(c + n, "nth", w)
  BY EndJoins DEF DateEnds
<1>4. NthPlusMonths(DateWith(c, "nth", w), n) = Slash(MonthWith(c + n), Nth(w[1], w[2]))
  BY <1>1, <1>2 DEF NthPlusMonths
<1>5. Nth(w[1], w[2]) = Only("nth", w)
  BY DEF Nth
<1>6. NthPlusYears(DateWith(c, "nth", w), n) = DateWith(c + 12 * n, "nth", w)
  BY EndKeptByYears DEF NthPlusYears, DateEnds
<1> QED BY <1>3, <1>4, <1>5, <1>6

LEMMA DatesMoveByYears ==
  ASSUME NEW c \in Int, NEW n \in Int, NEW v
  PROVE  /\ DatePlusYears(DateWith(c, "day", v), n) = DateWith(c + 12 * n, "day", v)
         /\ LastPlusYears(DateWith(c, "last", "last"), n) = DateWith(c + 12 * n, "last", "last")
         /\ LastNthPlusYears(DateWith(c, "lastNth", v), n) = DateWith(c + 12 * n, "lastNth", v)
<1> DEFINE y == Short(YearOfMonth(c))
           m == MonthOfYear(c)
           z == YearPlus(y, n)
           when == DateWith(c, "day", v)
<1>1. z = Short(YearOfMonth(c + 12 * n)) /\ m = MonthOfYear(c + 12 * n)
  BY MonthMovesByYears
<1>2. Short(z) = z
  <2>1. c + 12 * n \in Int
    OBVIOUS
  <2>2. YearOfMonth(c + 12 * n) \in Int
    BY <2>1, MonthNumbers
  <2> QED BY <1>1, <2>2, ShortYears
<1>3. when = DateIn(y, m, "day", v) /\ DateWith(c + 12 * n, "day", v) = DateIn(z, m, "day", v)
  BY <1>1 DEF DateWith
<1>4. DatePlusYears(when, n) = DateWith(c + 12 * n, "day", v)
  <2> HIDE DEF y, m, when
  <2>1. when.year = y /\ when.month = m /\ when.day = v
    BY DateHas DEF DateEnds, y, m, when
  <2>2. DatePlusYears(when, n) = Slash(Slash(YearPart(z), MonthPart(m)), DayPart(v))
    BY <2>1 DEF DatePlusYears
  <2> HIDE DEF z
  <2>3. Slash(YearPart(z), MonthPart(m)) = YearMonth(z, m)
    BY <1>2, MonthOfAYear DEF YearPart, MonthPart
  <2>4. Slash(YearMonth(z, m), DayPart(v)) = DateIn(z, m, "day", v)
    BY EndOfAMonth DEF DateEnds, DayPart
  <2> QED BY <1>3, <2>2, <2>3, <2>4
<1>5. LastPlusYears(DateWith(c, "last", "last"), n) = DateWith(c + 12 * n, "last", "last")
  BY EndKeptByYears DEF LastPlusYears, DateEnds
<1>6. LastNthPlusYears(DateWith(c, "lastNth", v), n) = DateWith(c + 12 * n, "lastNth", v)
  BY EndKeptByYears DEF LastNthPlusYears, DateEnds
<1> QED BY <1>4, <1>5, <1>6

(* Every number is that of a day that there is. *)
LEMMA WeekdayIs ==
  ASSUME NEW n \in Int
  PROVE  weekday_from_days(n) = (n + 4) % 7 /\ weekday_from_days(n) \in 0 .. 6
BY SMT DEF weekday_from_days

LEMMA DayIsInMonth ==
  ASSUME NEW n \in Int
  PROVE  /\ from_days(n).year \in Int /\ from_days(n).month \in 1 .. 12
         /\ from_days(n).day \in 1 .. DaysInMonth(from_days(n).year, from_days(n).month)
         /\ from_days(n).day \in 1 .. 31
         /\ to_days(from_days(n).year, from_days(n).month, from_days(n).day) = n
         /\ from_days(n) = [year |-> from_days(n).year, month |-> from_days(n).month,
                            day |-> from_days(n).day]
<1> DEFINE s == n + 719468
<1>0. s \in Int /\ s = n + 719468
  BY SMT
<1>12. s \in Int
  BY <1>0
<1> HIDE DEF s
<1>10. PICK y \in Int, doy \in MarchDays : IsMarchDay(s, y, doy)
  BY <1>12, MarchDayOfNumber, Zenon
<1>13. doy \in 0 .. 365
  BY DEF MarchDays
<1>11. s = MarchNumber(y, doy) /\ HasMarchDay(y, doy)
  BY <1>10, Zenon DEF IsMarchDay
<1>1. n + 719468 = s /\ s = MarchNumber(y, doy)
  BY <1>0, <1>11
<1> DEFINE mp == Quotient(5 * doy + 2, 153)
           Y == IF mp < 10 THEN y ELSE y + 1
           M == IF mp < 10 THEN mp + 3 ELSE mp - 9
           D == doy - Quotient(153 * mp + 2, 5) + 1
<1>2. from_days(n) = [year |-> Y, month |-> M, day |-> D]
  <2>1. MarchNumber(y, doy) = EraNumber(y, doy) /\ SinceMarch(MarchNumber(y, doy)) = InYear(y, doy)
    BY <1>11, <1>13, MarchYears, Zenon
  <2> QED BY <1>1, <1>13, <2>1, SMT DEF from_days, InYear, InMonth
<1>3. /\ mp \in 0 .. 11 /\ D \in 1 .. 31
      /\ mp \in {1, 3, 6, 8} => D <= 30
      /\ mp = 11 => D <= 29 /\ (D = 29 => doy = 365)
  BY <1>13, SMT DEF Quotient
<1> HIDE DEF mp, D
<1>4. Y \in Int /\ M \in 1 .. 12 /\ (mp = 11 => Y = y + 1 /\ M = 2)
      /\ (mp \in {1, 3, 6, 8} <=> M \in {4, 6, 9, 11}) /\ (mp = 11 <=> M = 2)
  BY <1>3
<1> HIDE DEF Y, M
<1>5. DaysInMonth(Y, M) = IF M = 2 THEN IF IsLeapYear(Y) THEN 29 ELSE 28
                          ELSE IF M \in {4, 6, 9, 11} THEN 30 ELSE 31
  BY <1>4 DEF DaysInMonth
<1>6. D <= DaysInMonth(Y, M) /\ DaysInMonth(Y, M) \in Int
  <2>1. doy = 365 => IsLeapYear(y + 1)
    BY <1>11 DEF HasMarchDay
  <2> QED BY <2>1, <1>3, <1>4, <1>5
<1>7. to_days(from_days(n).year, from_days(n).month, from_days(n).day) = n
  BY NumberAndDay
<1> QED BY <1>2, <1>3, <1>4, <1>6, <1>7

(* The dates that a program moves are of the month that is counted; which day, and which
   weekday, of it they are does not change.                                             *)
CivilDatesWith(c, d, w) ==
  [day |-> DateWith(c, "day", d), last |-> DateWith(c, "last", "last"),
   nth |-> DateWith(c, "nth", w), lastNth |-> DateWith(c, "lastNth", w[1])]

CivilNths == (0 .. 6) \X (1 .. 5)

CivilInv ==
  /\ counted \in Int
  /\ \E d \in 1 .. 31, w \in CivilNths : civil = CivilDatesWith(counted, d, w)

LEMMA CivilInitInv == CivilInit => CivilInv
<1> SUFFICES ASSUME CivilInit PROVE CivilInv
  OBVIOUS
<1> DEFINE wdi(first) == NthDate(DateToDays(first)).nth
<1>1. PICK first \in CivilDays :
        /\ civil = [day |-> first, last |-> Slash(YearMonthIn(first), LastSpec),
                    nth |-> Joined(YearMonthIn(first), Nth(wdi(first)[1], wdi(first)[2])),
                    lastNth |-> Joined(YearMonthIn(first), LastNth(wdi(first)[1]))]
        /\ counted = first.year * 12 + first.month - 1
  BY DEF CivilInit
<1> DEFINE y == first.year
           m == first.month
           d == first.day
           n == DateToDays(first)
           wd == weekday_from_days(n)
           i == Quotient(from_days(n).day - 1, 7) + 1
<1>2. /\ y \in Int /\ Short(y) = y /\ m \in 1 .. 12 /\ d \in 1 .. 31
      /\ first = [year |-> y, month |-> m, day |-> d]
  BY CivilAssumption
<1>4. n \in Int
  <2>1. n = EraNumber(MarchYear(y, m), MarchDay(m, d)) - 719468
    <3>1. n = to_days(y, m, d)
      BY DEF DateToDays
    <3>2. d \in Int
      BY <1>2
    <3> HIDE DEF y, m, d, n
    <3> QED BY <1>2, <3>1, <3>2, ToDays
  <2>2. MarchYear(y, m) \in Int /\ MarchDay(m, d) \in Int
    <3> HIDE DEF y, m, d
    <3> QED BY <1>2 DEF MarchYear, MarchDay, Quotient
  <2>3. ASSUME NEW z \in Int, NEW doy \in Int
        PROVE  EraNumber(z, doy) - 719468 \in Int
    BY SMT DEF EraNumber, Quotient
  <2> HIDE DEF y, m, d, n
  <2> QED BY <2>1, <2>2, <2>3
<1> DEFINE w == wdi(first)
<1>5. w = <<wd, i>> /\ w[1] = wd /\ w[2] = i
  BY DEF NthDate
<1> HIDE DEF n
<1>6. wd \in 0 .. 6 /\ i \in 1 .. 5
  <2>1. from_days(n).day \in 1 .. 31
    BY <1>4, DayIsInMonth
  <2>2. wd \in 0 .. 6
    BY <1>4, WeekdayIs
  <2> QED BY <2>1, <2>2, SMT DEF Quotient
<1> HIDE DEF wd, i
<1>7. w \in CivilNths
  <2> HIDE DEF w
  <2> QED BY <1>5, <1>6 DEF CivilNths
<1>8. civil = [day |-> first, last |-> Slash(YearMonthIn(first), LastSpec),
               nth |-> Joined(YearMonthIn(first), Only("nth", w)),
               lastNth |-> Joined(YearMonthIn(first), Only("lastNth", w[1]))]
  <2>1. Nth(w[1], w[2]) = Only("nth", w)
    BY <1>5 DEF Nth
  <2> QED BY <1>1, <2>1 DEF LastNth
<1> HIDE DEF wdi, y, m, d, w
<1>9. YearOfMonth(counted) = y /\ MonthOfYear(counted) = m /\ Short(y) = y /\ counted \in Int
  <2>1. counted = y * 12 + m - 1
    BY <1>1 DEF y, m
  <2>2. counted = 12 * y + m - 1 /\ counted \in Int
    BY <1>2, <2>1
  <2> QED BY <2>2, <1>2, NumberOfMonth
<1>10. ASSUME NEW e \in DateEnds, NEW v
       PROVE  DateWith(counted, e, v) = DateIn(y, m, e, v)
  BY <1>9 DEF DateWith
<1>11. YearMonthIn(first) = YearMonth(y, m)
  BY DEF YearMonthIn, YearMonth, y, m
<1>12. civil = [day |-> DateIn(y, m, "day", d), last |-> DateIn(y, m, "last", "last"),
                nth |-> DateIn(y, m, "nth", w), lastNth |-> DateIn(y, m, "lastNth", w[1])]
  <2>1. first = DateIn(y, m, "day", d)
    BY <1>2 DEF DateIn
  <2>2. Slash(YearMonth(y, m), LastSpec) = DateIn(y, m, "last", "last")
    BY EndOfAMonth DEF LastSpec, DateEnds
  <2>3. Joined(YearMonth(y, m), Only("nth", w)) = DateIn(y, m, "nth", w)
    BY JoinedEnd DEF DateEnds
  <2>4. Joined(YearMonth(y, m), Only("lastNth", w[1])) = DateIn(y, m, "lastNth", w[1])
    BY JoinedEnd DEF DateEnds
  <2> QED BY <1>8, <1>11, <2>1, <2>2, <2>3, <2>4
<1>13. civil = CivilDatesWith(counted, d, w)
  BY <1>10, <1>12 DEF CivilDatesWith, DateEnds
<1> QED BY <1>2, <1>7, <1>9, <1>13 DEF CivilInv

LEMMA CivilNextInv == CivilInv /\ [CivilNext]_civilVars => CivilInv'
<1> SUFFICES ASSUME CivilInv, [CivilNext]_civilVars PROVE CivilInv'
  OBVIOUS
<1>1. PICK d \in 1 .. 31, w \in CivilNths : civil = CivilDatesWith(counted, d, w)
  BY DEF CivilInv
<1>2. counted \in Int
  BY DEF CivilInv
<1>3. /\ civil.day = DateWith(counted, "day", d)
      /\ civil.last = DateWith(counted, "last", "last")
      /\ civil.nth = DateWith(counted, "nth", w)
      /\ civil.lastNth = DateWith(counted, "lastNth", w[1])
  BY <1>1 DEF CivilDatesWith
<1>4. CASE UNCHANGED civilVars
  BY <1>4 DEF civilVars, CivilInv
<1>5. CASE \E n \in MonthSteps : AddMonths(n)
  <2>1. PICK n \in MonthSteps : AddMonths(n)
    BY <1>5
  <2>2. n \in Int
    BY CivilAssumption
  <2>3. counted' = counted + n /\ counted' \in Int
    BY <1>2, <2>1, <2>2 DEF AddMonths
  <2>4. /\ DatePlusMonths(civil.day, n) = DateWith(counted + n, "day", d)
        /\ LastPlusMonths(civil.last, n) = DateWith(counted + n, "last", "last")
        /\ LastNthPlusMonths(civil.lastNth, n) = DateWith(counted + n, "lastNth", w[1])
    <3>1. \A v : /\ DatePlusMonths(DateWith(counted, "day", v), n) = DateWith(counted + n, "day", v)
                 /\ LastPlusMonths(DateWith(counted, "last", "last"), n) = DateWith(counted + n, "last", "last")
                 /\ LastNthPlusMonths(DateWith(counted, "lastNth", v), n) = DateWith(counted + n, "lastNth", v)
      BY <1>2, <2>2, DatesMove
    <3> QED BY <1>3, <3>1
  <2>5. NthPlusMonths(civil.nth, n) = DateWith(counted + n, "nth", w)
    <3>1. w = <<w[1], w[2]>> /\ w[1] \in 0 .. 6 /\ w[2] \in 1 .. 5
      BY DEF CivilNths
    <3> QED BY <1>2, <1>3, <2>2, <3>1, NthMoves
  <2>6. civil' = CivilDatesWith(counted + n, d, w)
    BY <2>1, <2>4, <2>5 DEF AddMonths, CivilDatesWith
  <2> QED BY <1>1, <2>3, <2>6 DEF CivilInv
<1>6. CASE \E n \in YearSteps : AddYears(n)
  <2>1. PICK n \in YearSteps : AddYears(n)
    BY <1>6
  <2>2. n \in Int
    BY CivilAssumption
  <2>3. counted' = counted + 12 * n /\ counted' \in Int
    BY <1>2, <2>1, <2>2 DEF AddYears
  <2>4. /\ DatePlusYears(civil.day, n) = DateWith(counted + 12 * n, "day", d)
        /\ LastPlusYears(civil.last, n) = DateWith(counted + 12 * n, "last", "last")
        /\ LastNthPlusYears(civil.lastNth, n) = DateWith(counted + 12 * n, "lastNth", w[1])
    <3>1. \A v : /\ DatePlusYears(DateWith(counted, "day", v), n) = DateWith(counted + 12 * n, "day", v)
                 /\ LastPlusYears(DateWith(counted, "last", "last"), n)
                      = DateWith(counted + 12 * n, "last", "last")
                 /\ LastNthPlusYears(DateWith(counted, "lastNth", v), n)
                      = DateWith(counted + 12 * n, "lastNth", v)
      BY <1>2, <2>2, DatesMoveByYears
    <3> QED BY <1>3, <3>1
  <2>5. NthPlusYears(civil.nth, n) = DateWith(counted + 12 * n, "nth", w)
    <3>1. w = <<w[1], w[2]>> /\ w[1] \in 0 .. 6 /\ w[2] \in 1 .. 5
      BY DEF CivilNths
    <3> QED BY <1>2, <1>3, <2>2, <3>1, NthMoves
  <2>6. civil' = CivilDatesWith(counted + 12 * n, d, w)
    BY <2>1, <2>4, <2>5 DEF AddYears, CivilDatesWith
  <2> QED BY <1>1, <2>3, <2>6 DEF CivilInv
<1> QED BY <1>4, <1>5, <1>6 DEF CivilNext

(* What six comparisons say, from what == and < say. *)
LEMMA OrderIs ==
  ASSUME NEW a \in BOOLEAN, NEW b \in BOOLEAN, NEW c \in BOOLEAN, NEW x \in Int, NEW y \in Int,
         a <=> x = y, b <=> x < y, c <=> x > y
  PROVE  Compared(a, b, c) = Order(x, y)
<1>1. /\ a = (x = y) /\ b = (x < y) /\ c = (x > y)
      /\ (~a) = (x # y) /\ (~b) = (x >= y) /\ (~c) = (x <= y)
  OBVIOUS
<1> QED BY <1>1 DEF Compared, Order

LEMMA NearNumbers ==
  ASSUME NEW c \in Int, NEW n \in Int, n >= -25, n <= 23,
         NEW y \in Int, NEW m \in 1 .. 12, NEW z \in Int, NEW k \in 1 .. 12,
         c = 12 * y + m - 1, c + n = 12 * z + k - 1, y >= -32760, y <= 32760
  PROVE  n = 12 * (z - y) + (k - m) /\ z >= -32768 /\ z <= 32767
<1>1. n = 12 * (z - y) + (k - m)
  OBVIOUS
<1>2. z - y >= -8 /\ z - y <= 7
  BY <1>1
<1> QED BY <1>1, <1>2


LEMMA NearMonth ==
  ASSUME NEW c \in Int, NEW n \in Int, n >= -25, n <= 23, YearInRange(YearOfMonth(c))
  PROVE  /\ Short(YearOfMonth(c)) = YearOfMonth(c) /\ Short(YearOfMonth(c + n)) = YearOfMonth(c + n)
         /\ YearOfMonth(c) \in Int /\ MonthOfYear(c) \in 1 .. 12
         /\ YearOfMonth(c + n) \in Int /\ MonthOfYear(c + n) \in 1 .. 12
         /\ n = 12 * (YearOfMonth(c + n) - YearOfMonth(c)) + (MonthOfYear(c + n) - MonthOfYear(c))
<1> DEFINE y == YearOfMonth(c)
           m == MonthOfYear(c)
           z == YearOfMonth(c + n)
           k == MonthOfYear(c + n)
<1>1. y \in Int /\ m \in 1 .. 12 /\ c = 12 * y + m - 1
  BY MonthNumbers
<1>2. z \in Int /\ k \in 1 .. 12 /\ c + n = 12 * z + k - 1
  <2>1. c + n \in Int
    OBVIOUS
  <2> QED BY <2>1, MonthNumbers
<1>3. y >= -32760 /\ y <= 32760
  BY SMT DEF YearInRange
<1> HIDE DEF y, m, z, k
<1>4. n = 12 * (z - y) + (k - m) /\ z >= -32768 /\ z <= 32767
  BY <1>1, <1>2, <1>3, NearNumbers
<1>5. Short(y) = y /\ Short(z) = z
  <2>1. y >= -32768 /\ y <= 32767
    BY <1>1, <1>3
  <2>2. Short(y) = y
    BY <1>1, <2>1, ShortYears
  <2>3. Short(z) = z
    BY <1>2, <1>4, ShortYears
  <2> QED BY <2>2, <2>3
<1> QED BY <1>1, <1>2, <1>4, <1>5 DEF y, m, z, k

(* Years and months are in the order of the months' numbers. *)
LEMMA LexicalMonths ==
  ASSUME NEW s, NEW t, NEW y \in Int, NEW m \in Int, NEW z \in Int, NEW k \in Int,
         s.year = y, s.month = m, t.year = z, t.month = k
  PROVE  YearMonthLess(s, t) \in BOOLEAN /\ (YearMonthLess(s, t) <=> y < z \/ (y = z /\ m < k))
<1>1. YearMonthLess(s, t) <=> y < z \/ (y = z /\ m < k)
  BY DEF YearMonthLess, Lexically
<1>2. YearMonthLess(s, t) \in BOOLEAN
  BY DEF YearMonthLess, Lexically
<1> QED BY <1>1, <1>2

LEMMA LexicalLasts ==
  ASSUME NEW s, NEW t
  PROVE  LastLess(s, t) = YearMonthLess(s, t)
BY DEF LastLess, YearMonthLess

LEMMA ComparedMonths ==
  ASSUME NEW c \in Int, NEW n \in Int, n >= -25, n <= 23, YearInRange(YearOfMonth(c))
  PROVE  LET y == YearOfMonth(c)
             m == MonthOfYear(c)
             z == YearOfMonth(c + n)
             k == MonthOfYear(c + n)
         IN /\ YearMonthMinus(YearMonth(z, k), YearMonth(y, m)) = n
            /\ YearMonthCompared(YearMonth(z, k), YearMonth(y, m)) = Order(n, 0)
            /\ LastCompared(DateIn(z, k, "last", "last"), DateIn(y, m, "last", "last")) = Order(n, 0)
            /\ MonthMinus(k, m) = n % 12
            /\ YearCompared(z, y) = Order(z, y)
<1> DEFINE y == YearOfMonth(c)
           m == MonthOfYear(c)
           z == YearOfMonth(c + n)
           k == MonthOfYear(c + n)
<1>0. /\ y \in Int /\ m \in 1 .. 12 /\ z \in Int /\ k \in 1 .. 12
      /\ n = 12 * (z - y) + (k - m)
  BY NearMonth
<1> HIDE DEF y, m, z, k
<1>1. YearMonth(y, m).year = y /\ YearMonth(y, m).month = m
      /\ YearMonth(z, k).year = z /\ YearMonth(z, k).month = k
  BY DEF YearMonth
<1>2. YearMonthMinus(YearMonth(z, k), YearMonth(y, m)) = n
  BY <1>0, <1>1 DEF YearMonthMinus
<1>3. MonthMinus(k, m) = n % 12
  BY <1>0 DEF MonthMinus
<1>4. YearCompared(z, y) = Order(z, y)
  <2> DEFINE same == z = y
             less == z < y
             more == y < z
  <2>1. /\ same \in BOOLEAN /\ less \in BOOLEAN /\ more \in BOOLEAN
        /\ (same <=> z = y) /\ (less <=> z < y) /\ (more <=> z > y)
    BY <1>0
  <2> HIDE DEF same, less, more
  <2>2. Compared(same, less, more) = Order(z, y)
    BY <1>0, <2>1, OrderIs
  <2> QED BY <2>2 DEF YearCompared, same, less, more
<1>5. /\ z = y /\ k = m <=> n = 0
      /\ z < y \/ (z = y /\ k < m) <=> n < 0
      /\ y < z \/ (y = z /\ m < k) <=> n > 0
  BY <1>0
<1>6. YearMonthCompared(YearMonth(z, k), YearMonth(y, m)) = Order(n, 0)
  <2> DEFINE s == YearMonth(z, k)
             t == YearMonth(y, m)
             same == s = t
             less == YearMonthLess(s, t)
             more == YearMonthLess(t, s)
  <2>1. same <=> n = 0
    BY <1>5 DEF YearMonth
  <2>2. same \in BOOLEAN
    OBVIOUS
  <2>3. less \in BOOLEAN /\ more \in BOOLEAN /\ (less <=> n < 0) /\ (more <=> n > 0)
    <3> HIDE DEF s, t
    <3>1. t.year = y /\ t.month = m /\ s.year = z /\ s.month = k
      BY <1>1 DEF s, t
    <3> QED BY <1>0, <1>5, <3>1, LexicalMonths
  <2> HIDE DEF same, less, more
  <2>4. Compared(same, less, more) = Order(n, 0)
    BY <2>1, <2>2, <2>3, OrderIs
  <2> QED BY <2>4 DEF YearMonthCompared, same, less, more
<1>7. LastCompared(DateIn(z, k, "last", "last"), DateIn(y, m, "last", "last")) = Order(n, 0)
  <2> DEFINE s == DateIn(z, k, "last", "last")
             t == DateIn(y, m, "last", "last")
             same == s = t
             less == LastLess(s, t)
             more == LastLess(t, s)
  <2>1. t.year = y /\ t.month = m /\ s.year = z /\ s.month = k
    BY DEF DateIn
  <2>2. same <=> n = 0
    <3>1. z = y /\ k = m => same
      OBVIOUS
    <3> HIDE DEF s, t
    <3> QED BY <1>5, <2>1, <3>1
  <2>3. same \in BOOLEAN
    OBVIOUS
  <2> HIDE DEF s, t
  <2>4. less \in BOOLEAN /\ more \in BOOLEAN /\ (less <=> n < 0) /\ (more <=> n > 0)
    <3>1. less = YearMonthLess(s, t) /\ more = YearMonthLess(t, s)
      BY LexicalLasts
    <3>2. YearMonthLess(s, t) \in BOOLEAN /\ (YearMonthLess(s, t) <=> z < y \/ (z = y /\ k < m))
      BY <1>0, <2>1, LexicalMonths
    <3>3. YearMonthLess(t, s) \in BOOLEAN /\ (YearMonthLess(t, s) <=> y < z \/ (y = z /\ m < k))
      BY <1>0, <2>1, LexicalMonths
    <3> HIDE DEF less, more
    <3> QED BY <1>5, <3>1, <3>2, <3>3
  <2> HIDE DEF same, less, more
  <2>5. Compared(same, less, more) = Order(n, 0)
    BY <2>2, <2>3, <2>4, OrderIs
  <2> QED BY <2>5 DEF LastCompared, same, less, more, s, t
<1> QED BY <1>2, <1>3, <1>4, <1>6, <1>7 DEF y, m, z, k

(* The dates there are in a state. *)
LEMMA CivilParts ==
  ASSUME CivilInv
  PROVE  /\ counted \in Int /\ DOMAIN civil = {"day", "last", "nth", "lastNth"}
         /\ CivilYear = YearOfMonth(counted) /\ CivilMonth = MonthOfYear(counted)
         /\ CivilYear \in Int /\ CivilMonth \in 1 .. 12
         /\ \E d \in 1 .. 31, w \in CivilNths :
              /\ civil.day = DateWith(counted, "day", d)
              /\ civil.last = DateWith(counted, "last", "last")
              /\ civil.nth = DateWith(counted, "nth", w)
              /\ civil.lastNth = DateWith(counted, "lastNth", w[1])
<1>1. PICK d \in 1 .. 31, w \in CivilNths : civil = CivilDatesWith(counted, d, w)
  BY DEF CivilInv
<1>2. counted \in Int
  BY DEF CivilInv
<1>3. /\ civil.day = DateWith(counted, "day", d)
      /\ civil.last = DateWith(counted, "last", "last")
      /\ civil.nth = DateWith(counted, "nth", w)
      /\ civil.lastNth = DateWith(counted, "lastNth", w[1])
      /\ DOMAIN civil = {"day", "last", "nth", "lastNth"}
  BY <1>1 DEF CivilDatesWith
<1>4. CivilYear = YearOfMonth(counted) /\ CivilMonth = MonthOfYear(counted)
  BY DEF CivilYear, CivilMonth, YearOfMonth, MonthOfYear
<1>5. CivilYear \in Int /\ CivilMonth \in 1 .. 12
  BY <1>2, <1>4, MonthNumbers
<1> QED BY <1>1, <1>2, <1>3, <1>4, <1>5

LEMMA MonthAfter ==
  ASSUME NEW m \in 1 .. 12, NEW n \in Int
  PROVE  MonthPlus(m, n) = MonthOfYear(m - 1 + n)
<1>1. MonthPlus(m, n) = (LET mu == m + n - 1 IN mu - Quotient(IF mu >= 0 THEN mu ELSE mu - 11, 12) * 12 + 1)
  BY DEF MonthPlus
<1>2. m + n - 1 = m - 1 + n
  OBVIOUS
<1> QED BY <1>1, <1>2, MonthsOn

(* What is known of a year that is in range, and of the months that are added to one. *)
LEMMA YearsInRange ==
  ASSUME NEW y \in Int, YearInRange(y)
  PROVE  Short(y) = y /\ YearOk(y)
<1>1. y >= -32768 /\ y <= 32767 /\ y # -32768
  BY SMT DEF YearInRange
<1>2. Short(y) = y
  BY <1>1, ShortYears
<1>3. YearOk(y)
  BY <1>1, <1>2 DEF YearOk
<1> QED BY <1>1, <1>2, <1>3

LEMMA Nearby == \A n \in NearBy : n \in Int /\ n >= -25 /\ n <= 23
<1> SUFFICES ASSUME NEW n \in NearBy PROVE n \in Int /\ n >= -25 /\ n <= 23
  OBVIOUS
<1>1. \/ n = -25 \/ n = -13 \/ n = -12 \/ n = -11 \/ n = -1
      \/ n = 0 \/ n = 1 \/ n = 12 \/ n = 23
  BY DEF NearBy
<1> QED BY <1>1

LEMMA CountedMonths == CivilInv => MonthsAreCounted
<1> SUFFICES ASSUME CivilInv PROVE MonthsAreCounted
  OBVIOUS
<1> DEFINE c == counted
           y == YearOfMonth(c)
           m == MonthOfYear(c)
<1>1. PICK d \in 1 .. 31, w \in CivilNths :
        /\ civil.day = DateWith(c, "day", d)
        /\ civil.last = DateWith(c, "last", "last")
        /\ civil.nth = DateWith(c, "nth", w)
        /\ civil.lastNth = DateWith(c, "lastNth", w[1])
  BY CivilParts
<1>2. c \in Int /\ DOMAIN civil = {"day", "last", "nth", "lastNth"} /\ CivilYear = y /\ CivilMonth = m
  BY CivilParts
<1>3. \A kind \in DOMAIN civil : civil[kind].month = CivilMonth /\ civil[kind].year = Short(CivilYear)
  <2> HIDE DEF y, m
  <2>1. ASSUME NEW e \in DateEnds, NEW v
        PROVE  DateWith(c, e, v).month = m /\ DateWith(c, e, v).year = Short(y)
    BY DateHas DEF y, m
  <2>2. /\ civil.day.month = m /\ civil.day.year = Short(y)
        /\ civil.last.month = m /\ civil.last.year = Short(y)
        /\ civil.nth.month = m /\ civil.nth.year = Short(y)
        /\ civil.lastNth.month = m /\ civil.lastNth.year = Short(y)
    BY <1>1, <2>1 DEF DateEnds
  <2> QED BY <1>2, <2>2
<1>4. ASSUME NEW n \in NearBy, InRange
      PROVE  LET ym == YearMonthIn(civil.day)
                 there == YearMonthPlus(ym, n)
             IN /\ YearMonthMinus(there, ym) = n
                /\ YearMonthPlus(there, -n) = ym
                /\ YearMonthCompared(there, ym) = Order(n, 0)
                /\ LastCompared(LastPlusMonths(civil.last, n), civil.last) = Order(n, 0)
                /\ MonthMinus(there.month, ym.month) = n % 12
                /\ MonthPlus(ym.month, n) = there.month
                /\ YearCompared(there.year, ym.year) = Order((counted + n) \div 12, CivilYear)
  <2>1. n \in Int /\ n >= -25 /\ n <= 23
    BY Nearby
  <2>2. YearInRange(y)
    <3>1. YearInRange(CivilYear)
      BY <1>4 DEF InRange
    <3> HIDE DEF y
    <3> QED BY <1>2, <3>1
  <2> DEFINE z == YearOfMonth(c + n)
             k == MonthOfYear(c + n)
             ym == YearMonthIn(civil.day)
             there == YearMonthPlus(ym, n)
  <2>3. /\ Short(y) = y /\ Short(z) = z /\ y \in Int /\ m \in 1 .. 12 /\ z \in Int /\ k \in 1 .. 12
        /\ n = 12 * (z - y) + (k - m)
    BY <1>2, <2>1, <2>2, NearMonth
  <2>4. ym = MonthWith(c)
    BY <1>1, MonthInDate DEF DateEnds, DateWith, MonthWith
  <2>5. there = MonthWith(c + n)
    BY <1>2, <2>1, <2>4, MonthMoves
  <2>6. MonthWith(c) = YearMonth(y, m) /\ MonthWith(c + n) = YearMonth(z, k)
    BY <2>3 DEF MonthWith
  <2>7. YearMonthPlus(there, -n) = ym
    <3>1. c + n \in Int /\ -n \in Int /\ (c + n) + (-n) = c
      BY <1>2, <2>1
    <3>2. YearMonthPlus(MonthWith(c + n), -n) = MonthWith((c + n) + (-n))
      BY <3>1, MonthMoves
    <3> QED BY <2>4, <2>5, <3>1, <3>2
  <2>8. LastPlusMonths(civil.last, n) = DateIn(z, k, "last", "last")
        /\ civil.last = DateIn(y, m, "last", "last")
    <3>1. LastPlusMonths(DateWith(c, "last", "last"), n) = DateWith(c + n, "last", "last")
      BY <1>2, <2>1, DatesMove
    <3> QED BY <1>1, <2>3, <3>1 DEF DateWith
  <2>9. /\ YearMonthMinus(there, ym) = n
        /\ YearMonthCompared(there, ym) = Order(n, 0)
        /\ LastCompared(LastPlusMonths(civil.last, n), civil.last) = Order(n, 0)
        /\ MonthMinus(k, m) = n % 12
        /\ YearCompared(z, y) = Order(z, y)
    <3>1. /\ YearMonthMinus(YearMonth(z, k), YearMonth(y, m)) = n
          /\ YearMonthCompared(YearMonth(z, k), YearMonth(y, m)) = Order(n, 0)
          /\ LastCompared(DateIn(z, k, "last", "last"), DateIn(y, m, "last", "last")) = Order(n, 0)
          /\ MonthMinus(k, m) = n % 12
          /\ YearCompared(z, y) = Order(z, y)
      BY <1>2, <2>1, <2>2, ComparedMonths
    <3> HIDE DEF y, m, z, k, ym, there
    <3> QED BY <2>4, <2>5, <2>6, <2>8, <3>1
  <2>10. ym.year = y /\ ym.month = m /\ there.year = z /\ there.month = k
    <3> HIDE DEF y, m, z, k, ym, there
    <3> QED BY <2>4, <2>5, <2>6 DEF YearMonth
  <2>11. MonthPlus(m, n) = k
    <3>1. MonthPlus(m, n) = MonthOfYear(m - 1 + n)
      BY <2>1, <2>3, MonthAfter
    <3>2. MonthOfYear(m - 1 + n) = k
      BY <1>2, <2>1, MonthAdded
    <3> QED BY <3>1, <3>2
  <2>12. (counted + n) \div 12 = z
    BY DEF YearOfMonth
  <2> HIDE DEF y, m, z, k, ym, there
  <2> QED BY <1>2, <2>7, <2>9, <2>10, <2>11, <2>12 DEF ym, there
<1> QED BY <1>3, <1>4 DEF MonthsAreCounted

(* Days are in the order of their numbers: first the years, and the days in a year. *)
LEMMA YearsBegin ==
  ASSUME NEW y \in Int, NEW z \in Int, y < z
  PROVE  FirstDay(y) \in Int /\ FirstDay(z) \in Int /\ FirstDay(y) + DaysInYear(y) <= FirstDay(z)
<1> DEFINE x == z - 1
<1>1. x \in Int /\ y <= x /\ y + 1 \in Int
  OBVIOUS
<1>2. LeapYearsUntil(y) <= LeapYearsUntil(x) /\ LeapYearsUntil(y) \in Int /\ LeapYearsUntil(x) \in Int
  <2> HIDE DEF x
  <2>0. PICK e \in Int, c \in 0 .. 3, q \in 0 .. 24, r \in 0 .. 3 : EraParts(y, e, c, q, r)
    BY YearInEra
  <2>1. y = 400 * e + 100 * c + 4 * q + r /\ LeapYearsUntil(y) = 97 * e + 24 * c + q
    BY <2>0 DEF EraParts
  <2>5. PICK f \in Int, b \in 0 .. 3, p \in 0 .. 24, s \in 0 .. 3 : EraParts(x, f, b, p, s)
    BY <1>1, YearInEra
  <2>2. x = 400 * f + 100 * b + 4 * p + s /\ LeapYearsUntil(x) = 97 * f + 24 * b + p
    BY <2>5 DEF EraParts
  <2>3. e < f \/ (e = f /\ c < b) \/ (e = f /\ c = b /\ q <= p)
    BY <1>1, <2>1, <2>2
  <2>4. 97 * e + 24 * c + q <= 97 * f + 24 * b + p
    BY <2>3
  <2> QED BY <2>1, <2>2, <2>4
<1>3. /\ FirstDay(y) \in Int /\ FirstDay(z) \in Int
      /\ FirstDay(y + 1) = FirstDay(y) + DaysInYear(y)
  BY FirstOfJanuary
<1>4. FirstDay(y + 1) = 365 * y + LeapYearsUntil(y) - 719162
  BY SMT DEF FirstDay
<1>5. FirstDay(z) = 365 * x + LeapYearsUntil(x) - 719162
  BY DEF FirstDay
<1> HIDE DEF x
<1>6. 365 * y + LeapYearsUntil(y) - 719162 <= 365 * x + LeapYearsUntil(x) - 719162
  BY <1>1, <1>2
<1> QED BY <1>3, <1>4, <1>5, <1>6

LEMMA DaysInOrder ==
  ASSUME NEW y \in Int, NEW m \in 1 .. 12, NEW d \in 1 .. DaysInMonth(y, m),
         NEW z \in Int, NEW k \in 1 .. 12, NEW e \in 1 .. DaysInMonth(z, k),
         y < z \/ (y = z /\ m < k) \/ (y = z /\ m = k /\ d < e)
  PROVE  DayNumber(y, m, d) < DayNumber(z, k, e)
<1>1. /\ FirstDay(y) \in Int /\ FirstDay(z) \in Int
      /\ DaysUntilMonth(y, m) \in Int /\ DaysUntilMonth(z, k) \in Int /\ DaysUntilMonth(z, k) >= 0
      /\ DaysInMonth(y, m) \in Int /\ DaysInMonth(z, k) \in Int
      /\ d \in Int /\ e \in Int /\ d >= 1 /\ e >= 1 /\ d <= DaysInMonth(y, m)
  <2>1. FirstDay(y) \in Int /\ FirstDay(z) \in Int
    BY FirstOfJanuary
  <2>2. /\ DaysUntilMonth(y, m) \in 0 .. 335 /\ DaysInMonth(y, m) \in 28 .. 31
        /\ DaysUntilMonth(z, k) \in 0 .. 335 /\ DaysInMonth(z, k) \in 28 .. 31
    BY MonthBounds
  <2> QED BY <2>1, <2>2
<1>2. /\ DayNumber(y, m, d) = FirstDay(y) + DaysUntilMonth(y, m) + d - 1
      /\ DayNumber(z, k, e) = FirstDay(z) + DaysUntilMonth(z, k) + e - 1
  BY DEF DayNumber
<1>3. CASE y < z
  <2>1. FirstDay(y) + DaysInYear(y) <= FirstDay(z)
    BY <1>3, YearsBegin
  <2>2. DaysUntilMonth(y, m) + DaysInMonth(y, m) <= DaysInYear(y) /\ DaysInYear(y) \in Int
    BY UntilYearEnds
  <2> QED BY <1>1, <1>2, <2>1, <2>2
<1>4. CASE y = z /\ m < k
  <2>1. DaysUntilMonth(y, m) + DaysInMonth(y, m) <= DaysUntilMonth(y, k)
    BY <1>4, UntilLaterMonth
  <2> QED BY <1>1, <1>2, <1>4, <2>1
<1>5. CASE y = z /\ m = k /\ d < e
  BY <1>1, <1>2, <1>5
<1> QED BY <1>3, <1>4, <1>5

(* A day of a month, written as a date. *)
LEMMA DayDate ==
  ASSUME NEW y, NEW m, NEW d
  PROVE  /\ DateIn(y, m, "day", d) = [year |-> y, month |-> m, day |-> d]
         /\ \A x : [DateIn(y, m, "day", x) EXCEPT !.day = d] = DateIn(y, m, "day", d)
<1>1. DateIn(y, m, "day", d) = [year |-> y, month |-> m, day |-> d]
  BY DEF DateIn
<1>2. ASSUME NEW x
      PROVE  [DateIn(y, m, "day", x) EXCEPT !.day = d] = DateIn(y, m, "day", d)
  <2>1. DateIn(y, m, "day", x) = [year |-> y, month |-> m, day |-> x]
    BY DEF DateIn
  <2> QED BY <1>1, <2>1
<1> QED BY <1>1, <1>2

LEMMA LastDayIs ==
  ASSUME NEW when, NEW y \in Int, NEW m \in 1 .. 12, when.year = y, when.month = m
  PROVE  LastDayOf(when) = DaysInMonth(y, m)
<1>1. LastDayOf(when) = LastDay(when.year, when.month)
  BY DEF LastDayOf, LastDay
<1>2. LastDay(y, m) = DaysInMonth(y, m)
  BY LastDayThere
<1> QED BY <1>1, <1>2

LEMMA NumbersOfDays ==
  ASSUME NEW y \in Int, NEW m \in 1 .. 12, NEW d \in Int
  PROVE  to_days(y, m, d) \in Int
<1>1. to_days(y, m, d) = EraNumber(MarchYear(y, m), MarchDay(m, d)) - 719468
  BY ToDays
<1>2. MarchYear(y, m) \in Int /\ MarchDay(m, d) \in Int
  BY DEF MarchYear, MarchDay, Quotient
<1>3. ASSUME NEW z \in Int, NEW doy \in Int
      PROVE  EraNumber(z, doy) - 719468 \in Int
  BY SMT DEF EraNumber, Quotient
<1> QED BY <1>1, <1>2, <1>3

LEMMA DayThere ==
  ASSUME NEW y \in Int, YearOk(y), NEW m \in 1 .. 12, NEW d \in Int
  PROVE  LET when == DateIn(y, m, "day", d)
         IN /\ DateOk(when) <=> d \in 1 .. DaysInMonth(y, m)
            /\ DateOk(when) <=> from_days(DateToDays(when)) = when
<1> DEFINE when == DateIn(y, m, "day", d)
           n == to_days(y, m, d)
<1>1. when.year = y /\ when.month = m /\ when.day = d /\ when = [year |-> y, month |-> m, day |-> d]
  BY DayDate
<1>2. LastDayOf(when) = DaysInMonth(y, m) /\ DaysInMonth(y, m) \in Int
  <2>1. DaysInMonth(y, m) \in 28 .. 31
    BY MonthBounds
  <2> HIDE DEF when
  <2> QED BY <1>1, <2>1, LastDayIs
<1>3. DateToDays(when) = n
  BY <1>1 DEF DateToDays
<1> HIDE DEF when
<1>4. DateOk(when) <=> d \in 1 .. DaysInMonth(y, m)
  BY <1>1, <1>2 DEF DateOk
<1>5. n \in Int
  <2>1. to_days(y, m, d) \in Int
    BY NumbersOfDays
  <2> QED BY <2>1
<1>6. ASSUME d \in 1 .. DaysInMonth(y, m)
      PROVE  from_days(n) = when
  BY <1>1, <1>6, DayAndNumber
<1>7. ASSUME from_days(n) = when
      PROVE  d \in 1 .. DaysInMonth(y, m)
  <2> HIDE DEF n
  <2>1. from_days(n).day \in 1 .. DaysInMonth(from_days(n).year, from_days(n).month)
    BY <1>5, DayIsInMonth
  <2>2. from_days(n).year = y /\ from_days(n).month = m /\ from_days(n).day = d
    BY <1>1, <1>7
  <2>3. DaysInMonth(from_days(n).year, from_days(n).month) = DaysInMonth(y, m)
    BY <2>2, Zenon
  <2> QED BY <2>1, <2>2, <2>3, Zenon
<1> QED BY <1>3, <1>4, <1>6, <1>7 DEF when

(* A month and a day make a date in some year. *)
LEMMA DayOfSomeYear ==
  ASSUME NEW y \in Int, NEW m \in 1 .. 12, NEW d \in Int, NEW md, md.month = m, md.day = d
  PROVE  MonthDayOk(md) <=> d \in 1 .. DaysInMonth(y, m) \/ d \in 1 .. DaysInMonth(2000, m)
<1> DEFINE last == <<31, 29, 31, 30, 31, 30, 31, 31, 30, 31, 30, 31>>
<1>1. /\ last[1] = 31 /\ last[2] = 29 /\ last[3] = 31 /\ last[4] = 30 /\ last[5] = 31
      /\ last[6] = 30 /\ last[7] = 31 /\ last[8] = 31 /\ last[9] = 30 /\ last[10] = 31
      /\ last[11] = 30 /\ last[12] = 31
  OBVIOUS
<1>2. MonthDayOk(md) <=> 1 <= d /\ d <= last[m]
  BY DEF MonthDayOk
<1> HIDE DEF last
<1>3. last[m] = IF m = 2 THEN 29 ELSE IF m \in {4, 6, 9, 11} THEN 30 ELSE 31
  <2>1. m \in {1, 2, 3, 4, 5, 6, 7, 8, 9, 10, 11, 12}
    OBVIOUS
  <2> QED BY <1>1, <2>1
<1>4. DaysInMonth(2000, m) = last[m] /\ last[m] \in Int
  BY <1>3 DEF DaysInMonth, IsLeapYear
<1>5. DaysInMonth(y, m) \in Int /\ DaysInMonth(y, m) <= last[m]
  BY <1>3 DEF DaysInMonth
<1> QED BY <1>2, <1>4, <1>5

(* One day comes before another just when its number does. *)
IsDayOf(y, m, d) == y \in Int /\ m \in 1 .. 12 /\ d \in 1 .. DaysInMonth(y, m)
IsEarlier(y, m, d, z, k, e) == y < z \/ (y = z /\ m < k) \/ (y = z /\ m = k /\ d < e)

LEMMA NumbersInOrder ==
  ASSUME NEW y, NEW m, NEW d, IsDayOf(y, m, d), NEW z, NEW k, NEW e, IsDayOf(z, k, e)
  PROVE  /\ DayNumber(y, m, d) < DayNumber(z, k, e) <=> IsEarlier(y, m, d, z, k, e)
         /\ DayNumber(z, k, e) < DayNumber(y, m, d) <=> IsEarlier(z, k, e, y, m, d)
         /\ DayNumber(y, m, d) = DayNumber(z, k, e) <=> y = z /\ m = k /\ d = e
<1> DEFINE here == DayNumber(y, m, d)
           there == DayNumber(z, k, e)
<1>1. y \in Int /\ z \in Int /\ m \in 1 .. 12 /\ k \in 1 .. 12
      /\ d \in 1 .. DaysInMonth(y, m) /\ e \in 1 .. DaysInMonth(z, k)
  BY DEF IsDayOf
<1>2. d \in Int /\ e \in Int
  <2>1. DaysInMonth(y, m) \in 28 .. 31 /\ DaysInMonth(z, k) \in 28 .. 31
    BY <1>1, MonthBounds
  <2> QED BY <1>1, <2>1
<1>3. here \in Int /\ there \in Int
  <2>1. to_days(y, m, d) \in Int /\ to_days(z, k, e) \in Int
    BY <1>1, <1>2, NumbersOfDays
  <2> QED BY <1>1, <2>1, DayAndNumber
<1>4. IsEarlier(y, m, d, z, k, e) => here < there
  BY <1>1, DaysInOrder DEF IsEarlier
<1>5. IsEarlier(z, k, e, y, m, d) => there < here
  BY <1>1, DaysInOrder DEF IsEarlier
<1>6. y = z /\ m = k /\ d = e => here = there
  OBVIOUS
<1>7. IsEarlier(y, m, d, z, k, e) \/ IsEarlier(z, k, e, y, m, d) \/ (y = z /\ m = k /\ d = e)
  BY <1>1, <1>2 DEF IsEarlier
<1> HIDE DEF here, there
<1>8. here < there => IsEarlier(y, m, d, z, k, e)
  BY <1>3, <1>5, <1>6, <1>7
<1>9. there < here => IsEarlier(z, k, e, y, m, d)
  BY <1>3, <1>4, <1>6, <1>7
<1>10. here = there => y = z /\ m = k /\ d = e
  BY <1>3, <1>4, <1>5, <1>7
<1> QED BY <1>4, <1>5, <1>6, <1>8, <1>9, <1>10 DEF here, there

(* The day n days after a day of the calendar, as its parts compare with it. *)
ComparedAt(y, m, d, n) ==
  LET when == DateIn(y, m, "day", d)
      there == from_days(DateToDays(when) + n)
  IN /\ DateCompared(there, when) = Order(n, 0)
     /\ there.year = y => MonthDayCompared(there, when) = Order(n, 0)
     /\ there.month = m /\ there.year = y =>
          DayCompared(there.day, d) = Order(n, 0) /\ DayPlus(d, n) = there.day

LEMMA DaysCompared ==
  ASSUME NEW y \in Int, NEW m \in 1 .. 12, NEW d \in 1 .. DaysInMonth(y, m), NEW n \in Int
  PROVE  ComparedAt(y, m, d, n)
<1> DEFINE when == DateIn(y, m, "day", d)
           here == DayNumber(y, m, d)
           there == from_days(here + n)
           Y == there.year
           M == there.month
           D == there.day
<1>1. when.year = y /\ when.month = m /\ when.day = d /\ when = [year |-> y, month |-> m, day |-> d]
  BY DayDate
<1>2. DateToDays(when) = here
  <2>1. DateToDays(when) = to_days(y, m, d)
    BY <1>1 DEF DateToDays
  <2>2. to_days(y, m, d) = here
    BY DayAndNumber
  <2> QED BY <2>1, <2>2
<1>3. here \in Int /\ d \in Int
  <2>1. DaysInMonth(y, m) \in 28 .. 31
    BY MonthBounds
  <2>2. d \in Int
    BY <2>1
  <2> QED BY <2>2, NumbersOfDays, DayAndNumber
<1> HIDE DEF when
<1>4. /\ Y \in Int /\ M \in 1 .. 12 /\ D \in 1 .. DaysInMonth(Y, M) /\ D \in 1 .. 31
      /\ here + n = DayNumber(Y, M, D)
      /\ there = [year |-> Y, month |-> M, day |-> D]
  <2> DEFINE target == here + n
  <2>1. target \in Int
    BY <1>3
  <2> HIDE DEF here
  <2> HIDE DEF target
  <2> DEFINE t == from_days(target)
  <2>2. /\ t.year \in Int /\ t.month \in 1 .. 12 /\ t.day \in 1 .. DaysInMonth(t.year, t.month)
        /\ t.day \in 1 .. 31 /\ to_days(t.year, t.month, t.day) = target
        /\ t = [year |-> t.year, month |-> t.month, day |-> t.day]
    BY <2>1, DayIsInMonth
  <2> HIDE DEF t
  <2>3. to_days(t.year, t.month, t.day) = DayNumber(t.year, t.month, t.day)
    BY <2>2, DayAndNumber
  <2> QED BY <2>2, <2>3 DEF target, t
<1> HIDE DEF here, there
<1>5. /\ here < here + n <=> y < Y \/ (y = Y /\ m < M) \/ (y = Y /\ m = M /\ d < D)
      /\ here + n < here <=> Y < y \/ (Y = y /\ M < m) \/ (Y = y /\ M = m /\ D < d)
      /\ here = here + n <=> y = Y /\ m = M /\ d = D
      /\ y = Y /\ m = M => here + n = here + (D - d)
  <2> HIDE DEF Y, M, D
  <2>1. IsDayOf(y, m, d) /\ IsDayOf(Y, M, D)
    BY <1>4 DEF IsDayOf
  <2>2. /\ here < here + n <=> IsEarlier(y, m, d, Y, M, D)
        /\ here + n < here <=> IsEarlier(Y, M, D, y, m, d)
        /\ here = here + n <=> y = Y /\ m = M /\ d = D
    <3>1. here + n = DayNumber(Y, M, D)
      BY <1>4
    <3> QED BY <2>1, <3>1, NumbersInOrder DEF here
  <2>3. y = Y /\ m = M => here + n = here + (D - d)
    <3>1. D \in Int
      BY <1>4
    <3>2. d \in Int
      BY <1>3
    <3>3. DayNumber(y, m, D) = DayNumber(y, m, d) + (D - d)
      <4>1. FirstDay(y) \in Int
        BY FirstOfJanuary
      <4>2. DaysUntilMonth(y, m) \in 0 .. 335
        BY MonthBounds
      <4> QED BY <3>1, <3>2, <4>1, <4>2 DEF DayNumber
    <3> QED BY <1>4, <3>1, <3>2, <3>3 DEF here
  <2> QED BY <2>2, <2>3 DEF IsEarlier
<1>6. /\ there.year = Y /\ there.month = M /\ there.day = D
      /\ (there = when <=> Y = y /\ M = m /\ D = d)
  <2>1. there = when => Y = y /\ M = m /\ D = d
    BY <1>1
  <2>2. Y = y /\ M = m /\ D = d => there = when
    BY <1>1, <1>4
  <2> QED BY <2>1, <2>2
<1> HIDE DEF Y, M, D
<1>7. /\ Y = y /\ M = m /\ D = d <=> n = 0
      /\ Y < y \/ (Y = y /\ (M < m \/ (M = m /\ D < d))) <=> n < 0
      /\ y < Y \/ (y = Y /\ (m < M \/ (m = M /\ d < D))) <=> n > 0
      /\ y = Y /\ m = M => D = d + n
      /\ D \in Int
  <2>1. D \in Int
    BY <1>4
  <2> QED BY <1>3, <1>4, <1>5, <2>1
<1>8. DateCompared(there, when) = Order(n, 0)
  <2> DEFINE same == there = when
             less == DateLess(there, when)
             more == DateLess(when, there)
  <2>1. same \in BOOLEAN /\ (same <=> n = 0)
    BY <1>6, <1>7
  <2>2. less \in BOOLEAN /\ more \in BOOLEAN
    BY DEF DateLess, Lexically, MonthDayLess
  <2>3. less <=> n < 0
    BY <1>1, <1>3, <1>4, <1>6, <1>7 DEF DateLess, Lexically, MonthDayLess
  <2>4. more <=> n > 0
    BY <1>1, <1>3, <1>4, <1>6, <1>7 DEF DateLess, Lexically, MonthDayLess
  <2> HIDE DEF same, less, more
  <2>5. Compared(same, less, more) = Order(n, 0)
    BY <2>1, <2>2, <2>3, <2>4, OrderIs
  <2> QED BY <2>5 DEF DateCompared, same, less, more
<1>9. ASSUME Y = y
      PROVE  MonthDayCompared(there, when) = Order(n, 0)
  <2> DEFINE same == there = when
             less == MonthDayLess(there, when)
             more == MonthDayLess(when, there)
  <2>1. same \in BOOLEAN /\ (same <=> n = 0)
    BY <1>6, <1>7
  <2>2. less \in BOOLEAN /\ more \in BOOLEAN
    BY DEF Lexically, MonthDayLess
  <2>3. less <=> n < 0
    BY <1>1, <1>3, <1>4, <1>6, <1>7, <1>9 DEF Lexically, MonthDayLess
  <2>4. more <=> n > 0
    BY <1>1, <1>3, <1>4, <1>6, <1>7, <1>9 DEF Lexically, MonthDayLess
  <2> HIDE DEF same, less, more
  <2>5. Compared(same, less, more) = Order(n, 0)
    BY <2>1, <2>2, <2>3, <2>4, OrderIs
  <2> QED BY <2>5 DEF MonthDayCompared, same, less, more
<1>10. ASSUME Y = y, M = m
       PROVE  DayCompared(D, d) = Order(n, 0) /\ DayPlus(d, n) = D
  <2> DEFINE same == D = d
             less == D < d
             more == d < D
  <2>1. same \in BOOLEAN /\ less \in BOOLEAN /\ more \in BOOLEAN
        /\ (same <=> n = 0) /\ (less <=> n < 0) /\ (more <=> n > 0)
    BY <1>3, <1>4, <1>7, <1>10
  <2>2. DayPlus(d, n) = D
    <3>1. D = d + n /\ D \in 1 .. 31
      BY <1>4, <1>7, <1>10
    <3>2. D % 256 = D
      BY <3>1
    <3> QED BY <3>1, <3>2 DEF DayPlus, Unsigned8
  <2> HIDE DEF same, less, more
  <2>3. Compared(same, less, more) = Order(n, 0)
    BY <2>1, OrderIs
  <2> QED BY <2>2, <2>3 DEF DayCompared, same, less, more
<1>11. there = from_days(DateToDays(when) + n)
  BY <1>2 DEF there
<1> HIDE DEF there
<1> QED BY <1>6, <1>8, <1>9, <1>10, <1>11 DEF when, ComparedAt

\* A year that is in range is kept.
LEMMA YearIsKept ==
  ASSUME InRange, CivilYear \in Int
  PROVE  Short(CivilYear) = CivilYear /\ YearOk(CivilYear)
<1>1. YearInRange(CivilYear)
  BY DEF InRange
<1> QED BY <1>1, YearsInRange

LEMMA OrderedDays == CivilInv => DaysAreOrdered
<1> SUFFICES ASSUME CivilInv, InRange PROVE DaysAreOrdered
  BY DEF DaysAreOrdered
<1> DEFINE c == counted
           y == CivilYear
           m == CivilMonth
<1>1. PICK d \in 1 .. 31, w \in CivilNths :
        /\ civil.day = DateWith(c, "day", d)
        /\ civil.last = DateWith(c, "last", "last")
        /\ civil.nth = DateWith(c, "nth", w)
        /\ civil.lastNth = DateWith(c, "lastNth", w[1])
  BY CivilParts
<1>2. y \in Int /\ m \in 1 .. 12 /\ y = YearOfMonth(c) /\ m = MonthOfYear(c)
  BY CivilParts
<1>3. Short(y) = y /\ YearOk(y)
  BY <1>2, YearIsKept
<1>4. civil.day = DateIn(y, m, "day", d) /\ civil.last = DateIn(y, m, "last", "last")
  BY <1>1, <1>2, <1>3 DEF DateWith
<1> HIDE DEF y, m
<1>5. ASSUME NEW x \in 0 .. 32
      PROVE  LET when == [civil.day EXCEPT !.day = x]
             IN /\ DateOk(when) <=> x \in 1 .. DaysInMonth(y, m)
                /\ DateOk(when) <=> from_days(DateToDays(when)) = when
                /\ MonthDayOk(when) <=> \E z \in {y, 2000} : x \in 1 .. DaysInMonth(z, m)
  <2> DEFINE when == DateIn(y, m, "day", x)
  <2>1. [civil.day EXCEPT !.day = x] = when
    BY <1>4, DayDate
  <2>2. /\ DateOk(when) <=> x \in 1 .. DaysInMonth(y, m)
        /\ DateOk(when) <=> from_days(DateToDays(when)) = when
    BY <1>2, <1>3, DayThere
  <2>3. MonthDayOk(when) <=> x \in 1 .. DaysInMonth(y, m) \/ x \in 1 .. DaysInMonth(2000, m)
    <3>1. when.month = m /\ when.day = x
      BY DayDate
    <3> HIDE DEF when
    <3> QED BY <1>2, <3>1, DayOfSomeYear
  <2> HIDE DEF when
  <2> QED BY <2>1, <2>2, <2>3
<1>6. LastToDays(civil.last) = LastOfMonth
  <2>1. civil.last.year = y /\ civil.last.month = m
    BY <1>4, PartsOfDate DEF DateEnds
  <2>2. LastDayOf(civil.last) = DaysInMonth(y, m)
    BY <1>2, <2>1, LastDayIs
  <2>3. LastToDays(civil.last) = to_days(y, m, DaysInMonth(y, m))
    BY <2>1, <2>2 DEF LastToDays
  <2>4. DaysInMonth(y, m) \in 28 .. 31
    BY <1>2, MonthBounds
  <2>5. 1 \in 1 .. DaysInMonth(y, m) /\ DaysInMonth(y, m) \in 1 .. DaysInMonth(y, m)
    BY <2>4
  <2>6. to_days(y, m, DaysInMonth(y, m)) = DayNumber(y, m, DaysInMonth(y, m))
        /\ to_days(y, m, 1) = DayNumber(y, m, 1)
    BY <1>2, <2>5, DayAndNumber
  <2>7. LastOfMonth = to_days(y, m, 1) + DaysInMonth(y, m) - 1
    BY DEF LastOfMonth, FirstOfMonth, y, m
  <2>8. FirstDay(y) \in Int
    BY <1>2, FirstOfJanuary
  <2>9. DaysUntilMonth(y, m) \in 0 .. 335
    BY <1>2, MonthBounds
  <2>10. DayNumber(y, m, DaysInMonth(y, m)) = DayNumber(y, m, 1) + DaysInMonth(y, m) - 1
    BY <2>4, <2>8, <2>9 DEF DayNumber
  <2> QED BY <2>3, <2>6, <2>7, <2>10
<1>7. ASSUME DateOk(civil.day), NEW n \in NearBy
      PROVE  LET there == from_days(DateToDays(civil.day) + n)
             IN /\ DateCompared(there, civil.day) = Order(n, 0)
                /\ there.year = civil.day.year => MonthDayCompared(there, civil.day) = Order(n, 0)
                /\ there.month = civil.day.month /\ there.year = civil.day.year =>
                     DayCompared(there.day, civil.day.day) = Order(n, 0)
                     /\ DayPlus(civil.day.day, n) = there.day
  <2>1. n \in Int
    BY Nearby
  <2>2. d \in 1 .. DaysInMonth(y, m)
    <3>1. d \in Int
      OBVIOUS
    <3> QED BY <1>2, <1>3, <1>4, <1>7, <3>1, DayThere
  <2> DEFINE when == DateIn(y, m, "day", d)
             there == from_days(DateToDays(when) + n)
  <2>3. /\ DateCompared(there, when) = Order(n, 0)
        /\ there.year = y => MonthDayCompared(there, when) = Order(n, 0)
        /\ there.month = m /\ there.year = y =>
             DayCompared(there.day, d) = Order(n, 0) /\ DayPlus(d, n) = there.day
    <3>1. ComparedAt(y, m, d, n)
      BY <1>2, <2>1, <2>2, DaysCompared
    <3> QED BY <3>1, Zenon DEF ComparedAt
  <2>4. when.year = y /\ when.month = m /\ when.day = d
    BY DayDate
  <2> HIDE DEF when
  <2>5. civil.day = when
    BY <1>4 DEF when
  <2> QED BY <2>3, <2>4, <2>5
<1> QED BY <1>5, <1>6, <1>7 DEF DaysAreOrdered, y, m

(* Weekdays. *)
LEMMA Sevens ==
  ASSUME NEW n \in Int
  PROVE  n = 7 * (n \div 7) + (n % 7) /\ (n \div 7) \in Int /\ (n % 7) \in 0 .. 6
BY SMT

LEMMA WeekdaysApart ==
  ASSUME NEW v \in 0 .. 6, NEW w \in 0 .. 6
  PROVE  WeekdayMinus(v, w) = (v - w) % 7
BY DEF WeekdayMinus, Quotient

LEMMA WeekdaysDiffer ==
  ASSUME NEW u \in 0 .. 6, NEW v \in 0 .. 6, NEW w \in 0 .. 6
  PROVE  u = w <=> (v - u) % 7 = (v - w) % 7
<1>1. /\ (v - u) % 7 = IF u <= v THEN v - u ELSE v - u + 7
      /\ (v - w) % 7 = IF w <= v THEN v - w ELSE v - w + 7
  OBVIOUS
<1> QED BY <1>1

LEMMA WeekdaysOn ==
  ASSUME NEW w \in 0 .. 6, NEW n \in Int
  PROVE  WeekdayPlus(w, n) = (w + n) % 7
<1> DEFINE u == w + n
<1>1. u \in Int
  OBVIOUS
<1>2. WeekdayPlus(w, n) = WeekdayOf(u - Quotient(IF u >= 0 THEN u ELSE u - 6, 7) * 7)
  BY DEF WeekdayPlus
<1> HIDE DEF u
<1>3. u - Quotient(IF u >= 0 THEN u ELSE u - 6, 7) * 7 = u % 7
  BY <1>1 DEF Quotient
<1>4. WeekdayOf(u % 7) = u % 7
  BY <1>1 DEF WeekdayOf
<1> QED BY <1>2, <1>3, <1>4 DEF u

LEMMA WeekdaysOfDays ==
  ASSUME NEW n \in Int, NEW k \in Int
  PROVE  /\ WeekdayPlus(weekday_from_days(n), k - n) = weekday_from_days(k)
         /\ WeekdayMinus(weekday_from_days(k), weekday_from_days(n)) = (k - n) % 7
<1> DEFINE v == weekday_from_days(k)
           w == weekday_from_days(n)
<1>1. v = (k + 4) % 7 /\ w = (n + 4) % 7 /\ v \in 0 .. 6 /\ w \in 0 .. 6
  BY WeekdayIs
<1> HIDE DEF v, w
<1>2. WeekdayMinus(v, w) = (v - w) % 7
  BY <1>1, WeekdaysApart
<1>3. WeekdayPlus(w, k - n) = (w + (k - n)) % 7
  <2>1. k - n \in Int
    OBVIOUS
  <2> QED BY <1>1, <2>1, WeekdaysOn
<1>4. (v - w) % 7 = (k - n) % 7 /\ (w + (k - n)) % 7 = v
  BY <1>1
<1> QED BY <1>2, <1>3, <1>4 DEF v, w

(* The days that are met every seven days from the first of them on. *)
LEMMA EverySevenDays ==
  ASSUME NEW a \in Int, NEW b \in Int, a <= b, NEW S,
         \A k : k \in S <=> k \in a .. b /\ (k - a) % 7 = 0
  PROVE  Cardinality(S) = (b - a) \div 7 + 1
<1> DEFINE q == (b - a) \div 7 + 1
           f == [j \in 1 .. q |-> a + 7 * (j - 1)]
<1>1. q \in Nat
  OBVIOUS
<1>2. f \in [1 .. q -> S]
  <2>1. ASSUME NEW j \in 1 .. q
        PROVE  a + 7 * (j - 1) \in S
    <3>1. a + 7 * (j - 1) \in a .. b /\ ((a + 7 * (j - 1)) - a) % 7 = 0
      <4>1. b - a = 7 * ((b - a) \div 7) + ((b - a) % 7) /\ ((b - a) % 7) \in 0 .. 6
        BY Sevens
      <4>2. j \in Int /\ j >= 1 /\ j <= (b - a) \div 7 + 1
        OBVIOUS
      <4> QED BY <4>1, <4>2
    <3> QED BY <3>1
  <2> QED BY <2>1
<1>3. \A i, j \in 1 .. q : f[i] = f[j] => i = j
  OBVIOUS
<1>4. \A k \in S : \E j \in 1 .. q : f[j] = k
  <2> SUFFICES ASSUME NEW k \in S PROVE \E j \in 1 .. q : f[j] = k
    OBVIOUS
  <2>1. k \in a .. b /\ (k - a) % 7 = 0
    OBVIOUS
  <2> DEFINE j == (k - a) \div 7 + 1
  <2>2. k \in Int /\ k >= a /\ k <= b
    BY <2>1
  <2>3. j \in 1 .. q /\ a + 7 * (j - 1) = k
    <3>1. k - a = 7 * ((k - a) \div 7)
      BY <2>1, <2>2
    <3>2. b - a = 7 * ((b - a) \div 7) + ((b - a) % 7) /\ ((b - a) % 7) \in 0 .. 6
      BY Sevens
    <3> QED BY <2>2, <3>1, <3>2
  <2>4. f[j] = k
    BY <2>3
  <2> QED BY <2>3, <2>4
<1> HIDE DEF q, f
<1>5. f \in Bijection(1 .. q, S)
  BY <1>2, <1>3, <1>4 DEF Bijection, Injection, Surjection, IsInjective
<1>6. ExistsBijection(1 .. q, S)
  BY <1>5 DEF ExistsBijection
<1>7. Cardinality(S) = q
  BY <1>1, <1>6, FS_CountingElements
<1> QED BY <1>7 DEF q

(* The weekday wd is first met r days after day F. *)
LEMMA FirstMet ==
  ASSUME NEW F \in Int, NEW wd \in 0 .. 6
  PROVE  LET r == WeekdayMinus(wd, weekday_from_days(F))
         IN /\ r \in 0 .. 6
            /\ \A n \in Int : n >= F /\ weekday_from_days(n) = wd
                              <=> n >= F + r /\ (n - (F + r)) % 7 = 0
<1> DEFINE v == weekday_from_days(F)
           r == WeekdayMinus(wd, v)
<1>1. v = (F + 4) % 7 /\ v \in 0 .. 6
  BY WeekdayIs
<1> HIDE DEF v
<1>2. r = (wd - v) % 7 /\ r \in 0 .. 6
  <2>1. r = (wd - v) % 7
    BY <1>1, WeekdaysApart
  <2> HIDE DEF r
  <2> QED BY <1>1, <2>1
<1> HIDE DEF r
<1>3. ASSUME NEW n \in Int
      PROVE  n >= F /\ weekday_from_days(n) = wd <=> n >= F + r /\ (n - (F + r)) % 7 = 0
  <2>1. weekday_from_days(n) = (n + 4) % 7
    BY WeekdayIs
  <2>2. (n + 4) % 7 = wd <=> (n - (F + r)) % 7 = 0
    BY <1>1, <1>2
  <2>3. n >= F /\ (n - (F + r)) % 7 = 0 => n >= F + r
    BY <1>2
  <2> QED BY <1>2, <2>1, <2>2, <2>3
<1> QED BY <1>2, <1>3 DEF r, v

(* The days F .. F + days - 1 of a month. *)
LEMMA WeekdaysOfMonth ==
  ASSUME NEW F \in Int, NEW days \in 28 .. 31, NEW wd \in 0 .. 6
  PROVE  Cardinality({n \in F .. F + days - 1 : weekday_from_days(n) = wd})
           = (days - 1 - WeekdayMinus(wd, weekday_from_days(F))) \div 7 + 1
<1> DEFINE r == WeekdayMinus(wd, weekday_from_days(F))
           met == {n \in F .. F + days - 1 : weekday_from_days(n) = wd}
           a == F + r
           b == F + days - 1
<1>1. r \in 0 .. 6 /\ \A n \in Int : n >= F /\ weekday_from_days(n) = wd
                                    <=> n >= F + r /\ (n - (F + r)) % 7 = 0
  BY FirstMet
<1> HIDE DEF r
<1>2. ASSUME NEW k
      PROVE  k \in met <=> k \in a .. b /\ (k - a) % 7 = 0
  <2>1. k \in F .. b <=> k \in Int /\ k >= F /\ k <= b
    OBVIOUS
  <2>2. k \in a .. b <=> k \in Int /\ k >= F + r /\ k <= b
    BY <1>1
  <2> QED BY <1>1, <2>1, <2>2
<1>3. a \in Int /\ b \in Int /\ a <= b /\ b - a = days - 1 - r
  BY <1>1
<1> HIDE DEF met, a, b
<1>4. Cardinality(met) = (b - a) \div 7 + 1
  BY <1>2, <1>3, EverySevenDays
<1> QED BY <1>3, <1>4 DEF met, r

(* The days of a month, from its first. *)
LEMMA FirstIs ==
  ASSUME NEW y \in Int, NEW m \in 1 .. 12
  PROVE  /\ to_days(y, m, 1) = DayNumber(y, m, 1) /\ to_days(y, m, 1) \in Int
         /\ DaysInMonth(y, m) \in 28 .. 31
<1>1. DaysInMonth(y, m) \in 28 .. 31
  BY MonthBounds
<1>2. 1 \in 1 .. DaysInMonth(y, m) /\ 1 \in Int
  BY <1>1
<1>3. to_days(y, m, 1) \in Int
  BY <1>2, NumbersOfDays
<1> QED BY <1>1, <1>2, <1>3, DayAndNumber

LEMMA DayFromFirst ==
  ASSUME NEW y \in Int, NEW m \in 1 .. 12, NEW n \in Int,
         n >= to_days(y, m, 1), n <= to_days(y, m, 1) + DaysInMonth(y, m) - 1
  PROVE  from_days(n) = [year |-> y, month |-> m, day |-> n - to_days(y, m, 1) + 1]
<1> DEFINE F == to_days(y, m, 1)
           day == n - F + 1
<1>1. DaysInMonth(y, m) \in 28 .. 31
  BY FirstIs
<1>2. F = DayNumber(y, m, 1) /\ F \in Int
  BY FirstIs
<1> HIDE DEF F
<1>3. n >= F /\ n <= F + DaysInMonth(y, m) - 1
  BY DEF F
<1>4. day \in 1 .. DaysInMonth(y, m) /\ n = F + day - 1
  BY <1>1, <1>2, <1>3
<1>5. n = DayNumber(y, m, day)
  <2>1. FirstDay(y) \in Int
    BY FirstOfJanuary
  <2>2. DaysUntilMonth(y, m) \in 0 .. 335
    BY MonthBounds
  <2>3. day \in Int
    BY <1>1, <1>4
  <2> HIDE DEF day
  <2> QED BY <1>2, <1>4, <2>1, <2>2, <2>3 DEF DayNumber
<1> HIDE DEF day
<1>6. from_days(DayNumber(y, m, day)) = [year |-> y, month |-> m, day |-> day]
  BY <1>4, DayAndNumber
<1> QED BY <1>5, <1>6 DEF day, F

\* The n-th weekday of a month, as a date.
LEMMA NthIs ==
  ASSUME NEW y, NEW m, NEW w
  PROVE  DateIn(y, m, "nth", w) = [year |-> y, month |-> m, nth |-> w]
         /\ DateIn(y, m, "lastNth", w) = [year |-> y, month |-> m, lastNth |-> w]
BY DEF DateIn

\* The i-th weekday wd of a month, and whether there is one.
NthIsThere(y, m, wd, i, when) ==
  LET F == to_days(y, m, 1)
      days == DaysInMonth(y, m)
      r == WeekdayMinus(wd, weekday_from_days(F))
  IN /\ NthDateOk(when) <=> i \in 1 .. (days - 1 - r) \div 7 + 1
     /\ NthToDays(when) = F + r + (i - 1) * 7

LEMMA NthThere ==
  ASSUME NEW y \in Int, YearOk(y), NEW m \in 1 .. 12, NEW wd \in 0 .. 6, NEW i \in Int,
         NEW when, when.year = y, when.month = m, when.nth[1] = wd, when.nth[2] = i
  PROVE  NthIsThere(y, m, wd, i, when)
<1> DEFINE F == to_days(y, m, 1)
           days == DaysInMonth(y, m)
           r == WeekdayMinus(wd, weekday_from_days(F))
<1>1. days \in 28 .. 31 /\ LastDayOf(when) = days
  BY FirstIs, LastDayIs
<1>2. F \in Int
  BY FirstIs
<1>3. r \in 0 .. 6
  <2> HIDE DEF F
  <2> QED BY <1>2, FirstMet
<1>4. NthToDays(when) = F + r + (i - 1) * 7
  BY DEF NthToDays
<1>5. NthDateOk(when) <=> i >= 1 /\ (i <= 4 \/ r + (i - 1) * 7 + 1 <= days)
  <2>1. WeekdayOk(wd)
    BY DEF WeekdayOk
  <2> QED BY <1>1, <2>1 DEF NthDateOk
<1> HIDE DEF F, days, r, NthIsThere
<1>6. i >= 1 /\ (i <= 4 \/ r + (i - 1) * 7 + 1 <= days) <=> i \in 1 .. (days - 1 - r) \div 7 + 1
  BY <1>1, <1>3
<1> QED BY <1>4, <1>5, <1>6 DEF F, days, r, NthIsThere

IsMetIn(F, days, n) ==
  LET met == {k \in F .. F + days - 1 : weekday_from_days(k) = weekday_from_days(n)}
  IN /\ NthToDays(NthDate(n)) = n /\ NthDateOk(NthDate(n)) /\ NthOk(NthDate(n).nth)
     /\ NthDate(n).nth[2] = Cardinality({k \in met : k <= n})

LEMMA DayIsMet ==
  ASSUME NEW y \in Int, YearOk(y), NEW m \in 1 .. 12, NEW n \in Int,
         n >= to_days(y, m, 1), n <= to_days(y, m, 1) + DaysInMonth(y, m) - 1
  PROVE  IsMetIn(to_days(y, m, 1), DaysInMonth(y, m), n)
<1> DEFINE F == to_days(y, m, 1)
           days == DaysInMonth(y, m)
           wd == weekday_from_days(n)
           r == WeekdayMinus(wd, weekday_from_days(F))
           i == (n - F) \div 7 + 1
           when == NthDate(n)
           met == {k \in F .. F + days - 1 : weekday_from_days(k) = wd}
           until == {k \in met : k <= n}
<1>1. days \in 28 .. 31 /\ F \in Int /\ wd \in 0 .. 6
  BY FirstIs, WeekdayIs
<1>2. from_days(n) = [year |-> y, month |-> m, day |-> n - F + 1]
  BY DayFromFirst
<1>3. r = (n - F) % 7 /\ r \in 0 .. 6
  <2>1. r = (n - F) % 7
    <3> HIDE DEF F
    <3> QED BY <1>1, WeekdaysOfDays
  <2> HIDE DEF F, r
  <2> QED BY <1>1, <2>1
<1>4. n >= F /\ n <= F + days - 1
  OBVIOUS
<1>5. i \in 1 .. 5 /\ Quotient((n - F + 1) - 1, 7) + 1 = i /\ n = F + r + (i - 1) * 7 /\ n - F = 7 * ((n - F) \div 7) + r
  <2> HIDE DEF F, days, r
  <2>1. n - F \in Int /\ (n - F + 1) - 1 = n - F /\ n - F >= 0 /\ n - F <= 30
    BY <1>1, <1>4
  <2>2. n - F = 7 * ((n - F) \div 7) + ((n - F) % 7) /\ ((n - F) \div 7) \in Int
    BY <2>1, Sevens
  <2>3. Quotient(n - F, 7) = (n - F) \div 7
    BY <2>1 DEF Quotient
  <2> QED BY <1>1, <1>3, <2>1, <2>2, <2>3
<1>6. when.year = y /\ when.month = m /\ when.nth[1] = wd /\ when.nth[2] = i
  BY <1>2, <1>5 DEF NthDate
<1>7. NthToDays(when) = n /\ NthDateOk(when)
  <2>1. /\ NthDateOk(when) <=> i \in 1 .. (days - 1 - r) \div 7 + 1
        /\ NthToDays(when) = F + r + (i - 1) * 7
    <3>1. i \in Int
      BY <1>5
    <3>2. wd \in 0 .. 6
      BY <1>1
    <3> HIDE DEF wd, i, when
    <3>3. NthIsThere(y, m, wd, i, when)
      BY <1>6, <3>1, <3>2, NthThere
    <3> QED BY <3>3, Zenon DEF NthIsThere
  <2>2. i \in 1 .. (days - 1 - r) \div 7 + 1
    <3> HIDE DEF F, days, r, when
    <3>1. PICK j \in Int : (n - F) \div 7 = j
      BY <1>1
    <3> QED BY <1>1, <1>3, <1>4, <1>5, <3>1
  <2> QED BY <1>5, <2>1, <2>2
<1>8. NthOk(when.nth) /\ when.nth[2] = i
  <2> HIDE DEF i, wd, when
  <2> QED BY <1>1, <1>5, <1>6 DEF NthOk, WeekdayOk
<1>9. Cardinality(until) = i
  <2>1. \A k \in Int : k >= F /\ weekday_from_days(k) = wd <=> k >= F + r /\ (k - (F + r)) % 7 = 0
    <3> HIDE DEF F, wd
    <3> QED BY <1>1, FirstMet
  <2>2. ASSUME NEW k
        PROVE  k \in until <=> k \in F + r .. n /\ (k - (F + r)) % 7 = 0
    <3>1. k \in until <=> k \in F .. F + days - 1 /\ weekday_from_days(k) = wd /\ k <= n
      OBVIOUS
    <3> HIDE DEF until, F, days, wd, r
    <3>2. k \in until <=> k \in Int /\ k >= F /\ weekday_from_days(k) = wd /\ k <= n
      BY <1>1, <1>4, <3>1
    <3> QED BY <1>1, <1>3, <2>1, <3>2
  <2>3. F + r \in Int /\ F + r <= n
    <3> HIDE DEF F, days, r
    <3> QED BY <1>1, <1>3, <1>5
  <2>4. Cardinality(until) = (n - (F + r)) \div 7 + 1
    <3> DEFINE a == F + r
    <3> HIDE DEF until, a
    <3> QED BY <2>2, <2>3, EverySevenDays DEF a
  <2>5. (n - (F + r)) \div 7 + 1 = i
    <3> HIDE DEF F, days, r
    <3> QED BY <1>1, <1>3, <1>5
  <2> QED BY <2>4, <2>5
<1> HIDE DEF when, until
<1> QED BY <1>7, <1>8, <1>9 DEF when, until, IsMetIn

LEMMA LastIsMet ==
  ASSUME NEW y \in Int, NEW m \in 1 .. 12, NEW wd \in 0 .. 6,
         NEW when, when.year = y, when.month = m, when.lastNth = wd
  PROVE  LET F == to_days(y, m, 1)
             L == F + DaysInMonth(y, m) - 1
             n == LastNthToDays(when)
         IN /\ n \in F .. L /\ weekday_from_days(n) = wd
            /\ \A k \in F .. L : weekday_from_days(k) = wd => k <= n
<1> DEFINE F == to_days(y, m, 1)
           days == DaysInMonth(y, m)
           L == F + days - 1
           r == WeekdayMinus(weekday_from_days(L), wd)
           n == LastNthToDays(when)
<1>1. days \in 28 .. 31 /\ F \in Int /\ L \in Int
  <2>1. days \in 28 .. 31 /\ F \in Int
    BY FirstIs
  <2> HIDE DEF F, days
  <2> QED BY <2>1
<1>2. LastToDays(when) = L
  <2>1. LastDayOf(when) = days
    BY LastDayIs
  <2>2. LastToDays(when) = to_days(y, m, days)
    BY <2>1 DEF LastToDays
  <2>3. 1 \in 1 .. days /\ days \in 1 .. days
    BY <1>1
  <2>4. F = DayNumber(y, m, 1) /\ to_days(y, m, days) = DayNumber(y, m, days)
    BY <2>3, DayAndNumber
  <2>5. FirstDay(y) \in Int
    BY FirstOfJanuary
  <2>6. DaysUntilMonth(y, m) \in 0 .. 335
    BY MonthBounds
  <2>7. DayNumber(y, m, days) = DayNumber(y, m, 1) + days - 1
    BY <1>1, <2>5, <2>6 DEF DayNumber
  <2> QED BY <2>2, <2>4, <2>7
<1>3. n = L - r
  BY <1>2 DEF LastNthToDays
<1> HIDE DEF F, days
<1>4. L = F + days - 1
  OBVIOUS
<1> DEFINE v == weekday_from_days(L)
<1> HIDE DEF L
<1>5. v = (L + 4) % 7 /\ v \in 0 .. 6
  BY <1>1, WeekdayIs
<1>6. r = (v - wd) % 7 /\ r \in 0 .. 6
  <2> HIDE DEF v
  <2>1. r = (v - wd) % 7
    BY <1>5, WeekdaysApart DEF v
  <2> HIDE DEF r
  <2> QED BY <1>5, <2>1
<1> HIDE DEF v, r, n
<1>7. n \in F .. L
  BY <1>1, <1>3, <1>4, <1>6
<1>8. n \in Int
  BY <1>1, <1>3, <1>6
<1>9. ASSUME NEW k \in Int
      PROVE  weekday_from_days(k) = wd <=> (L - k) % 7 = r
  <2> DEFINE u == weekday_from_days(k)
  <2>1. u \in 0 .. 6
    BY WeekdayIs
  <2>2. WeekdayMinus(v, u) = (L - k) % 7
    BY <1>1, WeekdaysOfDays DEF v
  <2> HIDE DEF u
  <2>3. WeekdayMinus(v, u) = (v - u) % 7
    BY <1>5, <2>1, WeekdaysApart
  <2>4. v \in 0 .. 6
    BY <1>5
  <2>5. u = wd <=> (v - u) % 7 = (v - wd) % 7
    BY <2>1, <2>4, WeekdaysDiffer
  <2> QED BY <1>6, <2>2, <2>3, <2>5 DEF u
<1>10. weekday_from_days(n) = wd
  BY <1>1, <1>3, <1>6, <1>8, <1>9
<1>11. ASSUME NEW k \in F .. L, weekday_from_days(k) = wd
       PROVE  k <= n
  <2>1. k \in Int /\ k <= L
    BY <1>1
  <2>2. (L - k) % 7 = r
    BY <1>9, <1>11, <2>1, Zenon
  <2> QED BY <1>1, <1>3, <1>6, <2>1, <2>2
<1> QED BY <1>7, <1>10, <1>11 DEF n, L, F, days

LEMMA MetWeekdays == CivilInv => WeekdaysAreMet
<1> SUFFICES ASSUME CivilInv, InRange PROVE WeekdaysAreMet
  BY DEF WeekdaysAreMet
<1> DEFINE c == counted
           y == CivilYear
           m == CivilMonth
           F == FirstOfMonth
           L == LastOfMonth
           days == DaysInMonth(y, m)
           month == F .. L
           met(wd) == {n \in month : weekday_from_days(n) = wd}
<1>1. PICK d \in 1 .. 31, w \in CivilNths :
        /\ civil.day = DateWith(c, "day", d)
        /\ civil.last = DateWith(c, "last", "last")
        /\ civil.nth = DateWith(c, "nth", w)
        /\ civil.lastNth = DateWith(c, "lastNth", w[1])
  BY CivilParts
<1>2. y \in Int /\ m \in 1 .. 12 /\ y = YearOfMonth(c) /\ m = MonthOfYear(c)
  BY CivilParts
<1>3. Short(y) = y /\ YearOk(y)
  BY <1>2, YearIsKept
<1>4. civil.nth = DateIn(y, m, "nth", w) /\ civil.lastNth = DateIn(y, m, "lastNth", w[1])
  BY <1>1, <1>2, <1>3 DEF DateWith
<1>5. F = to_days(y, m, 1) /\ L = F + days - 1
  BY DEF FirstOfMonth, LastOfMonth
<1> HIDE DEF y, m, F, L
<1>6. F \in Int /\ days \in 28 .. 31 /\ L \in Int
  <2>1. F \in Int /\ days \in 28 .. 31
    BY <1>2, <1>5, FirstIs
  <2> HIDE DEF days
  <2> QED BY <1>5, <2>1
<1>7. ASSUME NEW n \in month
      PROVE  /\ NthToDays(NthDate(n)) = n /\ NthDateOk(NthDate(n)) /\ NthOk(NthDate(n).nth)
             /\ NthDate(n).nth[2] = Cardinality({k \in met(weekday_from_days(n)) : k <= n})
             /\ \A k \in month :
                  /\ WeekdayPlus(weekday_from_days(n), k - n) = weekday_from_days(k)
                  /\ WeekdayMinus(weekday_from_days(k), weekday_from_days(n)) = (k - n) % 7
  <2>1. n \in Int /\ n >= F /\ n <= F + days - 1
    BY <1>5, <1>6
  <2>2. LET ofDay == {k \in F .. F + days - 1 : weekday_from_days(k) = weekday_from_days(n)}
        IN /\ NthToDays(NthDate(n)) = n /\ NthDateOk(NthDate(n)) /\ NthOk(NthDate(n).nth)
           /\ NthDate(n).nth[2] = Cardinality({k \in ofDay : k <= n})
    <3>1. IsMetIn(F, days, n)
      BY <1>2, <1>3, <1>5, <2>1, DayIsMet
    <3> QED BY <3>1, Zenon DEF IsMetIn
  <2>3. ASSUME NEW k \in month
        PROVE  /\ WeekdayPlus(weekday_from_days(n), k - n) = weekday_from_days(k)
               /\ WeekdayMinus(weekday_from_days(k), weekday_from_days(n)) = (k - n) % 7
    <3>1. k \in Int
      BY <1>6
    <3> QED BY <2>1, <3>1, WeekdaysOfDays
  <2> QED BY <1>5, <2>2, <2>3
<1>8. ASSUME NEW wd \in 0 .. 6, NEW i \in 0 .. 6
      PROVE  NthDateOk([civil.nth EXCEPT !.nth = <<wd, i>>]) <=> i \in 1 .. Cardinality(met(wd))
  <2> DEFINE when == [civil.nth EXCEPT !.nth = <<wd, i>>]
  <2>1. when.year = y /\ when.month = m /\ when.nth[1] = wd /\ when.nth[2] = i
    <3>1. civil.nth = [year |-> y, month |-> m, nth |-> w]
      BY <1>4, NthIs
    <3> QED BY <3>1
  <2> HIDE DEF when
  <2>2. NthDateOk(when) <=> i \in 1 .. (days - 1 - WeekdayMinus(wd, weekday_from_days(F))) \div 7 + 1
    <3>1. i \in Int
      OBVIOUS
    <3>2. NthDateOk(when) <=>
            i \in 1 .. (DaysInMonth(y, m) - 1 - WeekdayMinus(wd, weekday_from_days(to_days(y, m, 1)))) \div 7 + 1
      <4>1. y \in Int /\ m \in 1 .. 12 /\ YearOk(y)
        BY <1>2, <1>3
      <4>2. NthIsThere(y, m, wd, i, when)
        BY <2>1, <3>1, <4>1, NthThere
      <4> QED BY <4>2, Zenon DEF NthIsThere
    <3> QED BY <1>5, <3>2
  <2>3. Cardinality(met(wd)) = (days - 1 - WeekdayMinus(wd, weekday_from_days(F))) \div 7 + 1
    <3> HIDE DEF days
    <3>1. Cardinality({n \in F .. F + days - 1 : weekday_from_days(n) = wd})
            = (days - 1 - WeekdayMinus(wd, weekday_from_days(F))) \div 7 + 1
      BY <1>6, WeekdaysOfMonth
    <3> QED BY <1>5, <3>1
  <2> QED BY <2>2, <2>3 DEF when
<1>9. ASSUME NEW wd \in 0 .. 6
      PROVE  LET n == LastNthToDays([civil.lastNth EXCEPT !.lastNth = wd])
             IN n \in met(wd) /\ \A k \in met(wd) : k <= n
  <2> DEFINE when == [civil.lastNth EXCEPT !.lastNth = wd]
             n == LastNthToDays(when)
  <2>1. when.year = y /\ when.month = m /\ when.lastNth = wd
    <3>1. civil.lastNth = [year |-> y, month |-> m, lastNth |-> w[1]]
      BY <1>4, NthIs
    <3> QED BY <3>1
  <2> HIDE DEF when
  <2>2. /\ n \in F .. L /\ weekday_from_days(n) = wd
        /\ \A k \in F .. L : weekday_from_days(k) = wd => k <= n
    <3>1. LET first == to_days(y, m, 1)
              last == first + DaysInMonth(y, m) - 1
          IN /\ n \in first .. last /\ weekday_from_days(n) = wd
             /\ \A k \in first .. last : weekday_from_days(k) = wd => k <= n
      <4>1. y \in Int /\ m \in 1 .. 12
        BY <1>2
      <4> QED BY <2>1, <4>1, LastIsMet
    <3> HIDE DEF n
    <3> QED BY <1>5, <3>1
  <2> HIDE DEF n
  <2>3. n \in met(wd) /\ \A k \in met(wd) : k <= n
    BY <2>2
  <2> QED BY <2>3 DEF n, when
<1> QED BY <1>7, <1>8, <1>9 DEF WeekdaysAreMet, F, L

(* What x / y makes of two parts, of one and an int, and of two ints. *)
NoDate == Only("none", 0)

LEMMA SmallSets ==
  ASSUME NEW a, NEW b, NEW c, NEW d
  PROVE  /\ {a} = {b} => a = b
         /\ {a} = {b, c} => a = b /\ a = c
         /\ {a, b} = {c, d} => (a = c \/ a = d) /\ (b = c \/ b = d)
OBVIOUS

LEMMA NamedParts ==
  ASSUME NEW x, NEW z, DOMAIN x # AnInt, DOMAIN z # AnInt
  PROVE  Slash(x, z) = IF Accepted(DOMAIN x, DOMAIN z) THEN Joined(x, z) ELSE NoDate
BY DEF Slash, NoDate

LEMMA OnlyNames ==
  ASSUME NEW name, NEW v
  PROVE  DOMAIN Only(name, v) = {name}
BY DEF Only

LEMMA IntParts ==
  ASSUME NEW n
  PROVE  DOMAIN IntOf(n) = AnInt /\ IntOf(n).int = n
BY DEF IntOf, Only, AnInt

LEMMA IntOnTheRight ==
  ASSUME NEW x, NEW n, DOMAIN x # AnInt, NEW piece \in {"month", "day"}, IntBeside(DOMAIN x, TRUE) = piece
  PROVE  Slash(x, IntOf(n)) = Slash(x, Only(piece, n))
<1> DEFINE z == IntOf(n)
<1>1. DOMAIN z = AnInt /\ z.int = n
  BY IntParts
<1> HIDE DEF z
<1>2. DOMAIN Only(piece, n) # AnInt
  <2>1. DOMAIN Only(piece, n) = {piece} /\ piece # "int"
    BY OnlyNames
  <2> QED BY <2>1, SmallSets DEF AnInt
<1>3. Slash(x, z) = IF Accepted(DOMAIN x, DOMAIN Only(piece, n)) THEN Joined(x, Only(piece, n)) ELSE NoDate
  BY <1>1 DEF Slash, NoDate
<1>4. Slash(x, Only(piece, n))
        = IF Accepted(DOMAIN x, DOMAIN Only(piece, n)) THEN Joined(x, Only(piece, n)) ELSE NoDate
  BY <1>2, NamedParts
<1> QED BY <1>3, <1>4 DEF z

LEMMA YearOnTheRight ==
  ASSUME NEW x, NEW n, DOMAIN x # AnInt, IntBeside(DOMAIN x, TRUE) = "year"
  PROVE  Slash(x, IntOf(n)) = Slash(x, Only("year", Short(n)))
<1> DEFINE z == IntOf(n)
           piece == Only("year", Short(n))
<1>1. DOMAIN z = AnInt /\ z.int = n
  BY IntParts
<1>2. DOMAIN piece # AnInt
  BY OnlyNames DEF AnInt
<1> HIDE DEF z
<1>3. Slash(x, z) = IF Accepted(DOMAIN x, DOMAIN piece) THEN Joined(x, piece) ELSE NoDate
  BY <1>1 DEF Slash, NoDate, YearPart
<1>4. Slash(x, piece) = IF Accepted(DOMAIN x, DOMAIN piece) THEN Joined(x, piece) ELSE NoDate
  BY <1>2, NamedParts
<1> QED BY <1>3, <1>4 DEF z

LEMMA IntOnTheLeft ==
  ASSUME NEW x, NEW n, DOMAIN x # AnInt, IntBeside(DOMAIN x, FALSE) = "month"
  PROVE  Slash(IntOf(n), x) = Slash(Only("month", n), x)
<1> DEFINE z == IntOf(n)
           piece == Only("month", n)
<1>1. DOMAIN z = AnInt /\ z.int = n
  BY IntParts
<1>2. DOMAIN piece # AnInt
  BY OnlyNames DEF AnInt
<1> HIDE DEF z
<1>3. Slash(z, x) = IF Accepted(DOMAIN piece, DOMAIN x) THEN Joined(piece, x) ELSE NoDate
  BY <1>1 DEF Slash, NoDate
<1>4. Slash(piece, x) = IF Accepted(DOMAIN piece, DOMAIN x) THEN Joined(piece, x) ELSE NoDate
  BY <1>2, NamedParts
<1> QED BY <1>3, <1>4 DEF z

(* What an accepted pair of parts can be. *)
LEMMA AcceptedParts ==
  ASSUME NEW left, NEW right, Accepted(left, right)
  PROVE  \/ left = {"year"} /\ right = {"month"}
         \/ left = {"year", "month"} /\ \E e \in DateEnds : right = {e}
         \/ \E e \in DateEnds : (left = {"month"} \/ left = {e}) /\ (right = {"month"} \/ right = {e})
         \/ \E e \in DateEnds : (left = {"year"} \/ left = {"month", e}) /\ (right = {"year"} \/ right = {"month", e})
<1>1. ASSUME NEW e \in DateEnds, {left, right} = {{"month"}, {e}}
      PROVE  (left = {"month"} \/ left = {e}) /\ (right = {"month"} \/ right = {e})
  BY <1>1, SmallSets
<1>2. ASSUME NEW e \in DateEnds, {left, right} = {{"year"}, {"month", e}}
      PROVE  (left = {"year"} \/ left = {"month", e}) /\ (right = {"year"} \/ right = {"month", e})
  BY <1>2, SmallSets
<1> QED BY <1>1, <1>2 DEF Accepted

LEMMA NoneIsRefused ==
  ASSUME NEW names
  PROVE  ~Accepted({"none"}, names)
<1> SUFFICES ASSUME Accepted({"none"}, names) PROVE FALSE
  OBVIOUS
<1>1. ASSUME NEW e \in DateEnds
      PROVE  /\ {"none"} # {"year"} /\ {"none"} # {"month"} /\ {"none"} # {"year", "month"}
             /\ {"none"} # {e} /\ {"none"} # {"month", e}
  <2>1. e # "none"
    BY DEF DateEnds
  <2> QED BY <2>1, SmallSets
<1> QED BY <1>1, AcceptedParts

LEMMA LeftIntIsRefused ==
  ASSUME NEW x, NEW n, IntBeside(DOMAIN x, FALSE) = "none"
  PROVE  Slash(IntOf(n), x) = NoDate
<1> DEFINE z == IntOf(n)
<1>1. DOMAIN z = AnInt /\ z.int = n
  BY IntParts
<1> HIDE DEF z
<1>2. DOMAIN Only("none", n) = {"none"}
  BY OnlyNames
<1>3. \A names : ~Accepted({"none"}, names)
  BY NoneIsRefused
<1>4. Slash(z, x) = NoDate
  BY <1>1, <1>2, <1>3 DEF Slash, NoDate
<1> QED BY <1>4 DEF z

LEMMA NoDateStays ==
  ASSUME NEW x
  PROVE  Slash(NoDate, x) = NoDate
<1>1. DOMAIN NoDate = {"none"} /\ {"none"} # AnInt
  BY OnlyNames DEF AnInt, NoDate
<1>2. \A names : ~Accepted({"none"}, names)
  BY NoneIsRefused
<1> QED BY <1>1, <1>2 DEF Slash, NoDate

LEMMA IntsBeside ==
  ASSUME NEW e \in DateEnds
  PROVE  /\ IntBeside({"year"}, TRUE) = "month"
         /\ IntBeside({"month"}, TRUE) = "day" /\ IntBeside({"month"}, FALSE) = "none"
         /\ IntBeside({"year", "month"}, TRUE) = "day"
         /\ IntBeside({e}, TRUE) = "month" /\ IntBeside({e}, FALSE) = "month"
         /\ IntBeside({"month", e}, TRUE) = "year"
         /\ IntBeside(AnInt, FALSE) = "none"
<1>1. IntBeside({"year"}, TRUE) = "month"
  BY DEF IntBeside, DateEnds
<1>2. IntBeside({"month"}, TRUE) = "day" /\ IntBeside({"month"}, FALSE) = "none"
  BY DEF IntBeside, DateEnds
<1>3. IntBeside({"year", "month"}, TRUE) = "day"
  BY DEF IntBeside, DateEnds
<1>4. IntBeside({e}, TRUE) = "month" /\ IntBeside({e}, FALSE) = "month"
  BY DEF IntBeside, DateEnds
<1>5. IntBeside({"month", e}, TRUE) = "year"
  BY DEF IntBeside, DateEnds
<1>6. IntBeside(AnInt, FALSE) = "none"
  BY DEF IntBeside, DateEnds, AnInt
<1> QED BY <1>1, <1>2, <1>3, <1>4, <1>5, <1>6

LEMMA PartsAccepted ==
  ASSUME NEW e \in DateEnds
  PROVE  /\ Accepted({"month"}, {e}) /\ Accepted({e}, {"month"}) /\ Accepted({"month", e}, {"year"})
         /\ ~Accepted({"year"}, {e}) /\ ~Accepted({e}, {"year"}) /\ ~Accepted({"month"}, {"year"})
<1>1. Accepted({"month"}, {e}) /\ Accepted({e}, {"month"}) /\ Accepted({"month", e}, {"year"})
  BY DEF Accepted
<1>2. ASSUME NEW f \in DateEnds
      PROVE  /\ {f} # {"year"} /\ {f} # {"month"} /\ {f} # {"year", "month"}
             /\ {"year"} # {f} /\ {"month"} # {f} /\ {"year"} # {"month"} /\ {"year"} # {"year", "month"}
             /\ {"month"} # {"year", "month"}
             /\ {"year"} # {"month", f} /\ {"month"} # {"month", f} /\ {e} # {"month", f}
  <2>1. f # "year" /\ f # "month" /\ e # "month"
    BY DEF DateEnds
  <2> QED BY <2>1, SmallSets
<1>3. ~Accepted({"year"}, {e})
  BY <1>2, AcceptedParts
<1>4. ~Accepted({e}, {"year"})
  BY <1>2, AcceptedParts
<1>5. ~Accepted({"month"}, {"year"})
  BY <1>2, AcceptedParts
<1> QED BY <1>1, <1>3, <1>4, <1>5

(* The parts of a date, two and three of them, in every order. *)
MonthEnd(m, e, v) == [p \in {"month", e} |-> IF p = "month" THEN m ELSE v]

LEMMA EndAndMonth ==
  ASSUME NEW m, NEW e \in DateEnds, NEW v
  PROVE  /\ Joined(Only("month", m), Only(e, v)) = MonthEnd(m, e, v)
         /\ Joined(Only(e, v), Only("month", m)) = MonthEnd(m, e, v)
<1>1. Joined(Only("month", m), Only(e, v)) = MonthEnd(m, e, v)
  BY DEF Joined, Only, MonthEnd, DateEnds
<1>2. Joined(Only(e, v), Only("month", m)) = MonthEnd(m, e, v)
  BY DEF Joined, Only, MonthEnd, DateEnds
<1> QED BY <1>1, <1>2

LEMMA EndAndYear ==
  ASSUME NEW y, NEW m, NEW e \in DateEnds, NEW v
  PROVE  Joined(MonthEnd(m, e, v), Only("year", y)) = DateIn(y, m, e, v)
BY DEF Joined, Only, MonthEnd, DateEnds, DateIn

LEMMA NamesOfParts ==
  ASSUME NEW y, NEW m, NEW e \in DateEnds, NEW v
  PROVE  /\ DOMAIN Only("year", y) = {"year"} /\ {"year"} # AnInt
         /\ DOMAIN Only("month", m) = {"month"} /\ {"month"} # AnInt
         /\ DOMAIN Only(e, v) = {e} /\ {e} # AnInt
         /\ DOMAIN YearMonth(y, m) = {"year", "month"} /\ {"year", "month"} # AnInt
<1>1. e # "int"
  BY DEF DateEnds
<1>2. {"year"} # AnInt /\ {"month"} # AnInt /\ {e} # AnInt /\ {"year", "month"} # AnInt
  <2>1. {"year", "month"} # {"int"}
    OBVIOUS
  <2> QED BY <1>1, <2>1, SmallSets DEF AnInt
<1>3. DOMAIN Only("year", y) = {"year"} /\ DOMAIN Only("month", m) = {"month"} /\ DOMAIN Only(e, v) = {e}
  BY OnlyNames
<1>4. DOMAIN YearMonth(y, m) = {"year", "month"}
  BY DEF YearMonth
<1> QED BY <1>2, <1>3, <1>4

LEMMA NamesOfMonthEnd ==
  ASSUME NEW m, NEW e \in DateEnds, NEW v
  PROVE  DOMAIN MonthEnd(m, e, v) = {"month", e} /\ {"month", e} # AnInt
<1>1. DOMAIN MonthEnd(m, e, v) = {"month", e}
  BY DEF MonthEnd
<1>2. {"month", e} # {"int"}
  OBVIOUS
<1> QED BY <1>1, <1>2 DEF AnInt

LEMMA YearThenMonth ==
  ASSUME NEW y, NEW m
  PROVE  /\ Slash(Only("year", y), Only("month", m)) = YearMonth(y, m)
         /\ Slash(Only("year", y), IntOf(m)) = YearMonth(y, m)
         /\ Slash(IntOf(y), Only("month", m)) = NoDate
         /\ Slash(IntOf(y), IntOf(m)) = NoDate
<1>1. DOMAIN Only("year", y) = {"year"} /\ {"year"} # AnInt
      /\ DOMAIN Only("month", m) = {"month"} /\ DOMAIN IntOf(m) = AnInt
  BY NamesOfParts, IntParts DEF DateEnds
<1>2. IntBeside({"year"}, TRUE) = "month" /\ IntBeside({"month"}, FALSE) = "none"
      /\ IntBeside(AnInt, FALSE) = "none"
  BY IntsBeside DEF DateEnds
<1>3. Slash(Only("year", y), Only("month", m)) = YearMonth(y, m)
  BY MonthOfAYear
<1>4. Slash(Only("year", y), IntOf(m)) = Slash(Only("year", y), Only("month", m))
  BY <1>1, <1>2, IntOnTheRight
<1>5. Slash(IntOf(y), Only("month", m)) = NoDate
  BY <1>1, <1>2, LeftIntIsRefused
<1>6. Slash(IntOf(y), IntOf(m)) = NoDate
  BY <1>1, <1>2, LeftIntIsRefused
<1> QED BY <1>3, <1>4, <1>5, <1>6

LEMMA ThenDay ==
  ASSUME NEW y, NEW m, NEW v
  PROVE  Slash(YearMonth(y, m), IntOf(v)) = DateIn(y, m, "day", v)
<1>1. DOMAIN YearMonth(y, m) = {"year", "month"} /\ {"year", "month"} # AnInt
  BY NamesOfParts DEF DateEnds
<1>2. IntBeside({"year", "month"}, TRUE) = "day"
  BY IntsBeside DEF DateEnds
<1>3. Slash(YearMonth(y, m), IntOf(v)) = Slash(YearMonth(y, m), Only("day", v))
  BY <1>1, <1>2, IntOnTheRight
<1> QED BY <1>3, EndOfAMonth DEF DateEnds

LEMMA MonthThenEnd ==
  ASSUME NEW m, NEW e \in DateEnds, NEW v
  PROVE  /\ Slash(Only("month", m), Only(e, v)) = MonthEnd(m, e, v)
         /\ Slash(IntOf(m), Only(e, v)) = MonthEnd(m, e, v)
         /\ e = "day" => Slash(Only("month", m), IntOf(v)) = MonthEnd(m, e, v)
         /\ Slash(IntOf(m), IntOf(v)) = NoDate
<1>1. DOMAIN Only("month", m) = {"month"} /\ {"month"} # AnInt
      /\ DOMAIN Only(e, v) = {e} /\ {e} # AnInt /\ DOMAIN IntOf(v) = AnInt
  BY NamesOfParts, IntParts
<1>2. IntBeside({e}, FALSE) = "month" /\ IntBeside({"month"}, TRUE) = "day"
      /\ IntBeside(AnInt, FALSE) = "none"
  BY IntsBeside
<1>3. Accepted({"month"}, {e})
  BY PartsAccepted
<1>4. Slash(Only("month", m), Only(e, v)) = MonthEnd(m, e, v)
  BY <1>1, <1>3, NamedParts, EndAndMonth
<1>5. Slash(IntOf(m), Only(e, v)) = Slash(Only("month", m), Only(e, v))
  BY <1>1, <1>2, IntOnTheLeft
<1>6. e = "day" => Slash(Only("month", m), IntOf(v)) = Slash(Only("month", m), Only(e, v))
  BY <1>1, <1>2, IntOnTheRight
<1>7. Slash(IntOf(m), IntOf(v)) = NoDate
  BY <1>1, <1>2, LeftIntIsRefused
<1> QED BY <1>4, <1>5, <1>6, <1>7

LEMMA EndThenMonth ==
  ASSUME NEW m, NEW e \in DateEnds, NEW v
  PROVE  /\ Slash(Only(e, v), Only("month", m)) = MonthEnd(m, e, v)
         /\ Slash(Only(e, v), IntOf(m)) = MonthEnd(m, e, v)
         /\ Slash(IntOf(v), Only("month", m)) = NoDate
         /\ Slash(IntOf(v), IntOf(m)) = NoDate
<1>1. DOMAIN Only("month", m) = {"month"} /\ {"month"} # AnInt
      /\ DOMAIN Only(e, v) = {e} /\ {e} # AnInt /\ DOMAIN IntOf(m) = AnInt
  BY NamesOfParts, IntParts
<1>2. IntBeside({e}, TRUE) = "month" /\ IntBeside({"month"}, FALSE) = "none"
      /\ IntBeside(AnInt, FALSE) = "none"
  BY IntsBeside
<1>3. Accepted({e}, {"month"})
  BY PartsAccepted
<1>4. Slash(Only(e, v), Only("month", m)) = MonthEnd(m, e, v)
  BY <1>1, <1>3, NamedParts, EndAndMonth
<1>5. Slash(Only(e, v), IntOf(m)) = Slash(Only(e, v), Only("month", m))
  BY <1>1, <1>2, IntOnTheRight
<1>6. Slash(IntOf(v), Only("month", m)) = NoDate
  BY <1>1, <1>2, LeftIntIsRefused
<1>7. Slash(IntOf(v), IntOf(m)) = NoDate
  BY <1>1, <1>2, LeftIntIsRefused
<1> QED BY <1>4, <1>5, <1>6, <1>7

LEMMA ThenYear ==
  ASSUME NEW y, NEW m, NEW e \in DateEnds, NEW v
  PROVE  /\ Slash(MonthEnd(m, e, v), Only("year", y)) = DateIn(y, m, e, v)
         /\ Slash(MonthEnd(m, e, v), IntOf(y)) = DateIn(Short(y), m, e, v)
<1>1. DOMAIN MonthEnd(m, e, v) = {"month", e} /\ {"month", e} # AnInt
  BY NamesOfMonthEnd
<1>2. IntBeside({"month", e}, TRUE) = "year"
  BY IntsBeside
<1>3. Accepted({"month", e}, {"year"})
  BY PartsAccepted
<1>4. ASSUME NEW z
      PROVE  Slash(MonthEnd(m, e, v), Only("year", z)) = DateIn(z, m, e, v)
  <2>1. DOMAIN Only("year", z) = {"year"} /\ {"year"} # AnInt
    BY NamesOfParts
  <2> QED BY <1>1, <1>3, <2>1, NamedParts, EndAndYear
<1>5. Slash(MonthEnd(m, e, v), IntOf(y)) = Slash(MonthEnd(m, e, v), Only("year", Short(y)))
  BY <1>1, <1>2, YearOnTheRight
<1> QED BY <1>4, <1>5

LEMMA OtherOrders ==
  ASSUME NEW y, NEW m, NEW e \in DateEnds, NEW v
  PROVE  /\ Slash(Only("year", y), Only(e, v)) = NoDate
         /\ Slash(Only(e, v), Only("year", y)) = NoDate
         /\ Slash(Only("month", m), Only("year", y)) = NoDate
<1>1. DOMAIN Only("month", m) = {"month"} /\ {"month"} # AnInt
      /\ DOMAIN Only(e, v) = {e} /\ {e} # AnInt /\ DOMAIN Only("year", y) = {"year"} /\ {"year"} # AnInt
  BY NamesOfParts
<1>2. ~Accepted({"year"}, {e}) /\ ~Accepted({e}, {"year"}) /\ ~Accepted({"month"}, {"year"})
  BY PartsAccepted
<1> QED BY <1>1, <1>2, NamedParts

(* A date, and the three orders that its parts make it in. *)
LEMMA WrittenDates ==
  ASSUME NEW y, Short(y) = y, NEW m, NEW e \in DateEnds, NEW v, NEW Y, NEW M, NEW E,
         Y \in {Only("year", y), IntOf(y)}, M \in {Only("month", m), IntOf(m)},
         E = Only(e, v) \/ (E = IntOf(v) /\ e = "day")
  PROVE  LET when == DateIn(y, m, e, v)
         IN /\ Written3(Y, M, E) \in {when, NoDate} /\ (Y = Only("year", y) => Written3(Y, M, E) = when)
            /\ Written3(M, E, Y) \in {when, NoDate} /\ (M = Only("month", m) => Written3(M, E, Y) = when)
            /\ Written3(E, M, Y) \in {when, NoDate} /\ (E = Only(e, v) => Written3(E, M, Y) = when)
<1> DEFINE when == DateIn(y, m, e, v)
<1>1. Written3(Y, M, E) \in {when, NoDate} /\ (Y = Only("year", y) => Written3(Y, M, E) = when)
  <2>1. Slash(YearMonth(y, m), E) = when
    BY EndOfAMonth, ThenDay
  <2>2. Slash(NoDate, E) = NoDate
    BY NoDateStays
  <2>3. CASE Y = Only("year", y)
    <3>1. Slash(Y, M) = YearMonth(y, m)
      BY <2>3, YearThenMonth
    <3> QED BY <2>1, <3>1 DEF Written3
  <2>4. CASE Y = IntOf(y) /\ Y # Only("year", y)
    <3>1. Slash(Y, M) = NoDate
      BY <2>4, YearThenMonth
    <3> QED BY <2>2, <2>4, <3>1 DEF Written3
  <2> QED BY <2>3, <2>4
<1>2. Slash(MonthEnd(m, e, v), Y) = when /\ Slash(NoDate, Y) = NoDate
  BY ThenYear, NoDateStays
<1>3. Written3(M, E, Y) \in {when, NoDate} /\ (M = Only("month", m) => Written3(M, E, Y) = when)
  <2>1. M = Only("month", m) => Slash(M, E) = MonthEnd(m, e, v)
    BY MonthThenEnd
  <2>2. M = IntOf(m) => Slash(M, E) \in {MonthEnd(m, e, v), NoDate}
    BY MonthThenEnd
  <2> QED BY <1>2, <2>1, <2>2 DEF Written3
<1>4. Written3(E, M, Y) \in {when, NoDate} /\ (E = Only(e, v) => Written3(E, M, Y) = when)
  <2>1. E = Only(e, v) => Slash(E, M) = MonthEnd(m, e, v)
    BY EndThenMonth
  <2>2. E = IntOf(v) => Slash(E, M) = NoDate
    BY EndThenMonth
  <2> QED BY <1>2, <2>1, <2>2 DEF Written3
<1> QED BY <1>1, <1>3, <1>4

LEMMA OrdersAgreeOnDates == CivilInv => OrdersOfPartsAgree
<1> SUFFICES ASSUME CivilInv PROVE OrdersOfPartsAgree
  OBVIOUS
<1>1. PICK d \in 1 .. 31, w \in CivilNths :
        /\ civil.day = DateWith(counted, "day", d)
        /\ civil.last = DateWith(counted, "last", "last")
        /\ civil.nth = DateWith(counted, "nth", w)
        /\ civil.lastNth = DateWith(counted, "lastNth", w[1])
  BY CivilParts
<1> DEFINE y == Short(YearOfMonth(counted))
           m == MonthOfYear(counted)
<1>2. Short(y) = y
  <2>1. YearOfMonth(counted) \in Int
    BY CivilParts, MonthNumbers
  <2> QED BY <2>1, ShortYears
<1>3. ASSUME NEW kind \in DOMAIN civil
      PROVE  kind \in DateEnds /\ \E v : civil[kind] = DateIn(y, m, kind, v)
  <2>1. kind \in {"day", "last", "nth", "lastNth"}
    BY CivilParts
  <2> QED BY <1>1, <2>1 DEF DateEnds, DateWith
<1> HIDE DEF y, m
<1>4. ASSUME NEW kind \in DOMAIN civil
      PROVE  LET when == civil[kind]
                 typed(p) == Only(p, when[p])
                 piece(p, I) == IF p \in I THEN IntOf(when[p]) ELSE typed(p)
                 end == IF kind = "day" THEN "day" ELSE kind
                 orders == {<<"year", "month", end>>, <<"month", end, "year">>, <<end, "month", "year">>}
                 canBeInts == {"year", "month", end} \ {"last", "nth", "lastNth"}
                 all == {o \in [1 .. 3 -> {"year", "month", end}] : \A i, j \in 1 .. 3 : o[i] = o[j] => i = j}
             IN /\ \A o \in orders, I \in SUBSET canBeInts :
                     LET written == Written3(piece(o[1], I), piece(o[2], I), piece(o[3], I))
                     IN written \in {when, Only("none", 0)} /\ (o[1] \notin I => written = when)
                /\ \A o \in all \ orders :
                     Written3(typed(o[1]), typed(o[2]), typed(o[3])) = Only("none", 0)
  <2> DEFINE when == civil[kind]
             typed(p) == Only(p, when[p])
             piece(p, I) == IF p \in I THEN IntOf(when[p]) ELSE typed(p)
             end == IF kind = "day" THEN "day" ELSE kind
             orders == {<<"year", "month", end>>, <<"month", end, "year">>, <<end, "month", "year">>}
             canBeInts == {"year", "month", end} \ {"last", "nth", "lastNth"}
             all == {o \in [1 .. 3 -> {"year", "month", end}] : \A i, j \in 1 .. 3 : o[i] = o[j] => i = j}
  <2>1. kind \in DateEnds /\ end = kind
    BY <1>3
  <2>2. PICK v : when = DateIn(y, m, kind, v)
    BY <1>3
  <2> HIDE DEF when, end
  <2>3. when.year = y /\ when.month = m /\ when[end] = v
    BY <2>1, <2>2, PartsOfDate
  <2>4. typed("year") = Only("year", y) /\ typed("month") = Only("month", m) /\ typed(end) = Only(end, v)
    BY <2>3
  <2>5. ASSUME NEW I \in SUBSET canBeInts
        PROVE  /\ piece("year", I) = IF "year" \in I THEN IntOf(y) ELSE Only("year", y)
               /\ piece("month", I) = IF "month" \in I THEN IntOf(m) ELSE Only("month", m)
               /\ piece(end, I) = IF end \in I THEN IntOf(v) ELSE Only(end, v)
               /\ end \in I => end = "day"
    <3>1. end \in I => end = "day"
      BY <2>1 DEF DateEnds
    <3> QED BY <2>3, <3>1
  <2> HIDE DEF typed, piece
  <2>6. ASSUME NEW I \in SUBSET canBeInts
        PROVE  LET Y == piece("year", I)
                   M == piece("month", I)
                   E == piece(end, I)
               IN /\ Written3(Y, M, E) \in {when, NoDate} /\ ("year" \notin I => Written3(Y, M, E) = when)
                  /\ Written3(M, E, Y) \in {when, NoDate} /\ ("month" \notin I => Written3(M, E, Y) = when)
                  /\ Written3(E, M, Y) \in {when, NoDate} /\ (end \notin I => Written3(E, M, Y) = when)
    <3> DEFINE Y == piece("year", I)
               M == piece("month", I)
               E == piece(end, I)
    <3>1. /\ Y \in {Only("year", y), IntOf(y)} /\ ("year" \notin I => Y = Only("year", y))
          /\ M \in {Only("month", m), IntOf(m)} /\ ("month" \notin I => M = Only("month", m))
          /\ E = Only(end, v) \/ (E = IntOf(v) /\ end = "day")
          /\ end \notin I => E = Only(end, v)
      BY <2>5
    <3> HIDE DEF Y, M, E
    <3>2. LET written == DateIn(y, m, end, v)
          IN /\ Written3(Y, M, E) \in {written, NoDate} /\ (Y = Only("year", y) => Written3(Y, M, E) = written)
             /\ Written3(M, E, Y) \in {written, NoDate} /\ (M = Only("month", m) => Written3(M, E, Y) = written)
             /\ Written3(E, M, Y) \in {written, NoDate} /\ (E = Only(end, v) => Written3(E, M, Y) = written)
      BY <1>2, <2>1, <3>1, WrittenDates
    <3> QED BY <2>1, <2>2, <3>1, <3>2 DEF Y, M, E
  <2>7. ASSUME NEW o \in orders, NEW I \in SUBSET canBeInts
        PROVE  LET written == Written3(piece(o[1], I), piece(o[2], I), piece(o[3], I))
               IN written \in {when, Only("none", 0)} /\ (o[1] \notin I => written = when)
    <3>1. \/ o[1] = "year" /\ o[2] = "month" /\ o[3] = end
          \/ o[1] = "month" /\ o[2] = end /\ o[3] = "year"
          \/ o[1] = end /\ o[2] = "month" /\ o[3] = "year"
      OBVIOUS
    <3> QED BY <2>6, <3>1 DEF NoDate
  <2>8. ASSUME NEW o \in all \ orders
        PROVE  Written3(typed(o[1]), typed(o[2]), typed(o[3])) = Only("none", 0)
    <3>1. \/ o[1] = "year" /\ o[2] = end
          \/ o[1] = "month" /\ o[2] = "year"
          \/ o[1] = end /\ o[2] = "year"
      <4>1. /\ o \in [1 .. 3 -> {"year", "month", end}]
            /\ o[1] # o[2] /\ o[1] # o[3] /\ o[2] # o[3]
        OBVIOUS
      <4>2. o[1] \in {"year", "month", end} /\ o[2] \in {"year", "month", end} /\ o[3] \in {"year", "month", end}
            /\ o = <<o[1], o[2], o[3]>>
        BY <4>1
      <4>3. <<o[1], o[2], o[3]>> \notin orders
        BY <4>2
      <4>4. /\ ~(o[1] = "year" /\ o[2] = "month" /\ o[3] = end)
            /\ ~(o[1] = "month" /\ o[2] = end /\ o[3] = "year")
            /\ ~(o[1] = end /\ o[2] = "month" /\ o[3] = "year")
        BY <4>3
      <4> QED BY <4>1, <4>2, <4>4
    <3>2. Slash(typed(o[1]), typed(o[2])) = NoDate
      BY <2>1, <2>4, <3>1, OtherOrders
    <3> QED BY <3>2, NoDateStays DEF Written3, NoDate
  <2> QED BY <2>7, <2>8 DEF typed, piece, when, end
<1> QED BY <1>4 DEF OrdersOfPartsAgree

LEMMA SoundCivil == CivilInv => CivilDatesAreSound
BY CountedMonths, OrderedDays, MetWeekdays, OrdersAgreeOnDates DEF CivilDatesAreSound

(* Every date of every kind that is reached by adding months and years is the one that
   counting finds; its days and weekdays are those of the calendar, and its parts make it
   in the orders that they may be written in.                                          *)
THEOREM CivilDatesSound == CivilSpec => []CivilDatesAreSound
<1>1. CivilSpec => []CivilInv
  BY CivilInitInv, CivilNextInv, PTL DEF CivilSpec
<1> QED BY <1>1, SoundCivil, PTL

-----------------------------------------------------------------------------
(* Base64, for strings of every size. *)

\* The number of letters that a string of n bytes is encoded in, and of all characters.
LettersFor(n) == 4 * (n \div 3) + (IF n % 3 = 0 THEN 0 ELSE (n % 3) + 1)
TotalFor(n) == 4 * ((n + 2) \div 3)

Base64Inv == plain \in Seq(0 .. 255)

(* Groups of three, and what is left. *)
LEMMA Thirds ==
  ASSUME NEW n \in Nat
  PROVE  /\ n = 3 * (n \div 3) + (n % 3) /\ n % 3 \in {0, 1, 2} /\ n \div 3 \in Nat
         /\ (n + 2) \div 3 = (n \div 3) + (IF n % 3 = 0 THEN 0 ELSE 1)
OBVIOUS

(* Decoding makes as many bytes of the letters as there were. *)
LEMMA Lengths ==
  ASSUME NEW n \in Nat
  PROVE  /\ LettersFor(n) \in Nat /\ TotalFor(n) \in Nat
         /\ LettersFor(n) <= TotalFor(n) /\ TotalFor(n) < LettersFor(n) + 3 /\ TotalFor(n) % 4 = 0
         /\ 3 * (LettersFor(n) \div 4) + BytesOfRest(LettersFor(n) % 4) = n
<1> DEFINE g == n \div 3
           left == n % 3
<1>1. n = 3 * g + left /\ left \in {0, 1, 2} /\ g \in Nat
      /\ (n + 2) \div 3 = g + (IF left = 0 THEN 0 ELSE 1)
  BY Thirds
<1>2. LettersFor(n) = 4 * g + (IF left = 0 THEN 0 ELSE left + 1)
  BY DEF LettersFor
<1>3. TotalFor(n) = 4 * (g + (IF left = 0 THEN 0 ELSE 1))
  BY <1>1 DEF TotalFor
<1> HIDE DEF g, left
<1>4. TotalFor(n) % 4 = 0
  BY <1>1, <1>3
<1>5. LettersFor(n) \div 4 = g /\ LettersFor(n) % 4 = IF left = 0 THEN 0 ELSE left + 1
  BY <1>1, <1>2
<1>6. 3 * (LettersFor(n) \div 4) + BytesOfRest(LettersFor(n) % 4) = n
  BY <1>1, <1>5 DEF BytesOfRest
<1> QED BY <1>1, <1>2, <1>3, <1>4, <1>6

(* The bytes of a group, and its letters. *)
AreBytes(o) == \A i \in 1 .. 3 : o[i] \in 0 .. 255
\* s are the letters of the bytes o.
LettersOf(o, s) ==
  /\ s[1] = o[1] \div 4
  /\ s[2] = (o[1] % 4) * 16 + (o[2] \div 16)
  /\ s[3] = (o[2] % 16) * 4 + (o[3] \div 64)
  /\ s[4] = o[3] % 64

AreQuartet(q) == \A j \in 1 .. 4 : q[j] \in 0 .. 255

LEMMA OctetThere ==
  ASSUME NEW str, NEW g, NEW i \in 1 .. 3, 3 * g + i <= Len(str)
  PROVE  Octets(str, g)[i] = str[3 * g + i]
BY DEF Octets

LEMMA OctetIs ==
  ASSUME NEW str \in Seq(0 .. 255), NEW g \in Nat, NEW i \in 1 .. 3
  PROVE  /\ Octets(str, g)[i] \in 0 .. 255
         /\ 3 * g + i <= Len(str) => Octets(str, g)[i] = str[3 * g + i]
<1>1. Octets(str, g)[i] = IF 3 * g + i <= Len(str) THEN str[3 * g + i] ELSE 0
  BY DEF Octets
<1>2. CASE 3 * g + i <= Len(str)
  <2>1. 3 * g + i \in 1 .. Len(str)
    BY <1>2
  <2>2. str[3 * g + i] \in 0 .. 255
    BY <2>1, ElementOfSeq
  <2> QED BY <1>1, <1>2, <2>2
<1>3. CASE ~(3 * g + i <= Len(str))
  BY <1>1, <1>3
<1> QED BY <1>2, <1>3

LEMMA OctetsAreBytes ==
  ASSUME NEW str \in Seq(0 .. 255), NEW g \in Nat
  PROVE  AreBytes(Octets(str, g))
BY OctetIs DEF AreBytes

LEMMA SextetsOf ==
  ASSUME NEW o, AreBytes(o)
  PROVE  LettersOf(o, Sextets(o)) /\ \A j \in 1 .. 4 : Sextets(o)[j] \in 0 .. 63
<1> DEFINE a == o[1]
           b == o[2]
           c == o[3]
<1>0. a \in 0 .. 255 /\ b \in 0 .. 255 /\ c \in 0 .. 255
  BY DEF AreBytes
<1>1. /\ Sextets(o)[1] = a \div 4
      /\ Sextets(o)[2] = (a % 4) * 16 + (b \div 16)
      /\ Sextets(o)[3] = (b % 16) * 4 + (c \div 64)
      /\ Sextets(o)[4] = c % 64
  BY DEF Sextets
<1> HIDE DEF a, b, c, LettersOf
<1>2. a \div 4 \in 0 .. 63 /\ a % 4 \in 0 .. 3 /\ b \div 16 \in 0 .. 15 /\ b % 16 \in 0 .. 15
      /\ c \div 64 \in 0 .. 3 /\ c % 64 \in 0 .. 63
  BY <1>0
<1>3. \A j \in 1 .. 4 : Sextets(o)[j] \in 0 .. 63
  <2>1. Sextets(o)[1] \in 0 .. 63
    BY <1>1, <1>2
  <2>2. Sextets(o)[2] \in 0 .. 63
    BY <1>1, <1>2
  <2>3. Sextets(o)[3] \in 0 .. 63
    BY <1>1, <1>2
  <2>4. Sextets(o)[4] \in 0 .. 63
    BY <1>1, <1>2
  <2>5. \A j \in 1 .. 4 : j = 1 \/ j = 2 \/ j = 3 \/ j = 4
    OBVIOUS
  <2> QED BY <2>1, <2>2, <2>3, <2>4, <2>5
<1> QED BY <1>1, <1>3 DEF a, b, c, LettersOf

(* The bytes that they are decoded to, each of two letters. *)
LEMMA DecodedBack ==
  ASSUME NEW q, NEW o, AreBytes(o), NEW s, LettersOf(o, s), AreQuartet(q),
         NEW i \in 1 .. 3, \A j \in 1 .. i + 1 : q[j] = s[j]
  PROVE  Decoded(q)[i] = o[i]
<1> DEFINE a == o[1]
           b == o[2]
           c == o[3]
<1>0. /\ a \in 0 .. 255 /\ b \in 0 .. 255 /\ c \in 0 .. 255
      /\ q[1] \in 0 .. 255 /\ q[2] \in 0 .. 255 /\ q[3] \in 0 .. 255 /\ q[4] \in 0 .. 255
  BY DEF AreBytes, AreQuartet
<1>7. /\ s[1] = a \div 4 /\ s[2] = (a % 4) * 16 + (b \div 16)
      /\ s[3] = (b % 16) * 4 + (c \div 64) /\ s[4] = c % 64
  BY DEF LettersOf
<1> HIDE DEF a, b, c
<1>1. /\ Decoded(q)[1] = ((q[1] * 4) % 256) + ((q[2] % 64) \div 16)
      /\ Decoded(q)[2] = (q[2] % 16) * 16 + ((q[3] % 64) \div 4)
      /\ Decoded(q)[3] = ((q[3] % 4) * 64 + q[4]) % 256
  BY DEF Decoded
<1>2. /\ a = 4 * (a \div 4) + (a % 4) /\ a \div 4 \in 0 .. 63 /\ a % 4 \in 0 .. 3
      /\ b = 16 * (b \div 16) + (b % 16) /\ b \div 16 \in 0 .. 15 /\ b % 16 \in 0 .. 15
      /\ c = 64 * (c \div 64) + (c % 64) /\ c \div 64 \in 0 .. 3 /\ c % 64 \in 0 .. 63
  BY <1>0
<1>6. i = 1 \/ i = 2 \/ i = 3
  OBVIOUS
<1>3. CASE i = 1
  <2>0. q[1] = a \div 4 /\ q[2] = (a % 4) * 16 + (b \div 16)
    BY <1>3, <1>7
  <2>1. (q[1] * 4) % 256 = 4 * (a \div 4)
    BY <1>0, <1>2, <2>0
  <2>2. (q[2] % 64) \div 16 = a % 4
    BY <1>0, <1>2, <2>0
  <2>3. Decoded(q)[1] = a
    BY <1>1, <1>2, <2>1, <2>2
  <2> QED BY <1>3, <2>3 DEF a
<1>4. CASE i = 2
  <2>0. q[2] = (a % 4) * 16 + (b \div 16) /\ q[3] = (b % 16) * 4 + (c \div 64)
    BY <1>4, <1>7
  <2>1. q[2] % 16 = b \div 16
    BY <1>2, <2>0
  <2>2. (q[3] % 64) \div 4 = b % 16
    BY <1>2, <2>0
  <2>3. Decoded(q)[2] = b
    BY <1>1, <1>2, <2>1, <2>2
  <2> QED BY <1>4, <2>3 DEF b
<1>5. CASE i = 3
  <2>0. q[3] = (b % 16) * 4 + (c \div 64) /\ q[4] = c % 64
    BY <1>5, <1>7
  <2>1. q[3] % 4 = c \div 64
    BY <1>2, <2>0
  <2>3. Decoded(q)[3] = c
    BY <1>1, <1>2, <2>0, <2>1
  <2> QED BY <1>5, <2>3 DEF c
<1> QED BY <1>3, <1>4, <1>5, <1>6

(* A letter is not an '='. *)
LEMMA LettersAreBelow == \A x \in 0 .. 63 : x < Equals /\ x # Equals /\ x \in 0 .. Equals - 1 /\ x \in Int
BY DEF Equals

(* What encode() makes of a string: letters, and the '=' behind them. *)
LEMMA Encoded ==
  ASSUME NEW str \in Seq(0 .. 255)
  PROVE  /\ encode(str) \in Seq(Int) /\ Len(encode(str)) = TotalFor(Len(str))
         /\ \A k \in 1 .. LettersFor(Len(str)) :
              /\ encode(str)[k] \in 0 .. 63
              /\ encode(str)[k] = Sextets(Octets(str, (k - 1) \div 4))[((k - 1) % 4) + 1]
         /\ \A k \in LettersFor(Len(str)) + 1 .. TotalFor(Len(str)) : encode(str)[k] = Equals
<1> DEFINE n == Len(str)
           letter(k) == Sextets(Octets(str, (k - 1) \div 4))[((k - 1) % 4) + 1]
<1>1. encode(str) = [k \in 1 .. TotalFor(n) |-> IF k <= LettersFor(n) THEN letter(k) ELSE Equals]
  BY DEF encode, TotalFor, LettersFor
<1>2. LettersFor(n) \in Nat /\ TotalFor(n) \in Nat /\ LettersFor(n) <= TotalFor(n)
  BY Lengths
<1>3. \A k \in 1 .. TotalFor(n) : letter(k) \in 0 .. 63
  <2>1. TAKE k \in 1 .. TotalFor(n)
  <2>2. (k - 1) \div 4 \in Nat /\ ((k - 1) % 4) + 1 \in 1 .. 4
    BY <1>2
  <2> DEFINE g == (k - 1) \div 4
  <2>3. AreBytes(Octets(str, g))
    BY <2>2, OctetsAreBytes
  <2>4. \A j \in 1 .. 4 : Sextets(Octets(str, g))[j] \in 0 .. 63
    BY <2>3, SextetsOf
  <2> QED BY <2>2, <2>4
<1> HIDE DEF letter
<1>4. \A k \in 1 .. TotalFor(n) : encode(str)[k] = IF k <= LettersFor(n) THEN letter(k) ELSE Equals
  BY <1>1
<1>5. encode(str) \in Seq(Int) /\ Len(encode(str)) = TotalFor(n)
  <2>1. \A k \in 1 .. TotalFor(n) : (IF k <= LettersFor(n) THEN letter(k) ELSE Equals) \in Int
    <3>1. TAKE k \in 1 .. TotalFor(n)
    <3>2. letter(k) \in 0 .. 63
      BY <1>3
    <3>3. letter(k) \in Int /\ Equals \in Int
      <4>1. Equals \in Int
        BY DEF Equals
      <4> QED BY <3>2, <4>1, LettersAreBelow, Zenon
    <3> QED BY <3>3
  <2>2. encode(str) \in [1 .. TotalFor(n) -> Int]
    BY <1>1, <2>1
  <2> QED BY <1>2, <2>2, SeqDef, LenProperties
<1>6. \A k \in 1 .. LettersFor(n) : encode(str)[k] \in 0 .. 63 /\ encode(str)[k] = letter(k)
  <2>1. TAKE k \in 1 .. LettersFor(n)
  <2>2. k \in 1 .. TotalFor(n) /\ k <= LettersFor(n)
    BY <1>2
  <2>3. letter(k) \in 0 .. 63 /\ encode(str)[k] = letter(k)
    BY <1>3, <1>4, <2>2
  <2> QED BY <2>3
<1>7. \A k \in LettersFor(n) + 1 .. TotalFor(n) : encode(str)[k] = Equals
  BY <1>2, <1>4
<1> QED BY <1>5, <1>6, <1>7 DEF letter

(* Decoding stops behind the letters. *)
LEMMA StopsAt ==
  ASSUME NEW code \in Seq(Int), NEW size \in 0 .. Len(code),
         \A k \in 1 .. size : code[k] < Equals,
         size < Len(code) => code[size + 1] >= Equals
  PROVE  EncodedLength(code) = size
<1>1. DOMAIN code = 1 .. Len(code) /\ Len(code) \in Nat
  OBVIOUS
<1>2. CASE size = Len(code)
  <2>1. ~ \E k \in DOMAIN code : code[k] >= Equals
    <3>1. SUFFICES ASSUME NEW k \in DOMAIN code, code[k] >= Equals PROVE FALSE
      OBVIOUS
    <3>2. code[k] < Equals /\ code[k] \in Int
      BY <1>1, <1>2
    <3> QED BY <3>1, <3>2 DEF Equals
  <2> QED BY <1>2, <2>1 DEF EncodedLength
<1>3. CASE size < Len(code)
  <2> DEFINE Ends(k) == code[k] >= Equals /\ \A j \in 1 .. k - 1 : code[j] < Equals
  <2>1. size + 1 \in DOMAIN code /\ Ends(size + 1)
    BY <1>1, <1>3
  <2>2. ASSUME NEW k \in DOMAIN code, Ends(k)
        PROVE  k = size + 1
    <3>1. k \in 1 .. Len(code) /\ code[k] \in Int
      BY <1>1
    <3>2. CASE k <= size
      BY <2>2, <3>1, <3>2 DEF Equals
    <3>3. CASE k > size + 1
      <4>1. code[size + 1] < Equals /\ code[size + 1] \in Int
        BY <2>1, <2>2, <3>1, <3>3
      <4> QED BY <1>3, <4>1 DEF Equals
    <3> QED BY <3>1, <3>2, <3>3
  <2> DEFINE end == CHOOSE k \in DOMAIN code : Ends(k)
  <2>3. EncodedLength(code) = end - 1
    BY <2>1 DEF EncodedLength
  <2> HIDE DEF Ends
  <2>4. end = size + 1
    BY <2>1, <2>2
  <2> HIDE DEF end
  <2> QED BY <1>1, <2>3, <2>4
<1> QED BY <1>2, <1>3

(* What begins with the letters of a string, and is cut off behind them, is decoded to it. *)
LEMMA DecodesBack ==
  ASSUME NEW str \in Seq(0 .. 255), NEW code \in Seq(Int),
         EncodedLength(code) = LettersFor(Len(str)),
         \A k \in 1 .. LettersFor(Len(str)) : code[k] = encode(str)[k]
  PROVE  decode(code) = str
<1> DEFINE n == Len(str)
           size == LettersFor(n)
           byte(k) == Decoded(Quartet(code, size, (k - 1) \div 3))[((k - 1) % 3) + 1]
<1>0. n \in Nat
  OBVIOUS
<1>1. 3 * (size \div 4) + BytesOfRest(size % 4) = n /\ size \in Nat
  <2> HIDE DEF n
  <2> QED BY <1>0, Lengths
<1>2. decode(code) = [k \in 1 .. n |-> byte(k)]
  BY <1>1 DEF decode
<1>3. ASSUME NEW k \in 1 .. n
      PROVE  byte(k) = str[k]
  <2> DEFINE g == (k - 1) \div 3
             i == ((k - 1) % 3) + 1
             q == Quartet(code, size, g)
  <2>1. g \in Nat /\ i \in 1 .. 3 /\ k = 3 * g + i
    <3>1. k - 1 \in Nat
      BY <1>0
    <3> DEFINE m == k - 1
    <3>2. m = k - 1 /\ m \in Nat
      BY <3>1
    <3> HIDE DEF m
    <3>3. m = 3 * (m \div 3) + (m % 3) /\ m % 3 \in {0, 1, 2} /\ m \div 3 \in Nat
      BY <3>2, Thirds
    <3>4. g = m \div 3 /\ i = (m % 3) + 1
      BY <3>2
    <3> HIDE DEF g, i
    <3> QED BY <1>0, <3>2, <3>3, <3>4
  <2>2. \A j \in 1 .. i + 1 : 4 * g + j <= size /\ 4 * g + j \in 1 .. size
    <3>1. n = 3 * (n \div 3) + (n % 3) /\ n % 3 \in {0, 1, 2} /\ n \div 3 \in Nat
      BY <1>0, Thirds
    <3>2. size = 4 * (n \div 3) + (IF n % 3 = 0 THEN 0 ELSE (n % 3) + 1)
      BY DEF LettersFor
    <3> HIDE DEF g, i, n, size
    <3>3. 4 * g + i + 1 <= size
      <4>1. 3 * g + i <= n /\ g \in Nat /\ i \in 1 .. 3
        BY <2>1 DEF n
      <4> DEFINE h == n \div 3
                 left == n % 3
      <4>2. n = 3 * h + left /\ left \in 0 .. 2 /\ h \in Nat
            /\ size = 4 * h + (IF left = 0 THEN 0 ELSE left + 1)
        BY <3>1, <3>2
      <4> HIDE DEF h, left
      <4>3. 3 * g + i <= 3 * h + left
        BY <4>1, <4>2
      <4>4. g <= h /\ (g = h => i <= left)
        BY <4>1, <4>2, <4>3
      <4>5. CASE g = h
        <5>1. left # 0 /\ i <= left
          BY <4>1, <4>4, <4>5
        <5> QED BY <4>1, <4>2, <4>5, <5>1
      <4>6. CASE g # h
        <5>1. g + 1 <= h
          BY <4>1, <4>2, <4>4, <4>6
        <5>2. size >= 4 * h
          BY <4>2
        <5>3. 4 * g + i + 1 <= 4 * (g + 1)
          BY <4>1
        <5>4. size \in Int
          BY <4>2
        <5> QED BY <4>1, <4>2, <5>1, <5>2, <5>3, <5>4
      <4> QED BY <4>5, <4>6
    <3> QED BY <1>1, <2>1, <3>3
  <2> DEFINE o == Octets(str, g)
  <2>3. AreBytes(o)
    BY <2>1, OctetsAreBytes
  <2>4. o[i] = str[k]
    <3>1. 3 * g + i <= Len(str) /\ g \in Nat /\ i \in 1 .. 3
      BY <2>1
    <3>2. 3 * g + i = k
      BY <2>1
    <3> HIDE DEF g, i
    <3>3. Octets(str, g)[i] = str[3 * g + i]
      BY <3>1, OctetThere, Zenon
    <3> QED BY <3>2, <3>3
  <2>5. LettersOf(o, Sextets(o)) /\ \A j \in 1 .. 4 : Sextets(o)[j] \in 0 .. 63
    <3> HIDE DEF o
    <3> QED BY <2>3, SextetsOf
  <2>11. LettersOf(o, Sextets(o))
    BY <2>5
  <2>6. \A j \in 1 .. 4 : q[j] = IF 4 * g + j <= size THEN code[4 * g + j] ELSE 255
    BY DEF Quartet
  <2>7. \A j \in 1 .. 4 : 4 * g + j <= size => q[j] = Sextets(o)[j]
    <3>1. SUFFICES ASSUME NEW j \in 1 .. 4, 4 * g + j <= size PROVE q[j] = Sextets(o)[j]
      OBVIOUS
    <3> HIDE DEF g, q
    <3>2. 4 * g + j \in 1 .. size
      BY <1>1, <2>1, <3>1
    <3> DEFINE p == 4 * g + j
    <3>4. encode(str)[p] = Sextets(Octets(str, (p - 1) \div 4))[((p - 1) % 4) + 1]
      BY <3>2, Encoded
    <3>5. (p - 1) \div 4 = g /\ ((p - 1) % 4) + 1 = j
      <4> DEFINE m == p - 1
                 r == j - 1
      <4>1. m = 4 * g + r /\ m = p - 1 /\ m \in Int /\ r \in Nat /\ r < 4 /\ r = j - 1
            /\ g \in Int /\ 4 \in Nat \ {0}
        BY <2>1
      <4> HIDE DEF m, p, r
      <4>2. m \div 4 = g /\ m % 4 = r
        BY <4>1, QuotientIs
      <4>3. r + 1 = j
        BY <4>1
      <4> QED BY <4>1, <4>2, <4>3, Zenon
    <3> HIDE DEF p
    <3>6. encode(str)[p] = Sextets(o)[j]
      BY <3>4, <3>5
    <3>7. q[j] = code[p]
      BY <2>6, <3>1 DEF p
    <3> QED BY <3>2, <3>6, <3>7 DEF p
  <2>8. \A j \in 1 .. 4 : q[j] \in 0 .. 255
    <3>1. TAKE j \in 1 .. 4
    <3>2. CASE 4 * g + j <= size
      <4>1. q[j] = Sextets(o)[j] /\ Sextets(o)[j] \in 0 .. 63
        BY <2>5, <2>7, <3>2
      <4> HIDE DEF q, o
      <4> QED BY <4>1
    <3>3. CASE ~(4 * g + j <= size)
      <4> HIDE DEF q, g
      <4>1. q[j] = IF 4 * g + j <= size THEN code[4 * g + j] ELSE 255
        BY <2>6
      <4>2. q[j] = 255
        BY <3>3, <4>1
      <4> QED BY <4>2
    <3> QED BY <3>2, <3>3
  <2> HIDE DEF q, o, g, i, size
  <2>10. Decoded(q)[i] = o[i]
    <3>1. i \in 1 .. 3
      BY <2>1
    <3>2. \A j \in 1 .. i + 1 : q[j] = Sextets(o)[j]
      <4>1. TAKE j \in 1 .. i + 1
      <4>2. j \in 1 .. 4
        BY <2>1
      <4>3. 4 * g + j <= size
        BY <2>2
      <4> QED BY <2>7, <4>2, <4>3
    <3>3. AreQuartet(q)
      BY <2>8 DEF AreQuartet
    <3> QED BY <2>3, <2>11, <3>1, <3>2, <3>3, DecodedBack
  <2> QED BY <2>4, <2>10 DEF q, g, i, size
<1> HIDE DEF byte
<1>4. str = [k \in 1 .. n |-> str[k]]
  OBVIOUS
<1> QED BY <1>2, <1>3, <1>4

(* The strings are bytes. *)
LEMMA Base64Always == Base64Spec => []Base64Inv
<1>1. Base64Init => Base64Inv
  BY DEF Base64Init, Base64Inv
<1>2. Base64Inv /\ [Base64Next]_plain => Base64Inv'
  <2> SUFFICES ASSUME Base64Inv, [Base64Next]_plain PROVE Base64Inv'
    OBVIOUS
  <2>1. CASE Base64Next
    <3>1. PICK b \in Bytes : plain' = Append(plain, b)
      BY <2>1 DEF Base64Next
    <3>2. b \in 0 .. 255
      BY Base64Assumption
    <3> QED BY <3>1, <3>2 DEF Base64Inv
  <2>2. CASE plain' = plain
    BY <2>2 DEF Base64Inv
  <2> QED BY <2>1, <2>2
<1> QED BY <1>1, <1>2, PTL DEF Base64Spec

(* The end of the letters is found in each of the three codes, so that all are decoded. *)
LEMMA Base64Exact == Base64Inv => Base64IsExact
<1> SUFFICES ASSUME Base64Inv PROVE Base64IsExact
  OBVIOUS
<1> DEFINE code == encode(plain)
           n == Len(plain)
           size == LettersFor(n)
           total == TotalFor(n)
           letters == SubSeq(code, 1, size)
           behind == letters \o <<Foreign, 0, 1>>
<1>1. plain \in Seq(0 .. 255) /\ n \in Nat
  BY DEF Base64Inv
<1>2. size \in Nat /\ total \in Nat /\ size <= total /\ total < size + 3 /\ total % 4 = 0
  BY <1>1, Lengths
<1>3. /\ code \in Seq(Int) /\ Len(code) = total
      /\ \A k \in 1 .. size : code[k] \in 0 .. 63
      /\ \A k \in size + 1 .. total : code[k] = Equals
  BY <1>1, Encoded
<1> HIDE DEF code, n, size, total
<1>4. {k \in DOMAIN code : code[k] # Equals} = 1 .. size
  <2>1. DOMAIN code = 1 .. total
    BY <1>3
  <2>2. \A k \in 1 .. total : k \in 1 .. size \/ k \in size + 1 .. total
    BY <1>2
  <2>3. \A k \in 1 .. size : k \in 1 .. total /\ code[k] # Equals
    <3>1. TAKE k \in 1 .. size
    <3>2. code[k] \in 0 .. 63
      BY <1>3
    <3>3. code[k] # Equals
      BY <3>2, LettersAreBelow, Zenon
    <3> QED BY <1>2, <3>3
  <2> QED BY <1>3, <2>1, <2>2, <2>3
<1>5. Cardinality({k \in DOMAIN code : code[k] # Equals}) = size
  <2>1. Cardinality(1 .. size) = size
    BY <1>2, FS_Interval
  <2> QED BY <1>4, <2>1
<1>6. letters \in Seq(Int) /\ Len(letters) = size /\ \A k \in 1 .. size : letters[k] = code[k]
  <2>1. \A k \in 1 .. size : code[k] \in Int
    BY <1>3, LettersAreBelow, Zenon
  <2> QED BY <1>2, <2>1, SubSeqProperties
<1> HIDE DEF letters
<1>7. EncodedLength(code) = size
  <2>1. \A k \in 1 .. size : code[k] < Equals
    BY <1>3, LettersAreBelow
  <2>2. size < Len(code) => code[size + 1] >= Equals
    BY <1>2, <1>3 DEF Equals
  <2>3. code \in Seq(Int) /\ size \in 0 .. Len(code)
    BY <1>2, <1>3
  <2> QED BY <2>1, <2>2, <2>3, StopsAt
<1>8. EncodedLength(letters) = size
  <2>1. \A k \in 1 .. size : letters[k] < Equals
    BY <1>3, <1>6, LettersAreBelow
  <2> QED BY <1>2, <1>6, <2>1, StopsAt
<1>9. /\ behind \in Seq(Int) /\ Len(behind) = size + 3 /\ behind[size + 1] = Foreign
      /\ \A k \in 1 .. size : behind[k] = code[k]
  BY <1>2, <1>6 DEF Foreign
<1> HIDE DEF behind
<1>10. EncodedLength(behind) = size
  <2>1. \A k \in 1 .. size : behind[k] < Equals
    BY <1>3, <1>9, LettersAreBelow
  <2>2. size < Len(behind) => behind[size + 1] >= Equals
    BY <1>9 DEF Equals, Foreign
  <2> QED BY <1>2, <1>9, <2>1, <2>2, StopsAt
<1>11. decode(code) = plain
  BY <1>1, <1>3, <1>7, DecodesBack DEF size, n, code
<1>12. decode(letters) = plain
  BY <1>1, <1>6, <1>8, DecodesBack DEF size, n, code
<1>13. decode(behind) = plain
  BY <1>1, <1>9, <1>10, DecodesBack DEF size, n, code
<1>14. \A k \in DOMAIN letters : letters[k] \in 0 .. Equals - 1
  <2>1. DOMAIN letters = 1 .. size
    BY <1>6
  <2> QED BY <1>3, <1>6, <2>1, LettersAreBelow
<1>15. Len(code) % 4 = 0 /\ Len(code) < Len(letters) + 3
  BY <1>2, <1>3, <1>6
<1> QED BY <1>5, <1>11, <1>12, <1>13, <1>14, <1>15 DEF Base64IsExact, behind, letters, code

(* What was encoded is decoded as it was, also without the '=' or with something else
   behind it, and consists of groups of four (Base64.cpp:60-185), for all strings.     *)
THEOREM Base64Sound == Base64Spec => []Base64IsExact
BY Base64Always, Base64Exact, PTL

(* Values: whichever of them are in use, they are what they stand for. *)
THEOREM ValuesAlwaysExact == ValueSpec => []ValuesAreExact
<1>1. ValueSpec => [](/\ CalendarAgrees /\ CivilDatesAreSound /\ ReckoningIsSound
                      /\ PeriodsAreSets /\ LocalTimesAreSound /\ ZoneIsFound /\ Base64IsExact)
  BY CalendarSound, CivilDatesSound, ReckoningSound, PeriodsSound, LocalTimesSound, ZoneFound,
     Base64Sound, PTL DEF ValueSpec
<1>2. (/\ CalendarAgrees /\ CivilDatesAreSound /\ ReckoningIsSound
       /\ PeriodsAreSets /\ LocalTimesAreSound /\ ZoneIsFound /\ Base64IsExact) => ValuesAreExact
  BY DEF ValuesAreExact
<1> QED BY <1>1, <1>2, PTL

=============================================================================

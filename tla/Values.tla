------------------------------- MODULE Values -------------------------------
(* The values that a program reckons with: days and civil dates, times, periods and
   durations, local times, the zones of coordinates, and bytes that it sends as text.
   None of them has a part of another, and a step of one is a step of its own beside
   those of the others.                                                              *)
EXTENDS ZoneSearch, Reckoning, LocalTime, CivilDate, Base64

VARIABLE part  \* which of them are in use: one at a time

ValueSpec == CalendarSpec /\ CivilSpec /\ ReckoningSpec /\ PeriodSpec /\ LocalSpec /\ ZoneSpec /\ Base64Spec

(* The values in use are what they stand for: dates are the days of the calendar
   (date_time/Date.cpp:59-211), and those reached by months and years are counted
   rightly (date_time/date/date.h); times are reckoned with as numbers are
   (date_time/TimeDuration.cpp, DateTime.cpp), periods are sets of times
   (date_time/TimePeriod.h:36-262), local times are shown when they are
   (date_time/LocalDateTime.cpp), the zone of a coordinate is the one that its table
   holds for it (WorldTimeZones.cpp:93-118), and encoded bytes are decoded as they were
   (Base64.cpp:60-185).                                                               *)
ValuesAreExact ==
  /\ part = "days" => CalendarAgrees
  /\ part = "civil" => CivilDatesAreSound
  /\ part = "reckoning" => ReckoningIsSound
  /\ part = "periods" => PeriodsAreSets
  /\ part = "zones" => LocalTimesAreSound
  /\ part = "coordinates" => ZoneIsFound
  /\ part = "base64" => Base64IsExact
=============================================================================

------------------------------ MODULE DateText ------------------------------
(* Times as text once more: what Fmi::DateTime, Date and TimeDuration write and read
   themselves (date_time/DateTime.cpp, Date.cpp, TimeDuration.cpp, with the grammars of
   ParserDefinitions.h), apart from TimeFormatter and TimeParser; and the faster
   functions of StringConversion.cpp, which write the same.

   The texts are those of TimeText, in the same variable.  The month's name is one
   character.  A fraction that is read is computed in floating point, and may come out
   one microsecond short: ".000249" is 248 microseconds.  The model allows it of every
   fraction.                                                                         *)
EXTENDS TimeText

Point(micros) ==
  IF micros = 0 THEN <<>> ELSE <<Period>> \o [i \in 1 .. 6 |-> (micros \div 10^(6 - i)) % 10]

\* date::format("%H:%M:%S"), and without the colons; the hours have two digits or more.
Clock(total, separator) ==
  LET h == total \div 3600
  IN (IF h < 100 THEN Two(h) ELSE DigitsOf(h)) \o separator
     \o Two((total \div 60) % 60) \o separator \o Two(total % 60)

DateStyles == {"simple", "isoBasic", "isoExtended", "duration", "isoDuration"}

DateString(style, ymd) ==
  CASE style = "simple"      -> Four(ymd.year) \o <<Dash, 30 + ymd.month, Dash>> \o Two(ymd.day)
    [] style = "isoBasic"    -> Four(ymd.year) \o Two(ymd.month) \o Two(ymd.day)
    [] style = "isoExtended" ->
         Four(ymd.year) \o <<Dash>> \o Two(ymd.month) \o <<Dash>> \o Two(ymd.day)
to_date_string(style, day) == DateString(style, from_days(day))

\* TimeDuration::to_simple_string() and to_iso_string()
to_duration_string(style, total) ==
  LET separator == IF style = "duration" THEN <<Colon>> ELSE <<>>
  IN IF total < 0 THEN <<Dash>> \o Clock(-total, separator) ELSE Clock(total, separator)

\* DateTime::to_simple_string(), to_iso_string(), to_iso_extended_string(), and durations
to_string(style, m) ==
  IF style \in {"duration", "isoDuration"} THEN to_duration_string(style, total_seconds(m.at))
  ELSE to_date_string(style, m.at[1]) \o (IF style = "simple" THEN <<Blank>> ELSE <<Tee>>)
       \o Clock(m.at[2], IF style = "isoBasic" THEN <<>> ELSE <<Colon>>) \o Point(m.micros)

(* StringConversion.cpp: the digits come in pairs from a table with 100 of them, and
   what is read outside of it may be anything.                                       *)

Pair(n) == IF n \in 0 .. 99 THEN Two(n) ELSE <<Other, Other>>

\* These three are given a day.  The first has no end: more characters may follow.
PairsOfYear(y) == Pair(Quotient(y, 100)) \o Pair(y - 100 * Quotient(y, 100))
FastDate(separator, ymd, month) ==
  PairsOfYear(ymd.year) \o separator \o month \o separator \o Pair(ymd.day)
fast_simple_date(day) ==
  LET written(ymd) == FastDate(<<Dash>>, ymd, <<30 + ymd.month>>) IN written(from_days(day))
FastNumericDate(separator, ymd) == FastDate(separator, ymd, Pair(ymd.month))
fast_iso_date(day)      == FastNumericDate(<<>>, from_days(day))
fast_extended_date(day) == FastNumericDate(<<Dash>>, from_days(day))

\* A duration of so many seconds, and more microseconds in the same direction
Sign(total) == IF total < 0 THEN <<Dash>> ELSE <<>>
Seconds(total) == IF total < 0 THEN -total ELSE total

fast_iso_duration(total, micros) ==
  LET n == Seconds(total)
  IN Sign(total) \o Pair(n \div 3600) \o Pair((n \div 60) % 60) \o Pair(n % 60) \o SubSeconds(micros)

\* Pairs of digits, without the first zero of 100 hours or more; below -99 hours it stays.
fast_hours(total) ==
  LET h == Seconds(total) \div 3600
      count == 1 + Cardinality({k \in 1 .. 4 : h >= 100^k})
      digits == [i \in 1 .. 2 * count |-> (h \div 10^(2 * count - i)) % 10]
  IN IF total >= 360000 /\ digits[1] = 0 THEN Tail(digits) ELSE digits

fast_simple_duration(total, micros) ==
  LET n == Seconds(total)
  IN Sign(total) \o fast_hours(total) \o <<Colon>> \o Pair((n \div 60) % 60) \o <<Colon>>
     \o Pair(n % 60) \o SubSeconds(micros)

fast_simple_time(at, micros) ==
  fast_simple_date(at[1]) \o <<Blank>> \o Pair(hours(at)) \o <<Colon>> \o Pair(minutes(at))
  \o <<Colon>> \o Pair(seconds(at)) \o SubSeconds(micros)

\* The one that is given a time_t
iso_of_seconds(n) == to_iso_string(<<n \div 86400, n % 86400>>, 0)

\* A LocalDateTime, by its local time and its offset, whose seconds are left out
LocalOffset(offset, separator) ==
  LET minutesOff == (IF offset < 0 THEN -offset ELSE offset) \div 60
  IN IF offset = 0 THEN <<Zed>>
     ELSE <<IF offset < 0 THEN Dash ELSE PlusSign>> \o Two(minutesOff \div 60) \o separator
          \o Two(minutesOff % 60)
local_iso_string(at, micros, offset) == to_iso_string(at, micros) \o LocalOffset(offset, <<>>)
local_iso_extended_string(at, micros, offset) ==
  to_iso_extended_string(at, micros) \o LocalOffset(offset, <<Colon>>)
local_simple_string(at, micros, offset) == fast_simple_time(at, micros) \o LocalOffset(offset, <<>>)
-----------------------------------------------------------------------------
(* ParserDefinitions.h.  The separator is <<>> or one character. *)

Lits(separator) == [i \in DOMAIN separator |-> Lit(separator[i])]
OneOf(separator, items) == Either(<<Plain(Lits(separator) \o items)>>)

DateParser(separator, numerical_month) ==
  LET compact == separator = <<>>
      days == IF compact THEN Padded(2, 1 .. 31, "day") ELSE NumberIn(1 .. 31, "day")
      months == IF compact THEN Padded(2, 1 .. 12, "month") ELSE NumberIn(1 .. 12, "month")
  IN <<One(Number(IF compact THEN 4 ELSE 2, 4, "year")),
       OneOf(separator, <<IF numerical_month THEN months ELSE Item(MonthName, 1, 1, "month")>>),
       OneOf(separator, <<days>>)>>

DurationParser(separator, supports_negative, max_hours) ==
  LET compact == separator = <<>>
      field(range, name) == IF compact THEN Padded(2, range, name) ELSE NumberIn(range, name)
      whole == Lits(separator) \o <<field(0 .. 59, "second")>>
  IN (IF supports_negative THEN <<MaybeOne(Item({Dash, PlusSign}, 1, 1, "sign"))>> ELSE <<>>)
     \o <<One(field(max_hours, "hour")), OneOf(separator, <<field(0 .. 59, "minute")>>),
          Maybe(<<Plain(whole \o <<Lit(Period), Item(Digit, 0, 30, "")>>), Plain(whole)>>)>>

TimeZoneOffset ==
  LET hhmm == Padded(2, 0 .. 59, "zoneMinutes")
      start == <<Item({PlusSign, Dash}, 1, 1, "sign"), Padded(2, 0 .. 14, "zoneHours")>>
  IN Maybe(<<Plain(<<Item({Zed}, 1, 1, "sign")>>), Plain(start \o <<Lit(Colon), hhmm>>),
             Plain(start \o <<hhmm>>)>>)

trim_copy(text) ==
  LET inked == {i \in DOMAIN text : text[i] # Blank}
  IN IF inked = {} THEN <<>> ELSE SubSeq(text, Min(inked), Max(inked))

FirstGood(matches) ==
  LET good == {i \in DOMAIN matches : matches[i].matches}
  IN IF good = {} THEN Mismatch ELSE matches[Min(good)]
FirstMatch(text, grammars) == FirstGood([i \in DOMAIN grammars |-> Match(text, grammars[i])])

\* The time is optional, and its offset.
try_parse_impl(text, dates, separator, time) ==
  FirstMatch(trim_copy(text),
    [i \in DOMAIN dates |-> dates[i] \o <<separator>> \o time \o <<TimeZoneOffset>>] \o dates)

MonthNumber(got) == IF got.month \in MonthName THEN got.month - 30 ELSE got.month

\* The digits behind the point, as microseconds.
get_mks(text) ==
  LET points == {i \in DOMAIN text : text[i] = Period}
      digit(i) == IF CharAt(text, i) \in Digit THEN text[i] ELSE 0
      p == Min(points)
      n == FoldLeft(LAMBDA sum, i : 10 * sum + (IF RunOf(text, p, Digit, 6) >= i THEN digit(p + i) ELSE 0),
                    0, <<1, 2, 3, 4, 5, 6>>)
  IN IF points = {} THEN {0} ELSE {n, Max({n - 1, 0})}

as_date_time(got) ==
  IF ok(got.year, MonthNumber(got), got.day)
  THEN Instant(to_days(got.year, MonthNumber(got), got.day), TimeOfDay(got) - ZoneSeconds(got))
  ELSE NoTime

\* What is read: a time, and the microseconds it may have.
WithMicros(text, at) == IF at = NoTime THEN NoTime ELSE <<at, get_mks(text)>>
BuildWith(text, m) == WithMicros(text, IF m.matches THEN as_date_time(m.got) ELSE NoTime)
ParseWith(text, dates, separator, time) ==
  BuildWith(text, try_parse_impl(text, dates, separator, time))

from_string(text) ==
  ParseWith(text, <<DateParser(<<Dash>>, TRUE), DateParser(<<Dash>>, FALSE)>>,
            One(Item({Blank}, 1, 30, "")), DurationParser(<<Colon>>, FALSE, 0 .. 24))
from_iso_string(text) ==
  ParseWith(text, <<DateParser(<<>>, TRUE)>>, One(Lit(Tee)), DurationParser(<<>>, FALSE, 0 .. 24))
from_iso_extended_string(text) ==
  ParseWith(text, <<DateParser(<<Dash>>, TRUE)>>, One(Lit(Tee)),
            DurationParser(<<Colon>>, FALSE, 0 .. 24))

\* The separators are those of DateTime.cpp:685-686, where they have changed places.
try_parse_iso_extended_string(text) ==
  ParseWith(text, <<DateParser(<<Colon>>, TRUE)>>, One(Lit(Tee)),
            DurationParser(<<Dash>>, FALSE, 0 .. 24))
try_parse_iso_string(text) == from_iso_string(text)
OrElse(extended, basic) == IF extended # NoTime THEN extended ELSE basic
try_parse_iso(text) == OrElse(try_parse_iso_extended_string(text), try_parse_iso_string(text))

\* Date::from_string()
AsDate(m, month) ==
  IF m.matches /\ ok(m.got.year, month, m.got.day) THEN <<to_days(m.got.year, month, m.got.day)>>
  ELSE NoTime
DateRead(m) == AsDate(m, MonthNumber(m.got))
date_from_string(text) ==
  DateRead(FirstMatch(text, <<DateParser(<<Dash>>, TRUE), DateParser(<<Dash>>, FALSE),
                            DateParser(<<>>, TRUE)>>))

\* TimeDuration::from_string()
AsDuration(m) ==
  IF m.matches THEN <<(IF m.got.sign = Dash THEN -1 ELSE 1) * TimeOfDay(m.got)>> ELSE NoTime
duration_from_string(text) ==
  AsDuration(FirstMatch(trim_copy(text), <<DurationParser(<<Colon>>, TRUE, Nat),
                                           DurationParser(<<>>, TRUE, Nat)>>))
-----------------------------------------------------------------------------
DateTextInit ==
  \E m \in Moments, style \in DateStyles, zone \in ZoneTexts :
    note = [moment |-> m, style |-> style, zone |-> zone,
            text |-> to_string(style, m) \o zone.text, edited |-> FALSE]

DateTextSpec == DateTextInit /\ [][TimeTextNext]_note
-----------------------------------------------------------------------------
(* What a DateTime, a Date or a TimeDuration writes in a form, the same class reads back
   from that form, but for the last microsecond of a fraction; an offset has to have
   its minutes, and durations of 100 hours are not read back.  try_parse_iso() reads
   back the basic form only (DateTime.cpp:456-478, 603-719, Date.cpp:213-235, 362-436,
   TimeDuration.cpp:91-119, 326-417).                                                *)
DateTimesAreRead ==
  LET m == note.moment
      whole == note.zone.text \in {<<>>, <<Zed>>} \/ Len(note.zone.text) > 3
      at == Instant(m.at[1], m.at[2] - note.zone.seconds)
      comesBack(read) ==
        IF whole THEN read # NoTime /\ read[1] = at /\ m.micros \in read[2] ELSE read = NoTime
      total == total_seconds(m.at)
  IN CASE note.style = "simple" -> comesBack(from_string(note.text))
       [] note.style = "isoBasic" ->
            comesBack(from_iso_string(note.text)) /\ comesBack(try_parse_iso(note.text))
       [] note.style = "isoExtended" ->
            comesBack(from_iso_extended_string(note.text)) /\ try_parse_iso(note.text) = NoTime
       [] note.zone.text = <<>> ->
            /\ duration_from_string(note.text) =
                 IF total \in -359999 .. 359999 THEN <<total>> ELSE NoTime
            /\ \A style \in {"simple", "isoBasic", "isoExtended"} :
                 date_from_string(to_date_string(style, m.at[1])) = <<m.at[1]>>
       [] OTHER -> TRUE

(* Whatever the text, a DateTime reads it as the time that TimeParser and DateTimeParser
   read, if these do, but for eight digits, which are an epoch to them; they do, if the
   text has its T and its minutes, no fraction, and its hour is not 24
   (DateTime.cpp:488-563, TimeParser.cpp:904-1018).                                  *)
DateTimesAgree(text, old) ==
  LET agrees(read) ==
        read # NoTime =>
          IF old.by = "none"
          THEN \/ \A i \in DOMAIN text : text[i] # Tee /\ text[i] # Colon
               \/ \E i \in DOMAIN text : text[i] \in MonthName \cup {Period, Blank}
               \/ \E i \in DOMAIN text : text[i] = 2 /\ CharAt(text, i + 1) = 4
          ELSE old.by = "epoch" \/ old.at = read[1]
  IN agrees(from_string(text)) /\ agrees(from_iso_string(text)) /\ agrees(from_iso_extended_string(text))

(* What the faster functions write is read back as the same date, duration or instant,
   to the second and to the minute of an offset, if the duration is shorter than 100
   hours; a fraction, which they write behind a comma, is refused; and the texts of
   ISO 8601 are in the order of the times (StringConversion.cpp:418-741, 790-995).   *)
IsBefore(s, t) ==
  \E n \in 0 .. Min({Len(s), Len(t)}) :
    /\ SubSeq(s, 1, n) = SubSeq(t, 1, n)
    /\ \/ n = Len(s) /\ n < Len(t)
       \/ n < Min({Len(s), Len(t)}) /\ s[n + 1] < t[n + 1]

FastTextsAreRead ==
  LET m == note.moment
      day == m.at[1]
      total == total_seconds(m.at)
      readAs(read, at) == IF m.micros = 0 THEN read # NoTime /\ read[1] = at ELSE read = NoTime
      isShort == total \in -359999 .. 359999
  IN /\ date_from_string(fast_simple_date(day)) = <<day>>
     /\ date_from_string(fast_iso_date(day)) = <<day>>
     /\ date_from_string(fast_extended_date(day)) = <<day>>
     /\ \A text \in {fast_iso_duration(total, 0), fast_simple_duration(total, 0)} :
          duration_from_string(text) = IF isShort THEN <<total>> ELSE NoTime
     /\ m.micros > 0 => duration_from_string(fast_simple_duration(total, m.micros)) = NoTime
     /\ readAs(from_string(fast_simple_time(m.at, m.micros)), m.at)
     /\ match_and_parse(iso_of_seconds(total)).at = m.at
     /\ \A left \in {0, 29} :
          LET offset == note.zone.seconds + left
              instant == Instant(day, m.at[2] - 60 * Quotient(offset, 60))
          IN /\ readAs(from_string(local_simple_string(m.at, m.micros, offset)), instant)
             /\ readAs(from_iso_string(local_iso_string(m.at, m.micros, offset)), instant)
             /\ readAs(from_iso_extended_string(local_iso_extended_string(m.at, m.micros, offset)),
                       instant)
     /\ \A other \in Moments :
          LET isEarlier ==
                total < total_seconds(other.at) \/ (m.at = other.at /\ m.micros < other.micros)
          IN /\ isEarlier <=> IsBefore(to_iso_string(m.at, m.micros),
                                      to_iso_string(other.at, other.micros))
             /\ isEarlier <=> IsBefore(to_iso_extended_string(m.at, m.micros),
                                      to_iso_extended_string(other.at, other.micros))

DateTextsAreRead ==
  /\ ~note.edited => DateTimesAreRead /\ FastTextsAreRead
  /\ DateTimesAgree(note.text, match_and_parse(note.text))
=============================================================================

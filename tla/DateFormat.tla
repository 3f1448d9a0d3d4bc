----------------------------- MODULE DateFormat -----------------------------
(* Dates, times and durations that are written and read with a format, by to_stream()
   and from_stream() of the date library (date_time/date/date.h), which date::format()
   and date::parse() of Fmi::date_time end up in; and TimeDuration::from_stream().

   A format is a sequence of directives, and of characters that stand for themselves.
   A text is a sequence of the characters of TimeText and those below; a name is one
   character, long or short.  The directives %c, %x, %X and %Z, the reading of %p and
   %r, and widths in a format are left out.                                          *)
EXTENDS CivilDate, TimeText

CONSTANTS
  Slips,        \* what is written: [kind, day, tick, offset, format]
  EditedSlips,  \* those whose text is changed
  SlipPieces    \* what takes the place of a character, or is put between two

VARIABLE
  slip  \* [written, text, edited]; who reads it knows the kind, the format and the text

Stroke      == 43
NewLine     == 44
Tab         == 45
Percent     == 46
WeekdayName == 51 .. 57  \* from Sunday
Am          == 61
Pm          == 62
UnitName    == 63        \* "cs"
Verbatim    == 64        \* "%EH", a directive that there is not

Spaces == {Blank, NewLine, Tab}

\* What stands for itself.
LiteralOf ==
  ("-" :> Dash) @@ (":" :> Colon) @@ ("/" :> Stroke) @@ ("T" :> Tee) @@ ("%%" :> Percent)
  @@ ("%EH" :> Verbatim)

\* Two decimals of a second
TicksPerSecond == 100
TicksPerMinute == 60 * TicksPerSecond
TicksPerHour   == 60 * TicksPerMinute
TicksPerDay    == 24 * TicksPerHour

NoOffset == -1000000

Kinds == {"year", "month", "day", "weekday", "year_month", "month_day", "year_month_day",
          "duration", "local_time", "sys_time"}

ASSUME DateFormatAssumption ==
  /\ \A s \in Slips : s.kind \in Kinds /\ s.day \in Int /\ s.tick \in Int /\ s.offset \in Int
  /\ EditedSlips \subseteq Slips /\ SlipPieces \subseteq Seq(Nat)
-----------------------------------------------------------------------------
(* hh_mm_ss, and the fields that are written *)

hh_mm_ss(n) ==
  LET a == IF n >= 0 THEN n ELSE -n
  IN [h |-> a \div TicksPerHour, m |-> (a \div TicksPerMinute) % 60, s |-> a % TicksPerMinute,
      neg |-> n < 0]

to_duration(tod) ==
  (tod.s + TicksPerMinute * tod.m + TicksPerHour * tod.h) * (IF tod.neg THEN -1 ELSE 1)

in_conventional_range(tod) == ~tod.neg /\ tod.h < 24 /\ tod.m < 60 /\ tod.s < TicksPerMinute

is_am(h)  == 0 <= h /\ h < 12
make12(h) == IF h = 0 THEN 12 ELSE IF h <= 12 THEN h ELSE h - 12

nanyear  == -32768
NoDate   == [year |-> nanyear, month |-> 0, day |-> 0]
NoFields == [ymd |-> NoDate, wd |-> 8, tod |-> hh_mm_ss(0), has_tod |-> FALSE]

\* A time is cut off towards 1970-01-01, and is a day earlier if that was too late.
RestOf(day, tick, cut) ==
  IF cut <= day THEN [day |-> cut, rest |-> (day - cut) * TicksPerDay + tick]
  ELSE [day |-> cut - 1, rest |-> TicksPerDay - ((cut - day) * TicksPerDay - tick)]
DayAndRest(day, tick) == RestOf(day, tick, IF day < 0 /\ tick > 0 THEN day + 1 ELSE day)

PartsOf ==
  ("year" :> {"year"}) @@ ("month" :> {"month"}) @@ ("day" :> {"day"})
  @@ ("year_month" :> {"year", "month"}) @@ ("month_day" :> {"month", "day"})
  @@ ("year_month_day" :> DOMAIN NoDate)

DateParts(ymd, parts) == [p \in DOMAIN NoDate |-> IF p \in parts THEN ymd[p] ELSE NoDate[p]]
fieldsOf(split) ==
  [NoFields EXCEPT !.ymd = from_days(split.day), !.tod = hh_mm_ss(split.rest), !.has_tod = TRUE]

fields(s) ==
  CASE s.kind \in DOMAIN PartsOf ->
         [NoFields EXCEPT !.ymd = DateParts(from_days(s.day), PartsOf[s.kind])]
    [] s.kind = "weekday"  -> [NoFields EXCEPT !.wd = weekday_from_days(s.day)]
    [] s.kind = "duration" -> [NoFields EXCEPT !.tod = hh_mm_ss(s.tick), !.has_tod = TRUE]
    [] OTHER               -> fieldsOf(DayAndRest(s.day, s.tick))

\* extract_weekday(): 8 is none
weekday_in(fds) ==
  LET wd == weekday_from_days(DateToDays(fds.ymd))
  IN IF ~DateOk(fds.ymd) THEN fds.wd
     ELSE IF WeekdayOk(fds.wd) /\ wd # fds.wd THEN 8 ELSE wd

(* The weeks of a year: of ISO 8601, or from the first Sunday or Monday on *)

IsoStart(y) == LastNthToDays([year |-> y - 1, month |-> 12, lastNth |-> 4]) + WeekdayMinus(1, 4)
IsoYearIn(y, n) == IF n < IsoStart(y) THEN y - 1 ELSE y
IsoYearOf(n) == IsoYearIn(from_days(n + 3).year, n)
IsoWeekOf(n) == Quotient(n - IsoStart(IsoYearOf(n)), 7) + 1
FirstOf(y, wd) == NthToDays([year |-> y, month |-> 1, nth |-> <<wd, 1>>])
-----------------------------------------------------------------------------
(* Writing: what a directive needs, and what it writes *)

Decimal(n) == IF n < 0 THEN <<Dash>> \o DigitsOf(-n) ELSE DigitsOf(n)
LeftFilled(n, width, fill) ==
  LET t == Decimal(n) IN [i \in 1 .. Max({0, width - Len(t)}) |-> fill] \o t
ZeroFilled(n, width) == LeftFilled(n, width, 0)
Rest100(n) == n - 100 * Quotient(n, 100)
Magnitude(n) == IF n < 0 THEN -n ELSE n

Needs(d, fds, offset) ==
  CASE d \in {"%a", "%A", "%u", "%w"}         -> weekday_in(fds) # 8
    [] d \in {"%b", "%B", "%h", "%m"}         -> fds.ymd.month \in 1 .. 12
    [] d \in {"%C", "%y", "%Y"}               -> YearOk(fds.ymd.year)
    [] d \in {"%d", "%e"}                     -> fds.ymd.day \in 1 .. 31
    [] d \in {"%D", "%F", "%g", "%G", "%U", "%V", "%W"} -> DateOk(fds.ymd)
    [] d = "%j"                               -> DateOk(fds.ymd) \/ fds.has_tod
    [] d \in {"%H", "%I", "%M", "%p", "%Q", "%q", "%r", "%R", "%S", "%T"} -> fds.has_tod
    [] d \in {"%z", "%Ez"}                    -> offset # NoOffset
    [] OTHER                                  -> TRUE

WeekdayNameText(wd) == <<51 + wd>>
MonthNameText(m)    == <<30 + m>>

WeekdayText(d, wd) == <<IF d = "%u" /\ wd = 0 THEN 7 ELSE wd>>

\* operator<<(year): the sign comes before the zeros.
FullYear(y) == (IF y < 0 THEN <<Dash>> ELSE <<>>) \o ZeroFilled(Magnitude(y), 4)

YearText(d, y) == IF d = "%Y" THEN FullYear(y) ELSE ZeroFilled(Magnitude(y) % 100, 2)
CenturyText(y) ==
  IF y >= 0 THEN ZeroFilled(Quotient(y, 100), 2)
  ELSE <<Dash>> \o ZeroFilled(Quotient(99 - y, 100), 2)

MonthText(m)  == ZeroFilled(m, 2)
DayText(d, n) == IF d = "%d" THEN ZeroFilled(n, 2) ELSE LeftFilled(n, 2, Blank)

SlashedDate(ymd) ==
  MonthText(ymd.month) \o <<Stroke>> \o DayText("%d", ymd.day) \o <<Stroke>>
  \o ZeroFilled(Rest100(ymd.year), 2)
DashedDate(ymd) ==
  ZeroFilled(ymd.year, 4) \o <<Dash>> \o MonthText(ymd.month) \o <<Dash>> \o DayText("%d", ymd.day)

YearDayText(fds) ==
  ZeroFilled(IF DateOk(fds.ymd) THEN DateToDays(fds.ymd) - to_days(fds.ymd.year, 1, 1) + 1
             ELSE Quotient(to_duration(fds.tod), TicksPerDay), 3)

IsoYearText(d, y) == IF d = "%G" THEN FullYear(y) ELSE ZeroFilled(Magnitude(y) % 100, 2)
IsoWeekText(n) == ZeroFilled(IsoWeekOf(n), 2)

WeekFrom(st, n) == IF n < st THEN <<0, 0>> ELSE ZeroFilled(Quotient(n - st, 7) + 1, 2)
WeekText(n, wd) == WeekFrom(FirstOf(from_days(n).year, wd), n)
SundayWeekText(n) == WeekText(n, 0)
MondayWeekText(n) == WeekText(n, 1)

SecondText(s) ==
  ZeroFilled(s \div TicksPerSecond, 2) \o <<Period>> \o ZeroFilled(s % TicksPerSecond, 2)

HourText(d, tod) == ZeroFilled(IF d = "%H" THEN tod.h ELSE make12(tod.h), 2)
MinuteText(tod)  == ZeroFilled(tod.m, 2)

HalfText(h) == <<IF is_am(h) THEN Am ELSE Pm>>

\* Only %T has the sign.
HourMinute(tod) == HourText("%H", tod) \o <<Colon>> \o MinuteText(tod)
WholeTime(tod) ==
  (IF tod.neg THEN <<Dash>> ELSE <<>>) \o HourMinute(tod) \o <<Colon>> \o SecondText(tod.s)
HalfDayTime(tod) ==
  HourText("%I", tod) \o <<Colon>> \o MinuteText(tod) \o <<Colon>>
  \o ZeroFilled(tod.s \div TicksPerSecond, 2) \o <<Blank>> \o HalfText(tod.h)

CountText(d, tod) == IF d = "%Q" THEN Decimal(to_duration(tod)) ELSE <<UnitName>>

OffsetText(d, offset) ==
  LET m == Quotient(offset, 60)
  IN <<IF m < 0 THEN Dash ELSE PlusSign>> \o ZeroFilled(Magnitude(m) \div 60, 2)
     \o (IF d = "%Ez" THEN <<Colon>> ELSE <<>>) \o ZeroFilled(Magnitude(m) % 60, 2)

DirectiveText(d, fds, offset) ==
  CASE d \in DOMAIN LiteralOf               -> <<LiteralOf[d]>>
    [] d = " "                              -> <<Blank>>
    [] d = "%n"                             -> <<NewLine>>
    [] d = "%t"                             -> <<Tab>>
    [] d \in {"%a", "%A"}                   -> WeekdayNameText(weekday_in(fds))
    [] d \in {"%b", "%B", "%h"}             -> MonthNameText(fds.ymd.month)
    [] d \in {"%u", "%w"}                   -> WeekdayText(d, weekday_in(fds))
    [] d \in {"%y", "%Y"}                   -> YearText(d, fds.ymd.year)
    [] d = "%C"                             -> CenturyText(fds.ymd.year)
    [] d = "%m"                             -> MonthText(fds.ymd.month)
    [] d \in {"%d", "%e"}                   -> DayText(d, fds.ymd.day)
    [] d = "%D"                             -> SlashedDate(fds.ymd)
    [] d = "%F"                             -> DashedDate(fds.ymd)
    [] d = "%j"                             -> YearDayText(fds)
    [] d \in {"%G", "%g"}                   -> IsoYearText(d, IsoYearOf(DateToDays(fds.ymd)))
    [] d = "%V"                             -> IsoWeekText(DateToDays(fds.ymd))
    [] d = "%U"                             -> SundayWeekText(DateToDays(fds.ymd))
    [] d = "%W"                             -> MondayWeekText(DateToDays(fds.ymd))
    [] d \in {"%H", "%I"}                   -> HourText(d, fds.tod)
    [] d = "%M"                             -> MinuteText(fds.tod)
    [] d = "%S"                             -> SecondText(fds.tod.s)
    [] d = "%R"                             -> HourMinute(fds.tod)
    [] d = "%T"                             -> WholeTime(fds.tod)
    [] d = "%r"                             -> HalfDayTime(fds.tod)
    [] d = "%p"                             -> HalfText(fds.tod.h)
    [] d \in {"%Q", "%q"}                   -> CountText(d, fds.tod)
    [] d \in {"%z", "%Ez"}                  -> OffsetText(d, offset)

\* The first of these that is written has the sign of the duration.
HourMinuteSecond == {"%H", "%I", "%M", "%S"}

CannotBeWritten == <<End>>

\* to_stream(); date::format() throws when a field is missing.
to_stream(fds, offset, fmt) ==
  LET write(state, d) ==
        LET negative == state.negative /\ d \in HourMinuteSecond
        IN [text |-> state.text \o (IF negative THEN <<Dash>> ELSE <<>>)
                                \o DirectiveText(d, fds, offset),
            negative |-> state.negative /\ ~negative]
  IN IF \E i \in DOMAIN fmt : ~Needs(fmt[i], fds, offset) THEN CannotBeWritten
     ELSE FoldLeft(write, [text |-> <<>>, negative |-> fds.has_tod /\ fds.tod.neg], fmt).text

format_of(s) == to_stream(fields(s), IF s.kind = "sys_time" THEN 0 ELSE s.offset, s.format)
-----------------------------------------------------------------------------
(* Reading.  A directive is read as a sequence of items, each a number, a character,
   a name, or spaces.  A stream that has been read to its end, or seen to be there,
   reads no more.                                                                   *)

\* What a field is before it is read.  -1000 is the least int, -1 the least Duration.
NotA ==
  ("Y" :> nanyear) @@ ("y" :> 100) @@ ("G" :> nanyear) @@ ("g" :> 100) @@ ("C" :> -1000)
  @@ ("m" :> 0) @@ ("d" :> 0) @@ ("j" :> -1) @@ ("wd" :> 8) @@ ("H" :> -1000) @@ ("I" :> 0)
  @@ ("M" :> -1000) @@ ("s" :> -1) @@ ("U" :> 100) @@ ("V" :> 100) @@ ("W" :> 100)
  @@ ("offset" :> NoOffset)

Unsigned(field, most) ==
  [read |-> "unsigned", field |-> field, least |-> 1, most |-> most, valid |-> Int]
SignedInt(field, most) == [Unsigned(field, most) EXCEPT !.read = "signed"]
Exactly(c)     == [read |-> "character", char |-> c]
Name(field)    == [read |-> "name", field |-> field]
Directive(what)   == [read |-> what]

WeekdayItems(d) ==
  CASE d = "%u" -> <<[Unsigned("wd", 1) EXCEPT !.valid = 1 .. 7]>>
    [] d = "%w" -> <<[Unsigned("wd", 1) EXCEPT !.valid = 0 .. 6]>>
    [] OTHER    -> <<Name("wd")>>

DateItems(d) ==
  CASE d = "%C" -> <<SignedInt("C", 2)>>
    [] d = "%D" -> <<Unsigned("m", 2), Exactly(Stroke), Unsigned("d", 2), Exactly(Stroke),
                     SignedInt("y", 2)>>
    [] d = "%F" -> <<SignedInt("Y", 4), Exactly(Dash), Unsigned("m", 2), Exactly(Dash),
                     Unsigned("d", 2)>>
    [] OTHER    -> <<SignedInt("d", 2)>>

PartItems(d) ==
  CASE d = "%H" -> <<Unsigned("H", 2)>>
    [] d = "%I" -> <<[SignedInt("I", 2) EXCEPT !.valid = 1 .. 12]>>
    [] d = "%j" -> <<Unsigned("j", 3)>>
    [] d = "%M" -> <<Unsigned("M", 2)>>
    [] d = "%m" -> <<SignedInt("m", 2)>>

HourMinuteItems == <<Unsigned("H", 2), Exactly(Colon), Unsigned("M", 2)>>
WholeTimeItems  == HourMinuteItems \o <<Exactly(Colon), Directive("%S")>>
YearItems(d)    == <<IF d = "%Y" THEN SignedInt("Y", 4) ELSE Unsigned("y", 2)>>
WeekItems(d) ==
  CASE d = "%G" -> <<SignedInt("G", 4)>>
    [] d = "%g" -> <<Unsigned("g", 2)>>
    [] d = "%U" -> <<Unsigned("U", 2)>>
    [] d = "%V" -> <<Unsigned("V", 2)>>
    [] d = "%W" -> <<Unsigned("W", 2)>>

DirectiveItems(d) ==
  CASE d \in DOMAIN LiteralOf              -> <<Exactly(LiteralOf[d])>>
    [] d \in {"%a", "%A", "%u", "%w"}      -> WeekdayItems(d)
    [] d \in {"%b", "%B", "%h"}            -> <<Name("m")>>
    [] d \in {"%C", "%D", "%F", "%d", "%e"} -> DateItems(d)
    [] d \in {"%H", "%I", "%j", "%M", "%m"} -> PartItems(d)
    [] d = "%R"                            -> HourMinuteItems
    [] d = "%T"                            -> WholeTimeItems
    [] d \in {"%Y", "%y"}                  -> YearItems(d)
    [] d \in {"%G", "%g", "%U", "%V", "%W"} -> WeekItems(d)
    [] OTHER                               -> <<Directive(d)>>

Fresh(at) == [at |-> at, eof |-> FALSE, fail |-> FALSE, got |-> NotA]
Failed(st) == [st EXCEPT !.fail = TRUE]

\* A field that comes twice has to be the same.
checked_set(st, field, value) ==
  IF st.got[field] = NotA[field] THEN [st EXCEPT !.got = [@ EXCEPT ![field] = value]]
  ELSE IF st.got[field] # value THEN Failed(st)
  ELSE st

\* n characters are taken; who may take more has looked for it.
Taken(text, st, n, more) ==
  [st EXCEPT !.at = @ + n, !.eof = more /\ st.at + n = Len(text)]

SetField(text, st, item, n, value) ==
  IF st.eof \/ n < item.least \/ value \notin item.valid THEN Failed(st)
  ELSE checked_set(Taken(text, st, n, n < item.most), item.field,
                   IF item.field = "wd" THEN value % 7 ELSE value)
read_unsigned(text, st, item, sign) ==
  LET take(n) == SetField(text, st, item, n, sign * NumberAt(text, st.at, n))
  IN take(RunOf(text, st.at, Digit, item.most))

SignOf(c) == IF c = Dash THEN -1 ELSE 1
SignedFrom(text, st, item, c) ==
  IF c \in {Dash, PlusSign} /\ st.eof THEN Failed(st)
  ELSE LET signs == IF c \in {Dash, PlusSign} THEN 1 ELSE 0
       IN read_unsigned(text, [st EXCEPT !.at = @ + signs], [item EXCEPT !.most = @ - signs],
                        SignOf(c))
read_signed(text, st, item) == SignedFrom(text, st, item, CharAt(text, st.at + 1))

read_character(text, st, c) ==
  IF st.eof \/ CharAt(text, st.at + 1) # c THEN Failed(st) ELSE Taken(text, st, 1, FALSE)

\* f / d, rounded to the nearest number, to an even one when two are as near
Rounded(f, d) ==
  LET q == f \div d
      r == f % d
  IN IF 2 * r > d \/ (2 * r = d /\ q % 2 = 1) THEN q + 1 ELSE q

\* Up to five characters, with one point
read_seconds(text, st) ==
  LET next == SubSeq(text, st.at + 1, Min({Len(text), st.at + 5}))
      points(k) == {i \in 1 .. k : next[i] = Period}
      isNumber(k) == Range(SubSeq(next, 1, k)) \subseteq Digit \cup {Period}
                     /\ Cardinality(points(k)) <= 1
      n == Max({k \in 0 .. Len(next) : isNumber(k)})
      point == Min(points(n) \cup {n + 1})
      decimals == Max({0, n - point})
      value == TicksPerSecond * NumberAt(text, st.at, point - 1)
               + Rounded(TicksPerSecond * NumberAt(text, st.at + point, decimals), 10^decimals)
  IN IF st.eof \/ n = 0 THEN Failed(st) ELSE checked_set(Taken(text, st, n, n < 5), "s", value)

\* std::time_get, which has seen the end when it is there
read_name(text, st, field) ==
  LET c == CharAt(text, st.at + 1)
      names == IF field = "wd" THEN WeekdayName ELSE MonthName
  IN IF c \notin names THEN Failed(st)
     ELSE checked_set(Taken(text, st, 1, TRUE), field, IF field = "wd" THEN c - 51 ELSE c - 30)

\* Any number of spaces, one, or one or none
read_spaces(text, st, d) ==
  LET n == RunOf(text, st.at, Spaces, Len(text))
  IN CASE d = " "  -> IF st.eof THEN st ELSE Taken(text, st, n, TRUE)
       [] d = "%n" -> IF st.eof \/ n = 0 THEN Failed(st) ELSE Taken(text, st, 1, FALSE)
       [] d = "%t" -> IF st.eof THEN Failed(st)
                      ELSE IF n = 0 THEN Taken(text, st, 0, TRUE) ELSE Taken(text, st, 1, FALSE)

\* The hours may have a sign of their own, if they may have one digit only.
HourItem(d) == [SignedInt("H", 2) EXCEPT !.least = IF d = "%z" THEN 2 ELSE 1]
MinuteItem  == [Unsigned("M", 2) EXCEPT !.least = 2]

SignTaken(text, st, c) ==
  IF c \in {Dash, PlusSign} THEN Taken(text, [st EXCEPT !.got = NotA], 1, FALSE)
  ELSE [st EXCEPT !.got = NotA]

MinuteRead(text, hour, d, next) ==
  IF hour.fail \/ hour.eof THEN hour
  ELSE IF (d = "%z" /\ next \in Digit) \/ (d = "%Ez" /\ next = Colon)
  THEN read_unsigned(text, IF d = "%Ez" THEN Taken(text, hour, 1, FALSE) ELSE hour, MinuteItem, 1)
  ELSE Taken(text, hour, 0, TRUE)

AfterHour(text, hour, d) == MinuteRead(text, hour, d, CharAt(text, hour.at + 1))

OffsetRead(st, end, c) ==
  LET total == 60 * Magnitude(end.got["H"]) + Max({0, end.got["M"]})
  IN IF st.eof \/ end.fail THEN Failed(st)
     ELSE checked_set([end EXCEPT !.got = st.got], "offset", IF c = Dash THEN -total ELSE total)

OffsetAfter(text, st, d, c) ==
  OffsetRead(st, AfterHour(text, read_signed(text, SignTaken(text, st, c), HourItem(d)), d), c)
read_offset(text, st, d) == OffsetAfter(text, st, d, CharAt(text, st.at + 1))

read(text, st, item) ==
  IF st.fail THEN st
  ELSE CASE item.read = "unsigned"            -> read_unsigned(text, st, item, 1)
         [] item.read = "signed"              -> read_signed(text, st, item)
         [] item.read = "character"           -> read_character(text, st, item.char)
         [] item.read = "name"                -> read_name(text, st, item.field)
         [] item.read = "%S"                  -> read_seconds(text, st)
         [] item.read \in {" ", "%n", "%t"}   -> read_spaces(text, st, item.read)
         [] item.read \in {"%z", "%Ez"}       -> read_offset(text, st, item.read)
         [] OTHER                             -> Failed(st)

Scan(text, st, fmt) ==
  LET read_item(state, item) == read(text, state, item)
  IN FoldLeft(LAMBDA state, d : FoldLeft(read_item, state, DirectiveItems(d)), st, fmt)
-----------------------------------------------------------------------------
(* What the fields that were read stand for, if they agree *)

\* Two digits of a year, with its century if it is known, and the year if it is
CenturyOf(two, whole, century) ==
  IF century # NotA["C"] THEN century
  ELSE IF whole = nanyear THEN IF two >= 69 THEN 19 ELSE 20
  ELSE Quotient(IF whole >= 0 THEN whole ELSE whole - 100, 100)

YearIn(c, two) == IF c >= 0 THEN 100 * c + two ELSE 100 * (c + 1) - (IF two = 0 THEN 100 ELSE two)

YearOfTwo(two, whole, c, y) ==
  [year |-> y, century |-> c, broken |-> two \notin 0 .. 99 \/ (whole # nanyear /\ whole # y)]
InCentury(two, whole, c) == YearOfTwo(two, whole, c, YearIn(c, two))

WithCentury(two, whole, century) ==
  IF two = NotA["y"] THEN [year |-> whole, century |-> century, broken |-> FALSE]
  ELSE InCentury(two, whole, CenturyOf(two, whole, century))

\* The date so far, and the day with number n: a part that is there has to be the same.
AgreedOn(date, trial, parts) ==
  LET toSet == {p \in parts : date.ymd[p] = NoDate[p]}
  IN [date EXCEPT !.ymd = [p \in DOMAIN @ |-> IF p \in toSet THEN trial[p] ELSE @[p]],
                  !.computed = @ \/ parts = DOMAIN NoDate,
                  !.broken = @ \/ \E p \in parts : date.ymd[p] \notin {NoDate[p], trial[p]}]
Agreed(date, n, parts) == AgreedOn(date, from_days(n), parts)

Knows(got, names) == \A f \in names : got[f] # NotA[f]

ByIsoWeek(date, got, isoYear) ==
  IF isoYear # nanyear /\ Knows(got, {"V", "wd"})
  THEN Agreed(date, IsoStart(isoYear) + 7 * (got["V"] - 1) + WeekdayMinus(got["wd"], 1),
              DOMAIN NoDate)
  ELSE date

ByWeek(date, got, week, first) ==
  IF date.ymd.year # nanyear /\ Knows(got, {week, "wd"})
  THEN Agreed(date, FirstOf(date.ymd.year, first) + 7 * (got[week] - 1)
                    + WeekdayMinus(got["wd"], first), DOMAIN NoDate)
  ELSE date

ByDayOfYear(date, got) ==
  IF date.ymd.year # nanyear /\ Knows(got, {"j"})
  THEN Agreed(date, to_days(date.ymd.year, 1, 1) + got["j"] - 1, {"month", "day"})
  ELSE date

\* A date that was not made from a week is in the weeks that were read.
WeeksAgree(got, isoYear, n) ==
  LET floorWeeks(first) == ((n - FirstOf(from_days(n).year, first)) \div 7) + 1
  IN /\ isoYear # nanyear => isoYear = IsoYearOf(n)
     /\ Knows(got, {"V"}) => got["V"] = IsoWeekOf(n)
     /\ Knows(got, {"U"}) => got["U"] = floorWeeks(0)
     /\ Knows(got, {"W"}) => got["W"] = floorWeeks(1)

\* 1 to 12 without AM or PM
HoursAgree(got) ==
  Knows(got, {"I"}) =>
    /\ Knows(got, {"H"})
    /\ IF got["I"] = 12 THEN got["H"] \in {0, 12} ELSE got["H"] \in {got["I"], got["I"] - 12}

TodOf(got, usedDay) ==
  LET or0(f) == IF got[f] = NotA[f] THEN 0 ELSE got[f]
  IN [h |-> or0("H") + (IF usedDay THEN 0 ELSE 24 * or0("j")), m |-> or0("M"), s |-> or0("s"),
      neg |-> FALSE]

StartOf(got, civilYear, isoYear) ==
  [ymd |-> [year |-> IF civilYear.year \in -32767 .. 32767 THEN civilYear.year ELSE nanyear,
            month |-> got["m"], day |-> got["d"]],
   computed |-> FALSE, broken |-> civilYear.broken \/ isoYear.broken]

\* The ways to tell a day, in the order in which they are tried
ByEveryWay(got, start, isoYear) ==
  ByDayOfYear(ByWeek(ByWeek(ByIsoWeek(start, got, isoYear), got, "U", 0), got, "W", 1), got)

DayBroken(got, date, isoYear, n) ==
  \/ Knows(got, {"wd"}) /\ got["wd"] # weekday_from_days(n)
  \/ ~date.computed /\ ~WeeksAgree(got, isoYear, n)

FieldsFrom(got, date, isoYear, n) ==
  LET usedDay == date.ymd.year # nanyear
      isDay == DateOk(date.ymd)
  IN [broken |-> date.broken \/ (isDay /\ DayBroken(got, date, isoYear, n)) \/ ~HoursAgree(got),
      ymd |-> date.ymd,
      wd |-> IF got["wd"] = 8 /\ isDay THEN weekday_from_days(n) ELSE got["wd"],
      tod |-> TodOf(got, usedDay),
      has_tod |-> Knows(got, {"H"}) \/ Knows(got, {"M"}) \/ Knows(got, {"s"})
                  \/ (Knows(got, {"j"}) /\ ~usedDay)]

OnDate(got, date, isoYear) == FieldsFrom(got, date, isoYear, DateToDays(date.ymd))
InYears(got, civilYear, isoYear) ==
  OnDate(got, ByEveryWay(got, StartOf(got, civilYear, isoYear), isoYear.year), isoYear.year)
InCivilYear(got, civilYear) ==
  InYears(got, civilYear, WithCentury(got["g"], got["G"], civilYear.century))
Resolved(got) == InCivilYear(got, WithCentury(got["y"], got["Y"], got["C"]))

\* What each of the types wants
IsRead(kind, fds) ==
  CASE kind = "year"           -> YearOk(fds.ymd.year)
    [] kind \in {"month", "year_month"} -> fds.ymd.month \in 1 .. 12
    [] kind = "day"            -> fds.ymd.day \in 1 .. 31
    [] kind = "weekday"        -> WeekdayOk(fds.wd)
    [] kind = "month_day"      -> fds.ymd.month \in 1 .. 12 /\ fds.ymd.day \in 1 .. 31
    [] kind = "year_month_day" -> DateOk(fds.ymd)
    [] kind = "duration"       -> fds.has_tod
    [] OTHER                   -> DateOk(fds.ymd) /\ in_conventional_range(fds.tod)

\* The value as the caller gets it: parts of a date, or a day and ticks
ValueOf(kind, fds, offset) ==
  CASE kind \in DOMAIN PartsOf -> [p \in PartsOf[kind] |-> fds.ymd[p]]
    [] kind = "weekday"        -> fds.wd
    [] kind = "duration"       -> to_duration(fds.tod)
    [] kind = "local_time"     -> <<DateToDays(fds.ymd), to_duration(fds.tod)>>
    [] kind = "sys_time"       ->
         LET ticks == to_duration(fds.tod)
                      - TicksPerMinute * (IF offset = NoOffset THEN 0 ELSE offset)
         IN <<DateToDays(fds.ymd) + ticks \div TicksPerDay, ticks % TicksPerDay>>

ValueFrom(kind, end, fds) ==
  IF ~end.fail /\ ~fds.broken /\ IsRead(kind, fds)
  THEN [good |-> TRUE, value |-> ValueOf(kind, fds, end.got["offset"]), fds |-> fds,
        offset |-> end.got["offset"], at |-> end.at, eof |-> end.eof]
  ELSE [good |-> FALSE]
ReadOff(kind, end) == ValueFrom(kind, end, Resolved(end.got))
from_stream(kind, text, at, fmt) == ReadOff(kind, Scan(text, Fresh(at), fmt))

\* check_parse_status(), where the end is assumed
check_parse_status(text, at) == at + RunOf(text, at, Spaces, Len(text)) = Len(text)

\* TimeDuration::from_stream()
\* Seconds follow the clock where there is another colon.
WithSeconds(text, clock, second) ==
  IF second.good /\ check_parse_status(text, second.at + RunOf(text, second.at, Digit, Len(text)))
  THEN [good |-> TRUE, value |-> clock.value + second.value]
  ELSE [good |-> FALSE]

AfterClock(text, clock) ==
  IF ~clock.good THEN [good |-> FALSE]
  ELSE IF ~clock.eof /\ CharAt(text, clock.at + 1) = Colon
  THEN WithSeconds(text, clock, from_stream("duration", text, clock.at, <<":", "%S">>))
  ELSE [good |-> check_parse_status(text, clock.at), value |-> clock.value]
duration_from_stream(text) ==
  AfterClock(text, from_stream("duration", text, 0, <<"%H", ":", "%M">>))
-----------------------------------------------------------------------------
SlipInit == \E s \in Slips : slip = [written |-> s, text |-> format_of(s), edited |-> FALSE]

SlipAtRest ==
  slip = [written |-> [kind |-> "day", day |-> 0, tick |-> 0, offset |-> 0, format |-> <<>>],
          text |-> <<>>, edited |-> FALSE]

\* Somebody changes the text in one place.
EditSlip ==
  /\ ~slip.edited /\ slip.written \in EditedSlips /\ slip.text # CannotBeWritten
  /\ \E i \in 0 .. Len(slip.text), cut \in 0 .. 1, piece \in SlipPieces :
       /\ i + cut <= Len(slip.text)
       /\ slip' = [slip EXCEPT !.edited = TRUE,
                     !.text = SubSeq(@, 1, i) \o piece \o SubSeq(@, i + cut + 1, Len(@))]

SlipNext == EditSlip

SlipSpec == SlipInit /\ [][SlipNext]_slip
-----------------------------------------------------------------------------
Uses(directives) == Range(slip.written.format) \cap directives # {}

ReadToTheEnd(r) == r.good /\ r.at = Len(slip.text)

Again == from_stream(slip.written.kind, slip.text, 0, slip.written.format)

\* The unit that the format ends with, or 1 if it has no time at all.
UnitWritten ==
  IF Uses({"%S", "%T"}) THEN 1
  ELSE IF Uses({"%M", "%R"}) THEN TicksPerMinute
  ELSE IF Uses({"%H"}) THEN TicksPerHour
  ELSE TicksPerDay

Kept ==
  LET s == slip.written
  IN ValueOf(s.kind, fields([s EXCEPT !.tick = @ - (@ % UnitWritten)]), NoOffset)

WrittenYear == from_days(slip.written.day).year

\* The format tells the value.
Fits ==
  LET s == slip.written
  IN /\ WrittenYear \in (IF Uses({"%D"}) \/ (Uses({"%y"}) /\ ~Uses({"%C", "%Y"}))
                         THEN 1969 .. 2068 ELSE 0 .. 9999)
     /\ ~Uses({"%Q", "%q", "%r", "%p"})
     /\ s.kind = "duration" => s.tick \in 0 .. 100 * TicksPerHour - 1
     /\ Uses({"%I"}) => s.tick < 13 * TicksPerHour

(* What is written with a format is read back with it as the same value, cut off at the
   smallest unit of the format, and the offset of a time as whole minutes; a year that
   four digits do not hold, and a duration below zero or of 100 hours, is never read to
   the end as another value (date.h:5041-6123, 6565-7905).                            *)
FormatsAreRead(read_back, kept) ==
  LET s == slip.written
      isWritten == slip.text # CannotBeWritten
  IN /\ isWritten /\ Fits =>
          /\ ReadToTheEnd(read_back) /\ read_back.value = kept
          /\ Uses({"%z", "%Ez"}) =>
               read_back.offset = IF s.kind = "sys_time" THEN 0 ELSE Quotient(s.offset, 60)
     /\ isWritten /\ ~Uses({"%D", "%y"}) /\ ReadToTheEnd(read_back) =>
          read_back.value = kept \/ (s.tick < 0 /\ Uses({"%R"}))

(* What is read from any text is a real date or time of a day, and is read again as the
   same when it has been written with the format (date.h:7651-8075).                 *)
IsReadAs(r, text, again) == again.good /\ again.at = Len(text) /\ again.value = r.value
ReadsTheSame(r, text) ==
  IsReadAs(r, text, from_stream(slip.written.kind, text, 0, slip.written.format))

ReadIsStable(r) ==
  LET s == slip.written
      dated == {"year_month_day", "local_time", "sys_time"}
      inRest == [r.fds EXCEPT !.tod = hh_mm_ss(to_duration(@))]
      inRange == /\ r.fds.ymd.year \in {nanyear} \cup 0 .. 9999
                 /\ s.kind = "duration" => r.value < 100 * TicksPerHour
                 /\ r.offset # NoOffset => r.offset \in -5999 .. 5999
  IN ReadToTheEnd(r) =>
       /\ s.kind \in dated =>
            LET n == DateToDays(r.fds.ymd)
            IN from_days(n) = r.fds.ymd /\ r.fds.wd = weekday_from_days(n)
       /\ inRange => ReadsTheSame(r, to_stream(inRest, r.offset * 60, s.format))

(* Where a text says its day in several ways, no change in one place makes another day
   of it (date.h:6549-6560, 7719-7835).                                              *)
EveryWay == {"%F", "%a", "%j", "%G", "%V", "%U", "%W"}
RedundancyProtects(r, kept) ==
  EveryWay \subseteq Range(slip.written.format) /\ ReadToTheEnd(r) => r.value = kept

(* A TimeDuration of at least 0 and less than 100 hours is read back, and no other one
   that was written is; what is read is not negative (TimeDuration.cpp:91-113, 296-323,
   Base.cpp:188-211).                                                                *)
DurationsAreRead(r) ==
  slip.written.format = <<"%H", ":", "%M", ":", "%S">> /\ slip.written.kind = "duration" =>
    /\ ~slip.edited => (r.good <=> Fits) /\ (r.good => r.value = slip.written.tick)
    /\ r.good => r.value >= 0

ReadingIsSound(r, kept) ==
  /\ ~slip.edited => FormatsAreRead(r, kept)
  /\ ReadIsStable(r) /\ RedundancyProtects(r, kept)

FormattedTextsAreRead ==
  ReadingIsSound(Again, Kept) /\ DurationsAreRead(duration_from_stream(slip.text))
=============================================================================

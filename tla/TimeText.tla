------------------------------ MODULE TimeText ------------------------------
(* Times as text: what Fmi::TimeFormatter writes (TimeFormatter.cpp, with
   StringConversion.cpp) and what Fmi::TimeParser and its successor
   Fmi::DateTimeParser read (TimeParser.cpp, DateTimeParser.cpp, with the grammars of
   TimeParserDefinitions.h).

   A text is a sequence of characters, and a character the number of its digit or one
   of the constants below.  A moment is <<days since 1970-01-01, second of the day>>.
   Durations in the ISO 8601 form, which begin with a 'P', are left out.             *)
EXTENDS Calendar, Sequences, SequencesExt

CONSTANTS
  Moments,    \* the times that are written, as [at |-> moment, micros |-> 0 .. 999999]
  ZoneTexts,  \* the time zones that follow a time, as [text, seconds]; <<>> is none
  Pieces      \* what takes the place of a character, or is put between two, by an edit

VARIABLE
  note  \* [moment, style, zone, text, edited]; who reads it has the text only

Dash == 10
Colon == 11
Tee == 12
Zed == 13
PlusSign == 14
Period == 15
Comma == 16
Blank == 17
HourUnit == 18   \* 'h'
DayUnit == 19    \* 'd'
Other == 20      \* a character that means nothing
End == 21        \* no character: the end of the input

Digit == 0 .. 9
MonthName == 31 .. 42  \* the three letters of a month, as one character
Character == (0 .. Other) \cup MonthName
Anything == Character \cup {End}

ASSUME TimeTextAssumption ==
  /\ \A m \in Moments : m.at \in Int \X (0 .. 86399) /\ m.micros \in 0 .. 999999
  /\ ZoneTexts \subseteq [text : Seq(Character), seconds : Int]
  /\ Pieces \subseteq Seq(Character)
-----------------------------------------------------------------------------
(* Writing: StringConversion.cpp and TimeFormatter.cpp *)

Two(n) == <<n \div 10, n % 10>>
Four(n) == Two(n \div 100) \o Two(n % 100)

DigitsOf(n) ==
  LET count == 1 + Cardinality({k \in 1 .. 9 : n >= 10^k})
  IN [i \in 1 .. count |-> (n \div 10^(count - i)) % 10]

hours(moment) == moment[2] \div 3600
minutes(moment) == (moment[2] \div 60) % 60
seconds(moment) == moment[2] % 60

\* sub_sec with its six digits, where there is one
SubSeconds(micros) ==
  IF micros = 0 THEN <<>>
  ELSE <<Comma>> \o [i \in 1 .. 6 |-> (micros \div 10^(6 - i)) % 10]

IsoString(ymd, moment, micros) ==
  Four(ymd.year) \o Two(ymd.month) \o Two(ymd.day) \o <<Tee>>
  \o Two(hours(moment)) \o Two(minutes(moment)) \o Two(seconds(moment)) \o SubSeconds(micros)
to_iso_string(moment, micros) == IsoString(from_days(moment[1]), moment, micros)

IsoExtendedString(ymd, moment, micros) ==
  Four(ymd.year) \o <<Dash>> \o Two(ymd.month) \o <<Dash>> \o Two(ymd.day) \o <<Tee>>
  \o Two(hours(moment)) \o <<Colon>> \o Two(minutes(moment)) \o <<Colon>>
  \o Two(seconds(moment)) \o SubSeconds(micros)
to_iso_extended_string(moment, micros) == IsoExtendedString(from_days(moment[1]), moment, micros)

TimestampString(ymd, moment) ==
  Four(ymd.year) \o Two(ymd.month) \o Two(ymd.day) \o Two(hours(moment)) \o Two(minutes(moment))
to_timestamp_string(moment) == TimestampString(from_days(moment[1]), moment)

total_seconds(moment) == moment[1] * 86400 + moment[2]

Styles == {"iso", "xml", "sql", "timestamp", "epoch"}

\* TimeFormatter::create(style)->format(moment)
format(style, m) ==
  CASE style = "iso"       -> to_iso_string(m.at, m.micros)
    [] style = "xml"       -> to_iso_extended_string(m.at, m.micros)
    [] style = "sql"       -> [to_iso_extended_string(m.at, m.micros) EXCEPT ![11] = Blank]
    [] style = "timestamp" -> to_timestamp_string(m.at)
    [] style = "epoch"     -> IF total_seconds(m.at) < 0
                              THEN <<Dash>> \o DigitsOf(-total_seconds(m.at))
                              ELSE DigitsOf(total_seconds(m.at))
-----------------------------------------------------------------------------
(* Boost.Spirit.  A grammar is a sequence of elements, each of which has alternatives,
   of which the first that matches is taken for good.  An alternative is a sequence of
   items, and what has to follow them.  An item takes as many characters as it may, and
   gives their number, if it is in range, to a field of the TimeStamp.               *)

Fields == {"year", "month", "day", "hour", "minute", "second", "sign", "zoneHours", "zoneMinutes"}
Absent == -1

Item(chars, least, most, field) ==
  [chars |-> chars, least |-> least, most |-> most, field |-> field, range |-> Nat]
Number(least, most, field) == Item(Digit, least, most, field)
NumberIn(range, field) == [Number(1, 2, field) EXCEPT !.range = range]
Lit(c) == Item({c}, 1, 1, "")

Followed(items, chars) == [items |-> items, before |-> chars]
Plain(items) == Followed(items, Anything)

Either(alternatives) == [alternatives |-> alternatives, optional |-> FALSE]
Maybe(alternatives) == [alternatives |-> alternatives, optional |-> TRUE]
One(item) == Either(<<Plain(<<item>>)>>)
MaybeOne(item) == Maybe(<<Plain(<<item>>)>>)

Start == [matches |-> TRUE, at |-> 0, got |-> [f \in Fields |-> Absent]]
Mismatch == [Start EXCEPT !.matches = FALSE]

CharAt(text, i) == IF i <= Len(text) THEN text[i] ELSE End

\* How many characters from chars there are after the position at, up to most.
RunOf(text, at, chars, most) ==
  Max({n \in 0 .. Min({most, Len(text) - at}) : \A i \in at + 1 .. at + n : text[i] \in chars})

NumberAt(text, at, n) ==
  LET upTo[i \in 0 .. n] == IF i = 0 THEN 0 ELSE 10 * upTo[i - 1] + text[at + i]
  IN upTo[n]

\* uint_parser<unsigned int>: 4294967295 is the largest, and all is kept in two parts,
\* the last five digits and those before.
PartsAt(text, at, high, low) ==
  [high |-> NumberAt(text, at, high), low |-> NumberAt(text, at + high, low)]
UnsignedParts(text, at, n) ==
  IF n <= 5 THEN PartsAt(text, at, 0, n) ELSE PartsAt(text, at, n - 5, 5)
FitsUnsigned(u) == u.high < 42949 \/ (u.high = 42949 /\ u.low <= 67295)

\* The fields of a date are unsigned shorts: 100000 is 34464 modulo 2^16.
UnsignedShort(u) == (34464 * u.high + u.low) % 65536

\* n characters are taken, and give their number to the item's field.
TakeItem(state, item, n, digits) ==
  IF ~state.matches \/ n < item.least THEN Mismatch
  ELSE IF item.field = "" THEN [state EXCEPT !.at = @ + n]
  ELSE IF ~FitsUnsigned(digits) \/ UnsignedShort(digits) \notin item.range THEN Mismatch
  ELSE [state EXCEPT !.at = @ + n, !.got = [@ EXCEPT ![item.field] = UnsignedShort(digits)]]

MatchItem(text, state, item) ==
  LET take(n) == TakeItem(state, item, n, UnsignedParts(text, state.at, n))
  IN take(RunOf(text, state.at, item.chars, item.most))

IfBefore(text, end, chars) ==
  IF end.matches /\ CharAt(text, end.at + 1) \in chars THEN end ELSE Mismatch

MatchItems(text, state, alternative) ==
  IfBefore(text, FoldLeft(LAMBDA s, item : MatchItem(text, s, item), state, alternative.items),
           alternative.before)

FirstEnd(state, element, ends) ==
  LET good == {a \in DOMAIN ends : ends[a].matches}
  IN IF good # {} THEN ends[Min(good)] ELSE IF element.optional THEN state ELSE Mismatch

MatchElement(text, state, element) ==
  FirstEnd(state, element, [a \in DOMAIN element.alternatives |->
                              MatchItems(text, state, element.alternatives[a])])

\* qi::parse(text, grammar >> qi::eoi)
IfAtEnd(text, end) == [matches |-> end.matches /\ end.at = Len(text), got |-> end.got]
Match(text, grammar) ==
  IfAtEnd(text, FoldLeft(LAMBDA s, element : MatchElement(text, s, element), Start, grammar))
-----------------------------------------------------------------------------
(* TimeParserDefinitions.h *)

tz_offset ==
  Maybe(<<Plain(<<Item({Zed}, 1, 1, "sign")>>),
          Plain(<<Item({PlusSign, Dash}, 1, 1, "sign"), Number(2, 2, "zoneHours"),
                  Number(2, 2, "zoneMinutes")>>),
          Plain(<<Item({PlusSign, Dash}, 1, 1, "sign"), Number(2, 2, "zoneHours"), Lit(Colon),
                  Number(2, 2, "zoneMinutes")>>),
          Plain(<<Item({PlusSign, Dash}, 1, 1, "sign"), Number(2, 2, "zoneHours")>>)>>)

\* The year is a uint_ of any length, which no number of more than 14 digits fits.
SQLParser ==
  <<One(Number(1, 14, "year")), One(Lit(Dash)), One(NumberIn(1 .. 12, "month")), One(Lit(Dash)),
    One(NumberIn(1 .. 31, "day")), One(Item({Blank}, 0, 30, "")),
    MaybeOne(NumberIn(0 .. 23, "hour")),
    Maybe(<<Plain(<<Lit(Colon), NumberIn(0 .. 59, "minute")>>)>>),
    Maybe(<<Plain(<<Lit(Colon), NumberIn(0 .. 59, "second"), Lit(Period), Item(Digit, 0, 30, "")>>),
            Plain(<<Lit(Colon), NumberIn(0 .. 59, "second")>>)>>)>>

FMIParser ==
  <<One(Number(4, 4, "year")), One(Number(2, 2, "month")), One(Number(2, 2, "day")),
    One(Number(2, 2, "hour")), One(Number(2, 2, "minute")), MaybeOne(Number(2, 2, "second")),
    tz_offset>>

isostamp_basic ==
  <<One(Number(4, 4, "year")), One(Number(2, 2, "month")), One(Number(2, 2, "day")),
    MaybeOne(Lit(Tee)),
    One(Number(2, 2, "hour")), One(Number(2, 2, "minute")), MaybeOne(Number(2, 2, "second")),
    tz_offset>>

\* Fewer digits than usual, where a separator follows.
Shorter(most, field, before) ==
  <<Followed(<<Number(1, most, field)>>, before), Plain(<<Number(most, most, field)>>)>>

isostamp_ext ==
  <<Either(Shorter(4, "year", {Dash})), MaybeOne(Lit(Dash)),
    Either(Shorter(2, "month", {Dash})), MaybeOne(Lit(Dash)),
    Either(Shorter(2, "day", {Tee, Zed, End})), One(Lit(Tee)),
    Maybe(Shorter(2, "hour", {Colon, Zed, End})), MaybeOne(Lit(Colon)),
    Maybe(Shorter(2, "minute", {Colon, Zed, End})),
    Maybe(<<Followed(<<Lit(Colon), Number(1, 2, "second")>>, {Period, Zed, End}),
            Plain(<<Item({Colon}, 0, 1, ""), Number(2, 2, "second")>>)>>),
    MaybeOne(Lit(Period)), MaybeOne(Item(Digit, 3, 3, "")), tz_offset>>

Preferred(basic, extended) == IF basic.matches THEN basic ELSE extended
ISOParser(text) == Preferred(Match(text, isostamp_basic), Match(text, isostamp_ext))

\* qi::uint_parser<UnixTime, 10, 5, 11>
EpochDigits(text) == RunOf(text, 0, Digit, 11)
EpochParser(text) ==
  EpochDigits(text) >= 5 /\ FitsUnsigned(UnsignedParts(text, 0, EpochDigits(text)))
-----------------------------------------------------------------------------
(* TimeParser.cpp, and DateTimeParser.cpp where it has the same function *)

NoTime == <<>>

Instant(day, second) == <<day + second \div 86400, second % 86400>>

OrZero(value) == IF value = Absent THEN 0 ELSE value

check_hms(got) ==
  OrZero(got.hour) <= 23 /\ OrZero(got.minute) <= 59 /\ OrZero(got.second) <= 59

\* date::year() keeps a short.
YearOf(got) == IF got.year < 32768 THEN got.year ELSE got.year - 65536

TimeOfDay(got) == 3600 * OrZero(got.hour) + 60 * OrZero(got.minute) + OrZero(got.second)

IsDate(got) == YearOf(got) # -32768 /\ ok(YearOf(got), got.month, got.day)

ZoneSeconds(got) ==
  (IF got.sign = Dash THEN -1 ELSE 1) * (3600 * OrZero(got.zoneHours) + 60 * OrZero(got.zoneMinutes))

buildFromSQL(got) ==
  IF IsDate(got)
  THEN Instant(to_days(YearOf(got), got.month, got.day), TimeOfDay(got))
  ELSE NoTime

buildFromISO(got) ==
  IF IsDate(got)
  THEN Instant(to_days(YearOf(got), got.month, got.day), TimeOfDay(got) - ZoneSeconds(got))
  ELSE NoTime

\* from_time_t(): 100000 seconds are a day and 13600.
buildFromEpoch(u) ==
  LET rest == 13600 * u.high + u.low
  IN <<u.high + rest \div 86400, rest % 86400>>

(* A duration in the old form, which is added to the time it is now: its sign, its
   number in its two parts, and the seconds of its unit.                             *)
SecondsOfUnit(c) == CASE c = HourUnit -> 3600 [] c = DayUnit -> 86400 [] OTHER -> Absent

OffsetOf(text, n) ==
  LET zero == [high |-> 0, low |-> 0]
      offset(sign, value, unit) ==
        IF unit = Absent THEN NoTime ELSE <<sign, value.high, value.low, unit>>
  IN IF text = <<0>> THEN offset(PlusSign, zero, 60)
     ELSE IF Len(text) = 2 /\ text[1] = 0 THEN offset(PlusSign, zero, SecondsOfUnit(text[2]))
     ELSE IF text = <<>> \/ text[1] \notin {PlusSign, Dash} \/ n = 0 THEN NoTime
     ELSE IF ~FitsUnsigned(UnsignedParts(text, 1, n)) \/ Len(text) > n + 2 THEN NoTime
     ELSE offset(text[1], UnsignedParts(text, 1, n),
                 IF Len(text) = n + 1 THEN 60 ELSE SecondsOfUnit(text[n + 2]))
try_parse_duration(text) == OffsetOf(text, RunOf(text, 1, Digit, Len(text)))

Unread == [by |-> "none", at |-> NoTime]
Result(by, at) == IF at = NoTime THEN Unread ELSE [by |-> by, at |-> at]

BuiltISO(by, m, checked) ==
  IF m.matches /\ (checked => check_hms(m.got)) THEN Result(by, buildFromISO(m.got)) ELSE Unread
BuiltSQL(m) == IF m.matches THEN Result("sql", buildFromSQL(m.got)) ELSE Unread

OfFMI(text, checked) == BuiltISO("fmi", Match(text, FMIParser), checked)
OfISO(text, checked) == BuiltISO("iso", ISOParser(text), checked)
OfSQL(text) == BuiltSQL(Match(text, SQLParser))
OfOffset(text) == Result("offset", try_parse_duration(text))
OfEpoch(text, toTheEnd) ==
  IF EpochParser(text) /\ (toTheEnd => EpochDigits(text) = Len(text))
  THEN Result("epoch", buildFromEpoch(UnsignedParts(text, 0, EpochDigits(text))))
  ELSE Unread

FirstRead(results) ==
  LET good == {i \in DOMAIN results : results[i].by # "none"}
  IN IF good = {} THEN Unread ELSE results[Min(good)]

\* TimeParser::match_and_parse()
match_and_parse(text) ==
  FirstRead(<<OfFMI(text, TRUE), OfISO(text, TRUE), OfSQL(text), OfOffset(text), OfEpoch(text, TRUE)>>)

\* DateTimeParser::Impl::match_and_parse(): the hours are not looked at, and an epoch is
\* read without what follows it.
Impl_match_and_parse(text) ==
  FirstRead(<<OfISO(text, FALSE), OfFMI(text, FALSE), OfSQL(text), OfOffset(text), OfEpoch(text, FALSE)>>)

\* TimeParser::parse(text, format)
parse(text, name) ==
  CASE name \in {"iso", "xml", "timestamp"} -> OfISO(text, TRUE)
    [] name = "sql"   -> OfSQL(text)
    [] name = "epoch" -> OfEpoch(text, TRUE)

\* DateTimeParser::parse(text, format)
Impl_parse(text, name) ==
  CASE name \in {"iso", "xml", "timestamp"} -> OfISO(text, FALSE)
    [] name = "sql"   -> OfSQL(text)
    [] name = "epoch" -> OfEpoch(text, FALSE)

looks_offset(text) ==
  text # <<>> /\ (text = <<0>> \/ (Len(text) = 2 /\ text[1] = 0) \/ text[1] \in {PlusSign, Dash})
looks_iso(text) == OfISO(text, TRUE).by # "none"
looks_sql(text) == Match(text, SQLParser).matches
looks_epoch(text) == \A i \in DOMAIN text : text[i] \in Digit

looks(text) ==
  IF looks_offset(text) THEN "offset"
  ELSE IF looks_iso(text) THEN "iso"
  ELSE IF looks_sql(text) THEN "sql"
  ELSE IF looks_epoch(text) THEN "epoch"
  ELSE "unrecognizable"

looks_utc(text) ==
  IF looks_sql(text) THEN FALSE
  ELSE IF looks_offset(text) THEN TRUE
  ELSE IF looks_iso(text) THEN ISOParser(text).got.sign # Absent
  ELSE looks_epoch(text)

\* DateTimeParser's own try_parse_iso(): the first n fields of a time, in the basic or the
\* extended format, with a zone if there are hours.
Padded(n, range, field) == [Number(n, n, field) EXCEPT !.range = range]

Separated(extended, separator, item) ==
  Either(<<Plain(IF extended THEN <<Lit(separator), item>> ELSE <<item>>)>>)

ZoneForm(extended) ==
  <<Item({PlusSign, Dash}, 1, 1, "sign"), Padded(2, 0 .. 13, "zoneHours")>>
  \o (IF extended THEN <<Lit(Colon)>> ELSE <<>>) \o <<Number(2, 2, "zoneMinutes")>>

IsoForm(extended, n) ==
  SubSeq(<<One(Padded(4, 1582 .. 5000, "year")),
           Separated(extended, Dash, Padded(2, 1 .. 12, "month")),
           Separated(extended, Dash, Padded(2, 1 .. 31, "day")),
           Either(<<Plain(<<Item({Tee}, 0, 1, ""), Padded(2, 0 .. 23, "hour")>>)>>),
           Separated(extended, Colon, Padded(2, 0 .. 59, "minute")),
           Separated(extended, Colon, Padded(2, 0 .. 59, "second"))>>, 1, n)
  \o (IF n < 4 THEN <<>>
      ELSE <<Maybe(<<Plain(<<Item({Zed}, 1, 1, "sign")>>), Plain(ZoneForm(extended)),
                     Plain(SubSeq(ZoneForm(extended), 1, 2))>>)>>)

IsoForms == {IsoForm(TRUE, n) : n \in 2 .. 6} \cup {IsoForm(FALSE, n) : n \in 3 .. 6}

\* At most one of the forms matches.
MatchOf(matches) ==
  LET m == CHOOSE m \in matches : m.matches \/ \A other \in matches : ~other.matches
  IN IF m.matches THEN [m EXCEPT !.got.day = IF @ = Absent THEN 1 ELSE @] ELSE Mismatch
Impl_try_parse_iso(text) == MatchOf({Match(text, form) : form \in IsoForms})

Impl_looks_sql(text) ==
  LET two == Item(Digit, 2, 2, "")
  IN Match(text, <<Either(<<Plain(
       <<Item(Digit, 4, 4, ""), Lit(Dash), two, Lit(Dash), two, Lit(Blank), two, Lit(Colon), two,
         Lit(Colon), two>>)>>)>>).matches

\* A day that its month does not have ends both functions with an exception.
\* They are given what Impl_try_parse_iso() and Impl_looks_sql() say of the text.
Impl_looks(text, iso, isSql) ==
  IF looks_offset(text) THEN "offset"
  ELSE IF iso.matches THEN IF IsDate(iso.got) THEN "iso" ELSE "unrecognizable"
  ELSE IF isSql THEN "sql"
  ELSE IF looks_epoch(text) THEN "epoch"
  ELSE "unrecognizable"

Impl_looks_utc(text, iso, isSql) ==
  IF isSql THEN "local"
  ELSE IF looks_offset(text) THEN "utc"
  ELSE IF iso.matches /\ ~IsDate(iso.got) THEN "unrecognizable"
  ELSE IF iso.matches THEN IF iso.got.sign # Absent THEN "utc" ELSE "local"
  ELSE IF looks_epoch(text) THEN "utc" ELSE "local"
-----------------------------------------------------------------------------
(* Dates of HTTP, as the words between the blanks: a word is its kind and what it
   stands for.                                                                       *)

to_http_string(moment) ==
  LET ymd == from_days(moment[1])
  IN <<<<"short weekday,", weekday_from_days(moment[1])>>, <<"number", ymd.day>>,
       <<"month", ymd.month>>, <<"number", ymd.year>>,
       <<"hh:mm:ss", <<hours(moment), minutes(moment), seconds(moment)>>>>, <<"GMT">>>>

\* The other two forms a client has to read: RFC 850 and asctime().
rfc850(moment) ==
  LET ymd == from_days(moment[1])
  IN <<<<"weekday,", weekday_from_days(moment[1])>>,
       <<"dd-month-yy", <<ymd.day, ymd.month, ymd.year % 100>>>>,
       <<"hh:mm:ss", <<hours(moment), minutes(moment), seconds(moment)>>>>, <<"GMT">>>>
asctime(moment) ==
  LET words == to_http_string(moment)
  IN <<<<"short weekday", words[1][2]>>, words[3], words[2], words[5], words[4]>>

DateOfHttp(year, month, day, time) ==
  IF ok(year, month, day)
  THEN Instant(to_days(year, month, day), 3600 * time[1] + 60 * time[2] + time[3])
  ELSE NoTime

parse_http(words) ==
  LET kinds == [i \in DOMAIN words |-> words[i][1]]
  IN CASE kinds = <<"short weekday,", "number", "month", "number", "hh:mm:ss", "GMT">> ->
            DateOfHttp(words[4][2], words[3][2], words[2][2], words[5][2])
       [] kinds = <<"weekday,", "dd-month-yy", "hh:mm:ss", "GMT">> ->
            LET dmy == words[2][2]
            IN DateOfHttp(dmy[3] + (IF dmy[3] < 50 THEN 2000 ELSE 1900), dmy[2], dmy[1], words[3][2])
       [] kinds = <<"short weekday", "month", "number", "hh:mm:ss", "number">> ->
            DateOfHttp(words[5][2], words[2][2], words[3][2], words[4][2])
       [] OTHER -> NoTime
-----------------------------------------------------------------------------
TimeTextInit ==
  \E m \in Moments, style \in Styles, zone \in ZoneTexts :
    note = [moment |-> m, style |-> style, zone |-> zone,
            text |-> format(style, m) \o zone.text, edited |-> FALSE]

\* Somebody changes the text in one place.
Edit ==
  /\ ~note.edited
  /\ \E i \in 0 .. Len(note.text), cut \in 0 .. 1, piece \in Pieces :
       /\ i + cut <= Len(note.text)
       /\ note' = [note EXCEPT !.edited = TRUE,
                     !.text = SubSeq(@, 1, i) \o piece \o SubSeq(@, i + cut + 1, Len(@))]

TimeTextNext == Edit

TimeTextSpec == TimeTextInit /\ [][TimeTextNext]_note
-----------------------------------------------------------------------------
(* What a TimeFormatter writes is read back as the time it was, by both parsers, with
   the format given by name and by guessing; fractions of seconds, and a zone behind
   the SQL form, are refused by TimeParser; and of the times since 1970 those of the
   first 10000 seconds are not read back from the form of the epoch, which needs five
   digits (TimeFormatter.cpp:96-330, TimeParser.cpp:480-960).                         *)
WrittenIsRead(old, new, named, newNamed) ==
  LET m == note.moment
      instant == Instant(m.at[1], m.at[2] - note.zone.seconds)
      minute == Instant(m.at[1], m.at[2] - seconds(m.at) - note.zone.seconds)
      isRead(by, byImpl, at) ==
        /\ old = [by |-> by, at |-> at] /\ new = [by |-> byImpl, at |-> at]
        /\ named.at = at /\ newNamed.at = at
      isRefused == old = Unread
  IN CASE note.style \in {"iso", "xml"} ->
            IF m.micros = 0 THEN isRead("iso", "iso", instant) ELSE isRefused
       [] note.style = "sql" ->
            IF m.micros = 0 /\ note.zone.text = <<>> THEN isRead("sql", "sql", instant) ELSE isRefused
       [] note.style = "timestamp" -> isRead("fmi", "iso", minute)
       [] note.style = "epoch" /\ note.zone.text = <<>> ->
            IF total_seconds(m.at) >= 10000 THEN isRead("epoch", "epoch", m.at)
            ELSE old.by \in {"none", "offset"}
       [] OTHER -> TRUE

(* A HTTP date is read back from each of its three forms, where two digits tell the
   year from 1950 to 2049 (StringConversion.cpp:997-1062, TimeParser.cpp:1130-1230).  *)
HttpIsRead ==
  LET at == note.moment.at
  IN /\ parse_http(to_http_string(at)) = at
     /\ parse_http(asctime(at)) = at
     /\ parse_http(rfc850(at)) = at <=> from_days(at[1]).year \in 1950 .. 2049

\* An epoch was read, and what is behind its digits was not looked at.
IgnoresTail(text, result) == result.by = "epoch" /\ ~looks_epoch(text)

(* Whatever the text, DateTimeParser reads what TimeParser reads, and as the same time,
   although it tries the grammars in another order; what it reads besides are hours,
   minutes and seconds out of range, and, against its comments and its test (see
   EntireInputConsumed), the beginning of a text as an epoch.  looks() names the format
   that is read, and looks_utc() says whether the text tells its zone
   (TimeParser.cpp:420-480, 830-930, DateTimeParser.cpp:915-1030).                    *)
ParsersAgree(text, old, new) ==
  /\ old.by # "none" => /\ new.at = old.at
                        /\ new.by = old.by \/ {new.by, old.by} = {"fmi", "iso"}
                        /\ looks(text) = IF old.by = "fmi" THEN "iso" ELSE old.by
                        /\ looks_utc(text) <=>
                             \/ old.by \in {"offset", "epoch"}
                             \/ /\ old.by \in {"iso", "fmi"}
                                /\ \E i \in 11 .. Len(text) : text[i] \in {Zed, PlusSign, Dash}
  /\ old.by = "none" /\ new.by \in {"iso", "fmi"} => ~check_hms(ISOParser(text).got)
  /\ old.by = "none" /\ new.by = "epoch" => IgnoresTail(text, new)
  /\ new.by \in {"sql", "offset"} => old = new

(* What DateTimeParser guesses with functions of its own is what its grammars read: a
   text that it calls a time of ISO 8601 and that has a T is read as just that time,
   and it is in UTC if it names a zone; without a T only, it may be called so and be
   read as something else, as the epoch 1612010101 is; and what it calls a time of SQL
   or an epoch is read as such, if it is read and there is no T left out
   (DateTimeParser.cpp:294-604, 797-845, 959-1066).                                   *)
GuessesAgree(text, read, iso, guess, utc) ==
  /\ guess = "iso" =>
       \/ /\ read = Result(read.by, buildFromISO(iso.got))
          /\ utc = "utc" <=> iso.got.sign # Absent
       \/ Tee \notin Range(text)
  /\ guess = "sql" => read = Unread \/ (read.by = "sql" /\ utc = "local")
  /\ guess = "epoch" => read.by \in {"epoch", "iso", "fmi", "none"}
  /\ read.by = "offset" => guess = "offset" /\ utc = "utc"

GuessesAgreeWith(text, read, iso, isSql) ==
  GuessesAgree(text, read, iso, Impl_looks(text, iso, isSql), Impl_looks_utc(text, iso, isSql))

ReadingsAgree(text, old, new) ==
  /\ GuessesAgreeWith(text, new, Impl_try_parse_iso(text), Impl_looks_sql(text))
  /\ ~note.edited => WrittenIsRead(old, new, parse(text, note.style), Impl_parse(text, note.style))
  /\ ParsersAgree(text, old, new)

TimeTextsAreRead ==
  /\ ReadingsAgree(note.text, match_and_parse(note.text), Impl_match_and_parse(note.text))
  /\ ~note.edited => HttpIsRead

(* "parse succesful, parsers check that entire input was consumed"
   (DateTimeParser.cpp:752, 1047), and test/DateTimeParserTest.cpp:318-328, "Should fail
   to parse 20160101T00000 due to an extra zero": of a text that DateTimeParser reads
   nothing is left over.                                                             *)
EntireInputConsumed == ~IgnoresTail(note.text, Impl_match_and_parse(note.text))
=============================================================================

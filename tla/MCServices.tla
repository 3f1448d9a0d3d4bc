---------------------------- MODULE MCServices ----------------------------
(* Small instances of the components that stand alone, for TLC: the memory cache, the
   file cache, the directory monitor, the database connection, the search trees, the
   types of dates and times, the readers of text, a task, the template factory and the
   cleanup of statics.  "part" is chosen once per behaviour: the component that is
   used, while the others are at rest.  The monitor has three
   parts.  In "calm" nothing changes at the paths, users may stop it and wait for it,
   and no time passes while it works.  In "restless1" and "restless2" one of the paths
   changes at any time, and time passes at any time.                               *)
EXTENDS Cache, FileCache, DirectoryMonitor, PostgreSQLConnection, Searches, Values,
        DateText, DateFormat, CsvReader, Charset, DistanceParser,
        AsyncTask, TemplateFactory, StaticCleanup

CONSTANTS
  ta, tb, k1, k2, k3, m1, m2,
  UsedParts        \* the parts of a run

MCThreads   == {ta, tb}
MCKeys      == {k1, k2, k3}
MCShardOf   == k1 :> 1 @@ k2 :> 1 @@ k3 :> 2
MCBytesOf   == k1 :> 1 @@ k2 :> 2 @@ k3 :> 2
MCMonitors  == {m1, m2}
MCInterval  == m1 :> 1 @@ m2 :> 2
MCModify    == {m2}
MCReconnectLimits == [afterFailure |-> 2, otherwise |-> 1]

\* Keys that go on where another one ends, that branch off at each of their characters,
\* and that begin otherwise; and the beginnings of keys, and keys that go on.
MCWords  == {<<1>>, <<2>>, <<1, 2>>, <<2, 1>>, <<2, 3>>, <<3, 1>>, <<1, 1, 2>>, <<1, 2, 1>>}
MCProbes == {<<1>>, <<2>>, <<3>>, <<1, 1>>, <<1, 2>>, <<2, 1>>, <<2, 3>>, <<1, 2, 1>>, <<3, 1, 1>>}

Gap(a, b)  == IF a < b THEN b - a ELSE a - b
MCPoints   == {<<0, 0>>, <<0, 1>>, <<2, 1>>, <<3, 0>>}
MCDistance == [pq \in MCPoints \X MCPoints |->
                 Gap(pq[1][1], pq[2][1]) + Gap(pq[1][2], pq[2][2])]
MCRadii    == {-1, 0, 2}

\* Days that are known from elsewhere: 25 December of some years.
Christmas(y, weekday, n) ==
  [today |-> [year |-> y, month |-> 12, day |-> 25, weekday |-> weekday, yearday |-> 359],
   number |-> n]
MCFirstDays ==
  {Christmas(-4714, 3, -2440922), Christmas(-4711, 7, -2439826), Christmas(-401, 6, -865632),
   Christmas(-1, 6, -719535), Christmas(1599, 6, -135147), Christmas(1899, 1, -25574),
   Christmas(1969, 4, -7), Christmas(1995, 1, 9489), Christmas(2099, 5, 47475)}
\* The third of March after them, or of 2024; in 1970, the ninth day.  Weeks are those of
\* ISO 8601 in all of them but the first, which begins before the Julian days do.
MCLastDays == {-2440854, -2439758, -865563, -719466, -135078, -25506, 9, 19785, 47543}

Since(offset) == [at |-> -1000, offset |-> offset, is_dst |-> FALSE]
Summer(at, offset) == [at |-> at, offset |-> offset, is_dst |-> TRUE]
Winter(at, offset) == [at |-> at, offset |-> offset, is_dst |-> FALSE]
\* No change; summer times; a day that is left out in part; a day that comes twice.
MCZones ==
  {<<Since(0)>>, <<Since(1), Summer(0, 2), Winter(10, 1), Summer(20, 2)>>,
   <<Since(-2), Winter(3, 2)>>, <<Since(2), Winter(6, -2), Summer(17, -3)>>}
MCInstants   == -12 .. 32
MCLocalTimes == -7 .. 27

MCPeriodTimes == -2 .. 2
MCDurations   == -1 .. 2

\* With four ticks in a second: before 1970 by a day and a tick, by 4 days, and by ticks;
\* in the second of 1970-01-01 00:00:01; and a tick after midnight of 1972-02-29.
MCClockTimes == {-345601, -1382400, -3, 0, 6, 272678401}
\* A day back; an hour back, and a tick; ticks; a minute and a second;
\* two hours and a tick.
MCLapses     == {-345600, -14401, -2, 0, 3, 244, 28801}

CivilDay(y, m, d) == [year |-> y, month |-> m, day |-> d]
\* The ends of long and short months, before year 0 and the last year there is.
MCCivilDays ==
  {CivilDay(2024, 1, 31), CivilDay(2024, 2, 29), CivilDay(1999, 12, 31), CivilDay(-1, 1, 1),
   CivilDay(1900, 3, 30), CivilDay(0, 12, 25), CivilDay(32767, 11, 5)}
MCMonthSteps == {-13, -1, 1, 11, 24}
MCYearSteps  == {-1, 4, 100}

Written(y, m, d, second, micros) == [at |-> <<to_days(y, m, d), second>>, micros |-> micros]
LeapDay == Written(2024, 2, 29, 86399, 0)
\* A leap day; before and at the shortest epoch that is read; before 1970 and 1950; a
\* fraction of a second; and 1612010101.
MCMoments ==
  {LeapDay, Written(1970, 1, 1, 9999, 0), Written(1970, 1, 1, 10000, 0),
   Written(1969, 12, 31, 86340, 0), Written(1949, 12, 1, 36000, 0),
   Written(2031, 10, 10, 43200, 249), Written(2021, 1, 30, 45301, 0)}
MCZoneTexts ==
  {[text |-> <<>>, seconds |-> 0], [text |-> <<Zed>>, seconds |-> 0],
   [text |-> <<PlusSign, 0, 2>>, seconds |-> 7200],
   [text |-> <<Dash, 0, 3, Colon, 3, 0>>, seconds |-> -12600]}
MCPieces == {<<>>} \cup {<<c>> : c \in {4, 5} \cup Dash .. Other}

\* One for each directive, in the company that makes it a date or a time, or does not
MCDateFormats == {<<"%F">>, <<"%D">>, <<"%j", "%Y">>, <<"%H">>}
MCTimeFormats ==
  {<<"%F", " ", "%T">>,
   <<"%Y", "-", "%m", "-", "%d", "T", "%H", ":", "%M", ":", "%S", "%z">>,
   <<"%a", " ", "%d", " ", "%b", " ", "%Y", " ", "%R", " ", "%Ez">>,
   <<"%Y", "%j", "%T">>, <<"%G", "-", "%V", "-", "%u", " ", "%H">>,
   <<"%Y", " ", "%U", " ", "%w">>, <<"%Y", "%W", "%A">>, <<"%D", " ", "%H", ":", "%M">>,
   <<"%C", "%y", "%m", "%d", "%H", "%M", "%S">>,
   <<" ", "%e", "%n", "%B", "%t", "%Y", "%%", "%H", " ", "%I", "%EH">>,
   <<"%F", " ", "%a", "%j", " ", "%G", "%g", "%V", "%u", "%U", "%W">>,
   <<"%G", "%V", "%h", "%d", "%Y">>}
MCDurationFormats ==
  {<<"%T">>, <<"%R">>, <<"%H", ":", "%M", ":", "%S">>, <<"%Q", "%q">>, <<"%r">>,
   <<"%M", "%S", " ", "%H">>}
MCPartFormats ==
  ("year" :> {<<"%Y">>, <<"%C", "%y">>, <<"%y">>}) @@ ("month" :> {<<"%m">>, <<"%b">>})
  @@ ("day" :> {<<"%d">>, <<" ", "%e">>}) @@ ("weekday" :> {<<"%A">>, <<"%u">>, <<"%w">>})
  @@ ("year_month" :> {<<"%b", " ", "%Y">>}) @@ ("month_day" :> {<<"%m", "/", "%d">>})

Slip(kind, day, tick, offset, fmt) ==
  [kind |-> kind, day |-> day, tick |-> tick, offset |-> offset, format |-> fmt]

\* Days whose ISO year is another one, in leap years, before year 0, and of five digits
MCSlipDays ==
  {to_days(2024, 2, 29), to_days(2000, 1, 1), to_days(1969, 12, 31), to_days(2018, 12, 31),
   to_days(2023, 1, 1), to_days(-1, 12, 31), to_days(-105, 1, 2), to_days(12345, 6, 7)}
MCSlipTicks     == {0, 4680000, 8639999}
MCDurationTicks == {0, -1, 123456, 35999999, 36000000, -36000000}

MCSlips ==
  UNION {{Slip("local_time", d, t, 7199, f), Slip("sys_time", d, t, 0, f)} :
           d \in MCSlipDays, t \in MCSlipTicks, f \in MCTimeFormats}
  \cup {Slip("year_month_day", d, 0, NoOffset, f) : d \in MCSlipDays, f \in MCDateFormats}
  \cup {Slip("duration", 0, t, NoOffset, f) : t \in MCDurationTicks, f \in MCDurationFormats}
  \cup UNION {{Slip(k, d, 0, NoOffset, f) : d \in MCSlipDays, f \in MCPartFormats[k]} :
                k \in DOMAIN MCPartFormats}
MCEditedSlips ==
  {s \in MCSlips : \/ s.kind = "duration" /\ s.tick = 123456
                   \/ s.kind \in {"local_time", "year_month_day", "year"}
                      /\ s.day = to_days(2024, 2, 29) /\ s.tick \in {0, 8639999}}
MCSlipPieces ==
  {<<>>, <<Period, 0, 1, 5>>} \cup {<<c>> : c \in {0, 1, 9, Dash, PlusSign, Period, Blank, 33, 54}}

MCFieldValues ==
  {<<>>, <<"letter">>, <<"quote">>, <<"delimiter", "letter">>, <<"letter", "newline">>,
   <<"letter", "space", "letter">>, <<"comment">>}
MCNotCsv ==
  {<<"quote", "letter">>, <<"quote", "quote", "letter">>, <<"letter", "quote", "newline">>,
   <<"letter", "quote", "delimiter">>, <<"quote", "letter", "quote", "space">>}

\* Signs of numbers, with units of size; characters with marks and references; letters.
MCAlphabets ==
  {{32, 43, 45, 46, 48, 49, 50, 56, 66, 75, 80, InfText},
   {10, 34, 38, 59, 60, 127, 200, Reference(1), Reference(60)},
   {64, 65, 90, 91, 96, 97, 122, 123, 200}}

\* Every table of up to seven records.
MCTables == {SetToSortSeq({0} \cup S, <) : S \in SUBSET (1 .. 6)}

MonitorParts == {"calm", "restless1", "restless2"}
Parts == {"cache", "fileCache", "connection", "words", "objects", "days", "zones", "periods", "reckoning",
          "civil", "texts", "dates", "formats", "csv", "base64", "strings", "phrases", "coordinates",
          "task", "templates", "cleanup"}
         \cup MonitorParts

storeVars == <<cacheVars, fileVars, connectionVars>>
searchVars == <<treeVars, nearVars>>
dateVars == <<calendarVars, ldt, periodVars, reckoningVars, civilVars>>
textVars == <<note, slip>>
dataVars == <<csvVars, plain, chars, phrase, zoneVars>>
valueVars == <<dateVars, textVars, dataVars>>
otherVars == <<taskVars, templateVars, cleanupVars>>
allVars == <<storeVars, monitorVars, searchVars, valueVars, otherVars, part>>

MCInit ==
  /\ part \in UsedParts
  /\ ZoneInit /\ (part # "coordinates" => positions = <<0>> /\ pos = 0)
  /\ ReckoningInit /\ (part # "reckoning" => clock = AtTime(0) /\ lapse = AtTime(0))
  /\ CivilInit /\ (part # "civil" => civil.day = CivilDay(2024, 1, 31))
  /\ CalendarInit /\ (part # "days" => number = Max(LastDays) - 68)
  /\ LocalInit /\ (part # "zones" => Len(ldt.zone) = 1)
  /\ PeriodInit
  /\ CacheInit /\ (part # "cache" => itsMaxSizePerShard = PerShard(Max(MaxSizes)))
  /\ MonitorInit /\ (part \notin MonitorParts => path = [m \in Monitors |-> "missing"])
  /\ FileCacheInit /\ ConnectionInit /\ TreeInit /\ NearInit
  /\ CASE part = "texts" -> TimeTextInit
       [] part = "dates" -> DateTextInit
       [] OTHER -> note = [moment |-> LeapDay, style |-> "timestamp", edited |-> FALSE,
                           zone |-> [text |-> <<>>, seconds |-> 0],
                           text |-> to_timestamp_string(LeapDay.at)]
  /\ IF part = "formats" THEN SlipInit ELSE SlipAtRest
  /\ IF part = "csv" THEN CsvInit ELSE CsvAtRest
  /\ CharsetInit /\ PhraseInit /\ Base64Init
  /\ TaskInit /\ (part # "task" => notify = "quiet")
  /\ TemplateInit /\ CleanupInit
-----------------------------------------------------------------------------
StoresMove ==
  /\ \/ part = "cache" /\ CacheNext /\ UNCHANGED <<fileVars, connectionVars>>
     \/ part = "fileCache" /\ FileCacheNext /\ UNCHANGED <<cacheVars, connectionVars>>
     \/ part = "connection" /\ ConnectionNext /\ UNCHANGED <<cacheVars, fileVars>>
  /\ UNCHANGED <<monitorVars, searchVars, valueVars, otherVars, part>>

SearchesMove ==
  /\ \/ part = "words" /\ TreeNext /\ UNCHANGED nearVars
     \/ part = "objects" /\ NearNext /\ UNCHANGED treeVars
  /\ UNCHANGED <<storeVars, monitorVars, valueVars, otherVars, part>>

\* One moment has enough texts; and one with a fraction.
MayEdit == note.moment = LeapDay \/ (part = "dates" /\ note.moment.micros > 0)

DatesMove ==
  /\ \/ part = "days" /\ CalendarNext /\ UNCHANGED <<ldt, periodVars, reckoningVars, civilVars>>
     \/ part = "zones" /\ LocalNext /\ UNCHANGED <<calendarVars, periodVars, reckoningVars, civilVars>>
     \/ part = "periods" /\ PeriodNext /\ UNCHANGED <<calendarVars, ldt, reckoningVars, civilVars>>
     \/ part = "reckoning" /\ ReckoningNext /\ UNCHANGED <<calendarVars, ldt, periodVars, civilVars>>
     \/ part = "civil" /\ CivilNext /\ UNCHANGED <<calendarVars, ldt, periodVars, reckoningVars>>
  /\ UNCHANGED <<storeVars, monitorVars, searchVars, textVars, dataVars, otherVars, part>>

TextsMove ==
  /\ \/ part \in {"texts", "dates"} /\ MayEdit /\ TimeTextNext /\ UNCHANGED slip
     \/ part = "formats" /\ SlipNext /\ UNCHANGED note
  /\ UNCHANGED <<storeVars, monitorVars, searchVars, dateVars, dataVars, otherVars, part>>

DataMove ==
  /\ \/ part = "csv" /\ CsvNext /\ UNCHANGED <<plain, chars, phrase, zoneVars>>
     \/ part = "base64" /\ Base64Next /\ UNCHANGED <<csvVars, chars, phrase, zoneVars>>
     \/ part = "strings" /\ CharsetNext /\ UNCHANGED <<csvVars, plain, phrase, zoneVars>>
     \/ part = "phrases" /\ PhraseNext /\ UNCHANGED <<csvVars, plain, chars, zoneVars>>
     \/ part = "coordinates" /\ ZoneNext /\ UNCHANGED <<csvVars, plain, chars, phrase>>
  /\ UNCHANGED <<storeVars, monitorVars, searchVars, dateVars, textVars, otherVars, part>>

OthersMove ==
  /\ \/ part = "task" /\ TaskNext /\ UNCHANGED <<templateVars, cleanupVars>>
     \/ part = "templates" /\ TemplateNext /\ UNCHANGED <<taskVars, cleanupVars>>
     \/ part = "cleanup" /\ CleanupNext /\ UNCHANGED <<taskVars, templateVars>>
  /\ UNCHANGED <<storeVars, monitorVars, searchVars, valueVars, part>>

Restless == CASE part = "restless1" -> {m1} [] part = "restless2" -> {m2} [] OTHER -> {}

\* The masks of m1 tell no versions apart.
MayChange(m, new) == m \in Restless /\ (new = path[m] => m \in Modify)

MayTick == part = "calm" => runPc \in {"out", "sleeping"}

MonitorMoves ==
  /\ part \in MonitorParts /\ MonitorNext
  /\ Tick => MayTick
  /\ \A m \in Monitors, new \in PathStates : PathChanges(m, new) => MayChange(m, new)
  /\ part # "calm" => stop' = FALSE /\ readyPc' = readyPc
  /\ UNCHANGED <<storeVars, searchVars, valueVars, otherVars, part>>

MCNext == StoresMove \/ MonitorMoves \/ SearchesMove \/ DatesMove \/ TextsMove \/ DataMove \/ OthersMove

MCFairness ==
  /\ WF_monitorVars(part \in MonitorParts /\ RunStep)
  /\ WF_monitorVars(part \in MonitorParts /\ MayTick /\ Tick)
  /\ WF_connectionVars(part = "connection" /\ connPc # "idle" /\ ConnectionStep)
  /\ WF_taskVars(part = "task" /\ TaskStep)
  /\ WF_taskVars(part = "task" /\ OwnerStep)

MCSpec == MCInit /\ [][MCNext]_allVars /\ MCFairness
-----------------------------------------------------------------------------
(* Text is read as it was written, characters survive a change of their set and the
   escapes of XML, and numbers, sizes and distances are read (TimeText, DateText,
   DateFormat, CsvReader, Charset, StringConversion and DistanceParser say of which
   code).                                                                            *)
TextsAreExact ==
  CASE part = "texts"   -> TimeTextsAreRead
    [] part = "dates"   -> DateTextsAreRead
    [] part = "formats" -> FormattedTextsAreRead
    [] part = "csv"     -> CsvTypeOK /\ CsvIsExact
    [] part = "strings" -> CharsetIsExact
    [] part = "phrases" -> StringsAreConverted /\ DistancesAreConverted
    [] OTHER            -> TRUE

(* stop() ends run(), which sees the request between two passes and in its sleep
   (DirectoryMonitor.cpp:415, 530-543), where a pass does not outlast the intervals:
   while a path is due again before the pass is over, the loop of line 419 goes on.   *)
StopEndsRun == part = "calm" => ((stop /\ runPc # "out") ~> runPc = "out")
=============================================================================

SPECIFICATION MCSpec
CONSTANTS
  ta = ta
  tb = tb
  k1 = k1
  k2 = k2
  k3 = k3
  m1 = m1
  m2 = m2
  UsedParts = {"texts"}
  Threads <- MCThreads
  CacheKeys <- MCKeys
  NumShards = 2
  ShardOf <- MCShardOf
  ValueSizes = {1, 2}
  MaxSizes = {2, 6}
  FileKeys <- MCKeys
  BytesOf <- MCBytesOf
  itsMaxSize = 4
  CleanSizes = {2}
  SizeModulus = 16
  NoFileKey = NoFileKey
  Monitors <- MCMonitors
  Interval <- MCInterval
  Modify <- MCModify
  ReadyWaiters = {w1}
  Statements = {s1, s2}
  ClientEncodings = {utf8, bogus}
  Refused = {bogus}
  DefaultEncoding = none
  QueryRetryLimit = 2
  ReconnectLimits <- MCReconnectLimits
  ReconnectDisabled = FALSE
  Words <- MCWords
  Probes <- MCProbes
  MaxWords = 4
  Points <- MCPoints
  Distance <- MCDistance
  Radii <- MCRadii
  MaxObjects = 5
  FirstDays <- MCFirstDays
  LastDays <- MCLastDays
  Zones <- MCZones
  Day = 4
  Instants <- MCInstants
  LocalTimes <- MCLocalTimes
  Steps = {1}
  PeriodTimes <- MCPeriodTimes
  Durations <- MCDurations
  Ticks = 4
  ClockTimes <- MCClockTimes
  Lapses <- MCLapses
  Leftovers = {0, 7}
  Factors = {2, 3}
  MaxReckoned = 2
  CivilDays <- MCCivilDays
  MonthSteps <- MCMonthSteps
  YearSteps <- MCYearSteps
  MaxCivilSteps = 2
  Moments <- MCMoments
  ZoneTexts <- MCZoneTexts
  Pieces <- MCPieces
  Slips <- MCSlips
  EditedSlips <- MCEditedSlips
  SlipPieces <- MCSlipPieces
  FieldValues <- MCFieldValues
  MaxFields = 2
  NotCsv <- MCNotCsv
  Bytes = {0, 77, 131, 255}
  MaxBytes = 5
  CharBytes = {10, 65, 128, 143, 144, 160, 191, 193, 195, 224, 237, 240, 244, 255}
  MaxString = 4
  Alphabets <- MCAlphabets
  MaxPhrase = 4
  IntMax = 11
  LongMax = 127
  FloatMax = 60
  Kilo = 2
  Tables <- MCTables
  Outside = {0, 9}
  LastPos = 7
  NotifyKinds = {"quiet", "interruptible", "throwing"}
  TemplateUsers <- MCThreads
  MaxVersions = 2
  WriteTimes = {1, 2}
  Holders <- MCThreads
  MaxNested = 2
  MaxCleanups = 3
INVARIANTS EntireInputConsumed
CHECK_DEADLOCK FALSE

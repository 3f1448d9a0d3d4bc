-------------------------- MODULE DirectoryMonitor --------------------------
(* Fmi::DirectoryMonitor (DirectoryMonitor.cpp): run() examines each watched path
   when it is due, and tells its listener what changed there.  A step of run() is
   what it does between two acquisitions of a mutex, or between two looks at the
   directory, which others change meanwhile.

   Times are relative.  due is the time left until a monitor's turn.  Modification
   times are whole seconds (FileSystem.cpp:21-36), the tick of this model: what matters
   of them is whether a path's time is later than the one the monitor has stored,
   whether a file's time is the one in the listing the listener knows, and which of
   these are the present second.                                                   *)
EXTENDS Naturals, Sequences, FiniteSets, SequencesExt

CONSTANTS
  Monitors,    \* the watched paths, each with its own monitor
  Interval,    \* Monitor::interval
  Modify,      \* the monitors with MODIFY in their mask
  ReadyWaiters \* threads that call wait_until_ready()

NoMonitor == "none"

ASSUME MonitorAssumption ==
  /\ NoMonitor \notin Monitors
  /\ Interval \in [Monitors -> Nat \ {0}]
  /\ Modify \subseteq Monitors

VARIABLES
  running, stop, isready, has_ended,
  schedule,    \* entries [mon, due, fresh], in the order of the multimap
  watched,     \* the paths that watch() was called for, and no exception has lost
  runPc,       \* where the thread of run() is
  examined,    \* what run() knows of the monitor it has taken out of the schedule
  sleeptime,   \* what is left of it
  path,        \* what is at each path
  touchedNow,  \* the paths whose modification time is the present second
  newer,       \* the paths whose modification time is later than lastmodified
  storedNow,   \* the monitors whose lastmodified is the present second
  writtenNow,  \* the paths whose file's modification time is the present second
  contents,    \* Monitor::contents: a file, or none
  sameTime,    \* the monitors whose file has the modification time in contents
  toldNow,     \* the monitors whose modification time in contents is the present second
  listed,      \* what run() knows of the file's times, when it has listed it
  missed,      \* history: paths that changed in the second of the stored time
  reported,    \* history: the monitors whose listener was told of the file since it was written
  rewritten,   \* history: paths whose file was written again in the second of the listed time
  readyPc      \* where each thread of ReadyWaiters is

flagVars == <<running, stop, isready, has_ended>>
stampVars == <<path, touchedNow, newer, storedNow, writtenNow, missed>>
toldVars == <<contents, sameTime, toldNow, reported, rewritten>>
monitorVars == <<flagVars, schedule, watched, runPc, examined, listed, sleeptime, stampVars,
                 toldVars, readyPc>>

(* A path is missing, or a directory that is empty or holds a file.  A missing path
   lists as an empty one.                                                           *)
PathStates == {"missing", "empty", "file"}
Listing(p) == IF p = "missing" THEN "empty" ELSE p

RunPcs == {"out", "testing", "passing", "examining", "listed", "passed", "dozing",
           "sleeping", "ending"}

(* mon: the monitor; isNew: tchange > lastmodified; readNow: tchange is the present
   second; newerThanRead: the path's time is now later than tchange; listing.       *)
NotExamined == [mon |-> NoMonitor, isNew |-> FALSE, readNow |-> FALSE,
                newerThanRead |-> FALSE, listing |-> "empty"]

(* isChange: directory_change() finds one; timeNow: the file's time in newcontents is
   the present second; sameTime: the file still has that time.                      *)
NotListed == [isChange |-> FALSE, timeNow |-> FALSE, sameTime |-> FALSE]

MonitorInit ==
  /\ running = FALSE /\ stop = FALSE /\ isready = FALSE /\ has_ended = FALSE
  /\ schedule = <<>>
  /\ watched = {}
  /\ runPc = "out"
  /\ examined = NotExamined
  /\ sleeptime = 0
  /\ path \in [Monitors -> {"missing", "file"}]
  /\ touchedNow = {}
  /\ newer = Monitors          \* lastmodified = 0
  /\ storedNow = {}
  /\ writtenNow = {}
  /\ contents = [m \in Monitors |-> "empty"]
  /\ sameTime = {} /\ toldNow = {}
  /\ listed = NotListed
  /\ missed = {} /\ reported = {} /\ rewritten = {}
  /\ readyPc = [w \in ReadyWaiters |-> "idle"]

Notified == [w \in ReadyWaiters |-> IF readyPc[w] = "waiting" THEN "woken" ELSE readyPc[w]]
-----------------------------------------------------------------------------
(* The world: others change the paths, and time passes. *)

\* s with m, or without it.
Marked(s, m, isIn) == IF isIn THEN s \cup {m} ELSE s \ {m}

\* There is a file whose time is the present second, or none.
FileWritten(m, new) ==
  LET exists == new = "file"
      isListed == examined.mon = m
  IN  /\ writtenNow' = Marked(writtenNow, m, exists)
      /\ sameTime' = Marked(sameTime, m, exists /\ m \in toldNow)
      /\ listed' = [listed EXCEPT !.sameTime = IF isListed THEN exists /\ listed.timeNow ELSE @]
      /\ reported' = reported \ {m}
      /\ rewritten' =
           Marked(rewritten, m, exists /\ (m \in toldNow \/ (isListed /\ listed.timeNow)))

\* The time of a directory changes with its entries, not with their contents.
DirectoryWritten(m) ==
  /\ touchedNow' = touchedNow \cup {m}
  /\ newer' = IF m \in storedNow THEN newer ELSE newer \cup {m}
  /\ IF examined.mon = m
     THEN /\ examined' = [examined EXCEPT !.newerThanRead = @ \/ ~examined.readNow]
          /\ missed' = IF examined.readNow THEN missed \cup {m} ELSE missed
     ELSE /\ missed' = IF m \in storedNow THEN missed \cup {m} ELSE missed
          /\ UNCHANGED examined

\* A file that is there may be written again.
PathChanges(m, new) ==
  /\ new # path[m] \/ new = "file"
  /\ path' = [path EXCEPT ![m] = new]
  /\ FileWritten(m, new)
  /\ IF new = path[m] THEN UNCHANGED <<touchedNow, newer, missed, examined>>
     ELSE DirectoryWritten(m)
  /\ UNCHANGED <<flagVars, schedule, watched, runPc, sleeptime, storedNow, contents, toldNow,
                 readyPc>>

OneLess(n) == IF n = 0 THEN 0 ELSE n - 1

Tick ==
  /\ schedule' = [i \in DOMAIN schedule |-> [schedule[i] EXCEPT !.due = OneLess(@)]]
  /\ sleeptime' = OneLess(sleeptime)
  /\ touchedNow' = {}
  /\ storedNow' = {}
  /\ writtenNow' = {}
  /\ toldNow' = {}
  /\ examined' = [examined EXCEPT !.readNow = FALSE]
  /\ listed' = [listed EXCEPT !.timeNow = FALSE]
  /\ UNCHANGED <<flagVars, watched, runPc, path, newer, contents, sameTime, reported,
                 rewritten, missed, readyPc>>
-----------------------------------------------------------------------------
(* The users: watch(), stop(), wait_until_ready() *)

\* run() has impl->mutex from taking a monitor out until it is back.
ScheduleFree == runPc \notin {"examining", "listed"}

\* The schedule with an entry that comes after those of the indices.
InsertedAfter(indices, entry) == InsertAt(schedule, Cardinality(indices) + 1, entry)

\* The time 0 comes before every other; lastmodified is 0 too.
Watch(m) ==
  /\ m \notin watched
  /\ ScheduleFree
  /\ watched' = watched \cup {m}
  /\ schedule' = InsertedAfter({i \in DOMAIN schedule : schedule[i].fresh},
                               [mon |-> m, due |-> 0, fresh |-> TRUE])
  /\ newer' = newer \cup {m}
  /\ storedNow' = storedNow \ {m}
  /\ missed' = missed \ {m}
  /\ contents' = [contents EXCEPT ![m] = "empty"]
  /\ sameTime' = sameTime \ {m} /\ toldNow' = toldNow \ {m} /\ reported' = reported \ {m}
  /\ rewritten' = rewritten \ {m}
  /\ UNCHANGED <<flagVars, runPc, examined, listed, sleeptime, path, touchedNow, writtenNow,
                 readyPc>>

Stop ==
  /\ stop' = TRUE
  /\ UNCHANGED <<running, isready, has_ended, schedule, watched, runPc, examined, listed,
                 sleeptime, stampVars, toldVars, readyPc>>

\* wait_until_ready(), when it has m_ready: for the first time, or woken up.
WaitsUntilReady(w) ==
  /\ readyPc[w] \in {"idle", "woken"}
  /\ readyPc' = [readyPc EXCEPT ![w] =
       IF ~has_ended /\ ~isready THEN "waiting"
       ELSE IF isready /\ ~has_ended /\ ~stop THEN "ready" ELSE "notReady"]
  /\ UNCHANGED <<flagVars, schedule, watched, runPc, examined, listed, sleeptime, stampVars, toldVars>>
-----------------------------------------------------------------------------
(* run() *)

RunCalled ==
  /\ runPc = "out"
  /\ ~running
  /\ running' = TRUE
  /\ has_ended' = FALSE
  /\ runPc' = "testing"
  /\ UNCHANGED <<stop, isready, schedule, watched, examined, listed, sleeptime, stampVars,
                 toldVars, readyPc>>

TestsStop ==
  /\ runPc = "testing"
  /\ runPc' = IF ~stop /\ schedule # <<>> THEN "passing" ELSE "ending"
  /\ UNCHANGED <<flagVars, schedule, watched, examined, listed, sleeptime, stampVars, toldVars, readyPc>>

\* The first monitor is not due yet.
PassEnds ==
  /\ runPc = "passing"
  /\ Head(schedule).due > 0
  /\ runPc' = "passed"
  /\ UNCHANGED <<flagVars, schedule, watched, examined, listed, sleeptime, stampVars, toldVars, readyPc>>

\* It is: it is taken out, and the path's time is read; a missing path's is now.
TakesMonitor ==
  LET m == Head(schedule).mon IN
  /\ runPc = "passing"
  /\ Head(schedule).due = 0
  /\ schedule' = Tail(schedule)
  /\ examined' =
       [mon |-> m,
        isNew |-> IF path[m] = "missing" THEN m \notin storedNow ELSE m \in newer,
        readNow |-> path[m] = "missing" \/ m \in touchedNow,
        newerThanRead |-> FALSE,
        listing |-> "empty"]
  /\ runPc' = "examining"
  /\ UNCHANGED <<flagVars, watched, listed, sleeptime, stampVars, toldVars, readyPc>>

\* mutant: the monitor is due at once, and put before the others
RescheduledFirst(m) == InsertedAfter({}, [mon |-> m, due |-> 0, fresh |-> FALSE])

Rescheduled(m) ==
  InsertedAfter({i \in DOMAIN schedule : schedule[i].due <= Interval[m]},
                [mon |-> m, due |-> Interval[m], fresh |-> FALSE])

BackToSchedule ==
  /\ schedule' = Rescheduled(examined.mon)
  /\ examined' = NotExamined
  /\ listed' = NotListed
  /\ runPc' = "passing"
  /\ UNCHANGED <<flagVars, watched, sleeptime, readyPc>>

ScanNeeded == examined.isNew \/ examined.mon \in Modify

NothingToScan ==
  /\ runPc = "examining"
  /\ ~ScanNeeded
  /\ BackToSchedule
  /\ UNCHANGED <<stampVars, toldVars>>

\* mutant: the times of the files are not compared
DiffersInNames(m) == contents[m] # Listing(path[m])

\* directory_change(): a file came, or went, or has another time.
Differs(m) ==
  \/ contents[m] # Listing(path[m])
  \/ path[m] = "file" /\ m \notin sameTime

Lists ==
  LET m == examined.mon IN
  /\ runPc = "examining"
  /\ ScanNeeded
  /\ examined' = [examined EXCEPT !.listing = Listing(path[m])]
  /\ listed' = [isChange |-> Differs(m), timeNow |-> m \in writtenNow,
                sameTime |-> path[m] = "file"]
  /\ missed' = missed \ {m}
  /\ runPc' = "listed"
  /\ UNCHANGED <<flagVars, schedule, watched, sleeptime, path, touchedNow, newer, storedNow,
                 writtenNow, toldVars, readyPc>>

\* mutant: the time that is stored is the one after the listing
SeenToo == FALSE

\* The path changed after its time was read, which is the time that is stored.
ChangedSince == examined.newerThanRead

\* The listener was called, if anything changed, and returned: what was listed is stored.
Reports ==
  LET m == examined.mon IN
  /\ runPc = "listed"
  /\ contents' = [contents EXCEPT ![m] = examined.listing]
  /\ newer' = Marked(newer, m, ChangedSince)
  /\ storedNow' = Marked(storedNow, m, examined.readNow)
  /\ toldNow' = Marked(toldNow, m, listed.timeNow)
  /\ sameTime' = Marked(sameTime, m, listed.sameTime)
  /\ IF listed.isChange
     THEN /\ reported' = Marked(reported, m, examined.listing = "file")
          /\ rewritten' = rewritten \ {m}
     ELSE UNCHANGED <<reported, rewritten>>
  /\ BackToSchedule
  /\ UNCHANGED <<path, touchedNow, writtenNow, missed>>

\* The file system or the listener throws a std::exception: nothing is stored.
ExaminationThrows ==
  /\ runPc \in {"examining", "listed"}
  /\ BackToSchedule
  /\ UNCHANGED <<stampVars, toldVars>>

MarksReady ==
  /\ runPc = "passed"
  /\ runPc' = "dozing"
  /\ isready' = TRUE
  /\ readyPc' = IF isready THEN readyPc ELSE Notified
  /\ UNCHANGED <<running, stop, has_ended, schedule, watched, examined, listed, sleeptime, stampVars,
                 toldVars>>

FallsAsleep ==
  /\ runPc = "dozing"
  /\ sleeptime' = Head(schedule).due
  /\ runPc' = IF Head(schedule).due > 0 THEN "sleeping" ELSE "testing"
  /\ UNCHANGED <<flagVars, schedule, watched, examined, listed, stampVars, toldVars, readyPc>>

SleepIsOver == stop \/ sleeptime = 0

WakesUp ==
  /\ runPc = "sleeping"
  /\ SleepIsOver
  /\ sleeptime' = 0
  /\ runPc' = "testing"
  /\ UNCHANGED <<flagVars, schedule, watched, examined, listed, stampVars, toldVars, readyPc>>

StopServed == FALSE

RunEnds ==
  /\ runPc = "ending"
  /\ has_ended' = TRUE
  /\ stop' = StopServed
  /\ running' = FALSE
  /\ readyPc' = Notified
  /\ runPc' = "out"
  /\ UNCHANGED <<isready, schedule, watched, examined, listed, sleeptime, stampVars, toldVars>>

(* Another exception leaves run(): an interruption of the thread, at its points or in
   a callback, or whatever else a callback or the error handler throws.  Only an
   interruption resets running; a monitor that was being examined is lost.         *)
RunThrows(interrupted) ==
  /\ \/ runPc \in {"examining", "listed"}
     \/ runPc \in {"passing", "sleeping"} /\ interrupted
  /\ running' = ~interrupted
  /\ has_ended' = TRUE
  /\ readyPc' = Notified
  /\ runPc' = "out"
  /\ examined' = NotExamined
  /\ listed' = NotListed
  /\ watched' = watched \ {examined.mon}
  /\ sleeptime' = 0
  /\ UNCHANGED <<stop, isready, schedule, stampVars, toldVars>>

RunStep ==
  \/ TestsStop \/ PassEnds \/ TakesMonitor \/ NothingToScan \/ Lists \/ Reports
  \/ MarksReady \/ FallsAsleep \/ WakesUp \/ RunEnds
-----------------------------------------------------------------------------
MonitorNext ==
  \/ RunCalled
  \/ RunStep
  \/ ExaminationThrows
  \/ \E interrupted \in BOOLEAN : RunThrows(interrupted)
  \/ Tick
  \/ Stop
  \/ \E m \in Monitors : Watch(m) \/ \E new \in PathStates : PathChanges(m, new)
  \/ \E w \in ReadyWaiters : WaitsUntilReady(w)

\* The thread of run() runs on, time passes, and threads that are woken run on.
MonitorFairness ==
  /\ WF_monitorVars(RunStep)
  /\ WF_monitorVars(Tick)
  /\ \A w \in ReadyWaiters : WF_monitorVars(readyPc[w] = "woken" /\ WaitsUntilReady(w))

MonitorSpec == MonitorInit /\ [][MonitorNext]_monitorVars /\ MonitorFairness
-----------------------------------------------------------------------------
FileTimesTypeOK ==
  /\ {writtenNow, sameTime, toldNow, reported, rewritten} \subseteq SUBSET Monitors
  /\ listed \in [isChange : BOOLEAN, timeNow : BOOLEAN, sameTime : BOOLEAN]

RunTypeOK ==
  /\ {running, stop, isready, has_ended} \subseteq BOOLEAN
  /\ schedule \in Seq([mon : Monitors, due : Nat, fresh : BOOLEAN])
  /\ watched \subseteq Monitors
  /\ runPc \in RunPcs
  /\ examined \in [mon : Monitors \cup {NoMonitor}, isNew : BOOLEAN, readNow : BOOLEAN,
                   newerThanRead : BOOLEAN, listing : PathStates]
  /\ sleeptime \in Nat
  /\ path \in [Monitors -> PathStates]
  /\ contents \in [Monitors -> PathStates]
  /\ {touchedNow, newer, storedNow, missed} \subseteq SUBSET Monitors
  /\ readyPc \in [ReadyWaiters -> {"idle", "waiting", "woken", "ready", "notReady"}]

MonitorTypeOK == RunTypeOK /\ FileTimesTypeOK

\* What a monitor's listener has been told is what is at the path, or will be: the
\* monitor of a mask without MODIFY looks for files that come and go, that with MODIFY
\* for what is written, too.
IsUpToDate(m) ==
  /\ contents[m] = Listing(path[m])
  /\ m \in Modify /\ path[m] = "file" => m \in reported

(* Each watched path has one monitor, in the schedule or in the hands of run(), and the
   schedule is in the order of the times: when its first monitor is not due, none is
   (DirectoryMonitor.cpp:425, 434-435, 474, 502).                                      *)
ScheduleIsComplete ==
  LET Scheduled == {schedule[i].mon : i \in DOMAIN schedule}
  IN  /\ Scheduled \cup ({examined.mon} \ {NoMonitor}) = watched
      /\ examined.mon \notin Scheduled
      /\ \A i, j \in DOMAIN schedule :
           i < j => /\ schedule[i].mon # schedule[j].mon
                    /\ schedule[i].due <= schedule[j].due
                    /\ schedule[j].fresh => schedule[i].fresh

\* The monitor's next turn takes a listing (TakesMonitor): a missing path counts as
\* changed now, which is not later than what was stored within the same second.
WillBeListed(m) ==
  m \in Modify \/ IF path[m] = "missing" THEN m \notin storedNow ELSE m \in newer

(* A change that a listener has not been told of is found at the monitor's next turn,
   whatever was read, stored or thrown before, and wherever in a pass the change came
   (DirectoryMonitor.cpp:446-502): the time is read before the listing, and both are
   stored together.  The exception is the second of the stored time (see below).       *)
ChangesWillBeSeen ==
  \A m \in watched : IsUpToDate(m) \/ WillBeListed(m) \/ m \in missed

(* No change of a watched path is forgotten (DirectoryMonitor.cpp:425-502): the next turn
   of its monitor will list it, and that turn comes, the schedule being complete.        *)
NoChangeForgotten == ScheduleIsComplete /\ ChangesWillBeSeen

\* An exception that loses something: others cannot be told from a pass without news.
LosesNews == ExaminationThrows /\ ~NothingToScan /\ ~Reports

\* At last nothing changes at the paths, and run() goes on without an exception.
ComesToRest ==
  <>[][/\ runPc # "out" /\ runPc' # "out"
       /\ \A m \in Monitors : ~\E new \in PathStates : PathChanges(m, new)
       /\ ~LosesNews]_monitorVars

(* The listeners are told of every change (DirectoryMonitor.cpp:446-502): once nothing
   changes and nothing is thrown any more, each watched path is listed as it is,
   though it may have changed while it was being examined, and of a file that was
   written the listener is told, if the mask has MODIFY.  There are two exceptions, for
   times are in seconds: what comes or goes in the very second of the stored time, after
   the listing, is taken for seen (line 468), and so is a file that is written again
   in the second of the time it is listed with (line 156).                          *)
ListenersCatchUp ==
  ComesToRest
    => \A m \in Monitors :
         <>[](runPc # "out" /\ m \in watched => IsUpToDate(m) \/ m \in missed \cup rewritten)
=============================================================================

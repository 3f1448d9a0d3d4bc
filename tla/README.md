# A verification project for smartmet-library-macgyver

TLA+ models of the macgyver library: its concurrent core, its caches and
connections, and the algorithms under its dates, searches and readers; the TLC runs that
check them on small instances, and TLAPS proofs of their most important
invariants for every value of the constants. Paths below are relative to the
repository; `ThreadPool.h:389` means `macgyver/ThreadPool.h`, line 389.

To use it: `tlc -config Concurrency.cfg MCConcurrency.tla` runs one configuration,
`tlapm WorkQueueProofs.tla` checks the proofs of one module. `PROJECT.json`
lists the runs, the source lines each definition models, for every property a
mutation of the model that violates it, the hazards and the findings.

## 1. Inventory of the system

Macgyver is the utility library of the SmartMet server: date and time types,
caches, thread and connection pools, parsers, search trees, formulas of
astronomy and geodesy. Most of it is sequential and pure. The state that
outlives a call, and is shared between threads, is in these components.

| component | state | operations | hard behaviour | correct when |
|---|---|---|---|---|
| **ThreadPool** (`ThreadPool.h`) | worker count, target, active count, FIFO of tasks, list of workers; one mutex, three condition variables | start, schedule, resize, join, shutdown (graceful, with deadline, or interrupting); executeOne and workerDied of the workers | a notified worker dies instead of taking the task; several workers see one excess; shutdown releases the mutex between its snapshot and the joins; interrupts end a thread outside its handler | counts agree with the threads, no task is run twice or forgotten, shutdown ends and leaves no thread |
| **WorkQueue** (`WorkQueue.h`) | bounded queue, `done`, fixed consumers; one mutex and **one** condition variable for both sides | push, join_all, consumers' loop | notify_one reaches either side; join_all against sleeping consumers | implements a bounded FIFO; pushes and join_all end; join_all drains |
| **Pool** (`Pool.h`) | records with a hand-made free chain, three counters, alive flag | construction, get (with or without timeout), release by the Ptr, destruction | growth outside the mutex; creations that fail; barging clients; Ptrs that outlive the pool | an item has one user; none is lost; growth bounded; waiters served; each item deleted once |
| **AsyncTask, AsyncTaskGroup** | status of a task, active and completed tasks, collected exceptions, stop flag | add, wait, wait_some, stop, handle_finished, destructor; cancel against the end of a task | several waiters, callbacks outside the lock, stop on error while tasks are added | every task is accounted for once; wait returns when none is active; stop reaches all |
| **WorkerPool** (`WorkerPool.h`) | list of items, free chain of indices, reserved and current counts | reserve, release, shutdown, destructor | creation after the mutex is released, failure of the factory, shrinking without a notification | an object has one user and stays in the list; waiters are served |
| **Cache, LRUCache** (`Cache.h`) | shards: LRU list, map, size; one maximum per shard, under no lock | find, insert, upsert, resize, clear | resize against the loop of an eviction, sizes kept by hand | size is the sum, bound holds after the last operation, eviction in the order of use |
| **FileCache** (`Cache.cpp`) | map of files, their size; the directory itself | find, insert, update, clean | crash while a file is written, files that others remove, failed writes and removals | sizes agree, entries are whole files unless `update()` found them |
| **DirectoryMonitor** (`DirectoryMonitor.cpp`) | schedule of monitors, flags running, stop, ready, ended | watch, run, stop, wait_until_ready | a path changes while it is examined; callbacks throw or interrupt; stop before or after run | listeners are told of every change, stop stops |
| **PostgreSQLConnection** (`PostgreSQLConnectionImpl.*`) | connection, prepared statements, encoding, transaction, retry counts | open, reopen, close, execute, prepare, set encoding, begin, commit, cancel | server lost at any step, retry on a new connection, cancel from another thread | a new session is like the old one; a transaction is not left for another connection; attempts end |
| **TemplateFactory** (`TemplateFactory.cpp`) | a thread's formatters by time of writing | get | the file is replaced between its time and its contents | no formatter older than the file at the call |
| **StaticCleanup** (`StaticCleanup.cpp`) | functions, number of AtExits | register, AtExit | functions called outside the mutex, which register others | each is called once, in reverse order |
| **Date and time types** (`date_time/`) | none | calendar, ISO weeks, zones, periods with infinities; sums, quotients, comparisons and parts of times and durations; their texts, with a format or without | leap years, hours that come twice or are skipped, special values, rounding of negative times, formats that say a thing twice | agree with a calendar counted by hand, with the clocks of a zone, with sets of times, with the arithmetic of numbers; what is written is read |
| **Vendored date library** (`date_time/date/`) | the tz database, read once | civil calendar types, `format`, `parse`, search of a zone's transitions | the same | the same |
| **CsvReader, Base64** | the automaton of a reader | read; encode, decode | quotes, comments, ends of lines; groups that are not full | what was written is read |
| **Numbers, strings, distances** (`StringConversion.cpp`, `NumericCast.h`, `CharsetTools.cpp`, `DistanceParser.cpp`) | none | read numbers and sizes; escape XML; change the character set, the case, the accents; convert distances | limits of widths, signed characters, sequences of bytes that are cut, what is escaped already | the readers agree with each other; what is changed and changed back is the same |
| **Zone of a coordinate** (`WorldTimeZones.cpp`) | a table of runs, read once | binary search | positions at and between the runs, the ends of the table | the run that holds the position |
| **NearTree, LatLonTree, TernarySearchTree** | trees, delayed insertions | insert, find, search, flush | branches left out by the triangle rule; a key that continues another | search finds what was inserted |
| **Times as text** (`TimeFormatter.cpp`, `TimeParser.cpp`, `DateTimeParser.cpp`) | none | write in five styles, parse with or without a format, guess the format | grammars that are tried in turn, of which several match; numbers that do not fit | what is written is read; the two parsers agree; guesses are what is read |
| **Other formatters, ICU, hash** | none | pure conversions | – | unit tests |
| **Astronomy, geometry, matrices** | none | floating-point formulas | – | out of reach of TLC and TLAPS |

How they interact. `Pool::init` creates its items with an `AsyncTaskGroup`
(`Pool.h:304-359`), whose tasks are threads of `AsyncTask`. `Cache` and
`WorkerPool` are used by the servers and by nothing else in the library.
`ThreadPool` and `WorkQueue` run closures of their callers and call them without
holding their mutex; `DirectoryMonitor` calls listeners the same way. The
components share no state with each other, but for `Pool` and `AsyncTaskGroup`, where the
pool's model has the promise of the group in its place (items are created in any order;
when one creation fails the constructor throws after all tasks have ended). A task of a
group is composed with it in `AsyncTaskGroup`; alone, and in the detail of its destructor
and its callback, it is `AsyncTask`. `LocalDateTime` rests on the vendored date library,
whose search of transitions and choice of an instant are in the same module.

The hazards, each at its line, are in `PROJECT.json` under `hazards`, with the
properties that cover them.

## 2. Modules

| module | role |
|---|---|
| `ThreadPool` | state machine and properties of `ThreadPool<FifoScheduler>`, and its refinement of `BoundedFifo` |
| `MCThreadPool` | its instances, and the "usage" that restricts callers |
| `ThreadPoolProofs` | theorems about `ThreadPool`, and what follows from a restricted use |
| `BoundedFifo` | abstract specification: a bounded FIFO with workers, which `ThreadPool` and `WorkQueue` implement |
| `WorkQueue` | state machine of `WorkQueue`, and its refinement of `BoundedFifo` |
| `WorkQueueProofs` | theorems about `WorkQueue` |
| `Pool`, `WorkerPool` | state machines of the two pools of objects |
| `PoolProofs` | theorems about the two, which share the lemmas on free chains |
| `AsyncTaskGroup` | the group with the threads of its tasks |
| `AsyncTaskGroupProofs` | theorems about the group |
| `MCConcurrency` | the instances of `WorkQueue`, `Pool`, `WorkerPool` and `AsyncTaskGroup`, one of which is used in a behaviour, and the "usage" that restricts its callers |
| `Cache`, `FileCache` | the memory cache by shards, the file cache with its directory |
| `DirectoryMonitor`, `PostgreSQLConnection` | `run()` against a directory that changes, a connection against a server that goes away |
| `AsyncTask`, `TemplateFactory`, `StaticCleanup` | one task and its owner, the template files of several threads, cleanup at exit |
| `TernarySearchTree`, `NearTree` | the search trees, each against the set of what was inserted |
| `Searches` | the two trees of a program, and `SearchesFind` |
| `Calendar`, `LocalTime`, `TimePeriod` | days and ISO weeks, instants and zones, periods, each against a reference definition |
| `Reckoning`, `CivilDate` | times and durations against numbers; the types of the civil calendar |
| `Values` | the values of a program (the modules of the last two rows, `ZoneSearch` and `Base64`), and `ValuesAreExact` |
| `TimeText` | times as text: what is written, and the two parsers that read it |
| `DateText`, `DateFormat` | the texts of the types of `date_time/` and of `StringConversion.cpp`; writing and reading with a format |
| `CsvReader`, `Base64` | the reader of CSV against the ways to write it, encoding and decoding |
| `StringConversion`, `DistanceParser`, `Charset` | numbers, sizes, distances, the case of letters and the escapes of XML; the character sets |
| `ZoneSearch` | the binary search for the zone of a coordinate |
| `MCServices` | the instances of the modules of the last twelve rows, and `TextsAreExact` of those about text |
| `CacheProofs` | theorems about the two caches |
| `ServiceProofs` | theorems about the search trees, the directory monitor, one task, the connection, the template factory and the cleanup |
| `ValueProofs` | theorems about the search for a zone, periods, the calendar, the reckoning with times, local times, civil dates, and base64 |
| `CollectionLemmas` | what sums over sets, and the operations on sequences without repetitions, return; what is below what in a tree |

A step of a model is one region that the code executes under the component's
mutex: from the acquisition, or the return of a wait, to the release or the next
wait. What a thread does between two such regions (running a task, creating an
item) is one more control state, in which every other thread may act. A wait on a
condition variable is therefore two steps: the thread joins the wait set, and
runs on after a notification *and* after it has the mutex again; threads that
never waited may come first. `notify_one` chooses any waiter. Waits may end
without a notification (`SpuriousWakeup`), except where the code tests its
condition again and the wakeup would change nothing.

### ThreadPool

`itsIsRunning`, `itsWorkerCount`, `itsTargetWorkerCount`, `itsActiveCount`,
`itsShutdownGracefully` are the members of that name, `itsQueue` the
scheduler's. `wpc` is the control state of each worker's thread, from which the
member `itsWorkers` (the list) is the set of identities that are not absent.
`toInterrupt` and `toJoin` are the two loops over shutdown's snapshot.

| action | code |
|---|---|
| `Start`, `SetGracefulShutdown`, `Schedule`, `Resize` | the operations of these names; `AddWorkers` is `addWorker()` |
| `Join`, `JoinReturn` | `join()` up to its wait, and after it |
| `Shutdown`, `ShutdownWakes`, `ShutdownTimesOut` | `shutdown()` up to the wait for deaths, and what follows it |
| `ShutdownInterrupts`, `ShutdownJoined` | the loops without the mutex (`ThreadPool.h:320-328`) |
| `GiveUp`, `WaitForData`, `TakeTask` | `executeOne()` from its entry, or from the return of its wait |
| `InterruptedWait` | `boost::thread_interrupted` leaves the wait, and the thread |
| `FinishTask` | the task ends, or throws |
| `WorkerDied` | `workerDied()`, replacement included |

`size_t` counters are arithmetic modulo `Word` where they can wrap. Workers that
died hand their identity to later ones, so that a finite set suffices; no
worker is added when no identity is left (a bound of the model).

### WorkQueue

`queue` and `done` are the members; the capacity is the number of consumers
(`WorkQueue.h:49`). `leftLocked` records the one path that leaves the mutex locked:
a second `join_all()`. `BoundedFifo` says what is promised: items leave in the
order they entered, each goes to one worker, the number in the queue is bounded,
nothing is accepted or lost by closing, and a free worker takes an item that is
there. It knows no mutex, no condition variable and no producers. `ThreadPool`
implements it as well, all but the last, with `task` for what the workers have taken,
and is never closed.

### Pool

`free` is the chain from `top` along `next`, `inUse` the records with `in_use`,
the three counters are the members; `data` says for each record who owns its
item. `phase` splits the destructor in two: its body (under the mutex, resets
the alive flag and gives up the items in use) and the destruction of the members.
`get()` is split at the release of the mutex into `GetsFree`, `StartsToCreate` /
`CreateSucceeds` / `CreateFails`, `Waits` / `WokenGets` / `TimesOut`, and
`MakesPtr`; `~Ptr()` into its test of the flag (`StartsToRelease`,
`DeletesItem`) and `release()` (`Releases`, `ReleasesTooLate`). A client inside
the pool after the members are gone is `UsesGonePool`, which sets `invalid`.

### AsyncTaskGroup

`active`, `completed`, `stopRequested`, `stopOnError` and the two counters are the
members; the ids a task gets from `counter` are the tasks themselves. `tpc` follows the
thread of a task through `AsyncTask::run()` (`TaskEnds`), the release of its own mutex
(`TaskUnlocks`), the group's callback (`TaskCompletes`) and the `notify_all` after it
(`TaskWakes`). Of the two mutexes only the group's is ever held while another is wanted:
`stop()` (`StopBegins`, `Cancels` of one task after the other, `StopEnds`), so "the
group's mutex is taken" is "somebody is in `stop()`", and a task's is taken in the
state `finishing`. `wait()`, `add()`, the destructor and `handle_finished()` share the
steps of `wait_some()` (`WaitTests`) and `handle_finished()` (`HandlesNothing`,
`HandlePops`, `HandlesSuccess`, `HandlesFailure`, `HandlesInterrupted`); `caller`
says where a client returns to, and `HandleReturns` what each of the callers makes
of the result. Callbacks return or throw. An exception out of the destructor
ends the program (`groupPhase = "terminated"`).

### WorkerPool

`items` is the list, `free_chain` what is reached from `first_free_item` along `next_free`,
the counters and `in_shutdown` are the members. `reserve()` is split where it unlocks
`pm_cond` for the factory: `StartsToMake` counts the object, `Made` puts it in front of
the chain and takes it, `MakeFails` leaves it counted. `Made` does with the chain
what `WorkerPool.h:129-137` does: `first_free_item` is overwritten, and what was freed
meanwhile is no longer reached.

### Cache and FileCache

`list`, `map`, `size` are those of each shard. An insertion has its shard's mutex from
`InsertCalled` or `UpsertCalled` over `Evicts`, turn by turn, to `Places`; `resize()`
writes `itsMaxSizePerShard` first and then goes from shard to shard (`ResizeLocks`,
`Evicts`, `Trimmed`). As the write and the reads of the maximum are a data race, a
read returns the present value or the one read before. In `FileCache` every operation
has the one mutex, but `performCleanup()` is taken turn by turn, so that others may
remove files and a crash may come between two of them; `files` is the directory,
`torn` says which files are not the whole value. `LoadsFile` and `IsLoaded` are
`update()`, in any order of the directory.

### DirectoryMonitor

`schedule` is the multimap, with times that are left instead of times of day. A pass is
`TakesMonitor` (the path's time is read), `Lists`, `Reports` (the listener is told, the
time and the listing are stored), or `NothingToScan`, or `ExaminationThrows` of a
`std::exception`, and a monitor goes `BackToSchedule`; `RunThrows` is every other
exception, after which the monitor is lost. Times are whole seconds. Of a
directory's, the model keeps what the comparison of line 468 sees: whether it is later than
the stored one, and whether either is the present second. Of a file's, what
`directory_change()` compares (line 156): `writtenNow`, its time is the present second,
`toldNow`, the listed time is, and `sameTime`, both are the same. A file that is there may be
written again, which leaves the directory's time as it is (`FileWritten`,
`DirectoryWritten`). What is moved in with a time of its own, and a watched path that is
itself a file, are left out.
`IsUpToDate` says that the listener knows the path as it is and, with `MODIFY`, that the
file was not written after the listener was told (`reported`); `missed` are the paths that
changed in the second of the stored time after the listing, `rewritten` the files that were
written again in the second of their listed time: no later pass finds either.
`NoChangeForgotten` has two parts. `ChangesWillBeSeen`: a watched path is up to date, or
missed, or the next turn of its monitor lists it. `ScheduleIsComplete`: that turn comes,
each watched path having one monitor, in the schedule, in order, or in the hands of `run()`.

### PostgreSQLConnection

One operation at a time is in `retry_on_failure()`: `OpCalled`, `Reconnects` or
`HasConnection`, the operation itself (`Queries`, `QueriesBeside`, `Begins`, `Prepares`,
`Encodes`), `Broken` and `WaitIsOver` for another attempt. `open()` and `reopen()` have
their own loop (`Opens`, `OpenFails`, `OpensAgain`). libpqxx and the server are external:
a session ends with its connection, and a statement or a failure of the server may come at
any time. Record and session part in three ways, which the model has: an encoding is
recorded whatever the server says of it (`OpFails`; `astray`), a statement is forgotten before
the server is asked to (`Unregister`; `leftover`), and a rollback undoes an encoding that was
set in the transaction (`EndsTransaction`; `beforeTransaction`). `SessionRestored` says that they
part in no other way, and that a new session is exactly what is recorded. A transaction is of
the connection it was made for,
and `"dangling"` when that is destroyed without it. `UsesDangling` is undefined in C++, and
the model stops there.

### AsyncTask, TemplateFactory, StaticCleanup

The thread of an `AsyncTask` goes through `TaskStarts`, `FunctionEnds` or
`FunctionInterrupted`, `HandleResult` and the callback, which is inside the try block
when the function has succeeded: `NotifyThrows` and `NotifyInterrupted` then lead to
another `HandleResult`. Its owner waits, is interrupted, and destroys it.
`TemplateFactory::get()` is split between the time of the file and its contents;
`~AtExit()` between taking the functions and calling each.

### Trees, dates, periods, text

In `TernarySearchTree` and `NearTree` a node is named by the links that lead to it from the
root, and a tree is a function of these. The code's loops and recursion are steps, one at each node
that they come to: `InsertWord` with `Compares`, `Grows` and `Stores` is `insert()`, `LooksUp` with
`LooksOn`, `Collects` and `Answers` is `find()` or `findprefix()`; `Flushes` with `Settles` and
`Descends` is `flush()`, `Search` with `LooksBelow` and `Returns` one of the three searches for
objects. The stack of a recursion is a sequence of branches that it has not come to (`collecting`,
`pending`); what it has found, and the radius it goes on with, is in `results` and `known`. `Calendar` has the formulas of `date.h` and
`Date.cpp` beside a calendar that is counted day by day; division and remainder are those of
C++, towards zero, so that a week is that of ISO 8601 from the third year of Julian days on
(`WeeksFrom`). `LocalTime` has a zone as a
sequence of transitions, as `tz.cpp` sees it. `TimePeriod` has `Base::add_impl()` and
`sub_impl()` for the special values, and its operations; `overdrawn` is a period that
`expand()` has turned round. `CsvReader` is the automaton, one character a step. `Base64`
computes on bytes and sextets; the alphabet is left out, as it is a bijection.

`TimeText` has the writers of `TimeFormatter` and the grammars of `TimeParser` as data: a
grammar is a sequence of elements with their alternatives, and `Match` reads it the way
Boost.Spirit does, which takes the first alternative that matches and never comes back
to it. `match_and_parse` and `Impl_match_and_parse` are the functions of that name of
`TimeParser` and `DateTimeParser`, which try the same grammars in another order, and
`looks`, `Impl_looks` and their `_utc` the guesses of the format. A time is written, and
`Edit` changes its text in one place. Numbers keep their widths: an `unsigned int` that
does not fit is no match, a field of a date is an `unsigned short`, `date::year` a
`short`. `DateText` adds the writers of the time types and those of `StringConversion.cpp`,
which go round the locale, and reads what they write with the grammars of
`ParserDefinitions.h`.

### Times as numbers, with formats

`Reckoning` has a time and a duration as a type (normal, infinite, not a time) and a count of
ticks. A count of what is special is whatever memory held (`Leftovers`), since `Base` does not
set it. `ReckoningNext` adds, subtracts, negates, multiplies and divides; its bound is
`MaxReckoned` operations. `CivilDate` goes from one date to others by months and years, as
`year_month_day`, `year_month_day_last`, `year_month_weekday` and the indexed weekdays do.
`DateFormat` is `to_stream` and `from_stream` of `date.h`: a format is a sequence of directives
and of characters, `Scan` takes them one by one as the loop does, `Resolved` makes a date and a
time of the fields that were read, in the order in which the code tries them. A second has a
hundred ticks, so that it has two decimals. Over 29000 texts read, and over 1000 written, by a
build of the library were compared with the model: they are the same.

### Strings, distances, zones

`StringConversion` has a phrase, typed character by character, and what each function makes
of it. The parsers of boost are external: the longest beginning that is a number. The widths
are small (`IntMax`, `LongMax`, `FloatMax`, `Kilo`), so that every limit is among the phrases.
`DistanceParser` has the table of factors as it stands in the code. `Charset` has the byte
automata of UTF-8 with their shifts as divisions, and the tables as the sets they are.
`ZoneSearch` is one binary search, turn by turn.

## 3. What is checked

| run | instance | shows |
|---|---|---|
| `ThreadPoolSafety` | 3 workers, 2 clients, 3 tasks, queue of 2, sizes 0-2; 0.8 M states | `WorkerAccounting`; refines `BoundedFifo`; `AwakeWorkerPerTask` (no lost wakeup); a shutdown that nobody refills leaves no thread, whichever way it ends |
| `ThreadPoolLiveness` | 2 workers, 2 clients, 2 tasks; 0.3 M states | shutdown and join end; `PoolSettles`: accepted tasks are run, the number of workers reaches the target |
| `ThreadPoolActiveDoc` | 2 workers | **violated**: `getActiveCount()` is not between the running and the existing workers |
| `ThreadPoolJoinDoc` | 2 workers | **violated**: `join()` returns with a task queued |
| `ThreadPoolJoinersDoc` | 2 workers, 2 clients | **violated**: of two clients in `join()` one is never woken |
| `Concurrency` | see the next table; 0.5 M states | the classes whose threads share one mutex and one condition variable |
| `PoolReleaseDoc` | 3 clients | **violated**: an item whose Ptr races the pool's destructor is never deleted |
| `AsyncTaskGroupStopDoc` | 2 clients, up to 3 tasks, one at a time | **violated**: a failure under `stop_on_error` after which nothing is stopped |
| `Services` | see the second table below; 1 M states | the components that stand alone |
| `TernarySearchTreeDoc` | that of `Services` | **violated**: a key that continues another one is not found |
| `PostgreSQLTransactionDoc` | the same | **violated**: a query beside a transaction that is open |
| `DateTimeParserEpochDoc` | the same | **violated**: a text that begins with digits and is read as an epoch |

`MCConcurrency` extends four modules; `usage` is chosen at the start of a behaviour, and with it
the class that is used. The other three stay as they are.

| usage | instance | properties |
|---|---|---|
| `quiet`, `racing`, `careless` | `Pool`: 4 clients, 3 items, start size 0 (raised to 2), maximum 3 | `HeldExclusively`, `NothingLost`, `GrowthBounded`, `NoStrandedWaiter`, `WaitersServed`; of `quiet`, `QuietDestruction` |
| `any`, `orderly` | `WorkerPool`: 3 threads, maximum 2 | `ReservedExclusively`; of `orderly`, `OrderlyServed` |
| `matched`, `crowded` | `WorkQueue`: 3 producers, 2 consumers, 1 owner, 5 items | `ImplementsFifo`, `JoinEnds`, `JoinDrains`; of `matched`, `NothingStranded`: items are taken and pushes end |
| `one`, `many` | `AsyncTaskGroup`: 2 clients, up to 3 tasks, one at a time | `TasksAccounted`, `ParallelBound`, `StopReachesAll`, `DestroyedUnused`, `OperationsEnd`; of `one`, `OneWaitReturnsAtEnd` |

`MCServices` extends all the modules that stand alone; `part` is chosen at the start of a
behaviour, and the other components stay as they are. A property of one component is
therefore checked over every behaviour of it and of no other.

| part | instance | properties |
|---|---|---|
| `cache` | 2 threads, 3 keys in 2 shards, entries of 1 and 2, maxima of 1 and 3 per shard | `ShardsConsistent`, `EvictsLeastRecentlyUsed` |
| `fileCache` | 3 keys of 1 and 2, maximum 4, restarts and crashes | `FileCacheConsistent` |
| `calm` | 2 paths, intervals 1 and 2, `stop()` and a waiter at any time | `StopEndsRun`, `NoChangeForgotten` |
| `restless1`, `restless2` | the same, one path changes at any time | `ListenersCatchUp`, `NoChangeForgotten` |
| `connection` | 2 statements, an encoding and one that the server refuses, 2 attempts | `SessionRestored`, `OperationsEnd` |
| `words` | 8 keys of up to 3 letters of 3, trees of up to 4 keys in any order; 9 keys are looked up, of which 3 are never inserted | `SearchesFind` |
| `objects` | 4 points of the plane, up to 5 objects in any order, the same one more than once too, flushed at any time; radii -1, 0 and 2 | `SearchesFind` |
| `days` | every day from 25 December 1995 to 3 March 2024, the ten weeks around the turn of the years -4713, -4710, 400 BC, 0, 1600, 1900 and 2100, and of 1970 the first days; the first ten of them are before the Julian days | `ValuesAreExact` |
| `zones` | 4 zones of up to 4 transitions, days of 4 hours, all local times of 9 days | `ValuesAreExact` |
| `periods` | periods between 5 times and the infinities, against every other period | `ValuesAreExact` |
| `texts` | 7 moments written in 5 styles with 4 zones behind; of one of them, every text that differs in one place | `TextsAreExact` |
| `dates` | the same moments in the styles of `date_time/` and `StringConversion.cpp`, dates, times, durations and local times; of two moments, every text that differs in one place | `TextsAreExact` |
| `formats` | 8 days at 3 times under 12 formats, as local and as UTC times; durations, dates and single fields under their formats; of some, every text that differs in one place | `TextsAreExact` |
| `reckoning` | 6 times and 7 durations, of 4 ticks in a second, and the special ones; up to 2 operations | `ValuesAreExact` |
| `civil` | 7 dates at the ends of months and years, steps of months and years back and forth | `ValuesAreExact` |
| `strings` | strings of up to 4 of 14 bytes | `TextsAreExact` |
| `phrases` | phrases of up to 4 signs of numbers, of marks and references, or of letters; each number with every unit and format of a distance | `TextsAreExact` |
| `coordinates` | every table of up to 7 runs, every position, in it and outside | `ValuesAreExact` |
| `csv` | rows of up to 2 of 7 fields, written in every way, before another row or the end | `TextsAreExact` |
| `base64` | strings of up to 5 of 4 bytes | `ValuesAreExact` |
| `task` | a task of every kind of callback, its owner, others that cancel | `OwnerKnowsTheEnd`, `DestructorEnds` |
| `templates` | 2 threads, 2 versions, 2 times | `TemplatesAreCurrent` |
| `cleanup` | 2 threads, AtExits one in another, 3 functions | `CleanedUpOnce` |

Each property has a mutant in `PROJECT.json` that violates it. Properties of several parts
were violated by a mutant of each of them, too: `SearchesFind` by
`TernarySearchTree!AllAround`; `ValuesAreExact` by `LocalTime!UntilItsEnd`,
`TimePeriod!EndsAnywhere` and `Base64!BytesOfRestAll`;
`NothingStranded` also by `WorkQueue!NotifyAfterPopOmitted`.

**Bounds.** The hazards of the thread pool need one more worker than the target
(an excess), two sleepers or two that die of the same excess, and a task queued
beside them: three workers and sizes up to two give all of these, and two clients let a
resize come inside a shutdown. Three tasks fill a queue of two while one runs.
Liveness is checked on two workers and two clients, so that one may schedule, resize or
join while the other is in `shutdown()` or `join()`. Two of three
producers fill a work queue of two and wait while two consumers race, and the third
may push past them; the fifth item is pushed while four are in flight. In the pool three items let it grow once
beyond its start size; with four clients one waits, one creates, one barges in and
one releases. In the task group, one task may be active at a time, so that the second
`add()` waits; a third task is there when one thread handles them, and two suffice for
two threads that wait for the same one; tasks are added in the order of their names, as
their ids are given, and `stop_on_error` is set before the first of them. `Word = 8` is
beyond every count of an instance, so that a count above it can only be a wrap below
zero. The sets of workers, clients and tasks of
the safety run are symmetric; runs with liveness use no symmetry.

In `MCServices` two shards and three keys let a shard have two entries that compete, and the
maximum of one shard be lowered while the other is filled; three files of which two
do not fit beside the third let a cleanup take more than one turn. Two monitors with
different intervals let one be examined while the other one is due. Two attempts let
the first, a later and the last one fail. Trees of four keys and of five objects have
branches of branches. A text changes in one place, by any of
the separators, two digits or nothing, which is enough to make every element of a grammar
longer, shorter or absent. The years of `days` have 52 and 53 weeks and begin on every
weekday that decides on it, with leap years and ends of centuries among them; a zone keeps
an offset for longer than two days, as `tz.cpp` assumes when it looks a day around. The
moments of `reckoning` are before and after 1970 by days, hours and ticks, so that every
division has a negative remainder once. The days of `formats` are those whose ISO year is
another one, leap days, a negative year and one of five digits. In `phrases` an `int` ends at
11, a `long` at 127 and an `unsigned long` at 255: three digits are below, at and above each,
with a sign too. The bytes of `strings` are the least and the greatest of each kind of UTF-8
byte, and some letters of the tables.

**Usage.** Some promises hold only for callers that keep to a discipline. It is
a variable (`usage`) chosen at the start of a behaviour, so that one run checks
both the unrestricted and the disciplined callers: pools that only grow
(`growing`), are never refilled while they stop (`stopping`), or are destroyed
with no client inside them (`quiet`); that grow, with one client in `join()` at a time
(`joining`); task groups whose tasks are handled by one
thread at a time (`one`). A run
names its usages in its `.cfg`, as `MCServices` does its parts. Properties that need one say so in their
name or their definition; all others are checked for `any` caller.
A `WorkerPool` is used in `any` way, or `orderly`: its factory does not fail, and
nothing is released during a creation. Otherwise `ReserversServed` does not hold: see
Disagreements, below.
The `calm` monitor is stopped and waited for, and time does not pass while it works;
a pass that takes longer than the shortest interval finds its monitor due again, and does
not see `stop()` (`DirectoryMonitor.cpp:419`). In the restless parts time passes at any
point, and nobody stops it.
In `MCConcurrency` nobody pushes after `join_all()`, and `NothingStranded` is of producers of
whom at most as many are inside `operator()` as there are consumers (`matched`). With more
(`crowded`) it does not hold: a notification may be used up by a producer that finds the
queue full again, and items and producers stay where they are. No document says how
many producers there may be, so that this is no finding; the other properties are checked
for both.

**Deadlock** is not checked: each of these systems may stop, since nobody has to
call an operation.

**Fairness.** `WF` of the steps of each thread that is inside an operation or a
worker loop: a thread that wants a mutex gets it in the end, a task and a
creation end, a deadline passes. No fairness of calls, of spurious wakeups or of
which waiter a notification picks. The operating system's scheduler gives no less;
the pools call user code (tasks, `createItemCb`) that is assumed to return. For
`PoolSettles`, `WaitersServed` and `OrderlyServed` the premise is
that callers stop (`<>[]` no new call): a stream of callers that always come
first is outside what the code can promise, since its mutexes are not queues.

In `MCServices`: `WF` of `run()`, of time, of the thread inside a database operation, whose
waits end by their timeouts, and of the task's and the owner's steps. The function of a
task need not end, but comes to an interruption point. `ListenersCatchUp` has the premise
that from some time on nothing changes and nothing is thrown; `LosesNews` is what
throwing costs.

**Findings.** Eight comments, docs or tests of the repository disagree with the code; each has a
run that shows it. (1) `getActiveCount()`, "number of busy workers"
(`ThreadPool.h:468`): an idle worker that is woken by a resize and gives up is
subtracted at line 515 and again at line 597, so that the count drops below the
running workers, or below zero. (2) `join()`, "Wait until all queued tasks are
finished" (`ThreadPool.h:480`), returns at once between `schedule()` and the
notified worker's next step. (3) `Pool.h:464`, "the item will be deleted by Ptr
destructor": not if the pool is destroyed between that destructor's test and
`release()`. (4) `stop_on_error` (`AsyncTaskGroup.h:113`): if the callback of the failure
throws, as the one of `Pool::init` does, the other tasks are not stopped.
(5) `TernarySearchTree.h:5`, "works correctly for std::string keys": with "a" in the tree,
"ab" is put below a second 'a' (line 196), and found as "aab" only. (6)
`test/PostgreSQLConnectionTest.cpp:268`, "Transaction is active: should fail": a retry
destroys the connection and not the transaction (`PostgreSQLConnectionImpl.h:192`), and
`executeNonTransaction()` runs while `isTransaction()` is true. What uses the transaction
after that, its destructor included, uses a destroyed connection (`UsesDangling`).

(7) `join()` again: of two clients in it the last worker to go idle wakes one
(`ThreadPool.h:520`, `notify_one()`), and nobody wakes the other before there is a further
task. `GrowingJoinEnds` is therefore stated for one client in `join()`, whatever others do,
and `EveryJoinEnds` is violated. (8) `DateTimeParser.cpp:752, 1047`, "parsers
check that entire input was consumed": `itsEpochParser` does not, which `TimeParser.cpp` does,
so that "20160101T00000" is the epoch 20160101, though `test/DateTimeParserTest.cpp:323` says
"Should fail" (and catches its own failure); so does the test at line 354 of "2009121205".
`TextsAreExact` leaves open what such a text is read as, and `EntireInputConsumed` is violated.

One behaviour of the task group is no finding, since no document says that the destructor
handles failures, but a caller should know it: a destructor that meets a failure under
`stop_on_error`, or a callback that throws, ends the program.

**Disagreements without a run.** Seen while modelling; the models have what the code does
wherever they reach it.

- `WorkerPool.h:115`: a factory that fails keeps its place in `curr_pool_size` for good.
  Lines 119 and 129, "No nead to keep lock while creating a new object": what others free
  meanwhile is cut off from the chain when the new object is put into it, and stays in the
  list unused.
- `AsyncTaskGroup.h:31`, `wait()`, "Wait for all added tasks to end": of two threads in it the
  one that finds the ended task taken by the other (`AsyncTaskGroup.cpp:168`) returns while
  tasks are active. `OneWaitReturnsAtEnd` is therefore stated for one.
- `DirectoryMonitor.cpp:435`: an exception of a callback that is no `std::exception` takes
  its monitor out of the schedule for good, and leaves `running` set unless it is an
  interruption. A `stop()` before `run()` ends it at once and is forgotten. Line 468: without
  `MODIFY`, a change in the second of the stored time, after the listing, is missed.
  `MODIFY`, "old file modified" (`DirectoryMonitor.h:39`): times are whole seconds
  (`FileSystem.cpp:29`), and a file that is written again, after its listing, in the second of
  the time it was listed with looks the same ever after (`DirectoryMonitor.cpp:156`).
  `ListenersCatchUp` excepts both, and nothing else.
- `Cache.cpp:180, 410`: a file that could not be written is left without an entry, and the
  stream is tested before it is flushed.
- `PostgreSQLConnectionImpl.cpp:362`, "Encoding was set earlier before reconnect": an encoding is
  recorded also when the server refused it (line 225), and each reconnection asks for it and
  fails. Line 248 forgets a statement that the server may keep, and after a rollback of a
  transaction in which the encoding was set the session has the one before.
- `PostgreSQLConnectionImpl.cpp:188`: `cancel()` does nothing while the connection is being
  made again; and nobody notifies the `cond` on which a retry waits.
- `AsyncTask.cpp:132`: a callback that throws after a success is called twice, with the
  status changed after `done`; `wait_for()` of a task that was joined returns false.
- `TemplateFactory.cpp:64`: `insert()` does not replace a formatter, so that after the first
  change of a file every `get()` reads it again.
- `TimePeriod.h:121`: `expand()` by a negative duration turns a short period round, which
  lines 19-20 say is not made; periods that are bounded on one side are not shifted.
  `Base.cpp:165-172`: a time minus an infinite duration has the wrong sign, so that
  `expand(+infinity)` gives a period of no length.
- `Date.h:59`, `week_number()`, "ISO 8601 week number": the weekday of the first of January is a
  remainder towards zero (`Date.cpp:179`), and negative before the Julian days begin, in the
  year -4713: then the week is one too small, or line 208 throws.
- `Date.cpp:277`: `>=` of special dates is that of `<=`. `LocalDateTime.cpp:185-210`: `date()`
  and `time_of_day()` are those of UTC, which the header's line 107 calls local.
- `CsvReader.cpp:85`: the comment of a file whose lines end with CR goes on to the end of the
  file. Therefore `LinesBefore` ends comments with a newline.
- `TernarySearchTree.h`: the count of keys is never raised, and `contains()` does not compile
  when it is used.
- `DateTimeParser.cpp`: hours above 23 are taken. `looks()` calls the epoch 1612010101 "iso", and throws for a day
  that its month does not have.
- `StringConversion.cpp`, `TimeFormatter.cpp`: fractions of seconds are written with a comma,
  which `TimeParser` and `DateTime` refuse, and `DateTimeParser` takes for an epoch (finding 8);
  the epochs of the first 10000 seconds of 1970 are not read back.
- `DateTime.cpp:685-686`: the separators of dates and times are swapped, so that
  `parse_iso()` throws for what `to_iso_extended_string()` writes. `DateTime` reads hour 24
  with any minutes; durations of 100 hours and more are written and not read.
- `ParserStructures.h:58`: the product of a fraction and 1e6 is cut off, so that 11549 of the
  10^6 fractions are one microsecond short, .000249 first.
- `TimeDuration.cpp:206-240`: `+`, `-`, `+=` and `-=` look for two special values where one is
  enough; the sum with one of them is a normal duration, of whatever the special one holds.
  `*=` and `/=` are declared and not defined. `as_tm()` of a `DateTime` counts Sunday as 7,
  that of a `Date` counts from Monday as 0.
- `StringConversion.cpp:418-520`: `to_iso_string()` of a duration of 100 hours and more, and
  the writers of dates whose year is not in 0-9999, read outside the table of digits; the
  leading zero of -100 hours stays. Line 1240: `char` is signed, so that `xmlescape()` makes
  `&#-56;` of a byte that is not ASCII. `stosz()` wraps around.
- `DistanceParser.cpp:27`: blanks are taken for a part of the number, which `stod()` then
  refuses: "12 km" is no distance. A format that is not known converts nothing.
- `CharsetTools.cpp`: the table of Nordic letters lacks 237-239; `utf8_to_latin1()` gives
  nothing for a text with a newline or a tab.
- `WorldTimeZones.cpp:120`: the search reads the record behind the table for the positions of
  the last two.
- `date.h`, of formats: negative years and years of five digits are not read back with `%C`
  or `%Y`; `%j` is not compared with the length of the year; `%V` is not checked against it;
  `%F` pads a negative year to "00-1"; `%R` loses the sign of a duration; `%H` with `%I` is
  refused in the afternoon (line 7865). `TimeDuration::from_stream()` reads no negative
  durations, and minutes above 59.
- Of hazards beyond the list: a worker of `ThreadPool` interrupted in its wait (line 523) is
  never counted out, so that a graceful `shutdown()` waits for it for ever; a second
  `join_all()` of `WorkQueue` (line 65) leaves the mutex locked. Both are in the models
  (`lost`, `leftLocked`), and excluded by the properties' premises.

## 4. What is proved

| module | theorem | says |
|---|---|---|
| `WorkQueueProofs` | `TypeCorrect` | `QueueSpec => []QueueTypeOK`, the bound of the queue included |
| | `Implementation` | `QueueSpec => ImplementsFifo` |
| | `NothingLeftBehind` | `MCSpec => JoinDrains` |
| `ThreadPoolProofs` | `TypeCorrect` | `Spec => [](TypeOK /\ WorkerAccounting)` |
| | `AwakeWorkers` | `Spec => []AwakeWorkerPerTask` |
| | `NoTaskForgotten` | `Spec => []NoForgottenTask`, a corollary |
| | `Implementation` | `Spec => ImplementsFifo` |
| | `TasksApart` | `Spec => []TaskIsInOnePlace` |
| | `StoppedPoolIsEmpty` | `MCSpec => StoppingLeavesNoThread` |
| `AsyncTaskGroupProofs` | `TypeCorrect` | `GroupSpec => []GroupTypeOK` |
| | `StopReaches` | `GroupSpec => []StopReachesAll` |
| | `ParallelTasks` | `GroupSpec => []ParallelBound` |
| | `EachTaskHandledOnce` | `GroupSpec => []TasksAccounted` |
| | `EndsUnused` | `GroupSpec => []DestroyedUnused` |
| | `WaitIsToTheEnd` | `MCSpec => OneWaitReturnsAtEnd` |
| `PoolProofs` | `TypeCorrect` | `Spec => []TypeOK` |
| | `OneUser` | `Spec => []HeldExclusively` |
| | `ItemsAccounted` | `Spec => []NothingLost` |
| | `Growth` | `Spec => []GrowthBounded` |
| | `NoWakeupLost` | `Spec => []NoStrandedWaiter` |
| | `ObjectsApart` | `WorkerPoolSpec => []ReservedExclusively` |
| | `PoolTypes` | `MCSpec => []PoolsTypeOK` |
| | `DestroyedAtRest` | `MCSpec => []QuietDestruction` |
| `CacheProofs` | `CacheConsistent` | `CacheSpec => []ShardsConsistent` |
| | `CacheEvictsOldest` | `CacheSpec => EvictsLeastRecentlyUsed` |
| | `FileCacheIsConsistent` | `FileCacheSpec => []FileCacheConsistent` |
| `ServiceProofs` | `ChangesAreKept` | `MonitorSpec => []NoChangeForgotten` |
| | `OwnerKnows` | `TaskSpec => []OwnerKnowsTheEnd` |
| | `SessionsRestored` | `ConnectionSpec => []SessionRestored` |
| | `TemplatesCurrent` | `TemplateSpec => []TemplatesAreCurrent` |
| | `CleanupOnce` | `CleanupSpec => []CleanedUpOnce` |
| | `SearchesSound` | `NearSpec => []SearchesAreExact` |
| | `WordsFound` | `TreeSpec => []TreeIsTheMapElsewhere` |
| | `SearchesAlwaysFind` | `SearchSpec => []SearchesFind`, of a program that uses both trees |
| `ValueProofs` | `ZoneFound` | `ZoneSpec => []ZoneIsFound` |
| | `PeriodsSound` | `PeriodSpec => []PeriodsAreSets` |
| | `CalendarSound` | `CalendarSpec => []CalendarAgrees` |
| | `ReckoningSound` | `ReckoningSpec => []ReckoningIsSound` |
| | `LocalTimesSound` | `LocalSpec => []LocalTimesAreSound` |
| | `CivilDatesSound` | `CivilSpec => []CivilDatesAreSound` |
| | `Base64Sound` | `Base64Spec => []Base64IsExact` |
| | `ValuesAlwaysExact` | `ValueSpec => []ValuesAreExact`, of a program that uses any of these values |

A theorem about `MCSpec` is one of a property that holds only of a restricted use, which
`usage` of the MC modules names (section 3): it is proved for every value of the
constants, too, and takes nothing from the instance.

The assumptions are the named `ASSUME`s of the modules: finite sets of threads,
natural sizes, and "no task" / "no item" values outside the sets; of the search trees, that keys
are not empty, as the code tests, and that distances are natural numbers which are symmetric and keep the triangle rule, as a
metric does; of the algorithms on values,
that a table of zones begins with position 0 and ascends, that there is a normal time, that
the days the calendar begins with have their numbers, that civil dates begin in a year that
has 16 bits, and that a zone keeps an offset for more
than two days, changes it by one day at most, and begins before and ends after the times that the
program works with.  A program has finitely
many threads; where the threads of a cache are summed over (`SumFunctionOnSet`), the sum is
defined for a finite set only.

*WorkQueue.* `QueueTypeOK` is inductive. The refinement maps `queue`, `item` and `done`
to the FIFO's variables; a push, a pop, the end of `process()` and the first
`join_all()` map to the FIFO's actions, every other step to a stutter. It needs
`QueueTypeOK` for the bound: a push finds `Len(queue)` different from the capacity, and
only with `Len(queue) <= Capacity` is it below it. `JoinDrains` rests on `DrainInv`: a consumer
ends only with `done` set and the queue empty, and after `join_all()` no producer is inside
`operator()`, so that the queue stays empty; when the owner has joined the last consumer,
all have ended. With a push that races `join_all()` this is false, and the code promises
nothing of it.

*ThreadPool.* `TypeOK` alone is not inductive: `itsWorkerCount - 1` in
`workerDied()` is a natural number only because the dying worker is one of
those counted. `TypeOK /\ WorkerAccounting` is inductive; the work is in
lemmas on the cardinality of `itsWorkers` when one identity changes its state.

`NoForgottenTask` (no queued task beside sleeping workers with nobody awake) is
not inductive: the last awake worker may die of a reduction. It dies only if the
target is below the count, and is replaced if the target is above the count
afterwards. The invariant that survives, `AwakeWorkerPerTask`, gives each queued
task an awake worker of its own while any worker sleeps, and says that queued
tasks, sleepers and running workers together fit into the target. With no lost
worker the count is awake + sleeping + running, so that a death that takes the last
awake worker a task depends on leaves a count below the target, and is replaced.
The invariant holds while a worker sleeps: a reduction wakes all of them.

`TaskIsInOnePlace` is inductive with `TypeOK`: a task is scheduled only when it is
in neither place (the caller's discipline, in the guard of `Schedule`), and
`TakeTask` moves it from the head of a queue without repetitions. The refinement of
`BoundedFifo` maps `Schedule`, `TakeTask` and `FinishTask` to its steps, and all the
rest, the actions of workers that sleep, give up, die and are replaced and of clients that
resize and shut down, to stutters; `TypeOK` has the bound, and that a worker has a
task exactly while it runs it. A run checks the refinement, from which
`TaskIsInOnePlace` follows.

`ReturnsWithoutThreads` of a pool that nobody refills needs `StopInv`: from the moment a
`shutdown()` has set the target to nothing it stays there, no thread is begun any more, and
every thread there is, is on the list of those that it still has to join. A wait that
another client's death or notification wakes changes neither.

*AsyncTaskGroup.* The type invariant says that the tasks `stop()` still has to cancel are
active. A task leaves `active` only under the group's mutex, so this rests on
`MutexInv`: tasks are left to cancel only while a thread is inside `stop()`. With
`ActiveInv` (active are those whose callback has not run) a `stop()` begins with all
running tasks on its list, and `ReachInv` (a running task was cancelled, or is still
on the list) is kept, since `add()` tests the flag under the same mutex.
`ParallelBound` needs no more than the type: a thread enters the region that adds a
task when fewer than the maximum are active, whatever the others in it will do.
`TasksAccounted` needs the list of completed tasks without repetitions and apart from the
tasks in hand, with every one of them past its callback: then its status is final, and
the number of the counted grows by one exactly where a client lets go of a task that was not
interrupted. `DestroyedUnused` needs in addition that a handled task was joined, and
`CloseInv`, which follows the destructor: it is alone in the group, no way leads it out but
the one that finds nothing to handle, and that one is open only with no task active. Then
every task is handled, and so has ended. `OneWaitReturnsAtEnd` needs two things of a group in
which one thread at a time is busy. `CallerInv` tells from a control state which operation it
belongs to, so that the states of `wait()` are not left by a way that leads back to another
one. `WaitInv` says that between the predicate of the wait and `handle_finished()`, which takes
the mutex again, the list of completed tasks cannot become empty while tasks are active: the
tasks' own threads only add to it. With two threads that is false, as the hazard notes.

*Pool.* `HeldExclusively` is not inductive: an item stays out of two hands only if the chain
has each record once and no record that is held (`RecordsApart`, which holds in every
phase, also where a release after the destructor's body loses the item). `NothingLost` needs
that nobody has the pool before it is constructed (`ConstructionAlone`) and that an item of
a living pool is its own (`ItemsStay`). `GrowthBounded` counts those who create an item
outside the mutex along with the items; the counter is raised before, and given back when
the creation fails. `NoStrandedWaiter` is inductive with the rest: beside waiting clients every
free item has a woken client that comes for it, and one that takes an item without having
waited leaves a woken client over. `QuietDestruction` needs `AtRest`, of a destruction that
nobody was inside of when it began: then clients are outside or hold a Ptr, the items that Ptrs
own are those that clients hold, and once the pool is gone it has deleted the others.

*WorkerPool.* `reserve()` finds the chain empty, unlocks to make an object, and overwrites
the head of the chain with it (`WorkerPool.h:129`). What was released meanwhile is no longer
reached, but still owned by the list: the new chain has one object, which nobody uses. So
`ReservedExclusively` survives, with a chain without repetitions.

*Cache.* `ShardsConsistent` speaks of all threads at once; the invariant, `CacheInv`, speaks of one
shard and one thread. The thread that puts an entry has counted it into the size before it is
there (`SizesAddUp`), it is the only one that holds the shard (`OneHolder`), and the entry it puts
is not in it (`PutsNew`): so the sum over the threads in the property is that thread's bytes, or
nothing. What a thread knows of the maximum is old only while a `resize()` is still to come to
the shard (`LimitsKnown`), which is what `ShardsBounded` needs when the insertion is over: it
tested the value against one maximum (`Cache.h:140`) and evicted down to another. For
`EvictsLeastRecentlyUsed` the list is in the order of use, pair by pair (`InOrderOfUse`), which a
move to the end and a removal keep. The size as a sum is the hard part: `SumFunctionOnSet` is a
fold over a set in any order, with a `CHOOSE` in its definition, of which the library has no
facts, and the provers have no induction. `CollectionLemmas` shows it equal to the number
of pairs of an element and a number up to its value (`SumIsWeight`), by looking at a smallest
set of those for which it would not be; the facts on sums are then facts on cardinalities.

*FileCache.* The same lemmas. `FileCacheInv` adds to the property what is true between the steps of
`update()` and of a cleanup: a file that `update()` has still to visit has no entry, and neither has
the key whose file a cleanup makes room for, which gets `request.space` afterwards. That `itsSize`
never is above the maximum is what keeps the unsigned difference of `Cache.cpp:263` from
wrapping around: each insertion goes through a cleanup that was given the space of its value.

*TemplateFactory.* `TemplatesAreCurrent` is a property of what `get()` returned; inductive is
what the thread keeps (`KeptIsCurrent`): its formatter is no older than the file that has the same
time, be it the file there is or the one whose time the thread has read and compares with.

*DirectoryMonitor.* The multimap puts an entry behind those whose time is no later
(`DirectoryMonitor.cpp:309, 473`), and 0, the time of a fresh one, is before all others. The
model says how many these are by a cardinality; in a schedule that is in order they are a
prefix (`FirstNumbers`), so that it stays in order. Between two passes `StoredInv` is what
keeps changes from being forgotten: by the time a monitor is due again the second of
its stored time is over, so that a comparison that finds nothing newer is right. The times of the files have no part in it, since a monitor with `MODIFY` lists at every
turn. Within one,
`ReadInv`: what was read, and listed, is how the path is, or it has become newer than the time
that is going to be stored, or is missed. An exception of the reading, the listing or
the listener stores nothing, and leaves the next comparison as it was.

*AsyncTask.* The owner lets go of the object only by a join or in the destructor (`LetGo`),
and after `handle_result()` the members say how the task ended (`ResultHandled`).
*PostgreSQLConnection.* `SessionRestored` is inductive once the attempts to connect are: one is
made again only while one is left. Outside of a transaction, what `beforeTransaction` keeps is
not looked at; in one, a rollback that changes the encoding is what sets `astray`. *StaticCleanup.* Functions get numbers as they are registered;
the registered, those in the hands of each thread and the called are apart, each without
repetitions, and together all the numbers so far.

*Near tree.* A branch may be left out only if no object in it can be better than what is known.
This rests on `InReach`: no object below a side is farther from the side's object than its reach,
also the one that is still on its way down, which raised the reach of each node it passed.
`SearchInv` says of a search that what it knows is an answer to its question, and that everything
else it has to find is no better, or in a branch that is pending; a branch that the triangle rule
excludes has only the first kind (`LeftOut`). An unlimited search for the nearest object has a
limit as soon as anything is pending. `NoneLost` counts every object that was inserted: in the buffer, on
its way, or in one slot.

*Ternary tree.* Words are told apart by what a node was made for (`spelled`, history): the way to a node
is the way that its word goes (`Goes`: left or right of a node's last character, or on from
it), and no two nodes spell the same (`Spelling`). An insertion, and a search, has all nodes that
begin as its key does at or below the place that it has come to (`Gathered` in `WayDown`); where the tree
ends there are none, so that a new node is the only one with its word (`Growing`). A value is at the node that
spells it (`Storing`). `findprefix()` has found what it asked for, each once, except what is below
one, and only one, of the branches that it is still to collect, which hold nothing else (`Collecting`). All of
this is lost with the first key that continues one at whose end the tree had ended, which is what
`grownAtAnEnd` says; until then it is inductive. Both trees rest on the paths of `CollectionLemmas`:
what is below a node is the node of a branch, or below it, and two branches have nothing in common.

*Zones.* While `lo` and `hi` halve the table, the record that holds for the position is between them
(`Encloses`), unless the search has gone one behind the table, whose last record it
then reads. That there is such a record, and one only, is a fact about sequences that
ascend (`OneRecordHolds`).

*Periods.* Bounds are compared as the types say, so that a bound is a condition on times (`From`,
`Until`), and the later or earlier of two is the conjunction or the disjunction of theirs. A period has
a time in it exactly if its begin is less than its end; this is what joins `is_null()`,
`intersects()` and the sets. Inductive is that a period was not spoilt: it is open, or its end is not
before its begin, unless it was overdrawn, which the property excepts.

*Calendar.* The day counted by hand is a day of the calendar with its number (`IsDay`), kept by each
of the three ways to the next day, and holds of the days it begins with, by assumption; TLC
evaluates it. Of a day and its number the code's answers follow one by one. Both directions of
date.h count the years from March (`MarchNumber`, `EraNumber`), where a leap day is a year's last: a
year is year `100 c + 4 q + r` of its era, and a day of it is found again by
`YearOfEra` for all digits and days at once (`MarchYears`). The ISO week is a linear fact about a
year's first weekday and the lengths of two years (`Weeks`), once the remainder towards zero
is that of a number that is not negative: from Julian day 731 on, both years begin on
Julian day 0 or later. The years of the proof are all the
integers; those of `date::year` have 16 bits.

*Local times.* The local times at which a zone's transitions take place ascend as the transitions
do, by the old offsets and by the new ones, because an offset is kept for longer than it changes
by (`Ascending`). So there is a last period that a local time reaches (`PeriodReached`), and it is
shown in that one, or left out at its end (`IsSkipped`), and in no other but perhaps the
one before (`IsTwice`). `get_local_info()`, which looks at the neighbours of one transition, tells
these apart (`LocalInfo`), and the rest of the code's answers follow. A local time that goes back
while the instant goes on is one of two periods, between which some transition lowers the offset
(`ClockSetBack`). All that is inductive is that the instant is one of those there are.

*Civil dates.* Inductive is that the four dates are of the month that is counted, and that
which day and which weekday of it they are does not change (`CivilInv`): a step of months, or of
years, moves every kind of date as it moves the count (`DatesMove`, `DatesMoveByYears`, `NthMoves`), and
a year that does not fit is cut to 16 bits at the end of many steps as it is after each. What is
said of days is said while the year is one of date.h's (`InRange`). The days of a month are those
between two numbers (`DayAndNumber`), every seventh of them is of a weekday, so the n-th and the
last of these are found by counting (`WeekdaysApart`, `MetWeekdays`). The orders of parts are a
finite matter, but for the values of the parts, of which nothing is used (`WrittenDates`,
`OtherOrders`).

*Reckoning.* The types of values are closed under the operations (`ReckoningNextInv`), and each part of
the property holds of all of them. The parts of a duration rest on nested division by a number of
ticks that is not known (`Quotients`), negative ones on those without the sign, and the way through a
`struct tm` and back on `NumberAndDay`: every number of days is that of the date that date.h makes
of it.

*Base64.* All that is inductive is that the string is one of bytes. A byte of it is in two letters of
its group, from which `DecodedBack` puts it together again, whatever the other two are, so that
the letters that are missing from a last group do not matter; nor what follows them, for
`decode()` stops there (`StopsAt`) and counts the bytes by the letters before (`Lengths`).

The type invariants of `ThreadPool`, `WorkQueue` and `AsyncTaskGroup` are proved for every
instance and no longer part of a run, and so is `PoolsTypeOK`. Those
of the caches and of the modules in `ServiceProofs` and `ValueProofs` are proved as parts of their
invariants.

*Not proved*, and checked by TLC only:

- Liveness (`NothingStranded`, `JoinEnds`, `ShutdownEnds`, `GrowingJoinEnds`, `PoolSettles`,
  `WaitersServed`, `OrderlyServed`, `OperationsEnd`, `DestructorEnds`, `StopEndsRun`,
  `ListenersCatchUp`) is out of the prover's reach.
- `TextsAreExact`: the readers and writers of texts, fields, strings and numbers with signs are recursive or
  folds over data, for which the provers have no induction; they are compared with their references
  over bounded inputs. It is the only invariant of a passing run without a theorem.

## 5. What is not modelled

Of the modelled components: interrupting a caller's thread inside `join()` or `shutdown()`,
exceptions of `process()` (they end the program), the moment inside `std::thread`
construction when a thread cannot be created; the list of exceptions of a task group;
the statistics of caches; names of files, and more than one file in a watched directory;
the results of queries. Getters are not actions. The names of threads, log output and
wording are left out.

Of the rest, and why most of the lines of `macgyver/` are outside the map (three in ten
are inside):

- The vendored date library (`date_time/date/`, more than a third of all lines) is in the
  models where the time types rest on it: days and civil dates, the types of its calendar,
  formats, the transitions of a zone. The rest of it reads the tz database, knows POSIX zone
  descriptions (`ptz.h`, which nothing uses), and wraps arithmetic in types. Of formats,
  reading `%p` and `%r`, the locale's own (`%c`, `%x`, `%X`), names of zones (`%Z`), widths, and
  the modifiers `E` and `O` of the locale are left out.
- The rest of `StringConversion`: `printf` formats and exponents of real numbers. Of
  `CharsetTools` and `CharsetConverter`: what ICU does. `ValueFormatter`: the standard
  library's formatting.
- Overflow of 64 bits in times, and the exceptions of special values that are asked for
  their parts; durations of ISO 8601 and the less used units of offsets in `TimeParser`.
- Astronomy, geometry, matrices: floating-point formulas. TLC has integers, and what could be
  wrong in them is in the digits.
- `Exception`, `DebugTools`, `Hash`, the type utilities, `FileSystem`, `MappedFile`,
  `TimeZoneFactory`: messages, templates evaluated by the compiler, calls handed on, and
  tables that are read once and then only read.

## 6. Plan

Done: the models of section 2. First came `WorkQueue` with `BoundedFifo`, `ThreadPool`, `Pool`
and `AsyncTaskGroup`, whose pattern the others follow, and their proofs; then the other
components with state, and the algorithms that have a reference definition.

The proofs cover the modules with state, the search trees, and the algorithms on times that
are not recursive. What is left of the
plan, in this order:

1. The pool's constructor composed with `AsyncTaskGroup`: what the model of `Pool` assumes of
   it (its items are created in any order, and all have ended when it returns) shown of the
   group. `DestroyedUnused` and `TasksAccounted`, which are proved, are its two halves.
2. An abstract map of whole files that `FileCache` refines where no file is torn.

---------------------------- MODULE ThreadPool ----------------------------
(***************************************************************************)
(* Fmi::ThreadPool::ThreadPool<FifoScheduler> (src/macgyver/ThreadPool.h): *)
(* a pool of worker threads that take tasks from one bounded FIFO, resized *)
(* and shut down by client threads.  One mutex guards all of the state, so *)
(* a step is one region executed under the mutex: from the acquisition (or *)
(* the return of a condition variable's wait) to the release (or the next  *)
(* wait).  A wait is two steps with any number of others between them: the *)
(* thread joins the wait set, is moved out of it by a notify, and runs on  *)
(* only after it has the mutex again.                                      *)
(***************************************************************************)
EXTENDS Naturals, Sequences, FiniteSets

CONSTANTS
  Workers,        \* identities of Worker objects; one is reused once its thread has ended
  Clients,        \* threads that call the public operations
  Tasks,          \* tasks; one may be scheduled again after it has ended
  NoTask,         \* "the worker runs no task"
  PoolSize,       \* constructor argument poolSize
  SchedulerSize,  \* constructor argument schedulerSize: capacity of the FIFO
  Sizes,          \* arguments clients give resize()
  Word,           \* size_t is modelled as arithmetic modulo Word
  Timeouts        \* the kinds of shutdown() that are called: TRUE stands for a
                  \* positive theTimeoutSeconds, FALSE for the default (none)

ASSUME ThreadPoolAssumption ==
  /\ IsFiniteSet(Workers)
  /\ NoTask \notin Tasks
  /\ PoolSize \in Nat
  /\ SchedulerSize \in Nat
  /\ Sizes \subseteq Nat
  /\ Word \in Nat \ {0}
  /\ Timeouts \subseteq BOOLEAN

VARIABLES
  itsIsRunning, itsWorkerCount, itsTargetWorkerCount, itsActiveCount,
  itsShutdownGracefully, itsQueue,
  wpc,          \* control state of each worker thread
  task,         \* the task a running worker executes
  interrupted,  \* workers with a pending boost::thread::interrupt()
  cpc,          \* control state of each client
  timed,        \* clients whose shutdown() has a deadline
  toInterrupt,  \* shutdown()'s snapshot: workers not yet interrupted
  toJoin        \* shutdown()'s snapshot: workers whose thread has not ended

counters == <<itsIsRunning, itsWorkerCount, itsTargetWorkerCount, itsShutdownGracefully>>
callers  == <<cpc, timed, toInterrupt, toJoin>>
vars     == <<counters, itsActiveCount, itsQueue, wpc, task, interrupted, callers>>

-----------------------------------------------------------------------------
(* The worker's control states.  "top": at the call of executeOne(), mutex not
   taken.  "waiting": in itsDataEvent's wait set.  "notified": out of the set,
   mutex not yet taken again.  "running": in thisTask().  "dying": executeOne()
   returned false, workerDied() not yet entered.  "lost": the thread ended by
   boost::thread_interrupted leaving executeOne(), which skips workerDied().   *)
WorkerStates == {"absent", "top", "waiting", "notified", "running", "dying", "lost"}
ClientStates == {"idle", "joinWait", "joinWoken", "deathWait", "deathWoken", "interrupting"}

In(state)  == {w \in Workers : wpc[w] = state}
itsWorkers == Workers \ In("absent")                \* the list of Worker objects
Threads    == itsWorkers \ In("lost")               \* those whose thread has not ended
Awake      == In("notified") \cup In("top") \cup In("dying")   \* will look at the queue
Pending    == {itsQueue[i] : i \in DOMAIN itsQueue}
Running    == {task[w] : w \in In("running")}

Inc(n) == (n + 1) % Word
Dec(n) == (n + Word - 1) % Word

(* What condition_variable::notify_one() can do to the control states pc of the
   threads that wait in state "from": one of them leaves the wait set.          *)
NotifyOne(pc, from, to) ==
  LET waiters == {p \in DOMAIN pc : pc[p] = from}
  IN  IF waiters = {} THEN {pc} ELSE {[pc EXCEPT ![p] = to] : p \in waiters}

NotifyAll(pc, from, to) ==
  [p \in DOMAIN pc |-> IF pc[p] = from THEN to ELSE pc[p]]

(* What the four notifications of the pool can do.  Each may be followed by a
   mutated form of it, with which a run shows that a property needs it.        *)
DataNotifyOnlyOnFirst ==
  IF itsQueue = << >> THEN NotifyOne(wpc, "waiting", "notified") ELSE {wpc}
DataNotify == NotifyOne(wpc, "waiting", "notified")

DataNotifyAll == NotifyAll(wpc, "waiting", "notified")

AllIdleNever(pc) == {pc}
AllIdleNotify(pc) == NotifyOne(pc, "joinWait", "joinWoken")

DeathNotifyUnlessLast ==
  IF itsWorkerCount > 1 THEN NotifyOne(cpc, "deathWait", "deathWoken") ELSE {cpc}
DeathNotify == NotifyOne(cpc, "deathWait", "deathWoken")

(* FifoScheduler::push() and pop(). *)
HasRoom == Len(itsQueue) < SchedulerSize

PoppedByCopy == itsQueue
Popped == Tail(itsQueue)

(* workerDied() replaces the worker that left if the pool is now too small. *)
ReplacedBeforeDecrement == itsTargetWorkerCount > itsWorkerCount
Replaced == itsTargetWorkerCount > itsWorkerCount - 1

(* itsWorkerCount after workerDied(), addWorker() included. *)
CountAfterDeathNoIncrement == itsWorkerCount - 1
CountAfterDeath == IF Replaced THEN itsWorkerCount ELSE itsWorkerCount - 1

(* itsActiveCount when worker w pops a task: a woken worker has counted itself. *)
ActiveAfterPop(w) == IF wpc[w] = "top" THEN itsActiveCount ELSE Inc(itsActiveCount)

(* shutdown() has interrupted and joined all the threads of its snapshot. *)
InterruptedOnly(c) == toInterrupt[c] = {}
AllJoined(c) == toInterrupt[c] = {} /\ toJoin[c] = {}

-----------------------------------------------------------------------------
Init ==
  /\ itsIsRunning = FALSE
  /\ itsWorkerCount = 0
  /\ itsTargetWorkerCount = PoolSize
  /\ itsActiveCount = 0
  /\ itsShutdownGracefully = TRUE
  /\ itsQueue = << >>
  /\ wpc = [w \in Workers |-> "absent"]
  /\ task = [w \in Workers |-> NoTask]
  /\ interrupted = {}
  /\ cpc = [c \in Clients |-> "idle"]
  /\ timed = {}
  /\ toInterrupt = [c \in Clients |-> {}]
  /\ toJoin = [c \in Clients |-> {}]

(* n calls of addWorker().  The bound of the model: there are Worker identities
   left for the new workers.                                                   *)
AddWorkers(n) ==
  \E new \in SUBSET In("absent") :
    /\ Cardinality(new) = n
    /\ wpc' = [w \in Workers |-> IF w \in new THEN "top" ELSE wpc[w]]
    /\ itsWorkerCount' = itsWorkerCount + n
    /\ itsActiveCount' = (itsActiveCount + n) % Word

-----------------------------------------------------------------------------
(* Operations of the clients. *)

Start(c) ==
  /\ cpc[c] = "idle"
  /\ ~itsIsRunning
  /\ AddWorkers(itsTargetWorkerCount)
  /\ itsIsRunning' = TRUE
  /\ UNCHANGED <<itsTargetWorkerCount, itsShutdownGracefully, itsQueue, task,
                 interrupted, callers>>

SetGracefulShutdown(c) ==
  /\ cpc[c] = "idle"
  /\ itsShutdownGracefully' \in BOOLEAN
  /\ UNCHANGED <<itsIsRunning, itsWorkerCount, itsTargetWorkerCount, itsActiveCount,
                 itsQueue, wpc, task, interrupted, callers>>

(* A push that FifoScheduler refuses (full) changes nothing. *)
Schedule(c, t) ==
  /\ cpc[c] = "idle"
  /\ t \notin Pending \cup Running
  /\ HasRoom
  /\ itsQueue' = Append(itsQueue, t)
  /\ wpc' \in DataNotify
  /\ UNCHANGED <<counters, itsActiveCount, task, interrupted, callers>>

(* The early return compares with the workers that exist, not with the target. *)
Resize(c, n) ==
  /\ cpc[c] = "idle"
  /\ n # itsWorkerCount
  /\ itsTargetWorkerCount' = n
  /\ IF n < itsWorkerCount
       THEN /\ wpc' = DataNotifyAll
            /\ UNCHANGED <<itsWorkerCount, itsActiveCount>>
       ELSE AddWorkers(n - itsWorkerCount)
  /\ UNCHANGED <<itsIsRunning, itsShutdownGracefully, itsQueue, task, interrupted, callers>>

(* join() is not a loop: with itsActiveCount = 0 it returns at once (a step that
   changes nothing), else it returns after one wait.                            *)
Join(c) ==
  /\ cpc[c] = "idle"
  /\ itsActiveCount # 0
  /\ cpc' = [cpc EXCEPT ![c] = "joinWait"]
  /\ UNCHANGED <<counters, itsActiveCount, itsQueue, wpc, task, interrupted,
                 timed, toInterrupt, toJoin>>

JoinReturn(c) ==
  /\ cpc[c] = "joinWoken"
  /\ cpc' = [cpc EXCEPT ![c] = "idle"]
  /\ UNCHANGED <<counters, itsActiveCount, itsQueue, wpc, task, interrupted,
                 timed, toInterrupt, toJoin>>

(* shutdown(): the end of it, with the snapshot branch not or no longer to do. *)
ShutdownReturns(c) ==
  /\ cpc' \in AllIdleNotify([cpc EXCEPT ![c] = "idle"])
  /\ timed' = timed \ {c}
  /\ UNCHANGED <<toInterrupt, toJoin>>

(* shutdown(): the snapshot of the workers, after which the mutex is released.
   The threads that have ended already can be neither interrupted nor waited for. *)
ShutdownSnapshots(c, threads) ==
  /\ cpc' = [cpc EXCEPT ![c] = "interrupting"]
  /\ timed' = timed \ {c}
  /\ toInterrupt' = [toInterrupt EXCEPT ![c] = threads]
  /\ toJoin' = [toJoin EXCEPT ![c] = threads]

Shutdown(c, withDeadline) ==
  /\ cpc[c] = "idle"
  /\ itsTargetWorkerCount' = 0
  /\ wpc' = DataNotifyAll
  /\ \/ /\ itsShutdownGracefully /\ itsWorkerCount > 0
        /\ cpc' = [cpc EXCEPT ![c] = "deathWait"]
        /\ timed' = IF withDeadline THEN timed \cup {c} ELSE timed
        /\ UNCHANGED <<toInterrupt, toJoin>>
     \/ itsShutdownGracefully /\ itsWorkerCount = 0 /\ ShutdownReturns(c)
     \/ ~itsShutdownGracefully /\ ShutdownSnapshots(c, Threads)
  /\ UNCHANGED <<itsIsRunning, itsWorkerCount, itsActiveCount, itsShutdownGracefully,
                 itsQueue, task, interrupted>>

(* The graceful loop, after itsWorkerDeathEvent woke it.  The flag that is read
   again after the wait (!itsShutdownGracefully) may have been changed meanwhile. *)
ShutdownWakes(c) ==
  /\ cpc[c] = "deathWoken"
  /\ \/ /\ itsWorkerCount > 0
        /\ cpc' = [cpc EXCEPT ![c] = "deathWait"]
        /\ UNCHANGED <<timed, toInterrupt, toJoin>>
     \/ itsWorkerCount = 0 /\ itsShutdownGracefully /\ ShutdownReturns(c)
     \/ itsWorkerCount = 0 /\ ~itsShutdownGracefully /\ ShutdownSnapshots(c, Threads)
  /\ UNCHANGED <<counters, itsActiveCount, itsQueue, wpc, task, interrupted>>

(* wait_until() returns timeout.  A notification it raced with is used up. *)
ShutdownTimesOut(c) ==
  /\ c \in timed
  /\ cpc[c] \in {"deathWait", "deathWoken"}
  /\ IF itsWorkerCount > 0 \/ ~itsShutdownGracefully
       THEN ShutdownSnapshots(c, Threads)
       ELSE ShutdownReturns(c)
  /\ UNCHANGED <<counters, itsActiveCount, itsQueue, wpc, task, interrupted>>

(* The loop of interrupts runs without the mutex, one worker at a time.  A
   thread that has ended in the meantime is not affected.  Interrupting a thread
   that waits broadcasts to its condition variable, that is to all idle workers. *)
ShutdownInterrupts(c, w) ==
  /\ cpc[c] = "interrupting"
  /\ w \in toInterrupt[c]
  /\ toInterrupt' = [toInterrupt EXCEPT ![c] = @ \ {w}]
  /\ interrupted' = interrupted \cup {w}
  /\ wpc' = IF wpc[w] = "waiting" THEN DataNotifyAll ELSE wpc
  /\ UNCHANGED <<counters, itsActiveCount, itsQueue, task, cpc, timed, toJoin>>

(* Every thread of the snapshot has been joined; the mutex is taken again. *)
ShutdownJoined(c) ==
  /\ cpc[c] = "interrupting"
  /\ AllJoined(c)
  /\ ShutdownReturns(c)
  /\ UNCHANGED <<counters, itsActiveCount, itsQueue, wpc, task, interrupted>>

-----------------------------------------------------------------------------
(* Steps of the workers. *)

ThreadEnds(w) ==
  /\ interrupted' = interrupted \ {w}
  /\ toInterrupt' = [c \in Clients |-> toInterrupt[c] \ {w}]
  /\ toJoin' = [c \in Clients |-> toJoin[c] \ {w}]

(* executeOne(): a reduction of the pool is requested, the worker gives up.
   Reached from the entry and, unlike it, from the wait: there itsActiveCount
   has been decremented already.                                             *)
GiveUp(w) ==
  /\ \/ wpc[w] = "top"
     \/ wpc[w] = "notified" /\ w \notin interrupted
  /\ itsTargetWorkerCount < itsWorkerCount
  /\ wpc' = [wpc EXCEPT ![w] = "dying"]
  /\ UNCHANGED <<counters, itsActiveCount, itsQueue, task, interrupted, callers>>

(* executeOne(): the queue is empty.  A woken worker has just incremented
   itsActiveCount, so that for it the count ends where it was.  Entering the
   wait with an interrupt pending ends the thread at once (InterruptedWait).  *)
WaitForData(w) ==
  /\ wpc[w] = "top" \/ (wpc[w] = "notified" /\ w \notin interrupted)
  /\ itsTargetWorkerCount >= itsWorkerCount
  /\ itsQueue = << >>
  /\ itsActiveCount' = IF wpc[w] = "top" THEN Dec(itsActiveCount) ELSE itsActiveCount
  /\ cpc' \in IF itsActiveCount' = 0 THEN AllIdleNotify(cpc) ELSE {cpc}
  /\ wpc' = [wpc EXCEPT ![w] = IF w \in interrupted THEN "notified" ELSE "waiting"]
  /\ UNCHANGED <<counters, itsQueue, task, interrupted, timed, toInterrupt, toJoin>>

(* executeOne(): pop, and leave the mutex to run the task. *)
TakeTask(w) ==
  /\ wpc[w] = "top" \/ (wpc[w] = "notified" /\ w \notin interrupted)
  /\ itsTargetWorkerCount >= itsWorkerCount
  /\ itsQueue # << >>
  /\ itsActiveCount' = ActiveAfterPop(w)
  /\ task' = [task EXCEPT ![w] = Head(itsQueue)]
  /\ itsQueue' = Popped
  /\ wpc' = [wpc EXCEPT ![w] = "running"]
  /\ UNCHANGED <<counters, interrupted, callers>>

(* The wait is an interruption point outside the try block: the exception ends
   the thread, and workerDied() is not called.                                *)
InterruptedWait(w) ==
  /\ w \in interrupted
  /\ wpc[w] = "notified"
  /\ wpc' = [wpc EXCEPT ![w] = "lost"]
  /\ ThreadEnds(w)
  /\ UNCHANGED <<counters, itsActiveCount, itsQueue, task, cpc, timed>>

(* thisTask() returns, or throws: any exception, an interruption included, makes
   executeOne() return false.  A task with an interruption point has used up a
   pending interrupt, whether it lets the exception out or catches it.            *)
FinishTask(w) ==
  /\ wpc[w] = "running"
  /\ \E next \in {"top", "dying"} : wpc' = [wpc EXCEPT ![w] = next]
  /\ interrupted' \in {interrupted, interrupted \ {w}}
  /\ task' = [task EXCEPT ![w] = NoTask]
  /\ UNCHANGED <<counters, itsActiveCount, itsQueue, callers>>

(* workerDied(): leave the list, be replaced if the pool is now too small.  The
   new Worker takes over the identity of the one that ended.                   *)
WorkerDied(w) ==
  /\ wpc[w] = "dying"
  /\ wpc' = [wpc EXCEPT ![w] = IF Replaced THEN "top" ELSE "absent"]
  /\ itsWorkerCount' = CountAfterDeath
  /\ itsActiveCount' = IF Replaced THEN itsActiveCount ELSE Dec(itsActiveCount)
  /\ cpc' \in DeathNotify
  /\ ThreadEnds(w)
  /\ UNCHANGED <<itsIsRunning, itsTargetWorkerCount, itsShutdownGracefully,
                 itsQueue, task, timed>>

(* A wait may end without a notify: boost::condition_variable allows it, and
   interrupt() broadcasts to every waiter of the interrupted thread's condition
   variable.  shutdown() checks its condition again and is left out.            *)
SpuriousWakeup ==
  /\ \/ /\ \E w \in In("waiting") : wpc' = [wpc EXCEPT ![w] = "notified"]
        /\ UNCHANGED cpc
     \/ /\ \E c \in Clients :
             cpc[c] = "joinWait" /\ cpc' = [cpc EXCEPT ![c] = "joinWoken"]
        /\ UNCHANGED wpc
  /\ UNCHANGED <<counters, itsActiveCount, itsQueue, task, interrupted,
                 timed, toInterrupt, toJoin>>

-----------------------------------------------------------------------------
ClientCall(c) ==
  \/ Start(c)
  \/ SetGracefulShutdown(c)
  \/ \E t \in Tasks : Schedule(c, t)
  \/ \E n \in Sizes : Resize(c, n)
  \/ Join(c)
  \/ \E withDeadline \in Timeouts : Shutdown(c, withDeadline)

ClientContinues(c) ==
  \/ JoinReturn(c)
  \/ ShutdownWakes(c)
  \/ ShutdownTimesOut(c)
  \/ \E w \in Workers : ShutdownInterrupts(c, w)
  \/ ShutdownJoined(c)

WorkerStep(w) ==
  \/ GiveUp(w)
  \/ WaitForData(w)
  \/ TakeTask(w)
  \/ InterruptedWait(w)
  \/ FinishTask(w)
  \/ WorkerDied(w)

Next ==
  \/ \E c \in Clients : ClientCall(c) \/ ClientContinues(c)
  \/ \E w \in Workers : WorkerStep(w)
  \/ SpuriousWakeup

Spec == Init /\ [][Next]_vars

(* A thread that can run on does so: a worker that is ready for the mutex gets
   it, tasks end, a client inside an operation continues.  Nobody has to start
   an operation, and which of several waiters a notify wakes is never assumed. *)
Fairness ==
  /\ \A w \in Workers : WF_vars(WorkerStep(w))
  /\ \A c \in Clients : WF_vars(ClientContinues(c))

FairSpec == Spec /\ Fairness
-----------------------------------------------------------------------------
(* Properties *)

(* The state has its type; every size_t of the pool stays below 2^w (ThreadPool.h:616-640). *)
TypeOK ==
  /\ itsIsRunning \in BOOLEAN
  /\ itsWorkerCount \in Nat
  /\ itsTargetWorkerCount \in Nat
  /\ itsActiveCount \in 0 .. Word - 1
  /\ itsShutdownGracefully \in BOOLEAN
  /\ itsQueue \in Seq(Tasks)
  /\ Len(itsQueue) <= SchedulerSize
  /\ wpc \in [Workers -> WorkerStates]
  /\ task \in [Workers -> Tasks \cup {NoTask}]
  /\ \A w \in Workers : (task[w] = NoTask) <=> (wpc[w] # "running")
  /\ interrupted \subseteq Workers
  /\ cpc \in [Clients -> ClientStates]
  /\ timed \subseteq Clients
  /\ toInterrupt \in [Clients -> SUBSET Workers]
  /\ toJoin \in [Clients -> SUBSET Workers]

(* itsWorkerCount, kept by hand in addWorker() and workerDied(), is the length
   of itsWorkers: over concurrent resizes, deaths, replacements and interrupts. *)
WorkerAccounting == itsWorkerCount = Cardinality(itsWorkers)

(* No task is taken by two workers, or is queued again while it runs: the pop
   and the flight of the task outside the mutex keep it in exactly one place.  *)
TaskIsInOnePlace ==
  /\ \A i, j \in DOMAIN itsQueue : itsQueue[i] = itsQueue[j] => i = j
  /\ Pending \cap Running = {}
  /\ \A w, v \in In("running") : task[w] = task[v] => w = v

(* The pool implements the abstract FIFO, which knows no threads that sleep, die and are
   replaced, and is never closed: whatever resizes and interrupts do, tasks are begun
   in the order they were accepted, each by one worker, none is dropped or begun
   again, and the bound is kept (ThreadPool.h:183-210, 498-556).                        *)
Fifo == INSTANCE BoundedFifo
          WITH Items <- Tasks, NoItem <- NoTask, Capacity <- SchedulerSize,
               fifo <- itsQueue, taken <- task, closed <- FALSE

ImplementsFifo == Fifo!FifoSpec

(* No wakeup is lost: schedule() notifies one worker per task, that worker may
   die instead of taking the task, and yet while a worker sleeps beside a
   queued task another one is awake, and will look at the queue.  Only an
   interrupted worker takes its notification with it.                        *)
NoForgottenTask ==
  In("lost") = {} /\ itsQueue # << >> /\ In("waiting") # {} => Awake # {}

(* What makes it so.  Each queued task beside a sleeping worker has an awake worker
   of its own, although any of these may die of a reduction of the pool: then the
   workers that sleep, run or are owed to a task fit into the target, so that as
   many of the dead are replaced as the queue needs (ThreadPool.h:590-614).        *)
AwakeWorkerPerTask ==
  In("lost") = {} /\ In("waiting") # {} =>
    /\ Len(itsQueue) <= Cardinality(Awake)
    /\ Len(itsQueue) + Cardinality(In("waiting")) + Cardinality(In("running"))
         <= itsTargetWorkerCount

(* The least that "number of busy workers" (ThreadPool.h:468) says: it counts the
   workers that run a task, and no more workers than there are.                   *)
ActiveCountInRange ==
  /\ itsActiveCount >= Cardinality(In("running"))
  /\ itsActiveCount <= Cardinality(itsWorkers)

(* join(): "Wait until all queued tasks are finished" (ThreadPool.h:480).  Where
   it returns without a wait, in a started pool, nothing is queued or running.  *)
JoinWaitsForTasks ==
  itsIsRunning /\ itsTargetWorkerCount > 0 /\ itsActiveCount = 0 => Pending \cup Running = {}

(* When a shutdown() returns no worker thread is left, whichever way it went: the
   drain, or interrupting and joining the workers of its snapshot.  (A condition on
   a step; ThreadPool.h:279-332.)                                                  *)
ReturnsWithoutThreads ==
  \A c \in Clients :
    cpc[c] \in {"deathWait", "deathWoken", "interrupting"} /\ cpc'[c] = "idle"
      => Threads' = {}

NoMoreCalls == <>[][\A c \in Clients : ~ClientCall(c)]_vars

(* Once nobody calls any more, the number of workers reaches the target of a pool that
   was started, however it was resized before: dying workers overshoot (several may see
   the same excess) and are replaced; and an accepted task is run, if the target is at
   least one worker (ThreadPool.h:380-393, 405-428, 590-614).                          *)
PoolSettles ==
  NoMoreCalls /\ <>[](itsIsRunning /\ In("lost") = {})
    => <>[](/\ itsWorkerCount = itsTargetWorkerCount
            /\ itsTargetWorkerCount > 0 => itsQueue = << >>)
=============================================================================

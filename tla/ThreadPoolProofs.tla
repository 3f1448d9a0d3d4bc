-------------------------- MODULE ThreadPoolProofs --------------------------
(***************************************************************************)
(* What TLAPS proves of ThreadPool for every number of workers, clients    *)
(* and tasks, every size and every width of the counters.                  *)
(***************************************************************************)
EXTENDS MCThreadPool, FiniteSetTheorems, TLAPS

USE ThreadPoolAssumption

(* The arithmetic of the counters stays within their width. *)
LEMMA WordArithmetic ==
  /\ \A n \in Nat : n % Word \in 0 .. Word - 1
  /\ \A n \in 0 .. Word - 1 : Inc(n) \in 0 .. Word - 1 /\ Dec(n) \in 0 .. Word - 1
BY DEF Inc, Dec

(* Every set of workers is finite and has a size. *)
LEMMA WorkersFinite == \A S \in SUBSET Workers : IsFiniteSet(S) /\ Cardinality(S) \in Nat
BY FS_Subset, FS_CardinalityType

(* p differs from wpc by nothing but wakeups of workers that waited. *)
OnlyWakes(p) ==
  /\ p \in [Workers -> WorkerStates]
  /\ \A w \in Workers : p[w] = wpc[w] \/ (wpc[w] = "waiting" /\ p[w] = "notified")

LEMMA NotificationsOnlyWake ==
  ASSUME wpc \in [Workers -> WorkerStates]
  PROVE  /\ \A p \in DataNotify : OnlyWakes(p)
         /\ OnlyWakes(DataNotifyAll)
         /\ OnlyWakes(wpc)
<1>1. ASSUME NEW p \in DataNotify PROVE OnlyWakes(p)
  BY <1>1 DEF DataNotify, NotifyOne, OnlyWakes, WorkerStates
<1>2. OnlyWakes(DataNotifyAll)
  BY DEF DataNotifyAll, NotifyAll, OnlyWakes, WorkerStates
<1>3. OnlyWakes(wpc)
  BY DEF OnlyWakes
<1> QED BY <1>1, <1>2, <1>3

(* Waking workers creates none, ends none and moves no task. *)
LEMMA WakingKeepsWorkers ==
  ASSUME TypeOK, OnlyWakes(wpc')
  PROVE  /\ wpc' \in [Workers -> WorkerStates]
         /\ \A w \in Workers : (wpc'[w] = "running") <=> (wpc[w] = "running")
         /\ itsWorkers' = itsWorkers
         /\ In("running")' = In("running")
         /\ In("lost")' = In("lost")
BY DEF OnlyWakes, TypeOK, itsWorkers, In

(* A notification keeps the clients in client states. *)
LEMMA ClientNotification ==
  ASSUME NEW q \in [Clients -> ClientStates], NEW from, NEW to \in ClientStates,
         NEW r \in NotifyOne(q, from, to)
  PROVE  r \in [Clients -> ClientStates]
BY DEF NotifyOne

(* addWorker(), n times: n workers more, all of them awake, and nothing else. *)
LEMMA AddedWorkers ==
  ASSUME TypeOK, WorkerAccounting, NEW n \in Nat, AddWorkers(n)
  PROVE  /\ wpc' \in [Workers -> WorkerStates]
         /\ \A w \in Workers : (wpc'[w] = "running") <=> (wpc[w] = "running")
         /\ itsWorkerCount' \in Nat
         /\ itsWorkerCount' = Cardinality(itsWorkers')
         /\ itsActiveCount' \in 0 .. Word - 1
         /\ In("running")' = In("running")
         /\ In("waiting")' = In("waiting")
         /\ In("lost")' = In("lost")
         /\ Cardinality(Awake') = Cardinality(Awake) + n
<1>1. PICK new \in SUBSET In("absent") :
        /\ Cardinality(new) = n
        /\ wpc' = [w \in Workers |-> IF w \in new THEN "top" ELSE wpc[w]]
        /\ itsWorkerCount' = itsWorkerCount + n
        /\ itsActiveCount' = (itsActiveCount + n) % Word
  BY DEF AddWorkers
<1>2. itsWorkers' = itsWorkers \cup new /\ itsWorkers \cap new = {}
  BY <1>1 DEF itsWorkers, In
<1>3. Awake' = Awake \cup new /\ Awake \cap new = {}
  BY <1>1 DEF Awake, In
<1>4. /\ IsFiniteSet(itsWorkers) /\ Cardinality(itsWorkers) \in Nat
      /\ IsFiniteSet(Awake) /\ Cardinality(Awake) \in Nat
      /\ IsFiniteSet(new)
  BY WorkersFinite DEF itsWorkers, Awake, In
<1>5. Cardinality(itsWorkers') = Cardinality(itsWorkers) + n
  <2>1. Cardinality(itsWorkers \cup new)
          = Cardinality(itsWorkers) + Cardinality(new) - Cardinality(itsWorkers \cap new)
    BY <1>4, FS_Union
  <2>2. Cardinality(itsWorkers \cap new) = 0
    BY <1>2, FS_EmptySet
  <2>3. Cardinality(itsWorkers') = Cardinality(itsWorkers \cup new)
    BY <1>2
  <2> QED BY <1>1, <1>4, <2>1, <2>2, <2>3
<1>6. Cardinality(Awake') = Cardinality(Awake) + n
  BY <1>1, <1>3, <1>4, FS_Union, FS_EmptySet
<1>7. itsWorkerCount' \in Nat /\ itsWorkerCount' = Cardinality(itsWorkers')
  BY <1>1, <1>4, <1>5 DEF WorkerAccounting, TypeOK
<1>8. itsActiveCount' \in 0 .. Word - 1
  <2>1. itsActiveCount + n \in Nat
    BY DEF TypeOK
  <2> QED BY <1>1, <2>1, WordArithmetic
<1>9. /\ wpc' \in [Workers -> WorkerStates]
      /\ \A w \in Workers : (wpc'[w] = "running") <=> (wpc[w] = "running")
  BY <1>1 DEF TypeOK, WorkerStates, In
<1>10. /\ In("running")' = In("running")
       /\ In("waiting")' = In("waiting")
       /\ In("lost")' = In("lost")
  BY <1>1 DEF In
<1> QED BY <1>6, <1>7, <1>8, <1>9, <1>10

-----------------------------------------------------------------------------
(* The parts of TypeOK, for the steps that disturb only some of them. *)
ClientsOK ==
  /\ cpc \in [Clients -> ClientStates]
  /\ timed \subseteq Clients
  /\ toInterrupt \in [Clients -> SUBSET Workers]
  /\ toJoin \in [Clients -> SUBSET Workers]

WorkersOK ==
  /\ wpc \in [Workers -> WorkerStates]
  /\ task \in [Workers -> Tasks \cup {NoTask}]
  /\ \A w \in Workers : (task[w] = NoTask) <=> (wpc[w] # "running")

CountersOK ==
  /\ itsIsRunning \in BOOLEAN
  /\ itsWorkerCount \in Nat
  /\ itsTargetWorkerCount \in Nat
  /\ itsActiveCount \in 0 .. Word - 1
  /\ itsShutdownGracefully \in BOOLEAN

QueueOK ==
  /\ itsQueue \in Seq(Tasks)
  /\ Len(itsQueue) <= SchedulerSize

LEMMA TypeParts ==
  TypeOK <=> ClientsOK /\ WorkersOK /\ CountersOK /\ QueueOK /\ interrupted \subseteq Workers
BY DEF TypeOK, ClientsOK, WorkersOK, CountersOK, QueueOK

(* The two ends of shutdown() keep the clients' part. *)
LEMMA ShutdownEndsKeepClients ==
  ASSUME ClientsOK, NEW c \in Clients,
         ShutdownReturns(c) \/ ShutdownSnapshots(c, Threads)
  PROVE  ClientsOK'
<1>1. CASE ShutdownReturns(c)
  <2>1. [cpc EXCEPT ![c] = "idle"] \in [Clients -> ClientStates]
    BY DEF ClientsOK, ClientStates
  <2>2. cpc' \in [Clients -> ClientStates]
    BY <1>1, <2>1, ClientNotification DEF ShutdownReturns, AllIdleNotify, ClientStates
  <2> QED BY <1>1, <2>2 DEF ClientsOK, ShutdownReturns
<1>2. CASE ShutdownSnapshots(c, Threads)
  <2>1. Threads \subseteq Workers
    BY DEF Threads, itsWorkers
  <2> QED BY <1>2, <2>1 DEF ClientsOK, ShutdownSnapshots, ClientStates
<1> QED BY <1>1, <1>2

(* A step that keeps every worker's task and existence keeps its part and the
   count of the workers.                                                       *)
LEMMA WakingKeepsTypes ==
  ASSUME TypeOK, WorkerAccounting, OnlyWakes(wpc'), UNCHANGED task
  PROVE  WorkersOK' /\ itsWorkers' = itsWorkers
BY WakingKeepsWorkers DEF TypeOK, WorkersOK

(* The type invariant, and with it that itsWorkerCount is the number of Worker
   objects: without the latter it could fall below zero in workerDied().       *)
LEMMA StepKeepsTypes ==
  ASSUME TypeOK, WorkerAccounting, [Next]_vars
  PROVE  TypeOK' /\ WorkerAccounting'
<1>0. ClientsOK /\ WorkersOK /\ CountersOK /\ QueueOK /\ interrupted \subseteq Workers
  BY TypeParts
<1>w. OnlyWakes(DataNotifyAll) /\ OnlyWakes(wpc) /\ \A p \in DataNotify : OnlyWakes(p)
  BY NotificationsOnlyWake DEF TypeOK
<1> DEFINE Goal == TypeOK' /\ WorkerAccounting'
<1>g. ASSUME ClientsOK', WorkersOK', CountersOK', QueueOK', (interrupted \subseteq Workers)',
             itsWorkerCount' = Cardinality(itsWorkers')
      PROVE  Goal
  BY <1>g DEF TypeOK, ClientsOK, WorkersOK, CountersOK, QueueOK, WorkerAccounting
<1>s. ASSUME UNCHANGED <<itsWorkerCount, itsWorkers>>
      PROVE  itsWorkerCount' = Cardinality(itsWorkers')
  BY <1>s DEF WorkerAccounting
<1> HIDE DEF Goal
<1>1. ASSUME NEW c \in Clients, Start(c) PROVE Goal
  <2>1. AddWorkers(itsTargetWorkerCount) /\ itsTargetWorkerCount \in Nat
    BY <1>1 DEF Start, TypeOK
  <2>2. WorkersOK' /\ itsWorkerCount' = Cardinality(itsWorkers')
    BY <1>0, <1>1, <2>1, AddedWorkers DEF Start, WorkersOK
  <2>3. CountersOK'
    BY <1>0, <1>1, <2>1, AddedWorkers DEF Start, CountersOK
  <2> QED BY <1>0, <1>1, <1>g, <2>2, <2>3 DEF Start, callers, ClientsOK, QueueOK
<1>2. ASSUME NEW c \in Clients, SetGracefulShutdown(c) PROVE Goal
  BY <1>0, <1>2, <1>g, <1>s
     DEF SetGracefulShutdown, callers, ClientsOK, WorkersOK, CountersOK, QueueOK, itsWorkers, In
<1>3. ASSUME NEW c \in Clients, NEW t \in Tasks, Schedule(c, t) PROVE Goal
  <2>1. WorkersOK' /\ itsWorkers' = itsWorkers
    BY <1>3, <1>w, WakingKeepsTypes DEF Schedule
  <2>2. QueueOK'
    BY <1>0, <1>3 DEF Schedule, HasRoom, QueueOK
  <2> QED BY <1>0, <1>3, <1>g, <1>s, <2>1, <2>2
          DEF Schedule, callers, counters, ClientsOK, CountersOK
<1>4. ASSUME NEW c \in Clients, NEW n \in Sizes, Resize(c, n) PROVE Goal
  <2>0. n \in Nat /\ itsWorkerCount \in Nat
    BY DEF TypeOK
  <2>1. CASE n < itsWorkerCount
    <3>1. WorkersOK' /\ itsWorkers' = itsWorkers
      BY <1>4, <1>w, <2>1, WakingKeepsTypes DEF Resize
    <3> QED BY <1>0, <1>4, <1>g, <1>s, <2>0, <2>1, <3>1
            DEF Resize, callers, ClientsOK, CountersOK, QueueOK
  <2>2. CASE ~(n < itsWorkerCount)
    <3>1. n - itsWorkerCount \in Nat /\ AddWorkers(n - itsWorkerCount)
      BY <1>4, <2>0, <2>2 DEF Resize
    <3>2. WorkersOK' /\ itsWorkerCount' = Cardinality(itsWorkers')
      BY <1>0, <1>4, <3>1, AddedWorkers DEF Resize, WorkersOK
    <3>3. CountersOK'
      BY <1>0, <1>4, <2>0, <3>1, AddedWorkers DEF Resize, CountersOK
    <3> QED BY <1>0, <1>4, <1>g, <3>2, <3>3 DEF Resize, callers, ClientsOK, QueueOK
  <2> QED BY <2>1, <2>2
<1>5. ASSUME NEW c \in Clients, Join(c) \/ JoinReturn(c) PROVE Goal
  BY <1>0, <1>5, <1>g, <1>s
     DEF Join, JoinReturn, counters, ClientStates, ClientsOK, WorkersOK, CountersOK, QueueOK,
         itsWorkers, In
<1>6. ASSUME NEW c \in Clients, NEW b \in Timeouts, Shutdown(c, b) PROVE Goal
  <2>1. WorkersOK' /\ itsWorkers' = itsWorkers
    BY <1>6, <1>w, WakingKeepsTypes DEF Shutdown
  <2>2. ClientsOK'
    BY <1>0, <1>6, ShutdownEndsKeepClients DEF Shutdown, ClientsOK, ClientStates
  <2> QED BY <1>0, <1>6, <1>g, <1>s, <2>1, <2>2 DEF Shutdown, CountersOK, QueueOK
<1>7. ASSUME NEW c \in Clients, ShutdownWakes(c) \/ ShutdownTimesOut(c) \/ ShutdownJoined(c)
      PROVE  Goal
  <2>1. ClientsOK'
    BY <1>0, <1>7, ShutdownEndsKeepClients
       DEF ShutdownWakes, ShutdownTimesOut, ShutdownJoined, ClientsOK, ClientStates
  <2> QED BY <1>0, <1>7, <1>g, <1>s, <2>1
          DEF ShutdownWakes, ShutdownTimesOut, ShutdownJoined, counters, WorkersOK, CountersOK,
              QueueOK, itsWorkers, In
<1>8. ASSUME NEW c \in Clients, NEW w \in Workers, ShutdownInterrupts(c, w) PROVE Goal
  <2>1. WorkersOK' /\ itsWorkers' = itsWorkers
    BY <1>8, <1>w, WakingKeepsTypes DEF ShutdownInterrupts
  <2> QED BY <1>0, <1>8, <1>g, <1>s, <2>1
          DEF ShutdownInterrupts, counters, ClientsOK, CountersOK, QueueOK
<1>9. ASSUME NEW w \in Workers, GiveUp(w) PROVE Goal
  <2>1. WorkersOK' /\ itsWorkers' = itsWorkers
    BY <1>0, <1>9 DEF GiveUp, WorkersOK, WorkerStates, itsWorkers, In
  <2> QED BY <1>0, <1>9, <1>g, <1>s, <2>1
          DEF GiveUp, counters, callers, ClientsOK, CountersOK, QueueOK
<1>10. ASSUME NEW w \in Workers, WaitForData(w) PROVE Goal
  <2>1. WorkersOK' /\ itsWorkers' = itsWorkers
    BY <1>0, <1>10 DEF WaitForData, WorkersOK, WorkerStates, itsWorkers, In
  <2>2. CountersOK'
    BY <1>0, <1>10, WordArithmetic DEF WaitForData, counters, CountersOK
  <2>3. ClientsOK'
    BY <1>0, <1>10, ClientNotification
       DEF WaitForData, AllIdleNotify, ClientsOK, ClientStates
  <2> QED BY <1>0, <1>10, <1>g, <1>s, <2>1, <2>2, <2>3 DEF WaitForData, counters, QueueOK
<1>11. ASSUME NEW w \in Workers, TakeTask(w) PROVE Goal
  <2>1. Head(itsQueue) \in Tasks
    BY <1>0, <1>11 DEF TakeTask, QueueOK
  <2>2. WorkersOK' /\ itsWorkers' = itsWorkers
    BY <1>0, <1>11, <2>1 DEF TakeTask, WorkersOK, WorkerStates, itsWorkers, In
  <2>3. CountersOK'
    BY <1>0, <1>11, WordArithmetic DEF TakeTask, ActiveAfterPop, counters, CountersOK
  <2>4. QueueOK'
    BY <1>0, <1>11 DEF TakeTask, Popped, QueueOK
  <2> QED BY <1>0, <1>11, <1>g, <1>s, <2>2, <2>3, <2>4
          DEF TakeTask, counters, callers, ClientsOK
<1>12. ASSUME NEW w \in Workers, InterruptedWait(w) PROVE Goal
  <2>1. WorkersOK' /\ itsWorkers' = itsWorkers
    BY <1>0, <1>12 DEF InterruptedWait, WorkersOK, WorkerStates, itsWorkers, In
  <2> QED BY <1>0, <1>12, <1>g, <1>s, <2>1
          DEF InterruptedWait, ThreadEnds, counters, ClientsOK, CountersOK, QueueOK
<1>13. ASSUME NEW w \in Workers, FinishTask(w) PROVE Goal
  <2>1. WorkersOK' /\ itsWorkers' = itsWorkers
    BY <1>0, <1>13 DEF FinishTask, WorkersOK, WorkerStates, itsWorkers, In
  <2>2. interrupted' \subseteq Workers
    BY <1>0, <1>13 DEF FinishTask
  <2> QED BY <1>0, <1>13, <1>g, <1>s, <2>1, <2>2
          DEF FinishTask, counters, callers, ClientsOK, CountersOK, QueueOK
<1>14. ASSUME NEW w \in Workers, WorkerDied(w) PROVE Goal
  <2>1. WorkersOK' /\ wpc[w] = "dying" /\ itsWorkers \subseteq Workers
    BY <1>0, <1>14 DEF WorkerDied, WorkersOK, WorkerStates, itsWorkers
  <2>2. ClientsOK'
    BY <1>0, <1>14, ClientNotification
       DEF WorkerDied, DeathNotify, ThreadEnds, ClientsOK, ClientStates
  <2>3. itsWorkerCount \in Nat /\ itsWorkerCount' \in Nat /\ itsWorkerCount' = Cardinality(itsWorkers')
    <3>1. w \in itsWorkers /\ itsWorkers' = IF Replaced THEN itsWorkers ELSE itsWorkers \ {w}
      BY <1>0, <1>14 DEF WorkerDied, WorkersOK, itsWorkers, In
    <3>2. IsFiniteSet(itsWorkers)
      BY <2>1, WorkersFinite
    <3>3. /\ Cardinality(itsWorkers \ {w}) = Cardinality(itsWorkers) - 1
          /\ Cardinality(itsWorkers \ {w}) \in Nat
      BY <2>1, <3>1, <3>2, FS_RemoveElement, WorkersFinite
    <3> QED BY <1>0, <1>14, <3>1, <3>3
            DEF WorkerDied, CountAfterDeath, WorkerAccounting, CountersOK
  <2>4. CountersOK'
    BY <1>0, <1>14, <2>3, WordArithmetic DEF WorkerDied, CountersOK
  <2> QED BY <1>0, <1>14, <1>g, <2>1, <2>2, <2>3, <2>4 DEF WorkerDied, ThreadEnds, QueueOK
<1>15. ASSUME SpuriousWakeup PROVE Goal
  <2>1. OnlyWakes(wpc')
    BY <1>0, <1>15 DEF SpuriousWakeup, OnlyWakes, WorkersOK, WorkerStates, In
  <2>2. WorkersOK' /\ itsWorkers' = itsWorkers
    BY <1>15, <2>1, WakingKeepsTypes DEF SpuriousWakeup
  <2>3. ClientsOK'
    BY <1>0, <1>15 DEF SpuriousWakeup, ClientsOK, ClientStates
  <2> QED BY <1>0, <1>15, <1>g, <1>s, <2>2, <2>3 DEF SpuriousWakeup, counters, CountersOK, QueueOK
<1>16. ASSUME UNCHANGED vars PROVE Goal
  BY <1>0, <1>16, <1>g, <1>s
     DEF vars, counters, callers, ClientsOK, WorkersOK, CountersOK, QueueOK, itsWorkers, In
<1>17. ASSUME NEW c \in Clients, ClientCall(c) PROVE Goal
  BY <1>1, <1>2, <1>3, <1>4, <1>5, <1>6, <1>17 DEF ClientCall
<1>18. ASSUME NEW c \in Clients, ClientContinues(c) PROVE Goal
  BY <1>5, <1>7, <1>8, <1>18 DEF ClientContinues
<1>19. ASSUME NEW w \in Workers, WorkerStep(w) PROVE Goal
  BY <1>9, <1>10, <1>11, <1>12, <1>13, <1>14, <1>19 DEF WorkerStep
<1>20. Goal
  BY <1>15, <1>16, <1>17, <1>18, <1>19 DEF Next
<1> QED BY <1>20 DEF Goal

(* In every behaviour the state has its type, and itsWorkerCount is the number of
   the pool's Worker objects, whatever resizes, deaths, replacements, interrupts
   and shutdowns overlap (addWorker() 564-580, workerDied() 590-614).             *)
THEOREM TypeCorrect == Spec => [](TypeOK /\ WorkerAccounting)
<1>1. Init => TypeOK /\ WorkerAccounting
  <2> SUFFICES ASSUME Init PROVE TypeOK /\ WorkerAccounting
    OBVIOUS
  <2>1. itsWorkers = {}
    BY DEF Init, itsWorkers, In
  <2>2. WorkerAccounting
    BY <2>1, FS_EmptySet DEF Init, WorkerAccounting
  <2>3. TypeOK
    <3>1. 0 \in 0 .. Word - 1 /\ Len(<< >>) = 0
      OBVIOUS
    <3>2. CountersOK
      BY <3>1 DEF Init, CountersOK
    <3>3. QueueOK
      BY <3>1 DEF Init, QueueOK
    <3>4. WorkersOK /\ ClientsOK /\ interrupted \subseteq Workers
      BY DEF Init, WorkersOK, ClientsOK, WorkerStates, ClientStates
    <3> QED BY <3>2, <3>3, <3>4, TypeParts
  <2> QED BY <2>2, <2>3
<1>2. TypeOK /\ WorkerAccounting /\ [Next]_vars => (TypeOK /\ WorkerAccounting)'
  BY StepKeepsTypes
<1> QED BY <1>1, <1>2, PTL DEF Spec

-----------------------------------------------------------------------------
(* The numbers of workers that are awake, that sleep and that run a task. *)
awake    == Cardinality(Awake)
sleeping == Cardinality(In("waiting"))
running  == Cardinality(In("running"))

LEMMA CountsAreNumbers ==
  /\ awake \in Nat
  /\ sleeping \in Nat
  /\ running \in Nat
BY WorkersFinite DEF awake, sleeping, running, Awake, In

(* While no thread is lost to an interruption, each worker is one of the three. *)
LEMMA WorkersCounted ==
  ASSUME TypeOK, WorkerAccounting, In("lost") = {}
  PROVE  itsWorkerCount = awake + sleeping + running
<1>1. /\ itsWorkers = (Awake \cup In("waiting")) \cup In("running")
      /\ Awake \cap In("waiting") = {}
      /\ (Awake \cup In("waiting")) \cap In("running") = {}
  BY DEF TypeOK, WorkerStates, itsWorkers, Awake, In
<1>2. /\ IsFiniteSet(Awake) /\ IsFiniteSet(In("waiting")) /\ IsFiniteSet(In("running"))
      /\ IsFiniteSet(Awake \cup In("waiting"))
  BY WorkersFinite DEF Awake, In
<1>3. Cardinality(Awake \cup In("waiting")) = awake + sleeping - Cardinality({})
  BY <1>1, <1>2, FS_Union DEF awake, sleeping
<1>4. Cardinality((Awake \cup In("waiting")) \cup In("running"))
        = Cardinality(Awake \cup In("waiting")) + running - Cardinality({})
  BY <1>1, <1>2, FS_Union DEF running
<1>5. itsWorkerCount = Cardinality((Awake \cup In("waiting")) \cup In("running"))
  BY <1>1 DEF WorkerAccounting
<1> QED BY <1>3, <1>4, <1>5, FS_EmptySet, CountsAreNumbers

(* How a number changes when one worker moves, and is among the counted after the
   move, or was before it.                                                         *)
Moved(n, after, before) ==
  IF after THEN IF before THEN n ELSE n + 1
           ELSE IF before THEN n - 1 ELSE n

AwakeStates == {"notified", "top", "dying"}

LEMMA OneMoves ==
  ASSUME TypeOK, NEW w \in Workers, NEW x \in WorkerStates,
         wpc' = [wpc EXCEPT ![w] = x]
  PROVE  /\ awake' = Moved(awake, x \in AwakeStates, wpc[w] \in AwakeStates)
         /\ sleeping' = Moved(sleeping, x = "waiting", wpc[w] = "waiting")
         /\ running' = Moved(running, x = "running", wpc[w] = "running")
         /\ wpc[w] # "lost" /\ In("lost")' = {} => In("lost") = {}
<1>1. \A k : In(k)' = IF k = x THEN In(k) \cup {w} ELSE In(k) \ {w}
  BY DEF TypeOK, In
<1>2. Awake' = IF x \in AwakeStates THEN Awake \cup {w} ELSE Awake \ {w}
  BY DEF TypeOK, Awake, In, AwakeStates
<1>3. /\ \A k : (w \in In(k)) <=> (wpc[w] = k)
      /\ (w \in Awake) <=> (wpc[w] \in AwakeStates)
  BY DEF Awake, In, AwakeStates
<1>4. IsFiniteSet(Awake) /\ \A k : IsFiniteSet(In(k))
  BY WorkersFinite DEF Awake, In
<1>5. awake' = Moved(awake, x \in AwakeStates, wpc[w] \in AwakeStates)
  <2>1. CASE x \in AwakeStates
    <3>1. awake' = Cardinality(Awake \cup {w})
      BY <1>2, <2>1 DEF awake
    <3>2. Cardinality(Awake \cup {w}) = IF w \in Awake THEN awake ELSE awake + 1
      BY <1>4, FS_AddElement DEF awake
    <3> QED BY <1>3, <2>1, <3>1, <3>2 DEF Moved
  <2>2. CASE x \notin AwakeStates
    <3>1. awake' = Cardinality(Awake \ {w})
      BY <1>2, <2>2 DEF awake
    <3>2. Cardinality(Awake \ {w}) = IF w \in Awake THEN awake - 1 ELSE awake
      BY <1>4, FS_RemoveElement DEF awake
    <3> QED BY <1>3, <2>2, <3>1, <3>2 DEF Moved
  <2> QED BY <2>1, <2>2
<1>6. ASSUME NEW k
      PROVE  Cardinality(In(k)') = Moved(Cardinality(In(k)), x = k, wpc[w] = k)
  <2>1. CASE x = k
    <3>1. Cardinality(In(k)') = Cardinality(In(k) \cup {w})
      BY <1>1, <2>1
    <3>2. Cardinality(In(k) \cup {w})
            = IF w \in In(k) THEN Cardinality(In(k)) ELSE Cardinality(In(k)) + 1
      BY <1>4, FS_AddElement
    <3> QED BY <1>3, <2>1, <3>1, <3>2 DEF Moved
  <2>2. CASE x # k
    <3>1. Cardinality(In(k)') = Cardinality(In(k) \ {w})
      BY <1>1, <2>2
    <3>2. Cardinality(In(k) \ {w})
            = IF w \in In(k) THEN Cardinality(In(k)) - 1 ELSE Cardinality(In(k))
      BY <1>4, FS_RemoveElement
    <3> QED BY <1>3, <2>2, <3>1, <3>2 DEF Moved
  <2> QED BY <2>1, <2>2
<1>7. wpc[w] # "lost" /\ In("lost")' = {} => In("lost") = {}
  BY <1>1, <1>3
<1>8. sleeping' = Moved(sleeping, x = "waiting", wpc[w] = "waiting")
  BY <1>6 DEF sleeping
<1>9. running' = Moved(running, x = "running", wpc[w] = "running")
  BY <1>6 DEF running
<1> QED BY <1>5, <1>7, <1>8, <1>9

(* The moves there are, by the kinds of state they lead from and to. *)
LEMMA StaysAwake ==
  ASSUME TypeOK, NEW w \in Workers, wpc[w] \in AwakeStates, NEW x \in AwakeStates,
         wpc' = [wpc EXCEPT ![w] = x]
  PROVE  /\ awake' = awake /\ sleeping' = sleeping /\ running' = running
         /\ In("lost")' = {} => In("lost") = {}
<1>1. x \in WorkerStates /\ wpc[w] # "lost"
  BY DEF WorkerStates, AwakeStates
<1>2. /\ awake' = Moved(awake, x \in AwakeStates, wpc[w] \in AwakeStates)
      /\ sleeping' = Moved(sleeping, x = "waiting", wpc[w] = "waiting")
      /\ running' = Moved(running, x = "running", wpc[w] = "running")
      /\ wpc[w] # "lost" /\ In("lost")' = {} => In("lost") = {}
  BY <1>1, OneMoves
<1> QED BY <1>1, <1>2 DEF Moved, AwakeStates

LEMMA FallsAsleep ==
  ASSUME TypeOK, NEW w \in Workers, wpc[w] \in AwakeStates,
         wpc' = [wpc EXCEPT ![w] = "waiting"]
  PROVE  /\ awake' = awake - 1 /\ sleeping' = sleeping + 1 /\ running' = running
         /\ In("lost")' = {} => In("lost") = {}
<1>1. /\ awake' = Moved(awake, "waiting" \in AwakeStates, wpc[w] \in AwakeStates)
      /\ sleeping' = Moved(sleeping, "waiting" = "waiting", wpc[w] = "waiting")
      /\ running' = Moved(running, "waiting" = "running", wpc[w] = "running")
      /\ wpc[w] # "lost" /\ In("lost")' = {} => In("lost") = {}
  BY OneMoves DEF WorkerStates
<1> QED BY <1>1 DEF Moved, AwakeStates

LEMMA WakesUp ==
  ASSUME TypeOK, NEW w \in Workers, wpc[w] = "waiting",
         wpc' = [wpc EXCEPT ![w] = "notified"]
  PROVE  /\ awake' = awake + 1 /\ sleeping' = sleeping - 1 /\ running' = running
         /\ In("lost")' = {} => In("lost") = {}
<1>1. /\ awake' = Moved(awake, "notified" \in AwakeStates, wpc[w] \in AwakeStates)
      /\ sleeping' = Moved(sleeping, "notified" = "waiting", wpc[w] = "waiting")
      /\ running' = Moved(running, "notified" = "running", wpc[w] = "running")
      /\ wpc[w] # "lost" /\ In("lost")' = {} => In("lost") = {}
  BY OneMoves DEF WorkerStates
<1> QED BY <1>1 DEF Moved, AwakeStates

LEMMA StartsTask ==
  ASSUME TypeOK, NEW w \in Workers, wpc[w] \in AwakeStates,
         wpc' = [wpc EXCEPT ![w] = "running"]
  PROVE  /\ awake' = awake - 1 /\ sleeping' = sleeping /\ running' = running + 1
         /\ In("lost")' = {} => In("lost") = {}
<1>1. /\ awake' = Moved(awake, "running" \in AwakeStates, wpc[w] \in AwakeStates)
      /\ sleeping' = Moved(sleeping, "running" = "waiting", wpc[w] = "waiting")
      /\ running' = Moved(running, "running" = "running", wpc[w] = "running")
      /\ wpc[w] # "lost" /\ In("lost")' = {} => In("lost") = {}
  BY OneMoves DEF WorkerStates
<1> QED BY <1>1 DEF Moved, AwakeStates

LEMMA Leaves ==
  ASSUME TypeOK, NEW w \in Workers, wpc[w] \in AwakeStates,
         wpc' = [wpc EXCEPT ![w] = "absent"]
  PROVE  /\ awake' = awake - 1 /\ sleeping' = sleeping /\ running' = running
         /\ In("lost")' = {} => In("lost") = {}
<1>1. /\ awake' = Moved(awake, "absent" \in AwakeStates, wpc[w] \in AwakeStates)
      /\ sleeping' = Moved(sleeping, "absent" = "waiting", wpc[w] = "waiting")
      /\ running' = Moved(running, "absent" = "running", wpc[w] = "running")
      /\ wpc[w] # "lost" /\ In("lost")' = {} => In("lost") = {}
  BY OneMoves DEF WorkerStates
<1> QED BY <1>1 DEF Moved, AwakeStates

LEMMA EndsTask ==
  ASSUME TypeOK, NEW w \in Workers, wpc[w] = "running", NEW x \in AwakeStates,
         wpc' = [wpc EXCEPT ![w] = x]
  PROVE  /\ awake' = awake + 1 /\ sleeping' = sleeping /\ running' = running - 1
         /\ In("lost")' = {} => In("lost") = {}
<1>1. x \in WorkerStates
  BY DEF WorkerStates, AwakeStates
<1>2. /\ awake' = Moved(awake, x \in AwakeStates, wpc[w] \in AwakeStates)
      /\ sleeping' = Moved(sleeping, x = "waiting", wpc[w] = "waiting")
      /\ running' = Moved(running, x = "running", wpc[w] = "running")
      /\ wpc[w] # "lost" /\ In("lost")' = {} => In("lost") = {}
  BY <1>1, OneMoves
<1> QED BY <1>1, <1>2 DEF Moved, AwakeStates

(* After a broadcast nobody sleeps. *)
LEMMA BroadcastWakesAll ==
  ASSUME TypeOK, wpc' = DataNotifyAll
  PROVE  In("waiting")' = {}
BY DEF TypeOK, DataNotifyAll, NotifyAll, In

(* The numbers depend on the control states of the workers alone. *)
LEMMA CountsFollowWpc ==
  ASSUME UNCHANGED wpc
  PROVE  UNCHANGED <<awake, sleeping, running, In("lost"), In("waiting")>>
BY DEF awake, sleeping, running, Awake, In

LEMMA StepKeepsAwakeWorkers ==
  ASSUME TypeOK, WorkerAccounting, AwakeWorkerPerTask, [Next]_vars
  PROVE  AwakeWorkerPerTask'
<1> SUFFICES ASSUME In("lost")' = {}, In("waiting")' # {}
             PROVE  /\ Len(itsQueue') <= awake'
                    /\ Len(itsQueue') + sleeping' + running' <= itsTargetWorkerCount'
  BY DEF AwakeWorkerPerTask, awake, sleeping, running
<1> DEFINE Goal == /\ Len(itsQueue') <= awake'
                   /\ Len(itsQueue') + sleeping' + running' <= itsTargetWorkerCount'
<1>0. /\ awake \in Nat /\ sleeping \in Nat /\ running \in Nat
      /\ itsWorkerCount \in Nat /\ itsTargetWorkerCount \in Nat
      /\ itsQueue \in Seq(Tasks) /\ Len(itsQueue) \in Nat
  BY CountsAreNumbers DEF TypeOK
<1>i. ASSUME In("lost") = {}, In("waiting") # {}
      PROVE  /\ Len(itsQueue) <= awake
             /\ Len(itsQueue) + sleeping + running <= itsTargetWorkerCount
             /\ itsWorkerCount = awake + sleeping + running
  BY <1>i, WorkersCounted DEF AwakeWorkerPerTask, awake, sleeping, running
<1>b. wpc' # DataNotifyAll
  BY BroadcastWakesAll
<1>u. ASSUME UNCHANGED <<wpc, itsQueue, itsTargetWorkerCount>> PROVE Goal
  BY <1>u, <1>0, <1>i, CountsFollowWpc
<1>1. ASSUME NEW c \in Clients, Start(c) PROVE Goal
  <2>1. /\ awake' = awake + itsTargetWorkerCount
        /\ sleeping' = sleeping /\ running' = running
        /\ In("lost")' = In("lost") /\ In("waiting")' = In("waiting")
    BY <1>0, <1>1, AddedWorkers DEF Start, awake, sleeping, running
  <2> QED BY <1>0, <1>1, <1>i, <2>1 DEF Start
<1>2. ASSUME NEW c \in Clients, NEW t \in Tasks, Schedule(c, t) PROVE Goal
  <2>1. Len(itsQueue') = Len(itsQueue) + 1 /\ itsTargetWorkerCount' = itsTargetWorkerCount
    BY <1>0, <1>2 DEF Schedule, counters
  <2>2. PICK p \in DOMAIN wpc : wpc[p] = "waiting" /\ wpc' = [wpc EXCEPT ![p] = "notified"]
    <3>1. In("waiting") # {} /\ DOMAIN wpc = Workers
      <4>1. CASE wpc' = wpc
        BY <4>1, CountsFollowWpc DEF TypeOK
      <4>2. CASE wpc' # wpc
        BY <4>2, <1>2 DEF Schedule, DataNotify, NotifyOne, In, TypeOK
      <4> QED BY <4>1, <4>2
    <3> QED BY <1>2, <3>1 DEF Schedule, DataNotify, NotifyOne, In
  <2>3. /\ awake' = awake + 1 /\ sleeping' = sleeping - 1 /\ running' = running
        /\ In("lost") = {} /\ In("waiting") # {}
    <3>1. p \in Workers /\ "notified" \in WorkerStates /\ p \in In("waiting")
      BY <2>2 DEF TypeOK, WorkerStates, In
    <3> QED BY <2>2, <3>1, WakesUp
  <2> QED BY <1>0, <1>i, <2>1, <2>3
<1>3. ASSUME NEW c \in Clients, NEW n \in Sizes, Resize(c, n) PROVE Goal
  <2>1. n \in Nat /\ ~(n < itsWorkerCount)
    BY <1>3, <1>b DEF Resize
  <2>2. n - itsWorkerCount \in Nat /\ AddWorkers(n - itsWorkerCount)
    BY <1>0, <1>3, <2>1 DEF Resize
  <2>3. /\ awake' = awake + (n - itsWorkerCount)
        /\ sleeping' = sleeping /\ running' = running
        /\ In("lost")' = In("lost") /\ In("waiting")' = In("waiting")
    BY <2>2, AddedWorkers DEF awake, sleeping, running
  <2> QED BY <1>0, <1>3, <1>i, <2>1, <2>3 DEF Resize
<1>4. ASSUME NEW w \in Workers, GiveUp(w) PROVE Goal
  <2>1. /\ awake' = awake /\ sleeping' = sleeping /\ running' = running
        /\ In("lost") = {}
    <3>1. /\ wpc[w] \in AwakeStates /\ "dying" \in AwakeStates
          /\ wpc' = [wpc EXCEPT ![w] = "dying"]
      BY <1>4 DEF GiveUp, AwakeStates
    <3> QED BY <3>1, StaysAwake
  <2>2. In("waiting") # {}
    BY <1>4 DEF GiveUp, In, TypeOK
  <2> QED BY <1>0, <1>4, <1>i, <2>1, <2>2 DEF GiveUp, counters
<1>5. ASSUME NEW w \in Workers, WaitForData(w) PROVE Goal
  <2>1. Len(itsQueue') = 0 /\ itsTargetWorkerCount' = itsTargetWorkerCount
        /\ itsTargetWorkerCount >= itsWorkerCount
    BY <1>5 DEF WaitForData, counters
  <2>2. /\ awake' + sleeping' + running' = awake + sleeping + running
        /\ In("lost") = {}
    <3>0. wpc[w] \in AwakeStates /\ "notified" \in AwakeStates
      BY <1>5 DEF WaitForData, AwakeStates
    <3>1. CASE w \in interrupted
      <4>1. wpc' = [wpc EXCEPT ![w] = "notified"]
        BY <1>5, <3>1 DEF WaitForData
      <4> QED BY <3>0, <4>1, StaysAwake
    <3>2. CASE w \notin interrupted
      <4>1. wpc' = [wpc EXCEPT ![w] = "waiting"]
        BY <1>5, <3>2 DEF WaitForData
      <4>2. /\ awake' = awake - 1 /\ sleeping' = sleeping + 1 /\ running' = running
            /\ In("lost") = {}
        BY <3>0, <4>1, FallsAsleep
      <4> QED BY <1>0, <4>2
    <3> QED BY <3>1, <3>2
  <2>3. awake' \in Nat /\ sleeping' \in Nat /\ running' \in Nat
    <3>1. wpc' \in [Workers -> WorkerStates]
      BY <1>5 DEF TypeOK, WaitForData, WorkerStates
    <3> QED BY WorkersFinite DEF awake, sleeping, running, Awake, In
  <2>4. itsWorkerCount = awake + sleeping + running
    BY <2>2, WorkersCounted
  <2>5. Len(itsQueue') <= awake'
    BY <2>1, <2>3
  <2>6. 0 + sleeping' + running' <= itsTargetWorkerCount
    <3>1. \A m, n, p, count, target \in Nat :
            count = m + n + p /\ target >= count => 0 + n + p <= target
      OBVIOUS
    <3>2. itsWorkerCount = awake' + sleeping' + running'
      BY <2>2, <2>4
    <3> QED BY <1>0, <2>1, <2>3, <3>1, <3>2
  <2> QED BY <2>1, <2>5, <2>6
<1>6. ASSUME NEW w \in Workers, TakeTask(w) PROVE Goal
  <2>1. Len(itsQueue') = Len(itsQueue) - 1 /\ itsTargetWorkerCount' = itsTargetWorkerCount
    BY <1>0, <1>6 DEF TakeTask, Popped, counters
  <2>2. /\ awake' = awake - 1 /\ sleeping' = sleeping /\ running' = running + 1
        /\ In("lost") = {}
    <3>1. wpc[w] \in AwakeStates /\ wpc' = [wpc EXCEPT ![w] = "running"]
      BY <1>6 DEF TakeTask, AwakeStates
    <3> QED BY <3>1, StartsTask
  <2>3. In("waiting") # {}
    BY <1>6 DEF TakeTask, In, TypeOK
  <2> QED BY <1>0, <1>i, <2>1, <2>2, <2>3
<1>7. ASSUME NEW w \in Workers, InterruptedWait(w) PROVE Goal
  BY <1>7 DEF InterruptedWait, TypeOK, In
<1>8. ASSUME NEW w \in Workers, FinishTask(w) PROVE Goal
  <2>1. PICK next \in {"top", "dying"} : wpc' = [wpc EXCEPT ![w] = next]
    BY <1>8 DEF FinishTask
  <2>2. /\ awake' = awake + 1 /\ sleeping' = sleeping /\ running' = running - 1
        /\ In("lost") = {}
    BY <1>8, <2>1, EndsTask DEF FinishTask, AwakeStates
  <2>3. In("waiting") # {}
    BY <1>8, <2>1 DEF FinishTask, In, TypeOK
  <2> QED BY <1>0, <1>8, <1>i, <2>2, <2>3 DEF FinishTask, counters
<1>9. ASSUME NEW w \in Workers, WorkerDied(w) PROVE Goal
  <2>0. itsQueue' = itsQueue /\ itsTargetWorkerCount' = itsTargetWorkerCount
    BY <1>9 DEF WorkerDied
  <2>1. In("waiting") # {}
    BY <1>9 DEF WorkerDied, In, TypeOK
  <2>2. CASE Replaced
    <3>1. /\ awake' = awake /\ sleeping' = sleeping /\ running' = running
          /\ In("lost") = {}
      BY <1>9, <2>2, StaysAwake DEF WorkerDied, AwakeStates
    <3> QED BY <1>0, <1>i, <2>0, <2>1, <3>1
  <2>3. CASE ~Replaced
    <3>1. /\ awake' = awake - 1 /\ sleeping' = sleeping /\ running' = running
          /\ In("lost") = {}
      BY <1>9, <2>3, Leaves DEF WorkerDied, AwakeStates
    <3> QED BY <1>0, <1>i, <2>0, <2>1, <2>3, <3>1 DEF Replaced
  <2> QED BY <2>2, <2>3
<1>10. ASSUME SpuriousWakeup PROVE Goal
  <2>1. CASE UNCHANGED wpc
    BY <1>10, <1>u, <2>1 DEF SpuriousWakeup, counters
  <2>2. CASE wpc' # wpc
    <3>1. PICK w \in In("waiting") : wpc' = [wpc EXCEPT ![w] = "notified"]
      BY <1>10, <2>2 DEF SpuriousWakeup
    <3>2. /\ awake' = awake + 1 /\ sleeping' = sleeping - 1 /\ running' = running
          /\ In("lost") = {} /\ In("waiting") # {}
      BY <3>1, WakesUp DEF In
    <3> QED BY <1>0, <1>10, <1>i, <3>2 DEF SpuriousWakeup, counters
  <2> QED BY <2>1, <2>2
<1>11. ASSUME NEW c \in Clients, NEW w \in Workers, ShutdownInterrupts(c, w) PROVE Goal
  BY <1>11, <1>b, <1>u DEF ShutdownInterrupts, counters
<1>12. ASSUME NEW c \in Clients,
              \/ SetGracefulShutdown(c) \/ Join(c) \/ JoinReturn(c)
              \/ ShutdownWakes(c) \/ ShutdownTimesOut(c) \/ ShutdownJoined(c)
       PROVE  Goal
  BY <1>12, <1>u DEF SetGracefulShutdown, Join, JoinReturn, ShutdownWakes, ShutdownTimesOut,
                     ShutdownJoined, counters
<1>13. ASSUME NEW c \in Clients, NEW b \in Timeouts, Shutdown(c, b) PROVE Goal
  BY <1>13, <1>b DEF Shutdown
<1>14. ASSUME UNCHANGED vars PROVE Goal
  BY <1>14, <1>u DEF vars, counters
<1> HIDE DEF Goal
<1>15. ASSUME NEW c \in Clients, ClientCall(c) PROVE Goal
  BY <1>1, <1>2, <1>3, <1>12, <1>13, <1>15 DEF ClientCall
<1>16. ASSUME NEW c \in Clients, ClientContinues(c) PROVE Goal
  BY <1>11, <1>12, <1>16 DEF ClientContinues
<1>17. ASSUME NEW w \in Workers, WorkerStep(w) PROVE Goal
  BY <1>4, <1>5, <1>6, <1>7, <1>8, <1>9, <1>17 DEF WorkerStep
<1>18. Goal
  BY <1>10, <1>14, <1>15, <1>16, <1>17 DEF Next
<1> QED BY <1>18 DEF Goal

(* Each queued task beside a sleeping worker has an awake worker of its own, in
   every behaviour: schedule() 380-393 wakes one worker per task and resize()
   405-428 may make any of the woken ones die, and still none is missing.        *)
THEOREM AwakeWorkers == Spec => []AwakeWorkerPerTask
<1>1. Init => AwakeWorkerPerTask
  BY DEF Init, AwakeWorkerPerTask, In
<1>2. TypeOK /\ WorkerAccounting /\ AwakeWorkerPerTask /\ [Next]_vars => AwakeWorkerPerTask'
  BY StepKeepsAwakeWorkers
<1> QED BY <1>1, <1>2, TypeCorrect, PTL DEF Spec

(* No wakeup is lost: while a worker sleeps beside a queued task another one is
   awake and will look at the queue (executeOne() 498-556).                      *)
THEOREM NoTaskForgotten == Spec => []NoForgottenTask
<1>1. TypeOK /\ AwakeWorkerPerTask => NoForgottenTask
  <2> SUFFICES ASSUME TypeOK, AwakeWorkerPerTask, In("lost") = {}, In("waiting") # {},
                      itsQueue # << >>, Awake = {}
               PROVE  FALSE
    BY DEF NoForgottenTask
  <2>1. Len(itsQueue) \in Nat \ {0}
    BY DEF TypeOK
  <2>2. Cardinality(Awake) = 0
    BY FS_EmptySet
  <2> QED BY <2>1, <2>2 DEF AwakeWorkerPerTask
<1> QED BY <1>1, TypeCorrect, AwakeWorkers, PTL

-----------------------------------------------------------------------------
(* The queue after the task at its head has been popped. *)
LEMMA PoppedQueue ==
  ASSUME NEW q \in Seq(Tasks), q # << >>
  PROVE  /\ Len(Tail(q)) = Len(q) - 1 /\ Len(q) \in Nat \ {0}
         /\ \A i \in DOMAIN Tail(q) : i + 1 \in DOMAIN q /\ Tail(q)[i] = q[i + 1]
         /\ 1 \in DOMAIN q /\ Head(q) = q[1]
OBVIOUS

LEMMA StepKeepsTasksApart ==
  ASSUME TypeOK, WorkerAccounting, TaskIsInOnePlace, [Next]_vars
  PROVE  TaskIsInOnePlace'
<1> DEFINE Goal == TaskIsInOnePlace'
<1>0. /\ itsQueue \in Seq(Tasks)
      /\ \A i, j \in DOMAIN itsQueue : itsQueue[i] = itsQueue[j] => i = j
      /\ \A i \in DOMAIN itsQueue : \A w \in In("running") : itsQueue[i] # task[w]
      /\ \A w, v \in In("running") : task[w] = task[v] => w = v
  BY DEF TypeOK, TaskIsInOnePlace, Pending, Running
<1>g. ASSUME \A i, j \in DOMAIN itsQueue' : itsQueue'[i] = itsQueue'[j] => i = j,
             \A i \in DOMAIN itsQueue' : \A w \in In("running")' : itsQueue'[i] # task'[w],
             \A w, v \in In("running")' : task'[w] = task'[v] => w = v
      PROVE  Goal
  BY <1>g DEF TaskIsInOnePlace, Pending, Running
<1>u. ASSUME UNCHANGED <<itsQueue, task>>, In("running")' = In("running") PROVE Goal
  BY <1>u, <1>0, <1>g
<1> HIDE DEF Goal
<1>w. ASSUME UNCHANGED <<itsQueue, task>>,
             wpc' = DataNotifyAll \/ wpc' \in DataNotify \/ wpc' = wpc
      PROVE  Goal
  <2>1. OnlyWakes(wpc')
    BY <1>w, NotificationsOnlyWake DEF TypeOK
  <2> QED BY <1>u, <1>w, <2>1, WakingKeepsWorkers
<1>m. ASSUME UNCHANGED <<itsQueue, task>>, NEW w \in Workers, NEW x, wpc[w] # "running",
             x # "running", wpc' = [wpc EXCEPT ![w] = x]
      PROVE  Goal
  <2>1. In("running")' = In("running")
    BY <1>m DEF TypeOK, In
  <2> QED BY <1>u, <1>m, <2>1
<1>1. ASSUME NEW c \in Clients, Start(c) PROVE Goal
  <2>1. AddWorkers(itsTargetWorkerCount) /\ itsTargetWorkerCount \in Nat
    BY <1>1 DEF Start, TypeOK
  <2> QED BY <1>1, <1>u, <2>1, AddedWorkers DEF Start
<1>2. ASSUME NEW c \in Clients, NEW t \in Tasks, Schedule(c, t) PROVE Goal
  <2>1. OnlyWakes(wpc')
    BY <1>2, NotificationsOnlyWake DEF Schedule, TypeOK
  <2>2. In("running")' = In("running") /\ task' = task /\ itsQueue' = Append(itsQueue, t)
    BY <1>2, <2>1, WakingKeepsWorkers DEF Schedule
  <2>3. /\ \A i \in DOMAIN itsQueue : itsQueue[i] # t
        /\ \A w \in In("running") : task[w] # t
    BY <1>2 DEF Schedule, Pending, Running
  <2>4. /\ DOMAIN itsQueue' = DOMAIN itsQueue \cup {Len(itsQueue) + 1}
        /\ Len(itsQueue) + 1 \notin DOMAIN itsQueue
        /\ itsQueue'[Len(itsQueue) + 1] = t
        /\ \A i \in DOMAIN itsQueue : itsQueue'[i] = itsQueue[i]
    BY <1>0, <2>2
  <2> QED BY <1>0, <1>g, <2>2, <2>3, <2>4
<1>3. ASSUME NEW c \in Clients, NEW n \in Sizes, Resize(c, n) PROVE Goal
  <2>1. CASE n < itsWorkerCount
    BY <1>3, <1>w, <2>1 DEF Resize
  <2>2. CASE ~(n < itsWorkerCount)
    <3>1. n - itsWorkerCount \in Nat /\ AddWorkers(n - itsWorkerCount)
      BY <1>3, <2>2 DEF Resize, TypeOK
    <3> QED BY <1>3, <1>u, <3>1, AddedWorkers DEF Resize
  <2> QED BY <2>1, <2>2
<1>4. ASSUME NEW w \in Workers, GiveUp(w) PROVE Goal
  <2>1. wpc[w] # "running" /\ "dying" # "running" /\ wpc' = [wpc EXCEPT ![w] = "dying"]
    BY <1>4 DEF GiveUp
  <2> QED BY <1>4, <1>m, <2>1 DEF GiveUp
<1>5. ASSUME NEW w \in Workers, WaitForData(w) PROVE Goal
  <2>1. PICK x \in {"notified", "waiting"} : wpc' = [wpc EXCEPT ![w] = x]
    BY <1>5 DEF WaitForData
  <2>2. wpc[w] # "running" /\ x # "running"
    BY <1>5 DEF WaitForData
  <2> QED BY <1>5, <1>m, <2>1, <2>2 DEF WaitForData
<1>6. ASSUME NEW w \in Workers, TakeTask(w) PROVE Goal
  <2>1. /\ itsQueue # << >> /\ itsQueue' = Tail(itsQueue)
        /\ task' = [task EXCEPT ![w] = Head(itsQueue)]
        /\ wpc' = [wpc EXCEPT ![w] = "running"]
        /\ wpc[w] # "running"
    BY <1>6 DEF TakeTask, Popped
  <2>2. In("running")' = In("running") \cup {w} /\ w \notin In("running")
    BY <2>1 DEF TypeOK, In
  <2>3. /\ task'[w] = itsQueue[1] /\ 1 \in DOMAIN itsQueue
        /\ \A v \in In("running") : task'[v] = task[v]
    BY <1>0, <2>1, <2>2, PoppedQueue DEF TypeOK, In
  <2>4. \A i \in DOMAIN itsQueue' :
          i + 1 \in DOMAIN itsQueue /\ itsQueue'[i] = itsQueue[i + 1] /\ i \in Nat \ {0}
    BY <1>0, <2>1, PoppedQueue
  <2>5. \A i, j \in DOMAIN itsQueue' : itsQueue'[i] = itsQueue'[j] => i = j
    BY <1>0, <2>4
  <2>6. \A i \in DOMAIN itsQueue' : \A v \in In("running")' : itsQueue'[i] # task'[v]
    <3> SUFFICES ASSUME NEW i \in DOMAIN itsQueue', NEW v \in In("running")'
                 PROVE  itsQueue'[i] # task'[v]
      OBVIOUS
    <3>1. CASE v = w
      BY <1>0, <2>3, <2>4, <3>1
    <3>2. CASE v # w
      BY <1>0, <2>2, <2>3, <2>4, <3>2
    <3> QED BY <3>1, <3>2
  <2>7. \A u, v \in In("running")' : task'[u] = task'[v] => u = v
    BY <1>0, <2>2, <2>3
  <2> QED BY <1>g, <2>5, <2>6, <2>7
<1>7. ASSUME NEW w \in Workers, InterruptedWait(w) PROVE Goal
  <2>1. wpc[w] # "running" /\ "lost" # "running" /\ wpc' = [wpc EXCEPT ![w] = "lost"]
    BY <1>7 DEF InterruptedWait
  <2> QED BY <1>7, <1>m, <2>1 DEF InterruptedWait
<1>8. ASSUME NEW w \in Workers, FinishTask(w) PROVE Goal
  <2>1. In("running")' = In("running") \ {w}
    BY <1>8 DEF FinishTask, TypeOK, In
  <2>2. itsQueue' = itsQueue /\ \A v \in In("running")' : task'[v] = task[v]
    BY <1>8, <2>1 DEF FinishTask, TypeOK, In
  <2> QED BY <1>0, <1>g, <2>1, <2>2
<1>9. ASSUME NEW w \in Workers, WorkerDied(w) PROVE Goal
  <2>1. PICK x \in {"top", "absent"} : wpc' = [wpc EXCEPT ![w] = x]
    BY <1>9 DEF WorkerDied
  <2>2. wpc[w] # "running" /\ x # "running"
    BY <1>9 DEF WorkerDied
  <2> QED BY <1>9, <1>m, <2>1, <2>2 DEF WorkerDied
<1>10. ASSUME SpuriousWakeup PROVE Goal
  <2>1. OnlyWakes(wpc')
    BY <1>10 DEF SpuriousWakeup, OnlyWakes, TypeOK, WorkerStates, In
  <2> QED BY <1>10, <1>u, <2>1, WakingKeepsWorkers DEF SpuriousWakeup
<1>11. ASSUME NEW c \in Clients, NEW w \in Workers, ShutdownInterrupts(c, w) PROVE Goal
  BY <1>11, <1>w DEF ShutdownInterrupts
<1>12. ASSUME NEW c \in Clients,
              \/ SetGracefulShutdown(c) \/ Join(c) \/ JoinReturn(c)
              \/ ShutdownWakes(c) \/ ShutdownTimesOut(c) \/ ShutdownJoined(c)
       PROVE  Goal
  BY <1>12, <1>w DEF SetGracefulShutdown, Join, JoinReturn, ShutdownWakes, ShutdownTimesOut,
                     ShutdownJoined
<1>13. ASSUME NEW c \in Clients, NEW b \in Timeouts, Shutdown(c, b) PROVE Goal
  BY <1>13, <1>w DEF Shutdown
<1>14. ASSUME UNCHANGED vars PROVE Goal
  BY <1>14, <1>w DEF vars
<1>15. ASSUME NEW c \in Clients, ClientCall(c) PROVE Goal
  BY <1>1, <1>2, <1>3, <1>12, <1>13, <1>15 DEF ClientCall
<1>16. ASSUME NEW c \in Clients, ClientContinues(c) PROVE Goal
  BY <1>11, <1>12, <1>16 DEF ClientContinues
<1>17. ASSUME NEW w \in Workers, WorkerStep(w) PROVE Goal
  BY <1>4, <1>5, <1>6, <1>7, <1>8, <1>9, <1>17 DEF WorkerStep
<1>18. Goal
  BY <1>10, <1>14, <1>15, <1>16, <1>17 DEF Next
<1> QED BY <1>18 DEF Goal

(* A task is queued once or runs on one worker, never both and never twice, in
   every behaviour: it is popped under the mutex and run without it (533-540).  *)
THEOREM TasksApart == Spec => []TaskIsInOnePlace
<1>1. Init => TaskIsInOnePlace
  BY DEF Init, TaskIsInOnePlace, Pending, Running, In
<1>2. TypeOK /\ WorkerAccounting /\ TaskIsInOnePlace /\ [Next]_vars => TaskIsInOnePlace'
  BY StepKeepsTasksApart
<1> QED BY <1>1, <1>2, TypeCorrect, PTL DEF Spec

-----------------------------------------------------------------------------
(* The pool as an implementation of BoundedFifo *)

(* The tasks that run are the items that workers have taken. *)
LEMMA TakenAreRunning ==
  ASSUME TypeOK
  PROVE  Fifo!InFifo = Pending /\ Fifo!Taken = Running
<1>1. Fifo!InFifo = Pending
  BY DEF Fifo!InFifo, Pending
<1>2. ASSUME NEW t PROVE t \in Fifo!Taken <=> t \in Running
  BY DEF Fifo!Taken, Running, In, TypeOK
<1> QED BY <1>1, <1>2

(* Steps of clients, but for schedule(), neither accept nor begin a task. *)
LEMMA ClientsKeepTasks ==
  ASSUME NEW c \in Clients, ClientCall(c) \/ ClientContinues(c)
  PROVE  UNCHANGED Fifo!fifoVars \/ \E t \in Tasks : Schedule(c, t)
<1> USE DEF Fifo!fifoVars
<1>1. ASSUME \/ Start(c) \/ SetGracefulShutdown(c) \/ Join(c)
             \/ \E n \in Sizes : Resize(c, n)
             \/ \E withDeadline \in Timeouts : Shutdown(c, withDeadline)
      PROVE  UNCHANGED Fifo!fifoVars
  BY <1>1 DEF Start, SetGracefulShutdown, Join, Resize, Shutdown
<1>2. ASSUME ClientContinues(c) PROVE UNCHANGED Fifo!fifoVars
  BY <1>2 DEF ClientContinues, JoinReturn, ShutdownWakes, ShutdownTimesOut,
              ShutdownInterrupts, ShutdownJoined
<1> QED BY <1>1, <1>2 DEF ClientCall

(* Tasks are begun in the order they were accepted, each by one worker, and none is
   dropped: in every behaviour, with any number of workers that sleep, give up, die of
   an interrupt or a throwing task, and are replaced (ThreadPool.h:183-210, 498-556).    *)
THEOREM Implementation == Spec => ImplementsFifo
<1>1. Init => Fifo!FifoInit
  BY DEF Init, Fifo!FifoInit
<1>2. TypeOK /\ [Next]_vars => [Fifo!FifoNext]_Fifo!fifoVars
  <2> SUFFICES ASSUME TypeOK, [Next]_vars PROVE [Fifo!FifoNext]_Fifo!fifoVars
    OBVIOUS
  <2>1. ASSUME NEW c \in Clients, NEW t \in Tasks, Schedule(c, t) PROVE Fifo!FifoNext
    <3>1. Fifo!Put(t)
      BY <2>1, TakenAreRunning DEF Schedule, HasRoom, Fifo!Put
    <3> QED BY <3>1 DEF Fifo!FifoNext
  <2>2. ASSUME NEW w \in Workers, TakeTask(w) PROVE Fifo!FifoNext
    <3>1. task[w] = NoTask
      BY <2>2 DEF TypeOK, TakeTask
    <3>2. Fifo!Take(w)
      BY <2>2, <3>1 DEF TakeTask, Popped, Fifo!Take
    <3> QED BY <3>2 DEF Fifo!FifoNext
  <2>3. ASSUME NEW w \in Workers, FinishTask(w) PROVE Fifo!FifoNext
    <3>1. task[w] # NoTask
      BY <2>3 DEF TypeOK, FinishTask
    <3>2. Fifo!Finish(w)
      BY <2>3, <3>1 DEF FinishTask, Fifo!Finish
    <3> QED BY <3>2 DEF Fifo!FifoNext
  <2>4. ASSUME NEW w \in Workers,
               GiveUp(w) \/ WaitForData(w) \/ InterruptedWait(w) \/ WorkerDied(w)
        PROVE  UNCHANGED Fifo!fifoVars
    BY <2>4 DEF GiveUp, WaitForData, InterruptedWait, WorkerDied, Fifo!fifoVars
  <2>5. ASSUME SpuriousWakeup \/ UNCHANGED vars PROVE UNCHANGED Fifo!fifoVars
    BY <2>5 DEF SpuriousWakeup, vars, Fifo!fifoVars
  <2> QED BY <2>1, <2>2, <2>3, <2>4, <2>5, ClientsKeepTasks DEF Next, WorkerStep
<1> QED BY <1>1, <1>2, TypeCorrect, PTL DEF Spec, ImplementsFifo, Fifo!FifoSpec
-----------------------------------------------------------------------------
(* shutdown() of a pool that nobody refills (MCThreadPool) *)

(* Once the target is lowered to nothing it stays there, and no thread is begun any more:
   a shutdown() that interrupts still joins every thread there is.                       *)
InShutdown(c) == cpc[c] \in {"deathWait", "deathWoken", "interrupting"}

Stopped(c) ==
  /\ InShutdown(c) => itsTargetWorkerCount = 0
  /\ cpc[c] = "interrupting" => Threads \subseteq toJoin[c]

StopInv == usage = "stopping" => \A c \in Clients : Stopped(c)

(* A wait of the client has been notified, or nothing has happened to it. *)
OnlyWoken(c) ==
  \/ cpc'[c] = cpc[c]
  \/ cpc[c] = "joinWait" /\ cpc'[c] = "joinWoken"
  \/ cpc[c] = "deathWait" /\ cpc'[c] = "deathWoken"

(* The threads that go on stay in its snapshot. *)
KeepsSnapshot(c) == toJoin[c] \cap Threads' \subseteq toJoin'[c]

LEMMA ClientsOnlyWoken ==
  ASSUME NEW q \in [Clients -> ClientStates], NEW c \in Clients,
         NEW r \in AllIdleNotify(q) \cup NotifyOne(q, "deathWait", "deathWoken")
  PROVE  \/ r[c] = q[c]
         \/ q[c] = "joinWait" /\ r[c] = "joinWoken"
         \/ q[c] = "deathWait" /\ r[c] = "deathWoken"
BY DEF AllIdleNotify, NotifyOne

(* No workers, no threads. *)
LEMMA NoWorkersNoThreads ==
  ASSUME WorkerAccounting, itsWorkerCount = 0
  PROVE  itsWorkers = {} /\ Threads = {}
<1>1. IsFiniteSet(itsWorkers) /\ Cardinality(itsWorkers) = 0
  BY WorkersFinite DEF itsWorkers, WorkerAccounting
<1>2. itsWorkers = {}
  BY <1>1, FS_EmptySet
<1> QED BY <1>2 DEF Threads

(* With a target of nothing threads only end: the pool is not refilled, a resize() can
   only be another reduction, and no worker that dies is replaced.                     *)
LEMMA ThreadsOnlyEnd ==
  ASSUME TypeOK, WorkerAccounting, Next, itsTargetWorkerCount = 0, itsTargetWorkerCount' = 0
  PROVE  Threads' \subseteq Threads
<1>w. ASSUME OnlyWakes(wpc') PROVE Threads' \subseteq Threads
  BY <1>w, WakingKeepsWorkers DEF Threads
<1>n. OnlyWakes(DataNotifyAll) /\ OnlyWakes(wpc) /\ \A p \in DataNotify : OnlyWakes(p)
  BY NotificationsOnlyWake DEF TypeOK
<1>1. ASSUME NEW c \in Clients, Start(c) PROVE Threads' \subseteq Threads
  <2>1. PICK new \in SUBSET In("absent") :
          Cardinality(new) = 0 /\ wpc' = [w \in Workers |-> IF w \in new THEN "top" ELSE wpc[w]]
    BY <1>1 DEF Start, AddWorkers
  <2>2. new = {}
    <3>1. new \in SUBSET Workers
      BY DEF In
    <3> QED BY <2>1, <3>1, WorkersFinite, FS_EmptySet
  <2>3. OnlyWakes(wpc')
    BY <2>1, <2>2 DEF OnlyWakes, TypeOK
  <2> QED BY <1>w, <2>3
<1>2. ASSUME NEW c \in Clients, NEW n \in Sizes, Resize(c, n) PROVE Threads' \subseteq Threads
  <2>1. n = 0 /\ itsWorkerCount # 0 /\ itsWorkerCount \in Nat
    BY <1>2 DEF Resize, TypeOK
  <2>2. wpc' = DataNotifyAll
    BY <1>2, <2>1 DEF Resize
  <2> QED BY <1>w, <1>n, <2>2
<1>3. ASSUME NEW c \in Clients, NEW t \in Tasks, Schedule(c, t) PROVE Threads' \subseteq Threads
  BY <1>w, <1>n, <1>3 DEF Schedule
<1>4. ASSUME NEW c \in Clients, NEW d \in Timeouts, Shutdown(c, d) PROVE Threads' \subseteq Threads
  BY <1>w, <1>n, <1>4 DEF Shutdown
<1>5. ASSUME NEW c \in Clients, NEW w \in Workers, ShutdownInterrupts(c, w)
      PROVE  Threads' \subseteq Threads
  BY <1>w, <1>n, <1>5 DEF ShutdownInterrupts
<1>6. ASSUME NEW c \in Clients,
             SetGracefulShutdown(c) \/ Join(c) \/ JoinReturn(c) \/ ShutdownWakes(c)
               \/ ShutdownTimesOut(c) \/ ShutdownJoined(c)
      PROVE  Threads' \subseteq Threads
  <2>1. wpc' = wpc
    BY <1>6 DEF SetGracefulShutdown, Join, JoinReturn, ShutdownWakes, ShutdownTimesOut,
                ShutdownJoined
  <2> QED BY <1>w, <1>n, <2>1
<1>7. CASE SpuriousWakeup
  <2>1. OnlyWakes(wpc')
    BY <1>7 DEF SpuriousWakeup, OnlyWakes, In, TypeOK, WorkerStates
  <2> QED BY <1>w, <2>1
<1>8. ASSUME NEW w \in Workers, WorkerStep(w) PROVE Threads' \subseteq Threads
  <2>1. /\ w \in Threads
        /\ wpc' = [wpc EXCEPT ![w] = wpc'[w]]
    <3>1. CASE WorkerDied(w)
      BY <3>1 DEF WorkerDied, TypeOK, Threads, itsWorkers, In
    <3>2. CASE GiveUp(w) \/ WaitForData(w) \/ TakeTask(w) \/ InterruptedWait(w) \/ FinishTask(w)
      BY <3>2 DEF GiveUp, WaitForData, TakeTask, InterruptedWait, FinishTask, TypeOK, Threads,
                  itsWorkers, In
    <3> QED BY <1>8, <3>1, <3>2 DEF WorkerStep
  <2>2. \A v \in Workers \ {w} : wpc'[v] = wpc[v]
    BY <2>1 DEF TypeOK
  <2> QED BY <2>1, <2>2 DEF Threads, itsWorkers, In
<1> QED BY <1>1, <1>2, <1>3, <1>4, <1>5, <1>6, <1>7, <1>8 DEF Next, ClientCall, ClientContinues

(* The steps of the workers, seen from a client. *)
LEMMA WorkersLeaveClients ==
  ASSUME TypeOK, WorkerAccounting, NEW w \in Workers, WorkerStep(w), NEW c \in Clients,
         InShutdown(c) => itsTargetWorkerCount = 0
  PROVE  OnlyWoken(c) /\ (InShutdown(c) => KeepsSnapshot(c))
<1>1. OnlyWoken(c)
  <2>1. cpc' = cpc \/ cpc' \in AllIdleNotify(cpc) \cup NotifyOne(cpc, "deathWait", "deathWoken")
    BY DEF WorkerStep, GiveUp, WaitForData, TakeTask, InterruptedWait, FinishTask, WorkerDied,
           DeathNotify, callers
  <2> QED BY <2>1, ClientsOnlyWoken DEF OnlyWoken, TypeOK
<1>2. ASSUME InShutdown(c) PROVE KeepsSnapshot(c)
  <2>1. CASE toJoin' = toJoin
    BY <2>1 DEF KeepsSnapshot
  <2>2. CASE WorkerDied(w)
    <3>1. w \in itsWorkers
      BY <2>2 DEF WorkerDied, itsWorkers, In
    <3>2. itsWorkerCount # 0 /\ itsWorkerCount \in Nat
      BY <1>2, <3>1, NoWorkersNoThreads DEF TypeOK
    <3>3. ~Replaced
      BY <1>2, <3>2 DEF Replaced
    <3>4. wpc'[w] = "absent" /\ toJoin'[c] = toJoin[c] \ {w}
      BY <2>2, <3>3 DEF WorkerDied, ThreadEnds, TypeOK
    <3> QED BY <3>4 DEF KeepsSnapshot, Threads, itsWorkers, In
  <2>3. CASE InterruptedWait(w)
    <3>1. wpc'[w] = "lost" /\ toJoin'[c] = toJoin[c] \ {w}
      BY <2>3 DEF InterruptedWait, ThreadEnds, TypeOK
    <3> QED BY <3>1 DEF KeepsSnapshot, Threads, In
  <2> QED BY <2>1, <2>2, <2>3 DEF WorkerStep, GiveUp, WaitForData, TakeTask, FinishTask, callers
<1> QED BY <1>1, <1>2

(* ... and those of the other clients. *)
LEMMA OthersLeaveClients ==
  ASSUME TypeOK, NEW d \in Clients, ClientCall(d) \/ ClientContinues(d), NEW c \in Clients, c # d
  PROVE  OnlyWoken(c) /\ KeepsSnapshot(c)
<1>1. ASSUME ShutdownReturns(d) PROVE OnlyWoken(c) /\ toJoin' = toJoin
  <2> DEFINE q == [cpc EXCEPT ![d] = "idle"]
  <2>1. q \in [Clients -> ClientStates] /\ q[c] = cpc[c]
    BY DEF TypeOK, ClientStates
  <2>2. cpc' \in AllIdleNotify(q) /\ toJoin' = toJoin
    BY <1>1 DEF ShutdownReturns
  <2> HIDE DEF q
  <2> QED BY <2>1, <2>2, ClientsOnlyWoken DEF OnlyWoken
<1>2. ASSUME ShutdownSnapshots(d, Threads) PROVE cpc'[c] = cpc[c] /\ toJoin'[c] = toJoin[c]
  BY <1>2 DEF ShutdownSnapshots, TypeOK
<1>3. CASE ClientCall(d) /\ ~\E t \in Timeouts : Shutdown(d, t)
  <2>1. cpc'[c] = cpc[c] /\ toJoin' = toJoin
    BY <1>3 DEF ClientCall, Start, SetGracefulShutdown, Schedule, Resize, Join, callers, TypeOK
  <2> QED BY <2>1 DEF OnlyWoken, KeepsSnapshot
<1>4. ASSUME NEW t \in Timeouts, Shutdown(d, t) PROVE OnlyWoken(c) /\ KeepsSnapshot(c)
  BY <1>1, <1>2, <1>4 DEF Shutdown, OnlyWoken, KeepsSnapshot, TypeOK
<1>5. CASE ClientContinues(d)
  BY <1>1, <1>2, <1>5 DEF ClientContinues, JoinReturn, ShutdownWakes, ShutdownTimesOut,
     ShutdownInterrupts, ShutdownJoined, OnlyWoken, KeepsSnapshot, TypeOK
<1> QED BY <1>3, <1>4, <1>5

(* What a client's own step does to it. *)
LEMMA OwnSteps ==
  ASSUME TypeOK, WorkerAccounting, NEW c \in Clients, ClientCall(c) \/ ClientContinues(c), Stopped(c)
  PROVE  /\ InShutdown(c)' => InShutdown(c) \/ itsTargetWorkerCount' = 0
         /\ cpc'[c] = "interrupting" =>
              \/ cpc[c] = "interrupting" /\ KeepsSnapshot(c)
              \/ Threads' \subseteq toJoin'[c]
         /\ InShutdown(c) /\ cpc'[c] = "idle" => Threads' = {}
<1>1. ASSUME ShutdownReturns(c) PROVE cpc'[c] = "idle"
  BY <1>1 DEF ShutdownReturns, AllIdleNotify, NotifyOne, TypeOK
<1>2. ASSUME ShutdownSnapshots(c, Threads) PROVE cpc'[c] = "interrupting" /\ toJoin'[c] = Threads
  BY <1>2 DEF ShutdownSnapshots, TypeOK
<1>3. CASE ClientCall(c) /\ ~\E t \in Timeouts : Shutdown(c, t)
  BY <1>3 DEF ClientCall, Start, SetGracefulShutdown, Schedule, Resize, Join, callers, TypeOK,
              InShutdown
<1>4. ASSUME NEW t \in Timeouts, Shutdown(c, t)
      PROVE  /\ itsTargetWorkerCount' = 0 /\ ~InShutdown(c)
             /\ cpc'[c] = "interrupting" => Threads' \subseteq toJoin'[c]
  <2>1. itsTargetWorkerCount' = 0 /\ ~InShutdown(c) /\ wpc' = DataNotifyAll
    BY <1>4 DEF Shutdown, InShutdown
  <2>2. Threads' = Threads
    BY <2>1, NotificationsOnlyWake, WakingKeepsWorkers DEF TypeOK, Threads
  <2>3. cpc'[c] = "interrupting" => ShutdownSnapshots(c, Threads)
    BY <1>1, <1>4 DEF Shutdown, TypeOK
  <2> QED BY <1>2, <2>1, <2>2, <2>3
<1>5. CASE JoinReturn(c)
  BY <1>5 DEF JoinReturn, InShutdown, TypeOK
<1>6. CASE ShutdownWakes(c) \/ ShutdownTimesOut(c)
  <2>1. /\ wpc' = wpc /\ UNCHANGED <<itsTargetWorkerCount, itsWorkerCount>>
        /\ InShutdown(c)
    BY <1>6 DEF ShutdownWakes, ShutdownTimesOut, counters, InShutdown
  <2>2. Threads' = Threads
    BY <2>1 DEF Threads, itsWorkers, In
  <2>3. \/ cpc'[c] = "deathWait"
        \/ itsWorkerCount = 0 /\ ShutdownReturns(c)
        \/ ShutdownSnapshots(c, Threads)
    BY <1>6 DEF ShutdownWakes, ShutdownTimesOut, TypeOK
  <2> QED BY <1>1, <1>2, <2>1, <2>2, <2>3, NoWorkersNoThreads
<1>7. ASSUME NEW w \in Workers, ShutdownInterrupts(c, w)
      PROVE  cpc' = cpc /\ cpc[c] = "interrupting" /\ toJoin' = toJoin
  BY <1>7 DEF ShutdownInterrupts
<1>8. CASE ShutdownJoined(c)
  <2>1. cpc[c] = "interrupting" /\ toJoin[c] = {} /\ wpc' = wpc /\ ShutdownReturns(c)
    BY <1>8 DEF ShutdownJoined, AllJoined
  <2>2. Threads = {} /\ Threads' = Threads
    BY <2>1 DEF Stopped, Threads, itsWorkers, In
  <2> QED BY <1>1, <2>1, <2>2 DEF InShutdown
<1> QED BY <1>3, <1>4, <1>5, <1>6, <1>7, <1>8 DEF ClientContinues, InShutdown, KeepsSnapshot

LEMMA StepKeepsStopped ==
  ASSUME TypeOK, WorkerAccounting, TypeOK', NEW c \in Clients, Stopped(c), Next,
         itsTargetWorkerCount' <= itsTargetWorkerCount
  PROVE  Stopped(c)' /\ (InShutdown(c) /\ cpc'[c] = "idle" => Threads' = {})
<1>1. itsTargetWorkerCount = 0 => itsTargetWorkerCount' = 0
  BY DEF TypeOK
<1>2. InShutdown(c) => itsTargetWorkerCount' = 0 /\ Threads' \subseteq Threads
  BY <1>1, ThreadsOnlyEnd DEF Stopped
<1>3. ASSUME OnlyWoken(c), InShutdown(c) => KeepsSnapshot(c)
      PROVE  Stopped(c)' /\ ~(InShutdown(c) /\ cpc'[c] = "idle")
  BY <1>2, <1>3 DEF OnlyWoken, Stopped, InShutdown, KeepsSnapshot
<1>4. ASSUME NEW w \in Workers, WorkerStep(w) PROVE OnlyWoken(c) /\ (InShutdown(c) => KeepsSnapshot(c))
  BY <1>4, WorkersLeaveClients DEF Stopped
<1>5. ASSUME NEW d \in Clients, ClientCall(d) \/ ClientContinues(d), d # c
      PROVE  OnlyWoken(c) /\ KeepsSnapshot(c)
  BY <1>5, OthersLeaveClients
<1>6. CASE SpuriousWakeup
  <2>1. OnlyWoken(c) /\ toJoin' = toJoin
    BY <1>6 DEF SpuriousWakeup, OnlyWoken, TypeOK
  <2> QED BY <1>3, <2>1 DEF KeepsSnapshot
<1>7. CASE ClientCall(c) \/ ClientContinues(c)
  <2>1. /\ InShutdown(c)' => InShutdown(c) \/ itsTargetWorkerCount' = 0
        /\ cpc'[c] = "interrupting" =>
             \/ cpc[c] = "interrupting" /\ KeepsSnapshot(c)
             \/ Threads' \subseteq toJoin'[c]
        /\ InShutdown(c) /\ cpc'[c] = "idle" => Threads' = {}
    BY <1>7, OwnSteps
  <2>2. cpc[c] = "interrupting" /\ KeepsSnapshot(c) => Threads' \subseteq toJoin'[c]
    BY <1>2 DEF Stopped, InShutdown, KeepsSnapshot
  <2> QED BY <1>2, <2>1, <2>2 DEF Stopped
<1> QED BY <1>3, <1>4, <1>5, <1>6, <1>7 DEF Next

(* When a shutdown() returns no worker thread is left, whichever way it went, drained or
   interrupted, and with any number of concurrent shutdowns, as long as nobody raises the
   target again (ThreadPool.h:279-332).                                                   *)
THEOREM StoppedPoolIsEmpty == MCSpec => StoppingLeavesNoThread
<1>1. MCInit => StopInv
  <2> SUFFICES ASSUME Init PROVE \A c \in Clients : cpc[c] = "idle"
    BY DEF MCInit, StopInv, Stopped, InShutdown
  <2> QED BY DEF Init
<1>2. MCSpec => Spec
  <2>1. [MCNext]_allVars => [Next]_vars
    BY DEF MCNext, allVars
  <2> QED BY <2>1, PTL DEF MCSpec, MCInit, Spec
<1>3. ASSUME TypeOK, WorkerAccounting, TypeOK', StopInv, MCNext
      PROVE  StopInv' /\ (usage = "stopping" => ReturnsWithoutThreads)
  <2> SUFFICES ASSUME usage = "stopping" PROVE StopInv' /\ ReturnsWithoutThreads
    BY <1>3 DEF MCNext, StopInv
  <2>1. Next /\ itsTargetWorkerCount' <= itsTargetWorkerCount
    BY <1>3 DEF MCNext, Allowed, Lowers
  <2>2. \A c \in Clients :
          Stopped(c)' /\ (InShutdown(c) /\ cpc'[c] = "idle" => Threads' = {})
    BY <1>3, <2>1, StepKeepsStopped DEF StopInv
  <2> QED BY <2>2 DEF StopInv, ReturnsWithoutThreads, InShutdown
<1>4. StopInv /\ UNCHANGED allVars => StopInv'
  BY DEF StopInv, Stopped, InShutdown, Threads, itsWorkers, In, allVars, vars, counters, callers
<1>5. TypeOK /\ WorkerAccounting /\ TypeOK' /\ StopInv /\ [MCNext]_allVars
        => StopInv' /\ [usage = "stopping" => ReturnsWithoutThreads]_allVars
  BY <1>3, <1>4
<1> QED BY <1>1, <1>2, <1>5, TypeCorrect, PTL DEF MCSpec, StoppingLeavesNoThread
=============================================================================

-------------------------- MODULE AsyncTaskGroup --------------------------
(***************************************************************************)
(* Fmi::AsyncTaskGroup with its AsyncTasks (src/macgyver/AsyncTaskGroup.cpp *)
(* and AsyncTask.cpp): every task is a thread of its own; clients add tasks *)
(* up to a number at a time, wait for them, and stop them.  There are two   *)
(* levels of mutexes: the group's m1, and an m1 of each task.  A step is a  *)
(* region executed under one of them, or what happens between two regions.  *)
(* Only stop() holds both: it cancels the tasks under the group's mutex.    *)
(***************************************************************************)
EXTENDS Naturals, Sequences, FiniteSets

CONSTANTS
  GroupClients,  \* threads that use the group
  Tasks,         \* tasks, each added at most once
  NoTask,        \* "no task is being handled"
  MaxParallel    \* constructor argument max_paralell_tasks

ASSUME GroupAssumption ==
  /\ IsFiniteSet(GroupClients)
  /\ IsFiniteSet(Tasks)
  /\ NoTask \notin Tasks
  /\ MaxParallel \in Nat \ {0}

VARIABLES
  active,          \* active_tasks
  completed,       \* completed_tasks
  stopRequested, stopOnError,
  numSucceeded, numFailed,
  tpc,             \* control state of each task's thread
  status,          \* AsyncTask::status
  cancelled,       \* tasks whose thread was interrupted by cancel()
  gpc,             \* control state of each client
  caller,          \* the operation a client is in
  after,           \* what it does after stop()
  handling,        \* the task handle_finished() has taken
  toCancel,        \* stop(): the tasks not yet cancelled
  groupPhase       \* of the group

taskVars        == <<tpc, status, cancelled>>
groupClientVars == <<gpc, caller, after, handling>>
groupVars       == <<active, completed, stopRequested, stopOnError, numSucceeded, numFailed,
                     taskVars, groupClientVars, toCancel, groupPhase>>

-----------------------------------------------------------------------------
(* "finishing": in handle_result() with the task's mutex.  "notifying": wants the
   group's mutex.  "waking": has released it, is about to call notify_all().       *)
TaskStates == {"absent", "running", "finishing", "notifying", "waking", "ended"}
Results    == {"ok", "failed", "interrupted"}

(* "addLoop": at the loop of add().  "adding": after it.  "waitSome": in wait_some(),
   wants the mutex.  "waiting": in cond's wait set.  "handling": handle_finished() is
   called.  "joining": it joins a task's thread.  "stopWanted": at the call of stop().
   "stopping": in stop(), with the group's mutex.                                     *)
GroupClientStates == {"idle", "addLoop", "adding", "waitSome", "waiting", "handling", "joining",
                      "stopWanted", "stopping"}
Callers == {"none", "add", "wait", "handle", "destroy"}
GroupPhases == {"open", "closing", "failing", "destroyed", "terminated"}

Added     == {t \in Tasks : tpc[t] # "absent"}
Completed == {completed[i] : i \in DOMAIN completed}
InHands   == {handling[c] : c \in GroupClients} \ {NoTask}
Handled   == Added \ (active \cup Completed \cup InHands)
In(s)     == {c \in GroupClients : gpc[c] = s}

Done(t)   == tpc[t] \in {"finishing", "notifying", "waking", "ended"}

(* The conditions and updates the properties hang on, each preceded by the mutant
   with which a run shows that it does.                                            *)
NotifiesLocked == {"finishing", "notifying"}
HoldsOwnMutex == {"finishing"}

GroupFree == In("stopping") = {}

MayAddAnyway == TRUE
MayAdd == ~stopRequested

RoomUntested == TRUE
Room == Cardinality(active) < MaxParallel

NotJoined(t) == TRUE
Joined(t) == tpc[t] = "ended"

LeftInQueue == completed
Popped == Tail(completed)

(* wait() goes on after an exception of wait_some(), and reports it in the end. *)
GoesOnIfTrue == {"true"}
GoesOn == {"true", "throw"}

-----------------------------------------------------------------------------
GroupInit ==
  /\ active = {} /\ completed = << >>
  /\ stopRequested = FALSE /\ stopOnError = FALSE
  /\ numSucceeded = 0 /\ numFailed = 0
  /\ tpc = [t \in Tasks |-> "absent"]
  /\ status = [t \in Tasks |-> "active"]
  /\ cancelled = {}
  /\ gpc = [c \in GroupClients |-> "idle"]
  /\ caller = [c \in GroupClients |-> "none"]
  /\ after = [c \in GroupClients |-> "none"]
  /\ handling = [c \in GroupClients |-> NoTask]
  /\ toCancel = {}
  /\ groupPhase = "open"

-----------------------------------------------------------------------------
(* The thread of a task *)

(* run(): the task function returns or throws, handle_result() records it.  Whether a
   cancelled task meets an interruption point, and lets the exception out, is its own. *)
TaskEnds(t) ==
  /\ tpc[t] = "running"
  /\ \E result \in IF t \in cancelled THEN Results ELSE Results \ {"interrupted"} :
       status' = [status EXCEPT ![t] = result]
  /\ tpc' = [tpc EXCEPT ![t] = "finishing"]
  /\ UNCHANGED <<active, completed, stopRequested, stopOnError, numSucceeded, numFailed,
                 cancelled, groupClientVars, toCancel, groupPhase>>

TaskUnlocks(t) ==
  /\ tpc[t] = "finishing"
  /\ tpc' = [tpc EXCEPT ![t] = "notifying"]
  /\ UNCHANGED <<active, completed, stopRequested, stopOnError, numSucceeded, numFailed,
                 status, cancelled, groupClientVars, toCancel, groupPhase>>

(* on_task_completed_callback() *)
TaskCompletes(t) ==
  /\ tpc[t] = "notifying" /\ GroupFree
  /\ completed' = Append(completed, t)
  /\ active' = active \ {t}
  /\ tpc' = [tpc EXCEPT ![t] = "waking"]
  /\ UNCHANGED <<stopRequested, stopOnError, numSucceeded, numFailed,
                 status, cancelled, groupClientVars, toCancel, groupPhase>>

TaskWakes(t) ==
  /\ tpc[t] = "waking"
  /\ tpc' = [tpc EXCEPT ![t] = "ended"]
  /\ gpc' = [c \in GroupClients |-> IF gpc[c] = "waiting" THEN "waitSome" ELSE gpc[c]]
  /\ UNCHANGED <<active, completed, stopRequested, stopOnError, numSucceeded, numFailed,
                 status, cancelled, caller, after, handling, toCancel, groupPhase>>

-----------------------------------------------------------------------------
(* What handle_finished() returns, or that it throws, in each of its callers: add()
   ignores the result and lets an exception out, wait() ends when it is false.  The
   destructor's wait() must not throw: that ends the program.                       *)
Continues(c, result) ==
  IF caller[c] = "add" /\ result # "throw" THEN "addLoop"
  ELSE IF caller[c] \in {"wait", "destroy"} /\ result \in GoesOn THEN "waitSome"
  ELSE "idle"

HandleReturns(c, result) ==
  /\ gpc' = [gpc EXCEPT ![c] = Continues(c, result)]
  /\ caller' = [caller EXCEPT ![c] = IF Continues(c, result) = "idle" THEN "none" ELSE @]
  /\ groupPhase' =
       IF caller[c] # "destroy" THEN groupPhase
       ELSE IF Continues(c, result) # "idle" THEN IF result = "throw" THEN "failing" ELSE groupPhase
       ELSE IF groupPhase = "failing" THEN "terminated" ELSE "destroyed"

-----------------------------------------------------------------------------
(* Calls *)

Calls(c, operation, state) ==
  /\ gpc[c] = "idle" /\ groupPhase = "open"
  /\ caller' = [caller EXCEPT ![c] = operation]
  /\ gpc' = [gpc EXCEPT ![c] = state]
  /\ UNCHANGED <<active, completed, stopRequested, stopOnError, numSucceeded, numFailed,
                 taskVars, handling, toCancel>>

(* The bound of the model: there are Tasks left for those inside add(). *)
AddCalled(c) ==
  /\ Cardinality(Tasks \ Added) > Cardinality({d \in GroupClients : caller[d] = "add"})
  /\ Calls(c, "add", "addLoop")
  /\ UNCHANGED <<after, groupPhase>>

WaitCalled(c) == Calls(c, "wait", "waitSome") /\ UNCHANGED <<after, groupPhase>>

HandleCalled(c) == Calls(c, "handle", "handling") /\ UNCHANGED <<after, groupPhase>>

StopCalled(c) ==
  /\ Calls(c, "none", "stopWanted")
  /\ after' = [after EXCEPT ![c] = "return"]
  /\ UNCHANGED groupPhase

(* The owner destroys the group when no other thread is inside it. *)
DestroyGroup(c) ==
  /\ In("idle") = GroupClients
  /\ Calls(c, "destroy", "stopWanted")
  /\ after' = [after EXCEPT ![c] = "wait"]
  /\ groupPhase' = "closing"

SetStopOnError(c) ==
  /\ gpc[c] = "idle" /\ groupPhase = "open"
  /\ stopOnError' = ~stopOnError
  /\ UNCHANGED <<active, completed, stopRequested, numSucceeded, numFailed,
                 taskVars, groupClientVars, toCancel, groupPhase>>

-----------------------------------------------------------------------------
(* Inside the operations *)

AddTests(c) ==
  /\ gpc[c] = "addLoop" /\ GroupFree
  /\ gpc' = [gpc EXCEPT ![c] = IF Room THEN "adding" ELSE "waitSome"]
  /\ UNCHANGED <<active, completed, stopRequested, stopOnError, numSucceeded, numFailed,
                 taskVars, caller, after, handling, toCancel, groupPhase>>

Adds(c) ==
  /\ gpc[c] = "adding" /\ GroupFree
  /\ IF MayAdd
       THEN \E t \in Tasks \ Added :
              /\ tpc' = [tpc EXCEPT ![t] = "running"]
              /\ active' = active \cup {t}
       ELSE UNCHANGED <<tpc, active>>
  /\ gpc' = [gpc EXCEPT ![c] = "idle"]
  /\ caller' = [caller EXCEPT ![c] = "none"]
  /\ UNCHANGED <<completed, stopRequested, stopOnError, numSucceeded, numFailed,
                 status, cancelled, after, handling, toCancel, groupPhase>>

(* wait_some(): the predicate of the wait.  The mutex is released before
   handle_finished() takes it again.                                      *)
WaitTests(c) ==
  /\ gpc[c] = "waitSome" /\ GroupFree
  /\ gpc' = [gpc EXCEPT ![c] = IF active = {} \/ completed # << >> THEN "handling" ELSE "waiting"]
  /\ UNCHANGED <<active, completed, stopRequested, stopOnError, numSucceeded, numFailed,
                 taskVars, caller, after, handling, toCancel, groupPhase>>

HandlesNothing(c) ==
  /\ gpc[c] = "handling" /\ GroupFree
  /\ completed = << >>
  /\ HandleReturns(c, "false")
  /\ UNCHANGED <<active, completed, stopRequested, stopOnError, numSucceeded, numFailed,
                 taskVars, after, handling, toCancel>>

HandlePops(c) ==
  /\ gpc[c] = "handling" /\ GroupFree
  /\ completed # << >>
  /\ handling' = [handling EXCEPT ![c] = Head(completed)]
  /\ completed' = Popped
  /\ gpc' = [gpc EXCEPT ![c] = "joining"]
  /\ UNCHANGED <<active, stopRequested, stopOnError, numSucceeded, numFailed,
                 taskVars, caller, after, toCancel, groupPhase>>

(* An interrupted task is not counted, and nobody is told. *)
HandlesInterrupted(c) ==
  /\ gpc[c] = "joining" /\ Joined(handling[c])
  /\ status[handling[c]] = "interrupted"
  /\ HandleReturns(c, "true")
  /\ handling' = [handling EXCEPT ![c] = NoTask]
  /\ UNCHANGED <<active, completed, stopRequested, stopOnError, numSucceeded, numFailed,
                 taskVars, after, toCancel>>

HandlesSuccess(c) ==
  /\ gpc[c] = "joining" /\ Joined(handling[c])
  /\ status[handling[c]] = "ok"
  /\ numSucceeded' = numSucceeded + 1
  /\ HandleReturns(c, "true")
  /\ handling' = [handling EXCEPT ![c] = NoTask]
  /\ UNCHANGED <<active, completed, stopRequested, stopOnError, numFailed,
                 taskVars, after, toCancel>>

(* The task failed, or the callback of its success threw.  Then the callback of
   failures is called; if that throws, stop() is not reached.                    *)
HandlesFailure(c) ==
  /\ gpc[c] = "joining" /\ Joined(handling[c])
  /\ status[handling[c]] \in {"failed", "ok"}
  /\ numFailed' = numFailed + 1
  /\ handling' = [handling EXCEPT ![c] = NoTask]
  /\ \/ HandleReturns(c, "throw") /\ UNCHANGED after
     \/ ~stopOnError /\ HandleReturns(c, "true") /\ UNCHANGED after
     \/ /\ stopOnError
        /\ gpc' = [gpc EXCEPT ![c] = "stopWanted"]
        /\ after' = [after EXCEPT ![c] = "throw"]
        /\ UNCHANGED <<caller, groupPhase>>
  /\ UNCHANGED <<active, completed, stopRequested, stopOnError, numSucceeded,
                 taskVars, toCancel>>

(* stop(): only the first one cancels. *)
StopBegins(c) ==
  /\ gpc[c] = "stopWanted" /\ GroupFree
  /\ gpc' = [gpc EXCEPT ![c] = "stopping"]
  /\ toCancel' = IF stopRequested THEN {} ELSE active
  /\ stopRequested' = TRUE
  /\ UNCHANGED <<active, completed, stopOnError, numSucceeded, numFailed,
                 taskVars, caller, after, handling, groupPhase>>

(* AsyncTask::cancel(), which needs the task's mutex. *)
Cancels(c, t) ==
  /\ gpc[c] = "stopping" /\ t \in toCancel
  /\ tpc[t] \notin HoldsOwnMutex
  /\ cancelled' = IF Done(t) THEN cancelled ELSE cancelled \cup {t}
  /\ toCancel' = toCancel \ {t}
  /\ UNCHANGED <<active, completed, stopRequested, stopOnError, numSucceeded, numFailed,
                 tpc, status, groupClientVars, groupPhase>>

StopEnds(c) ==
  /\ gpc[c] = "stopping" /\ toCancel = {}
  /\ \/ after[c] = "throw" /\ HandleReturns(c, "throw")
     \/ /\ after[c] # "throw"
        /\ gpc' = [gpc EXCEPT ![c] = IF after[c] = "wait" THEN "waitSome" ELSE "idle"]
        /\ UNCHANGED <<caller, groupPhase>>
  /\ after' = [after EXCEPT ![c] = "none"]
  /\ UNCHANGED <<active, completed, stopRequested, stopOnError, numSucceeded, numFailed,
                 taskVars, handling, toCancel>>

-----------------------------------------------------------------------------
Call(c) ==
  \/ AddCalled(c) \/ WaitCalled(c) \/ HandleCalled(c) \/ StopCalled(c)
  \/ DestroyGroup(c) \/ SetStopOnError(c)

GroupClientStep(c) ==
  \/ AddTests(c) \/ Adds(c)
  \/ WaitTests(c) \/ HandlesNothing(c) \/ HandlePops(c)
  \/ HandlesInterrupted(c) \/ HandlesSuccess(c) \/ HandlesFailure(c)
  \/ StopBegins(c) \/ StopEnds(c)
  \/ \E t \in Tasks : Cancels(c, t)

TaskStep(t) == TaskEnds(t) \/ TaskUnlocks(t) \/ TaskCompletes(t) \/ TaskWakes(t)

GroupNext ==
  \/ groupPhase # "terminated" /\ \E c \in GroupClients : Call(c) \/ GroupClientStep(c)
  \/ groupPhase # "terminated" /\ \E t \in Tasks : TaskStep(t)

GroupSpec == GroupInit /\ [][GroupNext]_groupVars

(* Threads run on; the functions of tasks end; callbacks return.  Nobody has to call. *)
GroupFairness ==
  /\ \A c \in GroupClients : WF_groupVars(groupPhase # "terminated" /\ GroupClientStep(c))
  /\ \A t \in Tasks : WF_groupVars(groupPhase # "terminated" /\ TaskStep(t))
GroupFairSpec == GroupSpec /\ GroupFairness

-----------------------------------------------------------------------------
(* Properties *)

(* The state has its type; a client has a task exactly while it joins it, and
   the tasks that stop() is cancelling stay active while it has the mutex.            *)
GroupTypeOK ==
  /\ active \subseteq Tasks
  /\ completed \in Seq(Tasks)
  /\ stopRequested \in BOOLEAN /\ stopOnError \in BOOLEAN
  /\ numSucceeded \in Nat /\ numFailed \in Nat
  /\ tpc \in [Tasks -> TaskStates]
  /\ status \in [Tasks -> Results \cup {"active"}]
  /\ \A t \in Tasks : (status[t] = "active") <=> ~Done(t)
  /\ cancelled \subseteq Added
  /\ gpc \in [GroupClients -> GroupClientStates]
  /\ caller \in [GroupClients -> Callers]
  /\ after \in [GroupClients -> {"none", "return", "wait", "throw"}]
  /\ handling \in [GroupClients -> Tasks \cup {NoTask}]
  /\ \A c \in GroupClients : (handling[c] # NoTask) <=> (gpc[c] = "joining")
  /\ toCancel \subseteq active
  /\ groupPhase \in GroupPhases

(* Each task that was added is in one place: active until its own callback, which
   always finds it there, then completed, in the hands of one client, or handled;
   and the handled tasks are those that were counted, or were interrupted.         *)
TasksAccounted ==
  /\ active = {t \in Tasks : tpc[t] \in {"running", "finishing", "notifying"}}
  /\ Len(completed) = Cardinality(Completed)
  /\ \A c, d \in GroupClients : c # d /\ handling[c] = handling[d] => handling[c] = NoTask
  /\ active \cap Completed = {} /\ (active \cup Completed) \cap InHands = {}
  /\ numSucceeded + numFailed
       = Cardinality(Handled) - Cardinality({t \in Handled : status[t] = "interrupted"})

(* The bound on parallel tasks is tested outside the region that adds a task: it may
   be exceeded, but by no more tasks than there are other threads (with one, never).  *)
ParallelBound ==
  Cardinality(active) + Cardinality(In("adding")) < MaxParallel + Cardinality(GroupClients)

(* stop() against a concurrent add(), and the ends of the tasks: once it is over no
   task runs that it did not reach, and none is begun.                               *)
StopReachesAll ==
  stopRequested /\ GroupFree => \A t \in Tasks : tpc[t] = "running" => t \in cancelled

(* No task's thread uses a group that was destroyed, its last notify_all() included. *)
DestroyedUnused == groupPhase = "destroyed" => \A t \in Added : tpc[t] = "ended"

(* wait(): "Wait for all added tasks to end" (AsyncTaskGroup.h:31).  (A condition on
   a step.)                                                                           *)
WaitReturnsAtEnd ==
  \A c \in GroupClients :
    caller[c] = "wait" /\ caller'[c] = "none" => \A t \in Added : tpc[t] = "ended"

(* stop_on_error: "all tasks should interrupted when one or more are noticed failing"
   (AsyncTaskGroup.h:113): a failure that was handled has made a stop requested, or
   the handling thread is about to request it.                                        *)
StoppedAfterFailure ==
  [][stopOnError /\ numFailed' > numFailed
       => stopRequested' \/ \E c \in GroupClients : gpc'[c] = "stopWanted"]_groupVars

(* Whatever was begun comes to its end: no deadlock of the two levels of mutexes, and
   no thread is left in a wait for tasks that have ended.                             *)
OperationsEnd ==
  <>[][\A c \in GroupClients : ~Call(c)]_groupVars
    => <>[](groupPhase = "terminated" \/ In("idle") = GroupClients)
=============================================================================

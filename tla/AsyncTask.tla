----------------------------- MODULE AsyncTask -----------------------------
(* Fmi::AsyncTask by itself (AsyncTask.h, AsyncTask.cpp): the thread of the task, its
   owner, which waits for it and destroys it, and others that cancel it.  In a group,
   AsyncTaskGroup has it with less detail.

   boost::thread is external: interrupt() leaves a request that the interruption
   points of its thread obey, join() is such a point of the thread that calls it, and
   a boost::thread that is destroyed before it was joined lets its thread run on.     *)
EXTENDS Naturals

CONSTANT NotifyKinds  \* what the callback may do: "quiet", "interruptible", "throwing"

ASSUME NotifyAssumption == NotifyKinds \subseteq {"quiet", "interruptible", "throwing"}

VARIABLES
  taskPc,      \* where the thread of the task is
  outcome,     \* what it has to hand to handle_result(), or has handed last
  status, done, ex,  \* ex: the exception of the task is kept
  notify,      \* what the callback may do
  requested,   \* the task's thread was asked to stop, and has not obeyed yet
  joinable,    \* task_thread stands for a thread
  alive,       \* the object
  ownerPc,     \* where the owner is
  ownerAsked,  \* the owner's thread was asked to stop, and has not obeyed yet
  toldTo,      \* what the wait() that joined has done: "nothing", "returned", "threw"
  leftEarly,   \* history: the owner was interrupted in the destructor
  usedGone     \* history: the thread has used the object after its end

memberVars == <<status, done, ex>>
ownerVars == <<joinable, alive, ownerPc, ownerAsked, toldTo, leftEarly>>
taskVars == <<taskPc, outcome, memberVars, notify, requested, ownerVars, usedGone>>

TaskPcs == {"created", "working", "ending", "notifying", "over", "terminated"}
TaskOutcomes == {"ok", "failed", "interrupted"}
OwnerPcs == {"out", "waiting", "waitingFor", "destroying", "gone"}

TaskInit ==
  /\ taskPc = "created" /\ outcome = "ok"
  /\ status = "none" /\ done = FALSE /\ ex = FALSE
  /\ notify \in NotifyKinds /\ requested = FALSE
  /\ joinable = TRUE /\ alive = TRUE
  /\ ownerPc = "out" /\ ownerAsked = FALSE /\ toldTo = "nothing"
  /\ leftEarly = FALSE /\ usedGone = FALSE

ProgramRuns == taskPc # "terminated"
-----------------------------------------------------------------------------
(* run(): the thread of the task *)

UsesObject == usedGone' = (usedGone \/ ~alive)

TaskStarts ==
  /\ taskPc = "created"
  /\ taskPc' = "working"
  /\ status' = "active"
  /\ UsesObject
  /\ UNCHANGED <<outcome, done, ex, notify, requested, ownerVars>>

\* The function that was given returns, or throws.
FunctionEnds ==
  /\ taskPc = "working"
  /\ taskPc' = "ending"
  /\ outcome' \in {"ok", "failed"}
  /\ UNCHANGED <<memberVars, notify, requested, ownerVars, usedGone>>

FunctionInterrupted ==
  /\ taskPc = "working"
  /\ requested
  /\ requested' = FALSE
  /\ taskPc' = "ending"
  /\ outcome' = "interrupted"
  /\ UNCHANGED <<memberVars, notify, ownerVars, usedGone>>

\* handle_result() under m1
HandleResult ==
  /\ taskPc = "ending"
  /\ done' = TRUE
  /\ status' = outcome
  /\ ex' = (outcome = "failed")
  /\ taskPc' = "notifying"
  /\ UsesObject
  /\ UNCHANGED <<outcome, notify, requested, ownerVars>>

\* The callback returns, and with it the thread.
NotifyReturns ==
  /\ taskPc = "notifying"
  /\ taskPc' = "over"
  /\ UsesObject
  /\ UNCHANGED <<outcome, memberVars, notify, requested, ownerVars>>

\* The try block of run() has handle_result(ok) in it: an exception of the callback
\* gives another result.  One that leaves a handler ends the program.
NotifyThrows ==
  /\ taskPc = "notifying"
  /\ notify = "throwing"
  /\ IF outcome = "ok"
     THEN taskPc' = "ending" /\ outcome' = "failed"
     ELSE taskPc' = "terminated" /\ UNCHANGED outcome
  /\ UsesObject
  /\ UNCHANGED <<memberVars, notify, requested, ownerVars>>

\* A request that came before the end, and that the task did not obey.  boost::thread
\* lets a thread_interrupted end its thread.
NotifyInterrupted ==
  /\ taskPc = "notifying"
  /\ notify = "interruptible" /\ requested
  /\ requested' = FALSE
  /\ IF outcome = "ok"
     THEN taskPc' = "ending" /\ outcome' = "interrupted"
     ELSE taskPc' = "over" /\ UNCHANGED outcome
  /\ UsesObject
  /\ UNCHANGED <<memberVars, notify, ownerVars>>
-----------------------------------------------------------------------------
(* The owner, and who else has the object *)

\* mutant: a task that has not begun is taken for one that has ended
MayInterruptActive == status = "active"

MayInterrupt == ~done

CancelIsCalled == requested' = (requested \/ MayInterrupt)

Cancels ==
  /\ ProgramRuns /\ alive /\ ownerPc # "destroying"
  /\ CancelIsCalled
  /\ UNCHANGED <<taskPc, outcome, memberVars, notify, ownerVars, usedGone>>

\* Of a task that was joined before, wait() and wait_for() know nothing.
WaitIsCalled ==
  /\ ProgramRuns /\ ownerPc = "out"
  /\ joinable
  /\ ownerPc' \in {"waiting", "waitingFor"}
  /\ UNCHANGED <<taskPc, outcome, memberVars, notify, requested, joinable, alive, ownerAsked,
                 toldTo, leftEarly, usedGone>>

Told == IF ex THEN "threw" ELSE "returned"

Joins ==
  /\ ownerPc \in {"waiting", "waitingFor"}
  /\ taskPc = "over"
  /\ joinable' = FALSE
  /\ toldTo' = Told
  /\ ownerPc' = "out"
  /\ UNCHANGED <<taskPc, outcome, memberVars, notify, requested, alive, ownerAsked, leftEarly,
                 usedGone>>

WaitForTimesOut ==
  /\ ProgramRuns /\ ownerPc = "waitingFor"
  /\ ownerPc' = "out"
  /\ UNCHANGED <<taskPc, outcome, memberVars, notify, requested, joinable, alive, ownerAsked,
                 toldTo, leftEarly, usedGone>>

\* The thread stays joinable.
WaitInterrupted ==
  /\ ProgramRuns /\ ownerPc \in {"waiting", "waitingFor"} /\ ownerAsked
  /\ ownerAsked' = FALSE
  /\ ownerPc' = "out"
  /\ UNCHANGED <<taskPc, outcome, memberVars, notify, requested, joinable, alive, toldTo,
                 leftEarly, usedGone>>

DestroyCalled ==
  /\ ProgramRuns /\ ownerPc = "out"
  /\ IF joinable
     THEN ownerPc' = "destroying" /\ CancelIsCalled /\ UNCHANGED alive
     ELSE ownerPc' = "gone" /\ alive' = FALSE /\ UNCHANGED requested
  /\ UNCHANGED <<taskPc, outcome, memberVars, notify, joinable, ownerAsked, toldTo, leftEarly,
                 usedGone>>

\* mutant: the destructor only cancels
MayLeaveAnyway == TRUE

MayLeave == taskPc = "over"

\* What wait() throws here is ignored, and the members are destroyed.
DestructorJoins ==
  /\ ProgramRuns /\ ownerPc = "destroying"
  /\ MayLeave
  /\ ownerPc' = "gone" /\ alive' = FALSE /\ joinable' = FALSE
  /\ UNCHANGED <<taskPc, outcome, memberVars, notify, requested, ownerAsked, toldTo, leftEarly,
                 usedGone>>

\* So it is when its join() is interrupted: the thread is let go of.
DestructorInterrupted ==
  /\ ProgramRuns /\ ownerPc = "destroying" /\ ownerAsked
  /\ ownerAsked' = FALSE
  /\ ownerPc' = "gone" /\ alive' = FALSE /\ joinable' = FALSE
  /\ leftEarly' = TRUE
  /\ UNCHANGED <<taskPc, outcome, memberVars, notify, requested, toldTo, usedGone>>

\* Someone asks the owner's thread to stop.
OwnerAsked ==
  /\ ProgramRuns /\ ownerPc # "gone"
  /\ ownerAsked' = TRUE
  /\ UNCHANGED <<taskPc, outcome, memberVars, notify, requested, joinable, alive, ownerPc,
                 toldTo, leftEarly, usedGone>>

\* The function may go on for ever, but comes to an interruption point again and again.
TaskStep ==
  TaskStarts \/ FunctionInterrupted \/ HandleResult \/ NotifyReturns \/ NotifyThrows
    \/ NotifyInterrupted

OwnerStep == Joins \/ DestructorJoins

TaskNext ==
  \/ TaskStep \/ FunctionEnds
  \/ Cancels \/ WaitIsCalled \/ WaitForTimesOut \/ WaitInterrupted
  \/ DestroyCalled \/ DestructorInterrupted \/ OwnerAsked
  \/ OwnerStep

TaskFairness == WF_taskVars(TaskStep) /\ WF_taskVars(OwnerStep)

TaskSpec == TaskInit /\ [][TaskNext]_taskVars /\ TaskFairness
-----------------------------------------------------------------------------
TaskTypeOK ==
  /\ taskPc \in TaskPcs /\ outcome \in TaskOutcomes
  /\ status \in TaskOutcomes \cup {"none", "active"}
  /\ {done, ex, requested, joinable, alive, ownerAsked, leftEarly, usedGone} \subseteq BOOLEAN
  /\ notify \in NotifyKinds
  /\ ownerPc \in OwnerPcs
  /\ toldTo \in {"nothing", "returned", "threw"}

(* The thread does not use the object after its end, unless the destructor's wait was
   interrupted (AsyncTask.cpp:29-54); and the wait() that joined has thrown just what
   the task has failed with, whatever the callback did (64-77, 125-157).             *)
OwnerKnowsTheEnd ==
  /\ usedGone => leftEarly
  /\ toldTo # "nothing" => /\ taskPc = "over" /\ done
                           /\ toldTo = "threw" <=> status = "failed"

(* The destructor comes to its end, of a task whose function goes on until it is
   interrupted, too: wherever the task is, a cancel() is not lost (AsyncTask.cpp:29-54,
   103-111).  An exception that leaves the callback twice ends the program.          *)
DestructorEnds == ownerPc = "destroying" ~> ownerPc = "gone" \/ taskPc = "terminated"
=============================================================================

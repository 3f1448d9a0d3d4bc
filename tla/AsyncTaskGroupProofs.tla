----------------------- MODULE AsyncTaskGroupProofs -----------------------
(* Theorems about AsyncTaskGroup.  The type invariant and StopReachesAll need each
   other: that the tasks stop() still has to cancel stay active rests on its holding
   the group's mutex, and that it reaches all that run, on their being active.       *)
EXTENDS MCConcurrency, CollectionLemmas

(* The tasks in active_tasks are those whose callback has not run yet. *)
ActiveInv ==
  active = {t \in Tasks : tpc[t] \in {"running", "finishing", "notifying"}}

(* Only a thread inside stop() has tasks left to cancel. *)
MutexInv == toCancel # {} => ~GroupFree

(* What a stop that was requested has not reached yet, it still has on its list. *)
ReachInv ==
  stopRequested => \A t \in Tasks : tpc[t] = "running" => t \in cancelled \cup toCancel

IInv == GroupTypeOK /\ ActiveInv /\ MutexInv /\ ReachInv

(* HandleReturns leaves a client in a state where it has no task and no mutex. *)
LEMMA ContinuesType ==
  ASSUME NEW c \in GroupClients, NEW r \in {"true", "false", "throw"}
  PROVE  Continues(c, r) \in {"addLoop", "waitSome", "idle"}
  BY DEF Continues

LEMMA InitIInv == GroupInit => IInv
  <1> SUFFICES ASSUME GroupInit PROVE IInv
    OBVIOUS
  <1>1. GroupTypeOK
    <2>1. completed \in Seq(Tasks) /\ numSucceeded \in Nat /\ numFailed \in Nat
      BY DEF GroupInit
    <2>2. /\ tpc \in [Tasks -> TaskStates]
          /\ status \in [Tasks -> Results \cup {"active"}]
          /\ \A t \in Tasks : (status[t] = "active") <=> ~Done(t)
      BY DEF GroupInit, TaskStates, Done
    <2>3. /\ gpc \in [GroupClients -> GroupClientStates]
          /\ caller \in [GroupClients -> Callers]
          /\ after \in [GroupClients -> {"none", "return", "wait", "throw"}]
          /\ handling \in [GroupClients -> Tasks \cup {NoTask}]
          /\ \A c \in GroupClients : (handling[c] # NoTask) <=> (gpc[c] = "joining")
      BY DEF GroupInit, GroupClientStates, Callers
    <2>4. /\ active \subseteq Tasks /\ cancelled \subseteq Added /\ toCancel \subseteq active
          /\ stopRequested \in BOOLEAN /\ stopOnError \in BOOLEAN /\ groupPhase \in GroupPhases
      BY DEF GroupInit, GroupPhases
    <2> QED BY <2>1, <2>2, <2>3, <2>4 DEF GroupTypeOK
  <1>2. ActiveInv /\ ReachInv
    BY DEF GroupInit, ActiveInv, ReachInv
  <1>3. MutexInv
    BY DEF GroupInit, MutexInv
  <1> QED BY <1>1, <1>2, <1>3 DEF IInv

(* The steps of the tasks' threads. *)
LEMMA TaskStepIInv ==
  ASSUME IInv, NEW t \in Tasks, TaskStep(t)
  PROVE  IInv'
  <1> USE GroupAssumption DEF IInv
  <1>1. CASE TaskEnds(t)
    <2>1. GroupTypeOK'
      BY <1>1 DEF TaskEnds, GroupTypeOK, TaskStates, Results, Done, Added, groupClientVars
    <2>2. ActiveInv'
      BY <1>1 DEF TaskEnds, ActiveInv, GroupTypeOK
    <2>3. MutexInv' /\ ReachInv'
      BY <1>1 DEF TaskEnds, MutexInv, ReachInv, GroupFree, In, GroupTypeOK, groupClientVars
    <2> QED BY <2>1, <2>2, <2>3
  <1>2. CASE TaskUnlocks(t)
    <2>1. GroupTypeOK'
      BY <1>2 DEF TaskUnlocks, GroupTypeOK, TaskStates, Results, Done, Added, groupClientVars
    <2>2. ActiveInv'
      BY <1>2 DEF TaskUnlocks, ActiveInv, GroupTypeOK
    <2>3. MutexInv' /\ ReachInv'
      BY <1>2 DEF TaskUnlocks, MutexInv, ReachInv, GroupFree, In, GroupTypeOK, groupClientVars
    <2> QED BY <2>1, <2>2, <2>3
  <1>3. CASE TaskCompletes(t)
    <2>0. toCancel = {}
      BY <1>3 DEF TaskCompletes, MutexInv
    <2>1. GroupTypeOK'
      BY <1>3, <2>0 DEF TaskCompletes, GroupTypeOK, TaskStates, Results, Done, Added, groupClientVars
    <2>2. ActiveInv'
      BY <1>3 DEF TaskCompletes, ActiveInv, GroupTypeOK
    <2>3. MutexInv' /\ ReachInv'
      BY <1>3, <2>0 DEF TaskCompletes, MutexInv, ReachInv, GroupFree, In, GroupTypeOK, groupClientVars
    <2> QED BY <2>1, <2>2, <2>3
  <1>4. CASE TaskWakes(t)
    <2>1. GroupTypeOK'
      BY <1>4 DEF TaskWakes, GroupTypeOK, TaskStates, GroupClientStates, Results, Done, Added
    <2>2. ActiveInv'
      BY <1>4 DEF TaskWakes, ActiveInv, GroupTypeOK
    <2>3. \A c \in GroupClients : gpc'[c] = "stopping" <=> gpc[c] = "stopping"
      BY <1>4 DEF TaskWakes, GroupTypeOK
    <2>4. MutexInv' /\ ReachInv'
      BY <1>4, <2>3 DEF TaskWakes, MutexInv, ReachInv, GroupFree, In, GroupTypeOK
    <2> QED BY <2>1, <2>2, <2>4
  <1> QED BY <1>1, <1>2, <1>3, <1>4 DEF TaskStep

(* A step of a client that leaves the tasks, the lists and stop()'s state alone. *)
LEMMA QuietIInv ==
  ASSUME IInv,
         UNCHANGED <<active, stopRequested, taskVars, toCancel>>,
         completed' \in Seq(Tasks), stopOnError' \in BOOLEAN,
         numSucceeded' \in Nat, numFailed' \in Nat,
         NEW c \in GroupClients, NEW s \in GroupClientStates,
         gpc' = [gpc EXCEPT ![c] = s],
         gpc[c] # "stopping" \/ toCancel = {},
         caller' \in [GroupClients -> Callers],
         after' \in [GroupClients -> {"none", "return", "wait", "throw"}],
         handling' \in [GroupClients -> Tasks \cup {NoTask}],
         \A d \in GroupClients \ {c} : handling'[d] = handling[d],
         (handling'[c] # NoTask) <=> (s = "joining"),
         groupPhase' \in GroupPhases
  PROVE  IInv'
  <1>1. GroupTypeOK'
    BY DEF IInv, GroupTypeOK, Done, Added, taskVars
  <1>2. ActiveInv' /\ ReachInv'
    BY DEF IInv, ActiveInv, ReachInv, taskVars
  <1>3. MutexInv'
    BY DEF IInv, MutexInv, GroupFree, In, GroupTypeOK
  <1> QED BY <1>1, <1>2, <1>3 DEF IInv

LEMMA CallIInv ==
  ASSUME IInv, NEW c \in GroupClients, Call(c)
  PROVE  IInv'
  <1>0. gpc[c] = "idle" /\ handling[c] = NoTask
    BY DEF IInv, GroupTypeOK, Call, AddCalled, WaitCalled, HandleCalled, StopCalled, DestroyGroup,
           SetStopOnError, Calls
  <1>1. CASE AddCalled(c)
    BY <1>0, <1>1, QuietIInv DEF AddCalled, Calls, IInv, GroupTypeOK, GroupClientStates, Callers
  <1>2. CASE WaitCalled(c)
    BY <1>0, <1>2, QuietIInv DEF WaitCalled, Calls, IInv, GroupTypeOK, GroupClientStates, Callers
  <1>3. CASE HandleCalled(c)
    BY <1>0, <1>3, QuietIInv DEF HandleCalled, Calls, IInv, GroupTypeOK, GroupClientStates, Callers
  <1>4. CASE StopCalled(c)
    BY <1>0, <1>4, QuietIInv DEF StopCalled, Calls, IInv, GroupTypeOK, GroupClientStates, Callers
  <1>5. CASE DestroyGroup(c)
    BY <1>0, <1>5, QuietIInv DEF DestroyGroup, Calls, IInv, GroupTypeOK, GroupClientStates, Callers, GroupPhases
  <1>6. CASE SetStopOnError(c)
    <2>1. gpc' = [gpc EXCEPT ![c] = "idle"]
      BY <1>0, <1>6 DEF SetStopOnError, groupClientVars, IInv, GroupTypeOK
    <2> QED
      BY <1>0, <1>6, <2>1, QuietIInv
         DEF SetStopOnError, groupClientVars, IInv, GroupTypeOK, GroupClientStates
  <1> QED BY <1>1, <1>2, <1>3, <1>4, <1>5, <1>6 DEF Call

(* The steps that end handle_finished(), in any of its callers. *)
LEMMA HandleReturnsIInv ==
  ASSUME IInv, NEW c \in GroupClients, NEW r \in {"true", "false", "throw"},
         HandleReturns(c, r),
         gpc[c] # "stopping" \/ toCancel = {},
         UNCHANGED <<active, completed, stopRequested, stopOnError, taskVars, toCancel>>,
         numSucceeded' \in Nat, numFailed' \in Nat,
         after' \in [GroupClients -> {"none", "return", "wait", "throw"}],
         handling' = [handling EXCEPT ![c] = NoTask]
  PROVE  IInv'
  <1>1. Continues(c, r) \in GroupClientStates /\ Continues(c, r) # "joining"
    BY ContinuesType DEF GroupClientStates
  <1>2. gpc' = [gpc EXCEPT ![c] = Continues(c, r)]
    BY DEF HandleReturns
  <1>3. caller' \in [GroupClients -> Callers]
    BY DEF HandleReturns, IInv, GroupTypeOK, Callers
  <1>4. groupPhase' \in GroupPhases
    BY DEF HandleReturns, IInv, GroupTypeOK, GroupPhases
  <1>5. handling' \in [GroupClients -> Tasks \cup {NoTask}] /\ handling'[c] = NoTask
    BY DEF IInv, GroupTypeOK
  <1>6. \A d \in GroupClients \ {c} : handling'[d] = handling[d]
    BY DEF IInv, GroupTypeOK
  <1> QED BY <1>1, <1>2, <1>3, <1>4, <1>5, <1>6, QuietIInv DEF IInv, GroupTypeOK

LEMMA AddsIInv ==
  ASSUME IInv, NEW c \in GroupClients, Adds(c)
  PROVE  IInv'
  <1>0. toCancel = {}
    BY DEF Adds, IInv, MutexInv
  <1>1. ASSUME MayAdd,
               NEW t \in Tasks \ Added,
               tpc' = [tpc EXCEPT ![t] = "running"], active' = active \cup {t}
        PROVE  IInv'
    <2>1. GroupTypeOK'
      BY <1>0, <1>1 DEF Adds, IInv, GroupTypeOK, TaskStates, GroupClientStates, Callers, Done, Added
    <2>2. ActiveInv'
      BY <1>1 DEF IInv, ActiveInv, GroupTypeOK
    <2>3. MutexInv' /\ ReachInv'
      BY <1>0, <1>1 DEF Adds, MayAdd, MutexInv, ReachInv
    <2> QED BY <2>1, <2>2, <2>3 DEF IInv
  <1>2. CASE ~MayAdd
    <2>1. handling[c] = NoTask
      BY DEF Adds, IInv, GroupTypeOK
    <2> QED BY <1>0, <1>2, <2>1, QuietIInv DEF Adds, IInv, GroupTypeOK, GroupClientStates, Callers, taskVars
  <1> QED BY <1>1, <1>2 DEF Adds

LEMMA StopBeginsIInv ==
  ASSUME IInv, NEW c \in GroupClients, StopBegins(c)
  PROVE  IInv'
  <1>0. toCancel = {}
    BY DEF StopBegins, IInv, MutexInv
  <1>1. GroupTypeOK'
    BY DEF StopBegins, IInv, GroupTypeOK, GroupClientStates, taskVars, Done, Added
  <1>2. ActiveInv'
    BY DEF StopBegins, IInv, ActiveInv, taskVars
  <1>3. MutexInv'
    BY DEF StopBegins, IInv, GroupTypeOK, MutexInv, GroupFree, In
  <1>4. ReachInv'
    BY <1>0 DEF StopBegins, IInv, ActiveInv, ReachInv, taskVars
  <1> QED BY <1>1, <1>2, <1>3, <1>4 DEF IInv

LEMMA CancelsIInv ==
  ASSUME IInv, NEW c \in GroupClients, NEW t \in Tasks, Cancels(c, t)
  PROVE  IInv'
  <1>1. GroupTypeOK'
    BY DEF Cancels, IInv, GroupTypeOK, ActiveInv, groupClientVars, Done, Added
  <1>2. ActiveInv'
    BY DEF Cancels, IInv, ActiveInv
  <1>3. MutexInv'
    BY DEF Cancels, IInv, MutexInv, GroupFree, In, groupClientVars
  <1>4. ReachInv'
    BY DEF Cancels, IInv, ReachInv, Done
  <1> QED BY <1>1, <1>2, <1>3, <1>4 DEF IInv

LEMMA ClientStepIInv ==
  ASSUME IInv, NEW c \in GroupClients, GroupClientStep(c)
  PROVE  IInv'
  <1> USE DEF taskVars
  <1>0. (handling[c] # NoTask) <=> (gpc[c] = "joining")
    BY DEF IInv, GroupTypeOK
  <1>1. CASE AddTests(c)
    <2>1. PICK s \in {"adding", "waitSome"} : gpc' = [gpc EXCEPT ![c] = s]
      BY <1>1 DEF AddTests
    <2> QED BY <1>0, <1>1, <2>1, QuietIInv DEF AddTests, IInv, GroupTypeOK, GroupClientStates
  <1>2. CASE Adds(c)
    BY <1>2, AddsIInv
  <1>3. CASE WaitTests(c)
    <2>1. PICK s \in {"handling", "waiting"} : gpc' = [gpc EXCEPT ![c] = s]
      BY <1>3 DEF WaitTests
    <2> QED BY <1>0, <1>3, <2>1, QuietIInv DEF WaitTests, IInv, GroupTypeOK, GroupClientStates
  <1>4. CASE HandlesNothing(c)
    <2>1. handling' = [handling EXCEPT ![c] = NoTask]
      BY <1>0, <1>4 DEF HandlesNothing, IInv, GroupTypeOK
    <2> QED BY <1>4, <2>1, HandleReturnsIInv DEF HandlesNothing, IInv, GroupTypeOK
  <1>5. CASE HandlePops(c)
    <2>1. Head(completed) \in Tasks /\ completed' \in Seq(Tasks)
      BY <1>5 DEF HandlePops, Popped, IInv, GroupTypeOK
    <2>2. handling' \in [GroupClients -> Tasks \cup {NoTask}] /\ handling'[c] # NoTask
      BY <1>5, <2>1, GroupAssumption DEF HandlePops, IInv, GroupTypeOK
    <2>3. \A d \in GroupClients \ {c} : handling'[d] = handling[d]
      BY <1>5 DEF HandlePops, IInv, GroupTypeOK
    <2> QED
      BY <1>5, <2>1, <2>2, <2>3, QuietIInv DEF HandlePops, IInv, GroupTypeOK, GroupClientStates
  <1>6. CASE HandlesInterrupted(c)
    BY <1>6, HandleReturnsIInv DEF HandlesInterrupted, IInv, GroupTypeOK
  <1>7. CASE HandlesSuccess(c)
    <2>1. numSucceeded' \in Nat /\ numFailed' \in Nat /\ gpc[c] # "stopping"
      BY <1>7 DEF HandlesSuccess, IInv, GroupTypeOK
    <2>2. HandleReturns(c, "true")
      BY <1>7 DEF HandlesSuccess
    <2> QED BY <1>7, <2>1, <2>2, HandleReturnsIInv DEF HandlesSuccess, IInv, GroupTypeOK
  <1>8. CASE HandlesFailure(c)
    <2>1. numFailed' \in Nat /\ gpc[c] # "stopping"
      BY <1>8 DEF HandlesFailure, IInv, GroupTypeOK
    <2>2. CASE HandleReturns(c, "throw") /\ UNCHANGED after
      BY <1>8, <2>1, <2>2, HandleReturnsIInv DEF HandlesFailure, IInv, GroupTypeOK
    <2>3. CASE HandleReturns(c, "true") /\ UNCHANGED after
      BY <1>8, <2>1, <2>3, HandleReturnsIInv DEF HandlesFailure, IInv, GroupTypeOK
    <2>4. CASE /\ gpc' = [gpc EXCEPT ![c] = "stopWanted"]
               /\ after' = [after EXCEPT ![c] = "throw"]
               /\ UNCHANGED <<caller, groupPhase>>
      BY <1>8, <2>1, <2>4, QuietIInv DEF HandlesFailure, IInv, GroupTypeOK, GroupClientStates
    <2> QED BY <1>8, <2>2, <2>3, <2>4 DEF HandlesFailure
  <1>9. CASE StopBegins(c)
    BY <1>9, StopBeginsIInv
  <1>10. CASE StopEnds(c)
    <2>1. after' \in [GroupClients -> {"none", "return", "wait", "throw"}]
      BY <1>10 DEF StopEnds, IInv, GroupTypeOK
    <2>2. CASE HandleReturns(c, "throw")
      <3>1. handling' = [handling EXCEPT ![c] = NoTask]
        BY <1>0, <1>10 DEF StopEnds, IInv, GroupTypeOK
      <3> QED BY <1>10, <2>1, <2>2, <3>1, HandleReturnsIInv DEF StopEnds, IInv, GroupTypeOK
    <2>3. CASE UNCHANGED <<caller, groupPhase>> /\ ~HandleReturns(c, "throw")
      <3>1. PICK s \in {"waitSome", "idle"} : gpc' = [gpc EXCEPT ![c] = s]
        BY <1>10, <2>3 DEF StopEnds
      <3> QED BY <1>0, <1>10, <2>1, <2>3, <3>1, QuietIInv DEF StopEnds, IInv, GroupTypeOK, GroupClientStates
    <2> QED BY <1>10, <2>2, <2>3 DEF StopEnds
  <1>11. ASSUME NEW t \in Tasks, Cancels(c, t) PROVE IInv'
    BY <1>11, CancelsIInv
  <1> QED
    BY <1>1, <1>2, <1>3, <1>4, <1>5, <1>6, <1>7, <1>8, <1>9, <1>10, <1>11 DEF GroupClientStep

LEMMA NextIInv == IInv /\ [GroupNext]_groupVars => IInv'
  <1> SUFFICES ASSUME IInv, [GroupNext]_groupVars PROVE IInv'
    OBVIOUS
  <1>1. CASE UNCHANGED groupVars
    BY <1>1 DEF groupVars, taskVars, groupClientVars, IInv, GroupTypeOK, ActiveInv, MutexInv, ReachInv,
                Done, Added, GroupFree, In
  <1>2. ASSUME NEW c \in GroupClients, Call(c) \/ GroupClientStep(c) PROVE IInv'
    BY <1>2, CallIInv, ClientStepIInv
  <1>3. ASSUME NEW t \in Tasks, TaskStep(t) PROVE IInv'
    BY <1>3, TaskStepIInv
  <1> QED BY <1>1, <1>2, <1>3 DEF GroupNext

(* The state keeps its type, for any number of clients and tasks. *)
THEOREM TypeCorrect == GroupSpec => []GroupTypeOK
  <1>1. IInv => GroupTypeOK
    BY DEF IInv
  <1> QED BY InitIInv, NextIInv, <1>1, PTL DEF GroupSpec

(* stop() reaches every task that runs when it is over, and no task is begun after
   it, whatever other threads add, wait for and stop meanwhile (AsyncTaskGroup.cpp:70-80). *)
THEOREM StopReaches == GroupSpec => []StopReachesAll
  <1>1. IInv => StopReachesAll
    BY DEF IInv, MutexInv, ReachInv, StopReachesAll
  <1> QED BY InitIInv, NextIInv, <1>1, PTL DEF GroupSpec
-----------------------------------------------------------------------------
(* The bound on parallel tasks *)

Adding == {c \in GroupClients : gpc[c] = "adding"}

LEMMA Finiteness ==
  ASSUME GroupTypeOK
  PROVE  /\ IsFiniteSet(active) /\ IsFiniteSet(Adding)
         /\ Cardinality(active) \in Nat /\ Cardinality(Adding) \in Nat
         /\ Cardinality(GroupClients) \in Nat
         /\ Cardinality(Adding) <= Cardinality(GroupClients)
  <1>1. IsFiniteSet(GroupClients) /\ IsFiniteSet(Tasks)
    BY GroupAssumption
  <1>2. IsFiniteSet(active) /\ IsFiniteSet(Adding) /\ Cardinality(Adding) <= Cardinality(GroupClients)
    BY <1>1, FS_Subset DEF GroupTypeOK, Adding
  <1> QED BY <1>1, <1>2, FS_CardinalityType

(* No step but the ends of AddTests and Adds makes a task active, or lets a client
   into the region that does.                                                       *)
LEMMA ShrinkBound ==
  ASSUME GroupTypeOK, ParallelBound, active' \subseteq active, Adding' \subseteq Adding
  PROVE  ParallelBound'
  <1>1. Cardinality(active') <= Cardinality(active) /\ Cardinality(active') \in Nat
    BY Finiteness, FS_Subset, FS_CardinalityType
  <1>2. Cardinality(Adding') <= Cardinality(Adding) /\ Cardinality(Adding') \in Nat
    BY Finiteness, FS_Subset, FS_CardinalityType
  <1>3. Cardinality(active) + Cardinality(Adding) < MaxParallel + Cardinality(GroupClients)
    BY DEF ParallelBound, Adding, In
  <1>4. Cardinality(active') + Cardinality(Adding') < MaxParallel + Cardinality(GroupClients)
    BY <1>1, <1>2, <1>3, Finiteness, GroupAssumption
  <1> QED BY <1>4 DEF ParallelBound, Adding, In

LEMMA AddTestsBound ==
  ASSUME IInv, IInv', ParallelBound, NEW c \in GroupClients, AddTests(c)
  PROVE  ParallelBound'
  <1>1. CASE Room
    <2>1. Cardinality(active') < MaxParallel /\ Cardinality(active') \in Nat
      BY <1>1, Finiteness DEF AddTests, Room, IInv
    <2>2. /\ Cardinality(Adding') <= Cardinality(GroupClients)
          /\ Cardinality(Adding') \in Nat /\ Cardinality(GroupClients) \in Nat
      <3>1. IsFiniteSet(GroupClients) /\ Adding' \subseteq GroupClients
        BY GroupAssumption DEF Adding
      <3> QED BY <3>1, FS_Subset, FS_CardinalityType
    <2>3. Cardinality(active') + Cardinality(Adding') < MaxParallel + Cardinality(GroupClients)
      BY <2>1, <2>2, GroupAssumption
    <2> QED BY <2>3 DEF ParallelBound, Adding, In
  <1>2. CASE ~Room
    <2>1. Adding' \subseteq Adding /\ active' \subseteq active
      BY <1>2 DEF AddTests, Adding, IInv, GroupTypeOK
    <2> QED BY <2>1, ShrinkBound DEF IInv
  <1> QED BY <1>1, <1>2

LEMMA AddsBound ==
  ASSUME IInv, ParallelBound, NEW c \in GroupClients, Adds(c)
  PROVE  ParallelBound'
  <1>1. Adding' = Adding \ {c} /\ c \in Adding
    BY DEF Adds, Adding, IInv, GroupTypeOK
  <1>2. Cardinality(Adding') = Cardinality(Adding) - 1
    BY <1>1, Finiteness, FS_RemoveElement DEF IInv
  <1>3. CASE active' \subseteq active
    BY <1>1, <1>3, ShrinkBound DEF IInv
  <1>4. ASSUME NEW t \in Tasks \ Added, active' = active \cup {t}
        PROVE  ParallelBound'
    <2>1. t \notin active
      BY <1>4 DEF IInv, ActiveInv, Added
    <2>2. Cardinality(active') = Cardinality(active) + 1
      BY <1>4, <2>1, Finiteness, FS_AddElement DEF IInv
    <2>3. Cardinality(active) + Cardinality(Adding) < MaxParallel + Cardinality(GroupClients)
      BY DEF ParallelBound, Adding, In
    <2>4. Cardinality(active') + Cardinality(Adding') < MaxParallel + Cardinality(GroupClients)
      BY <1>2, <2>2, <2>3, Finiteness, GroupAssumption DEF IInv
    <2> QED BY <2>4 DEF ParallelBound, Adding, In
  <1> QED BY <1>3, <1>4 DEF Adds

LEMMA NextBound ==
  ASSUME IInv, IInv', ParallelBound, [GroupNext]_groupVars
  PROVE  ParallelBound'
  <1> USE DEF IInv
  <1>1. CASE UNCHANGED groupVars
    BY <1>1, ShrinkBound DEF groupVars, groupClientVars, Adding
  <1>2. ASSUME NEW c \in GroupClients, Call(c) PROVE ParallelBound'
    <2>1. active' = active /\ gpc[c] = "idle"
      BY <1>2 DEF Call, AddCalled, WaitCalled, HandleCalled, StopCalled, DestroyGroup, SetStopOnError, Calls
    <2>2. \E s \in GroupClientStates \ {"adding"} : gpc' = [gpc EXCEPT ![c] = s]
      BY <1>2, <2>1 DEF Call, AddCalled, WaitCalled, HandleCalled, StopCalled, DestroyGroup,
                        SetStopOnError, Calls, groupClientVars, GroupClientStates, GroupTypeOK
    <2>3. Adding' \subseteq Adding
      BY <2>2 DEF Adding, GroupTypeOK
    <2> QED BY <2>1, <2>3, ShrinkBound
  <1>3. ASSUME NEW c \in GroupClients, GroupClientStep(c) PROVE ParallelBound'
    <2>1. CASE AddTests(c)
      BY <2>1, AddTestsBound
    <2>2. CASE Adds(c)
      BY <2>2, AddsBound
    <2>3. CASE ~AddTests(c) /\ ~Adds(c)
      <3>1. active' = active
        BY <1>3, <2>3 DEF GroupClientStep, WaitTests, HandlesNothing, HandlePops, HandlesInterrupted,
                          HandlesSuccess, HandlesFailure, StopBegins, StopEnds, Cancels
      <3>2. \/ gpc' = gpc
            \/ \E s \in GroupClientStates \ {"adding"} : gpc' = [gpc EXCEPT ![c] = s]
        <4>1. ASSUME NEW r \in {"true", "false", "throw"}, HandleReturns(c, r)
              PROVE  \E s \in GroupClientStates \ {"adding"} : gpc' = [gpc EXCEPT ![c] = s]
          BY <4>1, ContinuesType DEF HandleReturns, GroupClientStates
        <4>2. CASE WaitTests(c) \/ HandlePops(c) \/ StopBegins(c)
          BY <4>2 DEF WaitTests, HandlePops, StopBegins, GroupClientStates
        <4>3. CASE HandlesNothing(c) \/ HandlesInterrupted(c) \/ HandlesSuccess(c)
          BY <4>1, <4>3 DEF HandlesNothing, HandlesInterrupted, HandlesSuccess
        <4>4. CASE HandlesFailure(c)
          BY <4>1, <4>4 DEF HandlesFailure, GroupClientStates
        <4>5. CASE StopEnds(c)
          BY <4>1, <4>5 DEF StopEnds, GroupClientStates
        <4>6. CASE \E t \in Tasks : Cancels(c, t)
          BY <4>6 DEF Cancels, groupClientVars
        <4> QED BY <1>3, <2>3, <4>2, <4>3, <4>4, <4>5, <4>6 DEF GroupClientStep
      <3>3. Adding' \subseteq Adding
        BY <3>2 DEF Adding, GroupTypeOK
      <3> QED BY <3>1, <3>3, ShrinkBound
    <2> QED BY <2>1, <2>2, <2>3
  <1>4. ASSUME NEW t \in Tasks, TaskStep(t) PROVE ParallelBound'
    <2>1. active' \subseteq active
      BY <1>4 DEF TaskStep, TaskEnds, TaskUnlocks, TaskCompletes, TaskWakes
    <2>2. Adding' \subseteq Adding
      BY <1>4 DEF TaskStep, TaskEnds, TaskUnlocks, TaskCompletes, TaskWakes, groupClientVars,
                  Adding, GroupTypeOK
    <2> QED BY <2>1, <2>2, ShrinkBound
  <1> QED BY <1>1, <1>2, <1>3, <1>4 DEF GroupNext

(* However many threads add tasks at a time, the bound is exceeded by no more tasks
   than there are other threads (AsyncTaskGroup.cpp:25-40).                           *)
THEOREM ParallelTasks == GroupSpec => []ParallelBound
  <1>1. GroupInit => ParallelBound
    <2> SUFFICES ASSUME GroupInit PROVE ParallelBound
      OBVIOUS
    <2>1. active = {} /\ In("adding") = {}
      BY DEF GroupInit, In
    <2>2. Cardinality({}) = 0 /\ Cardinality(GroupClients) \in Nat
      BY FS_EmptySet, FS_CardinalityType, GroupAssumption
    <2> QED BY <2>1, <2>2, GroupAssumption DEF ParallelBound
  <1>2. IInv /\ IInv' /\ ParallelBound /\ [GroupNext]_groupVars => ParallelBound'
    BY NextBound
  <1> QED BY InitIInv, NextIInv, <1>1, <1>2, PTL DEF GroupSpec

-----------------------------------------------------------------------------
(* Where each task is *)

(* The tasks whose callback has run. *)
Passed == {t \in Tasks : tpc[t] \in {"waking", "ended"}}

(* A task that was completed is in the list once, or in the hands of one client. *)
PlacesInv ==
  /\ Distinct(completed)
  /\ Completed \cup InHands \subseteq Passed
  /\ Completed \cap InHands = {}
  /\ \A c, d \in GroupClients : c # d /\ handling[c] = handling[d] => handling[c] = NoTask

(* The tasks that were handled and counted: status does not change any more. *)
Counted == {t \in Passed \ (Completed \cup InHands) : status[t] # "interrupted"}

CountInv == numSucceeded + numFailed = Cardinality(Counted)

AccountInv == IInv /\ PlacesInv /\ CountInv

(* The first completed task is taken out of the list. *)
LEMMA FirstPopped ==
  ASSUME completed \in Seq(Tasks), completed # << >>, Distinct(completed),
         completed' = Tail(completed)
  PROVE  /\ Distinct(completed') /\ Head(completed) \in Completed
         /\ Completed' = Completed \ {Head(completed)}
<1>1. /\ ToSet(Tail(completed)) = ToSet(completed) \ {Head(completed)}
      /\ Head(completed) \in ToSet(completed) /\ Distinct(Tail(completed))
  BY FirstTaken
<1>2. Completed = ToSet(completed) /\ Completed' = ToSet(completed')
  BY DEF Completed, ToSet
<1> QED BY <1>1, <1>2

(* A step that moves no task between its places and changes no count. *)
LEMMA QuietAccount ==
  ASSUME AccountInv, UNCHANGED <<completed, numSucceeded, numFailed>>,
         handling' = handling, Passed' = Passed,
         \A t \in Passed : status'[t] = status[t]
  PROVE  PlacesInv' /\ CountInv'
<1>1. Completed' = Completed /\ InHands' = InHands
  BY DEF Completed, InHands
<1>2. Counted' = Counted
  BY <1>1 DEF Counted
<1> QED BY <1>1, <1>2 DEF AccountInv, PlacesInv, CountInv, Distinct

LEMMA CountedFinite == IsFiniteSet(Counted) /\ Cardinality(Counted) \in Nat
BY GroupAssumption, FS_Subset, FS_CardinalityType DEF Counted, Passed

(* The task's callback puts it into the list. *)
LEMMA TaskStepAccount ==
  ASSUME AccountInv, NEW t \in Tasks, TaskStep(t)
  PROVE  PlacesInv' /\ CountInv'
<1>0. GroupTypeOK
  BY DEF AccountInv, IInv
<1>1. CASE TaskEnds(t)
  <2>1. Passed' = Passed /\ t \notin Passed
    BY <1>0, <1>1 DEF TaskEnds, Passed, GroupTypeOK
  <2>2. \A u \in Passed : status'[u] = status[u]
    BY <1>0, <1>1, <2>1 DEF TaskEnds, Passed, GroupTypeOK
  <2> QED BY <1>1, <2>1, <2>2, QuietAccount DEF TaskEnds, groupClientVars
<1>2. CASE TaskUnlocks(t)
  <2>1. Passed' = Passed
    BY <1>0, <1>2 DEF TaskUnlocks, Passed, GroupTypeOK
  <2> QED BY <1>2, <2>1, QuietAccount DEF TaskUnlocks, groupClientVars
<1>3. CASE TaskCompletes(t)
  <2>1. Passed' = Passed \cup {t} /\ t \notin Passed
    BY <1>0, <1>3 DEF TaskCompletes, Passed, GroupTypeOK
  <2>2. completed \in Seq(Tasks) /\ completed' = Append(completed, t) /\ handling' = handling
        /\ status' = status /\ numSucceeded' = numSucceeded /\ numFailed' = numFailed
    BY <1>0, <1>3 DEF TaskCompletes, GroupTypeOK, groupClientVars
  <2>3. Distinct(completed) /\ t \notin Completed /\ t \notin InHands
    BY <2>1 DEF AccountInv, PlacesInv
  <2>4. Completed' = Completed \cup {t} /\ InHands' = InHands /\ Distinct(completed')
    BY <2>2, <2>3, Appended DEF Completed, InHands, ToSet
  <2>5. PlacesInv'
    BY <2>1, <2>2, <2>3, <2>4 DEF AccountInv, PlacesInv, Distinct
  <2>6. Counted' = Counted
    BY <2>1, <2>2, <2>4 DEF Counted
  <2> QED BY <2>2, <2>5, <2>6 DEF AccountInv, CountInv
<1>4. CASE TaskWakes(t)
  <2>1. Passed' = Passed
    BY <1>0, <1>4 DEF TaskWakes, Passed, GroupTypeOK
  <2> QED BY <1>4, <2>1, QuietAccount DEF TaskWakes
<1> QED BY <1>1, <1>2, <1>3, <1>4 DEF TaskStep

(* The end of handle_finished(): the task in hand is counted if it was not interrupted. *)
LEMMA HandledAccount ==
  ASSUME AccountInv, NEW c \in GroupClients, gpc[c] = "joining",
         handling' = [handling EXCEPT ![c] = NoTask],
         UNCHANGED <<completed, tpc, status>>,
         \/ /\ status[handling[c]] = "interrupted"
            /\ numSucceeded' + numFailed' = numSucceeded + numFailed
         \/ /\ status[handling[c]] # "interrupted"
            /\ numSucceeded' + numFailed' = numSucceeded + numFailed + 1
  PROVE  PlacesInv' /\ CountInv'
<1> DEFINE h == handling[c]
<1>1. h \in InHands /\ handling \in [GroupClients -> Tasks \cup {NoTask}] /\ h # NoTask
      /\ numSucceeded \in Nat /\ numFailed \in Nat
  BY DEF AccountInv, IInv, GroupTypeOK, InHands
<1>2. h \in Passed /\ h \notin Completed
  BY <1>1 DEF AccountInv, PlacesInv
<1>3. /\ handling'[c] = NoTask
      /\ \A d \in GroupClients \ {c} : handling'[d] = handling[d] /\ handling[d] # h
  BY <1>1 DEF AccountInv, PlacesInv
<1>4. Completed' = Completed /\ Passed' = Passed
  BY DEF Completed, Passed
<1>5. InHands' = InHands \ {h}
  BY <1>1, <1>3 DEF InHands
<1>6. PlacesInv'
  BY <1>3, <1>4, <1>5 DEF AccountInv, PlacesInv, Distinct
<1>7. Counted' = IF status[h] = "interrupted" THEN Counted ELSE Counted \cup {h}
  BY <1>1, <1>2, <1>4, <1>5 DEF Counted
<1>8. h \notin Counted
  BY <1>1 DEF Counted
<1>9. CountInv'
  <2>1. CASE status[h] = "interrupted"
    BY <1>7, <2>1 DEF AccountInv, CountInv
  <2>2. CASE status[h] # "interrupted"
    <3>1. Cardinality(Counted \cup {h}) = Cardinality(Counted) + 1
      BY <1>8, CountedFinite, FS_AddElement
    <3> QED BY <1>7, <2>2, <3>1 DEF AccountInv, CountInv
  <2> QED BY <2>1, <2>2
<1> QED BY <1>6, <1>9

LEMMA PopsAccount ==
  ASSUME AccountInv, NEW c \in GroupClients, HandlePops(c)
  PROVE  PlacesInv' /\ CountInv'
<1> DEFINE h == Head(completed)
<1>1. /\ completed \in Seq(Tasks) /\ completed # << >> /\ completed' = Tail(completed)
      /\ handling \in [GroupClients -> Tasks \cup {NoTask}] /\ handling[c] = NoTask
      /\ handling' = [handling EXCEPT ![c] = h] /\ tpc' = tpc /\ status' = status
      /\ numSucceeded' = numSucceeded /\ numFailed' = numFailed
  BY DEF AccountInv, IInv, GroupTypeOK, HandlePops, Popped, taskVars
<1>2. Distinct(completed)
  BY DEF AccountInv, PlacesInv
<1>3. Distinct(completed') /\ h \in Completed /\ Completed' = Completed \ {h}
  BY <1>1, <1>2, FirstPopped DEF h
<1>4. h \in Passed /\ h \in Tasks /\ h # NoTask /\ h \notin InHands
  BY <1>3, GroupAssumption DEF AccountInv, PlacesInv, Passed
<1>5. handling'[c] = h /\ \A d \in GroupClients \ {c} : handling'[d] = handling[d] /\ handling[d] # h
  BY <1>1, <1>4 DEF InHands
<1>6. InHands' = InHands \cup {h}
  BY <1>1, <1>4, <1>5 DEF InHands
<1>7. Passed' = Passed
  BY <1>1 DEF Passed
<1>8. PlacesInv'
  <2>1. \A d, e \in GroupClients : d # e /\ handling'[d] = handling'[e] => handling'[d] = NoTask
    BY <1>5 DEF AccountInv, PlacesInv
  <2>2. Completed' \cup InHands' \subseteq Passed' /\ Completed' \cap InHands' = {}
    BY <1>3, <1>4, <1>6, <1>7 DEF AccountInv, PlacesInv
  <2>3. Distinct(completed)'
    BY <1>3 DEF Distinct
  <2> QED BY <2>1, <2>2, <2>3 DEF PlacesInv
<1>9. Counted' = Counted
  BY <1>1, <1>3, <1>6, <1>7 DEF Counted
<1> QED BY <1>1, <1>8, <1>9 DEF AccountInv, CountInv

LEMMA ClientStepAccount ==
  ASSUME AccountInv, NEW c \in GroupClients, GroupClientStep(c)
  PROVE  PlacesInv' /\ CountInv'
<1>0. GroupTypeOK
  BY DEF AccountInv, IInv
<1>1. numSucceeded \in Nat /\ numFailed \in Nat
  BY <1>0 DEF GroupTypeOK
<1>2. CASE Adds(c)
  <2>1. Passed' = Passed
    BY <1>0, <1>2 DEF Adds, Passed, GroupTypeOK, Added
  <2> QED BY <1>2, <2>1, QuietAccount DEF Adds
<1>3. CASE AddTests(c) \/ WaitTests(c) \/ HandlesNothing(c) \/ StopBegins(c) \/ StopEnds(c)
           \/ \E t \in Tasks : Cancels(c, t)
  <2>1. UNCHANGED <<completed, numSucceeded, numFailed, handling, tpc, status>>
    BY <1>3 DEF AddTests, WaitTests, HandlesNothing, StopBegins, StopEnds, Cancels, taskVars,
                groupClientVars
  <2> QED BY <2>1, QuietAccount DEF Passed
<1>4. CASE HandlePops(c)
  BY <1>4, PopsAccount
<1>5. CASE HandlesInterrupted(c)
  <2>1. /\ gpc[c] = "joining" /\ status[handling[c]] = "interrupted"
        /\ numSucceeded' = numSucceeded /\ numFailed' = numFailed
        /\ handling' = [handling EXCEPT ![c] = NoTask] /\ UNCHANGED <<completed, tpc, status>>
    BY <1>5 DEF HandlesInterrupted, taskVars
  <2>2. numSucceeded' + numFailed' = numSucceeded + numFailed
    BY <1>1, <2>1
  <2> QED BY <2>1, <2>2, HandledAccount
<1>6. CASE HandlesSuccess(c)
  <2>1. /\ gpc[c] = "joining" /\ status[handling[c]] # "interrupted"
        /\ numSucceeded' = numSucceeded + 1 /\ numFailed' = numFailed
        /\ handling' = [handling EXCEPT ![c] = NoTask] /\ UNCHANGED <<completed, tpc, status>>
    BY <1>6 DEF HandlesSuccess, taskVars
  <2>2. numSucceeded' + numFailed' = numSucceeded + numFailed + 1
    BY <1>1, <2>1
  <2> QED BY <2>1, <2>2, HandledAccount
<1>7. CASE HandlesFailure(c)
  <2>1. /\ gpc[c] = "joining" /\ status[handling[c]] # "interrupted"
        /\ numFailed' = numFailed + 1 /\ numSucceeded' = numSucceeded
        /\ handling' = [handling EXCEPT ![c] = NoTask] /\ UNCHANGED <<completed, tpc, status>>
    BY <1>7 DEF HandlesFailure, taskVars
  <2>2. numSucceeded' + numFailed' = numSucceeded + numFailed + 1
    BY <1>1, <2>1
  <2> QED BY <2>1, <2>2, HandledAccount
<1> QED BY <1>2, <1>3, <1>4, <1>5, <1>6, <1>7 DEF GroupClientStep

LEMMA InitAccount == GroupInit => AccountInv
<1> SUFFICES ASSUME GroupInit PROVE PlacesInv /\ CountInv
  BY InitIInv DEF AccountInv
<1>1. completed = << >> /\ numSucceeded = 0 /\ numFailed = 0 /\ Passed = {} /\ Counted = {}
  BY DEF GroupInit, Passed, Counted
<1>2. Completed = {} /\ InHands = {} /\ Distinct(completed)
  BY <1>1 DEF GroupInit, Completed, InHands, Distinct
<1>3. \A c \in GroupClients : handling[c] = NoTask
  BY DEF GroupInit
<1> QED BY <1>1, <1>2, <1>3, FS_EmptySet DEF PlacesInv, CountInv

LEMMA NextAccount == AccountInv /\ [GroupNext]_groupVars => AccountInv'
<1> SUFFICES ASSUME AccountInv, [GroupNext]_groupVars PROVE PlacesInv' /\ CountInv'
  BY NextIInv DEF AccountInv
<1>1. CASE UNCHANGED groupVars
  BY <1>1, QuietAccount DEF groupVars, taskVars, groupClientVars, Passed
<1>2. ASSUME NEW c \in GroupClients, Call(c) PROVE PlacesInv' /\ CountInv'
  <2>1. UNCHANGED <<completed, numSucceeded, numFailed, handling, tpc, status>>
    BY <1>2 DEF Call, AddCalled, WaitCalled, HandleCalled, StopCalled, DestroyGroup, SetStopOnError,
                Calls, taskVars, groupClientVars
  <2> QED BY <2>1, QuietAccount DEF Passed
<1>3. ASSUME NEW c \in GroupClients, GroupClientStep(c) PROVE PlacesInv' /\ CountInv'
  BY <1>3, ClientStepAccount
<1>4. ASSUME NEW t \in Tasks, TaskStep(t) PROVE PlacesInv' /\ CountInv'
  BY <1>4, TaskStepAccount
<1> QED BY <1>1, <1>2, <1>3, <1>4 DEF GroupNext

LEMMA AccountsAgree == AccountInv => TasksAccounted
<1> SUFFICES ASSUME AccountInv PROVE TasksAccounted
  OBVIOUS
<1>1. active = {t \in Tasks : tpc[t] \in {"running", "finishing", "notifying"}}
  BY DEF AccountInv, IInv, ActiveInv
<1>2. active \cap Passed = {} /\ Passed = Added \ active
  BY <1>1 DEF Passed, Added, AccountInv, IInv, GroupTypeOK, TaskStates
<1>3. Handled = Passed \ (Completed \cup InHands)
  BY <1>2 DEF Handled, AccountInv, PlacesInv
<1>4. Len(completed) = Cardinality(Completed)
  BY ListedSet DEF Completed, ToSet, AccountInv, IInv, GroupTypeOK, PlacesInv
<1>5. active \cap Completed = {} /\ (active \cup Completed) \cap InHands = {}
      /\ \A c, d \in GroupClients : c # d /\ handling[c] = handling[d] => handling[c] = NoTask
  BY <1>2 DEF AccountInv, PlacesInv
<1>6. numSucceeded + numFailed
        = Cardinality(Handled) - Cardinality({t \in Handled : status[t] = "interrupted"})
  <2> DEFINE I == {t \in Handled : status[t] = "interrupted"}
  <2>1. IsFiniteSet(Handled) /\ IsFiniteSet(I)
    BY GroupAssumption, FS_Subset DEF Handled, Added
  <2>2. Counted = Handled \ I
    BY <1>3 DEF Counted
  <2>3. Cardinality(Handled \ I) = Cardinality(Handled) - Cardinality(Handled \cap I)
    BY <2>1, FS_Difference
  <2>4. Handled \cap I = I
    OBVIOUS
  <2> QED BY <2>2, <2>3, <2>4 DEF AccountInv, CountInv
<1> QED BY <1>1, <1>4, <1>5, <1>6 DEF TasksAccounted

(* Each task that was added is active, completed, in the hands of one client or handled,
   and a handled one was counted once, or interrupted (AsyncTaskGroup.cpp:165-220). *)
THEOREM EachTaskHandledOnce == GroupSpec => []TasksAccounted
BY InitAccount, NextAccount, AccountsAgree, PTL DEF GroupSpec

-----------------------------------------------------------------------------
(* The end of the group *)

(* The thread of a handled task was joined. *)
JoinedInv == \A t \in Handled : tpc[t] = "ended"

(* The destructor is called by one client, when no other is inside the group or can enter
   it, and is always somewhere on its way: about to find nothing, it has no active task.  *)
OnTheWay == {"stopWanted", "stopping", "waitSome", "waiting", "handling", "joining"}

CloseInv ==
  /\ \A c \in GroupClients : caller[c] = "destroy" =>
       /\ groupPhase \in {"closing", "failing"}
       /\ gpc[c] \in OnTheWay
       /\ gpc[c] \in {"stopWanted", "stopping"} => after[c] \in {"wait", "throw"}
       /\ gpc[c] = "handling" => active = {} \/ completed # << >>
  /\ groupPhase # "open" => \A c \in GroupClients : gpc[c] # "idle" => caller[c] = "destroy"
  /\ \A c, d \in GroupClients : caller[c] = "destroy" /\ caller[d] = "destroy" => c = d
  /\ DestroyedUnused

EndInv == AccountInv /\ JoinedInv /\ CloseInv

LEMMA HandledIsPassed ==
  ASSUME AccountInv
  PROVE  Handled = Passed \ (Completed \cup InHands)
<1>1. active = {t \in Tasks : tpc[t] \in {"running", "finishing", "notifying"}}
  BY DEF AccountInv, IInv, ActiveInv
<1>2. Passed = Added \ active
  BY <1>1 DEF Passed, Added, AccountInv, IInv, GroupTypeOK, TaskStates
<1> QED BY <1>2 DEF Handled, AccountInv, PlacesInv

(* A thread that ended stays so, and a task is handled by the client that joined it. *)
LEMMA NextJoined ==
  ASSUME AccountInv, AccountInv', JoinedInv, [GroupNext]_groupVars
  PROVE  JoinedInv'
<1>0. /\ GroupTypeOK /\ Handled = Passed \ (Completed \cup InHands)
      /\ Handled' = Passed' \ (Completed' \cup InHands')
  <2>1. active' = {t \in Tasks : tpc'[t] \in {"running", "finishing", "notifying"}}
        /\ tpc' \in [Tasks -> TaskStates]
    BY DEF AccountInv, IInv, ActiveInv, GroupTypeOK
  <2>2. Passed' = Added' \ active'
    BY <2>1 DEF Passed, Added, TaskStates
  <2>3. Handled' = Passed' \ (Completed' \cup InHands')
    BY <2>2 DEF Handled
  <2> QED BY <2>3, HandledIsPassed DEF AccountInv, IInv
<1>1. ASSUME tpc' = tpc, Completed \cup InHands \subseteq Completed' \cup InHands' PROVE JoinedInv'
  <2>1. Handled' \subseteq Handled
    BY <1>0, <1>1 DEF Passed
  <2> QED BY <1>1, <2>1 DEF JoinedInv
<1>2. ASSUME NEW c \in GroupClients, gpc[c] = "joining", Joined(handling[c]), tpc' = tpc,
             completed' = completed, handling' = [handling EXCEPT ![c] = NoTask]
      PROVE  JoinedInv'
  <2>1. handling \in [GroupClients -> Tasks \cup {NoTask}]
    BY <1>0 DEF GroupTypeOK
  <2>2. \A d \in GroupClients \ {c} : handling'[d] = handling[d]
    BY <1>2, <2>1
  <2>3. InHands \subseteq InHands' \cup {handling[c]}
    BY <2>1, <2>2 DEF InHands
  <2>4. Completed' = Completed /\ Passed' = Passed
    BY <1>2 DEF Completed, Passed
  <2>5. Handled' \subseteq Handled \cup {handling[c]}
    BY <1>0, <2>3, <2>4
  <2> QED BY <1>2, <2>5 DEF JoinedInv, Joined
<1>3. CASE UNCHANGED groupVars
  BY <1>1, <1>3 DEF groupVars, taskVars, groupClientVars, Completed, InHands
<1>4. ASSUME NEW c \in GroupClients, Call(c) PROVE JoinedInv'
  <2>1. UNCHANGED <<completed, handling, tpc>>
    BY <1>4 DEF Call, AddCalled, WaitCalled, HandleCalled, StopCalled, DestroyGroup, SetStopOnError,
                Calls, taskVars, groupClientVars
  <2> QED BY <1>1, <2>1 DEF Completed, InHands
<1>5. ASSUME NEW c \in GroupClients, GroupClientStep(c) PROVE JoinedInv'
  <2>1. CASE Adds(c)
    <3>1. completed' = completed /\ handling' = handling
      BY <2>1 DEF Adds
    <3>2. Completed' = Completed /\ InHands' = InHands
      BY <3>1 DEF Completed, InHands
    <3>3. Passed' = Passed /\ \A t \in Passed : tpc'[t] = tpc[t]
      BY <1>0, <2>1 DEF Adds, Passed, GroupTypeOK, Added
    <3> QED BY <1>0, <3>2, <3>3 DEF JoinedInv
  <2>2. CASE AddTests(c) \/ WaitTests(c) \/ HandlesNothing(c) \/ StopBegins(c) \/ StopEnds(c)
             \/ \E t \in Tasks : Cancels(c, t)
    <3>1. UNCHANGED <<completed, handling, tpc>>
      BY <2>2 DEF AddTests, WaitTests, HandlesNothing, StopBegins, StopEnds, Cancels, taskVars,
                  groupClientVars
    <3> QED BY <1>1, <3>1 DEF Completed, InHands
  <2>3. CASE HandlePops(c)
    <3>1. /\ completed \in Seq(Tasks) /\ completed # << >> /\ completed' = Tail(completed)
          /\ handling \in [GroupClients -> Tasks \cup {NoTask}] /\ handling[c] = NoTask
          /\ handling' = [handling EXCEPT ![c] = Head(completed)] /\ tpc' = tpc
      BY <1>0, <2>3 DEF GroupTypeOK, HandlePops, Popped, taskVars
    <3>2. Distinct(completed)
      BY DEF AccountInv, PlacesInv
    <3>3. Completed' = Completed \ {Head(completed)} /\ Head(completed) \in Completed
      BY <3>1, <3>2, FirstPopped
    <3>4. Head(completed) # NoTask
      BY <3>1, GroupAssumption
    <3>5. handling'[c] = Head(completed) /\ \A d \in GroupClients \ {c} : handling'[d] = handling[d]
      BY <3>1
    <3>6. InHands \cup {Head(completed)} \subseteq InHands'
      BY <3>1, <3>4, <3>5 DEF InHands
    <3> QED BY <1>1, <3>1, <3>3, <3>6
  <2>4. CASE HandlesInterrupted(c) \/ HandlesSuccess(c) \/ HandlesFailure(c)
    BY <1>2, <2>4 DEF HandlesInterrupted, HandlesSuccess, HandlesFailure, taskVars
  <2> QED BY <1>5, <2>1, <2>2, <2>3, <2>4 DEF GroupClientStep
<1>6. ASSUME NEW t \in Tasks, TaskStep(t) PROVE JoinedInv'
  <2>1. CASE TaskCompletes(t)
    <3>1. Passed' = Passed \cup {t} /\ \A u \in Tasks \ {t} : tpc'[u] = tpc[u]
      BY <1>0, <2>1 DEF TaskCompletes, Passed, GroupTypeOK
    <3>2. completed \in Seq(Tasks) /\ completed' = Append(completed, t) /\ handling' = handling
      BY <1>0, <2>1 DEF TaskCompletes, GroupTypeOK, groupClientVars
    <3>3. Completed' = Completed \cup {t} /\ InHands' = InHands
      BY <3>2, Appended DEF Completed, InHands, ToSet
    <3>4. Handled' \subseteq Handled \ {t}
      BY <1>0, <3>1, <3>3
    <3>5. Handled \subseteq Tasks
      BY DEF Handled, Added
    <3> QED BY <3>1, <3>4, <3>5 DEF JoinedInv
  <2>2. CASE TaskEnds(t) \/ TaskUnlocks(t) \/ TaskWakes(t)
    <3>1. completed' = completed /\ handling' = handling
      BY <2>2 DEF TaskEnds, TaskUnlocks, TaskWakes, groupClientVars
    <3>2. Completed' = Completed /\ InHands' = InHands
      BY <3>1 DEF Completed, InHands
    <3>3. Passed' = Passed /\ \A u \in Passed : tpc[u] = "ended" => tpc'[u] = "ended"
      BY <1>0, <2>2 DEF TaskEnds, TaskUnlocks, TaskWakes, Passed, GroupTypeOK
    <3> QED BY <1>0, <3>2, <3>3 DEF JoinedInv
  <2> QED BY <1>6, <2>1, <2>2 DEF TaskStep
<1> QED BY <1>3, <1>4, <1>5, <1>6 DEF GroupNext

(* A step while the group is open. *)
LEMMA OpenClose ==
  ASSUME groupPhase' = "open", \A c \in GroupClients : caller'[c] # "destroy"
  PROVE  CloseInv'
BY DEF CloseInv, DestroyedUnused

(* A step of the destructor that does not end it. *)
LEMMA DestroyerMoves ==
  ASSUME GroupTypeOK, CloseInv, NEW c \in GroupClients, caller[c] = "destroy", caller' = caller,
         groupPhase' \in {"closing", "failing"},
         NEW s \in OnTheWay, gpc' = [gpc EXCEPT ![c] = s],
         s \in {"stopWanted", "stopping"} => after'[c] \in {"wait", "throw"},
         s = "handling" => active' = {} \/ completed' # << >>
  PROVE  CloseInv'
<1>1. gpc'[c] = s /\ \A d \in GroupClients \ {c} : gpc'[d] = gpc[d]
  BY DEF GroupTypeOK
<1>2. \A d \in GroupClients : caller[d] = "destroy" => d = c
  BY DEF CloseInv
<1>3. \A d \in GroupClients \ {c} : gpc[d] = "idle"
  BY <1>2 DEF CloseInv
<1>4. DestroyedUnused'
  BY DEF DestroyedUnused
<1> QED BY <1>1, <1>2, <1>3, <1>4 DEF CloseInv

LEMMA CallClose ==
  ASSUME EndInv, NEW c \in GroupClients, Call(c)
  PROVE  CloseInv'
<1>0. GroupTypeOK /\ CloseInv
  BY DEF EndInv, AccountInv, IInv
<1>1. groupPhase = "open" /\ \A d \in GroupClients : caller[d] # "destroy"
  BY <1>0 DEF Call, AddCalled, WaitCalled, HandleCalled, StopCalled, DestroyGroup, SetStopOnError,
              Calls, CloseInv
<1>2. CASE AddCalled(c) \/ WaitCalled(c) \/ HandleCalled(c) \/ StopCalled(c)
  <2>1. /\ groupPhase' = groupPhase
        /\ \E o \in {"add", "wait", "handle", "none"} : caller' = [caller EXCEPT ![c] = o]
    BY <1>2 DEF AddCalled, WaitCalled, HandleCalled, StopCalled, Calls
  <2>2. \A d \in GroupClients : caller'[d] # "destroy"
    BY <1>0, <1>1, <2>1 DEF GroupTypeOK
  <2> QED BY <1>1, <2>1, <2>2, OpenClose
<1>3. CASE SetStopOnError(c)
  BY <1>1, <1>3, OpenClose DEF SetStopOnError, groupClientVars
<1>4. CASE DestroyGroup(c)
  <2>1. /\ groupPhase' = "closing" /\ caller' = [caller EXCEPT ![c] = "destroy"]
        /\ gpc' = [gpc EXCEPT ![c] = "stopWanted"] /\ after' = [after EXCEPT ![c] = "wait"]
        /\ \A d \in GroupClients : gpc[d] = "idle"
    BY <1>4 DEF DestroyGroup, Calls, In
  <2>2. /\ caller'[c] = "destroy" /\ gpc'[c] = "stopWanted" /\ after'[c] = "wait"
        /\ \A d \in GroupClients \ {c} : caller'[d] = caller[d] /\ gpc'[d] = gpc[d]
    BY <1>0, <2>1 DEF GroupTypeOK
  <2> QED BY <1>1, <2>1, <2>2 DEF CloseInv, OnTheWay, DestroyedUnused
<1> QED BY <1>2, <1>3, <1>4 DEF Call

(* handle_finished() of another operation does not end the group. *)
LEMMA OthersClose ==
  ASSUME EndInv, NEW c \in GroupClients, GroupClientStep(c), caller[c] # "destroy"
  PROVE  CloseInv'
<1>0. GroupTypeOK /\ CloseInv
  BY DEF EndInv, AccountInv, IInv
<1>1. gpc[c] # "idle"
  BY DEF GroupClientStep, AddTests, Adds, WaitTests, HandlesNothing, HandlePops, HandlesInterrupted,
         HandlesSuccess, HandlesFailure, StopBegins, StopEnds, Cancels
<1>2. groupPhase = "open" /\ \A d \in GroupClients : caller[d] # "destroy"
  BY <1>0, <1>1 DEF CloseInv
<1>3. ASSUME NEW r \in {"true", "false", "throw"}, HandleReturns(c, r)
      PROVE  groupPhase' = groupPhase /\ caller' \in {caller, [caller EXCEPT ![c] = "none"]}
  BY <1>0, <1>3 DEF HandleReturns, GroupTypeOK
<1>4. groupPhase' = groupPhase /\ caller' \in {caller, [caller EXCEPT ![c] = "none"]}
  <2>1. CASE AddTests(c) \/ Adds(c) \/ WaitTests(c) \/ HandlePops(c) \/ StopBegins(c)
             \/ \E t \in Tasks : Cancels(c, t)
    BY <2>1 DEF AddTests, Adds, WaitTests, HandlePops, StopBegins, Cancels, groupClientVars
  <2>2. CASE HandlesNothing(c) \/ HandlesInterrupted(c) \/ HandlesSuccess(c)
    BY <1>3, <2>2 DEF HandlesNothing, HandlesInterrupted, HandlesSuccess
  <2>3. CASE HandlesFailure(c)
    BY <1>3, <2>3 DEF HandlesFailure
  <2>4. CASE StopEnds(c)
    BY <1>3, <2>4 DEF StopEnds
  <2> QED BY <2>1, <2>2, <2>3, <2>4 DEF GroupClientStep
<1>5. \A d \in GroupClients : caller'[d] # "destroy"
  BY <1>0, <1>2, <1>4 DEF GroupTypeOK
<1> QED BY <1>2, <1>4, <1>5, OpenClose

(* What handle_finished() returns, or throws, leads the destructor back to its wait, but
   for the "nothing" that ends it.                                                        *)
LEMMA DestroyerReturns ==
  ASSUME GroupTypeOK, CloseInv, NEW c \in GroupClients, caller[c] = "destroy",
         NEW r \in {"true", "throw"}, HandleReturns(c, r)
  PROVE  CloseInv'
<1>1. Continues(c, r) = "waitSome"
  BY DEF Continues, GoesOn
<1>2. gpc' = [gpc EXCEPT ![c] = "waitSome"] /\ groupPhase' \in {"failing", groupPhase}
  BY <1>1 DEF HandleReturns
<1>3. caller' = caller
  BY <1>1 DEF HandleReturns, GroupTypeOK
<1>4. groupPhase' \in {"closing", "failing"}
  BY <1>2 DEF CloseInv
<1> QED BY <1>2, <1>3, <1>4, DestroyerMoves DEF OnTheWay

(* The destructor ends with each task that was added handled: joined. *)
LEMMA DestroyerEnds ==
  ASSUME EndInv, NEW c \in GroupClients, caller[c] = "destroy", HandlesNothing(c)
  PROVE  CloseInv'
<1>0. GroupTypeOK /\ CloseInv /\ JoinedInv
  BY DEF EndInv, AccountInv, IInv
<1>1. gpc[c] = "handling" /\ completed = << >> /\ active = {}
  BY <1>0 DEF HandlesNothing, CloseInv
<1>2. \A d \in GroupClients \ {c} : gpc[d] = "idle" /\ caller[d] # "destroy"
  BY <1>0 DEF CloseInv
<1>3. InHands = {} /\ Completed = {}
  <2>1. \A d \in GroupClients : gpc[d] # "joining"
    BY <1>1, <1>2
  <2> QED BY <1>0, <1>1, <2>1 DEF GroupTypeOK, InHands, Completed
<1>4. Handled = Added
  BY <1>1, <1>3 DEF Handled
<1>5. Continues(c, "false") = "idle"
  BY DEF Continues, GoesOn
<1>6. /\ gpc' = [gpc EXCEPT ![c] = "idle"] /\ caller' = [caller EXCEPT ![c] = "none"]
      /\ groupPhase' # "open" /\ tpc' = tpc
  BY <1>5 DEF HandlesNothing, HandleReturns, taskVars
<1>7. \A d \in GroupClients : gpc'[d] = "idle" /\ caller'[d] # "destroy"
  BY <1>0, <1>2, <1>6 DEF GroupTypeOK
<1>8. DestroyedUnused'
  BY <1>0, <1>4, <1>6 DEF DestroyedUnused, JoinedInv, Added
<1> QED BY <1>7, <1>8 DEF CloseInv

LEMMA DestroyerClose ==
  ASSUME EndInv, NEW c \in GroupClients, GroupClientStep(c), caller[c] = "destroy"
  PROVE  CloseInv'
<1>0. GroupTypeOK /\ CloseInv
  BY DEF EndInv, AccountInv, IInv
<1>1. /\ groupPhase \in {"closing", "failing"} /\ gpc[c] \in OnTheWay
      /\ gpc[c] \in {"stopWanted", "stopping"} => after[c] \in {"wait", "throw"}
  BY <1>0 DEF CloseInv
<1>2. CASE AddTests(c) \/ Adds(c)
  BY <1>1, <1>2 DEF AddTests, Adds, OnTheWay
<1>3. CASE WaitTests(c)
  <2>1. CASE active = {} \/ completed # << >>
    <3>1. gpc' = [gpc EXCEPT ![c] = "handling"] /\ caller' = caller /\ groupPhase' = groupPhase
          /\ (active' = {} \/ completed' # << >>)
      BY <1>3, <2>1 DEF WaitTests
    <3> QED BY <1>0, <1>1, <3>1, DestroyerMoves DEF OnTheWay
  <2>2. CASE ~(active = {} \/ completed # << >>)
    <3>1. gpc' = [gpc EXCEPT ![c] = "waiting"] /\ caller' = caller /\ groupPhase' = groupPhase
      BY <1>3, <2>2 DEF WaitTests
    <3> QED BY <1>0, <1>1, <3>1, DestroyerMoves DEF OnTheWay
  <2> QED BY <2>1, <2>2
<1>4. CASE HandlesNothing(c)
  BY <1>4, DestroyerEnds
<1>5. CASE HandlePops(c)
  <2>1. gpc' = [gpc EXCEPT ![c] = "joining"] /\ caller' = caller /\ groupPhase' = groupPhase
    BY <1>5 DEF HandlePops
  <2> QED BY <1>0, <1>1, <2>1, DestroyerMoves DEF OnTheWay
<1>6. CASE HandlesInterrupted(c) \/ HandlesSuccess(c)
  BY <1>0, <1>6, DestroyerReturns DEF HandlesInterrupted, HandlesSuccess
<1>7. CASE HandlesFailure(c)
  <2>1. CASE HandleReturns(c, "throw") \/ HandleReturns(c, "true")
    BY <1>0, <2>1, DestroyerReturns
  <2>2. CASE /\ gpc' = [gpc EXCEPT ![c] = "stopWanted"]
             /\ after' = [after EXCEPT ![c] = "throw"]
             /\ UNCHANGED <<caller, groupPhase>>
    <3>1. after'[c] = "throw"
      BY <1>0, <2>2 DEF GroupTypeOK
    <3> QED BY <1>0, <1>1, <2>2, <3>1, DestroyerMoves DEF OnTheWay
  <2> QED BY <1>7, <2>1, <2>2 DEF HandlesFailure
<1>8. CASE StopBegins(c)
  <2>1. /\ gpc[c] = "stopWanted" /\ gpc' = [gpc EXCEPT ![c] = "stopping"]
        /\ caller' = caller /\ groupPhase' = groupPhase /\ after' = after
    BY <1>8 DEF StopBegins
  <2> QED BY <1>0, <1>1, <2>1, DestroyerMoves DEF OnTheWay
<1>9. CASE StopEnds(c)
  <2>1. CASE HandleReturns(c, "throw")
    BY <1>0, <2>1, DestroyerReturns
  <2>2. CASE ~HandleReturns(c, "throw")
    <3>1. after[c] = "wait"
      BY <1>1, <1>9, <2>2 DEF StopEnds
    <3>2. gpc' = [gpc EXCEPT ![c] = "waitSome"] /\ caller' = caller /\ groupPhase' = groupPhase
      BY <1>9, <2>2, <3>1 DEF StopEnds
    <3> QED BY <1>0, <1>1, <3>2, DestroyerMoves DEF OnTheWay
  <2> QED BY <2>1, <2>2
<1>10. ASSUME NEW t \in Tasks, Cancels(c, t) PROVE CloseInv'
  <2>1. UNCHANGED <<active, completed, gpc, caller, after, groupPhase, tpc>>
    BY <1>10 DEF Cancels, groupClientVars
  <2> QED BY <1>0, <2>1 DEF CloseInv, DestroyedUnused, Added
<1> QED BY <1>2, <1>3, <1>4, <1>5, <1>6, <1>7, <1>8, <1>9, <1>10 DEF GroupClientStep

(* The thread of a task that has not ended finds the group alive. *)
LEMMA TaskStepClose ==
  ASSUME EndInv, NEW t \in Tasks, TaskStep(t)
  PROVE  CloseInv'
<1>0. GroupTypeOK /\ CloseInv
  BY DEF EndInv, AccountInv, IInv
<1>1. tpc[t] \notin {"absent", "ended"} /\ UNCHANGED <<caller, after, groupPhase>>
  BY DEF TaskStep, TaskEnds, TaskUnlocks, TaskCompletes, TaskWakes, groupClientVars
<1>2. groupPhase # "destroyed"
  BY <1>0, <1>1 DEF CloseInv, DestroyedUnused, Added
<1>3. DestroyedUnused'
  BY <1>1, <1>2 DEF DestroyedUnused
<1>4. \A c \in GroupClients : \/ gpc'[c] = gpc[c]
                              \/ gpc[c] = "waiting" /\ gpc'[c] = "waitSome"
  BY DEF TaskStep, TaskEnds, TaskUnlocks, TaskCompletes, TaskWakes, groupClientVars
<1>5. active' \subseteq active /\ (completed # << >> => completed' # << >>)
  <2>1. CASE TaskCompletes(t)
    <3>1. completed \in Seq(Tasks)
      BY <1>0 DEF GroupTypeOK
    <3> QED BY <2>1, <3>1 DEF TaskCompletes
  <2>2. CASE ~TaskCompletes(t)
    BY <2>2 DEF TaskStep, TaskEnds, TaskUnlocks, TaskWakes
  <2> QED BY <2>1, <2>2
<1> QED BY <1>0, <1>1, <1>3, <1>4, <1>5 DEF CloseInv, OnTheWay

LEMMA InitEnd == GroupInit => EndInv
<1> SUFFICES ASSUME GroupInit PROVE JoinedInv /\ CloseInv
  BY InitAccount DEF EndInv
<1>1. JoinedInv
  BY DEF GroupInit, JoinedInv, Handled, Added
<1>2. CloseInv
  BY DEF GroupInit, CloseInv, DestroyedUnused
<1> QED BY <1>1, <1>2

LEMMA NextEnd == EndInv /\ [GroupNext]_groupVars => EndInv'
<1> SUFFICES ASSUME EndInv, [GroupNext]_groupVars PROVE CloseInv'
  BY NextAccount, NextJoined DEF EndInv
<1>1. CASE UNCHANGED groupVars
  BY <1>1 DEF groupVars, taskVars, groupClientVars, EndInv, CloseInv, DestroyedUnused, Added
<1>2. ASSUME NEW c \in GroupClients, Call(c) PROVE CloseInv'
  BY <1>2, CallClose
<1>3. ASSUME NEW c \in GroupClients, GroupClientStep(c) PROVE CloseInv'
  BY <1>3, OthersClose, DestroyerClose
<1>4. ASSUME NEW t \in Tasks, TaskStep(t) PROVE CloseInv'
  BY <1>4, TaskStepClose
<1> QED BY <1>1, <1>2, <1>3, <1>4 DEF GroupNext

(* When the destructor has returned, the thread of each task has ended, and nothing of the
   group is used any more (AsyncTaskGroup.cpp:17-21).                                       *)
THEOREM EndsUnused == GroupSpec => []DestroyedUnused
<1>1. EndInv => DestroyedUnused
  BY DEF EndInv, CloseInv
<1> QED BY InitEnd, NextEnd, <1>1, PTL DEF GroupSpec
-----------------------------------------------------------------------------
(* wait() where one thread handles the tasks that end (MCConcurrency) *)

(* The operation a client is in, told from its control state: only a stop() that was
   called by itself, and returns, belongs to none of those that handle tasks.        *)
CallerFits(state, call, then) ==
  /\ state = "idle" => call = "none"
  /\ state \in {"addLoop", "adding"} => call = "add"
  /\ state \in {"waitSome", "waiting", "handling", "joining"} => call # "none"
  /\ state \in {"stopWanted", "stopping"} => then # "none" /\ (call = "none" <=> then = "return")

CallerInv == \A c \in GroupClients : CallerFits(gpc[c], caller[c], after[c])

(* With one client at a time inside them, handle_finished() finds nothing in wait() only
   if nothing is active: between the predicate of the wait and handle_finished(), which
   takes the mutex again, nobody else pops a task or adds one.                          *)
WaitInv ==
  usage = "one" =>
    /\ \A c, d \in GroupClients : caller[c] # "none" /\ caller[d] # "none" => c = d
    /\ \A c \in GroupClients : gpc[c] = "handling" /\ caller[c] = "wait" => active = {} \/ completed # << >>

(* A step of one client. *)
LEMMA CallerMoves ==
  ASSUME GroupTypeOK, CallerInv, NEW c \in GroupClients, NEW state, NEW call, NEW then,
         gpc' = [gpc EXCEPT ![c] = state],
         caller' = [caller EXCEPT ![c] = call],
         after' = [after EXCEPT ![c] = then],
         CallerFits(state, call, then)
  PROVE  CallerInv'
<1> SUFFICES ASSUME NEW d \in GroupClients PROVE CallerFits(gpc'[d], caller'[d], after'[d])
  BY DEF CallerInv
<1>1. CASE d = c
  BY <1>1 DEF GroupTypeOK
<1>2. CASE d # c
  <2>1. gpc'[d] = gpc[d] /\ caller'[d] = caller[d] /\ after'[d] = after[d]
    BY <1>2 DEF GroupTypeOK
  <2> QED BY <2>1 DEF CallerInv
<1> QED BY <1>1, <1>2

(* What is left as it is, written as the assignment of an entry. *)
LEMMA Unmoved ==
  ASSUME GroupTypeOK, NEW c \in GroupClients
  PROVE  /\ caller = [caller EXCEPT ![c] = caller[c]]
         /\ after = [after EXCEPT ![c] = after[c]]
         /\ gpc = [gpc EXCEPT ![c] = gpc[c]]
BY DEF GroupTypeOK

(* handle_finished() ends, in any of its callers. *)
LEMMA ReturnsCaller ==
  ASSUME GroupTypeOK, CallerInv, NEW c \in GroupClients, NEW r \in {"true", "false", "throw"},
         HandleReturns(c, r), caller[c] # "none",
         NEW then, after' = [after EXCEPT ![c] = then]
  PROVE  CallerInv'
<1>1. Continues(c, r) \in {"addLoop", "waitSome", "idle"}
      /\ (Continues(c, r) = "addLoop" => caller[c] = "add")
  BY DEF Continues
<1>2. gpc' = [gpc EXCEPT ![c] = Continues(c, r)]
  BY DEF HandleReturns
<1>3. CASE Continues(c, r) = "idle"
  <2>1. caller' = [caller EXCEPT ![c] = "none"] /\ gpc' = [gpc EXCEPT ![c] = "idle"]
    BY <1>2, <1>3 DEF HandleReturns
  <2> QED BY <2>1, CallerMoves DEF CallerFits
<1>4. CASE Continues(c, r) # "idle"
  <2>1. caller' = [caller EXCEPT ![c] = caller[c]]
    BY <1>4 DEF HandleReturns
  <2> QED BY <1>1, <1>2, <1>4, <2>1, CallerMoves DEF CallerFits
<1> QED BY <1>3, <1>4

LEMMA CallCaller ==
  ASSUME GroupTypeOK, CallerInv, NEW c \in GroupClients, Call(c)
  PROVE  CallerInv'
<1>1. after = [after EXCEPT ![c] = after[c]]
  BY Unmoved
<1>2. CASE AddCalled(c)
  BY <1>1, <1>2, CallerMoves DEF AddCalled, Calls, CallerFits
<1>3. CASE WaitCalled(c)
  BY <1>1, <1>3, CallerMoves DEF WaitCalled, Calls, CallerFits
<1>4. CASE HandleCalled(c)
  BY <1>1, <1>4, CallerMoves DEF HandleCalled, Calls, CallerFits
<1>5. CASE StopCalled(c)
  BY <1>5, CallerMoves DEF StopCalled, Calls, CallerFits
<1>6. CASE DestroyGroup(c)
  BY <1>6, CallerMoves DEF DestroyGroup, Calls, CallerFits
<1>7. CASE SetStopOnError(c)
  BY <1>7 DEF SetStopOnError, groupClientVars, CallerInv
<1> QED BY <1>2, <1>3, <1>4, <1>5, <1>6, <1>7 DEF Call

LEMMA ClientStepCaller ==
  ASSUME GroupTypeOK, CallerInv, NEW c \in GroupClients, GroupClientStep(c)
  PROVE  CallerInv'
<1>1. /\ caller = [caller EXCEPT ![c] = caller[c]]
      /\ after = [after EXCEPT ![c] = after[c]]
      /\ CallerFits(gpc[c], caller[c], after[c])
  BY Unmoved DEF CallerInv
<1>2. CASE AddTests(c)
  <2>1. gpc[c] = "addLoop" /\ UNCHANGED <<caller, after>>
        /\ \E s \in {"adding", "waitSome"} : gpc' = [gpc EXCEPT ![c] = s]
    BY <1>2 DEF AddTests
  <2>2. PICK s \in {"adding", "waitSome"} : gpc' = [gpc EXCEPT ![c] = s]
    BY <2>1
  <2>3. CallerFits(s, caller[c], after[c])
    BY <1>1, <2>1 DEF CallerFits
  <2> QED BY <1>1, <2>1, <2>2, <2>3, CallerMoves
<1>3. CASE Adds(c)
  BY <1>1, <1>3, CallerMoves DEF Adds, CallerFits
<1>4. CASE WaitTests(c)
  <2>1. gpc[c] = "waitSome" /\ UNCHANGED <<caller, after>>
        /\ \E s \in {"handling", "waiting"} : gpc' = [gpc EXCEPT ![c] = s]
    BY <1>4 DEF WaitTests
  <2>2. PICK s \in {"handling", "waiting"} : gpc' = [gpc EXCEPT ![c] = s]
    BY <2>1
  <2>3. CallerFits(s, caller[c], after[c])
    BY <1>1, <2>1 DEF CallerFits
  <2> QED BY <1>1, <2>1, <2>2, <2>3, CallerMoves
<1>5. CASE HandlesNothing(c)
  <2>1. gpc[c] = "handling" /\ HandleReturns(c, "false") /\ after' = after
    BY <1>5 DEF HandlesNothing
  <2>2. caller[c] # "none"
    BY <1>1, <2>1 DEF CallerFits
  <2> QED BY <1>1, <2>1, <2>2, ReturnsCaller
<1>6. CASE HandlePops(c)
  <2>1. gpc[c] = "handling" /\ UNCHANGED <<caller, after>> /\ gpc' = [gpc EXCEPT ![c] = "joining"]
    BY <1>6 DEF HandlePops
  <2>2. CallerFits("joining", caller[c], after[c])
    BY <1>1, <2>1 DEF CallerFits
  <2> QED BY <1>1, <2>1, <2>2, CallerMoves
<1>7. CASE HandlesInterrupted(c) \/ HandlesSuccess(c)
  <2>1. gpc[c] = "joining" /\ HandleReturns(c, "true") /\ after' = after
    BY <1>7 DEF HandlesInterrupted, HandlesSuccess
  <2>2. caller[c] # "none"
    BY <1>1, <2>1 DEF CallerFits
  <2> QED BY <1>1, <2>1, <2>2, ReturnsCaller
<1>8. CASE HandlesFailure(c)
  <2>1. gpc[c] = "joining" /\ caller[c] # "none"
    BY <1>1, <1>8 DEF HandlesFailure, CallerFits
  <2>2. CASE (HandleReturns(c, "throw") \/ HandleReturns(c, "true")) /\ after' = after
    BY <1>1, <2>1, <2>2, ReturnsCaller
  <2>3. CASE /\ gpc' = [gpc EXCEPT ![c] = "stopWanted"]
             /\ after' = [after EXCEPT ![c] = "throw"]
             /\ caller' = caller
    <3>1. CallerFits("stopWanted", caller[c], "throw")
      BY <2>1 DEF CallerFits
    <3> QED BY <1>1, <2>3, <3>1, CallerMoves
  <2> QED BY <1>8, <2>2, <2>3 DEF HandlesFailure
<1>9. CASE StopBegins(c)
  <2>1. gpc[c] = "stopWanted" /\ UNCHANGED <<caller, after>> /\ gpc' = [gpc EXCEPT ![c] = "stopping"]
    BY <1>9 DEF StopBegins
  <2>2. CallerFits("stopping", caller[c], after[c])
    BY <1>1, <2>1 DEF CallerFits
  <2> QED BY <1>1, <2>1, <2>2, CallerMoves
<1>10. CASE StopEnds(c)
  <2>1. gpc[c] = "stopping" /\ after' = [after EXCEPT ![c] = "none"]
        /\ (caller[c] = "none" <=> after[c] = "return") /\ after[c] \in {"return", "wait", "throw"}
    BY <1>1, <1>10 DEF StopEnds, CallerFits, GroupTypeOK
  <2>2. CASE after[c] = "throw"
    <3>1. HandleReturns(c, "throw") /\ caller[c] # "none"
      BY <1>10, <2>1, <2>2 DEF StopEnds
    <3> QED BY <2>1, <3>1, ReturnsCaller
  <2>3. CASE after[c] = "wait"
    <3>1. gpc' = [gpc EXCEPT ![c] = "waitSome"] /\ caller' = caller
      BY <1>10, <2>3 DEF StopEnds
    <3>2. CallerFits("waitSome", caller[c], "none")
      BY <2>1, <2>3 DEF CallerFits
    <3> QED BY <1>1, <2>1, <3>1, <3>2, CallerMoves
  <2>4. CASE after[c] = "return"
    <3>1. gpc' = [gpc EXCEPT ![c] = "idle"] /\ caller' = caller
      BY <1>10, <2>4 DEF StopEnds
    <3>2. CallerFits("idle", caller[c], "none")
      BY <2>1, <2>4 DEF CallerFits
    <3> QED BY <1>1, <2>1, <3>1, <3>2, CallerMoves
  <2> QED BY <2>1, <2>2, <2>3, <2>4
<1>11. ASSUME NEW t \in Tasks, Cancels(c, t) PROVE CallerInv'
  BY <1>11 DEF Cancels, groupClientVars, CallerInv
<1> QED BY <1>2, <1>3, <1>4, <1>5, <1>6, <1>7, <1>8, <1>9, <1>10, <1>11 DEF GroupClientStep

LEMMA TaskStepCaller ==
  ASSUME CallerInv, NEW t \in Tasks, TaskStep(t)
  PROVE  CallerInv'
<1>1. /\ UNCHANGED <<caller, after>>
      /\ \A c \in GroupClients : \/ gpc'[c] = gpc[c]
                                 \/ gpc[c] = "waiting" /\ gpc'[c] = "waitSome"
  BY DEF TaskStep, TaskEnds, TaskUnlocks, TaskCompletes, TaskWakes, groupClientVars
<1>2. ASSUME NEW c \in GroupClients PROVE CallerFits(gpc'[c], caller'[c], after'[c])
  BY <1>1 DEF CallerInv, CallerFits
<1> QED BY <1>2 DEF CallerInv

(* A set of one element at most. *)
LEMMA AtMostOne ==
  ASSUME NEW S, IsFiniteSet(S), Cardinality(S) <= 1, NEW x \in S, NEW y \in S
  PROVE  x = y
<1> SUFFICES ASSUME x # y PROVE FALSE
  OBVIOUS
<1>1. IsFiniteSet({x}) /\ Cardinality({x}) = 1
  BY FS_Singleton
<1>2. IsFiniteSet({x} \cup {y}) /\ Cardinality({x} \cup {y}) = 2
  <2>1. y \notin {x}
    OBVIOUS
  <2>2. /\ IsFiniteSet({x} \cup {y})
        /\ \/ y \in {x} /\ Cardinality({x} \cup {y}) = Cardinality({x})
           \/ y \notin {x} /\ Cardinality({x} \cup {y}) = Cardinality({x}) + 1
    BY <1>1, FS_AddElement, Zenon
  <2> QED BY <1>1, <2>1, <2>2
<1>3. {x} \cup {y} \subseteq S
  OBVIOUS
<1> QED BY <1>2, <1>3, FS_Subset, FS_CardinalityType

(* The steps of a client, seen from another one in wait(): a thread outside the operations
   that handle tasks touches neither list.                                               *)
LEMMA OutsiderTouchesNothing ==
  ASSUME GroupTypeOK, CallerInv, NEW d \in GroupClients, Call(d) \/ GroupClientStep(d), caller[d] = "none"
  PROVE  UNCHANGED <<active, completed>>
<1>1. gpc[d] \in {"idle", "stopWanted", "stopping"}
  BY DEF CallerInv, CallerFits, GroupTypeOK, GroupClientStates
<1> QED BY <1>1 DEF Call, AddCalled, WaitCalled, HandleCalled, StopCalled, DestroyGroup, SetStopOnError,
       Calls, GroupClientStep, AddTests, Adds, WaitTests, HandlesNothing, HandlePops, HandlesInterrupted,
       HandlesSuccess, HandlesFailure, StopBegins, StopEnds, Cancels

(* ... and the other clients keep their states. *)
LEMMA OthersStay ==
  ASSUME GroupTypeOK, NEW d \in GroupClients, Call(d) \/ GroupClientStep(d), NEW c \in GroupClients, c # d
  PROVE  gpc'[c] = gpc[c] /\ caller'[c] = caller[c]
<1>1. ASSUME NEW r, HandleReturns(d, r) PROVE gpc'[c] = gpc[c] /\ caller'[c] = caller[c]
  BY <1>1 DEF HandleReturns, GroupTypeOK
<1>2. CASE Call(d)
  BY <1>2 DEF Call, AddCalled, WaitCalled, HandleCalled, StopCalled, DestroyGroup, SetStopOnError,
              Calls, groupClientVars, GroupTypeOK
<1>3. CASE AddTests(d) \/ Adds(d) \/ WaitTests(d) \/ HandlePops(d) \/ StopBegins(d)
           \/ \E t \in Tasks : Cancels(d, t)
  BY <1>3 DEF AddTests, Adds, WaitTests, HandlePops, StopBegins, Cancels, groupClientVars, GroupTypeOK
<1>4. CASE HandlesNothing(d) \/ HandlesInterrupted(d) \/ HandlesSuccess(d)
  BY <1>1, <1>4 DEF HandlesNothing, HandlesInterrupted, HandlesSuccess
<1>5. CASE HandlesFailure(d)
  BY <1>1, <1>5 DEF HandlesFailure, GroupTypeOK
<1>6. CASE StopEnds(d)
  BY <1>1, <1>6 DEF StopEnds, GroupTypeOK
<1> QED BY <1>2, <1>3, <1>4, <1>5, <1>6 DEF GroupClientStep

(* A client comes to handle_finished() in wait() by the predicate of its wait. *)
LEMMA HandlingInWait ==
  ASSUME GroupTypeOK, NEW c \in GroupClients, Call(c) \/ GroupClientStep(c),
         gpc'[c] = "handling", caller'[c] = "wait"
  PROVE  active' = {} \/ completed' # << >>
<1>1. ASSUME NEW r \in {"true", "false", "throw"}, HandleReturns(c, r) PROVE FALSE
  <2>1. gpc'[c] = Continues(c, r)
    BY <1>1 DEF HandleReturns, GroupTypeOK
  <2> QED BY <2>1, ContinuesType
<1>2. ~Call(c)
  BY DEF Call, AddCalled, WaitCalled, HandleCalled, StopCalled, DestroyGroup, SetStopOnError,
         Calls, groupClientVars, GroupTypeOK
<1>3. CASE WaitTests(c)
  BY <1>3 DEF WaitTests, GroupTypeOK
<1>4. ~(AddTests(c) \/ Adds(c) \/ HandlePops(c) \/ StopBegins(c) \/ \E t \in Tasks : Cancels(c, t))
  BY DEF AddTests, Adds, HandlePops, StopBegins, Cancels, groupClientVars, GroupTypeOK
<1>5. ~(HandlesNothing(c) \/ HandlesInterrupted(c) \/ HandlesSuccess(c))
  BY <1>1 DEF HandlesNothing, HandlesInterrupted, HandlesSuccess
<1>6. ~HandlesFailure(c)
  BY <1>1 DEF HandlesFailure, GroupTypeOK
<1>7. ~StopEnds(c)
  BY <1>1 DEF StopEnds, GroupTypeOK
<1> QED BY <1>2, <1>3, <1>4, <1>5, <1>6, <1>7 DEF GroupClientStep

(* Each step of the instance is one of the group, or the group is at rest. *)
LEMMA GroupMovesOrRests ==
  ASSUME [MCNext]_allVars
  PROVE  /\ usage' = usage
         /\ \/ UNCHANGED groupVars
            \/ GroupNext /\ (usage = "one" => Cardinality(Inside(caller')) <= 1)
BY DEF MCNext, PoolMoves, WorkerPoolMoves, QueueMoves, GroupMoves, allVars

LEMMA NextWait ==
  GroupTypeOK /\ CallerInv /\ WaitInv /\ GroupTypeOK' /\ [MCNext]_allVars => CallerInv' /\ WaitInv'
<1> SUFFICES ASSUME GroupTypeOK, CallerInv, WaitInv, GroupTypeOK', [MCNext]_allVars
             PROVE  CallerInv' /\ WaitInv'
  OBVIOUS
<1>0. usage' = usage
  BY GroupMovesOrRests
<1>1. CASE UNCHANGED groupVars
  BY <1>0, <1>1 DEF groupVars, groupClientVars, CallerInv, WaitInv
<1> SUFFICES ASSUME GroupNext, usage = "one" => Cardinality(Inside(caller')) <= 1, usage' = usage
             PROVE  CallerInv' /\ WaitInv'
  BY <1>0, <1>1, GroupMovesOrRests
<1>2. CallerInv'
  BY CallCaller, ClientStepCaller, TaskStepCaller DEF GroupNext
<1>3. WaitInv'
  <2> SUFFICES ASSUME usage = "one" PROVE WaitInv'
    BY DEF WaitInv
  <2>1. ASSUME NEW c \in GroupClients, NEW d \in GroupClients, caller'[c] # "none", caller'[d] # "none"
        PROVE  c = d
    <3>1. Inside(caller') \subseteq GroupClients /\ c \in Inside(caller') /\ d \in Inside(caller')
      BY <2>1 DEF Inside
    <3>2. IsFiniteSet(Inside(caller'))
      BY <3>1, FS_Subset, GroupAssumption
    <3> QED BY <3>1, <3>2, AtMostOne
  <2>2. ASSUME NEW c \in GroupClients, gpc'[c] = "handling", caller'[c] = "wait"
        PROVE  active' = {} \/ completed' # << >>
    <3>1. ASSUME NEW t \in Tasks, TaskStep(t) PROVE active' = {} \/ completed' # << >>
      <4>1. CASE TaskCompletes(t)
        BY <4>1 DEF TaskCompletes, GroupTypeOK
      <4>2. CASE TaskEnds(t) \/ TaskUnlocks(t) \/ TaskWakes(t)
        <5>1. /\ UNCHANGED <<active, completed, caller>>
              /\ gpc'[c] = gpc[c] \/ gpc'[c] = "waitSome"
          BY <4>2 DEF TaskEnds, TaskUnlocks, TaskWakes, groupClientVars
        <5> QED BY <2>2, <5>1 DEF WaitInv
      <4> QED BY <3>1, <4>1, <4>2 DEF TaskStep
    <3>2. ASSUME NEW d \in GroupClients, Call(d) \/ GroupClientStep(d), d # c
          PROVE  active' = {} \/ completed' # << >>
      <4>1. gpc[c] = "handling" /\ caller[c] = "wait"
        BY <2>2, <3>2, OthersStay
      <4>2. caller[d] = "none"
        BY <3>2, <4>1 DEF WaitInv
      <4>3. UNCHANGED <<active, completed>>
        BY <3>2, <4>2, OutsiderTouchesNothing
      <4> QED BY <4>1, <4>3 DEF WaitInv
    <3>3. CASE Call(c) \/ GroupClientStep(c)
      BY <2>2, <3>3, HandlingInWait
    <3> QED BY <3>1, <3>2, <3>3 DEF GroupNext
  <2> QED BY <2>1, <2>2 DEF WaitInv
<1> QED BY <1>2, <1>3

LEMMA InitWait == MCInit => CallerInv /\ WaitInv
<1> SUFFICES ASSUME GroupInit PROVE CallerInv /\ WaitInv
  BY DEF MCInit
<1>1. \A c \in GroupClients : gpc[c] = "idle" /\ caller[c] = "none" /\ after[c] = "none"
  BY DEF GroupInit
<1> QED BY <1>1 DEF CallerInv, CallerFits, WaitInv

(* The step of a wait() that ends: it found nothing, and then nothing is anywhere. *)
LEMMA WaitEnds ==
  ASSUME EndInv, CallerInv, WaitInv, usage = "one", GroupNext,
         NEW c \in GroupClients, caller[c] = "wait", caller'[c] = "none"
  PROVE  \A t \in Added : tpc[t] = "ended"
<1>0. GroupTypeOK /\ JoinedInv /\ CallerFits(gpc[c], caller[c], after[c])
  BY DEF EndInv, AccountInv, IInv, CallerInv
<1>1. ASSUME NEW r \in {"true", "throw"}, HandleReturns(c, r) PROVE FALSE
  <2>1. Continues(c, r) = "waitSome"
    BY DEF Continues, GoesOn
  <2>2. caller' = [caller EXCEPT ![c] = caller[c]]
    BY <1>1, <2>1 DEF HandleReturns
  <2> QED BY <1>0, <2>2 DEF GroupTypeOK
<1>2. ~Call(c)
  BY <1>0 DEF CallerFits, Call, AddCalled, WaitCalled, HandleCalled, StopCalled, DestroyGroup,
              SetStopOnError, Calls
<1>3. ~(AddTests(c) \/ WaitTests(c) \/ HandlePops(c) \/ StopBegins(c) \/ \E t \in Tasks : Cancels(c, t))
  BY DEF AddTests, WaitTests, HandlePops, StopBegins, Cancels, groupClientVars
<1>4. ~Adds(c)
  BY <1>0 DEF CallerFits, Adds
<1>5. ~(HandlesInterrupted(c) \/ HandlesSuccess(c) \/ HandlesFailure(c) \/ StopEnds(c))
  BY <1>1 DEF HandlesInterrupted, HandlesSuccess, HandlesFailure, StopEnds
<1>6. ~\E t \in Tasks : TaskStep(t)
  BY DEF TaskStep, TaskEnds, TaskUnlocks, TaskCompletes, TaskWakes, groupClientVars
<1>7. \A d \in GroupClients \ {c} : ~(Call(d) \/ GroupClientStep(d))
  BY <1>0, OthersStay
<1>8. HandlesNothing(c)
  BY <1>2, <1>3, <1>4, <1>5, <1>6, <1>7 DEF GroupNext, GroupClientStep
<1>9. gpc[c] = "handling" /\ completed = << >> /\ active = {}
  BY <1>8 DEF HandlesNothing, WaitInv
<1>10. \A d \in GroupClients : gpc[d] # "joining"
  <2> SUFFICES ASSUME NEW d \in GroupClients, gpc[d] = "joining" PROVE FALSE
    OBVIOUS
  <2>1. caller[d] # "none"
    BY DEF CallerInv, CallerFits
  <2> QED BY <1>9, <2>1 DEF WaitInv
<1>11. InHands = {} /\ Completed = {}
  BY <1>0, <1>9, <1>10 DEF GroupTypeOK, InHands, Completed
<1>12. Handled = Added
  BY <1>9, <1>11 DEF Handled
<1> QED BY <1>0, <1>12 DEF JoinedInv

(* Where one thread at a time handles the tasks that end, wait() returns when each task
   that was added has ended: "Wait for all added tasks to end" (AsyncTaskGroup.h:31).   *)
THEOREM WaitIsToTheEnd == MCSpec => OneWaitReturnsAtEnd
<1>1. MCInit => EndInv
  BY InitEnd DEF MCInit
<1>2. [MCNext]_allVars => [GroupNext]_groupVars
  BY GroupMovesOrRests
<1>3. EndInv => GroupTypeOK
  BY DEF EndInv, AccountInv, IInv
<1>4. EndInv /\ CallerInv /\ WaitInv /\ [MCNext]_allVars
        => EndInv' /\ CallerInv' /\ WaitInv'
  <2> SUFFICES ASSUME EndInv, CallerInv, WaitInv, [MCNext]_allVars
               PROVE  EndInv' /\ CallerInv' /\ WaitInv'
    OBVIOUS
  <2>1. EndInv'
    BY <1>2, NextEnd
  <2>2. GroupTypeOK /\ GroupTypeOK'
    BY <2>1 DEF EndInv, AccountInv, IInv
  <2> QED BY <2>1, <2>2, NextWait
<1>5. EndInv /\ CallerInv /\ WaitInv /\ [MCNext]_allVars
        => [usage = "one" => WaitReturnsAtEnd]_groupVars
  <2> SUFFICES ASSUME EndInv, CallerInv, WaitInv, GroupNext, usage = "one" PROVE WaitReturnsAtEnd
    BY GroupMovesOrRests
  <2> QED BY WaitEnds DEF WaitReturnsAtEnd
<1> QED BY <1>1, <1>4, <1>5, InitWait, PTL DEF MCSpec, OneWaitReturnsAtEnd
=============================================================================

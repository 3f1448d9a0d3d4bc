---------------------------- MODULE MCConcurrency ----------------------------
(* Small instances, for TLC, of the classes whose threads share one mutex and one
   condition variable: Pool, WorkerPool, WorkQueue and AsyncTaskGroup.  "usage" is
   chosen once per behaviour, and with it the class that is used; the others are at
   rest.

   A "quiet" Pool is destroyed when every client is outside it or has a Ptr that is
   not being destroyed; a "racing" one when no client is inside get(), but Ptrs may
   be on their way through the deleter; a "careless" one at any time.

   A WorkerPool is used in "any" way, or "orderly": its factory never fails, and no
   object is released while another one is being created.

   A WorkQueue has more producers than consumers, one owner that calls join_all()
   and later destroys the queue, and (the class has no defined use of a push that
   races its destruction) no push begun after join_all().  "crowded" producers push
   at any time, of "matched" ones at most as many are inside operator() as there are
   consumers.

   With "one" handler at most one client of an AsyncTaskGroup at a time is inside
   add(), wait(), handle_finished() or the destructor, and the others only call
   stop(); with "many" all clients do anything, with two tasks instead of three.
   stop_on_error(true) is called, if it is, before the first task is added.  Tasks
   have the names of their ids: they are added in the order of t1, t2, t3.           *)
EXTENDS Pool, WorkerPool, WorkQueue, AsyncTaskGroup, TLC

CONSTANTS
  c1, c2, c3, c4, r1, r2, r3, t1, t2, t3,
  Usages           \* the usages of a run

VARIABLE usage

MCClients2 == {c1, c2}
MCClients3 == {c1, c2, c3}
MCClients4 == {c1, c2, c3, c4}
MCRecs     == {r1, r2, r3}
MCTasks    == {t1, t2, t3}

PoolUsages   == {"quiet", "racing", "careless"}
WorkerUsages == {"any", "orderly"}
QueueUsages  == {"matched", "crowded"}
GroupUsages  == {"one", "many"}

allVars == <<vars, workerVars, queueVars, groupVars, usage>>

-----------------------------------------------------------------------------
MayBeDestroyed ==
  CASE usage = "quiet"    -> \A c \in Clients : cpc[c] \in {"idle", "holding"}
    [] usage = "racing"   -> \A c \in Clients : cpc[c] \in {"idle", "holding", "releasing"}
    [] usage = "careless" -> TRUE

PoolMoves ==
  /\ usage \in PoolUsages
  /\ Next
  /\ phase' = "dying" /\ phase = "open" => MayBeDestroyed
  /\ UNCHANGED <<workerVars, queueVars, groupVars, usage>>

MayRelease == usage = "orderly" => Making = {}

WorkerPoolMoves ==
  /\ usage \in WorkerUsages
  /\ WorkerPoolNext
  /\ num_reserved' < num_reserved => MayRelease
  /\ usage = "orderly" => ~\E c \in Reservers : MakeFails(c)
  /\ UNCHANGED <<vars, queueVars, groupVars, usage>>

Pushing == {p \in Producers : pc[p] # "idle"}

(* join_all() is called when no producer is inside operator(). *)
JoinsAfterPushes ==
  /\ done' # done => Pushing = {}
  /\ done => Pushing' = {}

QueueMoves ==
  /\ usage \in QueueUsages
  /\ QueueNext
  /\ JoinsAfterPushes
  /\ usage = "matched" => Cardinality(Pushing') <= Cardinality(Consumers)
  /\ UNCHANGED <<vars, workerVars, groupVars, usage>>

Inside(call) == {c \in GroupClients : call[c] # "none"}

GroupMoves ==
  /\ usage \in GroupUsages
  /\ GroupNext
  /\ usage = "one" => Cardinality(Inside(caller')) <= 1
  /\ usage = "many" =>
       Cardinality(Added') + Cardinality({c \in GroupClients : caller'[c] = "add"}) <= 2
  /\ (t2 \in Added' => t1 \in Added') /\ (t3 \in Added' => t2 \in Added')
  /\ stopOnError' # stopOnError => ~stopOnError /\ Added = {}
  /\ UNCHANGED <<vars, workerVars, queueVars, usage>>

MCInit == Init /\ WorkerPoolInit /\ QueueInit /\ GroupInit /\ usage \in Usages
MCNext == PoolMoves \/ WorkerPoolMoves \/ QueueMoves \/ GroupMoves

(* The fairness of each class, while it is the one that is used. *)
MCFairness ==
  /\ \A c \in Clients : WF_vars(usage \in PoolUsages /\ ClientStep(c))
  /\ \A c \in Reservers :
       /\ WF_workerVars(usage \in WorkerUsages /\ ReserveGoesOn(c))
       /\ WF_workerVars(usage \in WorkerUsages /\ MayRelease /\ ReleaseCalled(c))
  /\ \A p \in Producers : WF_queueVars(usage \in QueueUsages /\ ProducerStep(p))
  /\ \A c \in Consumers : WF_queueVars(usage \in QueueUsages /\ ConsumerStep(c))
  /\ \A o \in Owners : WF_queueVars(usage \in QueueUsages /\ JoinAllReturns(o))
  /\ \A c \in GroupClients :
       WF_groupVars(usage \in GroupUsages /\ groupPhase # "terminated" /\ GroupClientStep(c))
  /\ \A t \in Tasks : WF_groupVars(usage \in GroupUsages /\ groupPhase # "terminated" /\ TaskStep(t))

MCSpec == MCInit /\ [][MCNext]_allVars /\ MCFairness

-----------------------------------------------------------------------------
(* The variables of both pools have their types. *)
PoolsTypeOK == TypeOK /\ WorkerPoolTypeOK

(* In a pool that is destroyed while Ptrs are alive, but at rest, no member of it is
   used after its destruction, and no item is left behind (Pool.h:92, 219-244).     *)
QuietDestruction == usage = "quiet" => NoInvalidUse /\ EveryItemDeleted

(* EveryItemDeleted where a Ptr's destructor races the pool's, in two threads,
   and no member of the pool is used after its destruction.                          *)
RacingEveryItemDeleted == usage = "racing" /\ ~invalid => EveryItemDeleted

(* ReserversServed of a WorkerPool that is used in an orderly way.  Otherwise it does
   not hold: a factory that fails keeps its place in curr_pool_size, and an item that
   is freed while another is created is dropped from the chain (WorkerPool.h:115, 129). *)
OrderlyServed == usage = "orderly" => ReserversServed

(* notify_one() on the condition variable that both sides share leaves no item in the
   queue beside sleeping consumers, and no producer asleep beside room in it: as long as
   no more producers push at a time than there are consumers (WorkQueue.h:50-53, 103-118). *)
NothingStranded == usage = "matched" => ItemsAreTaken /\ PushesEnd

(* WaitReturnsAtEnd where one thread handles the tasks that end. *)
OneWaitReturnsAtEnd == [][usage = "one" => WaitReturnsAtEnd]_groupVars
=============================================================================

----------------------------- MODULE WorkQueue -----------------------------
(***************************************************************************)
(* Fmi::WorkQueue (src/macgyver/WorkQueue.h): producer threads push items, *)
(* the queue's own threads process them.  The class is one mutex and one   *)
(* condition variable, shared by the producers that wait for room and the  *)
(* consumers that wait for items, and both sides wake just one thread: a   *)
(* notification may reach a thread it is of no use to.  A step is a region *)
(* executed under the mutex.                                               *)
(***************************************************************************)
EXTENDS Naturals, Sequences, FiniteSets

CONSTANTS
  Producers,   \* threads that call operator()
  Consumers,   \* the member "threads": concurrency of them
  Owners,      \* threads that call join_all(): explicitly, and in the destructor
  Items,       \* what is pushed; one may be pushed again once it was processed
  NoItem

ASSUME WorkQueueAssumption ==
  /\ IsFiniteSet(Consumers) /\ Consumers # {}
  /\ Producers \cap Consumers = {}
  /\ NoItem \notin Items

VARIABLES
  queue,
  done,
  pc,          \* control state of each producer and consumer
  item,        \* what each consumer processes
  owner,       \* control state of each thread that calls join_all()
  leftLocked   \* join_all() returned without unlocking the mutex

queueVars == <<queue, done, pc, item, owner, leftLocked>>

Threads    == Producers \cup Consumers
Capacity   == Cardinality(Consumers)
Queued     == {queue[k] : k \in DOMAIN queue}
Processing == {item[c] : c \in Consumers} \ {NoItem}

(* Producers are "idle", in operator() wanting the mutex ("pushing") or asleep in
   its wait ("waiting"); consumers want the mutex ("ready"), sleep ("waiting"),
   are in process(item) ("processing") or have left consume() ("ended").          *)
ProducerStates == {"idle", "pushing", "waiting"}
ConsumerStates == {"ready", "waiting", "processing", "ended"}
OwnerStates    == {"using", "joining", "joined", "destroyed"}

Waiting == {t \in Threads : pc[t] = "waiting"}

Awake(t) == IF t \in Producers THEN "pushing" ELSE "ready"

(* notify_one() on the condition variable both sides share; p is the threads'
   control state after the step of the thread that notifies.                   *)
NotifyOne(p) ==
  IF Waiting = {} THEN {p} ELSE {[p EXCEPT ![t] = Awake(t)] : t \in Waiting}

NotifyAll == [t \in Threads |-> IF pc[t] = "waiting" THEN Awake(t) ELSE pc[t]]

(* The conditions and notifications the properties hang on, each preceded by the
   mutant with which the run shows that it does.                                *)
NotifyAfterPushOmitted(p) == {p}
NotifyAfterPush(p) == NotifyOne(p)

NotifyAfterPopOmitted(p) == {p}
NotifyAfterPop(p) == NotifyOne(p)

NotifyAtJoinOne == CHOOSE p \in NotifyOne(pc) : TRUE
NotifyAtJoin == NotifyAll

MayEndWhenDone == done
MayEnd == queue = << >> /\ done

FullExceeded == Len(queue) > Capacity
Full == Len(queue) = Capacity

-----------------------------------------------------------------------------
QueueInit ==
  /\ queue = << >>
  /\ done = FALSE
  /\ pc = [t \in Threads |-> IF t \in Producers THEN "idle" ELSE "ready"]
  /\ item = [c \in Consumers |-> NoItem]
  /\ owner = [o \in Owners |-> "using"]
  /\ leftLocked = FALSE

(* operator() is called. *)
PushCalled(p) ==
  /\ pc[p] = "idle"
  /\ pc' = [pc EXCEPT ![p] = "pushing"]
  /\ UNCHANGED <<queue, done, item, owner, leftLocked>>

PushWaits(p) ==
  /\ ~leftLocked
  /\ pc[p] = "pushing"
  /\ Full
  /\ pc' = [pc EXCEPT ![p] = "waiting"]
  /\ UNCHANGED <<queue, done, item, owner, leftLocked>>

(* Items are accepted after join_all() has set done as well. *)
PushInserts(p, i) ==
  /\ ~leftLocked
  /\ pc[p] = "pushing"
  /\ ~Full
  /\ i \notin Queued \cup Processing
  /\ queue' = Append(queue, i)
  /\ pc' \in NotifyAfterPush([pc EXCEPT ![p] = "idle"])
  /\ UNCHANGED <<done, item, owner, leftLocked>>

(* consume(): the branches of the loop, in the order they are tried. *)
ConsumerPops(c) ==
  /\ ~leftLocked
  /\ pc[c] = "ready"
  /\ queue # << >>
  /\ queue' = Tail(queue)
  /\ item' = [item EXCEPT ![c] = Head(queue)]
  /\ pc' \in NotifyAfterPop([pc EXCEPT ![c] = "processing"])
  /\ UNCHANGED <<done, owner, leftLocked>>

ConsumerEnds(c) ==
  /\ ~leftLocked
  /\ pc[c] = "ready"
  /\ MayEnd
  /\ pc' = [pc EXCEPT ![c] = "ended"]
  /\ UNCHANGED <<queue, done, item, owner, leftLocked>>

ConsumerWaits(c) ==
  /\ ~leftLocked
  /\ pc[c] = "ready"
  /\ queue = << >>
  /\ ~done
  /\ pc' = [pc EXCEPT ![c] = "waiting"]
  /\ UNCHANGED <<queue, done, item, owner, leftLocked>>

(* process(item) returns.  (An exception would leave the thread: terminate().) *)
ConsumerProcessed(c) ==
  /\ pc[c] = "processing"
  /\ pc' = [pc EXCEPT ![c] = "ready"]
  /\ item' = [item EXCEPT ![c] = NoItem]
  /\ UNCHANGED <<queue, done, owner, leftLocked>>

QueueSpuriousWakeup(t) ==
  /\ pc[t] = "waiting"
  /\ pc' = [pc EXCEPT ![t] = Awake(t)]
  /\ UNCHANGED <<queue, done, item, owner, leftLocked>>

(* join_all() by the first that calls it, and by any other: that one returns at
   once, and the lock() it began with has no unlock().                          *)
JoinAll(o) ==
  /\ ~leftLocked
  /\ owner[o] \in {"using", "joined"}
  /\ IF done
       THEN /\ owner' = [owner EXCEPT ![o] = "destroyed"]
            /\ leftLocked' = TRUE
            /\ UNCHANGED <<done, pc>>
       ELSE /\ owner' = [owner EXCEPT ![o] = "joining"]
            /\ done' = TRUE
            /\ pc' = NotifyAtJoin
            /\ UNCHANGED leftLocked
  /\ UNCHANGED <<queue, item>>

JoinAllReturns(o) ==
  /\ owner[o] = "joining"
  /\ \A c \in Consumers : pc[c] = "ended"
  /\ owner' = [owner EXCEPT ![o] = "joined"]
  /\ UNCHANGED <<queue, done, pc, item, leftLocked>>

ProducerStep(p) == PushWaits(p) \/ \E i \in Items : PushInserts(p, i)

ConsumerStep(c) ==
  \/ ConsumerPops(c)
  \/ ConsumerEnds(c)
  \/ ConsumerWaits(c)
  \/ ConsumerProcessed(c)

QueueNext ==
  \/ \E p \in Producers : PushCalled(p) \/ ProducerStep(p)
  \/ \E c \in Consumers : ConsumerStep(c)
  \/ \E t \in Threads : QueueSpuriousWakeup(t)
  \/ \E o \in Owners : JoinAll(o) \/ JoinAllReturns(o)

QueueSpec == QueueInit /\ [][QueueNext]_queueVars

(* Threads that are awake run on; nobody has to push or to call join_all(). *)
QueueFairness ==
  /\ \A p \in Producers : WF_queueVars(ProducerStep(p))
  /\ \A c \in Consumers : WF_queueVars(ConsumerStep(c))
  /\ \A o \in Owners : WF_queueVars(JoinAllReturns(o))

QueueFairSpec == QueueSpec /\ QueueFairness

-----------------------------------------------------------------------------
(* Properties *)

(* The state has its type; a consumer has an item exactly while it processes it. *)
QueueTypeOK ==
  /\ queue \in Seq(Items)
  /\ done \in BOOLEAN
  /\ pc \in [Threads -> ProducerStates \cup ConsumerStates]
  /\ \A p \in Producers : pc[p] \in ProducerStates
  /\ \A c \in Consumers : pc[c] \in ConsumerStates
  /\ item \in [Consumers -> Items \cup {NoItem}]
  /\ \A c \in Consumers : (item[c] = NoItem) <=> (pc[c] # "processing")
  /\ owner \in [Owners -> OwnerStates]
  /\ leftLocked \in BOOLEAN
  /\ Len(queue) <= Capacity

(* The detailed queue implements the abstract one: order, exactly-once and the
   bound of the FIFO survive the waits, the stolen wakeups and join_all().      *)
Fifo == INSTANCE BoundedFifo
          WITH fifo <- queue, taken <- item, closed <- done, Workers <- Consumers

ImplementsFifo == Fifo!FifoSpec

(* ... and its fairness: notify_one() on the shared condition variable never leaves
   an item in the queue with every free consumer asleep.                            *)
ItemsAreTaken == Fifo!FifoFairness

(* A push that found the queue full gets in, if no other push is begun for ever. *)
PushesEnd ==
  <>[][\A p \in Producers : ~PushCalled(p)]_queueVars
    => <>[](\A p \in Producers : pc[p] = "idle")

(* join_all() waits for consumers that all end, whatever they were doing. *)
JoinEnds == \A o \in Owners : (owner[o] = "joining") ~> (owner[o] # "joining")

(* Nothing that was pushed before join_all() is left when it returns. *)
JoinDrains ==
  [][\A o \in Owners :
       owner[o] = "joining" /\ owner'[o] = "joined" => queue = << >> /\ Processing = {}]_queueVars
=============================================================================

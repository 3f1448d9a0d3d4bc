-------------------------- MODULE WorkQueueProofs --------------------------
(***************************************************************************)
(* What TLAPS proves of WorkQueue for every number of producers, consumers *)
(* and owners: its type invariant, with the bound of the queue, that it    *)
(* implements the abstract bounded FIFO, and, where no push races          *)
(* join_all() (MCConcurrency), that join_all() leaves nothing behind.      *)
(***************************************************************************)
EXTENDS MCConcurrency, FiniteSetTheorems, TLAPS

USE WorkQueueAssumption

(* The capacity, the number of the queue's threads, is a number. *)
LEMMA CapacityType == Capacity \in Nat
BY FS_CardinalityType DEF Capacity

(* What a notification can do: threads that waited, and do not in p, are awake,
   each in the state of its kind, and nothing else changes (WorkQueue.h:52, 111). *)
LEMMA NotifyOneType ==
  ASSUME NEW p \in [Threads -> ProducerStates \cup ConsumerStates],
         \A t \in Threads : pc[t] = "waiting" => p[t] = "waiting",
         NEW q \in NotifyOne(p)
  PROVE  /\ q \in [Threads -> ProducerStates \cup ConsumerStates]
         /\ \A t \in Threads :
              \/ q[t] = p[t]
              \/ p[t] = "waiting" /\ q[t] = Awake(t)
<1>1. CASE Waiting = {}
  BY <1>1 DEF NotifyOne
<1>2. CASE Waiting # {}
  <2>1. PICK t \in Waiting : q = [p EXCEPT ![t] = Awake(t)]
    BY <1>2 DEF NotifyOne
  <2>2. t \in Threads /\ p[t] = "waiting"
    BY <2>1 DEF Waiting
  <2>3. Awake(t) \in ProducerStates \cup ConsumerStates
    BY DEF Awake, ProducerStates, ConsumerStates
  <2> QED BY <2>1, <2>2, <2>3
<1> QED BY <1>1, <1>2

(* The part of the type invariant that speaks of control states: it survives any
   step that only wakes threads after p satisfied it.                             *)
PcOK(p) ==
  /\ p \in [Threads -> ProducerStates \cup ConsumerStates]
  /\ \A t \in Producers : p[t] \in ProducerStates
  /\ \A t \in Consumers : p[t] \in ConsumerStates

LEMMA NotifyOneKeepsPc ==
  ASSUME NEW p, PcOK(p),
         \A t \in Threads : pc[t] = "waiting" => p[t] = "waiting",
         NEW q \in NotifyOne(p)
  PROVE  /\ PcOK(q)
         /\ \A t \in Consumers : (q[t] = "processing") <=> (p[t] = "processing")
<1>1. /\ q \in [Threads -> ProducerStates \cup ConsumerStates]
      /\ \A t \in Threads :
           \/ q[t] = p[t]
           \/ p[t] = "waiting" /\ q[t] = Awake(t)
  BY NotifyOneType DEF PcOK
<1>2. \A t \in Producers : t \in Threads /\ Awake(t) = "pushing"
  BY DEF Threads, Awake
<1>3. \A t \in Consumers : t \in Threads /\ Awake(t) = "ready"
  BY DEF Threads, Awake
<1> QED BY <1>1, <1>2, <1>3 DEF PcOK, ProducerStates, ConsumerStates

-----------------------------------------------------------------------------
(* The state has its type in every behaviour; among it that the queue never holds
   more items than there are consumers, although a producer that was woken for
   room tests it again only when it has the mutex (WorkQueue.h:48-51).            *)
THEOREM TypeCorrect == QueueSpec => []QueueTypeOK
<1>1. QueueInit => QueueTypeOK
  <2> SUFFICES ASSUME QueueInit PROVE QueueTypeOK
    OBVIOUS
  <2>1. PcOK(pc)
    BY DEF QueueInit, PcOK, Threads, ProducerStates, ConsumerStates
  <2>2. \A c \in Consumers : pc[c] # "processing" /\ item[c] = NoItem
    BY DEF QueueInit, Threads
  <2>3. queue \in Seq(Items) /\ Len(queue) <= Capacity
    BY CapacityType DEF QueueInit
  <2>4. item \in [Consumers -> Items \cup {NoItem}] /\ owner \in [Owners -> OwnerStates]
    BY DEF QueueInit, OwnerStates
  <2>5. done \in BOOLEAN /\ leftLocked \in BOOLEAN
    BY DEF QueueInit
  <2> QED BY <2>1, <2>2, <2>3, <2>4, <2>5 DEF QueueTypeOK, PcOK
<1>2. QueueTypeOK /\ [QueueNext]_queueVars => QueueTypeOK'
  <2> SUFFICES ASSUME QueueTypeOK, [QueueNext]_queueVars PROVE QueueTypeOK'
    OBVIOUS
  <2>0. PcOK(pc) /\ Capacity \in Nat /\ Threads = Producers \cup Consumers
    BY CapacityType DEF QueueTypeOK, PcOK, Threads
  <2>1. ASSUME NEW p \in Producers, PushCalled(p) PROVE QueueTypeOK'
    BY <2>0, <2>1 DEF QueueTypeOK, PushCalled, ProducerStates, Capacity
  <2>2. ASSUME NEW p \in Producers, PushWaits(p) PROVE QueueTypeOK'
    BY <2>0, <2>2 DEF QueueTypeOK, PushWaits, ProducerStates, Capacity
  <2>3. ASSUME NEW p \in Producers, NEW i \in Items, PushInserts(p, i) PROVE QueueTypeOK'
    <3> DEFINE q == [pc EXCEPT ![p] = "idle"]
    <3>1. PcOK(q)
      BY <2>0 DEF PcOK, ProducerStates
    <3>2. \A t \in Threads : pc[t] = "waiting" => q[t] = "waiting"
      BY <2>0, <2>3 DEF PushInserts, PcOK
    <3>3. pc' \in NotifyOne(q)
      BY <2>3 DEF PushInserts, NotifyAfterPush
    <3>4. PcOK(pc') /\ \A t \in Consumers : (pc'[t] = "processing") <=> (q[t] = "processing")
      <4> HIDE DEF q
      <4> QED BY <3>1, <3>2, <3>3, NotifyOneKeepsPc
    <3>5. \A t \in Consumers : q[t] = pc[t]
      BY <2>0 DEF PcOK
    <3>6. queue' \in Seq(Items) /\ Len(queue') <= Capacity
      BY <2>0, <2>3 DEF QueueTypeOK, PushInserts, Full
    <3> QED BY <2>3, <3>4, <3>5, <3>6 DEF QueueTypeOK, PcOK, PushInserts, Capacity
  <2>4. ASSUME NEW c \in Consumers, ConsumerPops(c) PROVE QueueTypeOK'
    <3> DEFINE q == [pc EXCEPT ![c] = "processing"]
    <3>1. PcOK(q)
      BY <2>0 DEF PcOK, ConsumerStates
    <3>2. \A t \in Threads : pc[t] = "waiting" => q[t] = "waiting"
      BY <2>0, <2>4 DEF ConsumerPops, PcOK
    <3>3. pc' \in NotifyOne(q)
      BY <2>4 DEF ConsumerPops, NotifyAfterPop
    <3>4. PcOK(pc') /\ \A t \in Consumers : (pc'[t] = "processing") <=> (q[t] = "processing")
      <4> HIDE DEF q
      <4> QED BY <3>1, <3>2, <3>3, NotifyOneKeepsPc
    <3>5. \A t \in Consumers : (q[t] = "processing") <=> (t = c \/ pc[t] = "processing")
      BY <2>0 DEF PcOK
    <3>6. Head(queue) \in Items /\ queue' \in Seq(Items) /\ Len(queue') <= Capacity
      BY <2>0, <2>4 DEF QueueTypeOK, ConsumerPops
    <3> QED BY <2>4, <3>4, <3>5, <3>6 DEF QueueTypeOK, PcOK, ConsumerPops, Capacity
  <2>5. ASSUME NEW c \in Consumers, ConsumerEnds(c) PROVE QueueTypeOK'
    BY <2>0, <2>5 DEF QueueTypeOK, ConsumerEnds, ConsumerStates, Capacity
  <2>6. ASSUME NEW c \in Consumers, ConsumerWaits(c) PROVE QueueTypeOK'
    BY <2>0, <2>6 DEF QueueTypeOK, ConsumerWaits, ConsumerStates, Capacity
  <2>7. ASSUME NEW c \in Consumers, ConsumerProcessed(c) PROVE QueueTypeOK'
    BY <2>0, <2>7 DEF QueueTypeOK, ConsumerProcessed, ConsumerStates, Capacity
  <2>8. ASSUME NEW t \in Threads, QueueSpuriousWakeup(t) PROVE QueueTypeOK'
    BY <2>0, <2>8 DEF QueueTypeOK, QueueSpuriousWakeup, Awake, ProducerStates, ConsumerStates, Capacity
  <2>9. ASSUME NEW o \in Owners, JoinAll(o) PROVE QueueTypeOK'
    <3>1. CASE done
      BY <2>0, <2>9, <3>1 DEF QueueTypeOK, JoinAll, OwnerStates, Capacity
    <3>2. CASE ~done
      <4>1. pc' = NotifyAll
        BY <2>9, <3>2 DEF JoinAll, NotifyAtJoin
      <4>2. PcOK(pc') /\ \A c \in Consumers : (pc'[c] = "processing") <=> (pc[c] = "processing")
        BY <2>0, <4>1 DEF PcOK, NotifyAll, Awake, ProducerStates, ConsumerStates
      <4> QED BY <2>9, <3>2, <4>2 DEF QueueTypeOK, PcOK, JoinAll, OwnerStates, Capacity
    <3> QED BY <3>1, <3>2, <2>9 DEF QueueTypeOK
  <2>10. ASSUME NEW o \in Owners, JoinAllReturns(o) PROVE QueueTypeOK'
    BY <2>10 DEF QueueTypeOK, JoinAllReturns, OwnerStates, Capacity
  <2>11. CASE UNCHANGED queueVars
    BY <2>11 DEF QueueTypeOK, queueVars, Capacity
  <2> QED BY <2>1, <2>2, <2>3, <2>4, <2>5, <2>6, <2>7, <2>8, <2>9, <2>10, <2>11
          DEF QueueNext, ProducerStep, ConsumerStep
<1> QED BY <1>1, <1>2, PTL DEF QueueSpec

-----------------------------------------------------------------------------
(* The queue implements the abstract FIFO: whatever the waits and the wakeups do,
   items leave in the order they entered, each to one consumer, and the bound is
   kept (the whole of WorkQueue.h against BoundedFifo).                           *)
THEOREM Implementation == QueueSpec => ImplementsFifo
<1> USE DEF Fifo!InFifo, Fifo!Taken
<1>1. QueueInit => Fifo!FifoInit
  BY DEF QueueInit, Fifo!FifoInit
<1>2. QueueTypeOK /\ [QueueNext]_queueVars => [Fifo!FifoNext]_Fifo!fifoVars
  <2> SUFFICES ASSUME QueueTypeOK, [QueueNext]_queueVars PROVE [Fifo!FifoNext]_Fifo!fifoVars
    OBVIOUS
  <2> USE DEF Fifo!fifoVars
  <2>1. ASSUME NEW p \in Producers, NEW i \in Items, PushInserts(p, i) PROVE Fifo!FifoNext
    <3>1. Len(queue) < Capacity
      BY <2>1, CapacityType DEF QueueTypeOK, PushInserts, Full
    <3>2. Fifo!Put(i)
      BY <2>1, <3>1 DEF PushInserts, Fifo!Put, Queued, Processing
    <3> QED BY <3>2 DEF Fifo!FifoNext
  <2>2. ASSUME NEW c \in Consumers, ConsumerPops(c) PROVE Fifo!FifoNext
    <3>1. Fifo!Take(c)
      BY <2>2 DEF QueueTypeOK, ConsumerPops, Fifo!Take
    <3> QED BY <3>1 DEF Fifo!FifoNext
  <2>3. ASSUME NEW c \in Consumers, ConsumerProcessed(c) PROVE Fifo!FifoNext
    <3>1. Fifo!Finish(c)
      BY <2>3 DEF QueueTypeOK, ConsumerProcessed, Fifo!Finish
    <3> QED BY <3>1 DEF Fifo!FifoNext
  <2>4. ASSUME NEW o \in Owners, JoinAll(o) PROVE [Fifo!FifoNext]_Fifo!fifoVars
    <3>1. CASE done
      BY <2>4, <3>1 DEF JoinAll
    <3>2. CASE ~done
      BY <2>4, <3>2 DEF JoinAll, Fifo!Close, Fifo!FifoNext
    <3> QED BY <3>1, <3>2, <2>4 DEF QueueTypeOK
  <2>5. ASSUME NEW p \in Producers, PushCalled(p) \/ PushWaits(p) PROVE UNCHANGED Fifo!fifoVars
    BY <2>5 DEF PushCalled, PushWaits
  <2>6. ASSUME NEW c \in Consumers, ConsumerEnds(c) \/ ConsumerWaits(c)
        PROVE  UNCHANGED Fifo!fifoVars
    BY <2>6 DEF ConsumerEnds, ConsumerWaits
  <2>7. ASSUME NEW t \in Threads, QueueSpuriousWakeup(t) PROVE UNCHANGED Fifo!fifoVars
    BY <2>7 DEF QueueSpuriousWakeup
  <2>8. ASSUME NEW o \in Owners, JoinAllReturns(o) PROVE UNCHANGED Fifo!fifoVars
    BY <2>8 DEF JoinAllReturns
  <2>9. CASE UNCHANGED queueVars
    BY <2>9 DEF queueVars
  <2> QED BY <2>1, <2>2, <2>3, <2>4, <2>5, <2>6, <2>7, <2>8, <2>9
          DEF QueueNext, ProducerStep, ConsumerStep
<1> QED BY <1>1, <1>2, TypeCorrect, PTL DEF QueueSpec, ImplementsFifo, Fifo!FifoSpec
-----------------------------------------------------------------------------
(* The inductive argument of JoinDrains.  A consumer leaves consume() when done is set
   and the queue is empty, and the queue stays empty then: after join_all() no
   producer is inside operator() (MCConcurrency).                                     *)
DrainInv ==
  /\ done => \A p \in Producers : pc[p] = "idle"
  /\ \A c \in Consumers : pc[c] = "ended" => done /\ queue = << >>

LEMMA DrainNext ==
  QueueTypeOK /\ DrainInv /\ [QueueNext /\ JoinsAfterPushes]_queueVars => DrainInv'
<1> SUFFICES ASSUME QueueTypeOK, DrainInv, [QueueNext /\ JoinsAfterPushes]_queueVars PROVE DrainInv'
  OBVIOUS
<1>1. CASE UNCHANGED queueVars
  BY <1>1 DEF queueVars, DrainInv
<1> SUFFICES ASSUME QueueNext, JoinsAfterPushes PROVE DrainInv'
  BY <1>1
<1>2. PcOK(pc) /\ Threads = Producers \cup Consumers
  BY DEF QueueTypeOK, PcOK, Threads
<1>3. ASSUME done, done' = done PROVE \A p \in Producers : pc'[p] = "idle"
  BY <1>3 DEF JoinsAfterPushes, Pushing
<1>4. ASSUME NEW p \in Producers, PushCalled(p) PROVE DrainInv'
  BY <1>2, <1>3, <1>4 DEF DrainInv, PushCalled, PcOK
<1>5. ASSUME NEW p \in Producers, PushWaits(p) PROVE DrainInv'
  BY <1>2, <1>3, <1>5 DEF DrainInv, PushWaits, PcOK
<1>6. ASSUME NEW p \in Producers, NEW i \in Items, PushInserts(p, i) PROVE DrainInv'
  <2> DEFINE q == [pc EXCEPT ![p] = "idle"]
  <2>1. ~done /\ ~done' /\ \A c \in Consumers : pc[c] # "ended"
    BY <1>6 DEF DrainInv, PushInserts
  <2>2. pc' \in NotifyOne(q) /\ q \in [Threads -> ProducerStates \cup ConsumerStates]
    BY <1>2, <1>6 DEF PushInserts, NotifyAfterPush, PcOK, ProducerStates
  <2>3. /\ \A t \in Threads : pc[t] = "waiting" => q[t] = "waiting"
        /\ \A c \in Consumers : q[c] = pc[c]
    BY <1>2, <1>6 DEF PushInserts, PcOK
  <2>4. \A t \in Threads : pc'[t] = q[t] \/ pc'[t] = Awake(t)
    <3> HIDE DEF q
    <3> QED BY <2>2, <2>3, NotifyOneType
  <2>5. \A c \in Consumers : pc'[c] # "ended"
    BY <1>2, <2>1, <2>3, <2>4 DEF Awake
  <2> QED BY <2>1, <2>5 DEF DrainInv
<1>7. ASSUME NEW c \in Consumers, ConsumerPops(c) PROVE DrainInv'
  <2> DEFINE q == [pc EXCEPT ![c] = "processing"]
  <2>1. done' = done /\ \A d \in Consumers : pc[d] # "ended"
    BY <1>7 DEF DrainInv, ConsumerPops
  <2>2. pc' \in NotifyOne(q) /\ q \in [Threads -> ProducerStates \cup ConsumerStates]
    BY <1>2, <1>7 DEF ConsumerPops, NotifyAfterPop, PcOK, ConsumerStates
  <2>3. /\ \A t \in Threads : pc[t] = "waiting" => q[t] = "waiting"
        /\ \A d \in Consumers : q[d] # "ended"
    BY <1>2, <1>7, <2>1 DEF ConsumerPops, PcOK
  <2>4. \A t \in Threads : pc'[t] = q[t] \/ pc'[t] = Awake(t)
    <3> HIDE DEF q
    <3> QED BY <2>2, <2>3, NotifyOneType
  <2>5. \A d \in Consumers : pc'[d] # "ended"
    BY <1>2, <2>3, <2>4 DEF Awake
  <2> QED BY <1>3, <2>1, <2>5 DEF DrainInv
<1>8. ASSUME NEW c \in Consumers, ConsumerEnds(c) PROVE DrainInv'
  BY <1>2, <1>3, <1>8 DEF DrainInv, ConsumerEnds, MayEnd, PcOK
<1>9. ASSUME NEW c \in Consumers, ConsumerWaits(c) \/ ConsumerProcessed(c) PROVE DrainInv'
  BY <1>2, <1>3, <1>9 DEF DrainInv, ConsumerWaits, ConsumerProcessed, PcOK
<1>10. ASSUME NEW t \in Threads, QueueSpuriousWakeup(t) PROVE DrainInv'
  BY <1>2, <1>3, <1>10 DEF DrainInv, QueueSpuriousWakeup, Awake, PcOK
<1>11. ASSUME NEW o \in Owners, JoinAll(o) PROVE DrainInv'
  <2>1. CASE done
    BY <1>11, <2>1 DEF DrainInv, JoinAll
  <2>2. CASE ~done
    <3>1. pc' = NotifyAll /\ done' = TRUE /\ queue' = queue
      BY <1>11, <2>2 DEF JoinAll, NotifyAtJoin
    <3>2. \A p \in Producers : pc[p] = "idle"
      BY <2>2, <3>1 DEF JoinsAfterPushes, Pushing
    <3>3. \A c \in Consumers : pc[c] # "ended"
      BY <2>2 DEF DrainInv
    <3>4. /\ \A p \in Producers : pc'[p] = "idle"
          /\ \A c \in Consumers : pc'[c] # "ended"
      BY <1>2, <3>1, <3>2, <3>3 DEF NotifyAll, Awake
    <3> QED BY <3>1, <3>4 DEF DrainInv
  <2> QED BY <2>1, <2>2
<1>12. ASSUME NEW o \in Owners, JoinAllReturns(o) PROVE DrainInv'
  BY <1>12 DEF DrainInv, JoinAllReturns
<1> QED BY <1>4, <1>5, <1>6, <1>7, <1>8, <1>9, <1>10, <1>11, <1>12
        DEF QueueNext, ProducerStep, ConsumerStep

(* Nothing that was pushed before join_all() is in the queue or in a consumer's hands
   when it returns, if no push races it (WorkQueue.h:66-84, 94-121).                  *)
THEOREM NothingLeftBehind == MCSpec => JoinDrains
<1>1. QueueInit => DrainInv
  BY DEF QueueInit, DrainInv, Threads
<1>2. MCSpec => QueueSpec /\ [][QueueNext /\ JoinsAfterPushes]_queueVars
  <2>1. MCInit => QueueInit
    BY DEF MCInit
  <2>2. [MCNext]_allVars => [QueueNext /\ JoinsAfterPushes]_queueVars
    BY DEF MCNext, PoolMoves, WorkerPoolMoves, QueueMoves, GroupMoves, allVars
  <2>3. [QueueNext /\ JoinsAfterPushes]_queueVars => [QueueNext]_queueVars
    OBVIOUS
  <2> QED BY <2>1, <2>2, <2>3, PTL DEF MCSpec, QueueSpec
<1>3. QueueTypeOK /\ DrainInv /\ [QueueNext /\ JoinsAfterPushes]_queueVars
        => [\A o \in Owners :
              owner[o] = "joining" /\ owner'[o] = "joined" => queue = << >> /\ Processing = {}]_queueVars
  <2> SUFFICES ASSUME QueueTypeOK, DrainInv, [QueueNext /\ JoinsAfterPushes]_queueVars,
                      ~UNCHANGED queueVars, NEW o \in Owners, owner[o] = "joining", owner'[o] = "joined"
               PROVE  queue = << >> /\ Processing = {}
    OBVIOUS
  <2>1. \E r \in Owners : JoinAllReturns(r)
    <3>1. owner' # owner
      OBVIOUS
    <3>2. \A r \in Owners : JoinAll(r) => owner' = [owner EXCEPT ![r] = "destroyed"]
                                          \/ owner' = [owner EXCEPT ![r] = "joining"]
      BY DEF JoinAll
    <3>3. \A r \in Owners : ~JoinAll(r)
      BY <3>2 DEF QueueTypeOK
    <3> QED BY <3>1, <3>3 DEF QueueNext, PushCalled, ProducerStep, PushWaits, PushInserts, ConsumerStep,
               ConsumerPops, ConsumerEnds, ConsumerWaits, ConsumerProcessed, QueueSpuriousWakeup
  <2>2. \A c \in Consumers : pc[c] = "ended" /\ item[c] = NoItem
    BY <2>1 DEF JoinAllReturns, QueueTypeOK
  <2>3. queue = << >>
    BY <2>2 DEF DrainInv
  <2> QED BY <2>2, <2>3 DEF Processing
<1> QED BY <1>1, <1>2, <1>3, TypeCorrect, DrainNext, PTL DEF QueueSpec, JoinDrains
=============================================================================

---------------------------- MODULE BoundedFifo ----------------------------
(***************************************************************************)
(* What Fmi::WorkQueue (src/macgyver/WorkQueue.h), and the thread pool     *)
(* with its FIFO scheduler (ThreadPool.h), promise, without their mutexes, *)
(* their condition variables and their waits: items enter a bounded FIFO   *)
(* until it is closed, each is taken by one worker in the order they       *)
(* entered, and (of the work queue) as long as a worker is free the items  *)
(* are taken.                                                              *)
(***************************************************************************)
EXTENDS Naturals, Sequences

CONSTANTS Items, Workers, NoItem, Capacity

VARIABLES fifo, taken, closed

fifoVars == <<fifo, taken, closed>>

InFifo == {fifo[k] : k \in DOMAIN fifo}
Taken  == {taken[w] : w \in Workers} \ {NoItem}

FifoInit ==
  /\ fifo = << >>
  /\ taken = [w \in Workers |-> NoItem]
  /\ closed = FALSE

Put(i) ==
  /\ i \notin InFifo \cup Taken
  /\ Len(fifo) < Capacity
  /\ fifo' = Append(fifo, i)
  /\ UNCHANGED <<taken, closed>>

Take(w) ==
  /\ fifo # << >>
  /\ taken[w] = NoItem
  /\ fifo' = Tail(fifo)
  /\ taken' = [taken EXCEPT ![w] = Head(fifo)]
  /\ UNCHANGED closed

Finish(w) ==
  /\ taken[w] # NoItem
  /\ taken' = [taken EXCEPT ![w] = NoItem]
  /\ UNCHANGED <<fifo, closed>>

Close ==
  /\ ~closed
  /\ closed' = TRUE
  /\ UNCHANGED <<fifo, taken>>

FifoNext ==
  \/ \E i \in Items : Put(i)
  \/ \E w \in Workers : Take(w) \/ Finish(w)
  \/ Close

FifoSpec == FifoInit /\ [][FifoNext]_fifoVars

(* Somebody takes the items while somebody is free to: no item is stranded. *)
FifoFairness == WF_fifoVars(\E w \in Workers : Take(w))
=============================================================================

----------------------------- MODULE WorkerPool -----------------------------
(* Fmi::WorkerPool (WorkerPool.h): a pool of objects that grows up to max_pool_size
   and shrinks again when objects are returned.  reserve() gives a shared_ptr whose
   deleter is release().  A step is what a thread does while it holds pm_cond, or
   the creation of an object, for which reserve() unlocks it.                       *)
EXTENDS Naturals, Sequences, FiniteSets

CONSTANTS
  Reservers,           \* threads, each with one object at a time
  ItemIds,             \* names for the pool's items
  NoObject,
  initial_pool_size, max_pool_size, step

ASSUME WorkerPoolAssumption ==
  /\ IsFiniteSet(Reservers) /\ IsFiniteSet(ItemIds)
  /\ NoObject \notin ItemIds
  /\ initial_pool_size \in Nat \ {0} /\ max_pool_size \in Nat /\ step \in Nat \ {0}
  /\ max_pool_size >= initial_pool_size

VARIABLES
  items,           \* the list of items
  free_chain,      \* the items from first_free_item on, along next_free
  curr_pool_size, num_reserved, in_shutdown,
  poolPhase,       \* "open", "destroying": inside the destructor, "gone", "aborted"
  reserverPc,      \* where each thread is
  object           \* the item of the object that each thread has

counts == <<curr_pool_size, num_reserved>>
workerVars == <<items, free_chain, counts, in_shutdown, poolPhase, reserverPc, object>>

ReserverPcs == {"outside", "asleep", "awake", "making", "using"}
Making == {c \in Reservers : reserverPc[c] = "making"}
Asleep == {c \in Reservers : reserverPc[c] = "asleep"}
InChain == {free_chain[i] : i \in DOMAIN free_chain}

WorkerPoolInit ==
  /\ items = {} /\ free_chain = <<>>
  /\ curr_pool_size = 0 /\ num_reserved = 0
  /\ in_shutdown = FALSE /\ poolPhase = "open"
  /\ reserverPc = [c \in Reservers |-> "outside"]
  /\ object = [c \in Reservers |-> NoObject]

Members == poolPhase \in {"open", "destroying"}
-----------------------------------------------------------------------------
(* reserve(): called, or woken up; it has pm_cond *)

InReserve(c) == Members /\ reserverPc[c] \in {"outside", "awake"}

Sleeps(c) ==
  /\ InReserve(c)
  /\ ~in_shutdown /\ free_chain = <<>> /\ curr_pool_size >= max_pool_size
  /\ reserverPc' = [reserverPc EXCEPT ![c] = "asleep"]
  /\ UNCHANGED <<items, free_chain, counts, in_shutdown, poolPhase, object>>

RefusedByShutdown(c) ==
  /\ InReserve(c)
  /\ in_shutdown
  /\ reserverPc' = [reserverPc EXCEPT ![c] = "outside"]
  /\ UNCHANGED <<items, free_chain, counts, in_shutdown, poolPhase, object>>

\* mutant: the item stays the first free one
StillFree(chain) == chain

NextFree(chain) == Tail(chain)

Takes(c, chain) ==
  /\ free_chain' = NextFree(chain)
  /\ num_reserved' = num_reserved + 1
  /\ object' = [object EXCEPT ![c] = Head(chain)]
  /\ reserverPc' = [reserverPc EXCEPT ![c] = "using"]

TakesFree(c) ==
  /\ InReserve(c)
  /\ ~in_shutdown /\ free_chain # <<>>
  /\ Takes(c, free_chain)
  /\ UNCHANGED <<items, curr_pool_size, in_shutdown, poolPhase>>

StartsToMake(c) ==
  /\ InReserve(c)
  /\ ~in_shutdown /\ free_chain = <<>> /\ curr_pool_size < max_pool_size
  /\ curr_pool_size' = curr_pool_size + 1
  /\ reserverPc' = [reserverPc EXCEPT ![c] = "making"]
  /\ UNCHANGED <<items, free_chain, num_reserved, in_shutdown, poolPhase, object>>

\* The factory throws, or returns nothing: the size that was counted stays counted.
MakeFails(c) ==
  /\ Members /\ reserverPc[c] = "making"
  /\ reserverPc' = [reserverPc EXCEPT ![c] = "outside"]
  /\ UNCHANGED <<items, free_chain, counts, in_shutdown, poolPhase, object>>

\* The new item becomes the first free one, whatever has been freed meanwhile.
Made(c) ==
  /\ Members /\ reserverPc[c] = "making"
  /\ \E new \in ItemIds \ items :
       /\ items' = items \cup {new}
       /\ Takes(c, <<new>>)
  /\ UNCHANGED <<curr_pool_size, in_shutdown, poolPhase>>

SpuriouslyWoken(c) ==
  /\ reserverPc[c] = "asleep"
  /\ reserverPc' = [reserverPc EXCEPT ![c] = "awake"]
  /\ UNCHANGED <<items, free_chain, counts, in_shutdown, poolPhase, object>>
-----------------------------------------------------------------------------
(* release() *)

Shrinks == curr_pool_size > initial_pool_size /\ num_reserved - 1 + step > curr_pool_size

\* mutant: nobody is notified
NobodyWoken(c) == {[reserverPc EXCEPT ![c] = "outside"]}

OneWoken(c) ==
  IF Asleep = {} THEN {[reserverPc EXCEPT ![c] = "outside"]}
  ELSE {[reserverPc EXCEPT ![c] = "outside", ![d] = "awake"] : d \in Asleep}

\* The object is given up, and nobody is notified that there is room for another.
ReleaseShrinks(c) ==
  /\ Members /\ reserverPc[c] = "using"
  /\ Shrinks
  /\ num_reserved' = num_reserved - 1
  /\ curr_pool_size' = curr_pool_size - 1
  /\ items' = items \ {object[c]}
  /\ object' = [object EXCEPT ![c] = NoObject]
  /\ reserverPc' = [reserverPc EXCEPT ![c] = "outside"]
  /\ UNCHANGED <<free_chain, in_shutdown, poolPhase>>

ReleaseKeeps(c) ==
  /\ Members /\ reserverPc[c] = "using"
  /\ ~Shrinks
  /\ num_reserved' = num_reserved - 1
  /\ free_chain' = <<object[c]>> \o free_chain
  /\ object' = [object EXCEPT ![c] = NoObject]
  /\ reserverPc' \in OneWoken(c)
  /\ UNCHANGED <<items, curr_pool_size, in_shutdown, poolPhase>>
-----------------------------------------------------------------------------
(* shutdown() and the destructor, which waits for the objects in use for 30 seconds *)

IsShutDown ==
  /\ in_shutdown' = TRUE
  /\ reserverPc' = [c \in Reservers |-> IF c \in Asleep THEN "awake" ELSE reserverPc[c]]
  /\ UNCHANGED <<items, free_chain, counts, object>>

ShutDown == poolPhase = "open" /\ IsShutDown /\ UNCHANGED poolPhase

DestructorCalled == poolPhase = "open" /\ IsShutDown /\ poolPhase' = "destroying"

DestructorEnds ==
  /\ poolPhase = "destroying"
  /\ poolPhase' = IF num_reserved = 0 THEN "gone" ELSE "aborted"
  /\ UNCHANGED <<items, free_chain, counts, in_shutdown, reserverPc, object>>

ReserveCalled(c) ==
  /\ reserverPc[c] = "outside"
  /\ Sleeps(c) \/ RefusedByShutdown(c) \/ TakesFree(c) \/ StartsToMake(c)

ReserveGoesOn(c) ==
  \/ /\ reserverPc[c] = "awake"
     /\ Sleeps(c) \/ RefusedByShutdown(c) \/ TakesFree(c) \/ StartsToMake(c)
  \/ Made(c)

ReleaseCalled(c) == ReleaseShrinks(c) \/ ReleaseKeeps(c)

WorkerPoolNext ==
  \/ \E c \in Reservers :
       \/ ReserveCalled(c) \/ ReserveGoesOn(c) \/ MakeFails(c) \/ SpuriouslyWoken(c)
       \/ ReleaseCalled(c)
  \/ ShutDown
  \/ DestructorCalled
  \/ DestructorEnds

WorkerPoolFairness ==
  \A c \in Reservers : WF_workerVars(ReserveGoesOn(c)) /\ WF_workerVars(ReleaseCalled(c))

WorkerPoolSpec == WorkerPoolInit /\ [][WorkerPoolNext]_workerVars /\ WorkerPoolFairness
-----------------------------------------------------------------------------
WorkerPoolTypeOK ==
  /\ items \subseteq ItemIds
  /\ free_chain \in Seq(ItemIds)
  /\ curr_pool_size \in Nat /\ num_reserved \in Nat
  /\ in_shutdown \in BOOLEAN
  /\ poolPhase \in {"open", "destroying", "gone", "aborted"}
  /\ reserverPc \in [Reservers -> ReserverPcs]
  /\ object \in [Reservers -> ItemIds \cup {NoObject}]
  /\ \A c \in Reservers : object[c] # NoObject <=> reserverPc[c] = "using"

(* An object is used by one thread, is not in the chain meanwhile, and stays in the
   list that owns it; the chain has each item once (WorkerPool.h:114-140, 172-185),
   although reserve() unlocks pm_cond between its look at the chain and its use.   *)
ReservedExclusively ==
  /\ \A c, d \in Reservers : object[c] = object[d] /\ c # d => object[c] = NoObject
  /\ \A c \in Reservers : object[c] # NoObject => object[c] \in items \ InChain
  /\ Cardinality(InChain) = Len(free_chain)
  /\ InChain \subseteq items
  /\ num_reserved = Cardinality({c \in Reservers : object[c] # NoObject})

(* Threads asleep in reserve() get an object, or an exception, once nobody calls it
   afresh, although a release() that shrinks the pool makes room without notifying
   anybody (WorkerPool.h:175-183).                                                 *)
ReserversServed ==
  <>[][\A c \in Reservers : ~ReserveCalled(c)]_workerVars
    => <>[](poolPhase = "open" => Asleep = {})
=============================================================================

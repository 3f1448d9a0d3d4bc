------------------------------- MODULE Pool -------------------------------
(***************************************************************************)
(* Fmi::Pool (src/macgyver/Pool.h): a pool of reusable items, for example  *)
(* database connections.  Clients get an item as a Pool::Ptr, whose        *)
(* destructor gives it back; the pool grows while it may, then makes the   *)
(* clients wait; it may be destroyed while Ptrs are alive, and then the    *)
(* items in use belong to their Ptrs.  A step is a region executed under   *)
(* the pool's mutex, or what a thread does between two such regions.       *)
(***************************************************************************)
EXTENDS Naturals, Sequences, FiniteSets

CONSTANTS
  Clients,     \* threads; each holds one Ptr at a time
  Recs,        \* ItemRec records, each with the item created for it
  NoRec,
  StartSize,   \* constructor argument start_size
  MaxSize      \* constructor argument max_size

ASSUME PoolAssumption ==
  /\ IsFiniteSet(Clients)
  /\ IsFiniteSet(Recs)
  /\ NoRec \notin Recs
  /\ StartSize \in Nat /\ MaxSize \in Nat

VARIABLES
  phase,            \* of the pool: under construction, open, destroyed
  free,             \* the chain of free records, from "top" along "next"
  inUse,            \* records with in_use set
  currentSize, nextCurrentSize, inUseCount,
  data,             \* who owns the item of each record
  cpc,              \* control state of each client
  rec,              \* the record a client has acquired
  timed,            \* clients that called get() with a timeout
  invalid           \* a member of the destroyed pool was used, or an item deleted twice

sizes == <<currentSize, nextCurrentSize, inUseCount>>
vars  == <<phase, free, inUse, sizes, data, cpc, rec, timed, invalid>>

-----------------------------------------------------------------------------
(* "init": in init().  "open".  "dying": the body of ~Pool() was executed, the
   members still exist.  "gone": they do not, or the constructor threw.         *)
Phases == {"init", "open", "dying", "gone"}

(* Client: outside the pool; in createItemCb(); in cond_var's wait set; woken,
   wanting the mutex; acquire() returned, its Ptr not made yet; with a Ptr; in
   the Ptr's deleter, which found the pool alive and wants the mutex.           *)
ClientStates == {"idle", "creating", "waiting", "woken", "acquired", "holding", "releasing"}

(* The item: not created; owned by the record; owned by a Ptr; deleted. *)
DataStates == {"none", "pool", "ptr", "deleted"}

InState(s) == {c \in Clients : cpc[c] = s}
PoolData   == {r \in Recs : data[r] # "none"}
Free       == {free[k] : k \in DOMAIN free}
Alive      == phase \in {"init", "open"}

MaxOf(a, b) == IF a > b THEN a ELSE b

(* The constructor's adjustments: the maximum is not compared with the minimum
   of two items, so that it may be below the start size.                        *)
StartUnadjusted == StartSize
Start == MaxOf(2, StartSize)
Largest == MaxOf(StartSize, MaxSize)

(* The updates and conditions the properties hang on, each preceded by the mutant
   with which a run shows that it does.                                           *)
MayGrowByCurrent == currentSize < Largest
MayGrow == nextCurrentSize < Largest

RoomReserved == nextCurrentSize + 1

ReleasedWithoutNotify == {cpc}
ReleaseNotify ==
  LET sleepers == InState("waiting")
  IN  IF sleepers = {} THEN {cpc} ELSE {[cpc EXCEPT ![c] = "woken"] : c \in sleepers}

(* r becomes the top of the chain, and the top of the chain is unlinked. *)
ChainOverwritten(r) == << r >>
Chain(r) == << r >> \o free

TopNotUnlinked(chain) == chain
TopUnlinked(chain) == Tail(chain)

(* ~Pool(): the records whose item stays with the pool, and is deleted with it. *)
KeptByPoolAll == {r \in Recs : data[r] = "pool"}
KeptByPool == {r \in Recs : data[r] = "pool"} \ inUse

-----------------------------------------------------------------------------
Init ==
  /\ phase = "init"
  /\ free = << >>
  /\ inUse = {}
  /\ currentSize = 0 /\ nextCurrentSize = 0 /\ inUseCount = 0
  /\ data = [r \in Recs |-> "none"]
  /\ cpc = [c \in Clients |-> "idle"]
  /\ rec = [c \in Clients |-> NoRec]
  /\ timed = {}
  /\ invalid = FALSE

(* init(): grow(), once per start item, one after the other or by the tasks of an
   AsyncTaskGroup in any order.  Identities of records bound the model.           *)
Grow ==
  /\ phase = "init"
  /\ currentSize < Start
  /\ \E r \in Recs \ PoolData :
       /\ data' = [data EXCEPT ![r] = "pool"]
       /\ free' = << r >> \o free
  /\ currentSize' = currentSize + 1
  /\ nextCurrentSize' = nextCurrentSize + 1
  /\ UNCHANGED <<phase, inUse, inUseCount, cpc, rec, timed, invalid>>

(* A createItemCb() of init() throws: so does the constructor, when every task of
   the group has ended, and the items that were created are deleted.              *)
ConstructorThrows ==
  /\ phase = "init"
  /\ currentSize < Start
  /\ phase' = "gone"
  /\ data' = [r \in Recs |-> IF data[r] = "pool" THEN "deleted" ELSE data[r]]
  /\ UNCHANGED <<free, inUse, sizes, cpc, rec, timed, invalid>>

Constructed ==
  /\ phase = "init"
  /\ currentSize = Start
  /\ phase' = "open"
  /\ UNCHANGED <<free, inUse, sizes, data, cpc, rec, timed, invalid>>

-----------------------------------------------------------------------------
(* acquire() *)

FetchTop(c, chain) ==
  /\ free' = TopUnlinked(chain)
  /\ inUse' = inUse \cup {Head(chain)}
  /\ inUseCount' = inUseCount + 1
  /\ rec' = [rec EXCEPT ![c] = Head(chain)]
  /\ cpc' = [cpc EXCEPT ![c] = "acquired"]
  /\ timed' = timed \ {c}

GetsFree(c) ==
  /\ cpc[c] = "idle" /\ phase = "open"
  /\ free # << >>
  /\ FetchTop(c, free)
  /\ UNCHANGED <<phase, currentSize, nextCurrentSize, data, invalid>>

StartsToCreate(c) ==
  /\ cpc[c] = "idle" /\ phase = "open"
  /\ free = << >>
  /\ MayGrow
  /\ nextCurrentSize' = RoomReserved
  /\ cpc' = [cpc EXCEPT ![c] = "creating"]
  /\ UNCHANGED <<phase, free, inUse, currentSize, inUseCount, data, rec, timed, invalid>>

Waits(c) ==
  /\ cpc[c] = "idle" /\ phase = "open"
  /\ free = << >>
  /\ ~MayGrow
  /\ cpc' = [cpc EXCEPT ![c] = "waiting"]
  /\ timed' \in {timed, timed \cup {c}}
  /\ UNCHANGED <<phase, free, inUse, sizes, data, rec, invalid>>

(* createItemCb() threw: the room is given up, and nobody is notified.  (Here and
   below, what follows once the members are destroyed is UsesGonePool's.)        *)
CreateFails(c) ==
  /\ cpc[c] = "creating" /\ phase # "gone"
  /\ nextCurrentSize' = nextCurrentSize - 1
  /\ cpc' = [cpc EXCEPT ![c] = "idle"]
  /\ UNCHANGED <<phase, free, inUse, currentSize, inUseCount, data, rec, timed, invalid>>

CreateSucceeds(c) ==
  /\ cpc[c] = "creating" /\ phase # "gone"
  /\ \E r \in Recs \ PoolData :
       /\ data' = [data EXCEPT ![r] = "pool"]
       /\ FetchTop(c, Chain(r))
  /\ currentSize' = currentSize + 1
  /\ UNCHANGED <<phase, nextCurrentSize, invalid>>

(* The wait's predicate, top != nullptr, when the thread has the mutex again. *)
WokenGets(c) ==
  /\ cpc[c] = "woken" /\ phase # "gone"
  /\ free # << >>
  /\ FetchTop(c, free)
  /\ UNCHANGED <<phase, currentSize, nextCurrentSize, data, invalid>>

WokenWaitsAgain(c) ==
  /\ cpc[c] = "woken" /\ phase # "gone"
  /\ free = << >>
  /\ cpc' = [cpc EXCEPT ![c] = "waiting"]
  /\ UNCHANGED <<phase, free, inUse, sizes, data, rec, timed, invalid>>

(* The deadline passes: wait_for() tells the predicate, and get() throws if there
   is no item.                                                                    *)
TimesOut(c) ==
  /\ c \in timed /\ cpc[c] \in {"waiting", "woken"} /\ phase # "gone"
  /\ \/ /\ free # << >>
        /\ FetchTop(c, free)
     \/ /\ free = << >>
        /\ cpc' = [cpc EXCEPT ![c] = "idle"]
        /\ timed' = timed \ {c}
        /\ UNCHANGED <<free, inUse, inUseCount, rec>>
  /\ UNCHANGED <<phase, currentSize, nextCurrentSize, data, invalid>>

SpuriousWakeup(c) ==
  /\ cpc[c] = "waiting" /\ phase # "gone"
  /\ cpc' = [cpc EXCEPT ![c] = "woken"]
  /\ UNCHANGED <<phase, free, inUse, sizes, data, rec, timed, invalid>>

-----------------------------------------------------------------------------
(* The Ptr *)

(* get(): the Ptr is made of rec->data and alive_flag after acquire() has released
   the mutex.  Once the body of ~Pool() took the item out of the record, the Ptr
   is made with no item.                                                           *)
MakesPtr(c) ==
  /\ cpc[c] = "acquired" /\ phase # "gone"
  /\ IF data[rec[c]] = "pool"
       THEN cpc' = [cpc EXCEPT ![c] = "holding"] /\ rec' = rec
       ELSE cpc' = [cpc EXCEPT ![c] = "idle"] /\ rec' = [rec EXCEPT ![c] = NoRec]
  /\ UNCHANGED <<phase, free, inUse, sizes, data, timed, invalid>>

(* ~Ptr() or Ptr::reset() find alive_flag not expired and go on to the deleter. *)
StartsToRelease(c) ==
  /\ cpc[c] = "holding" /\ Alive
  /\ cpc' = [cpc EXCEPT ![c] = "releasing"]
  /\ UNCHANGED <<phase, free, inUse, sizes, data, rec, timed, invalid>>

(* ~Ptr() after the pool is destroyed deletes the item itself (reset() leaves it). *)
DeletesItem(c) ==
  /\ cpc[c] = "holding" /\ ~Alive
  /\ invalid' = (invalid \/ data[rec[c]] = "deleted")
  /\ data' = [data EXCEPT ![rec[c]] = "deleted"]
  /\ cpc' = [cpc EXCEPT ![c] = "idle"]
  /\ rec' = [rec EXCEPT ![c] = NoRec]
  /\ UNCHANGED <<phase, free, inUse, sizes, timed>>

Releases(c) ==
  /\ cpc[c] = "releasing" /\ Alive
  /\ free' = Chain(rec[c])
  /\ inUse' = inUse \ {rec[c]}
  /\ inUseCount' = inUseCount - 1
  /\ \E woken \in ReleaseNotify : cpc' = [woken EXCEPT ![c] = "idle"]
  /\ rec' = [rec EXCEPT ![c] = NoRec]
  /\ UNCHANGED <<phase, currentSize, nextCurrentSize, data, timed, invalid>>

(* release() finds that the body of ~Pool() was executed after the Ptr's test: it
   returns, and the unique_ptr has let go of the item.                             *)
ReleasesTooLate(c) ==
  /\ cpc[c] = "releasing" /\ phase = "dying"
  /\ cpc' = [cpc EXCEPT ![c] = "idle"]
  /\ rec' = [rec EXCEPT ![c] = NoRec]
  /\ UNCHANGED <<phase, free, inUse, sizes, data, timed, invalid>>

(* A client inside an operation when the members do not exist any more: it goes on
   with them, or sleeps on a condition variable that was destroyed.                *)
UsesGonePool(c) ==
  /\ phase = "gone"
  /\ cpc[c] \notin {"idle", "holding"}
  /\ invalid' = TRUE
  /\ cpc' = [cpc EXCEPT ![c] = "idle"]
  /\ rec' = [rec EXCEPT ![c] = NoRec]
  /\ UNCHANGED <<phase, free, inUse, sizes, data, timed>>

-----------------------------------------------------------------------------
(* ~Pool(): its body under the mutex, then the destruction of the members. *)
Destroy ==
  /\ phase = "open"
  /\ phase' = "dying"
  /\ data' = [r \in Recs |-> IF data[r] = "pool" /\ r \notin KeptByPool THEN "ptr" ELSE data[r]]
  /\ UNCHANGED <<free, inUse, sizes, cpc, rec, timed, invalid>>

MembersDestroyed ==
  /\ phase = "dying"
  /\ phase' = "gone"
  /\ data' = [r \in Recs |-> IF data[r] = "pool" THEN "deleted" ELSE data[r]]
  /\ UNCHANGED <<free, inUse, sizes, cpc, rec, timed, invalid>>

GetCalled(c) == GetsFree(c) \/ StartsToCreate(c) \/ Waits(c)

ClientStep(c) ==
  \/ CreateFails(c) \/ CreateSucceeds(c)
  \/ WokenGets(c) \/ WokenWaitsAgain(c) \/ TimesOut(c)
  \/ MakesPtr(c)
  \/ StartsToRelease(c) \/ DeletesItem(c) \/ Releases(c) \/ ReleasesTooLate(c)
  \/ UsesGonePool(c)

Next ==
  \/ Grow \/ ConstructorThrows \/ Constructed
  \/ Destroy \/ MembersDestroyed
  \/ \E c \in Clients : GetCalled(c) \/ ClientStep(c) \/ SpuriousWakeup(c)

Spec == Init /\ [][Next]_vars

(* Clients inside the pool run on, and give back what they hold; a deadline passes. *)
FairSpec == Spec /\ \A c \in Clients : WF_vars(ClientStep(c))

-----------------------------------------------------------------------------
(* Properties *)

Held == {rec[c] : c \in Clients} \ {NoRec}

(* The state has its type; a client has a record from acquire() to the release. *)
TypeOK ==
  /\ phase \in Phases
  /\ free \in Seq(Recs)
  /\ inUse \subseteq Recs
  /\ currentSize \in Nat /\ nextCurrentSize \in Nat /\ inUseCount \in Nat
  /\ data \in [Recs -> DataStates]
  /\ cpc \in [Clients -> ClientStates]
  /\ rec \in [Clients -> Recs \cup {NoRec}]
  /\ \A c \in Clients : (rec[c] # NoRec) <=> (cpc[c] \in {"acquired", "holding", "releasing"})
  /\ timed \subseteq Clients
  /\ invalid \in BOOLEAN

(* Two clients never have the same item, and an item that a client has is not in
   the chain from which the next client would be given it.                        *)
HeldExclusively ==
  /\ \A c, d \in Clients : c # d /\ rec[c] = rec[d] => rec[c] = NoRec
  /\ Held \cap Free = {}

(* While the pool is alive no item is lost: each is in the chain, once, or with a
   client; the counters agree with the chain and the in_use flags.                 *)
NothingLost ==
  Alive =>
    /\ \A i, j \in DOMAIN free : free[i] = free[j] => i = j
    /\ Free = PoolData \ inUse
    /\ inUse = Held
    /\ inUseCount = Cardinality(inUse)
    /\ currentSize = Cardinality(PoolData)

(* The pool never grows beyond its maximum, although items are created without
   the mutex, by several clients, and some creations fail.                      *)
GrowthBounded ==
  phase # "gone" =>
    /\ nextCurrentSize = currentSize + Cardinality(InState("creating"))
    /\ nextCurrentSize <= MaxOf(Start, Largest)

(* notify_one() and clients that come and take the item first: while a client
   sleeps in a pool that exists, every free item has a woken client on its way to
   it.                                                                         *)
NoStrandedWaiter ==
  phase # "gone" /\ InState("waiting") # {} => Len(free) <= Cardinality(InState("woken"))

(* The members of a destroyed pool are not used, and no item is deleted twice. *)
NoInvalidUse == ~invalid

(* No item outlives both the pool and its Ptr: "If pool is destroyed, the item will
   be deleted by Ptr destructor" (Pool.h:464).                                     *)
EveryItemDeleted ==
  phase = "gone" => \A r \in PoolData : data[r] = "deleted" \/ r \in Held

(* Clients that wait without a timeout are served once nobody else calls get():
   creations that fail beside them must not use up the pool's room or its items.  *)
WaitersServed ==
  <>[][\A c \in Clients : ~GetCalled(c)]_vars
    => <>[](Alive => InState("waiting") = {})
=============================================================================

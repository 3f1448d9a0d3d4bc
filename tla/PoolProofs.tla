------------------------------ MODULE PoolProofs ------------------------------
(***************************************************************************)
(* What TLAPS proves of the two pools, Pool and WorkerPool, for every      *)
(* number of threads and items and all sizes, and of how they are used and *)
(* destroyed (MCConcurrency).                                              *)
(***************************************************************************)
EXTENDS MCConcurrency, CollectionLemmas

USE PoolAssumption

(* The chain has each record once, a record is linked or held only if it was created,
   and no record is both, or held twice: in every phase, the ones that lose records too. *)
RecordsApart ==
  /\ Distinct(free)
  /\ Free \cup Held \subseteq PoolData
  /\ HeldExclusively

(* Nobody has the pool before its constructor returned. *)
ConstructionAlone == phase = "init" => \A c \in Clients : cpc[c] = "idle"

(* While the pool is alive every item that was created is the pool's. *)
ItemsStay == Alive => \A r \in Recs : data[r] \in {"none", "pool"}

IInv ==
  /\ TypeOK
  /\ RecordsApart
  /\ ConstructionAlone
  /\ ItemsStay
  /\ NothingLost
  /\ GrowthBounded
  /\ NoStrandedWaiter

-----------------------------------------------------------------------------
(* Sizes are natural numbers. *)
LEMMA Sizes == Start \in Nat /\ Largest \in Nat /\ MaxOf(Start, Largest) \in Nat
               /\ Largest <= MaxOf(Start, Largest) /\ Start <= MaxOf(Start, Largest)
BY DEF Start, Largest, MaxOf

(* Every set of clients and every set of records is finite and has a size. *)
LEMMA SetsFinite ==
  /\ \A S \in SUBSET Clients : IsFiniteSet(S) /\ Cardinality(S) \in Nat
  /\ \A S \in SUBSET Recs : IsFiniteSet(S) /\ Cardinality(S) \in Nat
BY FS_Subset, FS_CardinalityType

-----------------------------------------------------------------------------
(* A client that goes from one control state to another. *)
LEMMA ClientMoves ==
  ASSUME TypeOK, NEW c \in Clients, NEW f \in ClientStates, NEW t \in ClientStates \ {f},
         cpc[c] = f,
         cpc' = [cpc EXCEPT ![c] = t]
  PROVE  /\ cpc' \in [Clients -> ClientStates]
         /\ InState(t)' = InState(t) \cup {c} /\ c \notin InState(t)
         /\ \A s \in ClientStates \ {t} : InState(s)' = InState(s) \ {c}
         /\ Cardinality(InState(t)') = Cardinality(InState(t)) + 1
         /\ Cardinality(InState(f)') = Cardinality(InState(f)) - 1
         /\ \A s \in ClientStates \ {t, f} : InState(s)' = InState(s)
<1>1. cpc' \in [Clients -> ClientStates]
  BY DEF TypeOK
<1>2. InState(t)' = InState(t) \cup {c} /\ c \notin InState(t)
  BY DEF TypeOK, InState
<1>3. \A s \in ClientStates \ {t} : InState(s)' = InState(s) \ {c}
  BY DEF TypeOK, InState
<1>4. c \in InState(f)
  BY DEF TypeOK, InState
<1>5. \A s \in ClientStates \ {t, f} : c \notin InState(s)
  BY DEF InState
<1>6. Cardinality(InState(t)') = Cardinality(InState(t)) + 1
  BY <1>2, SetsFinite, FS_AddElement DEF InState
<1>7. Cardinality(InState(f)') = Cardinality(InState(f)) - 1
  <2>1. IsFiniteSet(InState(f))
    BY SetsFinite DEF InState
  <2>2. Cardinality(InState(f) \ {c}) = Cardinality(InState(f)) - 1
    BY <1>4, <2>1, FS_RemoveElement
  <2>3. InState(f)' = InState(f) \ {c}
    BY <1>3, <1>4
  <2> QED BY <2>2, <2>3
<1> QED BY <1>1, <1>2, <1>3, <1>5, <1>6, <1>7

(* FetchTop from a chain of records that nobody has: one of them is the client's. *)
LEMMA Fetched ==
  ASSUME TypeOK, NEW c \in Clients, NEW chain \in Seq(Recs), chain # << >>, Distinct(chain),
         ToSet(chain) \cap Held = {}, rec[c] = NoRec, FetchTop(c, chain)
  PROVE  /\ free' \in Seq(Recs) /\ Distinct(free)' /\ Len(free') = Len(chain) - 1
         /\ Head(chain) \in Recs /\ Head(chain) \in ToSet(chain)
         /\ Free' = ToSet(chain) \ {Head(chain)}
         /\ Held' = Held \cup {Head(chain)}
         /\ \A d, e \in Clients :
              (d # e /\ rec[d] = rec[e] => rec[d] = NoRec)
                => (d # e /\ rec'[d] = rec'[e] => rec'[d] = NoRec)
<1>1. /\ Tail(chain) \in Seq(Recs) /\ Head(chain) \in Recs /\ Head(chain) \in ToSet(chain)
      /\ Len(Tail(chain)) = Len(chain) - 1
      /\ ToSet(Tail(chain)) = ToSet(chain) \ {Head(chain)}
      /\ Distinct(Tail(chain))
  BY FirstTaken
<1>2. free' = Tail(chain) /\ rec' = [rec EXCEPT ![c] = Head(chain)]
  BY DEF FetchTop, TopUnlinked
<1>3. free' \in Seq(Recs) /\ Distinct(free)' /\ Len(free') = Len(chain) - 1
  BY <1>1, <1>2 DEF Distinct
<1>4. Free' = ToSet(chain) \ {Head(chain)}
  BY <1>1, <1>2 DEF Free, ToSet
<1>5. rec'[c] = Head(chain) /\ \A d \in Clients \ {c} : rec'[d] = rec[d]
  BY <1>2 DEF TypeOK
<1>6. Held' = Held \cup {Head(chain)}
  BY <1>1, <1>5 DEF Held
<1>7. Head(chain) \notin Held
  BY <1>1
<1>8. \A d \in Clients : rec[d] # Head(chain)
  BY <1>1, <1>7 DEF Held
<1> QED BY <1>1, <1>3, <1>4, <1>5, <1>6, <1>8

(* A client whose record is taken from it. *)
LEMMA GivenBack ==
  ASSUME TypeOK, HeldExclusively, NEW c \in Clients, rec[c] # NoRec,
         rec' = [rec EXCEPT ![c] = NoRec]
  PROVE  /\ Held' = Held \ {rec[c]}
         /\ rec[c] \in Recs /\ rec[c] \in Held
         /\ \A d, e \in Clients : d # e /\ rec'[d] = rec'[e] => rec'[d] = NoRec
BY DEF TypeOK, HeldExclusively, Held

(* notify_one(): one client that sleeps is woken, if there is one. *)
LEMMA Notified ==
  ASSUME TypeOK, NEW p \in ReleaseNotify
  PROVE  /\ p \in [Clients -> ClientStates]
         /\ \/ InState("waiting") = {} /\ p = cpc
            \/ \E d \in InState("waiting") : p = [cpc EXCEPT ![d] = "woken"]
BY DEF ReleaseNotify, TypeOK, InState, ClientStates

(* FetchTop from the free chain, and from a chain with a new record at its top. *)
LEMMA FetchedFree ==
  ASSUME IInv, NEW c \in Clients, cpc[c] \in {"idle", "waiting", "woken"},
         free # << >>, FetchTop(c, free)
  PROVE  /\ rec[c] = NoRec
         /\ free' \in Seq(Recs) /\ Distinct(free)' /\ Len(free') = Len(free) - 1 /\ Len(free) \in Nat
         /\ Head(free) \in Recs /\ Head(free) \in Free
         /\ Free' = Free \ {Head(free)}
         /\ Held' = Held \cup {Head(free)}
         /\ \A d, e \in Clients : d # e /\ rec'[d] = rec'[e] => rec'[d] = NoRec
<1>1. free \in Seq(Recs) /\ Distinct(free) /\ ToSet(free) = Free /\ Free \cap Held = {}
  BY DEF IInv, TypeOK, RecordsApart, HeldExclusively, ToSet, Free
<1>2. rec[c] = NoRec /\ TypeOK
  BY DEF IInv, TypeOK
<1>3. \A d, e \in Clients : d # e /\ rec[d] = rec[e] => rec[d] = NoRec
  BY DEF IInv, RecordsApart, HeldExclusively
<1> QED BY <1>1, <1>2, <1>3, Fetched, FirstTaken

LEMMA FetchedNew ==
  ASSUME IInv, NEW c \in Clients, cpc[c] = "creating",
         NEW r \in Recs \ PoolData, FetchTop(c, Chain(r))
  PROVE  /\ rec[c] = NoRec
         /\ free' = free
         /\ inUse' = inUse \cup {r}
         /\ rec' = [rec EXCEPT ![c] = r]
         /\ r \notin Free /\ r \notin Held
         /\ Held' = Held \cup {r}
         /\ \A d, e \in Clients : d # e /\ rec'[d] = rec'[e] => rec'[d] = NoRec
<1>1. free \in Seq(Recs) /\ r \notin Free /\ r \notin Held
  BY DEF IInv, TypeOK, RecordsApart
<1>2. Head(Chain(r)) = r /\ Tail(Chain(r)) = free
  BY <1>1, Prefixed DEF Chain
<1>3. rec[c] = NoRec /\ TypeOK
  BY DEF IInv, TypeOK
<1>4. free' = free /\ inUse' = inUse \cup {r} /\ rec' = [rec EXCEPT ![c] = r]
  BY <1>2 DEF FetchTop, TopUnlinked
<1>5. rec'[c] = r /\ \A d \in Clients \ {c} : rec'[d] = rec[d]
  BY <1>3, <1>4 DEF TypeOK
<1>6. Held' = Held \cup {r}
  BY <1>3, <1>5 DEF Held
<1>7. \A d \in Clients : rec[d] # r
  BY <1>1 DEF Held
<1>8. \A d, e \in Clients : d # e /\ rec[d] = rec[e] => rec[d] = NoRec
  BY DEF IInv, RecordsApart, HeldExclusively
<1>9. \A d, e \in Clients : d # e /\ rec'[d] = rec'[e] => rec'[d] = NoRec
  BY <1>5, <1>7, <1>8
<1> QED BY <1>1, <1>3, <1>4, <1>6, <1>9

-----------------------------------------------------------------------------
(* TypeOK: the counters that are lowered were not zero. *)
LEMMA TypeKept ==
  ASSUME IInv, Next
  PROVE  TypeOK'
<1> USE DEF ClientStates, DataStates, Phases
<1>0. TypeOK
  BY DEF IInv
<1>1. ASSUME Grow PROVE TypeOK'
  <2>1. PICK r \in Recs \ PoolData : data' = [data EXCEPT ![r] = "pool"] /\ free' = << r >> \o free
    BY <1>1 DEF Grow
  <2>2. free' \in Seq(Recs) /\ data' \in [Recs -> DataStates]
    BY <1>0, <2>1, Prefixed DEF TypeOK
  <2> QED BY <1>0, <1>1, <2>2 DEF TypeOK, Grow
<1>2. ASSUME ConstructorThrows \/ Constructed \/ Destroy \/ MembersDestroyed PROVE TypeOK'
  BY <1>0, <1>2 DEF TypeOK, ConstructorThrows, Constructed, Destroy, MembersDestroyed, sizes
<1>3. ASSUME NEW c \in Clients, cpc[c] \in {"idle", "waiting", "woken"}, free # << >>,
             FetchTop(c, free), UNCHANGED <<phase, currentSize, nextCurrentSize, data, invalid>>
      PROVE  TypeOK'
  <2>1. free' \in Seq(Recs) /\ Head(free) \in Recs
    BY <1>3, FetchedFree
  <2>2. rec' = [rec EXCEPT ![c] = Head(free)] /\ cpc' = [cpc EXCEPT ![c] = "acquired"]
    BY <1>3 DEF FetchTop
  <2>3. \A d \in Clients : (rec'[d] # NoRec) <=> (cpc'[d] \in {"acquired", "holding", "releasing"})
    BY <1>0, <2>1, <2>2 DEF TypeOK
  <2> QED BY <1>0, <1>3, <2>1, <2>2, <2>3 DEF TypeOK, FetchTop
<1>4. ASSUME NEW c \in Clients, StartsToCreate(c) PROVE TypeOK'
  BY <1>0, <1>4 DEF TypeOK, StartsToCreate, RoomReserved
<1>5. ASSUME NEW c \in Clients, Waits(c) PROVE TypeOK'
  BY <1>0, <1>5 DEF TypeOK, Waits, sizes
<1>6. ASSUME NEW c \in Clients, CreateFails(c) PROVE TypeOK'
  <2>1. c \in InState("creating") /\ IsFiniteSet(InState("creating"))
    BY <1>6, SetsFinite DEF CreateFails, InState
  <2>2. Cardinality(InState("creating")) \in Nat /\ Cardinality(InState("creating")) # 0
    BY <2>1, FS_EmptySet, FS_CardinalityType
  <2>3. nextCurrentSize' \in Nat
    BY <1>0, <1>6, <2>2 DEF IInv, GrowthBounded, CreateFails, TypeOK
  <2> QED BY <1>0, <1>6, <2>3 DEF TypeOK, CreateFails
<1>7. ASSUME NEW c \in Clients, CreateSucceeds(c) PROVE TypeOK'
  <2>1. PICK r \in Recs \ PoolData : data' = [data EXCEPT ![r] = "pool"] /\ FetchTop(c, Chain(r))
    BY <1>7 DEF CreateSucceeds
  <2>2. free' = free /\ inUse' = inUse \cup {r} /\ rec' = [rec EXCEPT ![c] = r]
    BY <1>7, <2>1, FetchedNew DEF CreateSucceeds
  <2>3. cpc' = [cpc EXCEPT ![c] = "acquired"]
    BY <2>1 DEF FetchTop
  <2>4. \A d \in Clients : (rec'[d] # NoRec) <=> (cpc'[d] \in {"acquired", "holding", "releasing"})
    BY <1>0, <2>2, <2>3 DEF TypeOK
  <2> QED BY <1>0, <1>7, <2>1, <2>2, <2>3, <2>4 DEF TypeOK, FetchTop, CreateSucceeds
<1>8. ASSUME NEW c \in Clients, WokenWaitsAgain(c) \/ SpuriousWakeup(c) PROVE TypeOK'
  BY <1>0, <1>8 DEF TypeOK, WokenWaitsAgain, SpuriousWakeup, sizes
<1>9. ASSUME NEW c \in Clients, TimesOut(c), free = << >> PROVE TypeOK'
  BY <1>0, <1>9 DEF TypeOK, TimesOut
<1>10. ASSUME NEW c \in Clients, MakesPtr(c) \/ StartsToRelease(c) PROVE TypeOK'
  BY <1>0, <1>10 DEF TypeOK, MakesPtr, StartsToRelease, sizes
<1>11. ASSUME NEW c \in Clients, DeletesItem(c) \/ ReleasesTooLate(c) \/ UsesGonePool(c) PROVE TypeOK'
  BY <1>0, <1>11 DEF TypeOK, DeletesItem, ReleasesTooLate, UsesGonePool, sizes
<1>12. ASSUME NEW c \in Clients, Releases(c) PROVE TypeOK'
  <2>1. rec[c] \in Held /\ rec[c] \in Recs
    BY <1>0, <1>12 DEF Releases, TypeOK, Held
  <2>2. rec[c] \in inUse /\ inUseCount = Cardinality(inUse) /\ inUse \subseteq Recs
    BY <1>0, <1>12, <2>1 DEF IInv, NothingLost, Releases, TypeOK
  <2>3. inUseCount' \in Nat
    BY <1>0, <1>12, <2>2, SetsFinite, FS_EmptySet DEF Releases, TypeOK
  <2>4. free' \in Seq(Recs)
    BY <1>0, <1>12, <2>1, Prefixed DEF Releases, TypeOK, Chain
  <2>5. PICK p \in ReleaseNotify : cpc' = [p EXCEPT ![c] = "idle"]
    BY <1>12 DEF Releases
  <2>6. /\ p \in [Clients -> ClientStates]
        /\ \A d \in Clients : p[d] = cpc[d] \/ (cpc[d] = "waiting" /\ p[d] = "woken")
    BY <1>0, Notified DEF TypeOK, InState
  <2>7. /\ cpc' \in [Clients -> ClientStates]
        /\ rec' \in [Clients -> Recs \cup {NoRec}]
        /\ \A d \in Clients : (rec'[d] # NoRec) <=> (cpc'[d] \in {"acquired", "holding", "releasing"})
    BY <1>0, <1>12, <2>5, <2>6 DEF TypeOK, Releases
  <2> QED BY <1>0, <1>12, <2>3, <2>4, <2>7 DEF TypeOK, Releases
<1>13. ASSUME NEW c \in Clients, GetsFree(c) \/ WokenGets(c) \/ (TimesOut(c) /\ free # << >>)
       PROVE  TypeOK'
  BY <1>3, <1>13 DEF GetsFree, WokenGets, TimesOut
<1> QED BY <1>1, <1>2, <1>4, <1>5, <1>6, <1>7, <1>8, <1>9, <1>10, <1>11, <1>12, <1>13
        DEF Next, GetCalled, ClientStep

(* RecordsApart: a record is linked when it is created or given back, and then nobody
   has it; it is held when it is taken from the chain.                                *)
LEMMA ApartKept ==
  ASSUME IInv, Next
  PROVE  RecordsApart'
<1>0. /\ TypeOK /\ Distinct(free) /\ Free \cup Held \subseteq PoolData /\ HeldExclusively
      /\ ToSet(free) = Free
  BY DEF IInv, RecordsApart, ToSet, Free
<1>1. ASSUME Grow PROVE RecordsApart'
  <2>1. PICK r \in Recs \ PoolData : data' = [data EXCEPT ![r] = "pool"] /\ free' = << r >> \o free
    BY <1>1 DEF Grow
  <2>2. Distinct(<< r >> \o free) /\ ToSet(<< r >> \o free) = Free \cup {r}
    BY <1>0, <2>1, Prefixed DEF TypeOK
  <2>3. Distinct(free)' /\ Free' = Free \cup {r}
    BY <2>1, <2>2 DEF Distinct, ToSet, Free
  <2>4. PoolData' = PoolData \cup {r} /\ Held' = Held /\ rec' = rec
    BY <1>0, <1>1, <2>1 DEF PoolData, TypeOK, Held, Grow
  <2> QED BY <1>0, <2>1, <2>3, <2>4 DEF RecordsApart, HeldExclusively
<1>2. ASSUME free' = free, rec' = rec, PoolData' = PoolData PROVE RecordsApart'
  BY <1>0, <1>2 DEF RecordsApart, Distinct, Free, Held, HeldExclusively
<1>3. ASSUME ConstructorThrows \/ Constructed \/ Destroy \/ MembersDestroyed PROVE RecordsApart'
  <2>1. PoolData' = PoolData
    BY <1>0, <1>3
       DEF ConstructorThrows, Constructed, Destroy, MembersDestroyed, PoolData, TypeOK
  <2> QED BY <1>2, <1>3, <2>1 DEF ConstructorThrows, Constructed, Destroy, MembersDestroyed
<1>4. ASSUME NEW c \in Clients, GetsFree(c) \/ WokenGets(c) \/ (TimesOut(c) /\ free # << >>)
      PROVE  RecordsApart'
  <2>1. FetchTop(c, free) /\ cpc[c] \in {"idle", "waiting", "woken"} /\ free # << >> /\ data' = data
    BY <1>4 DEF GetsFree, WokenGets, TimesOut
  <2>2. /\ Distinct(free)' /\ Free' = Free \ {Head(free)} /\ Held' = Held \cup {Head(free)}
        /\ Head(free) \in Free
        /\ \A d, e \in Clients : d # e /\ rec'[d] = rec'[e] => rec'[d] = NoRec
    BY <2>1, FetchedFree
  <2>3. PoolData' = PoolData
    BY <2>1 DEF PoolData
  <2> QED BY <1>0, <2>2, <2>3 DEF RecordsApart, HeldExclusively
<1>5. ASSUME NEW c \in Clients, CreateSucceeds(c) PROVE RecordsApart'
  <2>1. PICK r \in Recs \ PoolData : data' = [data EXCEPT ![r] = "pool"] /\ FetchTop(c, Chain(r))
    BY <1>5 DEF CreateSucceeds
  <2>2. /\ free' = free /\ r \notin Free /\ Held' = Held \cup {r}
        /\ \A d, e \in Clients : d # e /\ rec'[d] = rec'[e] => rec'[d] = NoRec
    BY <1>5, <2>1, FetchedNew DEF CreateSucceeds
  <2>3. PoolData' = PoolData \cup {r} /\ Distinct(free)' /\ Free' = Free
    BY <1>0, <2>1, <2>2 DEF PoolData, TypeOK, Distinct, Free
  <2> QED BY <1>0, <2>2, <2>3 DEF RecordsApart, HeldExclusively
<1>6. ASSUME NEW c \in Clients,
             \/ StartsToCreate(c) \/ Waits(c) \/ CreateFails(c)
             \/ WokenWaitsAgain(c) \/ SpuriousWakeup(c) \/ StartsToRelease(c)
             \/ (TimesOut(c) /\ free = << >>)
      PROVE  RecordsApart'
  BY <1>2, <1>6 DEF StartsToCreate, Waits, CreateFails, WokenWaitsAgain, SpuriousWakeup,
                    StartsToRelease, TimesOut, PoolData
<1>7. ASSUME NEW c \in Clients, free' = free, rec' = [rec EXCEPT ![c] = NoRec],
             PoolData' = PoolData
      PROVE  RecordsApart'
  <2>1. \A d \in Clients : rec'[d] = rec[d] \/ rec'[d] = NoRec
    BY <1>0, <1>7 DEF TypeOK
  <2>2. Held' \subseteq Held /\ Free' = Free /\ Distinct(free)'
    BY <1>0, <1>7, <2>1 DEF Held, Free, Distinct
  <2> QED BY <1>0, <1>7, <2>1, <2>2 DEF RecordsApart, HeldExclusively
<1>8. ASSUME NEW c \in Clients, MakesPtr(c) PROVE RecordsApart'
  BY <1>2, <1>7, <1>8 DEF MakesPtr, PoolData
<1>9. ASSUME NEW c \in Clients, DeletesItem(c) PROVE RecordsApart'
  <2>1. rec[c] \in PoolData
    BY <1>0, <1>9 DEF DeletesItem, TypeOK, Held
  <2>2. PoolData' = PoolData
    BY <1>0, <1>9, <2>1 DEF DeletesItem, PoolData, TypeOK
  <2> QED BY <1>7, <1>9, <2>2 DEF DeletesItem
<1>10. ASSUME NEW c \in Clients, ReleasesTooLate(c) \/ UsesGonePool(c) PROVE RecordsApart'
  BY <1>7, <1>10 DEF ReleasesTooLate, UsesGonePool, PoolData
<1>11. ASSUME NEW c \in Clients, Releases(c) PROVE RecordsApart'
  <2>1. rec[c] # NoRec /\ rec' = [rec EXCEPT ![c] = NoRec] /\ free' = << rec[c] >> \o free
        /\ PoolData' = PoolData
    BY <1>0, <1>11 DEF Releases, TypeOK, Chain, PoolData
  <2>2. /\ Held' = Held \ {rec[c]} /\ rec[c] \in Recs /\ rec[c] \in Held
        /\ \A d, e \in Clients : d # e /\ rec'[d] = rec'[e] => rec'[d] = NoRec
    BY <1>0, <2>1, GivenBack
  <2>3. rec[c] \notin Free
    BY <1>0, <2>2 DEF HeldExclusively
  <2>4. Distinct(<< rec[c] >> \o free) /\ ToSet(<< rec[c] >> \o free) = Free \cup {rec[c]}
    BY <1>0, <2>2, <2>3, Prefixed DEF TypeOK
  <2>5. Distinct(free)' /\ Free' = Free \cup {rec[c]}
    BY <2>1, <2>4 DEF Distinct, ToSet, Free
  <2> QED BY <1>0, <2>1, <2>2, <2>5 DEF RecordsApart, HeldExclusively
<1> QED BY <1>1, <1>3, <1>4, <1>5, <1>6, <1>8, <1>9, <1>10, <1>11
        DEF Next, GetCalled, ClientStep

(* While the pool is constructed its clients are outside. *)
LEMMA ConstructionAloneKept ==
  ASSUME IInv, Next
  PROVE  ConstructionAlone'
<1>1. ASSUME NEW c \in Clients, GetCalled(c) \/ ClientStep(c) \/ SpuriousWakeup(c)
      PROVE  phase' = phase /\ (phase = "init" => cpc[c] # "idle")
  BY <1>1 DEF GetCalled, ClientStep, GetsFree, StartsToCreate, Waits, CreateFails, CreateSucceeds,
              WokenGets, WokenWaitsAgain, TimesOut, MakesPtr, StartsToRelease, DeletesItem,
              Releases, ReleasesTooLate, UsesGonePool, SpuriousWakeup
<1>2. ASSUME Grow \/ ConstructorThrows \/ Constructed \/ Destroy \/ MembersDestroyed
      PROVE  cpc' = cpc /\ (phase' = "init" => phase = "init")
  BY <1>2 DEF Grow, ConstructorThrows, Constructed, Destroy, MembersDestroyed
<1> QED BY <1>1, <1>2 DEF Next, IInv, ConstructionAlone

(* Items are created for the pool, and deleted or handed over when it ends. *)
LEMMA ItemsStayKept ==
  ASSUME IInv, Next
  PROVE  ItemsStay'
<1>0. TypeOK /\ ItemsStay
  BY DEF IInv
<1>1. ASSUME UNCHANGED data, Alive' => Alive PROVE ItemsStay'
  BY <1>0, <1>1 DEF ItemsStay
<1>2. ASSUME NEW r \in Recs, data' = [data EXCEPT ![r] = "pool"], phase' = phase PROVE ItemsStay'
  BY <1>0, <1>2 DEF ItemsStay, TypeOK, Alive
<1>3. ASSUME Grow \/ \E c \in Clients : CreateSucceeds(c) PROVE ItemsStay'
  BY <1>2, <1>3 DEF Grow, CreateSucceeds
<1>4. ASSUME ConstructorThrows \/ Destroy \/ MembersDestroyed PROVE ItemsStay'
  BY <1>4 DEF ConstructorThrows, Destroy, MembersDestroyed, ItemsStay, Alive
<1>5. ASSUME Constructed PROVE ItemsStay'
  BY <1>1, <1>5 DEF Constructed, Alive
<1>6. ASSUME NEW c \in Clients, DeletesItem(c) PROVE ItemsStay'
  BY <1>6 DEF DeletesItem, ItemsStay, Alive
<1>7. ASSUME NEW c \in Clients,
             \/ GetCalled(c) \/ SpuriousWakeup(c) \/ CreateFails(c) \/ WokenGets(c)
             \/ WokenWaitsAgain(c) \/ TimesOut(c) \/ MakesPtr(c) \/ StartsToRelease(c)
             \/ Releases(c) \/ ReleasesTooLate(c) \/ UsesGonePool(c)
      PROVE  ItemsStay'
  BY <1>1, <1>7 DEF GetCalled, GetsFree, StartsToCreate, Waits, CreateFails, WokenGets,
                    WokenWaitsAgain, TimesOut, MakesPtr, StartsToRelease, Releases,
                    ReleasesTooLate, UsesGonePool, SpuriousWakeup, Alive
<1> QED BY <1>3, <1>4, <1>5, <1>6, <1>7 DEF Next, ClientStep

(* NothingLost: the chain, the flags and the clients change together. *)
LEMMA NothingLostKept ==
  ASSUME IInv, Next
  PROVE  NothingLost'
<1> SUFFICES ASSUME Alive' PROVE NothingLost'
  BY DEF NothingLost
<1>0. /\ TypeOK /\ Alive /\ ConstructionAlone
      /\ Distinct(free) /\ HeldExclusively
      /\ free \in Seq(Recs) /\ ToSet(free) = Free
  <2>1. Alive
    BY DEF Next, Grow, ConstructorThrows, Constructed, Destroy, MembersDestroyed,
           Alive, GetCalled, ClientStep, GetsFree, StartsToCreate, Waits, CreateFails,
           CreateSucceeds, WokenGets, WokenWaitsAgain, TimesOut, MakesPtr, StartsToRelease,
           DeletesItem, Releases, ReleasesTooLate, UsesGonePool, SpuriousWakeup
  <2> QED BY <2>1 DEF IInv, RecordsApart, TypeOK, ToSet, Free
<1>1. /\ Free = PoolData \ inUse /\ inUse = Held
      /\ inUseCount = Cardinality(inUse) /\ currentSize = Cardinality(PoolData)
      /\ Free \cup Held \subseteq PoolData
  BY <1>0 DEF IInv, NothingLost, RecordsApart
<1>2. Distinct(free)'
  BY ApartKept DEF RecordsApart
<1>3. SUFFICES /\ Free' = PoolData' \ inUse' /\ inUse' = Held'
               /\ inUseCount' = Cardinality(inUse') /\ currentSize' = Cardinality(PoolData')
  BY <1>2 DEF NothingLost, Distinct
<1> DEFINE Goal == /\ Free' = PoolData' \ inUse' /\ inUse' = Held'
                   /\ inUseCount' = Cardinality(inUse') /\ currentSize' = Cardinality(PoolData')
<1>4. IsFiniteSet(inUse) /\ IsFiniteSet(PoolData) /\ PoolData \subseteq Recs
  BY <1>0, SetsFinite DEF TypeOK, PoolData
<1>5. ASSUME Grow PROVE Goal
  <2>1. PICK r \in Recs \ PoolData : data' = [data EXCEPT ![r] = "pool"] /\ free' = << r >> \o free
    BY <1>5 DEF Grow
  <2>2. ToSet(<< r >> \o free) = Free \cup {r}
    BY <1>0, <2>1, Prefixed
  <2>3. Free' = Free \cup {r}
    BY <2>1, <2>2 DEF ToSet, Free
  <2>4. PoolData' = PoolData \cup {r} /\ Held' = Held /\ inUse' = inUse /\ inUseCount' = inUseCount
        /\ currentSize' = currentSize + 1
    BY <1>0, <1>5, <2>1 DEF PoolData, TypeOK, Held, Grow
  <2>5. Cardinality(PoolData \cup {r}) = Cardinality(PoolData) + 1
    BY <1>4, <2>1, FS_AddElement
  <2>6. r \notin inUse
    BY <1>1, <2>1
  <2> QED BY <1>1, <2>3, <2>4, <2>5, <2>6
<1>6. ASSUME UNCHANGED <<free, inUse, inUseCount, currentSize, data, rec>> PROVE Goal
  BY <1>1, <1>6 DEF Free, PoolData, Held
<1>7. ASSUME ConstructorThrows \/ Constructed \/ Destroy \/ MembersDestroyed PROVE Goal
  BY <1>6, <1>7 DEF ConstructorThrows, Constructed, Destroy, MembersDestroyed, Alive, sizes
<1>8. ASSUME NEW c \in Clients, GetsFree(c) \/ WokenGets(c) \/ (TimesOut(c) /\ free # << >>)
      PROVE  Goal
  <2>1. FetchTop(c, free) /\ cpc[c] \in {"idle", "waiting", "woken"} /\ free # << >>
        /\ data' = data /\ currentSize' = currentSize
    BY <1>8 DEF GetsFree, WokenGets, TimesOut
  <2>2. Free' = Free \ {Head(free)} /\ Held' = Held \cup {Head(free)} /\ Head(free) \in Free
    BY <2>1, FetchedFree
  <2>3. PoolData' = PoolData /\ inUse' = inUse \cup {Head(free)} /\ inUseCount' = inUseCount + 1
    BY <2>1 DEF PoolData, FetchTop
  <2>4. Cardinality(inUse \cup {Head(free)}) = Cardinality(inUse) + 1
    BY <1>1, <1>4, <2>2, FS_AddElement
  <2> QED BY <1>1, <2>1, <2>2, <2>3, <2>4
<1>9. ASSUME NEW c \in Clients, CreateSucceeds(c) PROVE Goal
  <2>1. PICK r \in Recs \ PoolData : data' = [data EXCEPT ![r] = "pool"] /\ FetchTop(c, Chain(r))
    BY <1>9 DEF CreateSucceeds
  <2>2. free' = free /\ inUse' = inUse \cup {r} /\ r \notin Free /\ Held' = Held \cup {r}
        /\ r \notin Held
    BY <1>9, <2>1, FetchedNew DEF CreateSucceeds
  <2>3. PoolData' = PoolData \cup {r} /\ Free' = Free /\ inUseCount' = inUseCount + 1
        /\ currentSize' = currentSize + 1
    BY <1>0, <1>9, <2>1, <2>2 DEF PoolData, TypeOK, Free, FetchTop, CreateSucceeds
  <2>4. /\ Cardinality(inUse \cup {r}) = Cardinality(inUse) + 1
        /\ Cardinality(PoolData \cup {r}) = Cardinality(PoolData) + 1
    BY <1>1, <1>4, <2>1, <2>2, FS_AddElement
  <2> QED BY <1>1, <2>1, <2>2, <2>3, <2>4
<1>10. ASSUME NEW c \in Clients,
              \/ StartsToCreate(c) \/ Waits(c) \/ CreateFails(c)
              \/ WokenWaitsAgain(c) \/ SpuriousWakeup(c) \/ StartsToRelease(c)
              \/ (TimesOut(c) /\ free = << >>)
       PROVE  Goal
  BY <1>6, <1>10 DEF StartsToCreate, Waits, CreateFails, WokenWaitsAgain, SpuriousWakeup,
                     StartsToRelease, TimesOut, sizes
<1>11. ASSUME NEW c \in Clients, Releases(c) PROVE Goal
  <2>1. rec[c] # NoRec /\ rec' = [rec EXCEPT ![c] = NoRec] /\ free' = << rec[c] >> \o free
        /\ PoolData' = PoolData
    BY <1>0, <1>11 DEF Releases, TypeOK, Chain, PoolData
  <2>2. Held' = Held \ {rec[c]} /\ rec[c] \in Recs /\ rec[c] \in Held
    BY <1>0, <2>1, GivenBack
  <2>3. ToSet(<< rec[c] >> \o free) = Free \cup {rec[c]}
    BY <1>0, <2>2, Prefixed
  <2>4. Free' = Free \cup {rec[c]}
    BY <2>1, <2>3 DEF ToSet, Free
  <2>5. inUse' = inUse \ {rec[c]} /\ inUseCount' = inUseCount - 1 /\ currentSize' = currentSize
    BY <1>11 DEF Releases
  <2>6. Cardinality(inUse \ {rec[c]}) = Cardinality(inUse) - 1
    BY <1>1, <1>4, <2>2, FS_RemoveElement
  <2> QED BY <1>1, <2>1, <2>2, <2>4, <2>5, <2>6
<1>12. ASSUME NEW c \in Clients, MakesPtr(c) PROVE Goal
  <2>1. rec[c] \in PoolData
    BY <1>0, <1>1, <1>12 DEF MakesPtr, TypeOK, Held
  <2>2. data[rec[c]] = "pool"
    BY <1>0, <2>1 DEF IInv, ItemsStay, PoolData
  <2> QED BY <1>6, <1>12, <2>2 DEF MakesPtr, sizes
<1>13. ASSUME NEW c \in Clients, DeletesItem(c) \/ ReleasesTooLate(c) \/ UsesGonePool(c)
       PROVE  Goal
  BY <1>0, <1>13 DEF DeletesItem, ReleasesTooLate, UsesGonePool, Alive
<1> QED BY <1>5, <1>7, <1>8, <1>9, <1>10, <1>11, <1>12, <1>13
        DEF Next, GetCalled, ClientStep

(* GrowthBounded: room is reserved before an item is created, and given up when that fails. *)
LEMMA GrowthKept ==
  ASSUME IInv, Next
  PROVE  GrowthBounded'
<1> USE DEF ClientStates
<1> DEFINE creating == Cardinality(InState("creating"))
<1> SUFFICES ASSUME phase' # "gone"
             PROVE  /\ nextCurrentSize' = currentSize' + creating'
                    /\ nextCurrentSize' <= MaxOf(Start, Largest)
  BY DEF GrowthBounded, MaxOf, Start, Largest
<1>0. /\ TypeOK /\ ConstructionAlone /\ phase # "gone"
      /\ nextCurrentSize = currentSize + creating
      /\ nextCurrentSize <= MaxOf(Start, Largest)
      /\ creating \in Nat /\ nextCurrentSize \in Nat /\ currentSize \in Nat
  <2>1. phase # "gone"
    BY DEF Next, Grow, ConstructorThrows, Constructed, Destroy, MembersDestroyed,
           GetCalled, ClientStep, GetsFree, StartsToCreate, Waits, CreateFails,
           CreateSucceeds, WokenGets, WokenWaitsAgain, TimesOut, MakesPtr, StartsToRelease,
           DeletesItem, Releases, ReleasesTooLate, UsesGonePool, SpuriousWakeup
  <2> QED BY <2>1, SetsFinite DEF IInv, GrowthBounded, TypeOK, InState
<1> DEFINE Goal == nextCurrentSize' = currentSize' + creating' /\ nextCurrentSize' <= MaxOf(Start, Largest)
<1>1. ASSUME Grow PROVE Goal
  <2>1. InState("creating") = {} /\ InState("creating")' = {}
    BY <1>0, <1>1 DEF Grow, ConstructionAlone, InState
  <2>2. creating = 0 /\ creating' = 0
    BY <2>1, FS_EmptySet
  <2>3. /\ currentSize < Start
        /\ currentSize' = currentSize + 1 /\ nextCurrentSize' = nextCurrentSize + 1
    BY <1>1 DEF Grow
  <2> QED BY <1>0, <2>2, <2>3, Sizes
<1>2. ASSUME InState("creating")' = InState("creating"), UNCHANGED <<nextCurrentSize, currentSize>>
      PROVE  Goal
  BY <1>0, <1>2
<1>3. ASSUME ConstructorThrows \/ Constructed \/ Destroy \/ MembersDestroyed PROVE Goal
  BY <1>2, <1>3 DEF ConstructorThrows, Constructed, Destroy, MembersDestroyed, sizes, InState
<1>4. ASSUME NEW c \in Clients, NEW t \in ClientStates \ {"creating"}, cpc[c] # "creating",
             cpc' = [cpc EXCEPT ![c] = t], UNCHANGED <<nextCurrentSize, currentSize>>
      PROVE  Goal
  <2>1. InState("creating")' = InState("creating")
    BY <1>0, <1>4 DEF TypeOK, InState
  <2> QED BY <1>2, <1>4, <2>1
<1>5. ASSUME NEW c \in Clients,
             \/ GetsFree(c) \/ Waits(c) \/ WokenGets(c) \/ WokenWaitsAgain(c) \/ TimesOut(c)
             \/ SpuriousWakeup(c) \/ StartsToRelease(c) \/ DeletesItem(c)
             \/ ReleasesTooLate(c) \/ UsesGonePool(c)
      PROVE  Goal
  BY <1>0, <1>4, <1>5
     DEF GetsFree, Waits, WokenGets, WokenWaitsAgain, TimesOut, SpuriousWakeup, StartsToRelease,
         DeletesItem, ReleasesTooLate, UsesGonePool, FetchTop, sizes
<1>6. ASSUME NEW c \in Clients, MakesPtr(c) PROVE Goal
  BY <1>4, <1>6 DEF MakesPtr, sizes
<1>7. ASSUME NEW c \in Clients, StartsToCreate(c) PROVE Goal
  <2>3. cpc[c] = "idle" /\ cpc' = [cpc EXCEPT ![c] = "creating"]
    BY <1>7 DEF StartsToCreate
  <2>4. "idle" \in ClientStates /\ "creating" \in ClientStates \ {"idle"} /\ TypeOK
    BY <1>0
  <2>1. creating' = creating + 1
    <3> HIDE DEF ClientStates
    <3>1. Cardinality(InState("creating")') = Cardinality(InState("creating")) + 1
      BY <2>3, <2>4, ClientMoves
    <3> QED BY <3>1
  <2>2. nextCurrentSize < Largest /\ nextCurrentSize' = nextCurrentSize + 1 /\ currentSize' = currentSize
    BY <1>7 DEF StartsToCreate, MayGrow, RoomReserved
  <2> QED BY <1>0, <2>1, <2>2, Sizes
<1>8. ASSUME NEW c \in Clients, CreateFails(c) PROVE Goal
  <2>3. cpc[c] = "creating" /\ cpc' = [cpc EXCEPT ![c] = "idle"]
    BY <1>8 DEF CreateFails
  <2>1. creating' = creating - 1
    BY <1>0, <2>3, ClientMoves
  <2>2. nextCurrentSize' = nextCurrentSize - 1 /\ currentSize' = currentSize
    BY <1>8 DEF CreateFails
  <2> QED BY <1>0, <2>1, <2>2, Sizes
<1>9. ASSUME NEW c \in Clients, CreateSucceeds(c) PROVE Goal
  <2>1. cpc[c] = "creating" /\ cpc' = [cpc EXCEPT ![c] = "acquired"]
        /\ currentSize' = currentSize + 1 /\ nextCurrentSize' = nextCurrentSize
    BY <1>9 DEF CreateSucceeds, FetchTop
  <2>2. creating' = creating - 1
    BY <1>0, <2>1, ClientMoves
  <2> QED BY <1>0, <2>1, <2>2
<1>10. ASSUME NEW c \in Clients, Releases(c) PROVE Goal
  <2>1. PICK p \in ReleaseNotify : cpc' = [p EXCEPT ![c] = "idle"]
    BY <1>10 DEF Releases
  <2>2. /\ p \in [Clients -> ClientStates]
        /\ \A d \in Clients : p[d] = cpc[d] \/ (cpc[d] = "waiting" /\ p[d] = "woken")
    BY <1>0, Notified DEF TypeOK, InState
  <2>3. InState("creating")' = InState("creating")
    BY <1>10, <2>1, <2>2 DEF InState, Releases
  <2> QED BY <1>2, <1>10, <2>3 DEF Releases
<1> QED BY <1>1, <1>3, <1>5, <1>6, <1>7, <1>8, <1>9, <1>10 DEF Next, GetCalled, ClientStep

(* NoStrandedWaiter: each release that leaves a client asleep has woken one. *)
LEMMA WaitersKept ==
  ASSUME IInv, Next
  PROVE  NoStrandedWaiter'
<1> USE DEF ClientStates
<1> DEFINE woken == Cardinality(InState("woken"))
<1> SUFFICES ASSUME phase' # "gone", InState("waiting")' # {}
             PROVE  Len(free') <= woken'
  BY DEF NoStrandedWaiter
<1>0. /\ TypeOK /\ ConstructionAlone /\ phase # "gone"
      /\ InState("waiting") # {} => Len(free) <= woken
      /\ Len(free) \in Nat /\ woken \in Nat
  <2>1. phase # "gone"
    BY DEF Next, Grow, ConstructorThrows, Constructed, Destroy, MembersDestroyed,
           GetCalled, ClientStep, GetsFree, StartsToCreate, Waits, CreateFails,
           CreateSucceeds, WokenGets, WokenWaitsAgain, TimesOut, MakesPtr, StartsToRelease,
           DeletesItem, Releases, ReleasesTooLate, UsesGonePool, SpuriousWakeup
  <2>2. woken \in Nat
    BY SetsFinite DEF InState
  <2> QED BY <2>1, <2>2 DEF IInv, NoStrandedWaiter, TypeOK
<1> DEFINE Goal == Len(free') <= woken'
<1>1. ASSUME Grow PROVE Goal
  BY <1>0, <1>1 DEF Grow, ConstructionAlone, InState
<1>2. ASSUME UNCHANGED <<free, cpc>> PROVE Goal
  BY <1>0, <1>2 DEF InState
<1>3. ASSUME ConstructorThrows \/ Constructed \/ Destroy \/ MembersDestroyed PROVE Goal
  BY <1>2, <1>3 DEF ConstructorThrows, Constructed, Destroy, MembersDestroyed
<1>4. ASSUME NEW c \in Clients, NEW t \in ClientStates \ {"waiting", "woken"},
             cpc[c] # "woken", cpc' = [cpc EXCEPT ![c] = t], Len(free') <= Len(free),
             Len(free') \in Nat
      PROVE  Goal
  <2>1. InState("waiting")' \subseteq InState("waiting") /\ InState("woken")' = InState("woken")
    BY <1>0, <1>4 DEF TypeOK, InState
  <2> QED BY <1>0, <1>4, <2>1
<1>5. ASSUME NEW c \in Clients,
             \/ StartsToCreate(c) \/ CreateFails(c) \/ StartsToRelease(c)
             \/ DeletesItem(c) \/ ReleasesTooLate(c)
      PROVE  Goal
  BY <1>0, <1>4, <1>5
     DEF StartsToCreate, CreateFails, StartsToRelease, DeletesItem, ReleasesTooLate
<1>6. ASSUME NEW c \in Clients, MakesPtr(c) PROVE Goal
  BY <1>0, <1>4, <1>6 DEF MakesPtr
<1>7. ASSUME NEW c \in Clients, CreateSucceeds(c) PROVE Goal
  <2>1. PICK r \in Recs \ PoolData : data' = [data EXCEPT ![r] = "pool"] /\ FetchTop(c, Chain(r))
    BY <1>7 DEF CreateSucceeds
  <2>2. free' = free
    BY <1>7, <2>1, FetchedNew DEF CreateSucceeds
  <2>3. cpc[c] = "creating" /\ cpc' = [cpc EXCEPT ![c] = "acquired"]
    BY <1>7, <2>1 DEF CreateSucceeds, FetchTop
  <2>4. Len(free') <= Len(free) /\ Len(free') \in Nat
    BY <1>0, <2>2
  <2> QED BY <1>4, <2>3, <2>4
<1>8. ASSUME NEW c \in Clients, free # << >>,
             FetchTop(c, free), cpc[c] \in {"idle", "waiting", "woken"}
      PROVE  Goal
  <2>1. Len(free') = Len(free) - 1 /\ Len(free) \in Nat /\ free' \in Seq(Recs)
    BY <1>8, FetchedFree
  <2>2. Len(free') \in Nat
    BY <2>1
  <2>3. cpc' = [cpc EXCEPT ![c] = "acquired"]
    BY <1>8 DEF FetchTop
  <2>4. CASE cpc[c] # "woken"
    <3>1. Len(free') <= Len(free)
      BY <2>1
    <3> QED BY <1>4, <2>4, <2>2, <2>3, <3>1
  <2>5. CASE cpc[c] = "woken"
    <3>1. "woken" \in ClientStates /\ "acquired" \in ClientStates \ {"woken"}
      OBVIOUS
    <3>2. woken' = woken - 1
      BY <1>0, <2>3, <2>5, <3>1, ClientMoves
    <3>3. InState("waiting")' = InState("waiting")
      BY <1>0, <2>3, <2>5 DEF InState, TypeOK
    <3> QED BY <1>0, <2>1, <3>2, <3>3
  <2> QED BY <2>4, <2>5
<1>9. ASSUME NEW c \in Clients, GetsFree(c) \/ WokenGets(c) \/ (TimesOut(c) /\ free # << >>)
      PROVE  Goal
  BY <1>8, <1>9 DEF GetsFree, WokenGets, TimesOut
<1>10. ASSUME free' = << >> PROVE Goal
  <2>1. InState("woken")' \subseteq Clients
    BY DEF InState
  <2>2. woken' \in Nat
    BY <2>1, SetsFinite
  <2>3. Len(free') = 0
    BY <1>10
  <2> QED BY <2>2, <2>3
<1>11. ASSUME NEW c \in Clients, Waits(c) \/ WokenWaitsAgain(c) \/ (TimesOut(c) /\ free = << >>)
       PROVE  Goal
  BY <1>10, <1>11 DEF Waits, WokenWaitsAgain, TimesOut
<1>12. ASSUME NEW c \in Clients, SpuriousWakeup(c) PROVE Goal
  <2>1. cpc[c] = "waiting" /\ cpc' = [cpc EXCEPT ![c] = "woken"] /\ free' = free
    BY <1>12 DEF SpuriousWakeup
  <2>2. woken' = woken + 1
    BY <1>0, <2>1, ClientMoves
  <2>3. InState("waiting") # {}
    BY <2>1 DEF InState
  <2> QED BY <1>0, <2>1, <2>2, <2>3
<1>13. ASSUME NEW c \in Clients, Releases(c) PROVE Goal
  <2>1. PICK p \in ReleaseNotify : cpc' = [p EXCEPT ![c] = "idle"]
    BY <1>13 DEF Releases
  <2>2. InState("waiting") # {}
    BY <1>0, <2>1, Notified DEF InState, TypeOK
  <2>3. PICK d \in InState("waiting") : p = [cpc EXCEPT ![d] = "woken"]
    BY <1>0, <2>2, Notified
  <2>4. InState("woken")' = InState("woken") \cup {d} /\ d \notin InState("woken")
    BY <1>0, <1>13, <2>1, <2>3 DEF InState, TypeOK, Releases
  <2>5. woken' = woken + 1
    BY <2>4, SetsFinite, FS_AddElement DEF InState
  <2>6. Len(free') = Len(free) + 1
    BY <1>0, <1>13, Prefixed DEF Releases, Chain, TypeOK
  <2> QED BY <1>0, <2>2, <2>5, <2>6
<1>14. ASSUME NEW c \in Clients, UsesGonePool(c) PROVE Goal
  BY <1>0, <1>14 DEF UsesGonePool
<1> QED BY <1>1, <1>3, <1>5, <1>6, <1>7, <1>9, <1>11, <1>12, <1>13, <1>14
        DEF Next, GetCalled, ClientStep

-----------------------------------------------------------------------------
LEMMA InitInv == Init => IInv
<1> SUFFICES ASSUME Init PROVE IInv
  OBVIOUS
<1>1. TypeOK
  <2>1. free \in Seq(Recs)
    BY DEF Init
  <2> QED BY <2>1 DEF Init, TypeOK, Phases, DataStates, ClientStates
<1>2. Held = {} /\ Free = {} /\ PoolData = {} /\ DOMAIN free = {}
  BY DEF Init, Held, Free, PoolData
<1>3. RecordsApart /\ ConstructionAlone /\ ItemsStay
  BY <1>2 DEF Init, RecordsApart, Distinct, HeldExclusively, ConstructionAlone, ItemsStay
<1>4. NothingLost
  BY <1>2, FS_EmptySet DEF Init, NothingLost
<1>5. GrowthBounded
  <2>1. InState("creating") = {}
    BY DEF Init, InState
  <2>2. Cardinality(InState("creating")) = 0
    BY <2>1, FS_EmptySet
  <2>3. 0 <= MaxOf(Start, Largest)
    BY Sizes
  <2> QED BY <2>2, <2>3 DEF Init, GrowthBounded
<1>6. NoStrandedWaiter
  BY DEF Init, NoStrandedWaiter, InState
<1> QED BY <1>1, <1>3, <1>4, <1>5, <1>6 DEF IInv

LEMMA StutterInv == ASSUME IInv, UNCHANGED vars PROVE IInv'
<1>0. UNCHANGED <<phase, free, inUse, currentSize, nextCurrentSize, inUseCount, data, cpc, rec,
                  timed, invalid>>
  BY DEF vars, sizes
<1>1. TypeOK'
  BY <1>0 DEF IInv, TypeOK
<1>2. PoolData' = PoolData /\ Free' = Free /\ Held' = Held
  BY <1>0 DEF PoolData, Free, Held
<1>3. RecordsApart'
  BY <1>0, <1>2 DEF IInv, RecordsApart, Distinct, HeldExclusively
<1>4. ConstructionAlone' /\ ItemsStay'
  BY <1>0 DEF IInv, ConstructionAlone, ItemsStay, Alive
<1>5. NothingLost'
  BY <1>0, <1>2 DEF IInv, NothingLost, Alive
<1>6. \A s : InState(s)' = InState(s)
  BY <1>0 DEF InState
<1>7. GrowthBounded' /\ NoStrandedWaiter'
  BY <1>0, <1>6 DEF IInv, GrowthBounded, NoStrandedWaiter
<1> QED BY <1>1, <1>3, <1>4, <1>5, <1>7 DEF IInv

LEMMA NextInv == IInv /\ [Next]_vars => IInv'
<1>1. ASSUME IInv, Next PROVE IInv'
  BY <1>1, TypeKept, ApartKept, ConstructionAloneKept, ItemsStayKept, NothingLostKept,
     GrowthKept, WaitersKept DEF IInv
<1>2. ASSUME IInv, UNCHANGED vars PROVE IInv'
  BY <1>2, StutterInv
<1> QED BY <1>1, <1>2

LEMMA Invariance == Spec => []IInv
BY InitInv, NextInv, PTL DEF Spec

(* The state keeps its type: in particular a client has a record from the end of
   acquire() to its release, and no counter is lowered below zero.               *)
THEOREM TypeCorrect == Spec => []TypeOK
<1>1. IInv => TypeOK
  BY DEF IInv
<1> QED BY <1>1, Invariance, PTL

(* No two clients have one item, and the next client is not given one that is in use,
   whoever waits, times out, creates or fails to, also while the pool is destroyed.    *)
THEOREM OneUser == Spec => []HeldExclusively
<1>1. IInv => HeldExclusively
  BY DEF IInv, RecordsApart
<1> QED BY <1>1, Invariance, PTL

(* While the pool is alive the chain, the flags, the counters and the clients agree
   on each of its items.                                                            *)
THEOREM ItemsAccounted == Spec => []NothingLost
<1>1. IInv => NothingLost
  BY DEF IInv
<1> QED BY <1>1, Invariance, PTL

(* The pool does not outgrow its maximum (or its start size, if that is more). *)
THEOREM Growth == Spec => []GrowthBounded
<1>1. IInv => GrowthBounded
  BY DEF IInv
<1> QED BY <1>1, Invariance, PTL

(* notify_one() in release() is enough: no wakeup of a waiting client is lost. *)
THEOREM NoWakeupLost == Spec => []NoStrandedWaiter
<1>1. IInv => NoStrandedWaiter
  BY DEF IInv
<1> QED BY <1>1, Invariance, PTL

-----------------------------------------------------------------------------
(* WorkerPool *)

(* ReservedExclusively follows the chain by its length; the steps, by its elements. *)
WorkerPoolInv ==
  /\ WorkerPoolTypeOK
  /\ Distinct(free_chain)
  /\ ReservedExclusively

Users == {c \in Reservers : object[c] # NoObject}

LEMMA WorkerSetsFinite ==
  /\ IsFiniteSet(Users) /\ Cardinality(Users) \in Nat
  /\ \A S \in SUBSET ItemIds : IsFiniteSet(S) /\ Cardinality(S) \in Nat
BY FS_Subset, FS_CardinalityType, WorkerPoolAssumption DEF Users

(* What the invariant says of the chain and the list, in one place. *)
LEMMA WorkerPoolFacts ==
  ASSUME WorkerPoolInv
  PROVE  /\ free_chain \in Seq(ItemIds) /\ Distinct(free_chain) /\ ToSet(free_chain) = InChain
         /\ InChain \subseteq items /\ items \subseteq ItemIds
         /\ Cardinality(InChain) = Len(free_chain)
         /\ num_reserved = Cardinality(Users) /\ num_reserved \in Nat
         /\ object \in [Reservers -> ItemIds \cup {NoObject}]
         /\ \A c, d \in Reservers : object[c] = object[d] /\ c # d => object[c] = NoObject
         /\ \A c \in Reservers : object[c] # NoObject => object[c] \in items \ InChain
BY DEF WorkerPoolInv, WorkerPoolTypeOK, ReservedExclusively, ToSet, InChain, Users

-----------------------------------------------------------------------------
(* A thread takes the head of a chain of items that nobody uses. *)
LEMMA Taken ==
  ASSUME WorkerPoolInv, WorkerPoolTypeOK', NEW c \in Reservers, object[c] = NoObject,
         NEW chain \in Seq(ItemIds), chain # <<>>, Distinct(chain),
         Cardinality(ToSet(chain)) = Len(chain),
         ToSet(chain) \subseteq items', items \subseteq items',
         \A d \in Reservers : object[d] \notin ToSet(chain),
         Takes(c, chain)
  PROVE  WorkerPoolInv'
<1>1. /\ Tail(chain) \in Seq(ItemIds) /\ Distinct(Tail(chain))
      /\ Head(chain) \in ItemIds /\ Head(chain) \in ToSet(chain)
      /\ Len(Tail(chain)) = Len(chain) - 1
      /\ ToSet(Tail(chain)) = ToSet(chain) \ {Head(chain)}
  BY FirstTaken
<1>2. free_chain' = Tail(chain) /\ num_reserved' = num_reserved + 1
      /\ object' = [object EXCEPT ![c] = Head(chain)]
  BY DEF Takes, NextFree
<1>3. Head(chain) # NoObject
  BY <1>1, WorkerPoolAssumption
<1>4. object'[c] = Head(chain) /\ \A d \in Reservers \ {c} : object'[d] = object[d]
  BY <1>2, WorkerPoolFacts
<1>5. InChain' = ToSet(chain) \ {Head(chain)}
  BY <1>1, <1>2 DEF InChain, ToSet
<1>6. Distinct(free_chain)'
  BY <1>1, <1>2 DEF Distinct
<1>7. \A d, e \in Reservers : object'[d] = object'[e] /\ d # e => object'[d] = NoObject
  BY <1>1, <1>4, WorkerPoolFacts
<1>8. \A d \in Reservers : object'[d] # NoObject => object'[d] \in items' \ InChain'
  BY <1>1, <1>4, <1>5, WorkerPoolFacts
<1>9. Cardinality(InChain') = Len(free_chain')
  <2>1. IsFiniteSet(ToSet(chain))
    <3>1. ToSet(chain) \subseteq ItemIds
      BY DEF ToSet
    <3> QED BY <3>1, WorkerSetsFinite
  <2>2. Cardinality(ToSet(chain) \ {Head(chain)}) = Cardinality(ToSet(chain)) - 1
    BY <1>1, <2>1, FS_RemoveElement
  <2> QED BY <1>1, <1>2, <1>5, <2>2
<1>10. InChain' \subseteq items'
  BY <1>5
<1>11. num_reserved' = Cardinality(Users')
  <2>1. Users' = Users \cup {c} /\ c \notin Users
    BY <1>3, <1>4 DEF Users
  <2>2. Cardinality(Users \cup {c}) = Cardinality(Users) + 1
    BY <2>1, WorkerSetsFinite, FS_AddElement
  <2> QED BY <1>2, <2>1, <2>2, WorkerPoolFacts
<1> QED BY <1>6, <1>7, <1>8, <1>9, <1>10, <1>11 DEF WorkerPoolInv, ReservedExclusively, Users

(* WorkerPoolTypeOK: num_reserved is lowered by a thread that is counted in it, and
   curr_pool_size only while it is above the initial size.                        *)
LEMMA WorkerTypeKept ==
  ASSUME WorkerPoolInv, WorkerPoolNext
  PROVE  WorkerPoolTypeOK'
<1> USE DEF ReserverPcs
<1>0. WorkerPoolTypeOK
  BY DEF WorkerPoolInv
<1>1. ASSUME NEW c \in Reservers,
             \/ Sleeps(c) \/ RefusedByShutdown(c) \/ StartsToMake(c) \/ MakeFails(c)
             \/ SpuriouslyWoken(c)
      PROVE  WorkerPoolTypeOK'
  BY <1>0, <1>1 DEF Sleeps, RefusedByShutdown, StartsToMake, MakeFails, SpuriouslyWoken, InReserve,
                    WorkerPoolTypeOK, counts
<1>2. ASSUME NEW c \in Reservers, TakesFree(c) PROVE WorkerPoolTypeOK'
  <2>1. Tail(free_chain) \in Seq(ItemIds) /\ Head(free_chain) \in ItemIds
    BY <1>2, WorkerPoolFacts, FirstTaken DEF TakesFree
  <2> QED BY <1>0, <1>2, <2>1, WorkerPoolAssumption
          DEF TakesFree, Takes, NextFree, InReserve, WorkerPoolTypeOK
<1>3. ASSUME NEW c \in Reservers, Made(c) PROVE WorkerPoolTypeOK'
  <2>1. PICK new \in ItemIds \ items : items' = items \cup {new} /\ Takes(c, <<new>>)
    BY <1>3 DEF Made
  <2>2. Head(<<new>>) = new /\ Tail(<<new>>) = <<>> /\ new # NoObject
    BY <2>1, WorkerPoolAssumption
  <2>3. /\ free_chain' = <<>> /\ object' = [object EXCEPT ![c] = new]
        /\ reserverPc' = [reserverPc EXCEPT ![c] = "using"] /\ num_reserved' = num_reserved + 1
    BY <2>1, <2>2 DEF Takes, NextFree
  <2>4. free_chain' \in Seq(ItemIds)
    BY <2>3
  <2> QED BY <1>0, <1>3, <2>1, <2>2, <2>3, <2>4 DEF Made, WorkerPoolTypeOK
<1>4. ASSUME NEW c \in Reservers, reserverPc[c] = "using"
      PROVE  num_reserved - 1 \in Nat /\ object[c] \in ItemIds
  <2>1. c \in Users
    BY <1>0, <1>4 DEF Users, WorkerPoolTypeOK
  <2>2. Cardinality(Users) # 0
    BY <2>1, WorkerSetsFinite, FS_EmptySet
  <2> QED BY <2>1, <2>2, WorkerPoolFacts DEF Users
<1>5. ASSUME NEW c \in Reservers, ReleaseShrinks(c) PROVE WorkerPoolTypeOK'
  <2>1. num_reserved' \in Nat
    BY <1>4, <1>5 DEF ReleaseShrinks
  <2>2. curr_pool_size' \in Nat
    BY <1>0, <1>5, WorkerPoolAssumption DEF ReleaseShrinks, Shrinks, WorkerPoolTypeOK
  <2> QED BY <1>0, <1>5, <2>1, <2>2 DEF ReleaseShrinks, WorkerPoolTypeOK
<1>6. ASSUME NEW c \in Reservers, ReleaseKeeps(c) PROVE WorkerPoolTypeOK'
  <2>1. num_reserved' \in Nat /\ object[c] \in ItemIds
    BY <1>4, <1>6 DEF ReleaseKeeps
  <2>2. <<object[c]>> \o free_chain \in Seq(ItemIds)
    BY <2>1, WorkerPoolFacts, Prefixed
  <2>3. /\ reserverPc' \in [Reservers -> ReserverPcs]
        /\ reserverPc'[c] = "outside"
        /\ \A d \in Reservers \ {c} : reserverPc'[d] = "using" <=> reserverPc[d] = "using"
    BY <1>0, <1>6 DEF ReleaseKeeps, OneWoken, Asleep, WorkerPoolTypeOK
  <2>4. object' \in [Reservers -> ItemIds \cup {NoObject}] /\ object'[c] = NoObject
        /\ \A d \in Reservers \ {c} : object'[d] = object[d]
    BY <1>0, <1>6 DEF ReleaseKeeps, WorkerPoolTypeOK
  <2>5. \A d \in Reservers : object'[d] # NoObject <=> reserverPc'[d] = "using"
    BY <1>0, <2>3, <2>4 DEF WorkerPoolTypeOK
  <2> QED BY <1>0, <1>6, <2>1, <2>2, <2>3, <2>4, <2>5 DEF ReleaseKeeps, WorkerPoolTypeOK
<1>7. ASSUME ShutDown \/ DestructorCalled PROVE WorkerPoolTypeOK'
  BY <1>0, <1>7 DEF ShutDown, DestructorCalled, IsShutDown, Asleep, WorkerPoolTypeOK, counts
<1>8. ASSUME DestructorEnds PROVE WorkerPoolTypeOK'
  BY <1>0, <1>8 DEF DestructorEnds, WorkerPoolTypeOK, counts
<1> QED BY <1>1, <1>2, <1>3, <1>5, <1>6, <1>7, <1>8
        DEF WorkerPoolNext, ReserveCalled, ReserveGoesOn, ReleaseCalled

(* Every step keeps the chain, the list and the users apart.  Made overwrites the chain,
   and what was in it stays in the list; the new object is all that is reached.       *)
LEMMA WorkerPoolNextInv == WorkerPoolInv /\ [WorkerPoolNext]_workerVars => WorkerPoolInv'
<1>1. ASSUME WorkerPoolInv, WorkerPoolTypeOK', UNCHANGED <<items, free_chain, num_reserved, object>>
      PROVE  WorkerPoolInv'
  BY <1>1 DEF WorkerPoolInv, ReservedExclusively, Distinct, InChain
<1>2. ASSUME WorkerPoolInv, UNCHANGED workerVars PROVE WorkerPoolInv'
  <2>1. WorkerPoolTypeOK'
    BY <1>2 DEF workerVars, counts, WorkerPoolInv, WorkerPoolTypeOK
  <2> QED BY <1>1, <1>2, <2>1 DEF workerVars, counts
<1> SUFFICES ASSUME WorkerPoolInv, WorkerPoolNext PROVE WorkerPoolInv'
  BY <1>2
<1>3. WorkerPoolTypeOK'
  BY WorkerTypeKept
<1>4. ASSUME NEW c \in Reservers,
             \/ Sleeps(c) \/ RefusedByShutdown(c) \/ StartsToMake(c) \/ MakeFails(c)
             \/ SpuriouslyWoken(c)
      PROVE  WorkerPoolInv'
  BY <1>1, <1>3, <1>4 DEF Sleeps, RefusedByShutdown, StartsToMake, MakeFails, SpuriouslyWoken, counts
<1>5. ASSUME ShutDown \/ DestructorCalled \/ DestructorEnds PROVE WorkerPoolInv'
  BY <1>1, <1>3, <1>5 DEF ShutDown, DestructorCalled, DestructorEnds, IsShutDown, counts
<1>6. ASSUME NEW c \in Reservers, reserverPc[c] # "using" PROVE object[c] = NoObject
  BY <1>6 DEF WorkerPoolInv, WorkerPoolTypeOK
<1>7. ASSUME NEW c \in Reservers, TakesFree(c) PROVE WorkerPoolInv'
  <2>1. /\ object[c] = NoObject /\ free_chain # <<>> /\ Takes(c, free_chain) /\ items' = items
    BY <1>6, <1>7 DEF TakesFree, InReserve
  <2>2. \A d \in Reservers : object[d] \notin ToSet(free_chain)
    BY WorkerPoolFacts, WorkerPoolAssumption
  <2>3. /\ free_chain \in Seq(ItemIds) /\ Distinct(free_chain)
        /\ Cardinality(ToSet(free_chain)) = Len(free_chain)
        /\ ToSet(free_chain) \subseteq items'
    BY <2>1, WorkerPoolFacts
  <2> QED BY <1>3, <2>1, <2>2, <2>3, Taken
<1>8. ASSUME NEW c \in Reservers, Made(c) PROVE WorkerPoolInv'
  <2>1. PICK new \in ItemIds \ items : items' = items \cup {new} /\ Takes(c, <<new>>)
    BY <1>8 DEF Made
  <2>2. object[c] = NoObject
    BY <1>6, <1>8 DEF Made
  <2>3. <<new>> \in Seq(ItemIds) /\ <<new>> # <<>> /\ Len(<<new>>) = 1
    BY <2>1
  <2>4. ToSet(<<new>>) = {new} /\ Distinct(<<new>>)
    BY DEF ToSet, Distinct
  <2>5. Cardinality(ToSet(<<new>>)) = Len(<<new>>)
    BY <2>3, <2>4, FS_Singleton
  <2>6. \A d \in Reservers : object[d] \notin ToSet(<<new>>)
    BY <2>1, <2>4, WorkerPoolFacts, WorkerPoolAssumption
  <2> QED BY <1>3, <2>1, <2>2, <2>3, <2>4, <2>5, <2>6, Taken
<1>9. ASSUME NEW c \in Reservers, ReleaseShrinks(c) \/ ReleaseKeeps(c)
      PROVE  /\ num_reserved' = Cardinality(Users')
             /\ object[c] \in ItemIds /\ object[c] \in items \ InChain
             /\ object'[c] = NoObject /\ \A d \in Reservers \ {c} : object'[d] = object[d]
             /\ \A d \in Reservers \ {c} : object[d] # object[c]
  <2>1. object[c] # NoObject /\ object' = [object EXCEPT ![c] = NoObject]
        /\ num_reserved' = num_reserved - 1
    BY <1>9 DEF ReleaseShrinks, ReleaseKeeps, WorkerPoolInv, WorkerPoolTypeOK
  <2>2. object'[c] = NoObject /\ \A d \in Reservers \ {c} : object'[d] = object[d]
    BY <2>1, WorkerPoolFacts
  <2>3. Users' = Users \ {c} /\ c \in Users
    BY <2>1, <2>2 DEF Users
  <2>4. Cardinality(Users \ {c}) = Cardinality(Users) - 1
    BY <2>3, WorkerSetsFinite, FS_RemoveElement
  <2> QED BY <2>1, <2>2, <2>3, <2>4, WorkerPoolFacts
<1>10. ASSUME NEW c \in Reservers, ReleaseShrinks(c) PROVE WorkerPoolInv'
  <2>1. items' = items \ {object[c]} /\ free_chain' = free_chain
    BY <1>10 DEF ReleaseShrinks
  <2>2. InChain' = InChain /\ Distinct(free_chain)' /\ Cardinality(InChain') = Len(free_chain')
    BY <2>1, WorkerPoolFacts DEF InChain, Distinct
  <2>3. InChain' \subseteq items'
    BY <1>9, <1>10, <2>1, <2>2, WorkerPoolFacts
  <2>4. \A d \in Reservers : object'[d] # NoObject => object'[d] \in items' \ InChain'
    BY <1>9, <1>10, <2>1, <2>2, WorkerPoolFacts
  <2>5. \A d, e \in Reservers : object'[d] = object'[e] /\ d # e => object'[d] = NoObject
    BY <1>9, <1>10, WorkerPoolFacts
  <2> QED BY <1>3, <1>9, <1>10, <2>2, <2>3, <2>4, <2>5 DEF WorkerPoolInv, ReservedExclusively, Users
<1>11. ASSUME NEW c \in Reservers, ReleaseKeeps(c) PROVE WorkerPoolInv'
  <2>1. items' = items /\ free_chain' = <<object[c]>> \o free_chain
    BY <1>11 DEF ReleaseKeeps
  <2>2. object[c] \in ItemIds /\ object[c] \in items \ InChain
    BY <1>9, <1>11
  <2>3. /\ ToSet(<<object[c]>> \o free_chain) = InChain \cup {object[c]}
        /\ Distinct(<<object[c]>> \o free_chain)
        /\ Len(<<object[c]>> \o free_chain) = Len(free_chain) + 1
    BY <2>2, WorkerPoolFacts, Prefixed
  <2>4. InChain' = InChain \cup {object[c]} /\ Distinct(free_chain)' /\ Len(free_chain') = Len(free_chain) + 1
    BY <2>1, <2>3 DEF InChain, ToSet, Distinct
  <2>5. Cardinality(InChain \cup {object[c]}) = Cardinality(InChain) + 1
    <3>1. IsFiniteSet(InChain)
      BY WorkerPoolFacts, WorkerSetsFinite
    <3> QED BY <2>2, <3>1, FS_AddElement
  <2>6. Cardinality(InChain') = Len(free_chain')
    BY <2>4, <2>5, WorkerPoolFacts
  <2>7. InChain' \subseteq items'
    BY <2>1, <2>2, <2>4, WorkerPoolFacts
  <2>8. \A d \in Reservers : object'[d] # NoObject => object'[d] \in items' \ InChain'
    BY <1>9, <1>11, <2>1, <2>4, WorkerPoolFacts
  <2>9. \A d, e \in Reservers : object'[d] = object'[e] /\ d # e => object'[d] = NoObject
    BY <1>9, <1>11, WorkerPoolFacts
  <2> QED BY <1>3, <1>9, <1>11, <2>4, <2>6, <2>7, <2>8, <2>9 DEF WorkerPoolInv, ReservedExclusively, Users
<1> QED BY <1>4, <1>5, <1>7, <1>8, <1>10, <1>11
        DEF WorkerPoolNext, ReserveCalled, ReserveGoesOn, ReleaseCalled

LEMMA WorkerPoolInitInv == WorkerPoolInit => WorkerPoolInv
<1> SUFFICES ASSUME WorkerPoolInit PROVE WorkerPoolInv
  OBVIOUS
<1>1. free_chain \in Seq(ItemIds) /\ DOMAIN free_chain = {} /\ Len(free_chain) = 0
  BY DEF WorkerPoolInit
<1>2. WorkerPoolTypeOK
  BY <1>1 DEF WorkerPoolInit, WorkerPoolTypeOK, ReserverPcs
<1>3. InChain = {} /\ {c \in Reservers : object[c] # NoObject} = {}
  BY <1>1 DEF WorkerPoolInit, InChain
<1>4. ReservedExclusively
  BY <1>1, <1>3, FS_EmptySet DEF WorkerPoolInit, ReservedExclusively
<1> QED BY <1>1, <1>2, <1>4 DEF WorkerPoolInv, Distinct

LEMMA WorkerPoolInvariance == WorkerPoolSpec => []WorkerPoolInv
BY WorkerPoolInitInv, WorkerPoolNextInv, PTL DEF WorkerPoolSpec

(* An object of a WorkerPool has one user, who is counted, and is in the list that owns
   it and outside the chain meanwhile, although reserve() unlocks pm_cond between its
   look at the chain and the overwriting of it (WorkerPool.h:114-140, 172-185).        *)
THEOREM ObjectsApart == WorkerPoolSpec => []ReservedExclusively
<1>1. WorkerPoolInv => ReservedExclusively
  BY DEF WorkerPoolInv
<1> QED BY <1>1, WorkerPoolInvariance, PTL

-----------------------------------------------------------------------------
(* The two pools as they are used (MCConcurrency) *)

(* Each step of the instance is one of Pool or of WorkerPool, or both are at rest. *)
LEMMA OnePoolMoves ==
  /\ MCInit => Init /\ WorkerPoolInit
  /\ [MCNext]_allVars => [Next]_vars /\ [WorkerPoolNext]_workerVars /\ usage' = usage
  /\ [MCNext]_allVars => UNCHANGED vars \/ (Next /\ usage \in PoolUsages
                                              /\ (phase' = "dying" /\ phase = "open" => MayBeDestroyed))
BY DEF MCInit, MCNext, allVars, PoolMoves, WorkerPoolMoves, QueueMoves, GroupMoves

(* Both pools keep their types: a client has a record, or an object, in the states in
   which its code has one.                                                            *)
THEOREM PoolTypes == MCSpec => []PoolsTypeOK
<1>1. MCInit => IInv /\ WorkerPoolInv
  BY InitInv, WorkerPoolInitInv, OnePoolMoves
<1>2. IInv /\ WorkerPoolInv /\ [MCNext]_allVars => IInv' /\ WorkerPoolInv'
  BY NextInv, WorkerPoolNextInv, OnePoolMoves
<1>3. IInv /\ WorkerPoolInv => PoolsTypeOK
  BY DEF IInv, WorkerPoolInv, PoolsTypeOK
<1> QED BY <1>1, <1>2, <1>3, PTL DEF MCSpec

(* A pool that is not alive any more, and that nobody was inside of when its destruction
   began: its clients are still outside, and the items that the Ptrs own are those that
   clients have; the others were deleted with the pool, if it is gone.                  *)
AtRest ==
  usage = "quiet" =>
    /\ ~invalid
    /\ ~Alive =>
         /\ \A c \in Clients : cpc[c] \in {"idle", "holding"}
         /\ \A r \in Recs : data[r] = "ptr" <=> r \in Held
         /\ phase = "gone" => \A r \in Recs : data[r] # "pool"

QuietInv == IInv /\ AtRest

LEMMA QuietInit == MCInit => QuietInv
BY InitInv, OnePoolMoves DEF QuietInv, AtRest, Init, Alive

(* While the pool is alive the steps only keep invalid as it is. *)
LEMMA AliveKeepsRest ==
  ASSUME QuietInv, Next, usage' = usage, Alive, Alive'
  PROVE  AtRest'
<1>1. invalid' = invalid
  BY DEF Next, Grow, ConstructorThrows, Constructed, Destroy, MembersDestroyed, GetCalled, ClientStep,
         GetsFree, StartsToCreate, Waits, CreateFails, CreateSucceeds, WokenGets, WokenWaitsAgain,
         TimesOut, MakesPtr, StartsToRelease, DeletesItem, Releases, ReleasesTooLate, UsesGonePool,
         SpuriousWakeup, Alive
<1> QED BY <1>1 DEF QuietInv, AtRest

(* The end of the pool: the items in use become their Ptrs'. *)
LEMMA DyingKeepsRest ==
  ASSUME QuietInv, usage' = usage, Destroy, usage = "quiet" => MayBeDestroyed
  PROVE  AtRest'
<1> SUFFICES ASSUME usage = "quiet" PROVE AtRest'
  BY DEF AtRest
<1>1. /\ phase = "open" /\ phase' = "dying" /\ UNCHANGED <<inUse, cpc, rec, invalid>>
      /\ data' = [r \in Recs |-> IF data[r] = "pool" /\ r \notin KeptByPool THEN "ptr" ELSE data[r]]
  BY DEF Destroy
<1>2. TypeOK /\ ItemsStay /\ NothingLost /\ Alive /\ RecordsApart
  BY <1>1 DEF QuietInv, IInv, Alive
<1>3. inUse = Held /\ Held' = Held /\ \A r \in Recs : data[r] \in {"none", "pool"}
  BY <1>1, <1>2 DEF NothingLost, ItemsStay, Held
<1>4. \A r \in Held : r \in Recs /\ data[r] = "pool"
  BY <1>2, <1>3 DEF RecordsApart, PoolData
<1>5. ASSUME NEW r \in Recs PROVE data'[r] = "ptr" <=> r \in Held'
  BY <1>1, <1>3, <1>4 DEF KeptByPool
<1>6. \A c \in Clients : cpc[c] \in {"idle", "holding"}
  BY DEF MayBeDestroyed
<1>7. ~invalid
  BY DEF QuietInv, AtRest
<1> QED BY <1>1, <1>5, <1>6, <1>7 DEF AtRest

LEMMA ConstructorThrowsKeepsRest ==
  ASSUME QuietInv, usage' = usage, ConstructorThrows
  PROVE  AtRest'
<1>1. /\ phase = "init" /\ phase' = "gone" /\ UNCHANGED <<cpc, rec, invalid>>
      /\ data' = [r \in Recs |-> IF data[r] = "pool" THEN "deleted" ELSE data[r]]
  BY DEF ConstructorThrows
<1>2. TypeOK /\ ConstructionAlone /\ ItemsStay /\ Alive
  BY <1>1 DEF QuietInv, IInv, Alive
<1>3. \A c \in Clients : cpc[c] = "idle" /\ rec[c] = NoRec
  BY <1>1, <1>2 DEF ConstructionAlone, TypeOK
<1>4. Held' = {}
  BY <1>1, <1>3 DEF Held
<1>5. \A r \in Recs : data'[r] # "ptr" /\ data'[r] # "pool"
  BY <1>1, <1>2 DEF ItemsStay
<1> QED BY <1>1, <1>3, <1>4, <1>5 DEF QuietInv, AtRest

(* After the end of the pool: its members go, and Ptrs delete their items. *)
LEMMA EndedKeepsRest ==
  ASSUME QuietInv, Next, usage' = usage, ~Alive
  PROVE  AtRest'
<1> SUFFICES ASSUME usage = "quiet" PROVE AtRest'
  BY DEF AtRest
<1>1. /\ ~invalid /\ TypeOK /\ RecordsApart
      /\ \A c \in Clients : cpc[c] \in {"idle", "holding"}
      /\ \A r \in Recs : data[r] = "ptr" <=> r \in Held
      /\ phase = "gone" => \A r \in Recs : data[r] # "pool"
  BY DEF QuietInv, IInv, AtRest
<1>2. CASE MembersDestroyed
  <2>1. /\ phase' = "gone" /\ UNCHANGED <<cpc, rec, invalid>>
        /\ data' = [r \in Recs |-> IF data[r] = "pool" THEN "deleted" ELSE data[r]]
    BY <1>2 DEF MembersDestroyed
  <2>2. Held' = Held
    BY <2>1 DEF Held
  <2>3. \A r \in Recs : data'[r] # "pool" /\ (data'[r] = "ptr" <=> data[r] = "ptr")
    BY <2>1
  <2> QED BY <1>1, <2>1, <2>2, <2>3 DEF AtRest
<1>3. ASSUME NEW c \in Clients, DeletesItem(c) PROVE AtRest'
  <2>1. /\ invalid' = (invalid \/ data[rec[c]] = "deleted") /\ phase' = phase
        /\ data' = [data EXCEPT ![rec[c]] = "deleted"]
        /\ cpc' = [cpc EXCEPT ![c] = "idle"] /\ rec' = [rec EXCEPT ![c] = NoRec]
        /\ cpc[c] = "holding"
    BY <1>3 DEF DeletesItem
  <2>2. rec[c] \in Recs /\ rec[c] \in Held /\ rec[c] # NoRec
    BY <1>1, <2>1 DEF TypeOK, Held
  <2>3. Held' = Held \ {rec[c]}
    BY <1>1, <2>1, <2>2, GivenBack DEF RecordsApart
  <2>4. ~invalid'
    BY <1>1, <2>1, <2>2
  <2>5. /\ data'[rec[c]] = "deleted" /\ \A r \in Recs \ {rec[c]} : data'[r] = data[r]
    BY <1>1, <2>1, <2>2 DEF TypeOK
  <2>6. \A r \in Recs : data'[r] = "ptr" <=> r \in Held'
    BY <1>1, <2>3, <2>5
  <2>7. \A d \in Clients : cpc'[d] \in {"idle", "holding"}
    BY <1>1, <2>1 DEF TypeOK
  <2> QED BY <1>1, <2>1, <2>4, <2>5, <2>6, <2>7 DEF AtRest
<1>4. MembersDestroyed \/ \E c \in Clients : DeletesItem(c)
  BY <1>1 DEF Alive, Next, Grow, ConstructorThrows, Constructed, Destroy, GetCalled, ClientStep,
         GetsFree, StartsToCreate, Waits, CreateFails, CreateSucceeds, WokenGets, WokenWaitsAgain,
         TimesOut, MakesPtr, StartsToRelease, Releases, ReleasesTooLate, UsesGonePool, SpuriousWakeup
<1> QED BY <1>2, <1>3, <1>4

LEMMA QuietNext == QuietInv /\ [MCNext]_allVars => QuietInv'
<1> SUFFICES ASSUME QuietInv, [MCNext]_allVars PROVE QuietInv'
  OBVIOUS
<1>1. IInv' /\ usage' = usage
  BY NextInv, OnePoolMoves DEF QuietInv
<1>2. CASE UNCHANGED vars
  BY <1>1, <1>2 DEF QuietInv, AtRest, vars, Alive, Held
<1>3. CASE Next /\ (phase' = "dying" /\ phase = "open" => MayBeDestroyed)
  <2>1. CASE ~Alive
    BY <1>1, <1>3, <2>1, EndedKeepsRest DEF QuietInv
  <2>2. CASE Alive /\ Alive'
    BY <1>1, <1>3, <2>2, AliveKeepsRest DEF QuietInv
  <2>3. CASE Alive /\ ~Alive'
    <3>1. Destroy \/ ConstructorThrows
      BY <1>3, <2>3 DEF Alive, Next, Grow, Constructed, MembersDestroyed, GetCalled, ClientStep,
         GetsFree, StartsToCreate, Waits, CreateFails, CreateSucceeds, WokenGets, WokenWaitsAgain,
         TimesOut, MakesPtr, StartsToRelease, DeletesItem, Releases, ReleasesTooLate, UsesGonePool,
         SpuriousWakeup
    <3>2. CASE Destroy
      BY <1>1, <1>3, <3>2, DyingKeepsRest DEF QuietInv, Destroy
    <3>3. CASE ConstructorThrows
      BY <1>1, <3>3, ConstructorThrowsKeepsRest DEF QuietInv
    <3> QED BY <3>1, <3>2, <3>3
  <2> QED BY <2>1, <2>2, <2>3
<1> QED BY <1>2, <1>3, OnePoolMoves

(* In a pool that is destroyed while Ptrs are alive, and at rest, no member of it is
   used after its destruction, no item is deleted twice, and none is left behind
   (Pool.h:92, 219-244).                                                             *)
THEOREM DestroyedAtRest == MCSpec => []QuietDestruction
<1>1. QuietInv => QuietDestruction
  <2> SUFFICES ASSUME QuietInv, usage = "quiet" PROVE NoInvalidUse /\ EveryItemDeleted
    BY DEF QuietDestruction
  <2>1. ~invalid /\ data \in [Recs -> DataStates]
    BY DEF QuietInv, IInv, AtRest, TypeOK
  <2>2. ASSUME phase = "gone", NEW r \in PoolData PROVE data[r] = "deleted" \/ r \in Held
    <3>1. r \in Recs /\ data[r] # "none" /\ data[r] # "pool" /\ (data[r] = "ptr" <=> r \in Held)
      BY <2>2 DEF QuietInv, AtRest, Alive, PoolData
    <3> QED BY <2>1, <3>1 DEF DataStates
  <2> QED BY <2>1, <2>2 DEF NoInvalidUse, EveryItemDeleted
<1> QED BY <1>1, QuietInit, QuietNext, PTL DEF MCSpec
================================================================================

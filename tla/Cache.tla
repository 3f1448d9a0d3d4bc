------------------------------- MODULE Cache -------------------------------
(* The LRU cache of Cache.h (Fmi::Cache::Cache, and LRUCache.h, which wraps it).
   The keys are striped over shards, each with its own shared_mutex, its list
   in order of use, its map and its size; itsMaxSizePerShard is shared by all
   shards and guarded by none of their mutexes.

   A step is what happens between two acquisitions of a shard's mutex, but for the
   loop of evictLRU(), which reads itsMaxSizePerShard in every turn while resize()
   may write it: each turn is a step.  The write races that read (a plain
   size_t), so that the read may return what the thread read before, or the
   present value.  Hits, misses and the other statistics are left out.            *)
EXTENDS Naturals, Sequences, FiniteSets, SequencesExt, Functions

CONSTANTS
  Threads,     \* the threads that use the cache
  CacheKeys,   \* the keys
  NumShards,   \* the template parameter of that name
  ShardOf,     \* getShardIndex(): a shard for each key
  ValueSizes,  \* what SizeFunc::getSize() may return
  MaxSizes     \* what resize() and the constructor may be given

Shards == 1 .. NumShards

ASSUME CacheAssumption ==
  /\ IsFiniteSet(Threads)
  /\ NumShards \in Nat \ {0}
  /\ ShardOf \in [CacheKeys -> Shards]
  /\ ValueSizes \subseteq Nat
  /\ MaxSizes \subseteq Nat

VARIABLES
  itsMaxSizePerShard,
  list,        \* list[s]: the keys of the shard's list; front = LRU, back = MRU
  map,         \* map[s]: the keys of the shard's map
  size,        \* size[s]
  entrySize,   \* entrySize[k]: Entry::size, while k is in a list
  cachePc,     \* where each thread is
  work,        \* work[t]: the shard it has locked or will lock, the entry it inserts,
               \* and the maximum it has read last
  usedSince    \* history: usedSince[k], the keys used after k was

shardVars == <<list, map, size, entrySize>>
cacheVars == <<itsMaxSizePerShard, shardVars, cachePc, work, usedSince>>

NoWork == [shard |-> 0, key |-> "none", bytes |-> 0, seen |-> 0]

\* evictLRU() of an insertion and of resize() run under the shard's mutex.
CachePcs == {"idle", "evicting", "resizing", "trimming", "clearing"}

PerShard(maxSize) == (maxSize + NumShards - 1) \div NumShards

ShardFree(s) ==
  \A t \in Threads : cachePc[t] \in {"evicting", "trimming"} => work[t].shard # s

CacheInit ==
  /\ itsMaxSizePerShard \in {PerShard(m) : m \in MaxSizes}
  /\ list = [s \in Shards |-> <<>>]
  /\ map = [s \in Shards |-> {}]
  /\ size = [s \in Shards |-> 0]
  /\ entrySize = [k \in CacheKeys |-> 0]
  /\ cachePc = [t \in Threads |-> "idle"]
  /\ work = [t \in Threads |-> NoWork]
  /\ usedSince = [k \in CacheKeys |-> {}]

Used(k) == [j \in CacheKeys |-> IF j = k THEN {} ELSE usedSince[j] \cup {k}]
-----------------------------------------------------------------------------
(* find() *)

\* mutant: the entry stays where it is
SplicedNowhere(l, k) == l

Spliced(l, k) == Append(RemoveFirst(l, k), k)

\* A hit; of the entry at the back nothing moves, and no exclusive lock is needed.
Find(t, k) ==
  LET s == ShardOf[k] IN
  /\ cachePc[t] = "idle"
  /\ ShardFree(s)
  /\ k \in map[s]
  /\ list' = [list EXCEPT ![s] = Spliced(@, k)]
  /\ usedSince' = Used(k)
  /\ UNCHANGED <<itsMaxSizePerShard, map, size, entrySize, cachePc, work>>
-----------------------------------------------------------------------------
(* insert(), upsert() *)

\* What an insertion does once it is known to fit: the size first, then the eviction.
BeginsToPut(t, k, bytes, sizeBefore) ==
  LET s == ShardOf[k] IN
  /\ bytes <= itsMaxSizePerShard
  /\ size' = [size EXCEPT ![s] = sizeBefore + bytes]
  /\ cachePc' = [cachePc EXCEPT ![t] = "evicting"]
  /\ work' = [work EXCEPT ![t] =
       [shard |-> s, key |-> k, bytes |-> bytes, seen |-> itsMaxSizePerShard]]

InsertCalled(t, k, bytes) ==
  LET s == ShardOf[k] IN
  /\ cachePc[t] = "idle"
  /\ ShardFree(s)
  /\ k \notin map[s]
  /\ BeginsToPut(t, k, bytes, size[s])
  /\ UNCHANGED <<itsMaxSizePerShard, list, map, entrySize, usedSince>>

\* mutant: the size of the replaced entry is forgotten
SizeLeftBehind(s, k) == size[s]

SizeWithout(s, k) == IF k \in map[s] THEN size[s] - entrySize[k] ELSE size[s]

\* upsert() erases the old entry before it knows whether the new one fits.
UpsertCalled(t, k, bytes) ==
  LET s == ShardOf[k] IN
  /\ cachePc[t] = "idle"
  /\ ShardFree(s)
  /\ list' = [list EXCEPT ![s] = RemoveFirst(@, k)]
  /\ map' = [map EXCEPT ![s] = @ \ {k}]
  /\ \/ BeginsToPut(t, k, bytes, SizeWithout(s, k))
     \/ /\ bytes > itsMaxSizePerShard
        /\ size' = [size EXCEPT ![s] = SizeWithout(s, k)]
        /\ UNCHANGED <<cachePc, work>>
  /\ UNCHANGED <<itsMaxSizePerShard, entrySize, usedSince>>

\* What a read of itsMaxSizePerShard in the loop of evictLRU() may return.
Limits(t) == {work[t].seen, itsMaxSizePerShard}

Excess(s, limit) == size[s] > limit /\ list[s] # <<>>

\* One turn of the loop of evictLRU(), for an insertion or for resize().
Evicts(t) ==
  LET s == work[t].shard
      k == Head(list[s])
  IN /\ cachePc[t] \in {"evicting", "trimming"}
     /\ \E limit \in Limits(t) :
          /\ Excess(s, limit)
          /\ work' = [work EXCEPT ![t].seen = limit]
     /\ size' = [size EXCEPT ![s] = @ - entrySize[k]]
     /\ map' = [map EXCEPT ![s] = @ \ {k}]
     /\ list' = [list EXCEPT ![s] = Tail(@)]
     /\ UNCHANGED <<itsMaxSizePerShard, entrySize, cachePc, usedSince>>

\* The loop ends, and the new entry is put at the back.
Places(t) ==
  LET s == work[t].shard
      k == work[t].key
  IN /\ cachePc[t] = "evicting"
     /\ \E limit \in Limits(t) : ~Excess(s, limit)
     /\ list' = [list EXCEPT ![s] = Append(@, k)]
     /\ map' = [map EXCEPT ![s] = @ \cup {k}]
     /\ entrySize' = [entrySize EXCEPT ![k] = work[t].bytes]
     /\ usedSince' = Used(k)
     /\ cachePc' = [cachePc EXCEPT ![t] = "idle"]
     /\ work' = [work EXCEPT ![t] = NoWork]
     /\ UNCHANGED <<itsMaxSizePerShard, size>>
-----------------------------------------------------------------------------
(* resize(), clear(): one shard after the other *)

FirstShard == 1

ResizeCalled(t, maxSize) ==
  /\ cachePc[t] = "idle"
  /\ itsMaxSizePerShard' = PerShard(maxSize)
  /\ cachePc' = [cachePc EXCEPT ![t] = "resizing"]
  /\ work' = [work EXCEPT ![t].shard = FirstShard]
  /\ UNCHANGED <<shardVars, usedSince>>

\* resize() has the mutex of the next shard.
ResizeLocks(t) ==
  /\ cachePc[t] = "resizing"
  /\ ShardFree(work[t].shard)
  /\ cachePc' = [cachePc EXCEPT ![t] = "trimming"]
  /\ work' = [work EXCEPT ![t].seen = itsMaxSizePerShard]
  /\ UNCHANGED <<itsMaxSizePerShard, shardVars, usedSince>>

\* On to the next shard in control state pc, or out of the operation.
NextShard(t, pc) ==
  IF work[t].shard = NumShards
  THEN /\ cachePc' = [cachePc EXCEPT ![t] = "idle"]
       /\ work' = [work EXCEPT ![t] = NoWork]
  ELSE /\ cachePc' = [cachePc EXCEPT ![t] = pc]
       /\ work' = [work EXCEPT ![t] = [NoWork EXCEPT !.shard = work[t].shard + 1]]

Trimmed(t) ==
  /\ cachePc[t] = "trimming"
  /\ \E limit \in Limits(t) : ~Excess(work[t].shard, limit)
  /\ NextShard(t, "resizing")
  /\ UNCHANGED <<itsMaxSizePerShard, shardVars, usedSince>>

ClearCalled(t) ==
  /\ cachePc[t] = "idle"
  /\ cachePc' = [cachePc EXCEPT ![t] = "clearing"]
  /\ work' = [work EXCEPT ![t].shard = 1]
  /\ UNCHANGED <<itsMaxSizePerShard, shardVars, usedSince>>

ClearsShard(t) ==
  LET s == work[t].shard IN
  /\ cachePc[t] = "clearing"
  /\ ShardFree(s)
  /\ list' = [list EXCEPT ![s] = <<>>]
  /\ map' = [map EXCEPT ![s] = {}]
  /\ size' = [size EXCEPT ![s] = 0]
  /\ NextShard(t, "clearing")
  /\ UNCHANGED <<itsMaxSizePerShard, entrySize, usedSince>>
-----------------------------------------------------------------------------
CacheNext ==
  \E t \in Threads :
    \/ \E k \in CacheKeys :
         \/ Find(t, k)
         \/ \E bytes \in ValueSizes : InsertCalled(t, k, bytes) \/ UpsertCalled(t, k, bytes)
    \/ Evicts(t)
    \/ Places(t)
    \/ \E maxSize \in MaxSizes : ResizeCalled(t, maxSize)
    \/ ResizeLocks(t)
    \/ Trimmed(t)
    \/ ClearCalled(t)
    \/ ClearsShard(t)

CacheSpec == CacheInit /\ [][CacheNext]_cacheVars
-----------------------------------------------------------------------------
CacheTypeOK ==
  /\ itsMaxSizePerShard \in Nat
  /\ list \in [Shards -> Seq(CacheKeys)]
  /\ map \in [Shards -> SUBSET CacheKeys]
  /\ size \in [Shards -> Nat]
  /\ entrySize \in [CacheKeys -> Nat]
  /\ cachePc \in [Threads -> CachePcs]
  /\ usedSince \in [CacheKeys -> SUBSET CacheKeys]

(* A shard's list and map hold the same entries, each once, and its size is theirs
   and that of the entry that is being put (Cache.h:143-151, 190-207, 389-397): the
   size and the map are kept by hand on every path.                                *)
ShardsAddUp ==
  \A s \in Shards :
    /\ Len(list[s]) = Cardinality(map[s])
    /\ ToSet(list[s]) = map[s]
    /\ size[s] = SumFunctionOnSet(entrySize, map[s])
               + SumFunctionOnSet([t \in Threads |-> work[t].bytes],
                                  {t \in Threads : work[t].shard = s})

(* A shard that nobody has locked is within the maximum, unless a resize() is still
   on its way to it.  An insertion that tested its value against the maximum before
   resize() lowered it (Cache.h:140, 283) leaves the shard too large, and the
   trimming that follows puts it right.                                            *)
ShardsBounded ==
  \A s \in Shards :
    \/ size[s] <= itsMaxSizePerShard
    \/ ~ShardFree(s)
    \/ \E t \in Threads : cachePc[t] = "resizing" /\ work[t].shard <= s
    \/ \E t \in Threads : cachePc[t] = "trimming" /\ work[t].shard < s

(* Both: the shards of the cache add up, and are bounded. *)
ShardsConsistent == ShardsAddUp /\ ShardsBounded

(* What evictLRU() drops has not been used after any entry that it leaves in the
   shard (Cache.h:392-396): find() keeps the list in order of use, also on the path
   on which it takes no exclusive lock (Cache.h:230).                              *)
EvictsLeastRecentlyUsed ==
  [][\A t \in Threads :
       cachePc[t] \in {"evicting", "trimming"} =>
         LET s == work[t].shard IN
         \A k \in map[s] \ map'[s] : map'[s] \subseteq usedSince[k]]_cacheVars
=============================================================================

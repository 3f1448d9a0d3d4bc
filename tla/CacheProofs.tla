----------------------------- MODULE CacheProofs -----------------------------
(* Proofs about the two caches.  Of the LRU cache of Cache.h: that its shards are consistent,
   and that what is evicted is what was used longest ago.  Of the cache of values in files
   of Cache.cpp: that its size is that of its entries and within the maximum, and that its
   entries and the directory agree.                                                       *)
EXTENDS Cache, FileCache, CollectionLemmas
-----------------------------------------------------------------------------
(* Cache: the invariant *)

Holds(t, s) == cachePc[t] \in {"evicting", "trimming"} /\ work[t].shard = s

\* A resize() is on its way to the shard.
Pending(s) ==
  \/ \E t \in Threads : cachePc[t] = "resizing" /\ work[t].shard <= s
  \/ \E t \in Threads : cachePc[t] = "trimming" /\ work[t].shard < s

WorkType ==
  [shard : 0 .. NumShards, key : CacheKeys \cup {"none"}, bytes : Nat, seen : Nat]

ThreadsInStep ==
  /\ work \in [Threads -> WorkType]
  /\ \A t \in Threads :
       /\ cachePc[t] = "idle" => work[t] = NoWork
       /\ cachePc[t] # "idle" => work[t].shard \in Shards
       /\ cachePc[t] # "evicting" => work[t].bytes = 0

\* The entry that is put is not in its shard.
PutsNew ==
  \A t \in Threads :
    cachePc[t] = "evicting" =>
      /\ work[t].key \in CacheKeys /\ work[t].shard = ShardOf[work[t].key]
      /\ work[t].key \notin map[work[t].shard]

OneHolder == \A t, u \in Threads : \A s \in Shards : Holds(t, s) /\ Holds(u, s) => t = u

ListsAreMaps ==
  \A s \in Shards :
    /\ Distinct(list[s])
    /\ ToSet(list[s]) = map[s]
    /\ \A k \in map[s] : ShardOf[k] = s

\* The entry that is put is counted before it is there.
Putting(t, s) == cachePc[t] = "evicting" /\ work[t].shard = s

SizesAddUp ==
  \A s \in Shards :
    /\ \A t \in Threads :
         Putting(t, s) => size[s] = SumFunctionOnSet(entrySize, map[s]) + work[t].bytes
    /\ (\A t \in Threads : ~Putting(t, s)) => size[s] = SumFunctionOnSet(entrySize, map[s])

\* What a thread that holds a shard knows of the maximum is old only when a resize() is
\* still to come to that shard.
LimitsKnown ==
  \A t \in Threads : \A s \in Shards :
    Holds(t, s) => \/ work[t].seen <= itsMaxSizePerShard /\ work[t].bytes <= itsMaxSizePerShard
                   \/ Pending(s)

InOrderOfUse ==
  \A s \in Shards : \A i, j \in 1 .. Len(list[s]) :
    i < j => list[s][j] \in usedSince[list[s][i]]

CacheInv ==
  /\ CacheTypeOK /\ ThreadsInStep /\ PutsNew /\ OneHolder /\ ListsAreMaps /\ SizesAddUp
  /\ LimitsKnown /\ InOrderOfUse /\ ShardsBounded

(* CacheInv holds of a new cache. *)
LEMMA CacheInitially == CacheInit => CacheInv
<1> SUFFICES ASSUME CacheInit PROVE CacheInv
  OBVIOUS
<1> USE CacheAssumption DEF CacheInit
<1>1. itsMaxSizePerShard \in Nat
  BY DEF PerShard
<1>2. CacheTypeOK
  BY <1>1 DEF CacheTypeOK, CachePcs
<1>3. ThreadsInStep /\ PutsNew /\ OneHolder /\ LimitsKnown
  BY DEF ThreadsInStep, PutsNew, OneHolder, LimitsKnown, Holds, NoWork, WorkType
<1>4. ASSUME NEW s \in Shards
      PROVE  list[s] = <<>> /\ map[s] = {} /\ size[s] = 0
  OBVIOUS
<1>5. ListsAreMaps /\ InOrderOfUse
  BY <1>4 DEF ListsAreMaps, InOrderOfUse, Distinct, ToSet
<1>6. SizesAddUp
  BY <1>4, EmptySum DEF SizesAddUp, Putting
<1>7. ShardsBounded
  BY <1>1, <1>4 DEF ShardsBounded
<1> QED
  BY <1>2, <1>3, <1>5, <1>6, <1>7 DEF CacheInv

LEMMA MapsFinite ==
  ASSUME CacheInv, NEW s \in Shards
  PROVE  IsFiniteSet(map[s]) /\ map[s] \subseteq CacheKeys /\ \A k \in CacheKeys : entrySize[k] \in Nat
<1>1. list[s] \in Seq(CacheKeys) /\ ToSet(list[s]) = map[s]
  BY DEF CacheInv, CacheTypeOK, ListsAreMaps
<1> QED
  BY <1>1, ListedSet DEF CacheInv, CacheTypeOK

(* In a shard that is not locked the size is that of its entries. *)
LEMMA SizeOfFreeShard ==
  ASSUME CacheInv, NEW s \in Shards, ShardFree(s)
  PROVE  size[s] = SumFunctionOnSet(entrySize, map[s])
BY DEF CacheInv, ShardFree, SizesAddUp, Putting

LEMMA SizeWithoutIsSum ==
  ASSUME CacheInv, NEW k \in CacheKeys, ShardFree(ShardOf[k])
  PROVE  /\ SizeWithout(ShardOf[k], k) = SumFunctionOnSet(entrySize, map[ShardOf[k]] \ {k})
         /\ SizeWithout(ShardOf[k], k) \in Nat
         /\ SizeWithout(ShardOf[k], k) <= size[ShardOf[k]]
<1> DEFINE s == ShardOf[k]
<1>1. s \in Shards
  BY CacheAssumption
<1>2. size[s] = SumFunctionOnSet(entrySize, map[s])
  BY <1>1, SizeOfFreeShard
<1>3. IsFiniteSet(map[s]) /\ (\A j \in map[s] : entrySize[j] \in Nat) /\ IsFiniteSet(map[s] \ {k})
  BY <1>1, MapsFinite, FS_RemoveElement
<1>4. SumFunctionOnSet(entrySize, map[s] \ {k}) \in Nat /\ size[s] \in Nat
  BY <1>2, <1>3, SumType
<1>5. CASE k \in map[s]
  <2>1. SumFunctionOnSet(entrySize, map[s] \ {k}) = SumFunctionOnSet(entrySize, map[s]) - entrySize[k]
    BY <1>3, <1>5, SumOfLess
  <2>2. entrySize[k] \in Nat
    BY <1>3, <1>5
  <2>3. SizeWithout(s, k) = size[s] - entrySize[k]
    BY <1>5 DEF SizeWithout
  <2> QED
    BY <2>1, <2>2, <2>3, <1>2, <1>4
<1>6. CASE k \notin map[s]
  <2>1. map[s] \ {k} = map[s] /\ SizeWithout(s, k) = size[s]
    BY <1>6 DEF SizeWithout
  <2> QED
    BY <2>1, <1>2, <1>4
<1> QED
  BY <1>5, <1>6

(* What the removal of a key does to the shards. *)
LEMMA WithoutKey ==
  ASSUME CacheInv, NEW k \in CacheKeys,
         list' = [list EXCEPT ![ShardOf[k]] = RemoveFirst(@, k)],
         map' = [map EXCEPT ![ShardOf[k]] = @ \ {k}],
         usedSince' = usedSince
  PROVE  /\ list' \in [Shards -> Seq(CacheKeys)]
         /\ map' \in [Shards -> SUBSET CacheKeys]
         /\ ListsAreMaps' /\ InOrderOfUse'
         /\ \A r \in Shards : map'[r] = map[r] \ {k}
<1> DEFINE s == ShardOf[k]
<1>1. /\ s \in Shards /\ list \in [Shards -> Seq(CacheKeys)] /\ map \in [Shards -> SUBSET CacheKeys]
      /\ ListsAreMaps /\ InOrderOfUse
  BY CacheAssumption DEF CacheInv, CacheTypeOK
<1>2. \A r \in Shards : r # s => list'[r] = list[r] /\ map'[r] = map[r] /\ k \notin map[r]
  BY <1>1 DEF ListsAreMaps
<1>3. list'[s] = RemoveFirst(list[s], k) /\ map'[s] = map[s] \ {k}
  BY <1>1
<1>4. /\ list'[s] \in Seq(CacheKeys) /\ ToSet(list'[s]) = map'[s] /\ Distinct(list'[s])
      /\ KeepsOrder(list'[s], list[s])
  <2>1. list[s] \in Seq(CacheKeys) /\ Distinct(list[s]) /\ ToSet(list[s]) = map[s]
    BY <1>1 DEF ListsAreMaps
  <2> DEFINE r == RemoveFirst(list[s], k)
  <2>2. /\ r \in Seq(CacheKeys) /\ ToSet(r) = ToSet(list[s]) \ {k} /\ Distinct(r)
        /\ KeepsOrder(r, list[s])
    <3> HIDE DEF s
    <3> QED BY <2>1, Removed
  <2>3. list'[s] = r
    BY <1>3
  <2> HIDE DEF r, s
  <2> QED
    BY <2>1, <2>2, <2>3, <1>3
<1>5. ListsAreMaps'
  <2> SUFFICES ASSUME NEW r \in Shards
               PROVE  Distinct(list'[r]) /\ ToSet(list'[r]) = map'[r] /\ \A j \in map'[r] : ShardOf[j] = r
    BY DEF ListsAreMaps
  <2>1. CASE r = s
    BY <2>1, <1>1, <1>3, <1>4 DEF ListsAreMaps
  <2>2. CASE r # s
    BY <2>2, <1>1, <1>2 DEF ListsAreMaps
  <2> QED
    BY <2>1, <2>2
<1>6. InOrderOfUse'
  <2> SUFFICES ASSUME NEW r \in Shards, NEW i \in 1 .. Len(list'[r]), NEW j \in 1 .. Len(list'[r]), i < j
               PROVE  list'[r][j] \in usedSince[list'[r][i]]
    BY DEF InOrderOfUse
  <2>1. CASE r = s
    <3>1. PICK a \in 1 .. Len(list[s]), b \in 1 .. Len(list[s]) :
            a < b /\ list'[s][i] = list[s][a] /\ list'[s][j] = list[s][b]
      BY <2>1, <1>4 DEF KeepsOrder
    <3> QED
      BY <3>1, <2>1, <1>1 DEF InOrderOfUse
  <2>2. CASE r # s
    BY <2>2, <1>1, <1>2 DEF InOrderOfUse
  <2> QED
    BY <2>1, <2>2
<1> QED
  BY <1>1, <1>2, <1>3, <1>4, <1>5, <1>6

LEMMA FindKeeps ==
  ASSUME CacheInv, NEW t \in Threads, NEW k \in CacheKeys, Find(t, k)
  PROVE  CacheInv'
<1> DEFINE s == ShardOf[k]
<1>1. /\ s \in Shards /\ CacheTypeOK /\ ListsAreMaps /\ InOrderOfUse /\ k \in map[s]
      /\ list' = [list EXCEPT ![s] = Spliced(@, k)]
      /\ UNCHANGED <<itsMaxSizePerShard, map, size, entrySize, cachePc, work>>
  BY CacheAssumption DEF Find, CacheInv
<1>2. usedSince' = [j \in CacheKeys |-> IF j = k THEN {} ELSE usedSince[j] \cup {k}]
  BY DEF Find, Used
<1>3. \A r \in Shards : r # s => list'[r] = list[r] /\ k \notin map[r]
  BY <1>1 DEF ListsAreMaps, CacheTypeOK
<1> DEFINE rest == RemoveFirst(list[s], k)
<1>4. /\ rest \in Seq(CacheKeys) /\ ToSet(rest) = map[s] \ {k} /\ Distinct(rest)
      /\ KeepsOrder(rest, list[s]) /\ DOMAIN rest = 1 .. Len(rest)
  <2>1. list[s] \in Seq(CacheKeys) /\ Distinct(list[s]) /\ ToSet(list[s]) = map[s]
    BY <1>1 DEF ListsAreMaps, CacheTypeOK
  <2>2. /\ rest \in Seq(CacheKeys) /\ ToSet(rest) = ToSet(list[s]) \ {k} /\ Distinct(rest)
        /\ KeepsOrder(rest, list[s])
    <3> HIDE DEF s
    <3> QED BY <2>1, Removed
  <2> HIDE DEF s, rest
  <2>3. DOMAIN rest = 1 .. Len(rest)
    BY <2>2
  <2> QED
    BY <2>1, <2>2, <2>3
<1>5. list'[s] = Append(rest, k)
  BY <1>1 DEF Spliced, CacheTypeOK
<1> HIDE DEF rest, s
<1>6. /\ list'[s] \in Seq(CacheKeys) /\ Len(list'[s]) = Len(rest) + 1
      /\ \A i \in 1 .. Len(rest) : list'[s][i] = rest[i]
      /\ list'[s][Len(rest) + 1] = k
      /\ ToSet(list'[s]) = map[s] /\ Distinct(list'[s])
  <2>1. /\ Append(rest, k) \in Seq(CacheKeys) /\ Len(Append(rest, k)) = Len(rest) + 1
        /\ \A i \in 1 .. Len(rest) : Append(rest, k)[i] = rest[i]
        /\ Append(rest, k)[Len(rest) + 1] = k
        /\ ToSet(Append(rest, k)) = ToSet(rest) \cup {k}
        /\ Distinct(rest) /\ k \notin ToSet(rest) => Distinct(Append(rest, k))
    BY <1>4, Appended
  <2>2. k \notin ToSet(rest) /\ ToSet(rest) \cup {k} = map[s]
    BY <1>1, <1>4
  <2> QED
    BY <2>1, <2>2, <1>4, <1>5
<1>7. list' \in [Shards -> Seq(CacheKeys)]
  BY <1>1, <1>3, <1>5, <1>6 DEF CacheTypeOK
<1>8. CacheTypeOK'
  <2>1. usedSince' \in [CacheKeys -> SUBSET CacheKeys]
    BY <1>1, <1>2 DEF CacheTypeOK
  <2> QED
    BY <1>1, <1>7, <2>1 DEF CacheTypeOK
<1>9. ListsAreMaps'
  <2> SUFFICES ASSUME NEW r \in Shards
               PROVE  Distinct(list'[r]) /\ ToSet(list'[r]) = map'[r] /\ \A j \in map'[r] : ShardOf[j] = r
    BY DEF ListsAreMaps
  <2>1. CASE r = s
    BY <2>1, <1>1, <1>6 DEF ListsAreMaps
  <2>2. CASE r # s
    BY <2>2, <1>1, <1>3 DEF ListsAreMaps
  <2> QED
    BY <2>1, <2>2
<1>10. InOrderOfUse'
  <2> SUFFICES ASSUME NEW r \in Shards, NEW i \in 1 .. Len(list'[r]), NEW j \in 1 .. Len(list'[r]), i < j
               PROVE  list'[r][j] \in usedSince'[list'[r][i]]
    BY DEF InOrderOfUse
  <2>1. CASE r = s
    <3>1. Len(rest) \in Nat
      BY <1>4
    <3>2. i \in 1 .. Len(rest) /\ list'[s][i] = rest[i] /\ (j \in 1 .. Len(rest) \/ j = Len(rest) + 1)
      BY <2>1, <1>6, <3>1
    <3>3. rest[i] \in map[s] /\ rest[i] # k /\ rest[i] \in CacheKeys
      BY <3>2, <1>4, <1>1 DEF ToSet, CacheTypeOK
    <3>4. CASE j \in 1 .. Len(rest)
      <4>1. PICK a \in 1 .. Len(list[s]), b \in 1 .. Len(list[s]) :
              a < b /\ rest[i] = list[s][a] /\ rest[j] = list[s][b]
        BY <3>2, <3>4, <1>4 DEF KeepsOrder
      <4>2. rest[j] \in usedSince[rest[i]]
        BY <4>1, <1>1 DEF InOrderOfUse
      <4> QED
        BY <4>2, <3>2, <3>3, <3>4, <2>1, <1>2, <1>6
    <3>5. CASE j = Len(rest) + 1
      BY <3>5, <3>2, <3>3, <2>1, <1>2, <1>6
    <3> QED
      BY <3>2, <3>4, <3>5
  <2>2. CASE r # s
    <3>1. list[r] \in Seq(CacheKeys) /\ ToSet(list[r]) = map[r] /\ i \in DOMAIN list[r] /\ list'[r] = list[r]
      BY <2>2, <1>1, <1>3 DEF CacheTypeOK, ListsAreMaps
    <3>2. list[r][i] \in map[r] /\ list[r][i] \in CacheKeys /\ list[r][i] # k
      BY <3>1, <2>2, <1>3 DEF ToSet
    <3>3. list[r][j] \in usedSince[list[r][i]]
      BY <3>1, <1>1 DEF InOrderOfUse
    <3> QED
      BY <3>1, <3>2, <3>3, <1>2
  <2> QED
    BY <2>1, <2>2
<1>11. ThreadsInStep' /\ PutsNew' /\ OneHolder'
  BY <1>1 DEF CacheInv, ThreadsInStep, PutsNew, OneHolder, Holds
<1>12. SizesAddUp'
  BY <1>1 DEF CacheInv, SizesAddUp, Putting
<1>13. LimitsKnown' /\ ShardsBounded'
  BY <1>1 DEF CacheInv, LimitsKnown, Holds, Pending, ShardsBounded, ShardFree
<1> QED
  BY <1>8, <1>9, <1>10, <1>11, <1>12, <1>13 DEF CacheInv

LEMMA PutBegins ==
  ASSUME CacheInv, NEW t \in Threads, NEW k \in CacheKeys, NEW bytes \in ValueSizes,
         cachePc[t] = "idle", ShardFree(ShardOf[k]),
         list' = [list EXCEPT ![ShardOf[k]] = RemoveFirst(@, k)],
         map' = [map EXCEPT ![ShardOf[k]] = @ \ {k}],
         BeginsToPut(t, k, bytes, SizeWithout(ShardOf[k], k)),
         UNCHANGED <<itsMaxSizePerShard, entrySize, usedSince>>
  PROVE  CacheInv'
<1> DEFINE s == ShardOf[k]
           before == SizeWithout(s, k)
<1>1. /\ s \in Shards /\ bytes \in Nat /\ CacheTypeOK /\ ThreadsInStep /\ PutsNew /\ OneHolder
      /\ SizesAddUp /\ LimitsKnown /\ ShardsBounded /\ s \in 0 .. NumShards
  BY CacheAssumption DEF CacheInv, Shards
<1>2. /\ before = SumFunctionOnSet(entrySize, map[s] \ {k}) /\ before \in Nat
  BY SizeWithoutIsSum
<1>3. /\ list' \in [Shards -> Seq(CacheKeys)] /\ map' \in [Shards -> SUBSET CacheKeys]
      /\ ListsAreMaps' /\ InOrderOfUse' /\ \A r \in Shards : map'[r] = map[r] \ {k}
  BY WithoutKey
<1>4. /\ bytes <= itsMaxSizePerShard
      /\ size' = [size EXCEPT ![s] = before + bytes]
      /\ cachePc' = [cachePc EXCEPT ![t] = "evicting"]
      /\ work' = [work EXCEPT ![t] =
                    [shard |-> s, key |-> k, bytes |-> bytes, seen |-> itsMaxSizePerShard]]
  BY DEF BeginsToPut
<1> HIDE DEF s, before
<1>5. /\ cachePc'[t] = "evicting" /\ work'[t].shard = s /\ work'[t].key = k
      /\ work'[t].bytes = bytes /\ work'[t].seen = itsMaxSizePerShard
      /\ work'[t] \in WorkType
  <2>1. t \in DOMAIN work /\ itsMaxSizePerShard \in Nat
    BY <1>1 DEF CacheTypeOK, ThreadsInStep
  <2> QED
    BY <1>1, <1>4, <2>1 DEF CacheTypeOK, WorkType
<1>6. \A u \in Threads : u # t => cachePc'[u] = cachePc[u] /\ work'[u] = work[u]
  BY <1>1, <1>4 DEF CacheTypeOK
<1>7. \A u \in Threads : ~(Holds(u, s))
  BY DEF ShardFree, Holds, s
<1>8. \A r \in Shards : Pending(r) => Pending(r)'
  BY <1>5, <1>6 DEF Pending
<1>9. CacheTypeOK'
  <2>1. size' \in [Shards -> Nat]
    BY <1>1, <1>2, <1>4 DEF CacheTypeOK
  <2>2. cachePc' \in [Threads -> CachePcs]
    BY <1>1, <1>4 DEF CacheTypeOK, CachePcs
  <2>3. itsMaxSizePerShard' \in Nat /\ entrySize' \in [CacheKeys -> Nat]
        /\ usedSince' \in [CacheKeys -> SUBSET CacheKeys]
    BY <1>1 DEF CacheTypeOK
  <2> QED BY <1>3, <2>1, <2>2, <2>3 DEF CacheTypeOK
<1>10. ThreadsInStep'
  <2>1. work' \in [Threads -> WorkType]
    BY <1>1, <1>4, <1>5, <1>6 DEF ThreadsInStep
  <2> QED
    BY <2>1, <1>1, <1>5, <1>6 DEF ThreadsInStep
<1>11. PutsNew'
  <2> SUFFICES ASSUME NEW u \in Threads, cachePc'[u] = "evicting"
               PROVE  /\ work'[u].key \in CacheKeys /\ work'[u].shard = ShardOf[work'[u].key]
                      /\ work'[u].key \notin map'[work'[u].shard]
    BY DEF PutsNew
  <2>1. CASE u = t
    BY <2>1, <1>1, <1>3, <1>5 DEF s
  <2>2. CASE u # t
    BY <2>2, <1>1, <1>3, <1>6 DEF PutsNew, ThreadsInStep
  <2> QED
    BY <2>1, <2>2
<1>12. OneHolder'
  BY <1>1, <1>5, <1>6, <1>7 DEF OneHolder, Holds
<1>13. SizesAddUp'
  <2>1. size'[s] = before + bytes /\ map'[s] = map[s] \ {k}
    BY <1>1, <1>3, <1>4 DEF CacheTypeOK
  <2>2. \A r \in Shards : r # s => size'[r] = size[r] /\ map'[r] = map[r]
    BY <1>1, <1>4 DEF CacheTypeOK, s
  <2> SUFFICES ASSUME NEW r \in Shards
               PROVE  /\ \A u \in Threads : Putting(u, r)' =>
                           size'[r] = SumFunctionOnSet(entrySize, map'[r]) + work'[u].bytes
                      /\ (\A u \in Threads : ~Putting(u, r)') =>
                           size'[r] = SumFunctionOnSet(entrySize, map'[r])
    BY DEF SizesAddUp
  <2>3. CASE r = s
    <3>1. Putting(t, s)' /\ \A u \in Threads : Putting(u, s)' => u = t
      BY <1>5, <1>6, <1>7 DEF Putting, Holds
    <3> QED
      BY <2>1, <2>3, <3>1, <1>2, <1>5
  <2>4. CASE r # s
    <3>1. \A u \in Threads : Putting(u, r)' <=> Putting(u, r)
      BY <2>4, <1>5, <1>6 DEF Putting
    <3>2. ~Putting(t, r)
      BY DEF Putting
    <3>3. size'[r] = size[r] /\ map'[r] = map[r]
      BY <2>2, <2>4
    <3> QED
      BY <3>1, <3>2, <3>3, <1>1, <1>6 DEF SizesAddUp
  <2> QED
    BY <2>3, <2>4
<1>14. LimitsKnown'
  <2> SUFFICES ASSUME NEW u \in Threads, NEW r \in Shards, Holds(u, r)'
               PROVE  \/ work'[u].seen <= itsMaxSizePerShard /\ work'[u].bytes <= itsMaxSizePerShard
                      \/ Pending(r)'
    BY DEF LimitsKnown
  <2>1. CASE u = t
    BY <2>1, <1>1, <1>4, <1>5 DEF CacheTypeOK
  <2>2. CASE u # t
    <3>1. Holds(u, r) /\ work'[u] = work[u]
      BY <2>2, <1>6 DEF Holds
    <3> QED
      BY <3>1, <1>1, <1>8 DEF LimitsKnown
  <2> QED
    BY <2>1, <2>2
<1>15. ShardsBounded'
  <2> SUFFICES ASSUME NEW r \in Shards, ShardFree(r)', ~Pending(r)'
               PROVE  size'[r] <= itsMaxSizePerShard
    BY DEF ShardsBounded, Pending
  <2>1. r # s
    BY <1>5 DEF ShardFree
  <2>2. ShardFree(r) /\ ~Pending(r)
    BY <1>6, <1>8 DEF ShardFree
  <2>3. size'[r] = size[r]
    BY <2>1, <1>1, <1>4 DEF CacheTypeOK
  <2> QED
    BY <2>2, <2>3, <1>1 DEF ShardsBounded, Pending
<1> QED
  BY <1>3, <1>9, <1>10, <1>11, <1>12, <1>13, <1>14, <1>15 DEF CacheInv

LEMMA InsertKeeps ==
  ASSUME CacheInv, NEW t \in Threads, NEW k \in CacheKeys, NEW bytes \in ValueSizes,
         InsertCalled(t, k, bytes)
  PROVE  CacheInv'
<1> DEFINE s == ShardOf[k]
<1>1. /\ s \in Shards /\ k \notin map[s] /\ cachePc[t] = "idle" /\ ShardFree(s)
      /\ BeginsToPut(t, k, bytes, size[s])
      /\ UNCHANGED <<itsMaxSizePerShard, list, map, entrySize, usedSince>>
      /\ list \in [Shards -> Seq(CacheKeys)] /\ map \in [Shards -> SUBSET CacheKeys]
  BY CacheAssumption DEF InsertCalled, CacheInv, CacheTypeOK
<1>2. SizeWithout(s, k) = size[s]
  BY <1>1 DEF SizeWithout
<1>3. RemoveFirst(list[s], k) = list[s] /\ map[s] \ {k} = map[s]
  <2>1. list[s] \in Seq(CacheKeys) /\ Distinct(list[s]) /\ k \notin ToSet(list[s])
    BY <1>1 DEF CacheInv, ListsAreMaps
  <2> HIDE DEF s
  <2> QED
    BY <2>1, <1>1, Removed
<1>4. /\ list' = [list EXCEPT ![s] = RemoveFirst(@, k)]
      /\ map' = [map EXCEPT ![s] = @ \ {k}]
  BY <1>1, <1>3
<1>5. BeginsToPut(t, k, bytes, SizeWithout(s, k))
  BY <1>1, <1>2
<1>6. UNCHANGED <<itsMaxSizePerShard, entrySize, usedSince>>
  BY <1>1
<1> QED
  BY <1>1, <1>4, <1>5, <1>6, PutBegins

LEMMA UpsertKeeps ==
  ASSUME CacheInv, NEW t \in Threads, NEW k \in CacheKeys, NEW bytes \in ValueSizes,
         UpsertCalled(t, k, bytes)
  PROVE  CacheInv'
<1> DEFINE s == ShardOf[k]
<1>1. /\ s \in Shards /\ cachePc[t] = "idle" /\ ShardFree(s)
      /\ list' = [list EXCEPT ![s] = RemoveFirst(@, k)]
      /\ map' = [map EXCEPT ![s] = @ \ {k}]
      /\ UNCHANGED <<itsMaxSizePerShard, entrySize, usedSince>>
  BY CacheAssumption DEF UpsertCalled
<1>2. CASE BeginsToPut(t, k, bytes, SizeWithout(s, k))
  BY <1>1, <1>2, PutBegins
<1>3. CASE size' = [size EXCEPT ![s] = SizeWithout(s, k)] /\ UNCHANGED <<cachePc, work>>
  <2>1. /\ CacheTypeOK /\ ThreadsInStep /\ PutsNew /\ OneHolder
        /\ SizesAddUp /\ LimitsKnown /\ ShardsBounded
    BY DEF CacheInv
  <2>2. /\ SizeWithout(s, k) = SumFunctionOnSet(entrySize, map[s] \ {k})
        /\ SizeWithout(s, k) \in Nat /\ SizeWithout(s, k) <= size[s]
    BY <1>1, SizeWithoutIsSum
  <2>3. /\ list' \in [Shards -> Seq(CacheKeys)] /\ map' \in [Shards -> SUBSET CacheKeys]
        /\ ListsAreMaps' /\ InOrderOfUse' /\ \A r \in Shards : map'[r] = map[r] \ {k}
    BY <1>1, WithoutKey
  <2>4. /\ size'[s] = SizeWithout(s, k) /\ map'[s] = map[s] \ {k}
        /\ \A r \in Shards : r # s => size'[r] = size[r] /\ map'[r] = map[r]
    BY <1>1, <1>3, <2>1 DEF CacheTypeOK
  <2> HIDE DEF s
  <2>5. CacheTypeOK'
    BY <1>1, <1>3, <2>1, <2>2, <2>3 DEF CacheTypeOK
  <2>6. ThreadsInStep' /\ OneHolder' /\ LimitsKnown'
    BY <1>1, <1>3, <2>1 DEF ThreadsInStep, OneHolder, Holds, LimitsKnown, Pending
  <2>7. PutsNew'
    BY <1>3, <2>1, <2>3 DEF PutsNew, ThreadsInStep
  <2>8. SizesAddUp'
    <3> SUFFICES ASSUME NEW r \in Shards
                 PROVE  /\ \A u \in Threads : Putting(u, r)' =>
                             size'[r] = SumFunctionOnSet(entrySize, map'[r]) + work'[u].bytes
                        /\ (\A u \in Threads : ~Putting(u, r)') =>
                             size'[r] = SumFunctionOnSet(entrySize, map'[r])
      BY <1>1 DEF SizesAddUp
    <3>1. CASE r = s
      <4>1. \A u \in Threads : ~Putting(u, s)'
        BY <1>1, <1>3 DEF Putting, ShardFree
      <4> QED
        BY <3>1, <4>1, <2>2, <2>4
    <3>2. CASE r # s
      BY <3>2, <1>3, <2>1, <2>4 DEF SizesAddUp, Putting
    <3> QED
      BY <3>1, <3>2
  <2>9. ShardsBounded'
    <3> SUFFICES ASSUME NEW r \in Shards, ShardFree(r), ~Pending(r)
                 PROVE  size'[r] <= itsMaxSizePerShard
      BY <1>1, <1>3 DEF ShardsBounded, Pending, ShardFree
    <3>1. size[r] <= itsMaxSizePerShard /\ size[r] \in Nat /\ itsMaxSizePerShard \in Nat
      BY <2>1 DEF ShardsBounded, Pending, CacheTypeOK
    <3>2. CASE r = s
      BY <3>1, <3>2, <2>2, <2>4
    <3>3. CASE r # s
      BY <3>1, <3>3, <2>4
    <3> QED
      BY <3>2, <3>3
  <2> QED
    BY <2>3, <2>5, <2>6, <2>7, <2>8, <2>9 DEF CacheInv
<1> QED
  BY <1>2, <1>3 DEF UpsertCalled

LEMMA EvictsKeeps ==
  ASSUME CacheInv, NEW t \in Threads, Evicts(t)
  PROVE  CacheInv'
<1> DEFINE s == work[t].shard
           k == Head(list[s])
<1>1. /\ CacheTypeOK /\ ThreadsInStep /\ PutsNew /\ OneHolder /\ ListsAreMaps
      /\ SizesAddUp /\ LimitsKnown /\ InOrderOfUse /\ ShardsBounded
  BY DEF CacheInv
<1>2. PICK limit \in Limits(t) :
        Excess(s, limit) /\ work' = [work EXCEPT ![t].seen = limit]
  BY DEF Evicts
<1>3. /\ cachePc[t] \in {"evicting", "trimming"}
      /\ size' = [size EXCEPT ![s] = @ - entrySize[k]]
      /\ map' = [map EXCEPT ![s] = @ \ {k}]
      /\ list' = [list EXCEPT ![s] = Tail(@)]
      /\ UNCHANGED <<itsMaxSizePerShard, entrySize, cachePc, usedSince>>
  BY DEF Evicts
<1>4. s \in Shards /\ Holds(t, s) /\ itsMaxSizePerShard \in Nat
  BY <1>1, <1>3 DEF ThreadsInStep, Holds, CacheTypeOK
<1>5. /\ limit \in Nat
      /\ \/ limit = work[t].seen
         \/ limit = itsMaxSizePerShard
  BY <1>1, <1>2, <1>4 DEF Limits, ThreadsInStep, WorkType
<1>6. /\ work'[t] = [work[t] EXCEPT !.seen = limit]
      /\ work'[t].seen = limit /\ work'[t].shard = s /\ work'[t].bytes = work[t].bytes
      /\ work'[t].key = work[t].key /\ work'[t] \in WorkType
  BY <1>1, <1>2, <1>5 DEF ThreadsInStep, WorkType
<1>7. work' \in [Threads -> WorkType] /\ \A u \in Threads : u # t => work'[u] = work[u]
  BY <1>1, <1>2, <1>6 DEF ThreadsInStep
<1>8. /\ list[s] \in Seq(CacheKeys) /\ list[s] # <<>> /\ Distinct(list[s]) /\ ToSet(list[s]) = map[s]
  BY <1>1, <1>2, <1>4 DEF CacheTypeOK, ListsAreMaps, Excess
<1>9. /\ Tail(list[s]) \in Seq(CacheKeys) /\ Len(Tail(list[s])) = Len(list[s]) - 1 /\ k \in map[s]
      /\ k \in CacheKeys
      /\ \A i \in 1 .. Len(list[s]) - 1 : Tail(list[s])[i] = list[s][i + 1]
      /\ ToSet(Tail(list[s])) = map[s] \ {k} /\ Distinct(Tail(list[s]))
  <2> HIDE DEF s
  <2> QED BY <1>8, FirstTaken
<1> HIDE DEF k, s
<1>10. /\ list'[s] = Tail(list[s]) /\ map'[s] = map[s] \ {k} /\ size'[s] = size[s] - entrySize[k]
       /\ \A r \in Shards : r # s => size'[r] = size[r] /\ map'[r] = map[r] /\ list'[r] = list[r]
  BY <1>1, <1>3, <1>4 DEF CacheTypeOK
<1>11. /\ size'[s] \in Nat /\ size'[s] <= size[s]
       /\ \A u \in Threads : Putting(u, s) =>
            size'[s] = SumFunctionOnSet(entrySize, map[s] \ {k}) + work[u].bytes
       /\ (\A u \in Threads : ~Putting(u, s)) =>
            size'[s] = SumFunctionOnSet(entrySize, map[s] \ {k})
  <2>1. IsFiniteSet(map[s]) /\ (\A j \in map[s] : entrySize[j] \in Nat) /\ IsFiniteSet(map[s] \ {k})
    BY <1>4, MapsFinite, FS_RemoveElement
  <2>2. /\ SumFunctionOnSet(entrySize, map[s]) = SumFunctionOnSet(entrySize, map[s] \ {k}) + entrySize[k]
        /\ SumFunctionOnSet(entrySize, map[s] \ {k}) \in Nat
    BY <2>1, <1>9, SumOfLess, SumType
  <2> DEFINE whole == SumFunctionOnSet(entrySize, map[s])
             rest  == SumFunctionOnSet(entrySize, map[s] \ {k})
  <2>3. whole = rest + entrySize[k] /\ rest \in Nat /\ entrySize[k] \in Nat
    BY <2>1, <2>2, <1>9
  <2>4. ASSUME NEW u \in Threads, Putting(u, s)
        PROVE  size[s] = whole + work[u].bytes /\ work[u].bytes \in Nat
    BY <2>4, <1>1, <1>4 DEF SizesAddUp, ThreadsInStep, WorkType
  <2>5. ASSUME \A u \in Threads : ~Putting(u, s)
        PROVE  size[s] = whole
    BY <2>5, <1>1, <1>4 DEF SizesAddUp
  <2> HIDE DEF whole, rest
  <2>6. ASSUME NEW u \in Threads, Putting(u, s)
        PROVE  size'[s] = rest + work[u].bytes /\ size'[s] \in Nat /\ size'[s] <= size[s]
    BY <2>3, <2>4, <2>6, <1>10
  <2>7. ASSUME \A u \in Threads : ~Putting(u, s)
        PROVE  size'[s] = rest /\ size'[s] \in Nat /\ size'[s] <= size[s]
    BY <2>3, <2>5, <2>7, <1>10
  <2> QED
    BY <2>6, <2>7 DEF rest
<1>12. CacheTypeOK'
  BY <1>1, <1>3, <1>4, <1>9, <1>10, <1>11 DEF CacheTypeOK
<1>13. ThreadsInStep'
  BY <1>1, <1>3, <1>6, <1>7 DEF ThreadsInStep, s
<1>14. PutsNew'
  <2>1. \A r \in Shards : map'[r] \subseteq map[r]
    BY <1>4, <1>10
  <2>2. \A u \in Threads : work'[u].key = work[u].key /\ work'[u].shard = work[u].shard
    BY <1>6, <1>7 DEF s
  <2> QED
    BY <2>1, <2>2, <1>1, <1>3 DEF PutsNew, ThreadsInStep
<1>15. \A u \in Threads : work'[u].shard = work[u].shard /\ work'[u].bytes = work[u].bytes
  BY <1>6, <1>7 DEF s
<1>16. \A r \in Shards : Pending(r)' <=> Pending(r)
  BY <1>3, <1>15 DEF Pending
<1>17. \A u \in Threads, r \in Shards : (Holds(u, r)' <=> Holds(u, r)) /\ (Putting(u, r)' <=> Putting(u, r))
  BY <1>3, <1>15 DEF Holds, Putting
<1>18. OneHolder'
  BY <1>1, <1>17 DEF OneHolder
<1>19. ListsAreMaps'
  <2> SUFFICES ASSUME NEW r \in Shards
               PROVE  Distinct(list'[r]) /\ ToSet(list'[r]) = map'[r] /\ \A j \in map'[r] : ShardOf[j] = r
    BY DEF ListsAreMaps
  <2>1. CASE r = s
    BY <2>1, <1>1, <1>4, <1>9, <1>10 DEF ListsAreMaps
  <2>2. CASE r # s
    BY <2>2, <1>1, <1>10 DEF ListsAreMaps
  <2> QED
    BY <2>1, <2>2
<1>20. SizesAddUp'
  <2> SUFFICES ASSUME NEW r \in Shards
               PROVE  /\ \A u \in Threads : Putting(u, r)' =>
                           size'[r] = SumFunctionOnSet(entrySize, map'[r]) + work'[u].bytes
                      /\ (\A u \in Threads : ~Putting(u, r)') =>
                           size'[r] = SumFunctionOnSet(entrySize, map'[r])
    BY <1>3 DEF SizesAddUp
  <2>1. CASE r = s
    BY <2>1, <1>4, <1>10, <1>11, <1>15, <1>17
  <2>2. CASE r # s
    BY <2>2, <1>1, <1>10, <1>15, <1>17 DEF SizesAddUp
  <2> QED
    BY <2>1, <2>2
<1>21. LimitsKnown'
  <2> SUFFICES ASSUME NEW u \in Threads, NEW r \in Shards, Holds(u, r)
               PROVE  \/ work'[u].seen <= itsMaxSizePerShard /\ work'[u].bytes <= itsMaxSizePerShard
                      \/ Pending(r)
    BY <1>3, <1>16, <1>17 DEF LimitsKnown
  <2>1. \/ work[u].seen <= itsMaxSizePerShard /\ work[u].bytes <= itsMaxSizePerShard
        \/ Pending(r)
    BY <1>1 DEF LimitsKnown
  <2>2. work'[u].bytes = work[u].bytes /\ (work'[u].seen = work[u].seen \/ work'[u].seen = itsMaxSizePerShard)
    BY <1>5, <1>6, <1>7
  <2> QED
    BY <2>1, <2>2, <1>4
<1>22. InOrderOfUse'
  <2> SUFFICES ASSUME NEW r \in Shards, NEW i \in 1 .. Len(list'[r]), NEW j \in 1 .. Len(list'[r]), i < j
               PROVE  list'[r][j] \in usedSince[list'[r][i]]
    BY <1>3 DEF InOrderOfUse
  <2>1. CASE r = s
    <3>1. Len(list[s]) \in Nat
      BY <1>8
    <3>2. /\ list'[s][i] = list[s][i + 1] /\ list'[s][j] = list[s][j + 1] /\ i + 1 < j + 1
          /\ i + 1 \in 1 .. Len(list[s]) /\ j + 1 \in 1 .. Len(list[s])
      BY <2>1, <3>1, <1>9, <1>10
    <3> QED
      BY <3>2, <2>1, <1>1, <1>4 DEF InOrderOfUse
  <2>2. CASE r # s
    BY <2>2, <1>1, <1>10 DEF InOrderOfUse
  <2> QED
    BY <2>1, <2>2
<1>23. ShardsBounded'
  <2> SUFFICES ASSUME NEW r \in Shards, ShardFree(r), ~Pending(r)
               PROVE  size'[r] <= itsMaxSizePerShard
    <3>1. \A r \in Shards : ShardFree(r)' <=> ShardFree(r)
      BY <1>3, <1>15 DEF ShardFree
    <3> QED
      BY <3>1, <1>3, <1>16 DEF ShardsBounded, Pending
  <2>1. r # s
    BY <1>4 DEF ShardFree, Holds
  <2> QED
    BY <2>1, <1>1, <1>10 DEF ShardsBounded, Pending
<1> QED
  BY <1>12, <1>13, <1>14, <1>18, <1>19, <1>20, <1>21, <1>22, <1>23 DEF CacheInv

LEMMA PlacesKeeps ==
  ASSUME CacheInv, NEW t \in Threads, Places(t)
  PROVE  CacheInv'
<1> DEFINE s == work[t].shard
           k == work[t].key
<1>1. /\ CacheTypeOK /\ ThreadsInStep /\ PutsNew /\ OneHolder /\ ListsAreMaps
      /\ SizesAddUp /\ LimitsKnown /\ InOrderOfUse /\ ShardsBounded
  BY DEF CacheInv
<1>2. PICK limit \in Limits(t) : ~Excess(s, limit)
  BY DEF Places
<1>3. /\ cachePc[t] = "evicting"
      /\ list' = [list EXCEPT ![s] = Append(@, k)]
      /\ map' = [map EXCEPT ![s] = @ \cup {k}]
      /\ entrySize' = [entrySize EXCEPT ![k] = work[t].bytes]
      /\ usedSince' = [j \in CacheKeys |-> IF j = k THEN {} ELSE usedSince[j] \cup {k}]
      /\ cachePc' = [cachePc EXCEPT ![t] = "idle"]
      /\ work' = [work EXCEPT ![t] = NoWork]
      /\ UNCHANGED <<itsMaxSizePerShard, size>>
  BY DEF Places, Used
<1>4. /\ s \in Shards /\ Holds(t, s) /\ Putting(t, s) /\ itsMaxSizePerShard \in Nat /\ work[t].bytes \in Nat
      /\ k \in CacheKeys /\ s = ShardOf[k] /\ k \notin map[s] /\ work[t].seen \in Nat
  BY <1>1, <1>3 DEF ThreadsInStep, Holds, Putting, CacheTypeOK, PutsNew, WorkType
<1>5. \A u \in Threads : (Holds(u, s) => u = t) /\ (Putting(u, s) => u = t)
  BY <1>1, <1>4 DEF OneHolder, Holds, Putting
<1>6. /\ list[s] \in Seq(CacheKeys) /\ Distinct(list[s]) /\ ToSet(list[s]) = map[s]
      /\ size[s] = SumFunctionOnSet(entrySize, map[s]) + work[t].bytes
  BY <1>1, <1>4 DEF CacheTypeOK, ListsAreMaps, SizesAddUp
<1>7. /\ Append(list[s], k) \in Seq(CacheKeys) /\ Len(Append(list[s], k)) = Len(list[s]) + 1
      /\ \A i \in 1 .. Len(list[s]) : Append(list[s], k)[i] = list[s][i]
      /\ Append(list[s], k)[Len(list[s]) + 1] = k
      /\ ToSet(Append(list[s], k)) = map[s] \cup {k} /\ Distinct(Append(list[s], k))
  <2> HIDE DEF s, k
  <2> QED BY <1>4, <1>6, Appended
<1> HIDE DEF k, s
<1>8. /\ list'[s] = Append(list[s], k) /\ map'[s] = map[s] \cup {k}
      /\ \A r \in Shards : r # s => map'[r] = map[r] /\ list'[r] = list[r]
      /\ entrySize'[k] = work[t].bytes
      /\ \A j \in CacheKeys : j # k => entrySize'[j] = entrySize[j]
  BY <1>1, <1>3, <1>4 DEF CacheTypeOK
<1>9. cachePc'[t] = "idle" /\ work'[t] = NoWork /\ NoWork \in WorkType
  <2>1. NoWork \in WorkType
    BY CacheAssumption DEF NoWork, WorkType
  <2> QED
    BY <2>1, <1>1, <1>3 DEF CacheTypeOK, ThreadsInStep
<1>10. \A u \in Threads : u # t => cachePc'[u] = cachePc[u] /\ work'[u] = work[u]
  BY <1>1, <1>3 DEF CacheTypeOK, ThreadsInStep
<1>11. CacheTypeOK'
  <2>1. usedSince' \in [CacheKeys -> SUBSET CacheKeys]
    BY <1>1, <1>3, <1>4 DEF CacheTypeOK
  <2>2. list' \in [Shards -> Seq(CacheKeys)]
    BY <1>1, <1>3, <1>4, <1>7 DEF CacheTypeOK
  <2>3. map' \in [Shards -> SUBSET CacheKeys]
    BY <1>1, <1>3, <1>4 DEF CacheTypeOK
  <2>4. entrySize' \in [CacheKeys -> Nat] /\ cachePc' \in [Threads -> CachePcs]
    BY <1>1, <1>3, <1>4 DEF CacheTypeOK, CachePcs
  <2> QED
    BY <2>1, <2>2, <2>3, <2>4, <1>1, <1>3 DEF CacheTypeOK
<1>12. ThreadsInStep'
  <2>1. work' \in [Threads -> WorkType]
    BY <1>1, <1>3, <1>9 DEF ThreadsInStep
  <2> QED
    BY <2>1, <1>1, <1>9, <1>10 DEF ThreadsInStep, NoWork
<1>13. PutsNew'
  <2> SUFFICES ASSUME NEW u \in Threads, cachePc'[u] = "evicting"
               PROVE  /\ work'[u].key \in CacheKeys /\ work'[u].shard = ShardOf[work'[u].key]
                      /\ work'[u].key \notin map'[work'[u].shard]
    BY DEF PutsNew
  <2>1. u # t
    BY <1>9
  <2>2. cachePc[u] = "evicting" /\ work'[u] = work[u] /\ work[u].shard \in Shards
    BY <2>1, <1>1, <1>10 DEF ThreadsInStep
  <2>3. work[u].shard # s
    BY <2>1, <2>2, <1>5 DEF Putting
  <2> QED
    BY <2>2, <2>3, <1>1, <1>8 DEF PutsNew
<1>14. OneHolder'
  BY <1>1, <1>9, <1>10 DEF OneHolder, Holds
<1>15. ListsAreMaps'
  <2> SUFFICES ASSUME NEW r \in Shards
               PROVE  Distinct(list'[r]) /\ ToSet(list'[r]) = map'[r] /\ \A j \in map'[r] : ShardOf[j] = r
    BY DEF ListsAreMaps
  <2>1. CASE r = s
    BY <2>1, <1>1, <1>4, <1>7, <1>8 DEF ListsAreMaps
  <2>2. CASE r # s
    BY <2>2, <1>1, <1>8 DEF ListsAreMaps
  <2> QED
    BY <2>1, <2>2
<1>16. \A r \in Shards : r # s => k \notin map[r]
  BY <1>1, <1>4 DEF ListsAreMaps
<1>17. SizesAddUp'
  <2> SUFFICES ASSUME NEW r \in Shards
               PROVE  /\ \A u \in Threads : Putting(u, r)' =>
                           size'[r] = SumFunctionOnSet(entrySize', map'[r]) + work'[u].bytes
                      /\ (\A u \in Threads : ~Putting(u, r)') =>
                           size'[r] = SumFunctionOnSet(entrySize', map'[r])
    BY DEF SizesAddUp
  <2>0. /\ IsFiniteSet(map[r]) /\ map[r] \subseteq CacheKeys /\ \A j \in CacheKeys : entrySize[j] \in Nat
        /\ k \notin map[r]
    BY <1>4, <1>16, MapsFinite
  <2>1. SumFunctionOnSet(entrySize', map[r]) = SumFunctionOnSet(entrySize, map[r])
    <3>1. (\A j \in map[r] : entrySize[j] \in Nat) /\ (\A j \in map[r] : entrySize'[j] = entrySize[j])
      BY <2>0, <1>8
    <3> QED
      BY <3>1, <2>0, SameSum
  <2>2. CASE r = s
    <3>1. \A u \in Threads : ~Putting(u, r)'
      BY <2>2, <1>5, <1>9, <1>10 DEF Putting
    <3>2. \A j \in map[s] \cup {k} : entrySize'[j] \in Nat
      BY <2>0, <2>2, <1>4, <1>8
    <3>3. SumFunctionOnSet(entrySize', map[s] \cup {k}) = SumFunctionOnSet(entrySize', map[s]) + entrySize'[k]
      BY <3>2, <2>0, <2>2, SumOfMore
    <3> QED
      BY <2>1, <2>2, <3>1, <3>3, <1>3, <1>6, <1>8
  <2>3. CASE r # s
    <3>1. \A u \in Threads : Putting(u, r)' <=> Putting(u, r)
      BY <2>3, <1>4, <1>9, <1>10 DEF Putting
    <3>2. \A u \in Threads : Putting(u, r) => work'[u] = work[u]
      BY <2>3, <1>4, <1>10 DEF Putting
    <3>3. map'[r] = map[r] /\ size'[r] = size[r]
      BY <2>3, <1>3, <1>8
    <3> QED
      BY <3>1, <3>2, <3>3, <2>1, <1>1 DEF SizesAddUp
  <2> QED
    BY <2>2, <2>3
<1>18. \A r \in Shards : Pending(r)' <=> Pending(r)
  BY <1>3, <1>9, <1>10 DEF Pending
<1>19. LimitsKnown'
  <2> SUFFICES ASSUME NEW u \in Threads, NEW r \in Shards, Holds(u, r)'
               PROVE  \/ work'[u].seen <= itsMaxSizePerShard /\ work'[u].bytes <= itsMaxSizePerShard
                      \/ Pending(r)
    BY <1>3, <1>18 DEF LimitsKnown
  <2>1. Holds(u, r) /\ work'[u] = work[u]
    BY <1>9, <1>10 DEF Holds
  <2> QED
    BY <2>1, <1>1 DEF LimitsKnown
<1>20. InOrderOfUse'
  <2> SUFFICES ASSUME NEW r \in Shards, NEW i \in 1 .. Len(list'[r]), NEW j \in 1 .. Len(list'[r]), i < j
               PROVE  list'[r][j] \in usedSince'[list'[r][i]]
    BY DEF InOrderOfUse
  <2>0. /\ list[r] \in Seq(CacheKeys) /\ ToSet(list[r]) = map[r] /\ DOMAIN list[r] = 1 .. Len(list[r])
        /\ Len(list[r]) \in Nat /\ k \notin map[r]
    BY <1>1, <1>4, <1>16 DEF CacheTypeOK, ListsAreMaps
  <2>1. ASSUME NEW a \in 1 .. Len(list[r]), NEW b \in 1 .. Len(list[r]), a < b
        PROVE  list[r][b] \in usedSince'[list[r][a]]
    <3>1. list[r][a] \in CacheKeys /\ list[r][a] # k
      BY <2>0 DEF ToSet
    <3>2. list[r][b] \in usedSince[list[r][a]]
      BY <2>1, <1>1 DEF InOrderOfUse
    <3> QED
      BY <3>1, <3>2, <1>3
  <2>2. CASE r = s
    <3>1. i \in 1 .. Len(list[s]) /\ list'[s][i] = list[s][i] /\ (j \in 1 .. Len(list[s]) \/ j = Len(list[s]) + 1)
      BY <2>0, <2>2, <1>7, <1>8
    <3>2. CASE j \in 1 .. Len(list[s])
      BY <3>1, <3>2, <2>1, <2>2, <1>7, <1>8
    <3>3. CASE j = Len(list[s]) + 1
      <4>1. list[s][i] \in CacheKeys /\ list[s][i] # k
        BY <2>0, <2>2, <3>1 DEF ToSet
      <4> QED
        BY <4>1, <3>1, <3>3, <2>2, <1>3, <1>7, <1>8
    <3> QED
      BY <3>1, <3>2, <3>3
  <2>3. CASE r # s
    BY <2>1, <2>3, <1>8
  <2> QED
    BY <2>2, <2>3
<1>21. ShardsBounded'
  <2> SUFFICES ASSUME NEW r \in Shards, ShardFree(r)', ~Pending(r)
               PROVE  size[r] <= itsMaxSizePerShard
    BY <1>3, <1>18 DEF ShardsBounded, Pending
  <2>1. CASE r = s
    <3>1. work[t].seen <= itsMaxSizePerShard /\ work[t].bytes <= itsMaxSizePerShard
      BY <2>1, <1>1, <1>4 DEF LimitsKnown
    <3>2. limit \in Nat /\ limit <= itsMaxSizePerShard
      BY <3>1, <1>4 DEF Limits
    <3>3. size[s] \in Nat
      BY <1>1, <1>4 DEF CacheTypeOK
    <3>4. CASE size[s] <= limit
      BY <3>2, <3>3, <3>4, <2>1, <1>4
    <3>5. CASE list[s] = <<>>
      <4>1. map[s] = {}
        BY <3>5, <1>6 DEF ToSet
      <4>2. size[s] = 0 + work[t].bytes
        BY <4>1, <1>6, EmptySum
      <4> QED
        BY <4>2, <3>1, <2>1, <1>4
    <3> QED
      BY <3>2, <3>3, <3>4, <3>5, <1>2 DEF Excess, s
  <2>2. CASE r # s
    <3>1. ShardFree(r)
      BY <2>2, <1>10 DEF ShardFree, s
    <3> QED
      BY <3>1, <1>1 DEF ShardsBounded, Pending
  <2> QED
    BY <2>1, <2>2
<1> QED
  BY <1>11, <1>12, <1>13, <1>14, <1>15, <1>17, <1>19, <1>20, <1>21 DEF CacheInv

(* The steps of resize() that touch no shard: t begins the operation, locks a shard, or
   leaves one.                                                                         *)
LEMMA ResizeCalledKeeps ==
  ASSUME CacheInv, NEW t \in Threads, NEW maxSize \in MaxSizes, ResizeCalled(t, maxSize)
  PROVE  CacheInv'
<1>1. /\ CacheTypeOK /\ ThreadsInStep /\ PutsNew /\ OneHolder /\ ListsAreMaps
      /\ SizesAddUp /\ LimitsKnown /\ InOrderOfUse /\ ShardsBounded
  BY DEF CacheInv
<1>2. /\ cachePc[t] = "idle" /\ itsMaxSizePerShard' = PerShard(maxSize)
      /\ cachePc' = [cachePc EXCEPT ![t] = "resizing"]
      /\ work' = [work EXCEPT ![t].shard = 1]
      /\ UNCHANGED <<list, map, size, entrySize, usedSince>>
  BY DEF ResizeCalled, FirstShard, shardVars
<1>3. itsMaxSizePerShard' \in Nat /\ 1 \in Shards /\ 1 \in 0 .. NumShards
  BY <1>2, CacheAssumption DEF PerShard, Shards
<1>4. /\ cachePc'[t] = "resizing" /\ work'[t] = [NoWork EXCEPT !.shard = 1]
      /\ work'[t] \in WorkType /\ work'[t].shard = 1 /\ work'[t].bytes = 0
  BY <1>1, <1>2, <1>3 DEF CacheTypeOK, ThreadsInStep, NoWork, WorkType
<1>5. \A u \in Threads : u # t => cachePc'[u] = cachePc[u] /\ work'[u] = work[u]
  BY <1>1, <1>2 DEF CacheTypeOK, ThreadsInStep
<1>6. \A r \in Shards : Pending(r)'
  <2>1. \A r \in Shards : work'[t].shard <= r
    BY <1>4, CacheAssumption DEF Shards
  <2> QED
    BY <2>1, <1>4 DEF Pending
<1>7. CacheTypeOK'
  BY <1>1, <1>2, <1>3 DEF CacheTypeOK, CachePcs
<1>8. ThreadsInStep'
  <2>1. work' \in [Threads -> WorkType]
    BY <1>1, <1>2, <1>4, <1>5 DEF ThreadsInStep
  <2> QED
    BY <2>1, <1>1, <1>3, <1>4, <1>5 DEF ThreadsInStep
<1>9. PutsNew'
  BY <1>1, <1>2, <1>4, <1>5 DEF PutsNew
<1>10. OneHolder'
  BY <1>1, <1>4, <1>5 DEF OneHolder, Holds
<1>11. SizesAddUp'
  <2>1. \A u \in Threads, r \in Shards : (Putting(u, r)' <=> Putting(u, r)) /\ (Putting(u, r) => work'[u] = work[u])
    BY <1>2, <1>4, <1>5 DEF Putting
  <2> QED
    BY <2>1, <1>1, <1>2 DEF SizesAddUp
<1>12. LimitsKnown' /\ ShardsBounded'
  BY <1>6 DEF LimitsKnown, ShardsBounded, Pending
<1>13. ListsAreMaps' /\ InOrderOfUse'
  BY <1>1, <1>2 DEF ListsAreMaps, InOrderOfUse
<1> QED
  BY <1>7, <1>8, <1>9, <1>10, <1>11, <1>12, <1>13 DEF CacheInv

LEMMA ResizeLocksKeeps ==
  ASSUME CacheInv, NEW t \in Threads, ResizeLocks(t)
  PROVE  CacheInv'
<1> DEFINE s == work[t].shard
<1>1. /\ CacheTypeOK /\ ThreadsInStep /\ PutsNew /\ OneHolder /\ ListsAreMaps
      /\ SizesAddUp /\ LimitsKnown /\ InOrderOfUse /\ ShardsBounded
  BY DEF CacheInv
<1>2. /\ cachePc[t] = "resizing" /\ ShardFree(s)
      /\ cachePc' = [cachePc EXCEPT ![t] = "trimming"]
      /\ work' = [work EXCEPT ![t].seen = itsMaxSizePerShard]
      /\ UNCHANGED <<itsMaxSizePerShard, list, map, size, entrySize, usedSince>>
  BY DEF ResizeLocks, shardVars
<1>3. s \in Shards /\ itsMaxSizePerShard \in Nat /\ work[t] \in WorkType /\ work[t].bytes = 0
  BY <1>1, <1>2 DEF CacheTypeOK, ThreadsInStep
<1>4. /\ cachePc'[t] = "trimming" /\ work'[t] \in WorkType /\ work'[t].shard = s
      /\ work'[t].bytes = 0 /\ work'[t].seen = itsMaxSizePerShard
  BY <1>1, <1>2, <1>3 DEF CacheTypeOK, ThreadsInStep, WorkType
<1> HIDE DEF s
<1>5. \A u \in Threads : u # t => cachePc'[u] = cachePc[u] /\ work'[u] = work[u]
  BY <1>1, <1>2 DEF CacheTypeOK, ThreadsInStep
<1>6. \A r \in Shards : r # s /\ Pending(r) => Pending(r)'
  <2> SUFFICES ASSUME NEW r \in Shards, r # s, Pending(r) PROVE Pending(r)'
    OBVIOUS
  <2>1. CASE \E u \in Threads : u # t /\ \/ cachePc[u] = "resizing" /\ work[u].shard <= r
                                         \/ cachePc[u] = "trimming" /\ work[u].shard < r
    BY <2>1, <1>5 DEF Pending
  <2>2. CASE s <= r
    <3>1. s < r
      BY <2>2, <1>3 DEF Shards
    <3> QED
      BY <3>1, <1>4 DEF Pending
  <2> QED
    BY <2>1, <2>2, <1>2 DEF Pending, s
<1>7. CacheTypeOK'
  BY <1>1, <1>2 DEF CacheTypeOK, CachePcs
<1>8. ThreadsInStep'
  <2>1. work' \in [Threads -> WorkType]
    BY <1>1, <1>2, <1>4, <1>5 DEF ThreadsInStep
  <2> QED
    BY <2>1, <1>1, <1>3, <1>4, <1>5 DEF ThreadsInStep
<1>9. PutsNew'
  BY <1>1, <1>2, <1>4, <1>5 DEF PutsNew
<1>10. \A u \in Threads : ~Holds(u, s)
  BY <1>2 DEF ShardFree, Holds
<1>11. OneHolder'
  BY <1>1, <1>4, <1>5, <1>10 DEF OneHolder, Holds
<1>12. SizesAddUp'
  <2>1. \A u \in Threads, r \in Shards : (Putting(u, r)' <=> Putting(u, r)) /\ (Putting(u, r) => work'[u] = work[u])
    BY <1>2, <1>4, <1>5 DEF Putting
  <2> QED
    BY <2>1, <1>1, <1>2 DEF SizesAddUp
<1>13. LimitsKnown'
  <2> SUFFICES ASSUME NEW u \in Threads, NEW r \in Shards, Holds(u, r)'
               PROVE  \/ work'[u].seen <= itsMaxSizePerShard /\ work'[u].bytes <= itsMaxSizePerShard
                      \/ Pending(r)'
    BY <1>2 DEF LimitsKnown
  <2>1. CASE u = t
    BY <2>1, <1>3, <1>4
  <2>2. CASE u # t
    <3>1. Holds(u, r) /\ work'[u] = work[u] /\ r # s
      BY <2>2, <1>5, <1>10 DEF Holds
    <3> QED
      BY <3>1, <1>1, <1>6 DEF LimitsKnown
  <2> QED
    BY <2>1, <2>2
<1>14. ShardsBounded'
  <2> SUFFICES ASSUME NEW r \in Shards, ShardFree(r)', ~Pending(r)'
               PROVE  size[r] <= itsMaxSizePerShard
    BY <1>2 DEF ShardsBounded, Pending
  <2>1. r # s
    BY <1>4 DEF ShardFree
  <2>2. ShardFree(r) /\ ~Pending(r)
    BY <2>1, <1>2, <1>5, <1>6 DEF ShardFree
  <2> QED
    BY <2>2, <1>1 DEF ShardsBounded, Pending
<1>15. ListsAreMaps' /\ InOrderOfUse'
  BY <1>1, <1>2 DEF ListsAreMaps, InOrderOfUse
<1> QED
  BY <1>7, <1>8, <1>9, <1>11, <1>12, <1>13, <1>14, <1>15 DEF CacheInv

(* Of NextShard(): the thread is at rest, or before the next shard. *)
LEMMA GoesOn ==
  ASSUME CacheInv, NEW t \in Threads, work[t].shard \in Shards, NEW pc \in {"resizing", "clearing"},
         NextShard(t, pc)
  PROVE  /\ cachePc' \in [Threads -> CachePcs] /\ work' \in [Threads -> WorkType]
         /\ \A u \in Threads : u # t => cachePc'[u] = cachePc[u] /\ work'[u] = work[u]
         /\ work'[t].bytes = 0
         /\ \/ cachePc'[t] = "idle" /\ work'[t] = NoWork /\ work[t].shard = NumShards
            \/ /\ cachePc'[t] = pc /\ work'[t].shard = work[t].shard + 1
               /\ work[t].shard + 1 \in Shards
<1>1. /\ cachePc \in [Threads -> CachePcs] /\ work \in [Threads -> WorkType]
      /\ NumShards \in Nat /\ NoWork \in WorkType
  BY CacheAssumption DEF CacheInv, CacheTypeOK, ThreadsInStep, NoWork, WorkType
<1>2. CASE work[t].shard = NumShards
  BY <1>1, <1>2 DEF NextShard, NoWork, CachePcs
<1>3. CASE work[t].shard # NumShards
  <2> DEFINE w == [NoWork EXCEPT !.shard = work[t].shard + 1]
  <2>1. work[t].shard + 1 \in Shards /\ work[t].shard + 1 \in 0 .. NumShards
    BY <1>1, <1>3 DEF Shards
  <2>2. w \in WorkType /\ w.shard = work[t].shard + 1 /\ w.bytes = 0
    BY <2>1, <1>1 DEF NoWork, WorkType
  <2>3. cachePc' = [cachePc EXCEPT ![t] = pc] /\ work' = [work EXCEPT ![t] = w]
    BY <1>3 DEF NextShard
  <2> HIDE DEF w
  <2> QED
    BY <1>1, <2>1, <2>2, <2>3 DEF CachePcs
<1> QED
  BY <1>2, <1>3

LEMMA TrimmedKeeps ==
  ASSUME CacheInv, NEW t \in Threads, Trimmed(t)
  PROVE  CacheInv'
<1>1. /\ CacheTypeOK /\ ThreadsInStep /\ PutsNew /\ OneHolder /\ ListsAreMaps
      /\ SizesAddUp /\ LimitsKnown /\ InOrderOfUse /\ ShardsBounded
  BY DEF CacheInv
<1>2. PICK s \in Shards : s = work[t].shard
  BY <1>1 DEF Trimmed, ThreadsInStep
<1>3. PICK limit \in Limits(t) : ~Excess(s, limit)
  BY <1>2 DEF Trimmed
<1>4. /\ cachePc[t] = "trimming" /\ NextShard(t, "resizing")
      /\ UNCHANGED <<itsMaxSizePerShard, list, map, size, entrySize, usedSince>>
  BY DEF Trimmed, shardVars
<1>5. /\ cachePc' \in [Threads -> CachePcs] /\ work' \in [Threads -> WorkType]
      /\ \A u \in Threads : u # t => cachePc'[u] = cachePc[u] /\ work'[u] = work[u]
      /\ work'[t].bytes = 0
      /\ \/ cachePc'[t] = "idle" /\ work'[t] = NoWork /\ s = NumShards
         \/ cachePc'[t] = "resizing" /\ work'[t].shard = s + 1 /\ s + 1 \in Shards
  BY <1>2, <1>4, GoesOn
<1>6. Holds(t, s) /\ work[t].bytes = 0
  BY <1>1, <1>2, <1>4 DEF Holds, ThreadsInStep
<1>7. \A u \in Threads : Holds(u, s) => u = t
  BY <1>1, <1>6 DEF OneHolder
<1>8. \A r \in Shards : Pending(r) => Pending(r)'
  <2> SUFFICES ASSUME NEW r \in Shards, Pending(r) PROVE Pending(r)'
    OBVIOUS
  <2>1. CASE \E u \in Threads : u # t /\ \/ cachePc[u] = "resizing" /\ work[u].shard <= r
                                         \/ cachePc[u] = "trimming" /\ work[u].shard < r
    BY <2>1, <1>5 DEF Pending
  <2>2. CASE s < r
    <3>1. s # NumShards /\ s + 1 <= r
      BY <2>2, CacheAssumption DEF Shards
    <3> QED
      BY <3>1, <1>5 DEF Pending
  <2> QED
    BY <2>1, <2>2, <1>2, <1>4 DEF Pending
<1>9. CacheTypeOK'
  BY <1>1, <1>4, <1>5 DEF CacheTypeOK
<1>10. ThreadsInStep'
  BY <1>1, <1>5 DEF ThreadsInStep
<1>11. PutsNew'
  BY <1>1, <1>4, <1>5 DEF PutsNew
<1>12. OneHolder'
  BY <1>1, <1>5 DEF OneHolder, Holds
<1>13. SizesAddUp'
  <2>1. \A u \in Threads, r \in Shards : (Putting(u, r)' <=> Putting(u, r)) /\ (Putting(u, r) => work'[u] = work[u])
    BY <1>4, <1>5 DEF Putting
  <2> QED
    BY <2>1, <1>1, <1>4 DEF SizesAddUp
<1>14. LimitsKnown'
  <2> SUFFICES ASSUME NEW u \in Threads, NEW r \in Shards, Holds(u, r)'
               PROVE  \/ work'[u].seen <= itsMaxSizePerShard /\ work'[u].bytes <= itsMaxSizePerShard
                      \/ Pending(r)'
    BY <1>4 DEF LimitsKnown
  <2>1. Holds(u, r) /\ work'[u] = work[u]
    BY <1>5 DEF Holds
  <2> QED
    BY <2>1, <1>1, <1>8 DEF LimitsKnown
<1>15. ShardsBounded'
  <2> SUFFICES ASSUME NEW r \in Shards, ShardFree(r)', ~Pending(r)'
               PROVE  size[r] <= itsMaxSizePerShard
    BY <1>4 DEF ShardsBounded, Pending
  <2>1. ~Pending(r)
    BY <1>8
  <2>2. CASE r = s
    <3>1. work[t].seen <= itsMaxSizePerShard /\ work[t].seen \in Nat /\ itsMaxSizePerShard \in Nat
      BY <2>1, <2>2, <1>1, <1>6 DEF LimitsKnown, ThreadsInStep, WorkType, CacheTypeOK
    <3>2. limit \in Nat /\ limit <= itsMaxSizePerShard
      BY <3>1 DEF Limits
    <3>3. size[s] \in Nat
      BY <1>1 DEF CacheTypeOK
    <3>4. CASE size[s] <= limit
      BY <3>1, <3>2, <3>3, <3>4, <2>2
    <3>5. CASE list[s] = <<>>
      <4>1. map[s] = {}
        BY <3>5, <1>1 DEF ListsAreMaps, ToSet
      <4>2. \A u \in Threads : ~Putting(u, s)
        BY <1>4, <1>7 DEF Putting, Holds
      <4>3. size[s] = 0
        BY <4>1, <4>2, <1>1, EmptySum DEF SizesAddUp
      <4> QED
        BY <4>3, <3>1, <2>2
    <3> QED
      BY <3>2, <3>3, <3>4, <3>5, <1>3 DEF Excess
  <2>3. CASE r # s
    <3>1. ShardFree(r)
      BY <2>3, <1>2, <1>5 DEF ShardFree
    <3> QED
      BY <3>1, <2>1, <1>1 DEF ShardsBounded, Pending
  <2> QED
    BY <2>2, <2>3
<1>16. ListsAreMaps' /\ InOrderOfUse'
  BY <1>1, <1>4 DEF ListsAreMaps, InOrderOfUse
<1> QED
  BY <1>9, <1>10, <1>11, <1>12, <1>13, <1>14, <1>15, <1>16 DEF CacheInv

LEMMA ClearCalledKeeps ==
  ASSUME CacheInv, NEW t \in Threads, ClearCalled(t)
  PROVE  CacheInv'
<1>1. /\ CacheTypeOK /\ ThreadsInStep /\ PutsNew /\ OneHolder /\ ListsAreMaps
      /\ SizesAddUp /\ LimitsKnown /\ InOrderOfUse /\ ShardsBounded
  BY DEF CacheInv
<1>2. /\ cachePc[t] = "idle"
      /\ cachePc' = [cachePc EXCEPT ![t] = "clearing"]
      /\ work' = [work EXCEPT ![t].shard = 1]
      /\ UNCHANGED <<itsMaxSizePerShard, list, map, size, entrySize, usedSince>>
  BY DEF ClearCalled, shardVars
<1>3. 1 \in Shards /\ 1 \in 0 .. NumShards
  BY CacheAssumption DEF Shards
<1>4. /\ cachePc'[t] = "clearing" /\ work'[t] = [NoWork EXCEPT !.shard = 1]
      /\ work'[t] \in WorkType /\ work'[t].shard = 1 /\ work'[t].bytes = 0
  BY <1>1, <1>2, <1>3 DEF CacheTypeOK, ThreadsInStep, NoWork, WorkType
<1>5. \A u \in Threads : u # t => cachePc'[u] = cachePc[u] /\ work'[u] = work[u]
  BY <1>1, <1>2 DEF CacheTypeOK, ThreadsInStep
<1>6. \A r \in Shards : Pending(r)' <=> Pending(r)
  BY <1>2, <1>4, <1>5 DEF Pending
<1>7. CacheTypeOK'
  BY <1>1, <1>2, <1>3 DEF CacheTypeOK, CachePcs
<1>8. ThreadsInStep'
  <2>1. work' \in [Threads -> WorkType]
    BY <1>1, <1>2, <1>4, <1>5 DEF ThreadsInStep
  <2> QED
    BY <2>1, <1>1, <1>3, <1>4, <1>5 DEF ThreadsInStep
<1>9. PutsNew'
  BY <1>1, <1>2, <1>4, <1>5 DEF PutsNew
<1>10. OneHolder'
  BY <1>1, <1>4, <1>5 DEF OneHolder, Holds
<1>11. SizesAddUp'
  <2>1. \A u \in Threads, r \in Shards : (Putting(u, r)' <=> Putting(u, r)) /\ (Putting(u, r) => work'[u] = work[u])
    BY <1>2, <1>4, <1>5 DEF Putting
  <2> QED
    BY <2>1, <1>1, <1>2 DEF SizesAddUp
<1>12. \A u \in Threads, r \in Shards : (Holds(u, r)' <=> Holds(u, r)) /\ (Holds(u, r) => work'[u] = work[u])
  BY <1>2, <1>4, <1>5 DEF Holds
<1>13. LimitsKnown'
  BY <1>1, <1>2, <1>6, <1>12 DEF LimitsKnown
<1>14. ShardsBounded'
  <2>1. \A r \in Shards : ShardFree(r)' => ShardFree(r)
    BY <1>12 DEF ShardFree, Holds
  <2> QED
    BY <2>1, <1>1, <1>2, <1>6 DEF ShardsBounded, Pending
<1>15. ListsAreMaps' /\ InOrderOfUse'
  BY <1>1, <1>2 DEF ListsAreMaps, InOrderOfUse
<1> QED
  BY <1>7, <1>8, <1>9, <1>10, <1>11, <1>13, <1>14, <1>15 DEF CacheInv

LEMMA ClearsShardKeeps ==
  ASSUME CacheInv, NEW t \in Threads, ClearsShard(t)
  PROVE  CacheInv'
<1>1. /\ CacheTypeOK /\ ThreadsInStep /\ PutsNew /\ OneHolder /\ ListsAreMaps
      /\ SizesAddUp /\ LimitsKnown /\ InOrderOfUse /\ ShardsBounded
  BY DEF CacheInv
<1>2. PICK s \in Shards : s = work[t].shard
  BY <1>1 DEF ClearsShard, ThreadsInStep
<1>3. /\ cachePc[t] = "clearing" /\ ShardFree(s) /\ NextShard(t, "clearing")
      /\ list' = [list EXCEPT ![s] = <<>>]
      /\ map' = [map EXCEPT ![s] = {}]
      /\ size' = [size EXCEPT ![s] = 0]
      /\ UNCHANGED <<itsMaxSizePerShard, entrySize, usedSince>>
  BY <1>2 DEF ClearsShard
<1>4. /\ cachePc' \in [Threads -> CachePcs] /\ work' \in [Threads -> WorkType]
      /\ \A u \in Threads : u # t => cachePc'[u] = cachePc[u] /\ work'[u] = work[u]
      /\ work'[t].bytes = 0
      /\ \/ cachePc'[t] = "idle" /\ work'[t] = NoWork
         \/ cachePc'[t] = "clearing" /\ work'[t].shard \in Shards
  BY <1>2, <1>3, GoesOn
<1>5. /\ list'[s] = <<>> /\ map'[s] = {} /\ size'[s] = 0
      /\ \A r \in Shards : r # s => list'[r] = list[r] /\ map'[r] = map[r] /\ size'[r] = size[r]
  BY <1>1, <1>3 DEF CacheTypeOK
<1>6. \A r \in Shards : Pending(r)' <=> Pending(r)
  BY <1>3, <1>4 DEF Pending
<1>7. \A u \in Threads, r \in Shards :
        /\ Holds(u, r)' <=> Holds(u, r)
        /\ Putting(u, r)' <=> Putting(u, r)
        /\ Holds(u, r) => work'[u] = work[u] /\ r # s
  BY <1>3, <1>4 DEF Holds, Putting, ShardFree
<1>8. CacheTypeOK'
  <2>1. list' \in [Shards -> Seq(CacheKeys)]
    BY <1>1, <1>3 DEF CacheTypeOK
  <2>2. map' \in [Shards -> SUBSET CacheKeys] /\ size' \in [Shards -> Nat]
    BY <1>1, <1>3 DEF CacheTypeOK
  <2> QED
    BY <2>1, <2>2, <1>1, <1>3, <1>4 DEF CacheTypeOK
<1>9. ThreadsInStep'
  BY <1>1, <1>4 DEF ThreadsInStep
<1>10. PutsNew'
  <2>1. \A r \in Shards : map'[r] \subseteq map[r]
    BY <1>5
  <2>2. \A u \in Threads : cachePc'[u] = "evicting" =>
           cachePc[u] = "evicting" /\ work'[u] = work[u] /\ work[u].shard \in Shards
    BY <1>1, <1>4 DEF ThreadsInStep
  <2> QED
    BY <2>1, <2>2, <1>1 DEF PutsNew
<1>11. OneHolder'
  BY <1>1, <1>7 DEF OneHolder
<1>12. ListsAreMaps' /\ InOrderOfUse'
  <2>1. ASSUME NEW r \in Shards
        PROVE  Distinct(list'[r]) /\ ToSet(list'[r]) = map'[r] /\ \A j \in map'[r] : ShardOf[j] = r
    <3>1. CASE r = s
      BY <3>1, <1>5 DEF Distinct, ToSet
    <3>2. CASE r # s
      BY <3>2, <1>1, <1>5 DEF ListsAreMaps
    <3> QED
      BY <3>1, <3>2
  <2>2. ASSUME NEW r \in Shards, NEW i \in 1 .. Len(list'[r]), NEW j \in 1 .. Len(list'[r]), i < j
        PROVE  list'[r][j] \in usedSince[list'[r][i]]
    <3>1. r # s
      BY <1>5
    <3> QED
      BY <3>1, <2>2, <1>1, <1>5 DEF InOrderOfUse
  <2> QED
    BY <2>1, <2>2, <1>3 DEF ListsAreMaps, InOrderOfUse
<1>13. SizesAddUp'
  <2> SUFFICES ASSUME NEW r \in Shards
               PROVE  /\ \A u \in Threads : Putting(u, r) =>
                           size'[r] = SumFunctionOnSet(entrySize, map'[r]) + work'[u].bytes
                      /\ (\A u \in Threads : ~Putting(u, r)) =>
                           size'[r] = SumFunctionOnSet(entrySize, map'[r])
    BY <1>3, <1>7 DEF SizesAddUp
  <2>1. CASE r = s
    BY <2>1, <1>5, <1>7, EmptySum DEF Putting, Holds
  <2>2. CASE r # s
    BY <2>2, <1>1, <1>5, <1>7 DEF SizesAddUp, Putting, Holds
  <2> QED
    BY <2>1, <2>2
<1>14. LimitsKnown'
  BY <1>1, <1>3, <1>6, <1>7 DEF LimitsKnown
<1>15. ShardsBounded'
  <2> SUFFICES ASSUME NEW r \in Shards, ShardFree(r)', ~Pending(r)
               PROVE  size'[r] <= itsMaxSizePerShard
    BY <1>3, <1>6 DEF ShardsBounded, Pending
  <2>1. CASE r = s
    BY <2>1, <1>1, <1>5 DEF CacheTypeOK
  <2>2. CASE r # s
    <3>1. ShardFree(r)
      BY <1>7 DEF ShardFree, Holds
    <3> QED
      BY <3>1, <2>2, <1>1, <1>5 DEF ShardsBounded, Pending
  <2> QED
    BY <2>1, <2>2
<1> QED
  BY <1>8, <1>9, <1>10, <1>11, <1>12, <1>13, <1>14, <1>15 DEF CacheInv

(* CacheInv is inductive: each action of the cache keeps it, and so does a stuttering step. *)
LEMMA CacheStep == CacheInv /\ [CacheNext]_cacheVars => CacheInv'
<1> SUFFICES ASSUME CacheInv, [CacheNext]_cacheVars PROVE CacheInv'
  OBVIOUS
<1>1. ASSUME NEW t \in Threads, NEW k \in CacheKeys, Find(t, k) PROVE CacheInv'
  BY <1>1, FindKeeps
<1>2. ASSUME NEW t \in Threads, NEW k \in CacheKeys, NEW bytes \in ValueSizes,
             InsertCalled(t, k, bytes) \/ UpsertCalled(t, k, bytes)
      PROVE  CacheInv'
  BY <1>2, InsertKeeps, UpsertKeeps
<1>3. ASSUME NEW t \in Threads, Evicts(t) \/ Places(t) PROVE CacheInv'
  BY <1>3, EvictsKeeps, PlacesKeeps
<1>4. ASSUME NEW t \in Threads, NEW maxSize \in MaxSizes, ResizeCalled(t, maxSize) PROVE CacheInv'
  BY <1>4, ResizeCalledKeeps
<1>5. ASSUME NEW t \in Threads, ResizeLocks(t) \/ Trimmed(t) PROVE CacheInv'
  BY <1>5, ResizeLocksKeeps, TrimmedKeeps
<1>6. ASSUME NEW t \in Threads, ClearCalled(t) \/ ClearsShard(t) PROVE CacheInv'
  BY <1>6, ClearCalledKeeps, ClearsShardKeeps
<1>7. CASE UNCHANGED cacheVars
  <2> USE <1>7 DEF cacheVars, shardVars
  <2>1. CacheTypeOK' /\ ThreadsInStep' /\ PutsNew' /\ OneHolder'
    BY DEF CacheInv, CacheTypeOK, ThreadsInStep, PutsNew, OneHolder, Holds
  <2>2. ListsAreMaps' /\ InOrderOfUse'
    BY DEF CacheInv, ListsAreMaps, InOrderOfUse
  <2>3. SizesAddUp' /\ LimitsKnown' /\ ShardsBounded'
    BY DEF CacheInv, SizesAddUp, Putting, LimitsKnown, Holds, Pending, ShardsBounded, ShardFree
  <2> QED
    BY <2>1, <2>2, <2>3 DEF CacheInv
<1> QED
  BY <1>1, <1>2, <1>3, <1>4, <1>5, <1>6, <1>7 DEF CacheNext

(* Whatever the threads do, CacheInv holds for ever. *)
THEOREM CacheAlways == CacheSpec => []CacheInv
BY CacheInitially, CacheStep, PTL DEF CacheSpec

(* What the threads hold of a shard is the entry that is being put, if there is one. *)
LEMMA BytesHeld ==
  ASSUME CacheInv, NEW s \in Shards
  PROVE  LET held == SumFunctionOnSet([t \in Threads |-> work[t].bytes],
                                      {t \in Threads : work[t].shard = s})
         IN /\ \A u \in Threads : Putting(u, s) => held = work[u].bytes
            /\ (\A u \in Threads : ~Putting(u, s)) => held = 0
<1> DEFINE bytes == [t \in Threads |-> work[t].bytes]
           there == {t \in Threads : work[t].shard = s}
<1>1. IsFiniteSet(there) /\ \A t \in there : bytes[t] \in Nat
  BY CacheAssumption, FS_Subset DEF CacheInv, ThreadsInStep, WorkType
<1>2. \A t \in there : bytes[t] = 0 \/ Putting(t, s)
  BY DEF CacheInv, ThreadsInStep, Putting
<1>3. ASSUME NEW u \in Threads, Putting(u, s)
      PROVE  SumFunctionOnSet(bytes, there) = work[u].bytes
  <2>1. u \in there /\ bytes[u] = work[u].bytes
    BY <1>3 DEF Putting
  <2>2. \A t \in there \ {u} : bytes[t] = 0
    BY <1>2, <1>3 DEF CacheInv, OneHolder, Holds, Putting
  <2> HIDE DEF bytes, there
  <2>3. IsFiniteSet(there \ {u})
    BY <1>1, FS_RemoveElement
  <2>4. SumFunctionOnSet(bytes, there \ {u}) = 0
    BY <2>2, <2>3, SumOfNothing
  <2>5. SumFunctionOnSet(bytes, there) = SumFunctionOnSet(bytes, there \ {u}) + bytes[u]
    BY <1>1, <2>1, SumOfLess
  <2> QED
    BY <2>1, <2>4, <2>5, <1>1
<1>4. ASSUME \A u \in Threads : ~Putting(u, s)
      PROVE  SumFunctionOnSet(bytes, there) = 0
  <2>1. \A t \in there : bytes[t] = 0
    BY <1>2, <1>4
  <2> HIDE DEF bytes, there
  <2> QED
    BY <1>1, <2>1, SumOfNothing
<1> QED
  BY <1>3, <1>4

(* The shards of the cache are consistent, for any number of shards, threads and keys, any
   sizes of values and any sequence of resizes: the size, the list and the map of a shard
   agree, and a shard that nobody has locked is within the maximum, or about to be put
   right (Cache.h:140-207, 283, 389-397).                                                *)
THEOREM CacheConsistent == CacheSpec => []ShardsConsistent
<1>1. CacheInv => ShardsConsistent
  <2> SUFFICES ASSUME CacheInv PROVE ShardsConsistent
    OBVIOUS
  <2>1. ASSUME NEW s \in Shards
        PROVE  Len(list[s]) = Cardinality(map[s]) /\ ToSet(list[s]) = map[s]
    <3>1. list[s] \in Seq(CacheKeys) /\ Distinct(list[s]) /\ ToSet(list[s]) = map[s]
      BY DEF CacheInv, CacheTypeOK, ListsAreMaps
    <3> QED
      BY <3>1, ListedSet
  <2>2. ASSUME NEW s \in Shards
        PROVE  size[s] = SumFunctionOnSet(entrySize, map[s])
                       + SumFunctionOnSet([t \in Threads |-> work[t].bytes],
                                          {t \in Threads : work[t].shard = s})
    <3> DEFINE held == SumFunctionOnSet([t \in Threads |-> work[t].bytes],
                                        {t \in Threads : work[t].shard = s})
    <3>1. /\ \A u \in Threads : Putting(u, s) => held = work[u].bytes
          /\ (\A u \in Threads : ~Putting(u, s)) => held = 0
      BY BytesHeld
    <3> SUFFICES size[s] = SumFunctionOnSet(entrySize, map[s]) + held
      OBVIOUS
    <3> HIDE DEF held
    <3>2. SumFunctionOnSet(entrySize, map[s]) \in Nat
      <4>1. IsFiniteSet(map[s]) /\ \A k \in map[s] : entrySize[k] \in Nat
        BY MapsFinite
      <4> QED
        BY <4>1, SumType
    <3>3. CASE \E u \in Threads : Putting(u, s)
      BY <3>1, <3>3 DEF CacheInv, SizesAddUp
    <3>4. CASE \A u \in Threads : ~Putting(u, s)
      BY <3>1, <3>2, <3>4 DEF CacheInv, SizesAddUp
    <3> QED
      BY <3>3, <3>4
  <2> QED
    BY <2>1, <2>2 DEF ShardsConsistent, ShardsAddUp, CacheInv
<1> QED
  BY <1>1, CacheAlways, PTL

(* Whatever is evicted has not been used after any entry that stays in its shard, for
   every interleaving of the threads (Cache.h:230, 392-396).                          *)
THEOREM CacheEvictsOldest == CacheSpec => EvictsLeastRecentlyUsed
<1> DEFINE Oldest ==
      \A t \in Threads :
        cachePc[t] \in {"evicting", "trimming"} =>
          \A k \in map[work[t].shard] \ map'[work[t].shard] :
            map'[work[t].shard] \subseteq usedSince[k]
<1>1. CacheInv /\ [CacheNext]_cacheVars => Oldest
  <2> SUFFICES ASSUME CacheInv, [CacheNext]_cacheVars,
                      NEW t \in Threads, NEW s \in Shards, s = work[t].shard,
                      cachePc[t] \in {"evicting", "trimming"},
                      NEW k \in map[s] \ map'[s], NEW j \in map'[s]
               PROVE  j \in usedSince[k]
    BY DEF CacheInv, ThreadsInStep
  <2>1. Holds(t, s) /\ ~ShardFree(s)
    BY DEF Holds, ShardFree
  <2>2. map \in [Shards -> SUBSET CacheKeys]
    BY DEF CacheInv, CacheTypeOK
  <2>3. CASE Evicts(t)
    <3>1. /\ list[s] \in Seq(CacheKeys) /\ list[s] # <<>> /\ Distinct(list[s])
          /\ ToSet(list[s]) = map[s] /\ map'[s] = map[s] \ {Head(list[s])}
          /\ DOMAIN list[s] = 1 .. Len(list[s])
      BY <2>2, <2>3 DEF CacheInv, CacheTypeOK, ListsAreMaps, Evicts, Excess
    <3>2. k = list[s][1] /\ 1 \in 1 .. Len(list[s]) /\ j # k /\ j \in ToSet(list[s])
      BY <3>1
    <3>3. PICK i \in 1 .. Len(list[s]) : list[s][i] = j
      BY <3>1, <3>2 DEF ToSet
    <3>4. 1 < i
      BY <3>2, <3>3
    <3> QED
      BY <3>2, <3>3, <3>4 DEF CacheInv, InOrderOfUse
  <2>4. CASE map'[s] = map[s]
    BY <2>4
  <2>5. ASSUME NEW u \in Threads, u # t, Evicts(u) PROVE map'[s] = map[s]
    <3>1. work[u].shard # s
      BY <2>1, <2>5 DEF CacheInv, OneHolder, Holds, Evicts
    <3> QED
      BY <3>1, <2>2, <2>5 DEF Evicts
  <2>6. ASSUME NEW u \in Threads, Places(u) PROVE map[s] \subseteq map'[s]
    BY <2>2, <2>6 DEF Places
  <2>7. ASSUME NEW u \in Threads, NEW i \in CacheKeys, NEW bytes \in ValueSizes, UpsertCalled(u, i, bytes)
        PROVE  map'[s] = map[s]
    BY <2>1, <2>2, <2>7 DEF UpsertCalled
  <2>8. ASSUME NEW u \in Threads, ClearsShard(u) PROVE map'[s] = map[s]
    BY <2>1, <2>2, <2>8 DEF ClearsShard
  <2>9. CASE map' = map
    BY <2>9
  <2> QED
    BY <2>3, <2>4, <2>5, <2>6, <2>7, <2>8, <2>9
    DEF CacheNext, cacheVars, shardVars, Find, InsertCalled, ResizeCalled, ResizeLocks, Trimmed, ClearCalled
<1>2. EvictsLeastRecentlyUsed <=> [][Oldest]_cacheVars
  BY DEF EvictsLeastRecentlyUsed
<1> QED
  BY <1>1, <1>2, CacheAlways, PTL DEF CacheSpec
-----------------------------------------------------------------------------
(* FileCache: the invariant.  An entry is loaded once: what update() has still to visit has none; and
   what a cleanup makes room for has none.                                              *)

EntriesAreKeys ==
  /\ Distinct(entries)
  /\ filePc = "down" => entries = <<>> /\ itsSize = 0
  /\ filePc = "loading" => unread \cap Entries = {} /\ Entries \subseteq loaded
  /\ filePc \in {"up", "cleaning"} => unread = {}

RequestIsNew ==
  filePc = "cleaning" /\ request.key # NoFileKey =>
    request.key \notin Entries /\ request.space = BytesOf[request.key]

SizeIsSum ==
  /\ itsSize = SumFunctionOnSet(fileSize, Entries)
  /\ itsSize <= itsMaxSize

\* FilesMatchEntries, as it is while update() goes on.
FilesKnown ==
  /\ filePc # "down" => OnDisk \ Entries \subseteq orphans \cup unread
  /\ Entries \cap torn \subseteq loaded \cup undetected

FileCacheInv ==
  FileCacheTypeOK /\ EntriesAreKeys /\ RequestIsNew /\ SizeIsSum /\ FilesKnown

(* FileCacheInv holds before the first process. *)
LEMMA FileCacheInitially == FileCacheInit => FileCacheInv
<1> SUFFICES ASSUME FileCacheInit PROVE FileCacheInv
  OBVIOUS
<1> USE FileCacheAssumption DEF FileCacheInit
<1>1. entries = <<>> /\ Entries = {} /\ OnDisk = {}
  BY DEF Entries, ToSet, OnDisk
<1>2. FileCacheTypeOK
  BY <1>1 DEF FileCacheTypeOK, NoRequest
<1>3. EntriesAreKeys /\ RequestIsNew /\ FilesKnown
  BY <1>1 DEF EntriesAreKeys, Distinct, RequestIsNew, FilesKnown
<1>4. SizeIsSum
  BY <1>1, EmptySum DEF SizeIsSum
<1> QED
  BY <1>2, <1>3, <1>4 DEF FileCacheInv

(* Below the maximum, subtraction in size_t is subtraction. *)
LEMMA MinusIsExact ==
  ASSUME NEW a \in Nat, NEW b \in Nat, b <= a, a < SizeModulus
  PROVE  Minus(a, b) = a - b
BY FileCacheAssumption DEF Minus

LEMMA EntriesFinite ==
  ASSUME FileCacheInv
  PROVE  /\ entries \in Seq(FileKeys) /\ Distinct(entries) /\ Entries = ToSet(entries)
         /\ IsFiniteSet(Entries) /\ Entries \subseteq FileKeys
         /\ \A k \in FileKeys : fileSize[k] \in Nat
         /\ itsSize \in Nat /\ itsSize <= itsMaxSize /\ itsMaxSize \in Nat /\ itsMaxSize < SizeModulus
         /\ SizeModulus \in Nat
         /\ itsSize = SumFunctionOnSet(fileSize, Entries)
BY FileCacheAssumption, ListedSet DEF FileCacheInv, FileCacheTypeOK, EntriesAreKeys, SizeIsSum, Entries

LEMMA SizeOfOthers ==
  ASSUME FileCacheInv, NEW k \in FileKeys
  PROVE  /\ SizeWithoutLost(k) = SumFunctionOnSet(fileSize, Entries \ {k})
         /\ SizeWithoutLost(k) \in Nat /\ SizeWithoutLost(k) <= itsSize
         /\ k \in Entries => Minus(itsSize, fileSize[k]) = SizeWithoutLost(k)
<1>1. /\ IsFiniteSet(Entries) /\ (\A j \in Entries : fileSize[j] \in Nat)
      /\ itsSize \in Nat /\ itsSize < SizeModulus /\ fileSize[k] \in Nat
      /\ itsSize = SumFunctionOnSet(fileSize, Entries)
  BY EntriesFinite
<1>2. IsFiniteSet(Entries \ {k}) /\ SumFunctionOnSet(fileSize, Entries \ {k}) \in Nat
  BY <1>1, FS_RemoveElement, SumType
<1>3. CASE k \in Entries
  <2>1. itsSize = SumFunctionOnSet(fileSize, Entries \ {k}) + fileSize[k]
    BY <1>1, <1>3, SumOfLess
  <2>2. fileSize[k] <= itsSize
    BY <2>1, <1>1, <1>2
  <2>3. Minus(itsSize, fileSize[k]) = itsSize - fileSize[k]
    BY <2>2, <1>1, MinusIsExact
  <2>4. SizeWithoutLost(k) = Minus(itsSize, fileSize[k])
    BY <1>3 DEF SizeWithoutLost
  <2> QED
    BY <2>1, <2>3, <2>4, <1>1, <1>2
<1>4. CASE k \notin Entries
  <2>1. Entries \ {k} = Entries /\ SizeWithoutLost(k) = itsSize
    BY <1>4 DEF SizeWithoutLost
  <2> QED
    BY <2>1, <1>1, <1>4
<1> QED
  BY <1>3, <1>4

(* The entry of a key is dropped. *)
LEMMA EntryDropped ==
  ASSUME FileCacheInv, NEW k \in FileKeys,
         entries' = RemoveFirst(entries, k), itsSize' = SizeWithoutLost(k), fileSize' = fileSize
  PROVE  /\ entries' \in Seq(FileKeys) /\ Distinct(entries') /\ Entries' = Entries \ {k}
         /\ itsSize' \in 0 .. SizeModulus - 1 /\ SizeIsSum'
<1>1. /\ RemoveFirst(entries, k) \in Seq(FileKeys) /\ Distinct(RemoveFirst(entries, k))
      /\ ToSet(RemoveFirst(entries, k)) = ToSet(entries) \ {k}
  BY EntriesFinite, Removed
<1>2. Entries' = Entries \ {k}
  BY <1>1 DEF Entries
<1>3. itsSize' = SumFunctionOnSet(fileSize, Entries \ {k}) /\ itsSize' \in Nat /\ itsSize' <= itsSize
  BY SizeOfOthers
<1>4. SizeIsSum'
  BY <1>2, <1>3, EntriesFinite DEF SizeIsSum
<1>5. itsSize' \in 0 .. SizeModulus - 1
  BY <1>3, EntriesFinite
<1> QED
  BY <1>1, <1>2, <1>4, <1>5

(* An entry is made anew, at the back, where there is room for it. *)
LEMMA EntryMade ==
  ASSUME FileCacheInv, NEW k \in FileKeys, NEW length \in Nat, NEW others \in Nat,
         others = SumFunctionOnSet(fileSize, Entries \ {k}), others + length <= itsMaxSize,
         entries' = Append(RemoveFirst(entries, k), k),
         fileSize' = [fileSize EXCEPT ![k] = length],
         itsSize' = others + length
  PROVE  /\ entries' \in Seq(FileKeys) /\ Distinct(entries') /\ Entries' = Entries \cup {k}
         /\ fileSize' \in [FileKeys -> Nat] /\ itsSize' \in 0 .. SizeModulus - 1 /\ SizeIsSum'
<1> DEFINE rest == RemoveFirst(entries, k)
<1>1. rest \in Seq(FileKeys) /\ Distinct(rest) /\ ToSet(rest) = Entries \ {k}
  BY EntriesFinite, Removed
<1>2. k \notin ToSet(rest) /\ ToSet(rest) \cup {k} = Entries \cup {k}
  BY <1>1
<1>3. entries' = Append(rest, k)
  OBVIOUS
<1> HIDE DEF rest
<1>4. entries' \in Seq(FileKeys) /\ Distinct(entries') /\ ToSet(entries') = Entries \cup {k}
  BY <1>1, <1>2, <1>3, Appended
<1>5. fileSize \in [FileKeys -> Nat]
  BY DEF FileCacheInv, FileCacheTypeOK
<1>6. /\ fileSize' \in [FileKeys -> Nat] /\ fileSize'[k] = length
      /\ \A j \in FileKeys : j # k => fileSize'[j] = fileSize[j]
  BY <1>5
<1>7. IsFiniteSet(Entries \ {k}) /\ Entries \ {k} \subseteq FileKeys
  BY EntriesFinite, FS_RemoveElement
<1>8. SumFunctionOnSet(fileSize', Entries \ {k}) = others
  <2>1. /\ \A j \in Entries \ {k} : fileSize[j] \in Nat
        /\ \A j \in Entries \ {k} : fileSize'[j] = fileSize[j]
    BY <1>5, <1>6, <1>7
  <2> QED
    BY <2>1, <1>7, SameSum
<1>9. SumFunctionOnSet(fileSize', (Entries \ {k}) \cup {k}) = others + length
  <2>1. \A j \in (Entries \ {k}) \cup {k} : fileSize'[j] \in Nat
    BY <1>6, <1>7
  <2>2. k \notin Entries \ {k}
    OBVIOUS
  <2>3. SumFunctionOnSet(fileSize', (Entries \ {k}) \cup {k})
          = SumFunctionOnSet(fileSize', Entries \ {k}) + fileSize'[k]
    BY <2>1, <2>2, <1>7, SumOfMore
  <2> QED
    BY <2>3, <1>6, <1>8
<1>10. Entries' = (Entries \ {k}) \cup {k} /\ Entries' = Entries \cup {k}
  BY <1>4 DEF Entries
<1>11. SizeIsSum'
  BY <1>9, <1>10, Zenon DEF SizeIsSum
<1>12. itsSize' \in 0 .. SizeModulus - 1
  BY EntriesFinite
<1> QED
  BY <1>4, <1>6, <1>10, <1>11, <1>12

LEMMA WriteKeeps ==
  ASSUME FileCacheInv, NEW k \in FileKeys, NEW room \in Nat,
         filePc \in {"up", "cleaning"}, k \notin Entries \cap OnDisk,
         room = SumFunctionOnSet(fileSize, Entries \ {k}), room + BytesOf[k] <= itsMaxSize,
         Writes(k, room) \/ (NotOpened(k, room) /\ room = SizeWithoutLost(k)),
         filePc' = "up", unread' = unread,
         request' \in [key : FileKeys \cup {NoFileKey}, space : Nat]
  PROVE  FileCacheInv'
<1>1. /\ FileCacheTypeOK /\ EntriesAreKeys /\ FilesKnown /\ BytesOf[k] \in Nat /\ unread = {}
      /\ OnDisk \ Entries \subseteq orphans
  BY FileCacheAssumption DEF FileCacheInv, EntriesAreKeys, FilesKnown
<1>2. RequestIsNew'
  BY DEF RequestIsNew
<1>3. CASE NotOpened(k, room) /\ room = SizeWithoutLost(k)
  <2>1. /\ entries' = RemoveFirst(entries, k) /\ itsSize' = SizeWithoutLost(k)
        /\ loaded' = loaded \ {k}
        /\ UNCHANGED <<files, torn, fileSize, undetected, orphans>>
    BY <1>3 DEF NotOpened
  <2>2. /\ entries' \in Seq(FileKeys) /\ Distinct(entries') /\ Entries' = Entries \ {k}
        /\ itsSize' \in 0 .. SizeModulus - 1 /\ SizeIsSum'
    BY <2>1, EntryDropped
  <2>3. FileCacheTypeOK'
    BY <1>1, <2>1, <2>2 DEF FileCacheTypeOK, OnDisk
  <2>4. EntriesAreKeys'
    BY <1>1, <2>2 DEF EntriesAreKeys
  <2>5. FilesKnown'
    BY <1>1, <2>1, <2>2 DEF FilesKnown, OnDisk
  <2> QED
    BY <1>2, <2>2, <2>3, <2>4, <2>5 DEF FileCacheInv
<1>4. CASE Writes(k, room)
  <2>1. PICK outcome \in {"written", "failed", "undetected"}, length \in 0 .. BytesOf[k] :
          /\ files' = [j \in OnDisk \cup {k} |-> IF j = k THEN length ELSE files[j]]
          /\ torn' = IF outcome = "written" THEN torn \ {k} ELSE torn \cup {k}
          /\ undetected' = IF outcome = "undetected" THEN undetected \cup {k} ELSE undetected \ {k}
          /\ orphans' = IF outcome = "failed" THEN orphans \cup {k} ELSE orphans \ {k}
          /\ IF outcome \in TakenForWritten
             THEN /\ entries' = Append(RemoveFirst(entries, k), k)
                  /\ fileSize' = [fileSize EXCEPT ![k] = BytesOf[k]]
                  /\ itsSize' = room + BytesOf[k]
             ELSE /\ entries' = RemoveFirst(entries, k)
                  /\ itsSize' = room
                  /\ UNCHANGED fileSize
          /\ loaded' = loaded \ {k}
    BY <1>4 DEF Writes
  <2>2. OnDisk' = OnDisk \cup {k} /\ \A j \in OnDisk' : files'[j] \in Nat
    BY <2>1, <1>1 DEF OnDisk, FileCacheTypeOK
  <2>3. /\ torn' \subseteq OnDisk' /\ unread' \subseteq OnDisk' /\ OnDisk' \subseteq FileKeys
        /\ loaded' \subseteq FileKeys /\ undetected' \subseteq FileKeys /\ orphans' \subseteq FileKeys
    BY <2>1, <2>2, <1>1 DEF FileCacheTypeOK
  <2>4. CASE outcome \in TakenForWritten
    <3>1. /\ entries' \in Seq(FileKeys) /\ Distinct(entries') /\ Entries' = Entries \cup {k}
          /\ fileSize' \in [FileKeys -> Nat] /\ itsSize' \in 0 .. SizeModulus - 1 /\ SizeIsSum'
      BY <2>1, <2>4, <1>1, EntryMade
    <3>2. FileCacheTypeOK'
      BY <2>2, <2>3, <3>1 DEF FileCacheTypeOK
    <3>3. EntriesAreKeys'
      BY <1>1, <3>1 DEF EntriesAreKeys
    <3>4. OnDisk' \ Entries' \subseteq orphans'
      BY <1>1, <2>1, <2>2, <3>1
    <3>5. Entries' \cap torn' \subseteq loaded' \cup undetected'
      BY <1>1, <2>1, <2>4, <3>1 DEF FilesKnown, TakenForWritten
    <3>6. FilesKnown'
      BY <3>4, <3>5 DEF FilesKnown
    <3> QED
      BY <1>2, <3>1, <3>2, <3>3, <3>6 DEF FileCacheInv
  <2>5. CASE outcome \notin TakenForWritten
    <3>1. outcome = "failed" /\ entries' = RemoveFirst(entries, k) /\ itsSize' = room /\ fileSize' = fileSize
      BY <2>1, <2>5 DEF TakenForWritten
    <3>2. room = SizeWithoutLost(k)
      BY SizeOfOthers
    <3>3. /\ entries' \in Seq(FileKeys) /\ Distinct(entries') /\ Entries' = Entries \ {k}
          /\ itsSize' \in 0 .. SizeModulus - 1 /\ SizeIsSum'
      BY <3>1, <3>2, EntryDropped
    <3>4. FileCacheTypeOK'
      BY <1>1, <2>2, <2>3, <3>1, <3>3 DEF FileCacheTypeOK
    <3>5. EntriesAreKeys'
      BY <1>1, <3>3 DEF EntriesAreKeys
    <3>6. FilesKnown'
      <4>1. torn' = torn \cup {k} /\ orphans' = orphans \cup {k}
            /\ undetected' = undetected \ {k} /\ loaded' = loaded \ {k}
        BY <2>1, <3>1
      <4>2. OnDisk' \ Entries' \subseteq orphans'
        BY <1>1, <2>2, <3>3, <4>1
      <4>3. Entries' \cap torn' \subseteq loaded' \cup undetected'
        BY <1>1, <3>3, <4>1 DEF FilesKnown
      <4> QED
        BY <4>2, <4>3 DEF FilesKnown
    <3> QED
      BY <1>2, <3>3, <3>4, <3>5, <3>6 DEF FileCacheInv
  <2> QED
    BY <2>4, <2>5
<1> QED
  BY <1>3, <1>4

LEMMA LifeKeeps ==
  ASSUME FileCacheInv, Starts \/ IsLoaded \/ Ends
  PROVE  FileCacheInv'
<1>1. FileCacheTypeOK /\ EntriesAreKeys /\ RequestIsNew /\ SizeIsSum /\ FilesKnown
  BY DEF FileCacheInv
<1>2. CASE Starts
  <2>1. /\ filePc = "down" /\ filePc' = "loading" /\ unread' = OnDisk
        /\ UNCHANGED <<files, torn, entries, fileSize, itsSize, request, loaded, undetected, orphans>>
    BY <1>2 DEF Starts
  <2>2. Entries' = Entries /\ OnDisk' = OnDisk /\ Entries = {}
    BY <1>1, <2>1 DEF Entries, OnDisk, EntriesAreKeys, ToSet
  <2>3. FileCacheTypeOK'
    BY <1>1, <2>1, <2>2 DEF FileCacheTypeOK
  <2>4. EntriesAreKeys'
    BY <1>1, <2>1, <2>2 DEF EntriesAreKeys
  <2>5. RequestIsNew' /\ SizeIsSum' /\ FilesKnown'
    BY <1>1, <2>1, <2>2 DEF RequestIsNew, SizeIsSum, FilesKnown
  <2> QED
    BY <2>3, <2>4, <2>5 DEF FileCacheInv
<1>3. CASE IsLoaded
  <2>1. /\ filePc = "loading" /\ unread = {} /\ filePc' = "up"
        /\ UNCHANGED <<files, torn, entries, fileSize, itsSize, request, unread, loaded, undetected, orphans>>
    BY <1>3 DEF IsLoaded, memory
  <2>2. Entries' = Entries /\ OnDisk' = OnDisk
    BY <2>1 DEF Entries, OnDisk
  <2>3. FileCacheTypeOK'
    BY <1>1, <2>1, <2>2 DEF FileCacheTypeOK
  <2>4. EntriesAreKeys'
    BY <1>1, <2>1, <2>2 DEF EntriesAreKeys
  <2>5. RequestIsNew' /\ SizeIsSum' /\ FilesKnown'
    BY <1>1, <2>1, <2>2 DEF RequestIsNew, SizeIsSum, FilesKnown
  <2> QED
    BY <2>3, <2>4, <2>5 DEF FileCacheInv
<1>4. CASE Ends
  <2>1. /\ filePc' = "down" /\ entries' = <<>> /\ fileSize' = [k \in FileKeys |-> 0] /\ itsSize' = 0
        /\ request' = NoRequest /\ unread' = {} /\ loaded' = {}
        /\ UNCHANGED <<files, torn, undetected, orphans>>
    BY <1>4 DEF Ends
  <2>2. Entries' = {} /\ OnDisk' = OnDisk
    BY <2>1 DEF Entries, OnDisk, ToSet
  <2>3. FileCacheTypeOK'
    BY <1>1, <2>1, <2>2, FileCacheAssumption DEF FileCacheTypeOK, NoRequest
  <2>4. EntriesAreKeys'
    BY <2>1, <2>2 DEF EntriesAreKeys, Distinct
  <2>5. RequestIsNew' /\ FilesKnown'
    BY <1>1, <2>1, <2>2 DEF RequestIsNew, FilesKnown
  <2>6. SizeIsSum'
    BY <2>1, <2>2, EmptySum, FileCacheAssumption DEF SizeIsSum
  <2> QED
    BY <2>3, <2>4, <2>5, <2>6 DEF FileCacheInv
<1> QED
  BY <1>2, <1>3, <1>4

LEMMA LoadsFileKeeps ==
  ASSUME FileCacheInv, NEW k \in FileKeys, LoadsFile(k)
  PROVE  FileCacheInv'
<1>1. FileCacheTypeOK /\ EntriesAreKeys /\ RequestIsNew /\ SizeIsSum /\ FilesKnown
  BY DEF FileCacheInv
<1>2. /\ filePc = "loading" /\ k \in unread /\ unread' = unread \ {k}
      /\ UNCHANGED <<files, torn, filePc, request, undetected>>
  BY DEF LoadsFile
<1>3. k \notin Entries /\ k \in OnDisk /\ files[k] \in Nat /\ OnDisk' = OnDisk
  BY <1>1, <1>2 DEF EntriesAreKeys, FileCacheTypeOK, OnDisk
<1>4. RequestIsNew'
  BY <1>2 DEF RequestIsNew
<1>5. CASE itsSize + files[k] < itsMaxSize
  <2>1. /\ entries' = Append(entries, k)
        /\ fileSize' = [fileSize EXCEPT ![k] = files[k]]
        /\ itsSize' = itsSize + files[k]
        /\ loaded' = loaded \cup {k}
        /\ orphans' = orphans \ {k}
    BY <1>5 DEF LoadsFile, LoadedSize
  <2>2. RemoveFirst(entries, k) = entries /\ Entries \ {k} = Entries
    BY <1>3, EntriesFinite, Removed
  <2>3. itsSize \in Nat /\ itsSize = SumFunctionOnSet(fileSize, Entries \ {k}) /\ itsMaxSize \in Nat
    BY <2>2, EntriesFinite
  <2>4. itsSize + files[k] <= itsMaxSize
    BY <2>3, <1>3, <1>5
  <2>5. entries' = Append(RemoveFirst(entries, k), k)
    BY <2>1, <2>2
  <2>6. /\ entries' \in Seq(FileKeys) /\ Distinct(entries') /\ Entries' = Entries \cup {k}
        /\ fileSize' \in [FileKeys -> Nat] /\ itsSize' \in 0 .. SizeModulus - 1 /\ SizeIsSum'
    BY <2>1, <2>3, <2>4, <2>5, <1>3, EntryMade
  <2>7. FileCacheTypeOK'
    BY <1>1, <1>2, <1>3, <2>1, <2>6 DEF FileCacheTypeOK
  <2>8. EntriesAreKeys'
    BY <1>1, <1>2, <2>1, <2>6 DEF EntriesAreKeys
  <2>9. FilesKnown'
    BY <1>1, <1>2, <1>3, <2>1, <2>6 DEF FilesKnown
  <2> QED
    BY <1>4, <2>6, <2>7, <2>8, <2>9 DEF FileCacheInv
<1>6. CASE ~(itsSize + files[k] < itsMaxSize)
  <2>1. orphans' = orphans \cup {k} /\ UNCHANGED <<entries, fileSize, itsSize, loaded>> /\ Entries' = Entries
    BY <1>6 DEF LoadsFile, Entries
  <2>2. FileCacheTypeOK'
    BY <1>1, <1>2, <1>3, <2>1 DEF FileCacheTypeOK
  <2>3. EntriesAreKeys' /\ SizeIsSum'
    BY <1>1, <1>2, <2>1 DEF EntriesAreKeys, SizeIsSum
  <2>4. FilesKnown'
    BY <1>1, <1>2, <1>3, <2>1 DEF FilesKnown
  <2> QED
    BY <1>4, <2>2, <2>3, <2>4 DEF FileCacheInv
<1> QED
  BY <1>5, <1>6

LEMMA CleanedByOthersKeeps ==
  ASSUME FileCacheInv, NEW k \in FileKeys, CleanedByOthers(k)
  PROVE  FileCacheInv'
<1>1. FileCacheTypeOK /\ EntriesAreKeys /\ RequestIsNew /\ SizeIsSum /\ FilesKnown
  BY DEF FileCacheInv
<1>2. /\ files' = [j \in OnDisk \ {k} |-> files[j]]
      /\ torn' = torn \ {k} /\ unread' = unread \ {k}
      /\ undetected' = undetected \ {k} /\ orphans' = orphans \ {k}
      /\ UNCHANGED <<entries, fileSize, itsSize, filePc, request, loaded>>
  BY DEF CleanedByOthers
<1>3. /\ Entries' = Entries /\ OnDisk' = OnDisk \ {k} /\ \A j \in OnDisk' : files'[j] = files[j]
  BY <1>2 DEF Entries, OnDisk
<1>4. FileCacheTypeOK'
  BY <1>1, <1>2, <1>3 DEF FileCacheTypeOK
<1>5. EntriesAreKeys' /\ RequestIsNew' /\ SizeIsSum'
  BY <1>1, <1>2, <1>3 DEF EntriesAreKeys, RequestIsNew, SizeIsSum
<1>6. FilesKnown'
  BY <1>1, <1>2, <1>3 DEF FilesKnown
<1> QED
  BY <1>4, <1>5, <1>6 DEF FileCacheInv

LEMMA FindsFileKeeps ==
  ASSUME FileCacheInv, NEW k \in FileKeys, FindsFile(k)
  PROVE  FileCacheInv'
<1>1. FileCacheTypeOK /\ EntriesAreKeys /\ RequestIsNew /\ SizeIsSum /\ FilesKnown
  BY DEF FileCacheInv
<1>2. /\ filePc = "up" /\ k \in Entries /\ entries' = Append(RemoveFirst(entries, k), k)
      /\ UNCHANGED <<files, torn, fileSize, itsSize, filePc, request, unread, loaded, undetected, orphans>>
  BY DEF FindsFile
<1> DEFINE rest == RemoveFirst(entries, k)
<1>3. rest \in Seq(FileKeys) /\ Distinct(rest) /\ ToSet(rest) = Entries \ {k}
  BY EntriesFinite, Removed
<1>4. k \notin ToSet(rest) /\ ToSet(rest) \cup {k} = Entries
  BY <1>2, <1>3
<1>5. entries' = Append(rest, k)
  BY <1>2
<1> HIDE DEF rest
<1>6. entries' \in Seq(FileKeys) /\ Distinct(entries') /\ ToSet(entries') = Entries
  <2>1. entries' \in Seq(FileKeys) /\ Distinct(entries') /\ ToSet(entries') = ToSet(rest) \cup {k}
    BY <1>3, <1>4, <1>5, Appended
  <2> QED BY <2>1, <1>4
<1>7. Entries' = Entries /\ OnDisk' = OnDisk
  BY <1>2, <1>6 DEF Entries, OnDisk
<1>8. FileCacheTypeOK'
  BY <1>1, <1>2, <1>6, <1>7 DEF FileCacheTypeOK
<1>9. EntriesAreKeys' /\ RequestIsNew' /\ SizeIsSum' /\ FilesKnown'
  BY <1>1, <1>2, <1>6, <1>7 DEF EntriesAreKeys, RequestIsNew, SizeIsSum, FilesKnown
<1> QED
  BY <1>8, <1>9 DEF FileCacheInv

(* An insertion that writes nothing: it is refused, or has to make room first. *)
LEMMA InsertWaitsKeeps ==
  ASSUME FileCacheInv, NEW k \in FileKeys, InsertRefused(k) \/ InsertCleansUp(k)
  PROVE  FileCacheInv'
<1>1. FileCacheTypeOK /\ EntriesAreKeys /\ RequestIsNew /\ SizeIsSum /\ FilesKnown
  BY DEF FileCacheInv
<1>2. /\ filePc = "up" /\ k \notin Entries \cap OnDisk
      /\ entries' = RemoveFirst(entries, k) /\ itsSize' = SizeWithoutLost(k)
      /\ loaded' = loaded \ {k}
      /\ UNCHANGED <<files, torn, fileSize, unread, undetected, orphans>>
      /\ \/ filePc' = filePc /\ request' = request
         \/ filePc' = "cleaning" /\ request' = [key |-> k, space |-> BytesOf[k]]
  BY DEF InsertRefused, InsertCleansUp
<1>3. /\ entries' \in Seq(FileKeys) /\ Distinct(entries') /\ Entries' = Entries \ {k}
      /\ itsSize' \in 0 .. SizeModulus - 1 /\ SizeIsSum' /\ OnDisk' = OnDisk
  BY <1>2, EntryDropped DEF OnDisk
<1>4. FileCacheTypeOK'
  <2>1. filePc' \in {"up", "cleaning"} /\ request' \in [key : FileKeys \cup {NoFileKey}, space : Nat]
    BY <1>1, <1>2, FileCacheAssumption DEF FileCacheTypeOK
  <2> QED
    BY <1>1, <1>2, <1>3, <2>1 DEF FileCacheTypeOK
<1>5. EntriesAreKeys'
  BY <1>1, <1>2, <1>3 DEF EntriesAreKeys
<1>6. RequestIsNew'
  BY <1>1, <1>2, <1>3 DEF RequestIsNew
<1>7. FilesKnown'
  BY <1>1, <1>2, <1>3 DEF FilesKnown, EntriesAreKeys
<1> QED
  BY <1>3, <1>4, <1>5, <1>6, <1>7 DEF FileCacheInv

LEMMA InsertWritesKeeps ==
  ASSUME FileCacheInv, NEW k \in FileKeys, InsertWrites(k)
  PROVE  FileCacheInv'
<1> DEFINE room == SizeWithoutLost(k)
<1>1. /\ filePc = "up" /\ k \notin Entries \cap OnDisk /\ BytesOf[k] <= Minus(itsMaxSize, room)
      /\ Writes(k, room) \/ NotOpened(k, room)
      /\ UNCHANGED <<filePc, request, unread>>
  BY DEF InsertWrites
<1>2. room = SumFunctionOnSet(fileSize, Entries \ {k}) /\ room \in Nat /\ room <= itsSize
  BY SizeOfOthers
<1>3. Minus(itsMaxSize, room) = itsMaxSize - room
  BY <1>2, EntriesFinite, MinusIsExact
<1>4. room + BytesOf[k] <= itsMaxSize
  BY <1>1, <1>2, <1>3, EntriesFinite, FileCacheAssumption
<1>5. request' \in [key : FileKeys \cup {NoFileKey}, space : Nat]
  BY <1>1 DEF FileCacheInv, FileCacheTypeOK
<1> QED
  BY <1>1, <1>2, <1>4, <1>5, WriteKeeps

LEMMA WritesAfterCleanupKeeps ==
  ASSUME FileCacheInv, WritesAfterCleanup
  PROVE  FileCacheInv'
<1>1. /\ filePc = "cleaning" /\ FreeSpace >= request.space /\ request.key # NoFileKey
      /\ Writes(request.key, itsSize) \/ NotOpened(request.key, itsSize)
      /\ filePc' = "up" /\ request' = NoRequest /\ unread' = unread
  BY DEF WritesAfterCleanup
<1>2. PICK k \in FileKeys : k = request.key
  BY <1>1 DEF FileCacheInv, FileCacheTypeOK
<1>3. k \notin Entries /\ request.space = BytesOf[k] /\ BytesOf[k] \in Nat
  BY <1>1, <1>2, FileCacheAssumption DEF FileCacheInv, RequestIsNew
<1>4. Minus(itsMaxSize, itsSize) = itsMaxSize - itsSize
  BY EntriesFinite, MinusIsExact
<1>5. itsSize + BytesOf[k] <= itsMaxSize
  BY <1>1, <1>3, <1>4, EntriesFinite DEF FreeSpace
<1>6. itsSize = SumFunctionOnSet(fileSize, Entries \ {k}) /\ itsSize = SizeWithoutLost(k)
  <2>1. Entries \ {k} = Entries
    BY <1>3
  <2> QED
    BY <2>1, <1>3, EntriesFinite DEF SizeWithoutLost
<1>7. request' \in [key : FileKeys \cup {NoFileKey}, space : Nat]
  BY <1>1 DEF NoRequest
<1>8. itsSize \in Nat /\ (Writes(k, itsSize) \/ NotOpened(k, itsSize))
  BY <1>1, <1>2, EntriesFinite
<1> QED
  BY <1>1, <1>3, <1>5, <1>6, <1>7, <1>8, WriteKeeps

(* clean() is called, a cleanup drops the first entry, and a cleanup ends. *)
LEMMA CleanupKeeps ==
  ASSUME FileCacheInv, EvictsFile \/ CleanupEnds \/ \E space \in CleanSizes : CleanCalled(space)
  PROVE  FileCacheInv'
<1>1. FileCacheTypeOK /\ EntriesAreKeys /\ RequestIsNew /\ SizeIsSum /\ FilesKnown
  BY DEF FileCacheInv
<1>2. CASE CleanupEnds \/ \E space \in CleanSizes : CleanCalled(space)
  <2>1. /\ filePc \in {"up", "cleaning"} /\ filePc' \in {"up", "cleaning"}
        /\ request' \in [key : FileKeys \cup {NoFileKey}, space : Nat]
        /\ request'.key = NoFileKey
        /\ UNCHANGED <<files, torn, entries, fileSize, itsSize, unread, loaded, undetected, orphans>>
    BY <1>2, FileCacheAssumption DEF CleanupEnds, CleanCalled, NoRequest
  <2>2. Entries' = Entries /\ OnDisk' = OnDisk
    BY <2>1 DEF Entries, OnDisk
  <2>3. FileCacheTypeOK'
    BY <1>1, <2>1, <2>2 DEF FileCacheTypeOK
  <2>4. EntriesAreKeys' /\ RequestIsNew' /\ SizeIsSum' /\ FilesKnown'
    BY <1>1, <2>1, <2>2 DEF EntriesAreKeys, RequestIsNew, SizeIsSum, FilesKnown
  <2> QED
    BY <2>3, <2>4 DEF FileCacheInv
<1>3. CASE EvictsFile
  <2> DEFINE k == Head(entries)
  <2>1. /\ filePc = "cleaning" /\ entries # <<>> /\ entries' = Tail(entries)
        /\ itsSize' = Minus(itsSize, fileSize[k]) /\ loaded' = loaded \ {k}
        /\ \/ /\ files' = [j \in OnDisk \ {k} |-> files[j]]
              /\ torn' = torn \ {k} /\ undetected' = undetected \ {k} /\ orphans' = orphans
           \/ orphans' = orphans \cup {k} /\ UNCHANGED <<files, torn, undetected>>
        /\ UNCHANGED <<fileSize, filePc, request, unread>>
    BY <1>3 DEF EvictsFile, DropsFirst
  <2>2. /\ Tail(entries) \in Seq(FileKeys) /\ Distinct(Tail(entries)) /\ k \in FileKeys
        /\ k \in ToSet(entries) /\ ToSet(Tail(entries)) = ToSet(entries) \ {k}
    BY <2>1, EntriesFinite, FirstTaken
  <2> HIDE DEF k
  <2>3. k \in Entries /\ Entries' = Entries \ {k}
    BY <2>1, <2>2 DEF Entries
  <2>4. /\ itsSize' = SumFunctionOnSet(fileSize, Entries \ {k})
        /\ itsSize' \in Nat /\ itsSize' <= itsSize
    BY <2>1, <2>2, <2>3, SizeOfOthers
  <2>5. SizeIsSum' /\ itsSize' \in 0 .. SizeModulus - 1
    <3>1. SizeIsSum'
      BY <2>1, <2>3, <2>4, EntriesFinite DEF SizeIsSum
    <3> QED
      BY <3>1, <2>4, EntriesFinite
  <2>6. /\ OnDisk' \subseteq OnDisk /\ OnDisk \ {k} \subseteq OnDisk' /\ torn' \subseteq OnDisk'
        /\ \A j \in OnDisk' : files'[j] \in Nat
    BY <1>1, <2>1 DEF OnDisk, FileCacheTypeOK
  <2>7. unread = {}
    BY <1>1, <2>1 DEF EntriesAreKeys
  <2>8. FileCacheTypeOK'
    BY <1>1, <2>1, <2>2, <2>5, <2>6, <2>7 DEF FileCacheTypeOK
  <2>9. EntriesAreKeys' /\ RequestIsNew'
    BY <1>1, <2>1, <2>2, <2>3, <2>7 DEF EntriesAreKeys, RequestIsNew
  <2>10. FilesKnown'
    <3>1. OnDisk' \ Entries' \subseteq orphans' \cup unread'
      BY <1>1, <2>1, <2>3 DEF FilesKnown, OnDisk
    <3>2. Entries' \cap torn' \subseteq loaded' \cup undetected'
      BY <1>1, <2>1, <2>3 DEF FilesKnown
    <3> QED
      BY <3>1, <3>2 DEF FilesKnown
  <2> QED
    BY <2>5, <2>8, <2>9, <2>10 DEF FileCacheInv
<1> QED
  BY <1>2, <1>3

(* FileCacheInv is inductive. *)
LEMMA FileCacheStep == FileCacheInv /\ [FileCacheNext]_fileVars => FileCacheInv'
<1> SUFFICES ASSUME FileCacheInv, [FileCacheNext]_fileVars PROVE FileCacheInv'
  OBVIOUS
<1>1. CASE Starts \/ IsLoaded \/ Ends
  BY <1>1, LifeKeeps
<1>2. CASE EvictsFile \/ CleanupEnds \/ \E space \in CleanSizes : CleanCalled(space)
  BY <1>2, CleanupKeeps
<1>3. CASE WritesAfterCleanup
  BY <1>3, WritesAfterCleanupKeeps
<1>4. ASSUME NEW k \in FileKeys, LoadsFile(k) \/ CleanedByOthers(k) \/ FindsFile(k)
      PROVE  FileCacheInv'
  BY <1>4, LoadsFileKeeps, CleanedByOthersKeeps, FindsFileKeeps
<1>5. ASSUME NEW k \in FileKeys, InsertRefused(k) \/ InsertWrites(k) \/ InsertCleansUp(k)
      PROVE  FileCacheInv'
  BY <1>5, InsertWaitsKeeps, InsertWritesKeeps
<1>6. CASE UNCHANGED fileVars
  <2>1. UNCHANGED <<files, torn, entries, fileSize, itsSize, filePc, request, unread, loaded,
                    undetected, orphans>>
    BY <1>6 DEF fileVars, memory
  <2>2. Entries' = Entries /\ OnDisk' = OnDisk
    BY <2>1 DEF Entries, OnDisk
  <2>3. FileCacheTypeOK'
    BY <2>1, <2>2 DEF FileCacheInv, FileCacheTypeOK
  <2>4. EntriesAreKeys' /\ RequestIsNew' /\ SizeIsSum' /\ FilesKnown'
    BY <2>1, <2>2 DEF FileCacheInv, EntriesAreKeys, RequestIsNew, SizeIsSum, FilesKnown
  <2> QED
    BY <2>3, <2>4 DEF FileCacheInv
<1> QED
  BY <1>1, <1>2, <1>3, <1>4, <1>5, <1>6 DEF FileCacheNext

(* The file cache is consistent, for any keys and sizes of values, over lost files, failed
   writes and removals, crashes and restarts: itsSize is the sum of the entries and within
   the maximum, so that no subtraction of Cache.cpp:263 and 447 goes below zero, and the
   entries and the directory agree but where a failure is on record.                      *)
THEOREM FileCacheIsConsistent == FileCacheSpec => []FileCacheConsistent
<1>1. FileCacheInv => FileCacheConsistent
  <2> SUFFICES ASSUME FileCacheInv PROVE FileCacheConsistent
    OBVIOUS
  <2>1. FileCacheAddsUp
    <3>1. entries \in Seq(FileKeys) /\ Distinct(entries) /\ Entries = ToSet(entries)
      BY EntriesFinite
    <3>2. Len(entries) = Cardinality(Entries)
      BY <3>1, ListedSet
    <3> QED
      BY <3>2 DEF FileCacheAddsUp, FileCacheInv, SizeIsSum
  <2>2. FilesMatchEntries
    BY DEF FilesMatchEntries, FileCacheInv, FilesKnown, EntriesAreKeys
  <2> QED
    BY <2>1, <2>2 DEF FileCacheConsistent
<1> QED
  BY <1>1, FileCacheInitially, FileCacheStep, PTL DEF FileCacheSpec
=============================================================================

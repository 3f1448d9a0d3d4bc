---------------------------- MODULE ServiceProofs ----------------------------
(***************************************************************************)
(* What TLAPS proves of the components that serve a program and stand      *)
(* alone: the trees of words and objects, DirectoryMonitor, AsyncTask,     *)
(* PostgreSQLConnection, TemplateFactory and StaticCleanup.                *)
(***************************************************************************)
EXTENDS DirectoryMonitor, AsyncTask, PostgreSQLConnection, TemplateFactory, StaticCleanup,
        Searches, CollectionLemmas

-----------------------------------------------------------------------------
(* NearTree, for every metric. *)

\* Branches hang on full nodes, and each branch begins with a node.
NodesHang ==
  /\ Root \in DOMAIN nearTree /\ IsFiniteSet(DOMAIN nearTree)
  /\ \A a, b \in DOMAIN nearTree, s \in Sides :
       IsBelow(b, a, s) => Append(a, s) \in DOMAIN nearTree /\ Filled(a) = Sides

\* No object is farther away than the reach of a branch that it is in, or comes into.
InReach ==
  \A a, b \in DOMAIN nearTree, s \in Sides :
    IsBelow(b, a, s) =>
      /\ \A t \in Filled(b) :
           Apart(nearTree[b].object[t], nearTree[a].object[s]) <= nearTree[a].reach[s]
      /\ descent # AtRest /\ b = descent.node =>
           Apart(descent.object, nearTree[a].object[s]) <= nearTree[a].reach[s]

\* Every object is somewhere.
Kept(p) == {x \in Slots : Object(x) = p}
NoneLost ==
  \A p \in Points :
    given[p] = buffer[p] + (IF descent.object = p THEN 1 ELSE 0) + Cardinality(Kept(p))

Orderly ==
  /\ descent = AtRest \/ (descent.object \in Points /\ flushing)
  /\ query # NoQuery => descent = AtRest
  /\ query = NoQuery => known = Unknown /\ pending = <<>>

\* What is known is of the search; there is nothing better than it but what is pending.
Sound(q, k) ==
  IF q.kind = "within" THEN k.radius = q.radius /\ k.slots \subseteq Inside(q)
  ELSE \/ k.slots = {} /\ k.radius = q.radius
       \/ \E y \in Inside(q) : k.slots = {y} /\ k.radius = Away(q, y)

AsGood(q, k, x) ==
  CASE q.kind = "within"   -> x \in k.slots
    [] q.kind = "nearest"  -> k.slots # {} /\ k.radius <= Away(q, x)
    [] q.kind = "farthest" -> k.slots # {} /\ k.radius >= Away(q, x)

Awaited(x) == \E i \in DOMAIN pending : IsBelow(x[1], pending[i][1], pending[i][2])

SearchInv ==
  query # NoQuery =>
    /\ Sound(query, known)
    /\ \A x \in Inside(query) : AsGood(query, known, x) \/ Awaited(x)
    /\ query.kind = "nearest" /\ pending # <<>> => known.radius >= 0

NearInv == NearTypeOK /\ NodesHang /\ InReach /\ NoneLost /\ Orderly /\ SearchInv


LEMMA ObjectsAndReaches ==
  ASSUME NearTypeOK
  PROVE  /\ DOMAIN nearTree \subseteq Seq(Sides) /\ descent.node \in DOMAIN nearTree
         /\ \A a \in DOMAIN nearTree :
              /\ nearTree[a] = [object |-> nearTree[a].object, reach |-> nearTree[a].reach]
              /\ nearTree[a].object \in [Sides -> Points \cup {NoObject}]
              /\ nearTree[a].reach \in [Sides -> Nat \cup {-1}]
              /\ Filled(a) \subseteq Sides
              /\ \A s \in Filled(a) : nearTree[a].object[s] \in Points
  BY DEF NearTypeOK, Filled

LEMMA Distances ==
  ASSUME NEW p \in Points, NEW q \in Points
  PROVE  /\ Apart(p, q) \in Nat /\ Apart(p, q) = Apart(q, p)
         /\ \A r \in Points : Apart(p, r) <= Apart(p, q) + Apart(q, r)
  BY MetricAssumption DEF Apart

LEMMA SlotsAreFinite ==
  ASSUME NodesHang, NEW p
  PROVE  /\ IsFiniteSet(Slots) /\ IsFiniteSet(Kept(p)) /\ Cardinality(Kept(p)) \in Nat
<1>1. IsFiniteSet(Sides)
  <2>1. IsFiniteSet({"left"}) /\ Sides = {"left"} \cup {"right"}
    BY FS_Singleton DEF Sides
  <2> QED BY <2>1, FS_AddElement
<1>2. IsFiniteSet((DOMAIN nearTree) \X Sides)
  BY <1>1, FS_Product DEF NodesHang
<1>3. IsFiniteSet(Slots)
  BY <1>2, FS_Subset DEF Slots
<1>4. IsFiniteSet(Kept(p))
  BY <1>3, FS_Subset DEF Kept
<1> QED BY <1>3, <1>4, FS_CardinalityType

Bare ==
  /\ DOMAIN nearTree = {Root} /\ NodesHang /\ Slots = {}
  /\ \A p : Cardinality(Kept(p)) = 0
  /\ DOMAIN nearTree \subseteq Seq(Sides)
  /\ \A a \in DOMAIN nearTree :
       nearTree[a] \in [object : [Sides -> Points \cup {NoObject}], reach : [Sides -> Nat \cup {-1}]]
  /\ \A a, b \in DOMAIN nearTree, s \in Sides : ~IsBelow(b, a, s)

LEMMA NothingInEmptyTree == nearTree = EmptyTree => Bare
<1> SUFFICES ASSUME nearTree = EmptyTree PROVE Bare
  OBVIOUS
<1>1. DOMAIN nearTree = {Root} /\ nearTree[Root] = EmptyNode
  BY DEF EmptyTree
<1>2. Filled(Root) = {}
  BY <1>1 DEF Filled, EmptyNode, Sides
<1>3. Slots = {}
  BY <1>1, <1>2 DEF Slots
<1>4. \A p : Cardinality(Kept(p)) = 0
  <2>1. \A p : Kept(p) = {}
    BY <1>3 DEF Kept
  <2> QED BY <2>1, FS_EmptySet
<1>5. Root \in Seq(Sides) /\ IsFiniteSet({Root})
  BY FS_Singleton DEF Root
<1>6. \A s \in Sides : ~IsBelow(Root, Root, s)
  BY <1>5, BelowABranch
<1>7. NodesHang
  BY <1>1, <1>5, <1>6 DEF NodesHang
<1>8. EmptyNode \in [object : [Sides -> Points \cup {NoObject}], reach : [Sides -> Nat \cup {-1}]]
  BY DEF EmptyNode
<1> QED BY <1>1, <1>2, <1>3, <1>4, <1>5, <1>6, <1>7, <1>8 DEF Bare

LEMMA NearInitInv == NearInit => NearInv
<1> SUFFICES ASSUME NearInit PROVE NearInv
  OBVIOUS
<1> USE DEF NearInit
<1>1. NearTypeOK
  <2>1. NoQuery \in Searches \cup {NoQuery} /\ Unknown \in [slots : SUBSET Slots, radius : Int]
    BY DEF Unknown
  <2>2. AtRest \in [object : Points \cup {NoObject}, node : DOMAIN nearTree]
    BY NothingInEmptyTree DEF Bare, AtRest
  <2>3. NoneOf \in [Points -> Nat]
    BY DEF NoneOf
  <2> QED BY NothingInEmptyTree, <2>1, <2>2, <2>3, EmptySeq DEF Bare, NearTypeOK
<1>2. NodesHang /\ InReach
  BY NothingInEmptyTree DEF Bare, InReach
<1>3. NoneLost
  <2>1. \A p \in Points : descent.object # p
    BY MetricAssumption DEF AtRest
  <2> QED BY NothingInEmptyTree, <2>1 DEF Bare, NoneLost, NoneOf
<1>4. Orderly /\ SearchInv
  BY DEF Orderly, SearchInv
<1> QED BY <1>1, <1>2, <1>3, <1>4 DEF NearInv

LEMMA NearInsert ==
  ASSUME NearInv, NEW p \in Points, InsertObject(p)
  PROVE  NearInv'
<1> USE DEF InsertObject, queryVars
<1>1. NearTypeOK'
  BY DEF NearInv, NearTypeOK, Slots, Filled
<1>2. NodesHang' /\ InReach'
  BY DEF NearInv, NodesHang, InReach, Filled
<1>3. NoneLost'
  <2>1. \A q \in Points : Kept(q)' = Kept(q)
    BY DEF Kept, Slots, Object, Filled
  <2>2. ASSUME NEW q \in Points
        PROVE  given'[q] - given[q] = buffer'[q] - buffer[q] /\ given[q] \in Nat /\ buffer[q] \in Nat
               /\ given'[q] \in Nat /\ buffer'[q] \in Nat
    BY DEF NearInv, NearTypeOK
  <2>3. \A q \in Points : Cardinality(Kept(q)) \in Nat
    BY SlotsAreFinite DEF NearInv
  <2> QED BY <2>1, <2>2, <2>3 DEF NearInv, NoneLost
<1>4. Orderly' /\ SearchInv'
  BY DEF NearInv, Orderly, SearchInv
<1> QED BY <1>1, <1>2, <1>3, <1>4 DEF NearInv

LEMMA NearFlushes ==
  ASSUME NearInv, NEW p \in Points, Flushes(p)
  PROVE  NearInv'
<1> USE DEF Flushes, queryVars
<1>0. NearTypeOK /\ NodesHang
  BY DEF NearInv
<1>1. p # NoObject /\ descent' = [object |-> p, node |-> Root] /\ descent' # AtRest
  BY MetricAssumption DEF AtRest
<1>2. NearTypeOK'
  <2>1. nearTree' = nearTree /\ Slots' = Slots
    BY DEF Slots, Filled
  <2>2. buffer' \in [Points -> Nat] /\ flushing' \in BOOLEAN
    BY <1>0 DEF NearTypeOK
  <2>3. descent' \in [object : Points \cup {NoObject}, node : DOMAIN nearTree']
    BY <1>0, <1>1, <2>1 DEF NodesHang
  <2>4. given' = given /\ query' = query /\ known' = known /\ pending' = pending
    OBVIOUS
  <2> QED BY <1>0, <2>1, <2>2, <2>3, <2>4 DEF NearTypeOK
<1>3. NodesHang'
  BY <1>0 DEF NodesHang, Filled
<1>4. InReach'
  <2>1. \A a \in DOMAIN nearTree, s \in Sides : ~IsBelow(Root, a, s)
    BY <1>0, ObjectsAndReaches, EmptySeq DEF IsBelow, Root
  <2> QED BY <1>0, <1>1, <2>1 DEF NearInv, InReach, Filled
<1>5. NoneLost'
  <2>1. \A q \in Points : Kept(q)' = Kept(q)
    BY DEF Kept, Slots, Object, Filled
  <2>2. ASSUME NEW q \in Points
        PROVE  /\ given' = given /\ given[q] \in Nat /\ buffer[q] \in Nat
               /\ buffer'[q] = IF q = p THEN buffer[q] - 1 ELSE buffer[q]
               /\ descent.object # q /\ descent'.object = p
    BY <1>0, <1>1, MetricAssumption DEF NearTypeOK, AtRest
  <2>3. \A q \in Points : Cardinality(Kept(q)) \in Nat
    BY <1>0, SlotsAreFinite
  <2> QED BY <2>1, <2>2, <2>3 DEF NearInv, NoneLost
<1>6. Orderly' /\ SearchInv'
  BY <1>1 DEF NearInv, Orderly, SearchInv
<1> QED BY <1>2, <1>3, <1>4, <1>5, <1>6 DEF NearInv

LEMMA NearClear ==
  ASSUME NearInv, Clear
  PROVE  NearInv'
<1> USE DEF Clear, queryVars
<1>0. NearTypeOK /\ query = NoQuery /\ query' = NoQuery /\ known' = known /\ pending' = pending
  BY DEF NearInv
<1>1. descent = AtRest /\ descent' = AtRest /\ nearTree' = EmptyTree
  BY DEF NearInv, Orderly
<1>2. Bare'
  <2>1. (nearTree = EmptyTree)' => Bare'
    BY NothingInEmptyTree, PTL
  <2> QED BY <1>1, <2>1
<1>3. NearTypeOK'
  <2>1. known' = Unknown /\ pending' = <<>>
    BY <1>0 DEF NearInv, Orderly
  <2>2. AtRest \in [object : Points \cup {NoObject}, node : (DOMAIN nearTree)']
    BY <1>2 DEF Bare, AtRest
  <2>3. Unknown \in [slots : SUBSET Slots', radius : Int] /\ NoneOf \in [Points -> Nat]
    BY DEF Unknown, NoneOf
  <2> QED BY <1>0, <1>1, <1>2, <2>1, <2>2, <2>3, EmptySeq DEF Bare, NearTypeOK
<1>4. NoneLost'
  <2>1. \A p \in Points : descent'.object # p
    BY <1>1, MetricAssumption DEF AtRest
  <2>2. \A p \in Points : buffer'[p] = 0 /\ given'[p] = 0
    BY DEF NoneOf
  <2> QED BY <1>2, <2>1, <2>2 DEF Bare, NoneLost
<1>5. InReach' /\ Orderly' /\ SearchInv'
  BY <1>0, <1>1, <1>2 DEF NearInv, Bare, InReach, Orderly, SearchInv
<1> QED BY <1>2, <1>3, <1>4, <1>5 DEF NearInv, Bare

LEMMA ObjectIsPut ==
  ASSUME NEW f, NEW a \in DOMAIN f, NEW O, NEW R, f[a] = [object |-> O, reach |-> R],
         NEW s, NEW v, NEW g, g = [f EXCEPT ![a].object[s] = v]
  PROVE  /\ DOMAIN g = DOMAIN f /\ g[a] = [object |-> [O EXCEPT ![s] = v], reach |-> R]
         /\ \A b \in DOMAIN f : b # a => g[b] = f[b]
  OBVIOUS

LEMMA ReachIsPut ==
  ASSUME NEW r, NEW O, NEW R, r = [object |-> O, reach |-> R], NEW s, NEW v
  PROVE  [r EXCEPT !.reach[s] = v] = [object |-> O, reach |-> [R EXCEPT ![s] = v]]
  OBVIOUS

LEMMA NearSettles ==
  ASSUME NearInv, Settles,
         NEW a, a = descent.node, NEW p, p = descent.object,
         NEW s, s = IF "left" \notin Filled(a) THEN "left" ELSE "right"
  PROVE  NearInv'
<1>0. NearTypeOK /\ NodesHang /\ InReach /\ NoneLost /\ Orderly
  BY DEF NearInv
<1>1. /\ descent # AtRest /\ Filled(a) # Sides /\ nearTree' = [nearTree EXCEPT ![a].object[s] = p]
      /\ descent' = AtRest /\ flushing' = (buffer # NoneOf)
      /\ UNCHANGED <<buffer, given, query, known, pending>>
  BY DEF Settles, queryVars
<1>2. a \in DOMAIN nearTree /\ s \in Sides /\ s \notin Filled(a) /\ p \in Points
  BY <1>0, <1>1, ObjectsAndReaches DEF Orderly, Sides
<1>3. p # NoObject /\ query = NoQuery /\ query' = NoQuery
  BY <1>0, <1>1, <1>2, MetricAssumption DEF Orderly
<1>4. /\ DOMAIN nearTree' = DOMAIN nearTree
      /\ nearTree'[a] = [object |-> [nearTree[a].object EXCEPT ![s] = p], reach |-> nearTree[a].reach]
      /\ \A b \in DOMAIN nearTree : b # a => nearTree'[b] = nearTree[b]
  <2>1. nearTree[a] = [object |-> nearTree[a].object, reach |-> nearTree[a].reach]
    BY <1>0, <1>2, ObjectsAndReaches
  <2> QED BY <1>1, <1>2, <2>1, ObjectIsPut
<1>5. /\ nearTree'[a].object[s] = p
      /\ \A b \in DOMAIN nearTree :
           /\ nearTree'[b].reach = nearTree[b].reach
           /\ \A t \in Sides : b # a \/ t # s => nearTree'[b].object[t] = nearTree[b].object[t]
  BY <1>0, <1>2, <1>4, ObjectsAndReaches
<1>6. /\ Filled(a)' = Filled(a) \cup {s}
      /\ \A b \in DOMAIN nearTree : b # a => Filled(b)' = Filled(b)
  <2>1. \A b \in DOMAIN nearTree, t \in Sides : t \in Filled(b)' <=> t \in Filled(b) \/ (b = a /\ t = s)
    BY <1>2, <1>3, <1>5 DEF Filled
  <2>2. \A b : Filled(b) \subseteq Sides /\ Filled(b)' \subseteq Sides
    BY DEF Filled
  <2> QED BY <1>2, <2>1, <2>2
<1>7. /\ Slots' = Slots \cup {<<a, s>>} /\ <<a, s>> \notin Slots
      /\ Object(<<a, s>>)' = p /\ \A x \in Slots : Object(x)' = Object(x)
  <2>1. \A b \in DOMAIN nearTree, t \in Sides : t \in Filled(b)' <=> t \in Filled(b) \/ <<b, t>> = <<a, s>>
    BY <1>2, <1>6
  <2>2. Slots' = Slots \cup {<<a, s>>} /\ <<a, s>> \notin Slots
    <3>1. \A x \in (DOMAIN nearTree) \X Sides :
            x[2] \in Filled(x[1])' <=> x[2] \in Filled(x[1]) \/ x = <<a, s>>
      BY <2>1
    <3>2. <<a, s>> \in (DOMAIN nearTree) \X Sides /\ <<a, s>> \notin Slots
      BY <1>2 DEF Slots
    <3> QED BY <1>4, <3>1, <3>2 DEF Slots
  <2>3. ASSUME NEW x \in Slots
        PROVE  nearTree'[x[1]].object[x[2]] = nearTree[x[1]].object[x[2]]
    <3>1. x \in (DOMAIN nearTree) \X Sides /\ x # <<a, s>>
      BY <2>2 DEF Slots
    <3>2. x = <<x[1], x[2]>> /\ x[1] \in DOMAIN nearTree /\ x[2] \in Sides
      BY <3>1
    <3>3. x[1] # a \/ x[2] # s
      BY <3>1, <3>2
    <3> QED BY <1>5, <3>2, <3>3
  <2> QED BY <1>5, <2>2, <2>3 DEF Object
<1>8. NearTypeOK'
  <2>1. \A b \in DOMAIN nearTree :
          nearTree'[b] \in [object : [Sides -> Points \cup {NoObject}], reach : [Sides -> Nat \cup {-1}]]
    <3>1. nearTree'[a] \in [object : [Sides -> Points \cup {NoObject}], reach : [Sides -> Nat \cup {-1}]]
      <4>1. /\ [nearTree[a].object EXCEPT ![s] = p] \in [Sides -> Points \cup {NoObject}]
            /\ nearTree[a].reach \in [Sides -> Nat \cup {-1}]
        BY <1>0, <1>2, ObjectsAndReaches
      <4> QED BY <1>4, <4>1
    <3> QED BY <1>0, <1>4, <3>1 DEF NearTypeOK
  <2>2. AtRest \in [object : Points \cup {NoObject}, node : DOMAIN nearTree]
    BY <1>0 DEF AtRest, NodesHang
  <2>3. known \in [slots : SUBSET Slots', radius : Int]
    BY <1>0, <1>7 DEF NearTypeOK
  <2> QED BY <1>0, <1>1, <1>4, <2>1, <2>2, <2>3 DEF NearTypeOK
<1>9. NodesHang'
  <2>1. \A b \in DOMAIN nearTree : Filled(b) = Sides => Filled(b)' = Sides
    BY <1>2, <1>6
  <2> QED BY <1>0, <1>4, <2>1 DEF NodesHang
<1>10. InReach'
  <2> SUFFICES ASSUME NEW c \in DOMAIN nearTree, NEW b \in DOMAIN nearTree, NEW t \in Sides,
                      IsBelow(b, c, t), NEW u \in Filled(b)'
               PROVE  Apart(nearTree'[b].object[u], nearTree'[c].object[t]) <= nearTree'[c].reach[t]
    BY <1>1, <1>4 DEF InReach
  <2>1. c # a /\ nearTree'[c] = nearTree[c]
    BY <1>0, <1>1, <1>4 DEF NodesHang
  <2>2. CASE u \in Filled(b)
    <3>1. nearTree'[b].object[u] = nearTree[b].object[u]
      BY <1>0, <1>2, <1>5, <2>2, ObjectsAndReaches
    <3> QED BY <1>0, <2>1, <2>2, <3>1 DEF InReach
  <2>3. CASE b = a /\ u = s
    <3>1. Apart(p, nearTree[c].object[t]) <= nearTree[c].reach[t]
      BY <1>0, <1>1, <2>3 DEF InReach
    <3>2. nearTree'[b].object[u] = p
      BY <1>5, <2>3
    <3> QED BY <2>1, <3>1, <3>2
  <2> QED BY <1>6, <2>2, <2>3
<1>11. NoneLost'
  <2> SUFFICES ASSUME NEW q \in Points
               PROVE  given'[q] = buffer'[q] + (IF descent'.object = q THEN 1 ELSE 0) + Cardinality(Kept(q)')
    BY DEF NoneLost
  <2>1. given[q] = buffer[q] + (IF p = q THEN 1 ELSE 0) + Cardinality(Kept(q))
    BY <1>0 DEF NoneLost
  <2>2. given' = given /\ buffer' = buffer /\ given[q] \in Nat /\ buffer[q] \in Nat /\ descent'.object # q
    BY <1>0, <1>1, MetricAssumption DEF NearTypeOK, AtRest
  <2>3. Cardinality(Kept(q)') = Cardinality(Kept(q)) + (IF p = q THEN 1 ELSE 0)
    <3>1. IsFiniteSet(Kept(q)) /\ Cardinality(Kept(q)) \in Nat
      BY <1>0, SlotsAreFinite
    <3>2. CASE p = q
      <4>1. Kept(q)' = Kept(q) \cup {<<a, s>>} /\ <<a, s>> \notin Kept(q)
        BY <1>7, <3>2 DEF Kept, Object
      <4>2. Cardinality(Kept(q)') = Cardinality(Kept(q)) + 1
        BY <3>1, <4>1, FS_AddElement
      <4> QED BY <3>2, <4>2
    <3>3. CASE p # q
      <4>1. Kept(q)' = Kept(q)
        BY <1>7, <3>3 DEF Kept, Object
      <4> QED BY <3>1, <3>3, <4>1
    <3> QED BY <3>2, <3>3
  <2> QED BY <2>1, <2>2, <2>3, <1>0, SlotsAreFinite
<1>12. Orderly' /\ SearchInv'
  BY <1>0, <1>1, <1>3 DEF Orderly, SearchInv
<1> QED BY <1>8, <1>9, <1>10, <1>11, <1>12 DEF NearInv

LEMMA NearDescends ==
  ASSUME NearInv, Descends,
         NEW a, a = descent.node, NEW p, p = descent.object,
         NEW s, s = NearerSide(p, nearTree[a].object), NEW branch, branch = Append(a, s),
         NEW far, far = Apart(p, nearTree[a].object[s])
  PROVE  NearInv'
<1>0. NearTypeOK /\ NodesHang /\ InReach /\ NoneLost /\ Orderly
  BY DEF NearInv
<1>1. /\ descent # AtRest /\ Filled(a) = Sides
      /\ nearTree' = [b \in DOMAIN nearTree \cup {branch} |->
                        IF b = a THEN [nearTree[a] EXCEPT !.reach[s] = Reach(nearTree[a].reach[s], far)]
                        ELSE IF b \in DOMAIN nearTree THEN nearTree[b] ELSE EmptyNode]
      /\ descent' = [object |-> p, node |-> branch]
      /\ UNCHANGED <<buffer, flushing, given, query, known, pending>>
  BY DEF Descends, queryVars
<1>2. /\ a \in DOMAIN nearTree /\ a \in Seq(Sides) /\ s \in Sides /\ p \in Points
      /\ branch \in Seq(Sides) /\ branch # a
  <2>1. a \in DOMAIN nearTree /\ a \in Seq(Sides) /\ s \in Sides /\ p \in Points
    BY <1>0, <1>1, ObjectsAndReaches DEF Orderly, Sides, NearerSide
  <2>2. branch \in Seq(Sides) /\ Len(branch) = Len(a) + 1
    BY <2>1
  <2> QED BY <2>1, <2>2
<1>3. p # NoObject /\ query = NoQuery /\ query' = NoQuery /\ flushing
  BY <1>0, <1>1, <1>2, MetricAssumption DEF Orderly
<1>4. far \in Nat /\ nearTree[a].reach[s] \in Nat \cup {-1}
  BY <1>0, <1>1, <1>2, ObjectsAndReaches, Distances
<1>5. \A b \in DOMAIN nearTree : (~IsBelow(b, branch, "left") /\ ~IsBelow(b, branch, "right")) \/ branch \in DOMAIN nearTree
  BY <1>0, <1>2, BelowABranch, ObjectsAndReaches DEF NodesHang, Sides
<1>6. /\ DOMAIN nearTree' = DOMAIN nearTree \cup {branch}
      /\ nearTree'[a] = [object |-> nearTree[a].object,
                         reach |-> [nearTree[a].reach EXCEPT ![s] = Reach(nearTree[a].reach[s], far)]]
      /\ \A b \in DOMAIN nearTree : b # a => nearTree'[b] = nearTree[b]
      /\ branch \notin DOMAIN nearTree => nearTree'[branch] = EmptyNode
  <2>1. [nearTree[a] EXCEPT !.reach[s] = Reach(nearTree[a].reach[s], far)]
          = [object |-> nearTree[a].object,
             reach |-> [nearTree[a].reach EXCEPT ![s] = Reach(nearTree[a].reach[s], far)]]
    <3>1. nearTree[a] = [object |-> nearTree[a].object, reach |-> nearTree[a].reach]
      BY <1>0, <1>2, ObjectsAndReaches
    <3> QED BY <3>1, ReachIsPut
  <2> QED BY <1>1, <1>2, <2>1
<1>7. \A b \in DOMAIN nearTree :
        /\ nearTree'[b].object = nearTree[b].object /\ Filled(b)' = Filled(b)
        /\ \A t \in Sides : nearTree'[b].reach[t] \in Nat \cup {-1} /\ nearTree[b].reach[t] <= nearTree'[b].reach[t]
  <2>1. \A b \in DOMAIN nearTree : nearTree'[b].object = nearTree[b].object
    BY <1>6
  <2>2. ASSUME NEW b \in DOMAIN nearTree, NEW t \in Sides
        PROVE  nearTree'[b].reach[t] \in Nat \cup {-1} /\ nearTree[b].reach[t] <= nearTree'[b].reach[t]
    <3>1. nearTree[b].reach[t] \in Nat \cup {-1} /\ nearTree[b].reach \in [Sides -> Nat \cup {-1}]
      BY <1>0, ObjectsAndReaches
    <3>2. CASE b = a
      BY <1>2, <1>4, <1>6, <3>1, <3>2 DEF Reach
    <3>3. CASE b # a
      BY <1>6, <3>1, <3>3
    <3> QED BY <3>2, <3>3
  <2> QED BY <2>1, <2>2 DEF Filled
<1>8. far <= nearTree'[a].reach[s]
  BY <1>0, <1>2, <1>4, <1>6, ObjectsAndReaches DEF Reach
<1>9. branch \notin DOMAIN nearTree => Filled(branch)' = {}
  BY <1>6 DEF Filled, EmptyNode
<1>10. Slots' = Slots /\ \A x \in Slots : Object(x)' = Object(x)
  <2>1. Slots' = Slots
    <3>1. \A x \in Slots' : x \in Slots
      <4> SUFFICES ASSUME NEW x \in Slots' PROVE x \in Slots
        OBVIOUS
      <4>1. x \in (DOMAIN nearTree') \X Sides /\ x[1] \in DOMAIN nearTree' /\ x[2] \in Filled(x[1])'
        BY DEF Slots
      <4>2. x[1] \in DOMAIN nearTree
        BY <1>6, <1>9, <4>1
      <4>3. x[2] \in Filled(x[1])
        BY <1>7, <4>1, <4>2
      <4> QED BY <4>1, <4>2, <4>3 DEF Slots
    <3>2. \A x \in Slots : x \in Slots'
      <4> SUFFICES ASSUME NEW x \in Slots PROVE x \in Slots'
        OBVIOUS
      <4>1. x \in (DOMAIN nearTree) \X Sides /\ x[1] \in DOMAIN nearTree /\ x[2] \in Filled(x[1])
        BY DEF Slots
      <4>2. x[1] \in DOMAIN nearTree'
        BY <1>6, <4>1
      <4>3. x[2] \in Filled(x[1])'
        BY <1>7, <4>1
      <4> QED BY <4>1, <4>2, <4>3 DEF Slots
    <3> QED BY <3>1, <3>2
  <2>2. ASSUME NEW x \in Slots
        PROVE  nearTree'[x[1]].object = nearTree[x[1]].object
    <3>1. x \in (DOMAIN nearTree) \X Sides
      BY DEF Slots
    <3> QED BY <1>7, <3>1
  <2> QED BY <2>1, <2>2 DEF Object
<1>11. NearTypeOK'
  <2>1. ASSUME NEW b \in DOMAIN nearTree'
        PROVE  nearTree'[b] \in [object : [Sides -> Points \cup {NoObject}], reach : [Sides -> Nat \cup {-1}]]
    <3>1. CASE b = a
      <4>1. Reach(nearTree[a].reach[s], far) \in Nat \cup {-1}
        BY <1>4 DEF Reach
      <4>2. /\ nearTree[a].object \in [Sides -> Points \cup {NoObject}]
            /\ [nearTree[a].reach EXCEPT ![s] = Reach(nearTree[a].reach[s], far)] \in [Sides -> Nat \cup {-1}]
        BY <1>0, <1>2, <4>1, ObjectsAndReaches
      <4> QED BY <1>6, <3>1, <4>2
    <3>2. CASE b # a /\ b \in DOMAIN nearTree
      BY <1>0, <1>6, <3>2 DEF NearTypeOK
    <3>3. CASE b \notin DOMAIN nearTree
      <4>1. EmptyNode \in [object : [Sides -> Points \cup {NoObject}], reach : [Sides -> Nat \cup {-1}]]
        BY DEF EmptyNode
      <4>2. nearTree'[b] = EmptyNode
        BY <1>6, <3>3
      <4> QED BY <4>1, <4>2
    <3> QED BY <3>1, <3>2, <3>3
  <2>2. DOMAIN nearTree' \subseteq Seq(Sides)
    BY <1>0, <1>2, <1>6 DEF NearTypeOK
  <2>3. descent' \in [object : Points \cup {NoObject}, node : (DOMAIN nearTree)']
    BY <1>1, <1>2, <1>6
  <2>4. pending' \in Seq((DOMAIN nearTree)' \X Sides)
    BY <1>0, <1>1, <1>3, EmptySeq DEF Orderly
  <2> QED BY <1>0, <1>1, <1>10, <2>1, <2>2, <2>3, <2>4 DEF NearTypeOK
<1>12. ASSUME NEW c \in DOMAIN nearTree', NEW b \in DOMAIN nearTree', NEW t \in Sides, IsBelow(b, c, t)
       PROVE  /\ c \in DOMAIN nearTree
              /\ b \in DOMAIN nearTree \/ b = branch
              /\ b = branch => (c = a /\ t = s) \/ IsBelow(a, c, t)
  <2>1. c \in Seq(Sides) /\ b \in Seq(Sides)
    BY <1>0, <1>2, <1>6, ObjectsAndReaches
  <2>2. b # c
    <3>1. ~IsBelow(c, c, t)
      BY <2>1, BelowABranch
    <3> QED BY <1>12, <3>1
  <2>3. c \in DOMAIN nearTree
    BY <1>5, <1>6, <1>12, <2>2 DEF Sides
  <2>4. b = branch => (c = a /\ t = s) \/ IsBelow(a, c, t)
    BY <1>2, <1>12, <2>1, BranchIsBelow
  <2> QED BY <1>6, <2>3, <2>4
<1>13. NodesHang'
  <2>1. Root \in DOMAIN nearTree' /\ IsFiniteSet(DOMAIN nearTree')
    <3>1. IsFiniteSet(DOMAIN nearTree) /\ Root \in DOMAIN nearTree
      BY <1>0 DEF NodesHang
    <3>2. IsFiniteSet(DOMAIN nearTree \cup {branch})
      BY <3>1, FS_AddElement
    <3> QED BY <1>6, <3>1, <3>2
  <2>2. ASSUME NEW c \in DOMAIN nearTree', NEW b \in DOMAIN nearTree', NEW t \in Sides, IsBelow(b, c, t)
        PROVE  Append(c, t) \in DOMAIN nearTree' /\ Filled(c)' = Sides
    <3>1. c \in DOMAIN nearTree /\ Filled(c)' = Filled(c)
      BY <1>7, <1>12, <2>2
    <3>2. CASE b \in DOMAIN nearTree
      BY <1>0, <1>6, <2>2, <3>1, <3>2 DEF NodesHang
    <3>3. CASE b = branch /\ c = a /\ t = s
      BY <1>1, <1>6, <3>1, <3>3
    <3>4. CASE b = branch /\ IsBelow(a, c, t)
      BY <1>0, <1>2, <1>6, <3>1, <3>4 DEF NodesHang
    <3> QED BY <1>12, <2>2, <3>2, <3>3, <3>4
  <2> QED BY <2>1, <2>2 DEF NodesHang
<1>14. InReach'
  <2> SUFFICES ASSUME NEW c \in DOMAIN nearTree', NEW b \in DOMAIN nearTree', NEW t \in Sides, IsBelow(b, c, t)
               PROVE  /\ \A u \in Filled(b)' :
                           Apart(nearTree'[b].object[u], nearTree'[c].object[t]) <= nearTree'[c].reach[t]
                      /\ b = branch => Apart(p, nearTree'[c].object[t]) <= nearTree'[c].reach[t]
    <3>1. descent'.object = p /\ descent'.node = branch
      BY <1>1
    <3> QED BY <3>1 DEF InReach
  <2>1. /\ c \in DOMAIN nearTree /\ nearTree'[c].object = nearTree[c].object
        /\ nearTree'[c].reach[t] \in Int /\ nearTree[c].reach[t] \in Int
        /\ nearTree[c].reach[t] <= nearTree'[c].reach[t]
    BY <1>0, <1>7, <1>12, ObjectsAndReaches
  <2>2. \A u \in Filled(b)' : b \in DOMAIN nearTree /\ u \in Filled(b) /\ nearTree'[b].object = nearTree[b].object
    BY <1>6, <1>7, <1>9
  <2>3. ASSUME NEW u \in Filled(b)'
        PROVE  Apart(nearTree'[b].object[u], nearTree'[c].object[t]) <= nearTree'[c].reach[t]
    <3>1. /\ Apart(nearTree[b].object[u], nearTree[c].object[t]) <= nearTree[c].reach[t]
          /\ Apart(nearTree[b].object[u], nearTree[c].object[t]) \in Nat
      <4>1. nearTree[b].object[u] \in Points /\ t \in Filled(c) /\ nearTree[c].object[t] \in Points
        BY <1>0, <2>1, <2>2, ObjectsAndReaches DEF NodesHang
      <4> QED BY <1>0, <2>1, <2>2, <4>1, Distances DEF InReach
    <3> QED BY <2>1, <2>2, <3>1
  <2>4. b = branch => Apart(p, nearTree'[c].object[t]) <= nearTree'[c].reach[t]
    <3>1. CASE c = a /\ t = s
      BY <1>8, <2>1, <3>1
    <3>2. CASE IsBelow(a, c, t)
      <4>1. Apart(p, nearTree[c].object[t]) <= nearTree[c].reach[t]
        BY <1>0, <1>1, <1>2, <2>1, <3>2 DEF InReach
      <4>2. Apart(p, nearTree[c].object[t]) \in Nat
        <5>1. nearTree[c].object[t] \in Points
          BY <1>0, <1>2, <2>1, <3>2, ObjectsAndReaches DEF NodesHang
        <5> QED BY <1>2, <5>1, Distances
      <4> QED BY <2>1, <4>1, <4>2
    <3> QED BY <1>12, <3>1, <3>2
  <2> QED BY <2>3, <2>4
<1>15. NoneLost'
  <2>1. \A q : Kept(q)' = Kept(q)
    BY <1>10 DEF Kept
  <2> QED BY <1>0, <1>1, <2>1 DEF NoneLost
<1>16. Orderly' /\ SearchInv'
  BY <1>0, <1>1, <1>2, <1>3 DEF Orderly, SearchInv
<1> QED BY <1>11, <1>13, <1>14, <1>15, <1>16 DEF NearInv

LEMMA QueryType ==
  ASSUME NEW q \in Searches
  PROVE  /\ q.kind \in {"nearest", "farthest", "within"} /\ q.point \in Points /\ q.radius \in Int
         /\ q.kind = "farthest" => q.radius = -1
         /\ q # NoQuery
<1>1. Radii \subseteq Int
  BY MetricAssumption
<1>2. /\ q.kind \in {"nearest", "farthest", "within"} /\ q.point \in Points /\ q.radius \in Int
      /\ q.kind = "farthest" => q.radius = -1
  <2>1. CASE q \in [kind : {"nearest", "within"}, point : Points, radius : Radii]
    BY <1>1, <2>1
  <2>2. CASE q \in [kind : {"farthest"}, point : Points, radius : {-1}]
    BY <2>2
  <2> QED BY <2>1, <2>2 DEF Searches
<1>3. q # NoQuery
  BY <1>2 DEF NoQuery
<1> QED BY <1>2, <1>3

Findings == [slots : SUBSET Slots, radius : Int]

LEMMA SlotsAreAway ==
  ASSUME NearTypeOK, NEW q \in Searches, NEW x \in Slots
  PROVE  /\ x[1] \in DOMAIN nearTree /\ x[2] \in Filled(x[1]) /\ x = <<x[1], x[2]>>
         /\ Object(x) \in Points /\ Away(q, x) \in Nat
<1>1. x \in (DOMAIN nearTree) \X Sides /\ x[2] \in Filled(x[1])
  BY DEF Slots
<1>2. x[1] \in DOMAIN nearTree /\ x = <<x[1], x[2]>>
  BY <1>1
<1>3. Object(x) \in Points
  BY <1>1, <1>2, ObjectsAndReaches DEF Object
<1>4. Away(q, x) \in Nat
  BY <1>3, QueryType, Distances DEF Away
<1> QED BY <1>1, <1>2, <1>3, <1>4

\* An object is looked at.
LEMMA Weighing ==
  ASSUME NearTypeOK, NEW q \in Searches, NEW k \in Findings, Sound(q, k),
         NEW a \in DOMAIN nearTree, NEW s \in Sides, NEW m, m = Weighed(q, k, a, s)
  PROVE  /\ m \in Findings /\ Sound(q, m)
         /\ \A x \in Slots : AsGood(q, k, x) => AsGood(q, m, x)
         /\ <<a, s>> \in Inside(q) => AsGood(q, m, <<a, s>>)
         /\ q.kind = "nearest" /\ m.radius < 0 => s \notin Filled(a) /\ k.radius < 0
<1> DEFINE x == <<a, s>>
           d == Away(q, x)
<1>1. /\ q.kind \in {"nearest", "farthest", "within"} /\ q.radius \in Int
      /\ q.kind = "farthest" => q.radius = -1
      /\ k.slots \subseteq Slots /\ k.radius \in Int
  BY QueryType DEF Findings
<1>2. \A y \in Slots : Away(q, y) \in Nat
  BY SlotsAreAway
<1>3. Inside(q) \subseteq Slots /\ \A y \in Inside(q) : (q.kind # "within" /\ q.radius < 0) \/ Away(q, y) <= q.radius
  BY DEF Inside
<1>4. CASE s \notin Filled(a)
  <2>1. m = k /\ x \notin Slots
    BY <1>4 DEF Weighed, Slots
  <2> QED BY <1>3, <1>4, <2>1
<1>5. CASE s \in Filled(a)
  <2>1. x \in Slots /\ d \in Nat
    <3>1. x \in (DOMAIN nearTree) \X Sides /\ x[1] = a /\ x[2] = s
      OBVIOUS
    <3>2. x \in Slots
      BY <1>5, <3>1 DEF Slots
    <3> QED BY <1>2, <3>2
  <2>2. m = IF ~Takes(q.kind, d, k.radius) THEN k
            ELSE IF q.kind = "within" THEN [k EXCEPT !.slots = @ \cup {x}]
            ELSE [slots |-> {x}, radius |-> d]
    BY <1>5 DEF Weighed
  <2>3. x \in Inside(q) <=> (q.kind # "within" /\ q.radius < 0) \/ d <= q.radius
    BY <2>1 DEF Inside
  <2> HIDE DEF x, d
  <2>4. CASE q.kind = "within"
    <3>1. k.radius = q.radius /\ k.slots \subseteq Inside(q)
      BY <2>4 DEF Sound
    <3>2. CASE d <= k.radius
      <4>1. m = [k EXCEPT !.slots = @ \cup {x}]
        BY <2>2, <2>4, <3>2 DEF Takes
      <4>2. m.slots = k.slots \cup {x} /\ m.radius = k.radius /\ m \in Findings
        BY <2>1, <4>1 DEF Findings
      <4> QED BY <2>3, <2>4, <3>1, <3>2, <4>2 DEF Sound, AsGood, x
    <3>3. CASE ~(d <= k.radius)
      <4>1. m = k
        BY <2>2, <2>4, <3>3 DEF Takes
      <4> QED BY <2>3, <2>4, <3>1, <3>3, <4>1 DEF x
    <3> QED BY <3>2, <3>3
  <2>5. CASE q.kind = "nearest"
    <3>1. \/ k.slots = {} /\ k.radius = q.radius
          \/ \E y \in Inside(q) : k.slots = {y} /\ k.radius = Away(q, y)
      BY <2>5 DEF Sound
    <3>2. k.slots # {} => /\ k.radius \in Nat
                          /\ q.radius >= 0 => k.radius <= q.radius
      BY <1>1, <1>2, <1>3, <2>5, <3>1
    <3>3. CASE k.radius < 0 \/ d <= k.radius
      <4>1. m = [slots |-> {x}, radius |-> d]
        BY <2>2, <2>5, <3>3 DEF Takes
      <4>2. m.slots = {x} /\ m.radius = d /\ m \in Findings
        BY <2>1, <4>1 DEF Findings
      <4>3. x \in Inside(q)
        BY <1>1, <2>1, <2>3, <2>5, <3>1, <3>2, <3>3
      <4>4. Sound(q, m)
        BY <2>5, <4>2, <4>3 DEF Sound, d
      <4>5. ASSUME NEW y \in Slots, AsGood(q, k, y) PROVE AsGood(q, m, y)
        <5>1. k.slots # {} /\ k.radius <= Away(q, y)
          BY <2>5, <4>5 DEF AsGood
        <5>2. d <= Away(q, y)
          BY <1>1, <1>2, <2>1, <3>2, <3>3, <5>1
        <5> QED BY <2>5, <4>2, <5>2 DEF AsGood
      <4>6. AsGood(q, m, x)
        BY <2>1, <2>5, <4>2 DEF AsGood, d
      <4> QED BY <2>1, <4>2, <4>4, <4>5, <4>6 DEF x
    <3>4. CASE ~(k.radius < 0 \/ d <= k.radius)
      <4>1. m = k
        BY <2>2, <2>5, <3>4 DEF Takes
      <4>2. x \in Inside(q) => k.slots # {}
        BY <1>1, <2>3, <2>5, <3>1, <3>4
      <4>3. k.radius <= d
        BY <1>1, <2>1, <3>4
      <4>4. x \in Inside(q) => AsGood(q, k, x)
        BY <2>5, <4>2, <4>3 DEF AsGood, d
      <4> QED BY <3>4, <4>1, <4>4 DEF x
    <3> QED BY <3>3, <3>4
  <2>6. CASE q.kind = "farthest"
    <3>1. \/ k.slots = {} /\ k.radius = -1
          \/ \E y \in Inside(q) : k.slots = {y} /\ k.radius = Away(q, y)
      BY <1>1, <2>6 DEF Sound
    <3>2. x \in Inside(q)
      BY <1>1, <2>3, <2>6
    <3>3. CASE d >= k.radius
      <4>1. m = [slots |-> {x}, radius |-> d]
        BY <2>2, <2>6, <3>3 DEF Takes
      <4>2. m.slots = {x} /\ m.radius = d /\ m \in Findings
        BY <2>1, <4>1 DEF Findings
      <4>3. Sound(q, m)
        BY <2>6, <3>2, <4>2 DEF Sound, d
      <4>4. ASSUME NEW y \in Slots, AsGood(q, k, y) PROVE AsGood(q, m, y)
        <5>1. k.radius >= Away(q, y)
          BY <2>6, <4>4 DEF AsGood
        <5>2. d >= Away(q, y)
          BY <1>1, <1>2, <2>1, <3>3, <5>1
        <5> QED BY <2>6, <4>2, <5>2 DEF AsGood
      <4>5. AsGood(q, m, x)
        BY <2>1, <2>6, <4>2 DEF AsGood, d
      <4> QED BY <2>6, <4>2, <4>3, <4>4, <4>5 DEF x
    <3>4. CASE ~(d >= k.radius)
      <4>1. m = k
        BY <2>2, <2>6, <3>4 DEF Takes
      <4>2. k.slots # {} /\ k.radius >= d
        BY <1>1, <2>1, <3>1, <3>4
      <4>3. AsGood(q, k, x)
        BY <2>6, <4>2 DEF AsGood, d
      <4> QED BY <2>6, <4>1, <4>3 DEF x
    <3> QED BY <3>3, <3>4
  <2> QED BY <1>1, <2>4, <2>5, <2>6
<1> QED BY <1>4, <1>5

\* The triangle rule: a branch that is left out holds nothing better.
LEMMA LeftOut ==
  ASSUME NearTypeOK, NodesHang, InReach, NEW q \in Searches, q = query,
         NEW k \in Findings, k = known, Sound(q, k), q.kind = "nearest" => k.radius >= 0,
         NEW a \in DOMAIN nearTree, NEW s \in Sides, ~MayHold(a, s),
         NEW x \in Inside(q), IsBelow(x[1], a, s)
  PROVE  AsGood(q, k, x)
<1> DEFINE near  == Away(q, <<a, s>>)
           away  == Away(q, x)
           reach == nearTree[a].reach[s]
           apart == Apart(Object(x), nearTree[a].object[s])
<1>1. /\ q.kind \in {"nearest", "farthest", "within"} /\ q.point \in Points /\ q.radius \in Int
      /\ q.kind = "farthest" => q.radius = -1
      /\ k.radius \in Int
  BY QueryType DEF Findings
<1>2. x \in Slots /\ ((q.kind # "within" /\ q.radius < 0) \/ away <= q.radius)
  BY DEF Inside
<1>3. x[1] \in DOMAIN nearTree /\ x[2] \in Filled(x[1]) /\ Object(x) \in Points /\ away \in Nat
  BY <1>2, SlotsAreAway
<1>4. Append(a, s) \in DOMAIN nearTree /\ Filled(a) = Sides
  BY <1>3 DEF NodesHang
<1>5. nearTree[a].object[s] \in Points /\ reach \in Int
  BY <1>4, ObjectsAndReaches
<1>6. apart \in Nat /\ near \in Nat
  <2>1. near = Apart(q.point, nearTree[a].object[s])
    BY DEF Away, Object
  <2> QED BY <1>1, <1>3, <1>5, <2>1, Distances
<1>7. near <= away + apart /\ away <= near + apart
  <2>1. near = Apart(q.point, nearTree[a].object[s]) /\ away = Apart(q.point, Object(x))
    BY DEF Away, Object
  <2>2. apart = Apart(nearTree[a].object[s], Object(x))
    BY <1>3, <1>5, Distances
  <2> QED BY <1>1, <1>3, <1>5, <2>1, <2>2, Distances
<1>8. apart <= reach
  BY <1>3 DEF InReach, Object
<1>9. IF q.kind = "farthest" THEN k.radius - reach > near ELSE k.radius + reach < near
  BY <1>1, <1>4, <1>5, <1>6 DEF MayHold
<1> HIDE DEF near, away, reach, apart
<1>10. CASE q.kind = "within"
  <2>1. k.radius = q.radius
    BY <1>10 DEF Sound
  <2> QED BY <1>1, <1>2, <1>3, <1>5, <1>6, <1>7, <1>8, <1>9, <1>10, <2>1
<1>11. CASE q.kind = "nearest"
  <2>1. k.slots = {} => k.radius = q.radius
    BY <1>11 DEF Sound
  <2>2. k.radius < away
    BY <1>1, <1>3, <1>5, <1>6, <1>7, <1>8, <1>9, <1>11
  <2>3. k.slots # {}
    BY <1>1, <1>2, <1>3, <1>11, <2>1, <2>2
  <2>4. k.radius <= away
    BY <1>1, <1>3, <2>2
  <2> QED BY <1>11, <2>3, <2>4 DEF AsGood, away
<1>12. CASE q.kind = "farthest"
  <2>1. k.slots = {} => k.radius = -1
    BY <1>1, <1>12 DEF Sound
  <2>2. k.radius > near + reach /\ reach >= 0
    BY <1>1, <1>5, <1>6, <1>8, <1>9, <1>12
  <2>3. k.slots # {} /\ k.radius >= away
    BY <1>1, <1>3, <1>5, <1>6, <1>7, <1>8, <2>1, <2>2
  <2> QED BY <1>12, <2>3 DEF AsGood, away
<1> QED BY <1>1, <1>10, <1>11, <1>12

\* Everything at a node and below it is known or pending after a visit.
LEMMA Visiting ==
  ASSUME NearTypeOK, NodesHang, NEW q \in Searches, NEW k \in Findings, Sound(q, k),
         NEW a \in DOMAIN nearTree, NEW others \in Seq((DOMAIN nearTree) \X Sides),
         q.kind = "nearest" => k.radius >= 0 \/ others = <<>>,
         Visits(q, k, a, others)
  PROVE  /\ known' \in Findings /\ Sound(q, known') /\ pending' \in Seq((DOMAIN nearTree) \X Sides)
         /\ \A x \in Slots : AsGood(q, k, x) => AsGood(q, known', x)
         /\ \A i \in DOMAIN others : \E j \in DOMAIN pending' : pending'[j] = others[i]
         /\ \A x \in Inside(q) :
              x[1] = a \/ (\E s \in Sides : IsBelow(x[1], a, s)) =>
                AsGood(q, known', x)
                  \/ \E j \in DOMAIN pending' : IsBelow(x[1], pending'[j][1], pending'[j][2])
         /\ q.kind = "nearest" /\ pending' # <<>> => known'.radius >= 0
<1> DEFINE half == Weighed(q, k, a, "left")
           all  == Weighed(q, half, a, "right")
           both == << <<a, "left">>, <<a, "right">> >>
<1>1. "left" \in Sides /\ "right" \in Sides /\ Sides = {"left", "right"}
  BY DEF Sides
<1>2. /\ half \in Findings /\ Sound(q, half)
      /\ \A x \in Slots : AsGood(q, k, x) => AsGood(q, half, x)
      /\ <<a, "left">> \in Inside(q) => AsGood(q, half, <<a, "left">>)
      /\ q.kind = "nearest" /\ half.radius < 0 => "left" \notin Filled(a) /\ k.radius < 0
  BY <1>1, Weighing
<1> HIDE DEF half
<1>3. /\ all \in Findings /\ Sound(q, all)
      /\ \A x \in Slots : AsGood(q, half, x) => AsGood(q, all, x)
      /\ <<a, "right">> \in Inside(q) => AsGood(q, all, <<a, "right">>)
      /\ q.kind = "nearest" /\ all.radius < 0 => "right" \notin Filled(a) /\ half.radius < 0
  BY <1>1, <1>2, Weighing
<1>4. known' = all /\ pending' = IF q.kind = "nearest" /\ all.radius < 0 THEN others ELSE both \o others
  BY DEF Visits, half
<1> HIDE DEF all
<1>5. \A x \in Slots : AsGood(q, k, x) => AsGood(q, known', x)
  BY <1>2, <1>3, <1>4
<1>6. \A x \in Inside(q) : x \in Slots /\ x[1] \in DOMAIN nearTree /\ x[2] \in Filled(x[1]) /\ x = <<x[1], x[2]>>
  <2>1. Inside(q) \subseteq Slots
    BY DEF Inside
  <2> QED BY <2>1, SlotsAreAway
<1>7. \A x \in Inside(q) : x[1] = a => AsGood(q, known', x)
  <2> SUFFICES ASSUME NEW x \in Inside(q), x[1] = a PROVE AsGood(q, known', x)
    OBVIOUS
  <2>1. x \in Slots /\ x = <<a, x[2]>> /\ x[2] \in Sides
    BY <1>6, ObjectsAndReaches
  <2>2. CASE x[2] = "left"
    BY <1>2, <1>3, <1>4, <2>1, <2>2
  <2>3. CASE x[2] = "right"
    BY <1>3, <1>4, <2>1, <2>3
  <2> QED BY <1>1, <2>1, <2>2, <2>3
<1>8. CASE q.kind = "nearest" /\ all.radius < 0
  <2>1. Filled(a) = {} /\ k.radius < 0 /\ pending' = others
    <3>1. "right" \notin Filled(a) /\ half.radius < 0
      BY <1>3, <1>8
    <3>2. "left" \notin Filled(a) /\ k.radius < 0
      BY <1>2, <1>8, <3>1
    <3>3. Filled(a) \subseteq Sides
      BY ObjectsAndReaches
    <3> QED BY <1>1, <1>4, <1>8, <3>1, <3>2, <3>3
  <2>2. others = <<>>
    BY <1>8, <2>1 DEF Findings
  <2>3. \A x \in Inside(q), s \in Sides : ~IsBelow(x[1], a, s)
    BY <1>1, <1>6, <2>1 DEF NodesHang
  <2> QED BY <1>3, <1>4, <1>5, <1>7, <2>1, <2>2, <2>3
<1>9. CASE ~(q.kind = "nearest" /\ all.radius < 0)
  <2>1. pending' = both \o others
    BY <1>4, <1>9
  <2>2. both \in Seq((DOMAIN nearTree) \X Sides) /\ Len(both) = 2 /\ both[1] = <<a, "left">> /\ both[2] = <<a, "right">>
    BY <1>1
  <2> HIDE DEF both
  <2>3. /\ pending' \in Seq((DOMAIN nearTree) \X Sides) /\ Len(pending') = 2 + Len(others)
        /\ pending'[1] = <<a, "left">> /\ pending'[2] = <<a, "right">>
        /\ \A i \in 1 .. Len(others) : pending'[2 + i] = others[i]
    <3>1. /\ pending' \in Seq((DOMAIN nearTree) \X Sides) /\ Len(pending') = 2 + Len(others)
          /\ \A i \in 1 .. 2 + Len(others) : pending'[i] = IF i <= 2 THEN both[i] ELSE others[i - 2]
      <4>1. /\ both \o others \in Seq((DOMAIN nearTree) \X Sides)
            /\ Len(both \o others) = Len(both) + Len(others)
            /\ \A i \in 1 .. Len(both) + Len(others) :
                 (both \o others)[i] = IF i <= Len(both) THEN both[i] ELSE others[i - Len(both)]
        BY <2>2, ConcatProperties, Zenon
      <4>2. Len(both) = 2
        BY <2>2
      <4> QED BY <2>1, <4>1, <4>2
    <3>2. \A i \in 1 .. Len(others) : pending'[2 + i] = others[i]
      <4> SUFFICES ASSUME NEW i \in 1 .. Len(others) PROVE pending'[2 + i] = others[i]
        OBVIOUS
      <4>1. 2 + i \in 1 .. 2 + Len(others) /\ (2 + i) - 2 = i /\ ~(2 + i <= 2)
        OBVIOUS
      <4> QED BY <3>1, <4>1
    <3>3. 1 \in 1 .. 2 + Len(others) /\ 2 \in 1 .. 2 + Len(others)
      OBVIOUS
    <3> QED BY <2>2, <3>1, <3>2, <3>3
  <2>4. \A i \in DOMAIN others : \E j \in DOMAIN pending' : pending'[j] = others[i]
    <3> SUFFICES ASSUME NEW i \in DOMAIN others
                 PROVE  \E j \in DOMAIN pending' : pending'[j] = others[i]
      OBVIOUS
    <3>1. i \in 1 .. Len(others) /\ 2 + i \in DOMAIN pending'
      BY <2>3
    <3> QED BY <2>3, <3>1
  <2>5. \A x \in Inside(q) :
          (\E s \in Sides : IsBelow(x[1], a, s)) =>
            \E j \in DOMAIN pending' : IsBelow(x[1], pending'[j][1], pending'[j][2])
    <3> SUFFICES ASSUME NEW x \in Inside(q), NEW s \in Sides, IsBelow(x[1], a, s)
                 PROVE  \E j \in DOMAIN pending' : IsBelow(x[1], pending'[j][1], pending'[j][2])
      OBVIOUS
    <3>1. 1 \in DOMAIN pending' /\ 2 \in DOMAIN pending'
      BY <2>3
    <3>2. CASE s = "left"
      <4>1. pending'[1][1] = a /\ pending'[1][2] = s
        BY <2>3, <3>2
      <4> QED BY <3>1, <4>1
    <3>3. CASE s = "right"
      <4>1. pending'[2][1] = a /\ pending'[2][2] = s
        BY <2>3, <3>3
      <4> QED BY <3>1, <4>1
    <3> QED BY <1>1, <3>2, <3>3
  <2>6. q.kind = "nearest" => known'.radius >= 0
    BY <1>3, <1>4, <1>9 DEF Findings
  <2> QED BY <1>3, <1>4, <1>5, <1>7, <2>3, <2>4, <2>5, <2>6
<1> QED BY <1>8, <1>9

LEMMA SlotsStay ==
  ASSUME UNCHANGED plantVars
  PROVE  /\ Slots' = Slots
         /\ \A q : Inside(q)' = Inside(q)
         /\ \A q, x : Away(q, x)' = Away(q, x)
         /\ \A q, k : Sound(q, k)' = Sound(q, k)
         /\ \A q, k, x : AsGood(q, k, x)' = AsGood(q, k, x)
         /\ NodesHang' = NodesHang
<1>1. nearTree' = nearTree
  BY DEF plantVars
<1>2. \A a : Filled(a)' = Filled(a)
  BY <1>1 DEF Filled
<1>3. Slots' = Slots
  BY <1>1, <1>2 DEF Slots
<1>4. \A q, x : Away(q, x)' = Away(q, x)
  BY <1>1 DEF Away, Object
<1>5. \A q : Inside(q)' = Inside(q)
  BY <1>3, <1>4 DEF Inside
<1>6. \A q, k : Sound(q, k)' = Sound(q, k)
  BY <1>4, <1>5 DEF Sound
<1>7. \A q, k, x : AsGood(q, k, x)' = AsGood(q, k, x)
  BY <1>4 DEF AsGood
<1>8. NodesHang' = NodesHang
  BY <1>1, <1>2 DEF NodesHang
<1> QED BY <1>3, <1>4, <1>5, <1>6, <1>7, <1>8

\* What the steps of a search have to show.
LEMMA NearSearches ==
  ASSUME NearInv, UNCHANGED plantVars, descent = AtRest,
         NEW q \in Searches, query' = q,
         known' \in Findings, pending' \in Seq((DOMAIN nearTree) \X Sides), Sound(q, known'),
         \A x \in Inside(q) :
           AsGood(q, known', x) \/ \E j \in DOMAIN pending' : IsBelow(x[1], pending'[j][1], pending'[j][2]),
         q.kind = "nearest" /\ pending' # <<>> => known'.radius >= 0
  PROVE  NearInv'
<1>0. NearTypeOK /\ NodesHang /\ InReach /\ NoneLost /\ Orderly
  BY DEF NearInv
<1>1. UNCHANGED <<nearTree, buffer, flushing, descent, given>>
  BY DEF plantVars
<1>2. NearTypeOK'
  BY <1>0, <1>1, SlotsStay DEF NearTypeOK, Findings
<1>3. NodesHang' /\ InReach'
  BY <1>0, <1>1, SlotsStay DEF InReach, Filled
<1>4. NoneLost'
  BY <1>0, <1>1, SlotsStay DEF NoneLost, Kept, Object
<1>5. q # NoQuery
  BY QueryType
<1>6. Orderly'
  BY <1>0, <1>1, <1>5 DEF Orderly
<1>7. SearchInv'
  <2>1. Sound(query, known)'
    BY SlotsStay DEF Sound
  <2>2. \A x \in Inside(query)' : AsGood(query, known, x)' \/ Awaited(x)'
    BY SlotsStay DEF AsGood, Awaited
  <2> QED BY <2>1, <2>2 DEF SearchInv
<1> QED BY <1>2, <1>3, <1>4, <1>6, <1>7 DEF NearInv

LEMMA NearSearch ==
  ASSUME NearInv, NEW q \in Searches, Search(q)
  PROVE  NearInv'
<1> DEFINE k == [slots |-> {}, radius |-> q.radius]
<1>1. /\ UNCHANGED plantVars /\ query = NoQuery /\ query' = q
      /\ Visits(q, k, Root, <<>>)
  BY DEF Search
<1>2. NearTypeOK /\ NodesHang /\ Root \in DOMAIN nearTree /\ descent = AtRest
  <2>1. ~flushing
    BY DEF Search
  <2> QED BY <2>1 DEF NearInv, NodesHang, Orderly
<1>3. k \in Findings /\ Sound(q, k)
  BY QueryType DEF Findings, Sound
<1> HIDE DEF k
<1>4. <<>> \in Seq((DOMAIN nearTree) \X Sides)
  BY EmptySeq
<1>5. /\ known' \in Findings /\ Sound(q, known') /\ pending' \in Seq((DOMAIN nearTree) \X Sides)
      /\ \A x \in Inside(q) :
           x[1] = Root \/ (\E s \in Sides : IsBelow(x[1], Root, s)) =>
             AsGood(q, known', x)
               \/ \E j \in DOMAIN pending' : IsBelow(x[1], pending'[j][1], pending'[j][2])
      /\ q.kind = "nearest" /\ pending' # <<>> => known'.radius >= 0
  BY <1>1, <1>2, <1>3, <1>4, Visiting
<1>6. \A x \in Inside(q) : x[1] = Root \/ \E s \in Sides : IsBelow(x[1], Root, s)
  <2> SUFFICES ASSUME NEW x \in Inside(q)
               PROVE  x[1] = Root \/ \E s \in Sides : IsBelow(x[1], Root, s)
    OBVIOUS
  <2>1. x \in Slots
    BY DEF Inside
  <2>2. x[1] \in Seq(Sides)
    BY <1>2, <2>1, SlotsAreAway, ObjectsAndReaches
  <2> QED BY <2>2, BelowTheRoot DEF Root
<1>7. \A x \in Inside(q) :
        AsGood(q, known', x) \/ \E j \in DOMAIN pending' : IsBelow(x[1], pending'[j][1], pending'[j][2])
  BY <1>5, <1>6
<1> QED BY <1>1, <1>2, <1>5, <1>7, NearSearches

LEMMA NearLooksBelow ==
  ASSUME NearInv, LooksBelow, NEW q, q = query, NEW k, k = known,
         NEW a, a = Head(pending)[1], NEW s, s = Head(pending)[2]
  PROVE  NearInv'
<1>1. NearTypeOK /\ NodesHang /\ InReach /\ Orderly /\ SearchInv
  BY DEF NearInv
<1>2. /\ pending # <<>> /\ UNCHANGED plantVars /\ query' = q
      /\ IF MayHold(a, s) THEN Visits(q, k, Append(a, s), Tail(pending))
         ELSE known' = k /\ pending' = Tail(pending)
  BY DEF LooksBelow
<1>3. query # NoQuery /\ q \in Searches /\ descent = AtRest
  BY <1>1, <1>2 DEF Orderly, NearTypeOK
<1>4. /\ k \in Findings /\ Sound(q, k)
      /\ \A x \in Inside(q) : AsGood(q, k, x) \/ Awaited(x)
      /\ q.kind = "nearest" => k.radius >= 0
  BY <1>1, <1>2, <1>3 DEF SearchInv, NearTypeOK, Findings
<1>5. /\ pending \in Seq((DOMAIN nearTree) \X Sides) /\ pending # <<>>
      /\ Head(pending) = pending[1] /\ pending[1] \in (DOMAIN nearTree) \X Sides
      /\ Tail(pending) \in Seq((DOMAIN nearTree) \X Sides)
      /\ \A i \in DOMAIN pending : i # 1 => i - 1 \in DOMAIN Tail(pending) /\ Tail(pending)[i - 1] = pending[i]
  <2>1. pending \in Seq((DOMAIN nearTree) \X Sides)
    BY <1>1 DEF NearTypeOK
  <2> QED BY <1>2, <2>1
<1>6. a \in DOMAIN nearTree /\ s \in Sides /\ a = pending[1][1] /\ s = pending[1][2]
  BY <1>5
<1> DEFINE after == Tail(pending)
<1>7. \A x \in Inside(q) :
        \/ AsGood(q, k, x)
        \/ IsBelow(x[1], a, s)
        \/ \E j \in DOMAIN after : IsBelow(x[1], after[j][1], after[j][2])
  <2> SUFFICES ASSUME NEW x \in Inside(q), ~AsGood(q, k, x), ~IsBelow(x[1], a, s)
               PROVE  \E j \in DOMAIN after : IsBelow(x[1], after[j][1], after[j][2])
    OBVIOUS
  <2>1. PICK i \in DOMAIN pending : IsBelow(x[1], pending[i][1], pending[i][2])
    BY <1>4 DEF Awaited
  <2>2. i # 1
    BY <1>6, <2>1
  <2>3. i - 1 \in DOMAIN after /\ after[i - 1] = pending[i]
    BY <1>5, <2>2
  <2> QED BY <2>1, <2>3
<1>8. CASE ~MayHold(a, s)
  <2>1. known' = k /\ pending' = after
    BY <1>2, <1>8
  <2>2. \A x \in Inside(q) : IsBelow(x[1], a, s) => AsGood(q, k, x)
    BY <1>1, <1>3, <1>4, <1>6, <1>8, LeftOut
  <2>3. \A x \in Inside(q) :
          AsGood(q, known', x) \/ \E j \in DOMAIN pending' : IsBelow(x[1], pending'[j][1], pending'[j][2])
    BY <1>7, <2>1, <2>2
  <2> QED BY <1>2, <1>3, <1>4, <1>5, <2>1, <2>3, NearSearches
<1>9. CASE MayHold(a, s)
  <2> DEFINE branch == Append(a, s)
  <2>1. branch \in DOMAIN nearTree /\ Visits(q, k, branch, after)
    BY <1>2, <1>9 DEF MayHold
  <2>2. after \in Seq((DOMAIN nearTree) \X Sides)
    BY <1>5
  <2>3. a \in Seq(Sides) /\ \A x \in Inside(q) : x \in Slots /\ x[1] \in Seq(Sides)
    <3>1. Inside(q) \subseteq Slots
      BY DEF Inside
    <3> QED BY <1>1, <1>3, <1>6, <3>1, SlotsAreAway, ObjectsAndReaches
  <2>4. \A x \in Inside(q) : IsBelow(x[1], a, s) => x[1] = branch \/ \E t \in Sides : IsBelow(x[1], branch, t)
    BY <1>6, <2>3, BranchesBelow
  <2> HIDE DEF branch, after
  <2>5. /\ known' \in Findings /\ Sound(q, known') /\ pending' \in Seq((DOMAIN nearTree) \X Sides)
        /\ \A x \in Slots : AsGood(q, k, x) => AsGood(q, known', x)
        /\ \A i \in DOMAIN after : \E j \in DOMAIN pending' : pending'[j] = after[i]
        /\ \A x \in Inside(q) :
             x[1] = branch \/ (\E t \in Sides : IsBelow(x[1], branch, t)) =>
               AsGood(q, known', x)
                 \/ \E j \in DOMAIN pending' : IsBelow(x[1], pending'[j][1], pending'[j][2])
        /\ q.kind = "nearest" /\ pending' # <<>> => known'.radius >= 0
    <3>1. NearTypeOK /\ NodesHang /\ q \in Searches /\ k \in Findings /\ Sound(q, k)
      BY <1>1, <1>3, <1>4
    <3>2. q.kind = "nearest" => k.radius >= 0 \/ after = <<>>
      BY <1>4
    <3> QED BY <2>1, <2>2, <3>1, <3>2, Visiting
  <2>6. \A x \in Inside(q) :
          AsGood(q, known', x) \/ \E j \in DOMAIN pending' : IsBelow(x[1], pending'[j][1], pending'[j][2])
    <3> SUFFICES ASSUME NEW x \in Inside(q)
                 PROVE  AsGood(q, known', x)
                          \/ \E j \in DOMAIN pending' : IsBelow(x[1], pending'[j][1], pending'[j][2])
      OBVIOUS
    <3>1. CASE AsGood(q, k, x)
      BY <2>3, <2>5, <3>1
    <3>2. CASE IsBelow(x[1], a, s)
      BY <2>4, <2>5, <3>2
    <3>3. CASE \E j \in DOMAIN after : IsBelow(x[1], after[j][1], after[j][2])
      <4>1. PICK i \in DOMAIN after : IsBelow(x[1], after[i][1], after[i][2])
        BY <3>3
      <4>2. PICK j \in DOMAIN pending' : pending'[j] = after[i]
        BY <2>5
      <4> QED BY <4>1, <4>2
    <3> QED BY <1>7, <3>1, <3>2, <3>3
  <2> QED BY <1>2, <1>3, <2>5, <2>6, NearSearches
<1> QED BY <1>8, <1>9

LEMMA NearReturns ==
  ASSUME NearInv, Returns
  PROVE  NearInv'
<1>0. NearTypeOK /\ NodesHang /\ InReach /\ NoneLost /\ Orderly
  BY DEF NearInv
<1>1. UNCHANGED plantVars /\ query' = NoQuery /\ known' = Unknown /\ pending' = <<>> /\ pending' = pending
  BY DEF Returns
<1>2. UNCHANGED <<nearTree, buffer, flushing, descent, given>>
  BY <1>1 DEF plantVars
<1>3. NearTypeOK'
  BY <1>0, <1>1, <1>2, SlotsStay DEF NearTypeOK, Unknown
<1>4. NodesHang' /\ InReach'
  BY <1>0, <1>1, <1>2, SlotsStay DEF InReach, Filled
<1>5. NoneLost'
  BY <1>0, <1>1, <1>2, SlotsStay DEF NoneLost, Kept, Object
<1>6. Orderly' /\ SearchInv'
  BY <1>0, <1>1, <1>2 DEF Orderly, SearchInv
<1> QED BY <1>3, <1>4, <1>5, <1>6 DEF NearInv

LEMMA NearStutters ==
  ASSUME NearInv, UNCHANGED nearVars
  PROVE  NearInv'
<1>1. UNCHANGED <<nearTree, buffer, flushing, descent, given, query, known, pending>> /\ UNCHANGED plantVars
  BY DEF nearVars, plantVars, queryVars
<1>2. NearTypeOK' /\ NodesHang' /\ InReach'
  BY <1>1, SlotsStay DEF NearInv, NearTypeOK, InReach, Filled
<1>3. NoneLost' /\ Orderly'
  BY <1>1, SlotsStay DEF NearInv, NoneLost, Kept, Object, Orderly
<1>4. SearchInv'
  <2>1. CASE query = NoQuery
    BY <1>1, <2>1 DEF SearchInv
  <2>2. CASE query # NoQuery
    <3>1. Sound(query, known)'
      BY <1>1, <2>2, SlotsStay DEF NearInv, SearchInv, Sound
    <3>2. \A x \in Inside(query)' : AsGood(query, known, x)' \/ Awaited(x)'
      BY <1>1, <2>2, SlotsStay DEF NearInv, SearchInv, AsGood, Awaited
    <3>3. query.kind = "nearest" /\ pending # <<>> => known.radius >= 0
      BY <2>2 DEF NearInv, SearchInv
    <3> QED BY <1>1, <3>1, <3>2, <3>3 DEF SearchInv
  <2> QED BY <2>1, <2>2
<1> QED BY <1>2, <1>3, <1>4 DEF NearInv

LEMMA NearNextInv == NearInv /\ [NearNext]_nearVars => NearInv'
<1> SUFFICES ASSUME NearInv, [NearNext]_nearVars PROVE NearInv'
  OBVIOUS
<1>1. CASE Clear
  BY <1>1, NearClear
<1>2. ASSUME NEW p \in Points, InsertObject(p) PROVE NearInv'
  BY <1>2, NearInsert
<1>3. ASSUME NEW p \in Points, Flushes(p) PROVE NearInv'
  BY <1>3, NearFlushes
<1>4. CASE Settles
  BY <1>4, NearSettles
<1>5. CASE Descends
  BY <1>5, NearDescends
<1>6. ASSUME NEW q \in Searches, Search(q) PROVE NearInv'
  BY <1>6, NearSearch
<1>7. CASE LooksBelow
  BY <1>7, NearLooksBelow
<1>8. CASE Returns
  BY <1>8, NearReturns
<1>9. CASE UNCHANGED nearVars
  BY <1>9, NearStutters
<1> QED BY <1>1, <1>2, <1>3, <1>4, <1>5, <1>6, <1>7, <1>8, <1>9 DEF NearNext

LEMMA NearFinds == NearInv => SearchesAreExact
<1> SUFFICES ASSUME NearInv PROVE SearchesAreExact
  OBVIOUS
<1>1. ASSUME descent = AtRest, NEW p \in Points
      PROVE  given[p] = buffer[p] + Cardinality({x \in Slots : Object(x) = p})
  <2>1. descent.object # p
    BY <1>1, MetricAssumption DEF AtRest
  <2>2. given[p] = buffer[p] + 0 + Cardinality(Kept(p)) /\ buffer[p] \in Nat /\ Cardinality(Kept(p)) \in Nat
    BY <2>1, SlotsAreFinite DEF NearInv, NoneLost, NearTypeOK
  <2> QED BY <2>2 DEF Kept
<1>2. ASSUME query # NoQuery, pending = <<>>
      PROVE  /\ Sound(query, known)
             /\ \A x \in Inside(query) : AsGood(query, known, x)
             /\ query.kind \in {"nearest", "farthest", "within"}
  <2>1. query \in Searches
    BY <1>2 DEF NearInv, NearTypeOK
  <2>2. \A x : ~Awaited(x)
    BY <1>2 DEF Awaited
  <2> QED BY <1>2, <2>1, <2>2, QueryType DEF NearInv, SearchInv
<1>3. ASSUME query # NoQuery, pending = <<>>, query.kind = "within" \/ Inside(query) = {}
      PROVE  known.slots = Inside(query)
  BY <1>2, <1>3 DEF Sound, AsGood
<1>4. ASSUME query # NoQuery, pending = <<>>, query.kind # "within", Inside(query) # {}
      PROVE  \E x \in Inside(query) :
               /\ known.slots = {x}
               /\ \A y \in Inside(query) : IF query.kind = "nearest"
                                           THEN Away(query, x) <= Away(query, y)
                                           ELSE Away(query, x) >= Away(query, y)
  <2>1. known.slots # {}
    BY <1>2, <1>4 DEF AsGood
  <2>2. PICK x \in Inside(query) : known.slots = {x} /\ known.radius = Away(query, x)
    BY <1>2, <1>4, <2>1 DEF Sound
  <2>3. \A y \in Inside(query) : IF query.kind = "nearest" THEN Away(query, x) <= Away(query, y)
                                                         ELSE Away(query, x) >= Away(query, y)
    BY <1>2, <1>4, <2>2 DEF AsGood
  <2> QED BY <2>2, <2>3
<1> QED BY <1>1, <1>3, <1>4 DEF SearchesAreExact

THEOREM SearchesSound == NearSpec => []SearchesAreExact
<1>1. NearSpec => []NearInv
  BY NearInitInv, NearNextInv, PTL DEF NearSpec
<1> QED BY <1>1, NearFinds, PTL

-----------------------------------------------------------------------------
(* TernarySearchTree, for all words. *)

AtOrUnder(b, a) == b = a \/ \E s \in Links : IsBelow(b, a, s)

NodesLinked ==
  \A a, b \in DOMAIN nodes, s \in Links : IsBelow(b, a, s) => Append(a, s) \in DOMAIN nodes

\* Words v and w agree in the first n characters.
Agree(v, w, n) == \A i \in 1 .. n : v[i] = w[i]

\* Where a word goes from a node that spells v.
Goes(w, v, s) ==
  LET n == Len(v) IN
  /\ Len(w) >= n /\ Agree(w, v, n - 1)
  /\ s = "left" => w[n] < v[n]
  /\ s = "right" => w[n] > v[n]
  /\ s = "middle" => w[n] = v[n] /\ Len(w) > n

\* The way to node b is that of a word.
IsOnWay(w, b) == \A a \in DOMAIN nodes, s \in Links : IsBelow(b, a, s) => Goes(w, spelled[a], s)

Reaches(n, s) == IF s = "middle" THEN n + 1 ELSE n

Spelling ==
  /\ Top \in DOMAIN nodes => Len(spelled[Top]) = 1
  /\ \A a \in DOMAIN nodes :
       /\ Len(spelled[a]) > 0 /\ nodes[a].chr = spelled[a][Len(spelled[a])]
       /\ IsOnWay(spelled[a], a)
  /\ \A a, b \in DOMAIN nodes : spelled[a] = spelled[b] => a = b
  /\ \A a \in DOMAIN nodes, s \in Links : Append(a, s) \in DOMAIN nodes =>
       Len(spelled[Append(a, s)]) = Reaches(Len(spelled[a]), s)

Storing ==
  /\ \A a \in DOMAIN nodes : nodes[a].value # Nothing =>
       nodes[a].value = spelled[a] /\ nodes[a].value \in inserted
  /\ \A w \in inserted : \E a \in DOMAIN nodes : nodes[a].value = w

\* The nodes that spell the first n characters of the key are not elsewhere.
Gathered(key, n, at) ==
  \A b \in DOMAIN nodes : Len(spelled[b]) >= n /\ Agree(key, spelled[b], n) => AtOrUnder(b, at)

\* There are none.
Unspelled(key, n) == \A b \in DOMAIN nodes : ~(Len(spelled[b]) >= n /\ Agree(key, spelled[b], n))

HasNoBranch(a) == \A b \in DOMAIN nodes, s \in Links : ~IsBelow(b, a, s)

WayDown ==
  walk.stage = "descend" =>
    LET key == walk.key
        pos == walk.pos
        at  == walk.node IN
    /\ Len(spelled[at]) = pos
    /\ Agree(key, spelled[at], pos - 1) /\ IsOnWay(key, at)
    /\ Gathered(key, pos, at)

Growing ==
  walk.stage = "grow" =>
    LET key == walk.key
        pos == walk.pos
        at  == walk.node IN
    /\ Len(spelled[at]) = pos - 1
    /\ Agree(key, spelled[at], pos - 1) /\ IsOnWay(key, at)
    /\ pos <= Len(key) => HasNoBranch(at) /\ Unspelled(key, pos)

Asked(word) == IF walk.op = "find" THEN word = walk.key ELSE BeginsWith(word, walk.key)

Holds(i, b) == AtOrUnder(b, collecting[i])

Collecting ==
  /\ walk.stage # "collect" => collecting = <<>> /\ results = NoResults
  /\ walk.stage = "collect" =>
       /\ \A i \in DOMAIN collecting :
            /\ \E a \in DOMAIN nodes, s \in Links : collecting[i] = Append(a, s)
            /\ \A b \in DOMAIN nodes : Holds(i, b) => Asked(spelled[b])
       /\ \A b \in DOMAIN nodes : nodes[b].value # Nothing /\ Asked(spelled[b]) =>
            \/ results[spelled[b]] = 1 /\ \A i \in DOMAIN collecting : ~Holds(i, b)
            \/ results[spelled[b]] = 0 /\ \E i \in DOMAIN collecting :
                                           Holds(i, b) /\ \A j \in DOMAIN collecting : Holds(j, b) => j = i
       /\ \A w \in Words : ~(w \in inserted /\ Asked(w)) => results[w] = 0

Stages ==
  /\ DOMAIN nodes # {} => Top \in DOMAIN nodes
  /\ walk.stage = "end" => walk = Idle
  /\ walk.stage = "descend" =>
       walk.op # "none" /\ walk.node \in DOMAIN nodes /\ walk.pos \in 1 .. Len(walk.key)
  /\ walk.stage = "grow" =>
       walk.op = "insert" /\ walk.node \in DOMAIN nodes /\ walk.pos \in 2 .. Len(walk.key) + 1
  /\ walk.stage = "collect" => walk.op \in {"find", "findprefix"}
  /\ walk.op = "insert" => walk.key \in Words
  /\ walk.op \in {"find", "findprefix"} => walk.key \in Probes

WordInv == NodesLinked /\ Spelling /\ Storing /\ WayDown /\ Growing /\ Collecting
TreeInv == TreeTypeOK /\ Stages /\ (~grownAtAnEnd => WordInv)

LEMMA KeysAreWords ==
  ASSUME TreeTypeOK, Stages, walk.stage # "end"
  PROVE  /\ walk.key \in Seq(Nat) /\ walk.key # <<>> /\ Len(walk.key) \in Nat /\ Len(walk.key) > 0
         /\ walk.op = "insert" => walk.key \in Words
<1>1. walk.op \in {"none", "insert", "find", "findprefix"} /\ walk.stage \in {"descend", "grow", "collect", "end"}
  BY DEF TreeTypeOK
<1>2. walk.key \in Words \cup Probes
  BY <1>1 DEF Stages
<1>3. walk.key \in Seq(Nat) /\ walk.key # <<>>
  BY <1>2, TernaryAssumption
<1> QED BY <1>1, <1>3, EmptySeq DEF Stages

LEMMA NodesAreTyped ==
  ASSUME TreeTypeOK, NEW a \in DOMAIN nodes
  PROVE  /\ a \in Seq(Links) /\ nodes[a].chr \in Nat /\ nodes[a].value \in Words \cup {Nothing}
         /\ nodes[a] = [chr |-> nodes[a].chr, value |-> nodes[a].value]
         /\ a \in DOMAIN spelled /\ spelled[a] \in Seq(Nat) /\ Len(spelled[a]) \in Nat
  BY DEF TreeTypeOK

LEMMA LinksAreThree ==
  /\ "left" \in Links /\ "middle" \in Links /\ "right" \in Links
  /\ \A c, d : Link(c, d) \in Links
  BY DEF Links, Link

\* The word goes where the comparison sends it.
LEMMA GoesOn ==
  ASSUME NEW w \in Seq(Nat), NEW v \in Seq(Nat), Len(v) \in 1 .. Len(w), Agree(w, v, Len(v) - 1),
         NEW s, s = Link(w[Len(v)], v[Len(v)]), s = "middle" => Len(v) < Len(w)
  PROVE  Goes(w, v, s)
<1>1. w[Len(v)] \in Nat /\ v[Len(v)] \in Nat
  OBVIOUS
<1> QED BY <1>1 DEF Goes, Link

LEMMA MiddleGoes ==
  ASSUME NEW w \in Seq(Nat), NEW v \in Seq(Nat), Agree(w, v, Len(v)), Len(v) > 0, Len(w) > Len(v)
  PROVE  Goes(w, v, "middle")
<1>1. Len(v) \in 1 .. Len(v) /\ \A i \in 1 .. Len(v) - 1 : i \in 1 .. Len(v)
  OBVIOUS
<1>2. w[Len(v)] = v[Len(v)] /\ Agree(w, v, Len(v) - 1)
  BY <1>1 DEF Agree
<1> QED BY <1>2 DEF Goes

\* So does its beginning, if it reaches as far.
LEMMA BeginningGoes ==
  ASSUME NEW w \in Seq(Nat), NEW v \in Seq(Nat), NEW s, Goes(w, v, s), Len(v) > 0,
         NEW n \in 1 .. Len(w), Len(v) <= n, s = "middle" => Len(v) < n
  PROVE  Goes(SubSeq(w, 1, n), v, s)
<1> DEFINE u == SubSeq(w, 1, n)
<1>1. u \in Seq(Nat) /\ Len(u) = n /\ \A i \in 1 .. n : u[i] = w[i]
  OBVIOUS
<1> HIDE DEF u
<1>2. Len(v) \in 1 .. n /\ u[Len(v)] = w[Len(v)]
  BY <1>1
<1>3. Agree(u, v, Len(v) - 1)
  <2> SUFFICES ASSUME NEW i \in 1 .. Len(v) - 1 PROVE u[i] = v[i]
    BY DEF Agree
  <2>1. i \in 1 .. n /\ w[i] = v[i]
    BY <1>2 DEF Goes, Agree
  <2> QED BY <1>1, <2>1
<1>4. Goes(u, v, s)
  BY <1>1, <1>2, <1>3 DEF Goes
<1> QED BY <1>4 DEF u

LEMMA WayGoesOn ==
  ASSUME TreeTypeOK, NEW w, NEW at \in DOMAIN nodes, NEW s \in Links, IsOnWay(w, at), Goes(w, spelled[at], s)
  PROVE  IsOnWay(w, Append(at, s))
<1> SUFFICES ASSUME NEW a \in DOMAIN nodes, NEW t \in Links, IsBelow(Append(at, s), a, t)
             PROVE  Goes(w, spelled[a], t)
  BY DEF IsOnWay
<1>1. (a = at /\ t = s) \/ IsBelow(at, a, t)
  BY NodesAreTyped, BranchIsBelow
<1> QED BY <1>1 DEF IsOnWay

\* What a comparison at a node says of the words below it.
LEMMA Comparison ==
  ASSUME TreeTypeOK, Spelling, NEW key \in Seq(Nat), NEW at \in DOMAIN nodes, NEW pos \in 1 .. Len(key),
         Len(spelled[at]) = pos, Agree(key, spelled[at], pos - 1),
         Gathered(key, pos, at),
         NEW s, s = Link(key[pos], nodes[at].chr)
  PROVE  /\ s \in Links
         /\ s = "middle" => Agree(key, spelled[at], pos)
         /\ s # "middle" => ~Agree(key, spelled[at], pos)
         /\ s # "middle" \/ pos < Len(key) => Goes(key, spelled[at], s)
         /\ \A b \in DOMAIN nodes : Len(spelled[b]) >= pos /\ Agree(key, spelled[b], pos) =>
              (b = at /\ s = "middle") \/ IsBelow(b, at, s)
<1>1. nodes[at].chr = spelled[at][pos] /\ spelled[at] \in Seq(Nat) /\ spelled[at][pos] \in Nat /\ key[pos] \in Nat
  BY NodesAreTyped DEF Spelling
<1>2. s \in Links
  BY LinksAreThree
<1>3. /\ s = "middle" => key[pos] = spelled[at][pos]
      /\ s = "left" => key[pos] < spelled[at][pos]
      /\ s = "right" => key[pos] > spelled[at][pos]
  BY <1>1 DEF Link
<1>4. (s = "middle" => Agree(key, spelled[at], pos)) /\ (s # "middle" => ~Agree(key, spelled[at], pos))
  BY <1>1, <1>2, <1>3 DEF Agree, Links
<1>5. s # "middle" \/ pos < Len(key) => Goes(key, spelled[at], s)
  BY <1>1, GoesOn
<1>6. ASSUME NEW b \in DOMAIN nodes, Len(spelled[b]) >= pos, Agree(key, spelled[b], pos)
      PROVE  (b = at /\ s = "middle") \/ IsBelow(b, at, s)
  <2>1. CASE b = at
    BY <1>4, <1>6, <2>1
  <2>2. ASSUME NEW t \in Links, IsBelow(b, at, t) PROVE t = s
    <3>1. Goes(spelled[b], spelled[at], t)
      BY <2>2 DEF Spelling, IsOnWay
    <3>2. spelled[b][pos] = key[pos]
      BY <1>6 DEF Agree
    <3>3. /\ t = "left" => key[pos] < spelled[at][pos]
          /\ t = "right" => key[pos] > spelled[at][pos]
          /\ t = "middle" => key[pos] = spelled[at][pos]
      BY <3>1, <3>2 DEF Goes
    <3> QED BY <1>1, <1>2, <1>3, <2>2, <3>3 DEF Links
  <2> QED BY <1>6, <2>1, <2>2 DEF AtOrUnder, Gathered
<1> QED BY <1>2, <1>4, <1>5, <1>6

\* The walk follows a link.
LEMMA Following ==
  ASSUME TreeTypeOK, Spelling, NEW key \in Seq(Nat), NEW at \in DOMAIN nodes, NEW pos \in 1 .. Len(key),
         Len(spelled[at]) = pos, Agree(key, spelled[at], pos - 1), IsOnWay(key, at),
         Gathered(key, pos, at),
         NEW s, s = Link(key[pos], nodes[at].chr), s # "middle" \/ pos < Len(key),
         NEW next, next = Append(at, s), next \in DOMAIN nodes, NEW n, n = Reaches(pos, s)
  PROVE  /\ n \in 1 .. Len(key) /\ Len(spelled[next]) = n
         /\ Agree(key, spelled[next], n - 1) /\ IsOnWay(key, next)
         /\ Gathered(key, n, next)
<1>1. /\ s \in Links
      /\ s = "middle" => Agree(key, spelled[at], pos)
      /\ Goes(key, spelled[at], s)
      /\ \A b \in DOMAIN nodes : Len(spelled[b]) >= pos /\ Agree(key, spelled[b], pos) =>
           (b = at /\ s = "middle") \/ IsBelow(b, at, s)
  BY Comparison
<1>2. n \in 1 .. Len(key) /\ n >= pos /\ (s = "middle" => n = pos + 1) /\ (s # "middle" => n = pos)
  BY DEF Reaches
<1>3. Len(spelled[next]) = n
  BY <1>1 DEF Spelling
<1>4. IsOnWay(key, next)
  BY <1>1, WayGoesOn
<1>5. Agree(key, spelled[next], n - 1)
  <2>1. IsBelow(next, at, s)
    BY <1>1, NodesAreTyped, BranchIsBelow
  <2>2. Goes(spelled[next], spelled[at], s)
    BY <1>1, <2>1 DEF Spelling, IsOnWay
  <2>3. pos \in Nat /\ Len(spelled[at]) = pos
    BY <1>1, NodesAreTyped
  <2>4. Agree(spelled[next], spelled[at], pos - 1) /\ (s = "middle" => spelled[next][pos] = spelled[at][pos])
    BY <2>2, <2>3 DEF Goes
  <2>5. Agree(key, spelled[at], pos - 1) /\ (s = "middle" => Agree(key, spelled[at], pos))
    BY <1>1, <2>3 DEF Goes
  <2> QED BY <1>2, <2>3, <2>4, <2>5 DEF Agree
<1>6. ASSUME NEW b \in DOMAIN nodes, Len(spelled[b]) >= n, Agree(key, spelled[b], n)
      PROVE  AtOrUnder(b, next)
  <2>1. Len(spelled[b]) >= pos /\ Agree(key, spelled[b], pos)
    <3>1. Len(spelled[b]) \in Nat /\ n \in Nat /\ pos \in Nat /\ pos <= n
      BY <1>2, NodesAreTyped
    <3> QED BY <1>6, <3>1 DEF Agree
  <2>2. ~(b = at /\ s = "middle")
    BY <1>2, <1>6
  <2>3. IsBelow(b, at, s)
    BY <1>1, <2>1, <2>2
  <2>4. b = next \/ \E t \in Links : IsBelow(b, next, t)
    BY <1>1, <2>3, NodesAreTyped, BranchesBelow
  <2> QED BY <2>4 DEF AtOrUnder
<1> QED BY <1>2, <1>3, <1>4, <1>5, <1>6 DEF Gathered

\* A node is put below node "at" for the first n characters of a key.
LEMMA Planting ==
  ASSUME TreeTypeOK, WordInv, NEW at \in DOMAIN nodes, NEW s \in Links, NEW key \in Seq(Nat),
         NEW n \in 1 .. Len(key), n = Reaches(Len(spelled[at]), s),
         Goes(key, spelled[at], s), IsOnWay(key, at),
         Unspelled(key, n),
         NEW next, next = Append(at, s), next \notin DOMAIN nodes, Top \in DOMAIN nodes,
         Plant(next, key, n), inserted' = inserted
  PROVE  /\ NodesLinked' /\ Spelling' /\ Storing' /\ IsOnWay(key, next)'
         /\ HasNoBranch(next)'
<1> DEFINE made == SubSeq(key, 1, n)
<1>0. NodesLinked /\ Spelling /\ Storing
  BY DEF WordInv
<1>1. /\ DOMAIN nodes' = DOMAIN nodes \cup {next} /\ DOMAIN spelled' = DOMAIN nodes \cup {next}
      /\ \A b \in DOMAIN nodes : nodes'[b] = nodes[b] /\ spelled'[b] = spelled[b]
      /\ nodes'[next] = [chr |-> key[n], value |-> Nothing] /\ spelled'[next] = made
  BY DEF Plant
<1>2. /\ made \in Seq(Nat) /\ Len(made) = n /\ n \in Nat /\ n > 0 /\ made[n] = key[n]
      /\ \A i \in 1 .. n : made[i] = key[i]
  <2>1. made \in Seq(Nat) /\ Len(made) = n /\ n \in Nat /\ n > 0
    OBVIOUS
  <2>2. \A i \in 1 .. n : made[i] = key[i]
    OBVIOUS
  <2> QED BY <2>1, <2>2
<1> HIDE DEF made
<1>3. \A b \in DOMAIN nodes : b \in Seq(Links) /\ spelled[b] \in Seq(Nat) /\ Len(spelled[b]) \in Nat
  BY NodesAreTyped
<1>4. next \in Seq(Links) /\ next # at
  BY <1>3, BranchIsBelow
<1>5. ASSUME NEW b \in DOMAIN nodes', NEW t \in Links PROVE ~IsBelow(b, next, t)
  <2>1. CASE b \in DOMAIN nodes
    BY <1>0, <1>3, <2>1, BelowABranch DEF NodesLinked
  <2>2. CASE b = next
    BY <1>4, <2>2, BelowABranch
  <2> QED BY <1>1, <2>1, <2>2
<1>6. ASSUME NEW a \in DOMAIN nodes, NEW t \in Links, IsBelow(next, a, t)
      PROVE  (a = at /\ t = s) \/ IsBelow(at, a, t)
  BY <1>3, <1>6, BranchIsBelow
<1>7. NodesLinked'
  <2>2. ASSUME NEW a \in DOMAIN nodes', NEW b \in DOMAIN nodes', NEW t \in Links, IsBelow(b, a, t)
        PROVE  Append(a, t) \in DOMAIN nodes'
    <3>1. a \in DOMAIN nodes
      BY <1>1, <1>5, <2>2
    <3>2. CASE b \in DOMAIN nodes
      BY <1>0, <1>1, <2>2, <3>1, <3>2 DEF NodesLinked
    <3>3. CASE b = next
      BY <1>0, <1>1, <1>6, <2>2, <3>1, <3>3 DEF NodesLinked
    <3> QED BY <1>1, <3>2, <3>3
  <2> QED BY <2>2 DEF NodesLinked
<1>8. ASSUME NEW a \in DOMAIN nodes, NEW t \in Links, IsBelow(next, a, t)
      PROVE  Goes(key, spelled[a], t) /\ Goes(made, spelled[a], t)
  <2>1. Goes(key, spelled[a], t)
    BY <1>6, <1>8 DEF IsOnWay
  <2>2. Len(spelled[a]) <= n /\ (t = "middle" => Len(spelled[a]) < n)
    <3>1. CASE a = at /\ t = s
      BY <1>3, <3>1 DEF Reaches
    <3>2. CASE IsBelow(at, a, t)
      <4>1. Goes(spelled[at], spelled[a], t)
        BY <1>0, <3>2 DEF Spelling, IsOnWay
      <4>0. Len(spelled[at]) >= Len(spelled[a]) /\ (t = "middle" => Len(spelled[at]) > Len(spelled[a]))
        BY <4>1 DEF Goes
      <4>2. Len(spelled[at]) <= n /\ Len(spelled[at]) \in Nat /\ Len(spelled[a]) \in Nat /\ n \in Nat
        BY <1>3 DEF Reaches
      <4> HIDE DEF made
      <4>3. Len(spelled[a]) <= n
        BY <4>0, <4>2
      <4>4. t = "middle" => Len(spelled[a]) < n
        BY <4>0, <4>2
      <4> QED BY <4>3, <4>4
    <3> QED BY <1>6, <1>8, <3>1, <3>2
  <2>3. Len(spelled[a]) > 0
    BY <1>0 DEF Spelling
  <2>4. Goes(made, spelled[a], t)
    BY <1>3, <2>1, <2>2, <2>3, BeginningGoes DEF made
  <2> QED BY <2>1, <2>4
<1>9. IsOnWay(key, next)'
  BY <1>1, <1>5, <1>8 DEF IsOnWay
<1>10. Spelling'
  <2>1. ASSUME NEW a \in DOMAIN nodes'
        PROVE  Len(spelled'[a]) > 0 /\ nodes'[a].chr = spelled'[a][Len(spelled'[a])]
    <3>1. CASE a \in DOMAIN nodes
      BY <1>0, <1>1, <3>1 DEF Spelling
    <3>2. CASE a = next
      BY <1>1, <1>2, <3>2
    <3> QED BY <1>1, <3>1, <3>2
  <2>2. ASSUME NEW b \in DOMAIN nodes', NEW a \in DOMAIN nodes', NEW t \in Links, IsBelow(b, a, t)
        PROVE  Goes(spelled'[b], spelled'[a], t)
    <3>1. a \in DOMAIN nodes
      BY <1>1, <1>5, <2>2
    <3>2. CASE b \in DOMAIN nodes
      BY <1>0, <1>1, <2>2, <3>1, <3>2 DEF Spelling, IsOnWay
    <3>3. CASE b = next
      BY <1>1, <1>8, <2>2, <3>1, <3>3
    <3> QED BY <1>1, <3>2, <3>3
  <2>3. ASSUME NEW b \in DOMAIN nodes PROVE spelled[b] # made
    <3> SUFFICES ASSUME spelled[b] = made PROVE FALSE
      OBVIOUS
    <3>1. Len(spelled[b]) >= n /\ Agree(key, spelled[b], n)
      BY <1>2 DEF Agree
    <3> QED BY <3>1 DEF Unspelled
  <2>4. \A a, b \in DOMAIN nodes' : spelled'[a] = spelled'[b] => a = b
    BY <1>0, <1>1, <2>3 DEF Spelling
  <2>5. ASSUME NEW a \in DOMAIN nodes', NEW t \in Links, Append(a, t) \in DOMAIN nodes'
        PROVE  Len(spelled'[Append(a, t)]) = Reaches(Len(spelled'[a]), t)
    <3>1. a \in DOMAIN nodes /\ a \in Seq(Links)
      BY <1>1, <1>3, <1>4, <1>5, <2>5, BranchIsBelow
    <3>2. CASE Append(a, t) \in DOMAIN nodes
      <4>1. Len(spelled[Append(a, t)]) = Reaches(Len(spelled[a]), t)
        BY <1>0, <2>5, <3>1, <3>2 DEF Spelling
      <4>2. spelled'[a] = spelled[a] /\ spelled'[Append(a, t)] = spelled[Append(a, t)]
        BY <1>1, <3>1, <3>2
      <4> QED BY <4>1, <4>2
    <3>3. CASE Append(a, t) = next
      <4>1. a = at /\ t = s
        BY <1>3, <3>1, <3>3, AppendInjective
      <4> QED BY <1>1, <1>2, <3>1, <3>3, <4>1
    <3>4. Append(a, t) \in DOMAIN nodes \/ Append(a, t) = next
      BY <1>1, <2>5
    <3> QED BY <3>2, <3>3, <3>4
  <2>6. Top \in DOMAIN nodes' => Len(spelled'[Top]) = 1
    BY <1>0, <1>1 DEF Spelling
  <2> QED BY <2>1, <2>2, <2>4, <2>5, <2>6 DEF Spelling, IsOnWay
<1>11. Storing'
  <2>1. \A a \in DOMAIN nodes' : nodes'[a].value # Nothing => a \in DOMAIN nodes
    <3>1. nodes'[next].value = Nothing
      BY <1>1
    <3> QED BY <1>1, <3>1
  <2>2. \A a \in DOMAIN nodes' : nodes'[a].value # Nothing =>
          nodes'[a].value = spelled'[a] /\ nodes'[a].value \in inserted
    BY <1>0, <1>1, <2>1 DEF Storing
  <2>3. \A w \in inserted : \E a \in DOMAIN nodes' : nodes'[a].value = w
    BY <1>0, <1>1 DEF Storing
  <2> QED BY <2>2, <2>3 DEF Storing
<1> QED BY <1>1, <1>5, <1>7, <1>9, <1>10, <1>11 DEF made, HasNoBranch

\* The types of the nodes after that.
LEMMA PlantingTypes ==
  ASSUME TreeTypeOK, NEW next \in Seq(Links), NEW key \in Seq(Nat), NEW n \in 1 .. Len(key), Plant(next, key, n)
  PROVE  /\ DOMAIN nodes' \subseteq Seq(Links) /\ next \in DOMAIN nodes'
         /\ \A a \in DOMAIN nodes' : nodes'[a] \in [chr : Nat, value : Words \cup {Nothing}]
         /\ DOMAIN spelled' = DOMAIN nodes' /\ \A a \in DOMAIN nodes' : spelled'[a] \in Seq(Nat)
<1>1. /\ DOMAIN nodes' = DOMAIN nodes \cup {next} /\ DOMAIN spelled' = DOMAIN nodes \cup {next}
      /\ \A b \in DOMAIN nodes : b # next => nodes'[b] = nodes[b] /\ spelled'[b] = spelled[b]
      /\ nodes'[next] = [chr |-> key[n], value |-> Nothing] /\ spelled'[next] = SubSeq(key, 1, n)
  BY DEF Plant
<1>2. key[n] \in Nat /\ SubSeq(key, 1, n) \in Seq(Nat)
  OBVIOUS
<1>3. nodes'[next] \in [chr : Nat, value : Words \cup {Nothing}]
  BY <1>1, <1>2
<1> QED BY <1>1, <1>2, <1>3 DEF TreeTypeOK

LEMMA TreeInitInv == TreeInit => TreeInv
<1> SUFFICES ASSUME TreeInit PROVE TreeInv
  OBVIOUS
<1>1. /\ DOMAIN nodes = {} /\ DOMAIN spelled = {} /\ inserted = {} /\ grownAtAnEnd = FALSE
      /\ walk = Idle /\ collecting = <<>> /\ results = NoResults
  BY DEF TreeInit, NoNodes
<1>2. walk.stage = "end" /\ walk.op = "none"
  BY <1>1 DEF Idle
<1>3. TreeTypeOK
  <2>1. walk \in [op : {"none", "insert", "find", "findprefix"},
                  stage : {"descend", "grow", "collect", "end"},
                  key : Words \cup Probes \cup {Nothing}, pos : Nat, node : Seq(Links)]
    BY <1>1, EmptySeq DEF Idle, Top
  <2>2. results \in [Words -> Nat] /\ collecting \in Seq(Seq(Links))
    BY <1>1, EmptySeq DEF NoResults
  <2> QED BY <1>1, <2>1, <2>2 DEF TreeTypeOK
<1>4. Stages
  BY <1>1, <1>2 DEF Stages
<1>5. NodesLinked /\ Spelling /\ Storing
  BY <1>1 DEF NodesLinked, Spelling, Storing
<1>6. WayDown /\ Growing /\ Collecting
  BY <1>1, <1>2 DEF WayDown, Growing, Collecting
<1> QED BY <1>3, <1>4, <1>5, <1>6 DEF TreeInv, WordInv

\* What is known of a walk along a key.
LEMMA WalkIsTyped ==
  ASSUME TreeTypeOK
  PROVE  /\ walk.op \in {"none", "insert", "find", "findprefix"}
         /\ walk.stage \in {"descend", "grow", "collect", "end"}
         /\ walk.key \in Words \cup Probes \cup {Nothing} /\ walk.pos \in Nat /\ walk.node \in Seq(Links)
         /\ walk = [op |-> walk.op, stage |-> walk.stage, key |-> walk.key, pos |-> walk.pos, node |-> walk.node]
  BY DEF TreeTypeOK

LEMMA NodesStay ==
  ASSUME nodes' = nodes, spelled' = spelled
  PROVE  /\ NodesLinked' = NodesLinked /\ Spelling' = Spelling
         /\ \A w, b : IsOnWay(w, b)' = IsOnWay(w, b)
         /\ \A w, n, b : Gathered(w, n, b)' = Gathered(w, n, b)
         /\ inserted' = inserted => Storing' = Storing
<1>1. \A w, b : IsOnWay(w, b)' = IsOnWay(w, b)
  BY DEF IsOnWay
<1>2. \A w, n, b : Gathered(w, n, b)' = Gathered(w, n, b)
  BY DEF Gathered
<1> QED BY <1>1, <1>2 DEF NodesLinked, Spelling, Storing, IsOnWay

\* Where each walk begins.
LEMMA StartsAtTop ==
  ASSUME TreeTypeOK, WordInv, Top \in DOMAIN nodes, NEW key \in Seq(Nat), Len(key) > 0
  PROVE  /\ 1 \in 1 .. Len(key) /\ Len(spelled[Top]) = 1
         /\ Agree(key, spelled[Top], 1 - 1) /\ IsOnWay(key, Top)
         /\ Gathered(key, 1, Top)
<1>1. Len(spelled[Top]) = 1
  BY DEF WordInv, Spelling
<1>2. \A a \in DOMAIN nodes, s \in Links : ~IsBelow(Top, a, s)
  <2> SUFFICES ASSUME NEW a \in DOMAIN nodes, NEW s \in Links, IsBelow(Top, a, s) PROVE FALSE
    OBVIOUS
  <2>1. Len(Top) = 0 /\ Len(a) \in Nat
    BY NodesAreTyped DEF Top
  <2> QED BY <2>1 DEF IsBelow
<1>3. \A b \in DOMAIN nodes : AtOrUnder(b, Top)
  BY NodesAreTyped, BelowTheRoot DEF AtOrUnder, Top
<1>4. 1 \in 1 .. Len(key) /\ Agree(key, spelled[Top], 1 - 1)
  BY DEF Agree
<1> QED BY <1>1, <1>2, <1>3, <1>4 DEF IsOnWay, Gathered

LEMMA TreeInserts ==
  ASSUME TreeInv, NEW key \in Words, InsertWord(key)
  PROVE  TreeInv'
<1>0. TreeTypeOK /\ Stages /\ key \in Seq(Nat) /\ Len(key) \in Nat /\ Len(key) > 0
  BY TernaryAssumption, EmptySeq DEF TreeInv
<1>1. /\ walk = Idle /\ walk.stage = "end" /\ UNCHANGED <<inserted, grownAtAnEnd, collecting, results>>
  BY DEF InsertWord, lookingVars, Idle
<1>2. Top \in Seq(Links)
  BY EmptySeq DEF Top
<1>3. CASE DOMAIN nodes = {}
  <2>1. /\ Plant(Top, key, 1)
        /\ walk' = [op |-> "insert", stage |-> "grow", key |-> key, pos |-> 2, node |-> Top]
    BY <1>3 DEF InsertWord
  <2>2. /\ DOMAIN nodes' = {Top} /\ DOMAIN spelled' = {Top}
        /\ nodes'[Top] = [chr |-> key[1], value |-> Nothing] /\ spelled'[Top] = SubSeq(key, 1, 1)
    BY <1>3, <2>1 DEF Plant
  <2>3. /\ walk'.op = "insert" /\ walk'.stage = "grow" /\ walk'.key = key /\ walk'.pos = 2 /\ walk'.node = Top
    BY <2>1
  <2>4. /\ SubSeq(key, 1, 1) \in Seq(Nat) /\ Len(SubSeq(key, 1, 1)) = 1 /\ SubSeq(key, 1, 1)[1] = key[1]
    BY <1>0
  <2>5. TreeTypeOK'
    <3>1. 1 \in 1 .. Len(key)
      BY <1>0
    <3>2. /\ DOMAIN nodes' \subseteq Seq(Links) /\ Top \in DOMAIN nodes'
          /\ \A a \in DOMAIN nodes' : nodes'[a] \in [chr : Nat, value : Words \cup {Nothing}]
          /\ DOMAIN spelled' = DOMAIN nodes' /\ \A a \in DOMAIN nodes' : spelled'[a] \in Seq(Nat)
      BY <1>0, <1>2, <2>1, <3>1, PlantingTypes
    <3>3. walk' \in [op : {"none", "insert", "find", "findprefix"},
                     stage : {"descend", "grow", "collect", "end"},
                     key : Words \cup Probes \cup {Nothing}, pos : Nat, node : Seq(Links)]
      BY <1>2, <2>1
    <3> QED BY <1>0, <1>1, <3>2, <3>3 DEF TreeTypeOK
  <2>6. Stages'
    <3>1. 2 \in 2 .. Len(key) + 1 /\ Top \in DOMAIN nodes'
      BY <1>0, <2>2
    <3> QED BY <2>3, <3>1 DEF Stages
  <2>7. \A s \in Links : ~IsBelow(Top, Top, s)
    BY <1>2, BelowABranch
  <2>8. ASSUME ~grownAtAnEnd' PROVE WordInv'
    <3>1. NodesLinked /\ Storing /\ Collecting
      BY <1>1, <2>8 DEF TreeInv, WordInv
    <3>2. NodesLinked'
      BY <2>2, <2>7 DEF NodesLinked
    <3>3. Spelling'
      <4>1. \A t \in Links : Append(Top, t) # Top
        BY <1>2, BranchIsBelow
      <4>2. nodes'[Top].chr = spelled'[Top][Len(spelled'[Top])] /\ Len(spelled'[Top]) > 0
        BY <2>2, <2>4
      <4> QED BY <2>2, <2>7, <4>1, <4>2 DEF Spelling, IsOnWay
    <3>4. Storing'
      <4>1. inserted = {}
        BY <1>3, <3>1 DEF Storing
      <4>2. nodes'[Top].value = Nothing
        BY <2>2
      <4> QED BY <1>1, <2>2, <4>1, <4>2 DEF Storing
    <3>5. WayDown'
      BY <2>3 DEF WayDown
    <3>6. Growing'
      <4>1. 2 \in 2 .. Len(key) + 1
        BY <1>0
      <4>2. Len(spelled'[Top]) = 1 /\ Agree(key, spelled'[Top], 1)
        BY <2>2, <2>4 DEF Agree
      <4>3. IsOnWay(key, Top)'
        BY <2>2, <2>7 DEF IsOnWay
      <4>4. ~(Len(spelled'[Top]) >= 2)
        BY <4>2
      <4>5. \A b \in DOMAIN nodes' : ~(Len(spelled'[b]) >= 2 /\ Agree(key, spelled'[b], 2))
        BY <2>2, <4>4
      <4>6. \A b \in DOMAIN nodes', s \in Links : ~IsBelow(b, Top, s)
        BY <2>2, <2>7
      <4>7. Top \in DOMAIN nodes' /\ 2 - 1 = 1
        BY <2>2
      <4> QED BY <2>3, <4>1, <4>2, <4>3, <4>5, <4>6, <4>7 DEF Growing, Unspelled, HasNoBranch
    <3>7. Collecting'
      BY <1>1, <2>3, <3>1 DEF Collecting
    <3> QED BY <3>2, <3>3, <3>4, <3>5, <3>6, <3>7 DEF WordInv
  <2> QED BY <2>5, <2>6, <2>8 DEF TreeInv
<1>4. CASE DOMAIN nodes # {}
  <2>1. /\ nodes' = nodes /\ spelled' = spelled
        /\ walk' = [op |-> "insert", stage |-> "descend", key |-> key, pos |-> 1, node |-> Top]
    BY <1>4 DEF InsertWord
  <2>2. /\ walk'.op = "insert" /\ walk'.stage = "descend" /\ walk'.key = key /\ walk'.pos = 1 /\ walk'.node = Top
    BY <2>1
  <2>3. TreeTypeOK'
    <3>1. walk' \in [op : {"none", "insert", "find", "findprefix"},
                     stage : {"descend", "grow", "collect", "end"},
                     key : Words \cup Probes \cup {Nothing}, pos : Nat, node : Seq(Links)]
      BY <1>2, <2>1
    <3> QED BY <1>0, <1>1, <2>1, <3>1 DEF TreeTypeOK
  <2>4. Stages'
    <3>1. 1 \in 1 .. Len(key) /\ Top \in DOMAIN nodes'
      <4>1. Top \in DOMAIN nodes
        BY <1>0, <1>4 DEF Stages
      <4> QED BY <1>0, <2>1, <4>1
    <3> QED BY <2>2, <3>1 DEF Stages
  <2>5. ASSUME ~grownAtAnEnd' PROVE WordInv'
    <3>1. WordInv
      BY <1>1, <2>5 DEF TreeInv
    <3>2. Collecting' /\ Growing'
      BY <1>1, <2>2, <3>1 DEF WordInv, Collecting, Growing
    <3>3. WayDown'
      <4>0. Top \in DOMAIN nodes
        BY <1>0, <1>4 DEF Stages
      <4>1. /\ 1 \in 1 .. Len(key) /\ Len(spelled'[Top]) = 1
            /\ Agree(key, spelled'[Top], 1 - 1) /\ IsOnWay(key, Top)'
            /\ Gathered(key, 1, Top)'
        BY <1>0, <2>1, <3>1, <4>0, StartsAtTop, NodesStay
      <4> QED BY <2>1, <2>2, <4>1 DEF WayDown
    <3> QED BY <1>1, <2>1, <3>1, <3>2, <3>3, NodesStay DEF WordInv
  <2> QED BY <2>3, <2>4, <2>5 DEF TreeInv
<1> QED BY <1>3, <1>4

\* The key grows on at a node that was planted for its first n characters.
LEMMA Grown ==
  ASSUME TreeTypeOK, NEW key \in Seq(Nat), NEW n \in 1 .. Len(key), NEW next,
         Unspelled(key, n),
         IsOnWay(key, next)', DOMAIN nodes' = DOMAIN nodes \cup {next},
         \A b \in DOMAIN nodes : spelled'[b] = spelled[b],
         spelled'[next] = SubSeq(key, 1, n),
         HasNoBranch(next)',
         walk'.key = key, walk'.pos = n + 1, walk'.node = next
  PROVE  Growing'
<1>1. Len(spelled'[next]) = n /\ \A i \in 1 .. n : spelled'[next][i] = key[i]
  BY SubSeqProperties
<1>2. Len(spelled'[next]) = (n + 1) - 1 /\ Agree(key, spelled'[next], (n + 1) - 1)
  BY <1>1 DEF Agree
<1>3. ASSUME NEW b \in DOMAIN nodes' PROVE ~(Len(spelled'[b]) >= n + 1 /\ Agree(key, spelled'[b], n + 1))
  <2>1. CASE b = next
    BY <1>1, <2>1
  <2>2. CASE b \in DOMAIN nodes
    <3>1. Len(spelled[b]) \in Nat
      BY <2>2, NodesAreTyped
    <3>2. ~(Len(spelled[b]) >= n /\ Agree(key, spelled[b], n))
      BY <2>2 DEF Unspelled
    <3>3. n \in Nat /\ \A i \in 1 .. n : i \in 1 .. n + 1
      OBVIOUS
    <3>4. Agree(key, spelled[b], n + 1) => Agree(key, spelled[b], n)
      BY <3>3 DEF Agree
    <3>5. spelled'[b] = spelled[b]
      BY <2>2
    <3> QED BY <3>1, <3>2, <3>3, <3>4, <3>5
  <2> QED BY <2>1, <2>2
<1> QED BY <1>2, <1>3 DEF Growing, Unspelled

LEMMA TreeCompares ==
  ASSUME TreeInv, Compares,
         NEW key, key = walk.key, NEW pos, pos = walk.pos, NEW at, at = walk.node,
         NEW s, s = Chosen, NEW next, next = Next
  PROVE  TreeInv'
<1>0. TreeTypeOK /\ Stages /\ walk.op = "insert" /\ walk.stage = "descend"
  BY DEF TreeInv, Compares
<1>1. /\ key \in Seq(Nat) /\ key \in Words /\ pos \in Nat /\ at \in Seq(Links)
      /\ at \in DOMAIN nodes /\ pos \in 1 .. Len(key)
  BY <1>0, KeysAreWords, WalkIsTyped DEF Stages
<1>2. s = Link(key[pos], nodes[at].chr) /\ next = Append(at, s) /\ s \in Links /\ next \in Seq(Links)
  BY <1>1, LinksAreThree, BranchIsBelow DEF Chosen, Next
<1>3. UNCHANGED <<inserted, collecting, results>>
  BY DEF Compares, lookingVars
<1>4. walk = [op |-> "insert", stage |-> "descend", key |-> key, pos |-> pos, node |-> at]
  BY <1>0, WalkIsTyped
<1>5. grownAtAnEnd \in BOOLEAN
  BY <1>0 DEF TreeTypeOK
<1>6. ASSUME ~grownAtAnEnd
      PROVE  /\ WordInv /\ NodesLinked /\ Spelling /\ Storing
             /\ Len(spelled[at]) = pos
             /\ Agree(key, spelled[at], pos - 1) /\ IsOnWay(key, at)
             /\ Gathered(key, pos, at)
             /\ collecting = <<>> /\ results = NoResults
  BY <1>0, <1>6 DEF TreeInv, WordInv, WayDown, Collecting
<1>7. CASE Matched
  <2>1. /\ s = "middle" /\ pos = Len(key) /\ UNCHANGED <<nodes, spelled, grownAtAnEnd>>
        /\ walk' = [op |-> "insert", stage |-> "grow", key |-> key, pos |-> pos + 1, node |-> at]
    BY <1>4, <1>7 DEF Compares, Matched
  <2>2. walk'.op = "insert" /\ walk'.stage = "grow" /\ walk'.key = key /\ walk'.pos = pos + 1 /\ walk'.node = at
    BY <2>1
  <2>3. TreeTypeOK'
    <3>1. walk' \in [op : {"none", "insert", "find", "findprefix"},
                     stage : {"descend", "grow", "collect", "end"},
                     key : Words \cup Probes \cup {Nothing}, pos : Nat, node : Seq(Links)]
      BY <1>1, <2>1
    <3> QED BY <1>0, <1>3, <2>1, <3>1 DEF TreeTypeOK
  <2>4. Stages'
    <3>1. pos + 1 \in 2 .. Len(key) + 1 /\ at \in DOMAIN nodes' /\ Top \in DOMAIN nodes'
      BY <1>0, <1>1, <2>1 DEF Stages
    <3> QED BY <1>1, <2>2, <3>1 DEF Stages
  <2>5. ASSUME ~grownAtAnEnd' PROVE WordInv'
    <3>1. ~grownAtAnEnd
      BY <2>1, <2>5
    <3>0. /\ WordInv /\ NodesLinked /\ Spelling /\ Storing
          /\ Len(spelled[at]) = pos
          /\ Agree(key, spelled[at], pos - 1) /\ IsOnWay(key, at)
          /\ Gathered(key, pos, at)
          /\ collecting = <<>> /\ results = NoResults
      BY <1>6, <3>1
    <3>2. Growing'
      <4>1. Agree(key, spelled[at], pos)
        BY <1>0, <1>1, <1>2, <3>0, <2>1, <3>1, Comparison
      <4>2. pos + 1 \in 2 .. Len(key) + 1 /\ (pos + 1) - 1 = pos /\ ~(pos + 1 <= Len(key))
        BY <1>1, <2>1, <3>0, <3>1
      <4>3. IsOnWay(key, at)'
        BY <3>0, <2>1, <3>1, NodesStay
      <4> QED BY <3>0, <2>1, <2>2, <3>1, <4>1, <4>2, <4>3 DEF Growing
    <3>3. WayDown' /\ Collecting'
      BY <1>3, <3>0, <2>2, <3>1 DEF WayDown, Collecting
    <3> QED BY <1>3, <3>0, <2>1, <3>1, <3>2, <3>3, NodesStay DEF WordInv
  <2> QED BY <2>3, <2>4, <2>5 DEF TreeInv
<1>8. CASE ~Matched /\ next \in DOMAIN nodes
  <2> DEFINE n == Reaches(pos, s)
  <2>1. /\ UNCHANGED <<nodes, spelled, grownAtAnEnd>>
        /\ walk' = [op |-> "insert", stage |-> "descend", key |-> key, pos |-> n, node |-> next]
    BY <1>1, <1>4, <1>8 DEF Compares, Follow, Reaches
  <2>2. walk'.op = "insert" /\ walk'.stage = "descend" /\ walk'.key = key /\ walk'.pos = n /\ walk'.node = next
    BY <2>1
  <2>3. TreeTypeOK'
    <3>1. n \in Nat
      BY <1>1 DEF Reaches
    <3>2. walk' \in [op : {"none", "insert", "find", "findprefix"},
                     stage : {"descend", "grow", "collect", "end"},
                     key : Words \cup Probes \cup {Nothing}, pos : Nat, node : Seq(Links)]
      BY <1>1, <1>2, <2>1, <3>1
    <3> QED BY <1>0, <1>3, <2>1, <3>2 DEF TreeTypeOK
  <2>4. Stages'
    <3>1. n \in 1 .. Len(key) /\ next \in DOMAIN nodes' /\ Top \in DOMAIN nodes'
      BY <1>0, <1>1, <1>8, <2>1 DEF Matched, Reaches, Stages
    <3> QED BY <1>1, <2>2, <3>1 DEF Stages
  <2>5. ASSUME ~grownAtAnEnd' PROVE WordInv'
    <3>1. ~grownAtAnEnd
      BY <2>1, <2>5
    <3>0. /\ WordInv /\ NodesLinked /\ Spelling /\ Storing
          /\ Len(spelled[at]) = pos
          /\ Agree(key, spelled[at], pos - 1) /\ IsOnWay(key, at)
          /\ Gathered(key, pos, at)
          /\ collecting = <<>> /\ results = NoResults
      BY <1>6, <3>1
    <3>2. WayDown'
      <4>1. s # "middle" \/ pos < Len(key)
        BY <1>1, <3>0, <1>8, <3>1 DEF Matched
      <4>2. /\ n \in 1 .. Len(key) /\ Len(spelled[next]) = n
            /\ Agree(key, spelled[next], n - 1) /\ IsOnWay(key, next)
            /\ Gathered(key, n, next)
        BY <1>0, <1>1, <1>2, <3>0, <1>8, <3>1, <4>1, Following
      <4>3. IsOnWay(key, next)' /\ Gathered(key, n, next)'
        BY <2>1, <4>2, NodesStay
      <4> QED BY <1>8, <2>1, <2>2, <4>2, <4>3 DEF WayDown
    <3>3. Growing' /\ Collecting'
      BY <1>3, <3>0, <2>2, <3>1 DEF Growing, Collecting
    <3> QED BY <1>3, <3>0, <2>1, <3>1, <3>2, <3>3, NodesStay DEF WordInv
  <2> QED BY <2>3, <2>4, <2>5 DEF TreeInv
<1>9. CASE ~Matched /\ next \notin DOMAIN nodes
  <2>0. Top \in DOMAIN nodes
    BY <1>0, <1>1 DEF Stages
  <2>1. /\ Plant(next, key, pos) /\ grownAtAnEnd' = (grownAtAnEnd \/ s = "middle")
        /\ walk' = [op |-> "insert", stage |-> "grow", key |-> key, pos |-> pos + 1, node |-> next]
    BY <1>4, <1>9 DEF Compares
  <2>2. walk'.op = "insert" /\ walk'.stage = "grow" /\ walk'.key = key /\ walk'.pos = pos + 1 /\ walk'.node = next
    BY <2>1
  <2>4. TreeTypeOK'
    <3>1. walk' \in [op : {"none", "insert", "find", "findprefix"},
                     stage : {"descend", "grow", "collect", "end"},
                     key : Words \cup Probes \cup {Nothing}, pos : Nat, node : Seq(Links)]
      BY <1>1, <1>2, <2>1
    <3>2. /\ DOMAIN nodes' \subseteq Seq(Links) /\ next \in DOMAIN nodes'
          /\ \A a \in DOMAIN nodes' : nodes'[a] \in [chr : Nat, value : Words \cup {Nothing}]
          /\ DOMAIN spelled' = DOMAIN nodes' /\ \A a \in DOMAIN nodes' : spelled'[a] \in Seq(Nat)
      BY <1>0, <1>1, <1>2, <2>1, PlantingTypes
    <3>3. grownAtAnEnd' \in BOOLEAN
      BY <2>1
    <3> QED BY <1>0, <1>3, <3>1, <3>2, <3>3 DEF TreeTypeOK
  <2>5. Stages'
    <3>1. pos + 1 \in 2 .. Len(key) + 1 /\ next \in DOMAIN nodes' /\ Top \in DOMAIN nodes'
      BY <1>1, <2>0, <2>1 DEF Plant
    <3> QED BY <1>1, <2>2, <3>1 DEF Stages
  <2>6. ASSUME ~grownAtAnEnd' PROVE WordInv'
    <3>1. ~grownAtAnEnd /\ s # "middle"
      BY <1>5, <2>1, <2>6
    <3>0. /\ WordInv /\ NodesLinked /\ Spelling /\ Storing
          /\ Len(spelled[at]) = pos
          /\ Agree(key, spelled[at], pos - 1) /\ IsOnWay(key, at)
          /\ Gathered(key, pos, at)
          /\ collecting = <<>> /\ results = NoResults
      BY <1>6, <3>1
    <3>2. /\ Goes(key, spelled[at], s) /\ pos = Reaches(Len(spelled[at]), s)
          /\ Unspelled(key, pos)
      <4>1. /\ Goes(key, spelled[at], s)
            /\ \A b \in DOMAIN nodes : Len(spelled[b]) >= pos /\ Agree(key, spelled[b], pos) => IsBelow(b, at, s)
        BY <1>0, <1>1, <1>2, <3>0, <3>1, Comparison
      <4>2. \A b \in DOMAIN nodes : ~IsBelow(b, at, s)
        BY <1>1, <1>2, <1>9, <3>0 DEF NodesLinked
      <4>3. pos = Reaches(Len(spelled[at]), s)
        BY <3>0, <3>1 DEF Reaches
      <4> QED BY <4>1, <4>2, <4>3 DEF Unspelled
    <3>3. /\ NodesLinked' /\ Spelling' /\ Storing' /\ IsOnWay(key, next)'
          /\ HasNoBranch(next)'
      BY <1>0, <1>1, <1>2, <1>3, <1>9, <2>0, <2>1, <3>0, <3>2, Planting
    <3>4. Growing'
      <4>1. pos + 1 \in Nat /\ pos = (pos + 1) - 1
        BY <1>1
      <4>2. /\ DOMAIN nodes' = DOMAIN nodes \cup {next}
            /\ \A b \in DOMAIN nodes : spelled'[b] = spelled[b]
            /\ spelled'[next] = SubSeq(key, 1, pos)
        BY <1>9, <2>1 DEF Plant
      <4> QED BY <1>0, <1>1, <2>2, <3>2, <3>3, <4>1, <4>2, Grown
    <3>5. WayDown' /\ Collecting'
      BY <1>3, <3>0, <2>2, <3>1 DEF WayDown, Collecting
    <3> QED BY <3>3, <3>4, <3>5 DEF WordInv
  <2> QED BY <2>4, <2>5, <2>6 DEF TreeInv
<1> QED BY <1>7, <1>8, <1>9

LEMMA TreeGrows ==
  ASSUME TreeInv, Grows,
         NEW key, key = walk.key, NEW pos, pos = walk.pos, NEW at, at = walk.node,
         NEW next, next = Append(at, "middle")
  PROVE  TreeInv'
<1>0. TreeTypeOK /\ Stages /\ walk.op = "insert" /\ walk.stage = "grow" /\ pos <= Len(key)
  BY DEF TreeInv, Grows, Stages
<1>1. /\ key \in Seq(Nat) /\ key \in Words /\ Len(key) \in Nat /\ pos \in Nat /\ at \in Seq(Links)
      /\ at \in DOMAIN nodes /\ pos \in 2 .. Len(key) + 1
  BY <1>0, KeysAreWords, WalkIsTyped DEF Stages
<1>2. "middle" \in Links /\ next \in Seq(Links) /\ pos \in 1 .. Len(key)
  BY <1>0, <1>1, LinksAreThree, BranchIsBelow
<1>3. UNCHANGED <<inserted, grownAtAnEnd, collecting, results>> /\ Plant(next, key, pos)
  BY DEF Grows, lookingVars
<1>4. walk' = [op |-> "insert", stage |-> "grow", key |-> key, pos |-> pos + 1, node |-> next]
  <2>1. walk = [op |-> "insert", stage |-> "grow", key |-> key, pos |-> pos, node |-> at]
    BY <1>0, WalkIsTyped
  <2>2. walk' = [walk EXCEPT !.pos = pos + 1, !.node = next]
    BY DEF Grows
  <2>3. walk' = [op |-> walk.op, stage |-> walk.stage, key |-> walk.key, pos |-> pos + 1, node |-> next]
    BY <1>0, <2>2, WalkIsTyped
  <2> QED BY <1>0, <2>3
<1>5. walk'.op = "insert" /\ walk'.stage = "grow" /\ walk'.key = key /\ walk'.pos = pos + 1 /\ walk'.node = next
  BY <1>4
<1>9. Top \in DOMAIN nodes
  BY <1>0, <1>1 DEF Stages
<1>6. TreeTypeOK'
  <2>1. walk' \in [op : {"none", "insert", "find", "findprefix"},
                   stage : {"descend", "grow", "collect", "end"},
                   key : Words \cup Probes \cup {Nothing}, pos : Nat, node : Seq(Links)]
    BY <1>1, <1>2, <1>4
  <2>2. /\ DOMAIN nodes' \subseteq Seq(Links) /\ next \in DOMAIN nodes'
        /\ \A a \in DOMAIN nodes' : nodes'[a] \in [chr : Nat, value : Words \cup {Nothing}]
        /\ DOMAIN spelled' = DOMAIN nodes' /\ \A a \in DOMAIN nodes' : spelled'[a] \in Seq(Nat)
    BY <1>0, <1>1, <1>2, <1>3, PlantingTypes
  <2> QED BY <1>0, <1>3, <2>1, <2>2 DEF TreeTypeOK
<1>7. Stages'
  <2>1. pos + 1 \in 2 .. Len(key) + 1 /\ next \in DOMAIN nodes' /\ Top \in DOMAIN nodes'
    BY <1>2, <1>3, <1>9 DEF Plant
  <2> QED BY <1>1, <1>5, <2>1 DEF Stages
<1>8. ASSUME ~grownAtAnEnd' PROVE WordInv'
  <2>1. WordInv /\ Spelling /\ NodesLinked /\ Collecting
    BY <1>3, <1>8 DEF TreeInv, WordInv
  <2>2. /\ Len(spelled[at]) = pos - 1 /\ Agree(key, spelled[at], pos - 1) /\ IsOnWay(key, at)
        /\ HasNoBranch(at)
        /\ Unspelled(key, pos)
    BY <1>0, <2>1 DEF WordInv, Growing
  <2>3. next \notin DOMAIN nodes
    BY <1>1, <1>2, <2>2, BranchIsBelow DEF HasNoBranch
  <2>4. pos = Reaches(Len(spelled[at]), "middle")
    BY <1>1, <2>2 DEF Reaches
  <2>5. Goes(key, spelled[at], "middle")
    <3>1. spelled[at] \in Seq(Nat) /\ Len(spelled[at]) > 0
      BY <1>0, <1>1, <2>1, NodesAreTyped DEF Spelling
    <3>2. Len(key) > Len(spelled[at]) /\ Agree(key, spelled[at], Len(spelled[at]))
      BY <1>2, <2>2
    <3> QED BY <1>1, <3>1, <3>2, MiddleGoes
  <2>6. /\ NodesLinked' /\ Spelling' /\ Storing' /\ IsOnWay(key, next)'
        /\ HasNoBranch(next)'
    BY <1>0, <1>1, <1>2, <1>3, <1>9, <2>1, <2>2, <2>3, <2>4, <2>5, Planting
  <2>7. Growing'
    <3>1. /\ DOMAIN nodes' = DOMAIN nodes \cup {next}
          /\ \A b \in DOMAIN nodes : spelled'[b] = spelled[b]
          /\ spelled'[next] = SubSeq(key, 1, pos)
      BY <1>3, <2>3 DEF Plant
    <3> QED BY <1>0, <1>1, <1>2, <1>5, <2>2, <2>6, <3>1, Grown
  <2>8. WayDown' /\ Collecting'
    BY <1>0, <1>3, <1>5, <2>1 DEF WayDown, Collecting
  <2> QED BY <2>6, <2>7, <2>8 DEF WordInv
<1> QED BY <1>6, <1>7, <1>8 DEF TreeInv

\* A key that a node was made for
LEMMA IsSpelled ==
  ASSUME NEW v \in Seq(Nat), NEW w \in Seq(Nat), Len(v) = Len(w), Agree(w, v, Len(w))
  PROVE  v = w
<1>1. \A i \in 1 .. Len(w) : v[i] = w[i]
  BY DEF Agree
<1> QED BY <1>1, SeqEqual

LEMMA TreeStores ==
  ASSUME TreeInv, Stores,
         NEW key, key = walk.key, NEW pos, pos = walk.pos, NEW at, at = walk.node
  PROVE  TreeInv'
<1>0. TreeTypeOK /\ Stages /\ walk.op = "insert" /\ walk.stage = "grow" /\ pos > Len(key)
  BY DEF TreeInv, Stores, Stages
<1>1. /\ key \in Seq(Nat) /\ key \in Words /\ key # Nothing /\ Len(key) \in Nat /\ pos \in Nat
      /\ at \in DOMAIN nodes /\ pos \in 2 .. Len(key) + 1
  BY <1>0, KeysAreWords, WalkIsTyped DEF Stages, Nothing
<1>2. UNCHANGED <<spelled, grownAtAnEnd, collecting, results>> /\ walk' = Idle
  BY DEF Stores, lookingVars
<1>3. walk'.op = "none" /\ walk'.stage = "end"
  BY <1>2 DEF Idle
<1>4. walk' \in [op : {"none", "insert", "find", "findprefix"},
                 stage : {"descend", "grow", "collect", "end"},
                 key : Words \cup Probes \cup {Nothing}, pos : Nat, node : Seq(Links)]
  BY <1>2, EmptySeq DEF Idle, Top
<1>5. ASSUME ~grownAtAnEnd
      PROVE  WordInv /\ NodesLinked /\ Spelling /\ Storing /\ spelled[at] = key
  <2>1. WordInv /\ NodesLinked /\ Spelling /\ Storing /\ Growing
    BY <1>5 DEF TreeInv, WordInv
  <2>2. Len(spelled[at]) = pos - 1 /\ Agree(key, spelled[at], pos - 1)
    BY <1>0, <2>1 DEF Growing
  <2>3. pos - 1 = Len(key)
    BY <1>0, <1>1
  <2>4. spelled[at] \in Seq(Nat)
    BY <1>0, <1>1, NodesAreTyped
  <2>5. spelled[at] = key
    BY <1>1, <2>2, <2>3, <2>4, IsSpelled
  <2> QED BY <2>1, <2>5
<1>6. Top \in DOMAIN nodes
  BY <1>0, <1>1 DEF Stages
<1>7. CASE nodes[at].value = Nothing
  <2>1. nodes' = [nodes EXCEPT ![at].value = key] /\ inserted' = inserted \cup {key}
    BY <1>7 DEF Stores
  <2>2. DOMAIN nodes' = DOMAIN nodes /\ \A a \in DOMAIN nodes : a # at => nodes'[a] = nodes[a]
    BY <2>1
  <2>3. nodes'[at] = [nodes[at] EXCEPT !.value = key]
    BY <1>1, <2>1
  <2>4. nodes[at] = [chr |-> nodes[at].chr, value |-> nodes[at].value] /\ nodes[at].chr \in Nat
    BY <1>0, <1>1, NodesAreTyped
  <2>5. nodes'[at] = [chr |-> nodes[at].chr, value |-> key]
    BY <2>3, <2>4
  <2>6. nodes'[at].chr = nodes[at].chr /\ nodes'[at].value = key
    BY <2>5
  <2>7. TreeTypeOK'
    <3>1. nodes'[at] \in [chr : Nat, value : Words \cup {Nothing}]
      BY <1>1, <2>4, <2>5
    <3> QED BY <1>0, <1>1, <1>2, <1>4, <2>1, <2>2, <3>1 DEF TreeTypeOK
  <2>8. Stages'
    BY <1>2, <1>3, <1>6, <2>2 DEF Stages
  <2>9. ASSUME ~grownAtAnEnd' PROVE WordInv'
    <3>1. WordInv /\ NodesLinked /\ Spelling /\ Storing /\ spelled[at] = key
      BY <1>2, <1>5, <2>9
    <3>2. NodesLinked'
      BY <2>2, <3>1 DEF NodesLinked
    <3>3. Spelling'
      <4>1. \A a \in DOMAIN nodes : nodes'[a].chr = nodes[a].chr
        BY <2>2, <2>6
      <4> QED BY <1>2, <2>2, <3>1, <4>1 DEF Spelling, IsOnWay
    <3>4. Storing'
      <4>1. ASSUME NEW a \in DOMAIN nodes', nodes'[a].value # Nothing
            PROVE  nodes'[a].value = spelled'[a] /\ nodes'[a].value \in inserted'
        <5>1. CASE a = at
          BY <1>2, <2>1, <2>6, <3>1, <5>1
        <5>2. CASE a # at
          BY <1>2, <2>1, <2>2, <3>1, <4>1, <5>2 DEF Storing
        <5> QED BY <5>1, <5>2
      <4>2. ASSUME NEW w \in inserted' PROVE \E a \in DOMAIN nodes' : nodes'[a].value = w
        <5>1. CASE w = key
          BY <1>1, <2>2, <2>6, <5>1
        <5>2. CASE w \in inserted
          <6>1. PICK a \in DOMAIN nodes : nodes[a].value = w
            BY <3>1, <5>2 DEF Storing
          <6>2. w # Nothing
            BY <1>0, <5>2, TernaryAssumption DEF TreeTypeOK, Nothing
          <6>3. a # at
            BY <1>7, <6>1, <6>2
          <6> QED BY <2>2, <6>1, <6>3
        <5> QED BY <2>1, <5>1, <5>2
      <4> QED BY <4>1, <4>2 DEF Storing
    <3>5. WayDown' /\ Growing' /\ Collecting'
      <4>1. collecting = <<>> /\ results = NoResults
        BY <1>0, <3>1 DEF WordInv, Collecting
      <4> QED BY <1>2, <1>3, <4>1 DEF WayDown, Growing, Collecting
    <3> QED BY <3>2, <3>3, <3>4, <3>5 DEF WordInv
  <2> QED BY <2>7, <2>8, <2>9 DEF TreeInv
<1>8. CASE nodes[at].value # Nothing
  <2>1. nodes' = nodes /\ inserted' = inserted
    BY <1>8 DEF Stores
  <2>2. TreeTypeOK'
    BY <1>0, <1>2, <1>4, <2>1 DEF TreeTypeOK
  <2>3. Stages'
    BY <1>2, <1>3, <1>6, <2>1 DEF Stages
  <2>4. ASSUME ~grownAtAnEnd' PROVE WordInv'
    <3>1. WordInv /\ NodesLinked /\ Spelling /\ Storing
      BY <1>2, <1>5, <2>4
    <3>2. collecting = <<>> /\ results = NoResults
      BY <1>0, <3>1 DEF WordInv, Collecting
    <3>3. WayDown' /\ Growing' /\ Collecting'
      BY <1>2, <1>3, <3>2 DEF WayDown, Growing, Collecting
    <3> QED BY <1>2, <2>1, <3>1, <3>3, NodesStay DEF WordInv
  <2> QED BY <2>2, <2>3, <2>4 DEF TreeInv
<1> QED BY <1>7, <1>8

LEMMA TreeLooksUp ==
  ASSUME TreeInv, NEW kind \in {"find", "findprefix"}, NEW key \in Probes, LooksUp(kind, key)
  PROVE  TreeInv'
<1>0. TreeTypeOK /\ Stages /\ key \in Seq(Nat) /\ Len(key) \in Nat /\ Len(key) > 0
  BY TernaryAssumption, EmptySeq DEF TreeInv
<1>1. /\ walk.stage = "end" /\ UNCHANGED <<nodes, spelled, inserted, grownAtAnEnd, collecting, results>>
      /\ walk' = [op |-> kind, stage |-> IF DOMAIN nodes = {} THEN "collect" ELSE "descend",
                  key |-> key, pos |-> 1, node |-> Top]
  BY DEF LooksUp, plantedVars, lookingVars, Idle
<1>2. /\ walk'.op = kind /\ walk'.stage = IF DOMAIN nodes = {} THEN "collect" ELSE "descend"
      /\ walk'.key = key /\ walk'.pos = 1 /\ walk'.node = Top
  BY <1>1
<1>3. TreeTypeOK'
  <2>1. walk' \in [op : {"none", "insert", "find", "findprefix"},
                   stage : {"descend", "grow", "collect", "end"},
                   key : Words \cup Probes \cup {Nothing}, pos : Nat, node : Seq(Links)]
    BY <1>1, EmptySeq DEF Top
  <2> QED BY <1>0, <1>1, <2>1 DEF TreeTypeOK
<1>4. Stages'
  <2>1. 1 \in 1 .. Len(key)
    BY <1>0
  <2> QED BY <1>0, <1>1, <1>2, <2>1 DEF Stages
<1>5. ASSUME ~grownAtAnEnd' PROVE WordInv'
  <2>1. WordInv /\ Storing /\ collecting = <<>> /\ results = NoResults
    BY <1>1, <1>5 DEF TreeInv, WordInv, Collecting
  <2>2. Growing'
    BY <1>2 DEF Growing
  <2>3. CASE DOMAIN nodes = {}
    <3>1. inserted = {} /\ DOMAIN collecting = {}
      BY <2>1, <2>3 DEF Storing
    <3>2. Collecting'
      BY <1>1, <1>2, <2>1, <2>3, <3>1 DEF Collecting, NoResults
    <3>3. WayDown'
      BY <1>2, <2>3 DEF WayDown
    <3> QED BY <1>1, <2>1, <2>2, <3>2, <3>3, NodesStay DEF WordInv
  <2>4. CASE DOMAIN nodes # {}
    <3>1. Top \in DOMAIN nodes
      BY <1>0, <2>4 DEF Stages
    <3>2. WayDown'
      <4>1. /\ 1 \in 1 .. Len(key) /\ Len(spelled'[Top]) = 1
            /\ Agree(key, spelled'[Top], 1 - 1) /\ IsOnWay(key, Top)' /\ Gathered(key, 1, Top)'
        BY <1>0, <1>1, <2>1, <3>1, StartsAtTop, NodesStay
      <4> QED BY <1>1, <1>2, <4>1 DEF WayDown
    <3>3. Collecting'
      BY <1>1, <1>2, <2>1, <2>4 DEF Collecting
    <3> QED BY <1>1, <2>1, <2>2, <3>2, <3>3, NodesStay DEF WordInv
  <2> QED BY <2>3, <2>4
<1> QED BY <1>3, <1>4, <1>5 DEF TreeInv

LEMMA TreeAnswers ==
  ASSUME TreeInv, Answers
  PROVE  TreeInv'
<1>1. /\ UNCHANGED <<nodes, spelled, inserted, grownAtAnEnd, collecting>> /\ collecting = <<>>
      /\ walk' = Idle /\ results' = NoResults
  BY DEF Answers, plantedVars
<1>2. walk'.op = "none" /\ walk'.stage = "end"
  BY <1>1 DEF Idle
<1>3. TreeTypeOK'
  <2>1. walk' \in [op : {"none", "insert", "find", "findprefix"},
                   stage : {"descend", "grow", "collect", "end"},
                   key : Words \cup Probes \cup {Nothing}, pos : Nat, node : Seq(Links)]
    BY <1>1, EmptySeq DEF Idle, Top
  <2>2. results' \in [Words -> Nat]
    BY <1>1 DEF NoResults
  <2> QED BY <1>1, <2>1, <2>2 DEF TreeInv, TreeTypeOK
<1>4. Stages'
  BY <1>1, <1>2 DEF TreeInv, Stages
<1>5. ASSUME ~grownAtAnEnd' PROVE WordInv'
  <2>1. WordInv
    BY <1>1, <1>5 DEF TreeInv
  <2>2. WayDown' /\ Growing' /\ Collecting'
    BY <1>1, <1>2 DEF WayDown, Growing, Collecting
  <2> QED BY <1>1, <2>1, <2>2, NodesStay DEF WordInv
<1> QED BY <1>3, <1>4, <1>5 DEF TreeInv

\* A word that is asked for begins with the key.
LEMMA AskedAgrees ==
  ASSUME NEW w \in Seq(Nat), Asked(w), NEW key \in Seq(Nat), key = walk.key, NEW n \in 1 .. Len(key)
  PROVE  Len(w) >= n /\ Agree(key, w, n)
<1>1. Len(w) >= Len(key) /\ \A i \in 1 .. Len(key) : w[i] = key[i]
  <2>1. CASE w = key
    <3>1. Len(key) >= Len(key)
      OBVIOUS
    <3> QED BY <2>1, <3>1, Zenon
  <2>2. CASE BeginsWith(w, key)
    BY <2>2, Zenon DEF BeginsWith
  <2>3. w = key \/ BeginsWith(w, key)
    BY Zenon DEF Asked
  <2> QED BY <2>1, <2>2, <2>3
<1>2. Len(w) >= n /\ \A i \in 1 .. n : i \in 1 .. Len(key)
  BY <1>1
<1> QED BY <1>1, <1>2 DEF Agree

\* The value of a node is put into the result, or it has none.
LEMMA PutIn ==
  ASSUME TreeTypeOK, Storing, NEW a \in DOMAIN nodes, results' = WithValue(a)
  PROVE  /\ results' \in [Words -> Nat]
         /\ \A w \in Words : w # spelled[a] \/ nodes[a].value = Nothing => results'[w] = results[w]
         /\ nodes[a].value # Nothing =>
              /\ spelled[a] \in Words /\ spelled[a] \in inserted
              /\ results'[spelled[a]] = results[spelled[a]] + 1
<1>1. results \in [Words -> Nat] /\ nodes[a].value \in Words \cup {Nothing}
  BY NodesAreTyped DEF TreeTypeOK
<1>2. CASE nodes[a].value = Nothing
  BY <1>1, <1>2 DEF WithValue
<1>3. CASE nodes[a].value # Nothing
  <2>1. results' = [results EXCEPT ![nodes[a].value] = results[nodes[a].value] + 1]
    BY <1>3 DEF WithValue
  <2>2. nodes[a].value = spelled[a] /\ spelled[a] \in inserted /\ spelled[a] \in Words
    BY <1>1, <1>3 DEF Storing
  <2>3. results' \in [Words -> Nat] /\ results'[nodes[a].value] = results[nodes[a].value] + 1
    BY <1>1, <2>1, <2>2
  <2>4. \A w \in Words : w # nodes[a].value => results'[w] = results[w]
    BY <1>1, <2>1
  <2> QED BY <1>3, <2>2, <2>3, <2>4
<1> QED BY <1>2, <1>3

\* The same where the nodes are not typed as words
LEMMA PutInTyped ==
  ASSUME TreeTypeOK, NEW a \in DOMAIN nodes, results' = WithValue(a)
  PROVE  results' \in [Words -> Nat]
<1>1. results \in [Words -> Nat] /\ nodes[a].value \in Words \cup {Nothing}
  BY NodesAreTyped DEF TreeTypeOK
<1> QED BY <1>1 DEF WithValue

\* The nodes below a branch are those at it or under it.
LEMMA UnderABranch ==
  ASSUME TreeTypeOK, NEW a \in DOMAIN nodes, NEW b \in DOMAIN nodes, NEW s \in Links
  PROVE  /\ AtOrUnder(b, Append(a, s)) <=> IsBelow(b, a, s)
         /\ ~AtOrUnder(a, Append(a, s))
         /\ AtOrUnder(b, a) <=> b = a \/ \E t \in Links : IsBelow(b, a, t)
<1>1. a \in Seq(Links) /\ b \in Seq(Links)
  BY NodesAreTyped
<1>2. ASSUME AtOrUnder(b, Append(a, s)) PROVE IsBelow(b, a, s)
  <2>1. IsBelow(Append(a, s), a, s)
    BY <1>1, BranchIsBelow
  <2>2. \A t \in Links : IsBelow(b, Append(a, s), t) => IsBelow(b, a, s)
    BY <1>1, BelowABranch
  <2> QED BY <1>2, <2>1, <2>2 DEF AtOrUnder
<1>3. ASSUME IsBelow(b, a, s) PROVE AtOrUnder(b, Append(a, s))
  <2>1. b = Append(a, s) \/ \E t \in Links : IsBelow(b, Append(a, s), t)
    BY <1>1, <1>3, BranchesBelow
  <2> QED BY <2>1 DEF AtOrUnder
<1>4. ~AtOrUnder(a, Append(a, s))
  BY <1>1, BelowABranch, BranchIsBelow DEF AtOrUnder
<1> QED BY <1>2, <1>3, <1>4 DEF AtOrUnder

LEMMA TreeLooksOn ==
  ASSUME TreeInv, LooksOn,
         NEW key, key = walk.key, NEW pos, pos = walk.pos, NEW at, at = walk.node,
         NEW s, s = Chosen, NEW next, next = Next
  PROVE  TreeInv'
<1>0. TreeTypeOK /\ Stages /\ walk.op \in {"find", "findprefix"} /\ walk.stage = "descend"
  BY DEF TreeInv, LooksOn
<1>1. /\ key \in Seq(Nat) /\ key \in Probes /\ pos \in Nat /\ at \in Seq(Links)
      /\ at \in DOMAIN nodes /\ pos \in 1 .. Len(key)
  BY <1>0, KeysAreWords, WalkIsTyped DEF Stages
<1>2. s = Link(key[pos], nodes[at].chr) /\ next = Append(at, s) /\ s \in Links /\ next \in Seq(Links)
  BY <1>1, LinksAreThree, BranchIsBelow DEF Chosen, Next
<1>3. UNCHANGED <<nodes, spelled, inserted, grownAtAnEnd>>
  BY DEF LooksOn, plantedVars
<1>4. walk = [op |-> walk.op, stage |-> "descend", key |-> key, pos |-> pos, node |-> at]
  BY <1>0, WalkIsTyped
<1>5. ASSUME ~grownAtAnEnd
      PROVE  /\ WordInv /\ NodesLinked /\ Spelling /\ Storing
             /\ Len(spelled[at]) = pos
             /\ Agree(key, spelled[at], pos - 1) /\ IsOnWay(key, at)
             /\ Gathered(key, pos, at)
             /\ collecting = <<>> /\ results = NoResults
  BY <1>0, <1>5 DEF TreeInv, WordInv, WayDown, Collecting
<1>6. ASSUME walk'.op = walk.op, walk'.key = walk.key
      PROVE  \A w : Asked(w)' = Asked(w)
  BY <1>6 DEF Asked
<1>7. ASSUME NEW stage \in {"descend", "collect"}, NEW n \in 1 .. Len(key), NEW a \in DOMAIN nodes,
             walk' = [op |-> walk.op, stage |-> stage, key |-> key, pos |-> n, node |-> a]
      PROVE  /\ walk'.op = walk.op /\ walk'.stage = stage /\ walk'.key = key /\ walk'.pos = n /\ walk'.node = a
             /\ walk' \in [op : {"none", "insert", "find", "findprefix"},
                           stage : {"descend", "grow", "collect", "end"},
                           key : Words \cup Probes \cup {Nothing}, pos : Nat, node : Seq(Links)]
             /\ Stages'
  <2>1. walk'.op = walk.op /\ walk'.stage = stage /\ walk'.key = key /\ walk'.pos = n /\ walk'.node = a
    BY <1>7
  <2>2. walk' \in [op : {"none", "insert", "find", "findprefix"},
                   stage : {"descend", "grow", "collect", "end"},
                   key : Words \cup Probes \cup {Nothing}, pos : Nat, node : Seq(Links)]
    <3>1. a \in Seq(Links) /\ n \in Nat
      BY <1>0, NodesAreTyped
    <3> QED BY <1>0, <1>1, <1>7, <3>1
  <2>3. Stages'
    BY <1>0, <1>1, <1>3, <2>1 DEF Stages
  <2> QED BY <2>1, <2>2, <2>3
<1>8. CASE Matched
  <2>1. /\ s = "middle" /\ pos = Len(key) /\ results' = WithValue(at)
        /\ collecting' = IF walk.op = "find" THEN <<>> ELSE << Append(at, "middle") >>
        /\ walk' = [op |-> walk.op, stage |-> "collect", key |-> key, pos |-> pos, node |-> at]
    <3>1. walk' = [walk EXCEPT !.stage = "collect"]
      BY <1>8 DEF LooksOn
    <3>2. walk' = [op |-> walk.op, stage |-> "collect", key |-> key, pos |-> pos, node |-> at]
      BY <1>4, <3>1
    <3> QED BY <1>8, <3>2 DEF LooksOn, Matched, Continuations
  <2>2. /\ walk'.op = walk.op /\ walk'.stage = "collect" /\ walk'.key = walk.key /\ Stages'
        /\ walk' \in [op : {"none", "insert", "find", "findprefix"},
                      stage : {"descend", "grow", "collect", "end"},
                      key : Words \cup Probes \cup {Nothing}, pos : Nat, node : Seq(Links)]
    BY <1>1, <1>7, <2>1
  <2>3. TreeTypeOK'
    <3>1. results' \in [Words -> Nat]
      BY <1>0, <1>1, <2>1, PutInTyped
    <3>2. collecting' \in Seq(Seq(Links))
      <4>1. Append(at, "middle") \in Seq(Links)
        BY <1>1, LinksAreThree
      <4> QED BY <2>1, <4>1
    <3> QED BY <1>0, <1>3, <2>2, <3>1, <3>2 DEF TreeTypeOK
  <2>4. ASSUME ~grownAtAnEnd' PROVE WordInv'
    <3>0. /\ WordInv /\ NodesLinked /\ Spelling /\ Storing
          /\ Len(spelled[at]) = pos
          /\ Agree(key, spelled[at], pos - 1) /\ IsOnWay(key, at)
          /\ Gathered(key, pos, at)
          /\ collecting = <<>> /\ results = NoResults
      BY <1>3, <1>5, <2>4
    <3>1. spelled[at] = key
      <4>1. Agree(key, spelled[at], pos)
        BY <1>0, <1>1, <1>2, <2>1, <3>0, Comparison
      <4>2. spelled[at] \in Seq(Nat)
        BY <1>0, <1>1, NodesAreTyped
      <4>3. Agree(spelled[at], key, pos)
        BY <4>1 DEF Agree
      <4> QED BY <1>1, <2>1, <3>0, <4>2, <4>3, IsSpelled
    <3>2. ASSUME NEW b \in DOMAIN nodes
          PROVE  IsBelow(b, at, "middle") => BeginsWith(spelled[b], key)
      <4> SUFFICES ASSUME IsBelow(b, at, "middle") PROVE BeginsWith(spelled[b], key)
        OBVIOUS
      <4>0. Goes(spelled[b], spelled[at], "middle")
        BY <1>1, <3>0, LinksAreThree DEF Spelling, IsOnWay
      <4>1. Goes(spelled[b], key, "middle")
        BY <3>1, <4>0
      <4>2. Len(spelled[b]) >= Len(key) /\ Agree(spelled[b], key, Len(key) - 1) /\ spelled[b][Len(key)] = key[Len(key)]
        BY <4>1 DEF Goes
      <4>3. \A i \in 1 .. Len(key) : i \in 1 .. Len(key) - 1 \/ i = Len(key)
        BY <1>1
      <4> QED BY <4>2, <4>3 DEF Agree, BeginsWith
    <3>3. ASSUME NEW b \in DOMAIN nodes, Asked(spelled[b])
          PROVE  b = at \/ IsBelow(b, at, "middle")
      <4>1. Len(spelled[b]) >= pos /\ Agree(key, spelled[b], pos)
        BY <1>0, <1>1, <3>3, AskedAgrees, NodesAreTyped
      <4>2. (b = at /\ s = "middle") \/ IsBelow(b, at, s)
        BY <1>0, <1>1, <1>2, <3>0, <4>1, Comparison
      <4> QED BY <2>1, <4>2
    <3>4. \A w \in Words : results[w] = 0
      BY <3>0 DEF NoResults
    <3>5. Asked(key)
      BY <1>1 DEF Asked, BeginsWith
    <3>6. ASSUME NEW w \in Words, w # key \/ w \notin inserted PROVE results'[w] = 0
      <4>1. w # spelled[at] \/ nodes[at].value = Nothing
        BY <1>0, <1>1, <2>1, <3>0, <3>1, <3>6, PutIn
      <4> QED BY <1>0, <1>1, <2>1, <3>0, <3>4, <4>1, PutIn
    <3>7. nodes[at].value # Nothing => results'[key] = 1
      BY <1>0, <1>1, <2>1, <3>0, <3>1, <3>4, PutIn
    <3>8. \A w \in Words : ~(w \in inserted /\ Asked(w)) => results'[w] = 0
      BY <3>5, <3>6
    <3>9. ASSUME NEW b \in DOMAIN nodes, nodes[b].value # Nothing
          PROVE  spelled[b] \in Words /\ (b # at => spelled[b] # key /\ results'[spelled[b]] = 0)
      <4>1. spelled[b] \in Words
        BY <1>0, <3>0, <3>9, NodesAreTyped DEF Storing
      <4>2. b # at => spelled[b] # key
        BY <1>1, <3>0, <3>1 DEF Spelling
      <4> QED BY <3>6, <4>1, <4>2
    <3>10. CASE walk.op = "find"
      <4>1. DOMAIN collecting' = {}
        BY <2>1, <3>10
      <4>2. ASSUME NEW b \in DOMAIN nodes, nodes[b].value # Nothing, Asked(spelled[b])
            PROVE  results'[spelled[b]] = 1
        <5>1. spelled[b] = key
          BY <1>1, <3>10, <4>2 DEF Asked
        <5>2. b = at
          BY <3>9, <4>2, <5>1
        <5> QED BY <3>7, <4>2, <5>1, <5>2
      <4>3. Collecting'
        BY <1>3, <1>6, <2>2, <3>8, <4>1, <4>2 DEF Collecting
      <4>4. WayDown' /\ Growing'
        BY <2>2 DEF WayDown, Growing
      <4> QED BY <1>3, <3>0, <4>3, <4>4, NodesStay DEF WordInv
    <3>11. CASE walk.op = "findprefix"
      <4>1. collecting' = << Append(at, "middle") >>
        BY <2>1, <3>11
      <4>2. DOMAIN collecting' = {1} /\ collecting'[1] = Append(at, "middle")
        BY <4>1
      <4>3. ASSUME NEW b \in DOMAIN nodes
            PROVE  Holds(1, b)' <=> IsBelow(b, at, "middle")
        BY <1>0, <1>1, <4>2, UnderABranch, LinksAreThree DEF Holds
      <4>4. ASSUME NEW b \in DOMAIN nodes, Holds(1, b)' PROVE Asked(spelled[b])
        BY <1>1, <3>2, <3>11, <4>3, <4>4 DEF Asked
      <4>5. ASSUME NEW b \in DOMAIN nodes, nodes[b].value # Nothing, Asked(spelled[b])
            PROVE  \/ results'[spelled[b]] = 1 /\ ~Holds(1, b)'
                   \/ results'[spelled[b]] = 0 /\ Holds(1, b)'
        <5>1. CASE b = at
          <6>1. ~Holds(1, b)'
            BY <1>0, <1>1, <4>2, <5>1, UnderABranch, LinksAreThree DEF Holds
          <6> QED BY <3>1, <3>7, <4>5, <5>1, <6>1
        <5>2. CASE b # at
          BY <3>3, <3>9, <4>3, <4>5, <5>2
        <5> QED BY <5>1, <5>2
      <4>6. \E a \in DOMAIN nodes, t \in Links : collecting'[1] = Append(a, t)
        BY <1>1, <4>2, LinksAreThree
      <4>7. Collecting'
        BY <1>3, <1>6, <2>2, <3>8, <4>2, <4>4, <4>5, <4>6 DEF Collecting
      <4>8. WayDown' /\ Growing'
        BY <2>2 DEF WayDown, Growing
      <4> QED BY <1>3, <3>0, <4>7, <4>8, NodesStay DEF WordInv
    <3> QED BY <1>0, <3>10, <3>11
  <2> QED BY <2>2, <2>3, <2>4 DEF TreeInv
<1>9. CASE ~Matched /\ next \in DOMAIN nodes
  <2> DEFINE n == Reaches(pos, s)
  <2>1. /\ UNCHANGED <<collecting, results>>
        /\ walk' = [op |-> walk.op, stage |-> "descend", key |-> key, pos |-> n, node |-> next]
    <3>1. Follow /\ UNCHANGED <<collecting, results>>
      BY <1>9 DEF LooksOn, lookingVars
    <3>2. walk' = [walk EXCEPT !.node = next, !.pos = n]
      BY <3>1 DEF Follow, Reaches
    <3>3. walk' = [op |-> walk.op, stage |-> walk.stage, key |-> walk.key, pos |-> n, node |-> next]
      BY <1>0, <3>2, WalkIsTyped
    <3> QED BY <1>0, <3>1, <3>3
  <2>2. n \in 1 .. Len(key)
    BY <1>1, <1>9 DEF Matched, Reaches
  <2> HIDE DEF n
  <2>3. /\ walk'.op = walk.op /\ walk'.stage = "descend" /\ walk'.key = key /\ walk'.pos = n /\ walk'.node = next
        /\ Stages'
        /\ walk' \in [op : {"none", "insert", "find", "findprefix"},
                      stage : {"descend", "grow", "collect", "end"},
                      key : Words \cup Probes \cup {Nothing}, pos : Nat, node : Seq(Links)]
    BY <1>7, <1>9, <2>1, <2>2
  <2>4. TreeTypeOK'
    BY <1>0, <1>3, <2>1, <2>3 DEF TreeTypeOK
  <2>5. ASSUME ~grownAtAnEnd' PROVE WordInv'
    <3>0. /\ WordInv /\ NodesLinked /\ Spelling /\ Storing
          /\ Len(spelled[at]) = pos
          /\ Agree(key, spelled[at], pos - 1) /\ IsOnWay(key, at)
          /\ Gathered(key, pos, at)
          /\ collecting = <<>> /\ results = NoResults
      BY <1>3, <1>5, <2>5
    <3>1. WayDown'
      <4>1. s # "middle" \/ pos < Len(key)
        BY <1>1, <1>9 DEF Matched
      <4>2. /\ n \in 1 .. Len(key) /\ Len(spelled[next]) = n
            /\ Agree(key, spelled[next], n - 1) /\ IsOnWay(key, next) /\ Gathered(key, n, next)
        BY <1>0, <1>1, <1>2, <1>9, <3>0, <4>1, Following DEF n
      <4>3. IsOnWay(key, next)' /\ Gathered(key, n, next)'
        BY <1>3, <4>2, NodesStay
      <4> QED BY <1>3, <2>3, <4>2, <4>3 DEF WayDown
    <3>2. Growing' /\ Collecting'
      BY <2>1, <2>3, <3>0 DEF Growing, Collecting
    <3> QED BY <1>3, <3>0, <3>1, <3>2, NodesStay DEF WordInv
  <2> QED BY <2>3, <2>4, <2>5 DEF TreeInv
<1>10. CASE ~Matched /\ next \notin DOMAIN nodes
  <2>1. /\ UNCHANGED <<collecting, results>>
        /\ walk' = [op |-> walk.op, stage |-> "collect", key |-> key, pos |-> pos, node |-> at]
    <3>1. walk' = [walk EXCEPT !.stage = "collect"] /\ UNCHANGED <<collecting, results>>
      BY <1>10 DEF LooksOn, lookingVars
    <3> QED BY <1>4, <3>1
  <2>2. /\ walk'.op = walk.op /\ walk'.stage = "collect" /\ walk'.key = walk.key /\ Stages'
        /\ walk' \in [op : {"none", "insert", "find", "findprefix"},
                      stage : {"descend", "grow", "collect", "end"},
                      key : Words \cup Probes \cup {Nothing}, pos : Nat, node : Seq(Links)]
    BY <1>1, <1>7, <2>1
  <2>3. TreeTypeOK'
    BY <1>0, <1>3, <2>1, <2>2 DEF TreeTypeOK
  <2>4. ASSUME ~grownAtAnEnd' PROVE WordInv'
    <3>0. /\ WordInv /\ NodesLinked /\ Spelling /\ Storing
          /\ Len(spelled[at]) = pos
          /\ Agree(key, spelled[at], pos - 1) /\ IsOnWay(key, at)
          /\ Gathered(key, pos, at)
          /\ collecting = <<>> /\ results = NoResults
      BY <1>3, <1>5, <2>4
    <3>1. ASSUME NEW b \in DOMAIN nodes, Asked(spelled[b]) PROVE FALSE
      <4>1. Len(key) \in 1 .. Len(key) /\ spelled[b] \in Seq(Nat)
        BY <1>0, <1>1, NodesAreTyped
      <4>2. Len(spelled[b]) >= pos /\ Agree(key, spelled[b], pos) /\ Len(spelled[b]) >= Len(key)
        BY <1>1, <3>1, <4>1, AskedAgrees
      <4>3. (b = at /\ s = "middle") \/ IsBelow(b, at, s)
        BY <1>0, <1>1, <1>2, <3>0, <4>2, Comparison
      <4>4. ~IsBelow(b, at, s)
        BY <1>1, <1>2, <1>10, <3>0 DEF NodesLinked
      <4>5. s = "middle" => pos < Len(key)
        BY <1>1, <1>10 DEF Matched
      <4> QED BY <1>1, <3>0, <4>2, <4>3, <4>4, <4>5
    <3>2. Collecting'
      <4>1. DOMAIN collecting' = {} /\ \A w \in Words : results'[w] = 0
        BY <2>1, <3>0 DEF NoResults
      <4> QED BY <1>3, <1>6, <2>2, <3>1, <4>1 DEF Collecting
    <3>3. WayDown' /\ Growing'
      BY <2>2 DEF WayDown, Growing
    <3> QED BY <1>3, <3>0, <3>2, <3>3, NodesStay DEF WordInv
  <2> QED BY <2>2, <2>3, <2>4 DEF TreeInv
<1> QED BY <1>8, <1>9, <1>10

\* The branches of a node replace it at the beginning of the queue.
LEMMA BranchesFirst ==
  ASSUME NEW S, NEW q \in Seq(S), q # <<>>, NEW x \in S, NEW y \in S, NEW z \in S,
         NEW r, r = <<x, y, z>> \o Tail(q)
  PROVE  /\ r \in Seq(S) /\ Len(r) = Len(q) + 2 /\ r[1] = x /\ r[2] = y /\ r[3] = z
         /\ \A i \in 1 .. Len(r) : i > 3 => i - 2 \in 2 .. Len(q) /\ r[i] = q[i - 2]
<1>1. /\ Tail(q) \in Seq(S) /\ Len(Tail(q)) = Len(q) - 1 /\ Len(q) > 0 /\ Len(q) \in Nat
      /\ \A i \in 1 .. Len(q) - 1 : Tail(q)[i] = q[i + 1]
  BY EmptySeq
<1>2. <<x, y, z>> \in Seq(S) /\ Len(<<x, y, z>>) = 3
  OBVIOUS
<1> DEFINE u == <<x, y, z>>
<1>3. u[1] = x /\ u[2] = y /\ u[3] = z /\ u \in Seq(S) /\ Len(u) = 3
  BY <1>2
<1> HIDE DEF u
<1>4. /\ r \in Seq(S) /\ Len(r) = 3 + Len(Tail(q))
      /\ \A i \in 1 .. Len(r) : r[i] = IF i <= 3 THEN u[i] ELSE Tail(q)[i - 3]
  <2>1. r = u \o Tail(q)
    BY DEF u
  <2>2. /\ u \o Tail(q) \in Seq(S) /\ Len(u \o Tail(q)) = Len(u) + Len(Tail(q))
        /\ \A i \in 1 .. Len(u) + Len(Tail(q)) :
             (u \o Tail(q))[i] = IF i <= Len(u) THEN u[i] ELSE Tail(q)[i - Len(u)]
    BY <1>1, <1>3, ConcatProperties, Zenon
  <2> QED BY <1>3, <2>1, <2>2
<1>5. Len(r) = Len(q) + 2 /\ Len(r) \in Nat
  BY <1>1, <1>4
<1>6. r[1] = x /\ r[2] = y /\ r[3] = z
  BY <1>1, <1>3, <1>4, <1>5
<1>7. ASSUME NEW i \in 1 .. Len(r), i > 3 PROVE i - 2 \in 2 .. Len(q) /\ r[i] = q[i - 2]
  <2>1. i - 2 \in 2 .. Len(q) /\ i - 3 \in 1 .. Len(q) - 1 /\ (i - 3) + 1 = i - 2
    BY <1>1, <1>5, <1>7
  <2>2. r[i] = Tail(q)[i - 3]
    BY <1>4, <1>7
  <2> QED BY <1>1, <2>1, <2>2
<1> QED BY <1>4, <1>5, <1>6, <1>7

LEMMA TreeCollects ==
  ASSUME TreeInv, Collects, NEW a, a = Head(collecting)
  PROVE  TreeInv'
<1>0. TreeTypeOK /\ Stages
  BY DEF TreeInv
<1>1. UNCHANGED <<nodes, spelled, inserted, grownAtAnEnd, walk>> /\ collecting # <<>>
  BY DEF Collects, plantedVars
<1>2. /\ collecting \in Seq(Seq(Links)) /\ Len(collecting) \in Nat /\ Len(collecting) > 0
      /\ a = collecting[1] /\ a \in Seq(Links) /\ DOMAIN collecting = 1 .. Len(collecting)
  BY <1>0, <1>1, EmptySeq DEF TreeTypeOK
<1>3. \A w : Asked(w)' = Asked(w)
  BY <1>1 DEF Asked
<1>4. Stages' /\ WayDown' = WayDown /\ Growing' = Growing
  <2>1. WayDown' = WayDown
    BY <1>1, NodesStay DEF WayDown
  <2>2. Unspelled(walk.key, walk.pos)' = Unspelled(walk.key, walk.pos) /\ HasNoBranch(walk.node)' = HasNoBranch(walk.node)
    BY <1>1 DEF Unspelled, HasNoBranch
  <2>3. Growing' = Growing
    BY <1>1, <2>2, NodesStay DEF Growing
  <2> QED BY <1>0, <1>1, <2>1, <2>3 DEF Stages
<1>5. ASSUME ~grownAtAnEnd
      PROVE  /\ WordInv /\ NodesLinked /\ Spelling /\ Storing /\ walk.stage = "collect"
             /\ \A i \in DOMAIN collecting :
                  /\ \E c \in DOMAIN nodes, s \in Links : collecting[i] = Append(c, s)
                  /\ \A b \in DOMAIN nodes : Holds(i, b) => Asked(spelled[b])
             /\ \A b \in DOMAIN nodes : nodes[b].value # Nothing /\ Asked(spelled[b]) =>
                  \/ results[spelled[b]] = 1 /\ \A i \in DOMAIN collecting : ~Holds(i, b)
                  \/ results[spelled[b]] = 0 /\ \E i \in DOMAIN collecting :
                       Holds(i, b) /\ \A j \in DOMAIN collecting : Holds(j, b) => j = i
             /\ \A w \in Words : ~(w \in inserted /\ Asked(w)) => results[w] = 0
  BY <1>1, <1>5 DEF TreeInv, WordInv, Collecting
<1>6. ASSUME NEW b \in DOMAIN nodes PROVE Holds(1, b) <=> AtOrUnder(b, a)
  BY <1>2 DEF Holds
<1>7. CASE a \notin DOMAIN nodes
  <2>1. results' = results /\ collecting' = Tail(collecting)
    BY <1>7 DEF Collects
  <2>2. /\ collecting' \in Seq(Seq(Links)) /\ DOMAIN collecting' = 1 .. Len(collecting) - 1
        /\ \A i \in 1 .. Len(collecting) - 1 : i + 1 \in DOMAIN collecting /\ collecting'[i] = collecting[i + 1]
    BY <1>1, <1>2, <2>1
  <2>3. TreeTypeOK'
    BY <1>0, <1>1, <2>1, <2>2 DEF TreeTypeOK
  <2>4. ASSUME ~grownAtAnEnd' PROVE WordInv'
    <3>0. /\ WordInv /\ NodesLinked /\ Spelling /\ Storing /\ walk.stage = "collect"
          /\ \A i \in DOMAIN collecting :
               /\ \E c \in DOMAIN nodes, s \in Links : collecting[i] = Append(c, s)
               /\ \A b \in DOMAIN nodes : Holds(i, b) => Asked(spelled[b])
          /\ \A b \in DOMAIN nodes : nodes[b].value # Nothing /\ Asked(spelled[b]) =>
               \/ results[spelled[b]] = 1 /\ \A i \in DOMAIN collecting : ~Holds(i, b)
               \/ results[spelled[b]] = 0 /\ \E i \in DOMAIN collecting :
                    Holds(i, b) /\ \A j \in DOMAIN collecting : Holds(j, b) => j = i
          /\ \A w \in Words : ~(w \in inserted /\ Asked(w)) => results[w] = 0
      BY <1>1, <1>5, <2>4
    <3>1. ASSUME NEW b \in DOMAIN nodes PROVE ~Holds(1, b)
      <4>1. PICK c \in DOMAIN nodes, s \in Links : a = Append(c, s)
        BY <1>2, <3>0
      <4>2. ~IsBelow(b, c, s)
        BY <1>7, <3>0, <4>1 DEF NodesLinked
      <4>0. AtOrUnder(b, Append(c, s)) <=> IsBelow(b, c, s)
        BY <1>0, UnderABranch
      <4>3. AtOrUnder(b, a) <=> IsBelow(b, c, s)
        BY <4>0, <4>1
      <4> QED BY <1>6, <4>2, <4>3
    <3>2. \A i \in DOMAIN collecting', b \in DOMAIN nodes : Holds(i, b)' <=> Holds(i + 1, b)
      BY <2>2 DEF Holds
    <3>3. \A i \in DOMAIN collecting : i # 1 => i - 1 \in DOMAIN collecting' /\ (i - 1) + 1 = i
      BY <1>2, <2>2
    <3>4. ASSUME NEW b \in DOMAIN nodes, nodes[b].value # Nothing, Asked(spelled[b])
          PROVE  \/ results'[spelled[b]] = 1 /\ \A i \in DOMAIN collecting' : ~Holds(i, b)'
                 \/ results'[spelled[b]] = 0 /\ \E i \in DOMAIN collecting' :
                      Holds(i, b)' /\ \A j \in DOMAIN collecting' : Holds(j, b)' => j = i
      <4>1. CASE results[spelled[b]] = 1 /\ \A i \in DOMAIN collecting : ~Holds(i, b)
        BY <2>1, <2>2, <3>2, <4>1
      <4>2. CASE results[spelled[b]] = 0 /\ \E i \in DOMAIN collecting :
                    Holds(i, b) /\ \A j \in DOMAIN collecting : Holds(j, b) => j = i
        <5>1. PICK i \in DOMAIN collecting : Holds(i, b) /\ \A j \in DOMAIN collecting : Holds(j, b) => j = i
          BY <4>2
        <5>2. i # 1
          BY <3>1, <5>1
        <5>3. i - 1 \in DOMAIN collecting' /\ Holds(i - 1, b)'
          BY <3>2, <3>3, <5>1, <5>2
        <5>4. ASSUME NEW j \in DOMAIN collecting', Holds(j, b)' PROVE j = i - 1
          <6>1. j + 1 = i
            BY <2>2, <3>2, <5>1, <5>4
          <6> QED BY <1>2, <2>2, <6>1
        <5> QED BY <2>1, <4>2, <5>3, <5>4
      <4> QED BY <3>0, <3>4, <4>1, <4>2
    <3>5. ASSUME NEW i \in DOMAIN collecting'
          PROVE  /\ \E c \in DOMAIN nodes, s \in Links : collecting'[i] = Append(c, s)
                 /\ \A b \in DOMAIN nodes : Holds(i, b)' => Asked(spelled[b])
      <4>1. i + 1 \in DOMAIN collecting /\ collecting'[i] = collecting[i + 1]
        BY <2>2
      <4>2. \A b \in DOMAIN nodes : Holds(i + 1, b) => Asked(spelled[b])
        BY <3>0, <4>1
      <4>3. \E c \in DOMAIN nodes, s \in Links : collecting[i + 1] = Append(c, s)
        BY <3>0, <4>1
      <4> QED BY <3>2, <4>1, <4>2, <4>3
    <3>6. Collecting'
      BY <1>1, <1>3, <2>1, <3>0, <3>4, <3>5 DEF Collecting
    <3> QED BY <1>1, <1>4, <3>0, <3>6, NodesStay DEF WordInv
  <2> QED BY <1>4, <2>3, <2>4 DEF TreeInv
<1>8. CASE a \in DOMAIN nodes
  <2> DEFINE first == << Append(a, "left"), Append(a, "middle"), Append(a, "right") >>
  <2>1. results' = WithValue(a) /\ collecting' = first \o Tail(collecting)
    BY <1>8 DEF Collects
  <2>2. Append(a, "left") \in Seq(Links) /\ Append(a, "middle") \in Seq(Links) /\ Append(a, "right") \in Seq(Links)
    BY <1>2, LinksAreThree
  <2>3. /\ collecting' \in Seq(Seq(Links)) /\ Len(collecting') = Len(collecting) + 2
        /\ collecting'[1] = Append(a, "left") /\ collecting'[2] = Append(a, "middle")
        /\ collecting'[3] = Append(a, "right")
        /\ \A i \in 1 .. Len(collecting') : i > 3 =>
             i - 2 \in 2 .. Len(collecting) /\ collecting'[i] = collecting[i - 2]
    BY <1>1, <1>2, <2>1, <2>2, BranchesFirst
  <2> HIDE DEF first
  <2>4. /\ DOMAIN collecting' = 1 .. Len(collecting) + 2
        /\ \A i \in DOMAIN collecting' : i > 3 =>
             i - 2 \in DOMAIN collecting /\ i - 2 # 1 /\ collecting'[i] = collecting[i - 2]
    <3>1. DOMAIN collecting' = 1 .. Len(collecting') /\ DOMAIN collecting = 1 .. Len(collecting)
      BY <1>2, <2>3
    <3>2. DOMAIN collecting' = 1 .. Len(collecting) + 2
      BY <2>3, <3>1
    <3>3. ASSUME NEW i \in DOMAIN collecting', i > 3
          PROVE  i - 2 \in DOMAIN collecting /\ i - 2 # 1 /\ collecting'[i] = collecting[i - 2]
      <4>1. i - 2 \in 2 .. Len(collecting) /\ collecting'[i] = collecting[i - 2]
        BY <2>3, <3>1, <3>3
      <4>2. i - 2 \in 1 .. Len(collecting) /\ i - 2 # 1
        BY <4>1
      <4> QED BY <3>1, <4>1, <4>2
    <3> QED BY <3>2, <3>3
  <2>5. \A i \in DOMAIN collecting : i # 1 =>
          i + 2 \in DOMAIN collecting' /\ i + 2 > 3 /\ (i + 2) - 2 = i /\ collecting'[i + 2] = collecting[i]
    <3> SUFFICES ASSUME NEW i \in DOMAIN collecting, i # 1
                 PROVE  i + 2 \in DOMAIN collecting' /\ i + 2 > 3 /\ (i + 2) - 2 = i /\ collecting'[i + 2] = collecting[i]
      OBVIOUS
    <3>1. i + 2 \in DOMAIN collecting' /\ i + 2 > 3 /\ (i + 2) - 2 = i
      BY <1>2, <2>4
    <3> QED BY <2>4, <3>1
  <2>6. TreeTypeOK'
    <3>1. results' \in [Words -> Nat]
      BY <1>0, <1>8, <2>1, PutInTyped
    <3> QED BY <1>0, <1>1, <2>3, <3>1 DEF TreeTypeOK
  <2>7. ASSUME ~grownAtAnEnd' PROVE WordInv'
    <3>0. /\ WordInv /\ NodesLinked /\ Spelling /\ Storing /\ walk.stage = "collect"
          /\ \A i \in DOMAIN collecting :
               /\ \E c \in DOMAIN nodes, s \in Links : collecting[i] = Append(c, s)
               /\ \A b \in DOMAIN nodes : Holds(i, b) => Asked(spelled[b])
          /\ \A b \in DOMAIN nodes : nodes[b].value # Nothing /\ Asked(spelled[b]) =>
               \/ results[spelled[b]] = 1 /\ \A i \in DOMAIN collecting : ~Holds(i, b)
               \/ results[spelled[b]] = 0 /\ \E i \in DOMAIN collecting :
                    Holds(i, b) /\ \A j \in DOMAIN collecting : Holds(j, b) => j = i
          /\ \A w \in Words : ~(w \in inserted /\ Asked(w)) => results[w] = 0
      BY <1>1, <1>5, <2>7
    <3>1. 1 \in DOMAIN collecting
      BY <1>2
    <3>2. \A i \in 1 .. 3 : i \in DOMAIN collecting' /\ ~(i > 3)
      BY <1>2, <2>4
    <3>3. ASSUME NEW b \in DOMAIN nodes
          PROVE  /\ Holds(1, b)' <=> IsBelow(b, a, "left")
                 /\ Holds(2, b)' <=> IsBelow(b, a, "middle")
                 /\ Holds(3, b)' <=> IsBelow(b, a, "right")
                 /\ \A i \in DOMAIN collecting' : i > 3 => (Holds(i, b)' <=> Holds(i - 2, b))
      BY <1>0, <1>8, <2>3, <2>4, UnderABranch, LinksAreThree DEF Holds
    <3>4. \A i \in DOMAIN collecting' : i > 3 \/ i \in {1, 2, 3}
      BY <1>2, <2>4
    <3>5. ASSUME NEW b \in DOMAIN nodes
          PROVE  Holds(1, b) <=> b = a \/ IsBelow(b, a, "left") \/ IsBelow(b, a, "middle") \/ IsBelow(b, a, "right")
      BY <1>0, <1>6, <1>8, UnderABranch DEF Links
    <3>6. ASSUME NEW b \in DOMAIN nodes, nodes[b].value # Nothing, b # a
          PROVE  results'[spelled[b]] = results[spelled[b]]
      <4>1. spelled[b] \in Words
        BY <1>0, <3>0, <3>6, NodesAreTyped DEF Storing
      <4>2. spelled[b] # spelled[a]
        BY <1>8, <3>0, <3>6 DEF Spelling
      <4> QED BY <1>0, <1>8, <2>1, <3>0, <4>1, <4>2, PutIn
    <3>7. ASSUME NEW b \in DOMAIN nodes, nodes[b].value # Nothing, Asked(spelled[b])
          PROVE  \/ results'[spelled[b]] = 1 /\ \A i \in DOMAIN collecting' : ~Holds(i, b)'
                 \/ results'[spelled[b]] = 0 /\ \E i \in DOMAIN collecting' :
                      Holds(i, b)' /\ \A j \in DOMAIN collecting' : Holds(j, b)' => j = i
      <4>1. CASE ~Holds(1, b)
        <5>1. b # a /\ \A i \in {1, 2, 3} : ~Holds(i, b)'
          BY <3>3, <3>5, <4>1
        <5>2. results'[spelled[b]] = results[spelled[b]]
          BY <3>6, <3>7, <5>1
        <5>3. CASE results[spelled[b]] = 1 /\ \A i \in DOMAIN collecting : ~Holds(i, b)
          <6>1. \A i \in DOMAIN collecting' : ~Holds(i, b)'
            BY <2>4, <3>3, <3>4, <5>1, <5>3
          <6> QED BY <5>2, <5>3, <6>1
        <5>4. CASE results[spelled[b]] = 0 /\ \E i \in DOMAIN collecting :
                      Holds(i, b) /\ \A j \in DOMAIN collecting : Holds(j, b) => j = i
          <6>1. PICK i \in DOMAIN collecting : Holds(i, b) /\ \A j \in DOMAIN collecting : Holds(j, b) => j = i
            BY <5>4
          <6>2. i # 1
            BY <4>1, <6>1
          <6>3. i + 2 \in DOMAIN collecting' /\ Holds(i + 2, b)'
            BY <2>5, <3>3, <6>1, <6>2
          <6>4. ASSUME NEW j \in DOMAIN collecting', Holds(j, b)' PROVE j = i + 2
            <7>1. j > 3
              BY <3>4, <5>1, <6>4
            <7>2. j - 2 = i
              BY <2>4, <3>3, <6>1, <6>4, <7>1
            <7> QED BY <1>2, <2>4, <7>2
          <6> QED BY <5>2, <5>4, <6>3, <6>4
        <5> QED BY <3>0, <3>7, <5>3, <5>4
      <4>2. CASE Holds(1, b)
        <5>1. results[spelled[b]] = 0 /\ \A j \in DOMAIN collecting : Holds(j, b) => j = 1
          BY <3>0, <3>1, <3>7, <4>2
        <5>2. \A i \in DOMAIN collecting' : i > 3 => ~Holds(i, b)'
          BY <2>4, <3>3, <5>1
        <5>3. CASE b = a
          <6>1. \A s \in Links : ~IsBelow(b, a, s)
            BY <1>0, <1>8, <5>3, UnderABranch
          <6>2. \A i \in {1, 2, 3} : ~Holds(i, b)'
            BY <3>3, <6>1, LinksAreThree
          <6>3. \A i \in DOMAIN collecting' : ~Holds(i, b)'
            BY <3>4, <5>2, <6>2
          <6>4. results'[spelled[b]] = 1
            BY <1>0, <1>8, <2>1, <3>0, <3>7, <5>1, <5>3, PutIn
          <6> QED BY <6>3, <6>4
        <5>4. CASE b # a
          <6>1. results'[spelled[b]] = 0
            BY <3>6, <3>7, <5>1, <5>4
          <6>2. \A s, t \in Links : IsBelow(b, a, s) /\ IsBelow(b, a, t) => s = t
            BY DEF IsBelow
          <6>3. \A i, j \in {1, 2, 3} : Holds(i, b)' /\ Holds(j, b)' => i = j
            BY <3>3, <6>2, LinksAreThree
          <6>4. \E i \in {1, 2, 3} : Holds(i, b)'
            BY <3>3, <3>5, <4>2, <5>4
          <6>5. PICK i \in {1, 2, 3} : Holds(i, b)'
            BY <6>4
          <6>6. i \in DOMAIN collecting'
            BY <3>2, <6>5
          <6>7. \A j \in DOMAIN collecting' : Holds(j, b)' => j = i
            BY <3>4, <5>2, <6>3, <6>5
          <6> QED BY <6>1, <6>5, <6>6, <6>7
        <5> QED BY <5>3, <5>4
      <4> QED BY <4>1, <4>2
    <3>8. ASSUME NEW i \in DOMAIN collecting'
          PROVE  /\ \E c \in DOMAIN nodes, s \in Links : collecting'[i] = Append(c, s)
                 /\ \A b \in DOMAIN nodes : Holds(i, b)' => Asked(spelled[b])
      <4>1. CASE i > 3
        <5>1. i - 2 \in DOMAIN collecting /\ collecting'[i] = collecting[i - 2]
          BY <2>4, <4>1
        <5>2. \A b \in DOMAIN nodes : Holds(i, b)' <=> Holds(i - 2, b)
          BY <3>3, <4>1
        <5>3. /\ \E c \in DOMAIN nodes, s \in Links : collecting[i - 2] = Append(c, s)
              /\ \A b \in DOMAIN nodes : Holds(i - 2, b) => Asked(spelled[b])
          BY <3>0, <5>1
        <5> QED BY <5>1, <5>2, <5>3
      <4>2. CASE i \in {1, 2, 3}
        <5>1. \E s \in Links : collecting'[i] = Append(a, s)
          BY <2>3, <4>2, LinksAreThree
        <5>2. \A b \in DOMAIN nodes : Holds(i, b)' => Holds(1, b)
          BY <3>3, <3>5, <4>2
        <5> QED BY <1>8, <3>0, <3>1, <5>1, <5>2
      <4> QED BY <3>4, <4>1, <4>2
    <3>9. ASSUME NEW w \in Words, ~(w \in inserted /\ Asked(w)) PROVE results'[w] = 0
      <4>1. Asked(spelled[a])
        BY <1>8, <3>0, <3>1, <3>5
      <4>2. w # spelled[a] \/ nodes[a].value = Nothing
        BY <1>0, <1>8, <2>1, <3>0, <3>9, <4>1, PutIn
      <4>3. results'[w] = results[w]
        BY <1>0, <1>8, <2>1, <3>0, <4>2, PutIn
      <4> QED BY <3>0, <3>9, <4>3
    <3>10. Collecting'
      BY <1>1, <1>3, <3>0, <3>7, <3>8, <3>9 DEF Collecting
    <3> QED BY <1>1, <1>4, <3>0, <3>10, NodesStay DEF WordInv
  <2> QED BY <1>4, <2>6, <2>7 DEF TreeInv
<1> QED BY <1>7, <1>8

LEMMA TreeNextInv == TreeInv /\ [TreeNext]_treeVars => TreeInv'
<1> SUFFICES ASSUME TreeInv, [TreeNext]_treeVars PROVE TreeInv'
  OBVIOUS
<1>1. ASSUME NEW key \in Words, InsertWord(key) PROVE TreeInv'
  BY <1>1, TreeInserts
<1>2. CASE Compares
  BY <1>2, TreeCompares
<1>3. CASE Grows
  BY <1>3, TreeGrows
<1>4. CASE Stores
  BY <1>4, TreeStores
<1>5. ASSUME NEW kind \in {"find", "findprefix"}, NEW key \in Probes, LooksUp(kind, key) PROVE TreeInv'
  BY <1>5, TreeLooksUp
<1>6. CASE LooksOn
  BY <1>6, TreeLooksOn
<1>7. CASE Collects
  BY <1>7, TreeCollects
<1>8. CASE Answers
  BY <1>8, TreeAnswers
<1>9. CASE UNCHANGED treeVars
  <2>1. UNCHANGED <<nodes, spelled, inserted, grownAtAnEnd, walk, collecting, results>>
    BY <1>9 DEF treeVars, plantedVars, lookingVars
  <2>2. TreeTypeOK' = TreeTypeOK /\ Stages' = Stages
    BY <2>1 DEF TreeTypeOK, Stages
  <2>3. WayDown' = WayDown
    BY <2>1, NodesStay DEF WayDown
  <2>4. Growing' = Growing
    BY <2>1, NodesStay DEF Growing, Unspelled, HasNoBranch
  <2>5. Collecting' = Collecting
    BY <2>1 DEF Collecting, Holds, Asked
  <2> QED BY <2>1, <2>2, <2>3, <2>4, <2>5, NodesStay DEF TreeInv, WordInv
<1> QED BY <1>1, <1>2, <1>3, <1>4, <1>5, <1>6, <1>7, <1>8, <1>9 DEF TreeNext

LEMMA TreeFinds == TreeInv => TreeIsTheMapElsewhere
<1> SUFFICES ASSUME TreeInv, ~grownAtAnEnd, walk.stage = "collect", collecting = <<>>, NEW word \in Words
             PROVE  results[word] = IF Answer(word) THEN 1 ELSE 0
  BY DEF TreeIsTheMapElsewhere, TreeIsTheMap
<1>1. Storing /\ Collecting /\ DOMAIN collecting = {}
  BY DEF TreeInv, WordInv
<1>2. Answer(word) <=> word \in inserted /\ Asked(word)
  BY DEF Answer, Asked
<1>3. CASE word \in inserted /\ Asked(word)
  <2>1. PICK a \in DOMAIN nodes : nodes[a].value = word
    BY <1>1, <1>3 DEF Storing
  <2>2. word # Nothing
    BY TernaryAssumption DEF Nothing
  <2>3. spelled[a] = word
    BY <1>1, <2>1, <2>2 DEF Storing
  <2> QED BY <1>1, <1>2, <1>3, <2>1, <2>2, <2>3 DEF Collecting
<1>4. CASE ~(word \in inserted /\ Asked(word))
  BY <1>1, <1>2, <1>4 DEF Collecting
<1> QED BY <1>3, <1>4

\* The searches of a tree that has not grown at an end find what they are to.
THEOREM WordsFound == TreeSpec => []TreeIsTheMapElsewhere
<1>1. TreeSpec => []TreeInv
  BY TreeInitInv, TreeNextInv, PTL DEF TreeSpec
<1> QED BY <1>1, TreeFinds, PTL

(* Words and objects are found where they were put (Searches). *)
THEOREM SearchesAlwaysFind == SearchSpec => []SearchesFind
BY WordsFound, SearchesSound, PTL DEF SearchSpec, SearchesFind

-----------------------------------------------------------------------------
(* DirectoryMonitor, for every number of paths and all intervals *)

USE MonitorAssumption

Entry == [mon : Monitors, due : Nat, fresh : BOOLEAN]

\* a may stand before b in the schedule.
Before(a, b) == a.mon # b.mon /\ a.due <= b.due /\ (b.fresh => a.fresh)

InOrder(s) == \A i, j \in DOMAIN s : i < j => Before(s[i], s[j])

MonitorsOf(s) == {s[i].mon : i \in DOMAIN s}

\* A monitor that was never examined is due; a pass always finds a monitor in the schedule.
PassInv ==
  /\ examined.mon = NoMonitor <=> runPc \notin {"examining", "listed"}
  /\ runPc \in {"passing", "passed", "dozing"} => schedule # <<>>
  /\ \A i \in DOMAIN schedule : schedule[i].fresh => schedule[i].due = 0

\* When a monitor's turn comes, the second of the time it stored is over.
StoredInv ==
  /\ \A i \in DOMAIN schedule : schedule[i].mon \in storedNow => schedule[i].due > 0
  /\ examined.mon \notin storedNow
  /\ storedNow \cap newer = {}

\* What run() has read of a path is how the path is, or it will be told again.
ReadInv ==
  /\ examined.readNow => ~examined.newerThanRead
  /\ runPc \in {"examining", "listed"} /\ examined.isNew =>
       examined.mon \in newer \/ path[examined.mon] = "missing"
  /\ runPc = "listed" =>
       /\ ScanNeeded
       /\ \/ examined.listing = Listing(path[examined.mon])
          \/ examined.newerThanRead \/ examined.mon \in missed

MonitorInv ==
  RunTypeOK /\ ScheduleIsComplete /\ PassInv /\ StoredInv /\ ReadInv /\ ChangesWillBeSeen

(* An entry that is put between those it may stand behind, and before, keeps the order. *)
LEMMA InsertedInOrder ==
  ASSUME NEW s \in Seq(Entry), InOrder(s), NEW e \in Entry, NEW k \in 0 .. Len(s),
         \A i \in 1 .. k : Before(s[i], e),
         \A i \in k + 1 .. Len(s) : Before(e, s[i])
  PROVE  LET t == InsertAt(s, k + 1, e)
         IN /\ t \in Seq(Entry) /\ t # <<>> /\ InOrder(t)
            /\ MonitorsOf(t) = MonitorsOf(s) \cup {e.mon}
            /\ \A i \in DOMAIN t : t[i] = e \/ \E j \in DOMAIN s : t[i] = s[j]
<1> DEFINE t == InsertAt(s, k + 1, e)
<1>1. /\ t \in Seq(Entry) /\ Len(t) = Len(s) + 1 /\ t[k + 1] = e
      /\ \A i \in 1 .. k : t[i] = s[i]
      /\ \A i \in k + 2 .. Len(s) + 1 : t[i] = s[i - 1]
  <2> DEFINE S == Entry
  <2> HIDE DEF S
  <2>1. s \in Seq(S) /\ e \in S
    BY DEF S
  <2>2. InsertAt(s, k + 1, e) \in Seq(S)
    BY <2>1, InsertedAt
  <2>3. Len(InsertAt(s, k + 1, e)) = Len(s) + 1
    BY <2>1, InsertedAt
  <2>4. InsertAt(s, k + 1, e)[k + 1] = e
    BY <2>1, InsertedAt
  <2>5. /\ \A i \in 1 .. k : InsertAt(s, k + 1, e)[i] = s[i]
        /\ \A i \in k + 2 .. Len(s) + 1 : InsertAt(s, k + 1, e)[i] = s[i - 1]
    BY <2>1, InsertedAt
  <2> QED BY <2>2, <2>3, <2>4, <2>5, Zenon DEF S
<1> HIDE DEF t
<1>2. DOMAIN s = 1 .. Len(s) /\ DOMAIN t = 1 .. Len(s) + 1 /\ Len(s) \in Nat
  BY <1>1
<1>3. \A i \in 1 .. Len(s) + 1 :
        \/ i \in 1 .. k
        \/ i = k + 1
        \/ i \in k + 2 .. Len(s) + 1 /\ i - 1 \in k + 1 .. Len(s) /\ i - 1 \in 1 .. Len(s)
  OBVIOUS
<1>4. InOrder(t)
  <2> SUFFICES ASSUME NEW i \in 1 .. Len(s) + 1, NEW j \in 1 .. Len(s) + 1, i < j
               PROVE  Before(t[i], t[j])
    BY <1>2 DEF InOrder
  <2>1. CASE j \in 1 .. k
    <3>1. i \in 1 .. k /\ i \in DOMAIN s /\ j \in DOMAIN s
      BY <1>2, <2>1
    <3> QED BY <3>1, <2>1, <1>1 DEF InOrder
  <2>2. CASE j = k + 1
    <3>1. i \in 1 .. k
      BY <2>2
    <3> QED BY <3>1, <2>2, <1>1
  <2>3. CASE j \in k + 2 .. Len(s) + 1 /\ i \in 1 .. k
    <3>1. i \in DOMAIN s /\ j - 1 \in DOMAIN s /\ i < j - 1
      BY <1>2, <2>3
    <3> QED BY <3>1, <2>3, <1>1 DEF InOrder
  <2>4. CASE j \in k + 2 .. Len(s) + 1 /\ i = k + 1
    <3>1. j - 1 \in k + 1 .. Len(s)
      BY <2>4
    <3> QED BY <3>1, <2>4, <1>1
  <2>5. CASE j \in k + 2 .. Len(s) + 1 /\ i \in k + 2 .. Len(s) + 1
    <3>1. i - 1 \in DOMAIN s /\ j - 1 \in DOMAIN s /\ i - 1 < j - 1
      BY <1>2, <2>5
    <3> QED BY <3>1, <2>5, <1>1 DEF InOrder
  <2> QED BY <1>3, <2>1, <2>2, <2>3, <2>4, <2>5
<1>5. \A i \in DOMAIN t : t[i] = e \/ \E j \in DOMAIN s : t[i] = s[j]
  <2> SUFFICES ASSUME NEW i \in 1 .. Len(s) + 1
               PROVE  t[i] = e \/ \E j \in 1 .. Len(s) : t[i] = s[j]
    BY <1>2
  <2>1. CASE i \in 1 .. k
    <3>1. i \in 1 .. Len(s)
      BY <2>1
    <3> QED BY <3>1, <2>1, <1>1
  <2> QED BY <2>1, <1>1, <1>3
<1>6. \A j \in DOMAIN s : \E i \in DOMAIN t : t[i] = s[j]
  <2> SUFFICES ASSUME NEW j \in 1 .. Len(s)
               PROVE  \E i \in 1 .. Len(s) + 1 : t[i] = s[j]
    BY <1>2
  <2>1. CASE j \in 1 .. k
    <3>1. j \in 1 .. Len(s) + 1
      OBVIOUS
    <3> QED BY <3>1, <2>1, <1>1
  <2>2. CASE j \notin 1 .. k
    <3>1. j + 1 \in k + 2 .. Len(s) + 1 /\ j + 1 \in 1 .. Len(s) + 1 /\ (j + 1) - 1 = j
      BY <2>2
    <3> QED BY <3>1, <1>1
  <2> QED BY <2>1, <2>2
<1>7. k + 1 \in DOMAIN t
  BY <1>2
<1>8. MonitorsOf(t) = MonitorsOf(s) \cup {e.mon}
  <2>1. \A i \in DOMAIN t : t[i].mon \in MonitorsOf(s) \cup {e.mon}
    BY <1>5 DEF MonitorsOf
  <2>2. \A j \in DOMAIN s : s[j].mon \in MonitorsOf(t)
    BY <1>6 DEF MonitorsOf
  <2>3. e.mon \in MonitorsOf(t)
    BY <1>1, <1>7 DEF MonitorsOf
  <2> QED BY <2>1, <2>2, <2>3, Zenon DEF MonitorsOf
<1> QED
  BY <1>1, <1>2, <1>4, <1>5, <1>8 DEF t

(* The insertion into the multimap: behind the entries that are not later. *)
LEMMA InsertedAfterThem ==
  ASSUME schedule \in Seq(Entry), InOrder(schedule), NEW e \in Entry,
         NEW indices \in SUBSET DOMAIN schedule,
         \A i \in indices : \A j \in 1 .. i : j \in indices,
         \A i \in indices : Before(schedule[i], e),
         \A i \in DOMAIN schedule \ indices : Before(e, schedule[i])
  PROVE  LET t == InsertedAfter(indices, e)
         IN /\ t \in Seq(Entry) /\ t # <<>> /\ InOrder(t)
            /\ MonitorsOf(t) = MonitorsOf(schedule) \cup {e.mon}
            /\ \A i \in DOMAIN t : t[i] = e \/ \E j \in DOMAIN schedule : t[i] = schedule[j]
<1>1. DOMAIN schedule = 1 .. Len(schedule) /\ Len(schedule) \in Nat
  OBVIOUS
<1>2. PICK k : k = Cardinality(indices)
  OBVIOUS
<1>3. k \in 0 .. Len(schedule) /\ indices = 1 .. k
  BY <1>1, <1>2, FirstNumbers
<1>4. \A i \in k + 1 .. Len(schedule) : i \in DOMAIN schedule \ indices
  BY <1>1, <1>3
<1>5. \A i \in 1 .. k : Before(schedule[i], e)
  BY <1>3
<1>6. \A i \in k + 1 .. Len(schedule) : Before(e, schedule[i])
  BY <1>4
<1>7. InsertedAfter(indices, e) = InsertAt(schedule, k + 1, e)
  BY <1>2, Zenon DEF InsertedAfter
<1> QED
  BY <1>3, <1>5, <1>6, <1>7, InsertedInOrder

(* What ScheduleIsComplete says. *)
LEMMA ScheduleParts ==
  ScheduleIsComplete <=>
    /\ MonitorsOf(schedule) \cup ({examined.mon} \ {NoMonitor}) = watched
    /\ examined.mon \notin MonitorsOf(schedule)
    /\ InOrder(schedule)
BY DEF ScheduleIsComplete, MonitorsOf, InOrder, Before

LEMMA SchedulePartsNext ==
  ScheduleIsComplete' <=>
    /\ MonitorsOf(schedule') \cup ({examined'.mon} \ {NoMonitor}) = watched'
    /\ examined'.mon \notin MonitorsOf(schedule')
    /\ InOrder(schedule')
BY DEF ScheduleIsComplete, MonitorsOf, InOrder, Before

(* The parts of an entry. *)
LEMMA EntryParts ==
  ASSUME NEW s \in Seq(Entry), NEW i \in DOMAIN s
  PROVE  s[i].mon \in Monitors /\ s[i].due \in Nat /\ s[i].fresh \in BOOLEAN
<1>1. s[i] \in Entry
  OBVIOUS
<1> QED BY <1>1 DEF Entry

(* The monitor that was examined is put back behind those that are not later. *)
LEMMA PutBack ==
  ASSUME RunTypeOK, ScheduleIsComplete, PassInv, runPc \in {"examining", "listed"},
         BackToSchedule
  PROVE  /\ examined.mon \in Monitors
         /\ schedule' \in Seq(Entry) /\ ScheduleIsComplete' /\ PassInv'
         /\ \A i \in DOMAIN schedule' :
              \/ schedule'[i].mon = examined.mon /\ schedule'[i].due > 0
              \/ \E j \in DOMAIN schedule : schedule'[i] = schedule[j]
<1> DEFINE m == examined.mon
           e == [mon |-> m, due |-> Interval[m], fresh |-> FALSE]
           indices == {i \in DOMAIN schedule : schedule[i].due <= Interval[m]}
<1>1. /\ m \in Monitors /\ Interval[m] \in Nat \ {0} /\ e \in Entry
      /\ schedule \in Seq(Entry) /\ Len(schedule) \in Nat /\ DOMAIN schedule = 1 .. Len(schedule)
  <2>1. m \in Monitors
    BY DEF RunTypeOK, PassInv
  <2> QED BY <2>1 DEF RunTypeOK, Entry
<1>2. \A i \in DOMAIN schedule : schedule[i].due \in Nat
  BY <1>1, EntryParts
<1>3. InOrder(schedule) /\ m \notin MonitorsOf(schedule)
      /\ MonitorsOf(schedule) \cup {m} = watched
  BY <1>1, ScheduleParts
<1>4. \A i \in indices : \A j \in 1 .. i : j \in indices
  <2> SUFFICES ASSUME NEW i \in indices, NEW j \in 1 .. i, j # i PROVE j \in indices
    OBVIOUS
  <2>1. i \in 1 .. Len(schedule) /\ j \in 1 .. Len(schedule) /\ j < i
    BY <1>1
  <2>2. schedule[j].due <= schedule[i].due
    BY <1>1, <1>3, <2>1 DEF InOrder, Before
  <2> QED BY <1>1, <1>2, <2>1, <2>2
<1>5. \A i \in DOMAIN schedule : schedule[i].mon # m
  BY <1>3 DEF MonitorsOf
<1>6. \A i \in indices : Before(schedule[i], e)
  BY <1>5 DEF Before
<1>7. \A i \in DOMAIN schedule \ indices : Before(e, schedule[i])
  <2> SUFFICES ASSUME NEW i \in DOMAIN schedule, ~(schedule[i].due <= Interval[m])
               PROVE  Before(e, schedule[i])
    OBVIOUS
  <2>1. Interval[m] <= schedule[i].due /\ schedule[i].due # 0
    BY <1>1, <1>2
  <2>2. ~schedule[i].fresh
    BY <2>1 DEF PassInv
  <2> QED BY <1>5, <2>1, <2>2 DEF Before
<1>8. schedule' = InsertedAfter(indices, e)
  BY DEF BackToSchedule, Rescheduled
<1>9. indices \subseteq DOMAIN schedule
  OBVIOUS
<1>10. e.mon = m /\ e.due = Interval[m] /\ e.fresh = FALSE
  OBVIOUS
<1> HIDE DEF e, indices
<1>11. /\ schedule' \in Seq(Entry) /\ schedule' # <<>> /\ InOrder(schedule')
       /\ MonitorsOf(schedule') = MonitorsOf(schedule) \cup {m}
       /\ \A i \in DOMAIN schedule' : schedule'[i] = e \/ \E j \in DOMAIN schedule : schedule'[i] = schedule[j]
  BY <1>1, <1>3, <1>4, <1>6, <1>7, <1>8, <1>9, <1>10, InsertedAfterThem
<1>12. examined'.mon = NoMonitor /\ watched' = watched /\ runPc' = "passing"
  BY DEF BackToSchedule, NotExamined
<1>13. ScheduleIsComplete'
  <2>1. NoMonitor \notin watched
    BY DEF RunTypeOK
  <2>2. MonitorsOf(schedule') = watched
    BY <1>3, <1>11
  <2> QED BY <1>11, <1>12, <2>1, <2>2, SchedulePartsNext
<1>14. PassInv'
  BY <1>10, <1>11, <1>12 DEF PassInv
<1> QED
  BY <1>1, <1>10, <1>11, <1>13, <1>14

(* A path that is watched from now on comes first of those that were never examined,
   in the order of their calls.                                                      *)
LEMMA WatchKeeps ==
  ASSUME MonitorInv, NEW m \in Monitors, Watch(m)
  PROVE  MonitorInv'
<1> DEFINE e == [mon |-> m, due |-> 0, fresh |-> TRUE]
           indices == {i \in DOMAIN schedule : schedule[i].fresh}
<1>1. /\ e \in Entry /\ schedule \in Seq(Entry) /\ Len(schedule) \in Nat
      /\ DOMAIN schedule = 1 .. Len(schedule)
  BY DEF MonitorInv, RunTypeOK, Entry
<1>2. \A i \in DOMAIN schedule : schedule[i].due \in Nat
  BY <1>1, EntryParts
<1>3. InOrder(schedule) /\ MonitorsOf(schedule) = watched /\ m \notin MonitorsOf(schedule)
      /\ examined.mon = NoMonitor
  <2>1. examined.mon = NoMonitor
    BY DEF MonitorInv, PassInv, Watch, ScheduleFree
  <2> QED BY <2>1, ScheduleParts DEF MonitorInv, Watch
<1>4. \A i \in indices : \A j \in 1 .. i : j \in indices
  <2> SUFFICES ASSUME NEW i \in indices, NEW j \in 1 .. i, j # i PROVE j \in indices
    OBVIOUS
  <2>1. i \in 1 .. Len(schedule) /\ j \in 1 .. Len(schedule) /\ j < i
    BY <1>1
  <2> QED BY <1>1, <1>3, <2>1 DEF InOrder, Before
<1>5. \A i \in DOMAIN schedule : schedule[i].mon # m
  BY <1>3 DEF MonitorsOf
<1>6. \A i \in indices : Before(schedule[i], e)
  BY <1>5 DEF Before, MonitorInv, PassInv
<1>7. \A i \in DOMAIN schedule \ indices : Before(e, schedule[i])
  BY <1>2, <1>5 DEF Before
<1>8. schedule' = InsertedAfter(indices, e)
  BY DEF Watch
<1>9. indices \subseteq DOMAIN schedule
  OBVIOUS
<1>10. e.mon = m /\ e.due = 0
  OBVIOUS
<1> HIDE DEF e, indices
<1>11. /\ schedule' \in Seq(Entry) /\ schedule' # <<>> /\ InOrder(schedule')
       /\ MonitorsOf(schedule') = MonitorsOf(schedule) \cup {m}
       /\ \A i \in DOMAIN schedule' : schedule'[i] = e \/ \E j \in DOMAIN schedule : schedule'[i] = schedule[j]
  BY <1>1, <1>3, <1>4, <1>6, <1>7, <1>8, <1>9, <1>10, InsertedAfterThem
<1>12. /\ watched' = watched \cup {m} /\ examined' = examined /\ runPc' = runPc
       /\ newer' = newer \cup {m} /\ storedNow' = storedNow \ {m} /\ missed' = missed \ {m}
       /\ contents' = [contents EXCEPT ![m] = "empty"] /\ path' = path
       /\ UNCHANGED <<running, stop, isready, has_ended, sleeptime, touchedNow, readyPc>>
  BY DEF Watch, flagVars
<1>13. RunTypeOK'
  BY <1>11, <1>12 DEF MonitorInv, RunTypeOK, Entry, PathStates
<1>14. ScheduleIsComplete'
  <2>1. NoMonitor # m /\ NoMonitor \notin MonitorsOf(schedule')
    BY <1>3, <1>11 DEF MonitorInv, RunTypeOK
  <2> QED BY <1>3, <1>11, <1>12, <2>1, SchedulePartsNext
<1>15. PassInv'
  BY <1>10, <1>11, <1>12 DEF MonitorInv, PassInv
<1>16. StoredInv'
  BY <1>3, <1>10, <1>11, <1>12 DEF MonitorInv, StoredInv
<1>17. ReadInv'
  <2>1. runPc \notin {"examining", "listed"}
    BY DEF Watch, ScheduleFree
  <2> QED BY <1>12, <2>1 DEF MonitorInv, ReadInv
<1>18. ChangesWillBeSeen'
  <2> SUFFICES ASSUME NEW n \in watched \cup {m}
               PROVE  (IsUpToDate(n) \/ WillBeListed(n) \/ n \in missed)'
    BY <1>12 DEF ChangesWillBeSeen
  <2>1. CASE n = m
    BY <1>12, <2>1 DEF WillBeListed
  <2>2. CASE n # m
    BY <1>12, <2>2 DEF MonitorInv, RunTypeOK, ChangesWillBeSeen, IsUpToDate, WillBeListed
  <2> QED BY <2>1, <2>2
<1> QED
  BY <1>13, <1>14, <1>15, <1>16, <1>17, <1>18 DEF MonitorInv

(* A change of a path, at any time. *)
LEMMA ChangeKeeps ==
  ASSUME MonitorInv, NEW m \in Monitors, NEW new \in PathStates, PathChanges(m, new)
  PROVE  MonitorInv'
<1>1. /\ path' = [path EXCEPT ![m] = new] /\ path \in [Monitors -> PathStates]
      /\ UNCHANGED <<flagVars, schedule, watched, runPc, sleeptime, storedNow, contents, readyPc>>
      /\ newer \subseteq newer' /\ newer' \subseteq newer \cup {m} /\ missed \subseteq missed'
      /\ missed' \subseteq missed \cup {m} /\ touchedNow' \subseteq touchedNow \cup {m}
  BY DEF PathChanges, DirectoryWritten, MonitorInv, RunTypeOK
<1>2. /\ examined' \in [mon : Monitors \cup {NoMonitor}, isNew : BOOLEAN, readNow : BOOLEAN,
                        newerThanRead : BOOLEAN, listing : PathStates]
      /\ examined'.mon = examined.mon /\ examined'.isNew = examined.isNew
      /\ examined'.readNow = examined.readNow /\ examined'.listing = examined.listing
      /\ examined.newerThanRead => examined'.newerThanRead
      /\ examined'.newerThanRead => examined.newerThanRead \/ ~examined.readNow
  BY DEF PathChanges, DirectoryWritten, MonitorInv, RunTypeOK
<1>3. RunTypeOK'
  BY <1>1, <1>2 DEF MonitorInv, RunTypeOK, flagVars
<1>4. ScheduleIsComplete'
  BY <1>1, <1>2 DEF MonitorInv, ScheduleIsComplete
<1>5. PassInv'
  BY <1>1, <1>2 DEF MonitorInv, PassInv
<1>6. m \in storedNow => newer' = newer
  BY DEF PathChanges, DirectoryWritten
<1>7. StoredInv'
  BY <1>1, <1>2, <1>6 DEF MonitorInv, StoredInv
<1>8. CASE new = path[m]
  <2>1. UNCHANGED <<touchedNow, newer, missed, examined, path>>
    BY <1>1, <1>8 DEF PathChanges
  <2>2. ReadInv'
    BY <1>1, <2>1 DEF MonitorInv, ReadInv, ScanNeeded
  <2>3. ASSUME NEW n \in watched PROVE (IsUpToDate(n) \/ WillBeListed(n) \/ n \in missed)'
    BY <1>1, <2>1 DEF MonitorInv, ChangesWillBeSeen, IsUpToDate, WillBeListed
  <2> QED BY <1>1, <1>3, <1>4, <1>5, <1>7, <2>2, <2>3 DEF MonitorInv, ChangesWillBeSeen
<1>9. CASE new # path[m]
  <2>1. m \in newer' \/ m \in storedNow
    BY <1>9 DEF PathChanges, DirectoryWritten
  <2>2. examined.mon = m => examined'.newerThanRead \/ m \in missed'
    BY <1>9 DEF PathChanges, DirectoryWritten, MonitorInv, RunTypeOK
  <2>3. m \in storedNow => m \in missed'
    BY <1>9 DEF PathChanges, DirectoryWritten, MonitorInv, StoredInv
  <2>4. ReadInv'
    <3>1. examined.readNow' => ~examined.newerThanRead'
      BY <1>2 DEF MonitorInv, ReadInv
    <3>2. examined.mon # m /\ runPc \in {"examining", "listed"} => path'[examined.mon] = path[examined.mon]
      BY <1>1 DEF MonitorInv, RunTypeOK, PassInv
    <3>3. examined.mon = m => m \in newer'
      BY <2>1 DEF MonitorInv, StoredInv
    <3> QED BY <1>1, <1>2, <2>2, <3>1, <3>2, <3>3 DEF MonitorInv, ReadInv, ScanNeeded
  <2>5. ASSUME NEW n \in watched PROVE (IsUpToDate(n) \/ WillBeListed(n) \/ n \in missed)'
    <3>1. CASE n = m
      BY <1>1, <2>1, <2>3, <3>1 DEF WillBeListed
    <3>2. CASE n # m
      BY <1>1, <3>2 DEF MonitorInv, RunTypeOK, ChangesWillBeSeen, IsUpToDate, WillBeListed
    <3> QED BY <3>1, <3>2
  <2> QED BY <1>1, <1>3, <1>4, <1>5, <1>7, <2>4, <2>5 DEF MonitorInv, ChangesWillBeSeen
<1> QED BY <1>8, <1>9

(* A second goes by. *)
LEMMA TickKeeps == ASSUME MonitorInv, Tick PROVE MonitorInv'
<1>1. /\ UNCHANGED <<flagVars, watched, runPc, path, newer, contents, missed, readyPc>>
      /\ touchedNow' = {} /\ storedNow' = {} /\ sleeptime' \in Nat
  BY DEF Tick, OneLess, MonitorInv, RunTypeOK
<1>2. /\ examined' \in [mon : Monitors \cup {NoMonitor}, isNew : BOOLEAN, readNow : BOOLEAN,
                        newerThanRead : BOOLEAN, listing : PathStates]
      /\ examined'.mon = examined.mon /\ examined'.isNew = examined.isNew
      /\ examined'.readNow = FALSE /\ examined'.listing = examined.listing
      /\ examined.newerThanRead = examined'.newerThanRead
  BY DEF Tick, MonitorInv, RunTypeOK
<1>3. schedule \in Seq(Entry)
  BY DEF MonitorInv, RunTypeOK, Entry
<1>4. /\ DOMAIN schedule' = DOMAIN schedule
      /\ \A i \in DOMAIN schedule :
           /\ schedule'[i].mon = schedule[i].mon /\ schedule'[i].fresh = schedule[i].fresh
           /\ schedule'[i].due = OneLess(schedule[i].due)
           /\ schedule'[i] \in Entry
  <2>1. \A i \in DOMAIN schedule : schedule[i] \in Entry
    BY <1>3
  <2>2. \A n \in Nat : OneLess(n) \in Nat
    BY DEF OneLess
  <2> QED BY <2>1, <2>2 DEF Tick, Entry
<1>5. schedule' \in Seq(Entry) /\ (schedule' = <<>> <=> schedule = <<>>)
  <2>1. DOMAIN schedule = 1 .. Len(schedule) /\ Len(schedule) \in Nat
    BY <1>3
  <2>2. schedule' = [i \in 1 .. Len(schedule) |-> schedule'[i]]
    BY <2>1 DEF Tick
  <2> QED BY <1>3, <1>4, <2>1, <2>2
<1>6. RunTypeOK'
  <2>1. schedule' \in Seq([mon : Monitors, due : Nat, fresh : BOOLEAN])
    BY <1>5 DEF Entry
  <2> QED BY <1>1, <1>2, <2>1 DEF MonitorInv, RunTypeOK, flagVars
<1>7. ScheduleIsComplete'
  <2>1. MonitorsOf(schedule') = MonitorsOf(schedule)
    BY <1>4 DEF MonitorsOf
  <2>2. \A j \in DOMAIN schedule : schedule[j].due \in Nat
    BY <1>3, EntryParts
  <2>3. InOrder(schedule) => InOrder(schedule')
    BY <1>4, <2>2 DEF InOrder, Before, OneLess
  <2> QED BY <1>1, <1>2, <2>1, <2>3, ScheduleParts, SchedulePartsNext DEF MonitorInv
<1>8. PassInv'
  BY <1>1, <1>2, <1>4, <1>5 DEF MonitorInv, PassInv, OneLess
<1>9. StoredInv'
  BY <1>1 DEF StoredInv
<1>10. ReadInv'
  BY <1>1, <1>2 DEF MonitorInv, ReadInv, ScanNeeded
<1>11. ChangesWillBeSeen'
  BY <1>1 DEF MonitorInv, ChangesWillBeSeen, IsUpToDate, WillBeListed
<1> QED BY <1>6, <1>7, <1>8, <1>9, <1>10, <1>11 DEF MonitorInv

(* The first monitor's turn. *)
LEMMA TakesKeeps == ASSUME MonitorInv, TakesMonitor PROVE MonitorInv'
<1> DEFINE m == Head(schedule).mon
<1>1. /\ schedule \in Seq(Entry) /\ schedule # <<>> /\ Len(schedule) \in Nat \ {0}
      /\ DOMAIN schedule = 1 .. Len(schedule)
  BY DEF MonitorInv, RunTypeOK, PassInv, TakesMonitor, Entry
<1>2. /\ schedule' \in Seq(Entry) /\ DOMAIN schedule' = 1 .. Len(schedule) - 1
      /\ \A i \in DOMAIN schedule' : i + 1 \in DOMAIN schedule /\ schedule'[i] = schedule[i + 1]
      /\ Head(schedule) = schedule[1] /\ 1 \in DOMAIN schedule
  BY <1>1 DEF TakesMonitor
<1>3. m \in Monitors /\ schedule[1].due = 0 /\ schedule[1].mon = m
  BY <1>2, <1>1, EntryParts DEF TakesMonitor
<1>4. /\ examined' = [mon |-> m,
                      isNew |-> IF path[m] = "missing" THEN m \notin storedNow ELSE m \in newer,
                      readNow |-> path[m] = "missing" \/ m \in touchedNow,
                      newerThanRead |-> FALSE,
                      listing |-> "empty"]
      /\ runPc = "passing" /\ runPc' = "examining" /\ examined.mon = NoMonitor
      /\ UNCHANGED <<flagVars, watched, sleeptime, stampVars, contents, readyPc>>
  BY DEF TakesMonitor, MonitorInv, PassInv, toldVars
<1>5. examined'.mon = m /\ ~examined'.newerThanRead
      /\ (examined'.isNew => path[m] = "missing" \/ m \in newer)
  BY <1>4
<1>6. m # NoMonitor
  BY <1>3
<1>7. RunTypeOK'
  <2>1. schedule' \in Seq([mon : Monitors, due : Nat, fresh : BOOLEAN])
    BY <1>2 DEF Entry
  <2>2. examined' \in [mon : Monitors \cup {NoMonitor}, isNew : BOOLEAN, readNow : BOOLEAN,
                       newerThanRead : BOOLEAN, listing : PathStates]
    <3>1. (IF path[m] = "missing" THEN m \notin storedNow ELSE m \in newer) \in BOOLEAN
      <4>1. (m \notin storedNow) \in BOOLEAN
        OBVIOUS
      <4>2. (m \in newer) \in BOOLEAN
        OBVIOUS
      <4> QED BY <4>1, <4>2, Zenon
    <3>3. (path[m] = "missing" \/ m \in touchedNow) \in BOOLEAN
      OBVIOUS
    <3>2. m \in Monitors \cup {NoMonitor} /\ "empty" \in PathStates
      BY <1>3 DEF PathStates
    <3> HIDE DEF m
    <3> QED BY <1>4, <3>1, <3>2, <3>3
  <2>3. runPc' \in RunPcs
    BY <1>4 DEF RunPcs
  <2> QED BY <1>4, <2>1, <2>2, <2>3 DEF MonitorInv, RunTypeOK, flagVars, stampVars
<1>8. ScheduleIsComplete'
  <2>1. InOrder(schedule) /\ MonitorsOf(schedule) = watched
    BY <1>4, ScheduleParts DEF MonitorInv
  <2>2. InOrder(schedule')
    <3> SUFFICES ASSUME NEW i \in DOMAIN schedule', NEW j \in DOMAIN schedule', i < j
                 PROVE  Before(schedule'[i], schedule'[j])
      BY DEF InOrder
    <3>1. i + 1 \in DOMAIN schedule /\ j + 1 \in DOMAIN schedule /\ i + 1 < j + 1
      BY <1>2
    <3> QED BY <1>2, <2>1, <3>1 DEF InOrder
  <2>3. m \notin MonitorsOf(schedule')
    <3> SUFFICES ASSUME NEW i \in DOMAIN schedule' PROVE schedule'[i].mon # m
      BY DEF MonitorsOf
    <3>1. i + 1 \in DOMAIN schedule /\ 1 < i + 1
      BY <1>2
    <3>2. Before(schedule[1], schedule[i + 1])
      BY <1>2, <2>1, <3>1 DEF InOrder
    <3> QED BY <1>2, <1>3, <3>2 DEF Before
  <2>4. MonitorsOf(schedule') \cup {m} = MonitorsOf(schedule)
    <3>1. \A i \in DOMAIN schedule' : schedule'[i].mon \in MonitorsOf(schedule)
      BY <1>2 DEF MonitorsOf
    <3>2. m \in MonitorsOf(schedule)
      BY <1>2, <1>3 DEF MonitorsOf
    <3>3. ASSUME NEW i \in DOMAIN schedule
          PROVE  schedule[i].mon = m \/ schedule[i].mon \in MonitorsOf(schedule')
      <4>1. CASE i = 1
        BY <1>3, <4>1
      <4>2. CASE i # 1
        <5>1. i - 1 \in DOMAIN schedule' /\ (i - 1) + 1 = i
          BY <1>1, <1>2, <4>2
        <5>2. schedule'[i - 1] = schedule[i]
          BY <1>2, <5>1
        <5> QED BY <5>1, <5>2 DEF MonitorsOf
      <4> QED BY <4>1, <4>2
    <3> QED BY <3>1, <3>2, <3>3, Zenon DEF MonitorsOf
  <2> QED BY <1>4, <1>5, <1>6, <2>1, <2>2, <2>3, <2>4, SchedulePartsNext
<1>9. PassInv'
  BY <1>2, <1>4, <1>5, <1>6 DEF MonitorInv, PassInv
<1>10. StoredInv'
  BY <1>2, <1>3, <1>4, <1>5 DEF MonitorInv, StoredInv, stampVars
<1>11. ReadInv'
  BY <1>4, <1>5 DEF ReadInv, stampVars
<1>12. ChangesWillBeSeen'
  BY <1>4 DEF MonitorInv, ChangesWillBeSeen, IsUpToDate, WillBeListed, stampVars
<1> QED BY <1>7, <1>8, <1>9, <1>10, <1>11, <1>12 DEF MonitorInv

(* The listing is taken. *)
LEMMA ListsKeeps == ASSUME MonitorInv, Lists PROVE MonitorInv'
<1> DEFINE m == examined.mon
<1>1. /\ examined' = [examined EXCEPT !.listing = Listing(path[m])]
      /\ missed' = missed \ {m} /\ runPc = "examining" /\ runPc' = "listed" /\ ScanNeeded
      /\ UNCHANGED <<flagVars, schedule, watched, sleeptime, path, touchedNow, newer, storedNow,
                     contents, readyPc>>
  BY DEF Lists, toldVars
<1>2. m \in Monitors /\ m \notin storedNow
  BY <1>1 DEF MonitorInv, RunTypeOK, PassInv, StoredInv
<1>3. /\ examined' \in [mon : Monitors \cup {NoMonitor}, isNew : BOOLEAN, readNow : BOOLEAN,
                        newerThanRead : BOOLEAN, listing : PathStates]
      /\ examined'.mon = m /\ examined'.isNew = examined.isNew
      /\ examined'.readNow = examined.readNow /\ examined'.listing = Listing(path[m])
      /\ examined.newerThanRead = examined'.newerThanRead
  BY <1>1, <1>2 DEF MonitorInv, RunTypeOK, Listing, PathStates
<1>4. RunTypeOK'
  BY <1>1, <1>3 DEF MonitorInv, RunTypeOK, flagVars, RunPcs
<1>5. ScheduleIsComplete'
  BY <1>1, <1>3 DEF MonitorInv, ScheduleIsComplete
<1>6. PassInv' /\ StoredInv'
  BY <1>1, <1>3 DEF MonitorInv, PassInv, StoredInv
<1>7. ReadInv'
  <2>1. (Listing(path[m]) = "empty") <=> (Listing(Listing(path[m])) = "empty")
    BY DEF Listing
  <2> QED BY <1>1, <1>3, <2>1 DEF MonitorInv, ReadInv, ScanNeeded
<1>8. ChangesWillBeSeen'
  <2>1. m \in Modify \/ m \in newer \/ path[m] = "missing"
    BY <1>1 DEF MonitorInv, ReadInv, ScanNeeded
  <2>2. WillBeListed(m)'
    BY <1>1, <1>2, <2>1 DEF WillBeListed
  <2>3. ASSUME NEW n \in watched, n # m PROVE (IsUpToDate(n) \/ WillBeListed(n) \/ n \in missed)'
    BY <1>1, <2>3 DEF MonitorInv, ChangesWillBeSeen, IsUpToDate, WillBeListed
  <2> QED BY <1>1, <2>2, <2>3 DEF ChangesWillBeSeen
<1> QED BY <1>4, <1>5, <1>6, <1>7, <1>8 DEF MonitorInv

(* Nothing is stored: the path had no news, or an exception came. *)
LEMMA LeavesKeeps ==
  ASSUME MonitorInv, runPc \in {"examining", "listed"}, BackToSchedule,
         UNCHANGED <<stampVars, contents>>
  PROVE  MonitorInv'
<1>1. /\ examined.mon \in Monitors /\ schedule' \in Seq(Entry) /\ ScheduleIsComplete' /\ PassInv'
      /\ \A i \in DOMAIN schedule' :
           \/ schedule'[i].mon = examined.mon /\ schedule'[i].due > 0
           \/ \E j \in DOMAIN schedule : schedule'[i] = schedule[j]
  BY PutBack DEF MonitorInv
<1>2. /\ examined' = NotExamined /\ runPc' = "passing"
      /\ UNCHANGED <<flagVars, watched, sleeptime, readyPc, stampVars, contents>>
  BY DEF BackToSchedule
<1>3. RunTypeOK'
  <2>1. schedule' \in Seq([mon : Monitors, due : Nat, fresh : BOOLEAN])
    BY <1>1 DEF Entry
  <2> QED BY <1>2, <2>1 DEF MonitorInv, RunTypeOK, flagVars, stampVars, RunPcs, NotExamined, PathStates
<1>4. StoredInv'
  <2>1. NotExamined.mon \notin storedNow
    BY DEF NotExamined, MonitorInv, RunTypeOK
  <2> QED BY <1>1, <1>2, <2>1 DEF MonitorInv, StoredInv, stampVars
<1>5. ReadInv'
  BY <1>2 DEF ReadInv, NotExamined
<1>6. ChangesWillBeSeen'
  BY <1>2 DEF MonitorInv, ChangesWillBeSeen, IsUpToDate, WillBeListed, stampVars
<1> QED BY <1>1, <1>3, <1>4, <1>5, <1>6 DEF MonitorInv

(* What was read and listed is stored, after the listener has heard of it. *)
LEMMA ReportsKeeps == ASSUME MonitorInv, Reports PROVE MonitorInv'
<1>0. PICK m : m = examined.mon
  OBVIOUS
<1>1. /\ m \in Monitors /\ schedule' \in Seq(Entry) /\ ScheduleIsComplete' /\ PassInv'
      /\ \A i \in DOMAIN schedule' :
           \/ schedule'[i].mon = m /\ schedule'[i].due > 0
           \/ \E j \in DOMAIN schedule : schedule'[i] = schedule[j]
  BY <1>0, PutBack DEF MonitorInv, Reports
<1>2. /\ examined' = NotExamined /\ runPc = "listed" /\ runPc' = "passing"
      /\ UNCHANGED <<flagVars, watched, sleeptime, readyPc, path, touchedNow, missed>>
      /\ contents' = [contents EXCEPT ![m] = examined.listing]
      /\ newer' = IF ChangedSince THEN newer \cup {m} ELSE newer \ {m}
      /\ storedNow' = IF examined.readNow THEN storedNow \cup {m} ELSE storedNow \ {m}
  BY <1>0 DEF Reports, BackToSchedule, Marked
<1>3. examined.readNow => ~ChangedSince
  BY DEF MonitorInv, ReadInv, ChangedSince
<1>4. RunTypeOK'
  <2>1. schedule' \in Seq([mon : Monitors, due : Nat, fresh : BOOLEAN])
    BY <1>1 DEF Entry
  <2>2. examined' \in [mon : Monitors \cup {NoMonitor}, isNew : BOOLEAN, readNow : BOOLEAN,
                       newerThanRead : BOOLEAN, listing : PathStates]
    BY <1>2 DEF NotExamined, PathStates
  <2>3. contents' \in [Monitors -> PathStates] /\ newer' \subseteq Monitors /\ storedNow' \subseteq Monitors
    BY <1>1, <1>2 DEF MonitorInv, RunTypeOK
  <2> QED BY <1>2, <2>1, <2>2, <2>3 DEF MonitorInv, RunTypeOK, flagVars, RunPcs
<1>5. StoredInv'
  <2>1. NotExamined.mon \notin storedNow'
    BY <1>1, <1>2 DEF NotExamined, MonitorInv, RunTypeOK
  <2>2. storedNow' \cap newer' = {}
    BY <1>2, <1>3 DEF MonitorInv, StoredInv
  <2>3. \A n \in storedNow' : n = m \/ n \in storedNow
    BY <1>2
  <2>4. \A i \in DOMAIN schedule' : schedule'[i].mon \in storedNow' => schedule'[i].due > 0
    <3>1. \A j \in DOMAIN schedule : schedule[j].mon # m
      BY <1>0, ScheduleParts DEF MonitorInv, MonitorsOf
    <3> QED BY <1>1, <2>3, <3>1 DEF MonitorInv, StoredInv
  <2> QED BY <1>2, <2>1, <2>2, <2>4 DEF StoredInv
<1>6. ReadInv'
  BY <1>2 DEF ReadInv, NotExamined
<1>7. ChangesWillBeSeen'
  <2>1. ASSUME NEW n \in watched, n # m PROVE (IsUpToDate(n) \/ WillBeListed(n) \/ n \in missed)'
    <3>1. contents'[n] = contents[n] /\ (n \in newer' <=> n \in newer)
          /\ (n \in storedNow' <=> n \in storedNow)
      BY <1>2, <2>1 DEF MonitorInv, RunTypeOK
    <3> QED BY <1>2, <3>1 DEF MonitorInv, ChangesWillBeSeen, IsUpToDate, WillBeListed
  <2>2. (IsUpToDate(m) \/ WillBeListed(m) \/ m \in missed)'
    <3>1. CASE m \in Modify
      BY <3>1 DEF WillBeListed
    <3>2. CASE ChangedSince
      <4>1. m \in newer' /\ m \notin storedNow'
        BY <1>2, <1>3, <3>2
      <4> QED BY <4>1 DEF WillBeListed
    <3>3. CASE m \in missed
      BY <1>2, <3>3
    <3>4. CASE m \notin Modify /\ examined.listing = Listing(path[m])
      <4>1. contents'[m] = examined.listing /\ path' = path
        BY <1>1, <1>2 DEF MonitorInv, RunTypeOK
      <4> QED BY <4>1, <3>4 DEF IsUpToDate
    <3> QED BY <1>0, <1>2, <3>1, <3>2, <3>3, <3>4 DEF MonitorInv, ReadInv, ChangedSince
  <2> QED BY <1>2, <2>1, <2>2 DEF ChangesWillBeSeen
<1> QED BY <1>1, <1>4, <1>5, <1>6, <1>7 DEF MonitorInv

(* The steps of run() between its looks at the paths, and of those who stop it and wait. *)
LEMMA RestKeeps ==
  ASSUME MonitorInv,
         \/ Stop \/ RunCalled \/ TestsStop \/ PassEnds \/ MarksReady \/ FallsAsleep \/ WakesUp
         \/ RunEnds \/ \E w \in ReadyWaiters : WaitsUntilReady(w)
  PROVE  MonitorInv'
<1>1. /\ UNCHANGED <<schedule, watched, examined, stampVars, contents>>
      /\ \/ runPc' \in RunPcs \ {"examining", "listed"} /\ runPc \notin {"examining", "listed"}
         \/ runPc' = runPc
      /\ runPc' \in {"passing", "passed", "dozing"} => schedule # <<>>
  BY DEF Stop, RunCalled, TestsStop, PassEnds, MarksReady, FallsAsleep, WakesUp, RunEnds,
         WaitsUntilReady, RunPcs, MonitorInv, PassInv, toldVars
<1>2. {running', stop', isready', has_ended'} \subseteq BOOLEAN
  BY DEF Stop, RunCalled, TestsStop, PassEnds, MarksReady, FallsAsleep, WakesUp, RunEnds,
         WaitsUntilReady, flagVars, StopServed, MonitorInv, RunTypeOK
<1>3. sleeptime' \in Nat
  <2>1. schedule # <<>> => Head(schedule).due \in Nat
    <3>1. schedule \in Seq(Entry)
      BY DEF MonitorInv, RunTypeOK, Entry
    <3>2. schedule # <<>> => 1 \in DOMAIN schedule /\ Head(schedule) = schedule[1]
      BY <3>1
    <3> QED BY <3>1, <3>2, EntryParts
  <2> QED
    BY <2>1 DEF Stop, RunCalled, TestsStop, PassEnds, MarksReady, FallsAsleep, WakesUp, RunEnds,
       WaitsUntilReady, MonitorInv, RunTypeOK, PassInv
<1>4. readyPc' \in [ReadyWaiters -> {"idle", "waiting", "woken", "ready", "notReady"}]
  BY DEF Stop, RunCalled, TestsStop, PassEnds, MarksReady, FallsAsleep, WakesUp, RunEnds,
         WaitsUntilReady, Notified, MonitorInv, RunTypeOK
<1>5. RunTypeOK'
  BY <1>1, <1>2, <1>3, <1>4 DEF MonitorInv, RunTypeOK, stampVars
<1>6. ScheduleIsComplete' /\ StoredInv' /\ ChangesWillBeSeen'
  BY <1>1 DEF MonitorInv, ScheduleIsComplete, StoredInv, ChangesWillBeSeen, IsUpToDate,
              WillBeListed, stampVars
<1>7. PassInv' /\ ReadInv'
  BY <1>1 DEF MonitorInv, PassInv, ReadInv, ScanNeeded, stampVars
<1> QED BY <1>5, <1>6, <1>7 DEF MonitorInv

(* Another exception leaves run(), and a monitor that was being examined is lost. *)
LEMMA ThrowsKeeps ==
  ASSUME MonitorInv, NEW interrupted \in BOOLEAN, RunThrows(interrupted)
  PROVE  MonitorInv'
<1>1. /\ UNCHANGED <<stop, isready, schedule, stampVars, contents>>
      /\ watched' = watched \ {examined.mon} /\ examined' = NotExamined /\ runPc' = "out"
      /\ running' \in BOOLEAN /\ has_ended' = TRUE /\ sleeptime' = 0 /\ readyPc' = Notified
  BY DEF RunThrows, toldVars
<1>2. RunTypeOK'
  BY <1>1 DEF MonitorInv, RunTypeOK, stampVars, NotExamined, Notified, RunPcs, PathStates
<1>3. ScheduleIsComplete'
  <2>1. NoMonitor \notin MonitorsOf(schedule)
    BY ScheduleParts DEF MonitorInv, RunTypeOK
  <2> QED BY <1>1, <2>1, ScheduleParts, SchedulePartsNext DEF MonitorInv, NotExamined
<1>4. PassInv' /\ ReadInv'
  BY <1>1 DEF MonitorInv, PassInv, ReadInv, NotExamined
<1>5. StoredInv'
  <2>1. NoMonitor \notin storedNow
    BY DEF MonitorInv, RunTypeOK
  <2> QED BY <1>1, <2>1 DEF MonitorInv, StoredInv, NotExamined, stampVars
<1>6. ChangesWillBeSeen'
  BY <1>1 DEF MonitorInv, ChangesWillBeSeen, IsUpToDate, WillBeListed, stampVars
<1> QED BY <1>2, <1>3, <1>4, <1>5, <1>6 DEF MonitorInv

(* At the beginning nothing is watched, and everything is newer than what is stored. *)
LEMMA MonitorInitInv == MonitorInit => MonitorInv
<1> SUFFICES ASSUME MonitorInit PROVE MonitorInv
  OBVIOUS
<1>1. RunTypeOK
  <2>1. schedule \in Seq([mon : Monitors, due : Nat, fresh : BOOLEAN])
    BY DEF MonitorInit
  <2>2. path \in [Monitors -> PathStates] /\ contents \in [Monitors -> PathStates]
    BY DEF MonitorInit, PathStates
  <2>3. examined \in [mon : Monitors \cup {NoMonitor}, isNew : BOOLEAN, readNow : BOOLEAN,
                      newerThanRead : BOOLEAN, listing : PathStates]
    BY DEF MonitorInit, NotExamined, PathStates
  <2>4. readyPc \in [ReadyWaiters -> {"idle", "waiting", "woken", "ready", "notReady"}]
    BY DEF MonitorInit
  <2> QED BY <2>1, <2>2, <2>3, <2>4 DEF MonitorInit, RunTypeOK, RunPcs
<1>2. ScheduleIsComplete /\ PassInv /\ StoredInv /\ ReadInv /\ ChangesWillBeSeen
  BY DEF MonitorInit, ScheduleIsComplete, PassInv, StoredInv, ReadInv, ChangesWillBeSeen, NotExamined
<1> QED BY <1>1, <1>2 DEF MonitorInv

(* Every step of run(), its users, the file system and the clock preserves MonitorInv. *)
LEMMA MonitorNextInv == MonitorInv /\ [MonitorNext]_monitorVars => MonitorInv'
<1> SUFFICES ASSUME MonitorInv, [MonitorNext]_monitorVars PROVE MonitorInv'
  OBVIOUS
<1>1. CASE NothingToScan
  <2>1. runPc \in {"examining", "listed"} /\ BackToSchedule /\ UNCHANGED <<stampVars, contents>>
    BY <1>1 DEF NothingToScan, toldVars
  <2> QED BY <2>1, LeavesKeeps
<1>2. CASE ExaminationThrows
  <2>1. runPc \in {"examining", "listed"} /\ BackToSchedule /\ UNCHANGED <<stampVars, contents>>
    BY <1>2 DEF ExaminationThrows, toldVars
  <2> QED BY <2>1, LeavesKeeps
<1>3. CASE UNCHANGED monitorVars
  BY <1>3 DEF monitorVars, flagVars, stampVars, toldVars, MonitorInv, RunTypeOK, ScheduleIsComplete,
              PassInv, StoredInv, ReadInv, ScanNeeded, ChangesWillBeSeen, IsUpToDate, WillBeListed
<1> QED
  BY <1>1, <1>2, <1>3, WatchKeeps, ChangeKeeps, TickKeeps, TakesKeeps, ListsKeeps, ReportsKeeps,
     RestKeeps, ThrowsKeeps DEF MonitorNext, RunStep

(* Whatever run(), its users, the file system and the clock do, MonitorInv holds. *)
LEMMA MonitorAlways == MonitorSpec => []MonitorInv
BY MonitorInitInv, MonitorNextInv, PTL DEF MonitorSpec

(* No change of a watched path is forgotten, whenever it comes: before, between or after the
   reading of the time, the listing and the call of the listener, also when one of these
   throws, unless it comes in the very second of the stored time or the exception takes the
   monitor along (DirectoryMonitor.cpp:425-502, 554-566).                               *)
THEOREM ChangesAreKept == MonitorSpec => []NoChangeForgotten
<1>1. MonitorInv => NoChangeForgotten
  BY DEF MonitorInv, NoChangeForgotten
<1> QED BY <1>1, MonitorAlways, PTL

HIDE MonitorAssumption
-----------------------------------------------------------------------------
(* One AsyncTask, its owner and its interruptions *)

USE NotifyAssumption DEF TaskPcs, TaskOutcomes, OwnerPcs

(* Once handle_result() has run, the members say how the task ended. *)
ResultHandled ==
  taskPc \in {"notifying", "over"} => done /\ (ex <=> status = "failed")

(* The owner has let go of the thread by a join, or in the destructor. *)
LetGo ==
  /\ ~joinable => taskPc = "over" \/ ownerPc = "gone"
  /\ ~alive => taskPc \in {"over", "terminated"} \/ leftEarly
  /\ ~alive <=> ownerPc = "gone"

OwnerInv ==
  /\ TaskTypeOK
  /\ ResultHandled
  /\ LetGo
  /\ OwnerKnowsTheEnd

LEMMA OwnerInitInv == TaskInit => OwnerInv
BY DEF TaskInit, OwnerInv, TaskTypeOK, ResultHandled, LetGo, OwnerKnowsTheEnd

(* A step of the task's thread: it uses the object, and leaves it to the owner. *)
LEMMA ThreadStep ==
  ASSUME OwnerInv, TaskStep \/ FunctionEnds
  PROVE  OwnerInv'
<1> USE DEF OwnerInv, TaskTypeOK, ResultHandled, LetGo, OwnerKnowsTheEnd, memberVars, ownerVars,
            UsesObject
<1>1. CASE TaskStarts BY <1>1 DEF TaskStarts
<1>2. CASE FunctionEnds BY <1>2 DEF FunctionEnds
<1>3. CASE FunctionInterrupted BY <1>3 DEF FunctionInterrupted
<1>4. CASE HandleResult BY <1>4 DEF HandleResult
<1>5. CASE NotifyReturns BY <1>5 DEF NotifyReturns
<1>6. CASE NotifyThrows BY <1>6 DEF NotifyThrows
<1>7. CASE NotifyInterrupted BY <1>7 DEF NotifyInterrupted
<1> QED BY <1>1, <1>2, <1>3, <1>4, <1>5, <1>6, <1>7 DEF TaskStep

(* A step of the owner, or of another thread that has the object. *)
LEMMA OtherStep ==
  ASSUME OwnerInv,
         \/ Cancels \/ WaitIsCalled \/ WaitForTimesOut \/ WaitInterrupted
         \/ DestroyCalled \/ DestructorInterrupted \/ OwnerAsked
         \/ OwnerStep
  PROVE  OwnerInv'
<1> USE DEF OwnerInv, TaskTypeOK, ResultHandled, LetGo, OwnerKnowsTheEnd, memberVars, ownerVars,
            CancelIsCalled, MayInterrupt
<1>1. CASE Cancels BY <1>1 DEF Cancels
<1>2. CASE WaitIsCalled BY <1>2 DEF WaitIsCalled
<1>3. CASE WaitForTimesOut BY <1>3 DEF WaitForTimesOut
<1>4. CASE WaitInterrupted BY <1>4 DEF WaitInterrupted
<1>5. CASE DestroyCalled BY <1>5 DEF DestroyCalled
<1>6. CASE DestructorInterrupted BY <1>6 DEF DestructorInterrupted
<1>7. CASE OwnerAsked BY <1>7 DEF OwnerAsked
<1>8. CASE Joins BY <1>8 DEF Joins, Told
<1>9. CASE DestructorJoins BY <1>9 DEF DestructorJoins, MayLeave
<1> QED BY <1>1, <1>2, <1>3, <1>4, <1>5, <1>6, <1>7, <1>8, <1>9 DEF OwnerStep

LEMMA OwnerNextInv == OwnerInv /\ [TaskNext]_taskVars => OwnerInv'
<1>1. ASSUME OwnerInv, TaskNext PROVE OwnerInv'
  BY <1>1, ThreadStep, OtherStep DEF TaskNext
<1>2. ASSUME OwnerInv, UNCHANGED taskVars PROVE OwnerInv'
  BY <1>2 DEF taskVars, memberVars, ownerVars, OwnerInv, TaskTypeOK, ResultHandled, LetGo,
              OwnerKnowsTheEnd
<1> QED BY <1>1, <1>2

(* The thread does not use an AsyncTask after its end, unless the destructor's wait was
   interrupted; and the wait() that joined threw exactly if the task had failed.       *)
THEOREM OwnerKnows == TaskSpec => []OwnerKnowsTheEnd
<1>1. OwnerInv => OwnerKnowsTheEnd
  BY DEF OwnerInv
<1> QED BY <1>1, OwnerInitInv, OwnerNextInv, PTL DEF TaskSpec

-----------------------------------------------------------------------------
(* PostgreSQLConnection, for all statements and encodings and all limits of attempts *)

USE ConnectionAssumption DEF ConnPcs

(* An attempt to connect is made again only while one is left. *)
ConnectionInv ==
  /\ ConnectionTypeOK
  /\ connPc = "pausing" => tries > 0
  /\ SessionRestored

(* The numbers of attempts that an operation may be given. *)
LEMMA Attempts ==
  /\ \A o \in Ops : \A limit \in RetryLimits(o) : Limit(limit) \in Nat
  /\ Limit(ReconnectLimits["afterFailure"]) \in Nat
  /\ Limit(ReconnectLimits["otherwise"]) \in Nat
BY DEF RetryLimits, Limit

(* The sessions that there may be. *)
SessionType ==
  [prepared : SUBSET Statements,
   encoding : ClientEncodings \cup {DefaultEncoding},
   beforeTransaction : ClientEncodings \cup {DefaultEncoding},
   leftover : SUBSET Statements,
   astray : BOOLEAN]

LEMMA NewSessionType ==
  ASSUME NEW s \in SUBSET Statements, NEW e \in ClientEncodings \cup {DefaultEncoding}
  PROVE  NewSession(s, e) \in SessionType
BY DEF NewSession, SessionType

LEMMA NoSessionType == NoSession \in SessionType
BY NewSessionType DEF NoSession

(* What an operation is about: a statement to prepare, or an encoding to set. *)
LEMMA OpArguments ==
  ASSUME ConnectionTypeOK
  PROVE  /\ op.what = "setEncoding" => op.arg \in ClientEncodings
         /\ op.what = "register" => op.arg \in Statements
BY DEF ConnectionTypeOK, Ops, NoOp

(* Every step leaves a session that the server may have. *)
LEMMA SessionTypeKept ==
  ASSUME ConnectionTypeOK, ConnectionNext
  PROVE  session' \in SessionType
<1>0. session \in SessionType /\ prepared_sqls \subseteq Statements
      /\ itsEncoding \in ClientEncodings \cup {DefaultEncoding}
  BY DEF ConnectionTypeOK, SessionType
<1>1. ASSUME session' \in {session, NoSession} PROVE session' \in SessionType
  BY <1>0, <1>1, NoSessionType
<1>2. CASE OpenCalled \/ Close \/ ConnectionIsLost
  BY <1>1, <1>2 DEF OpenCalled, Close, ConnectionIsLost
<1>3. CASE Opens \/ Reconnects
  BY <1>0, <1>3, NewSessionType DEF Opens, Reconnects, Connected, PreparedAgain
<1>4. CASE OpenRefused \/ OpenFails \/ OpensAgain \/ HasConnection \/ WaitIsOver \/ Queries
             \/ QueriesBeside \/ Begins \/ UsesDangling \/ Interrupted \/ Cancel
  BY <1>1, <1>4 DEF OpenRefused, OpenFails, OpensAgain, HasConnection, WaitIsOver, Queries,
                    QueriesBeside, Begins, UsesDangling, Interrupted, Cancel
<1>5. ASSUME NEW o \in Ops, OpCalled(o) PROVE session' \in SessionType
  BY <1>1, <1>5 DEF OpCalled
<1>6. CASE ReconnectRefused \/ Broken
  BY <1>1, <1>6 DEF ReconnectRefused, Broken, ConnectionReset
<1>7. CASE Prepares
  <2>1. op.arg \in Statements
    BY <1>7, OpArguments DEF Prepares, Executing
  <2> QED BY <1>0, <1>7, <2>1 DEF Prepares, SessionType
<1>8. CASE Encodes
  <2>1. op.arg \in ClientEncodings
    BY <1>8, OpArguments DEF Encodes, Executing
  <2> QED BY <1>0, <1>8, <2>1 DEF Encodes, SessionType
<1>9. CASE OpFails
  BY <1>0, <1>9 DEF OpFails, SessionType
<1>10. ASSUME NEW n \in Statements, Unregister(n) PROVE session' \in SessionType
  <2>1. CASE session' = [session EXCEPT !.prepared = @ \ {n}, !.leftover = @ \ {n}]
    BY <1>0, <2>1 DEF SessionType
  <2>2. CASE session' = [session EXCEPT !.leftover = @ \cup ({n} \cap session.prepared)]
    BY <1>0, <2>2 DEF SessionType
  <2> QED BY <1>10, <2>1, <2>2 DEF Unregister
<1>11. CASE EndsTransaction
  BY <1>0, <1>11 DEF EndsTransaction, SessionType
<1> QED BY <1>2, <1>3, <1>4, <1>5, <1>6, <1>7, <1>8, <1>9, <1>10, <1>11
        DEF ConnectionNext, ConnectionStep

(* The type of all but the session. *)
ThreadTypeOK ==
  /\ itsConnection \in {"null", "open", "lost"}
  /\ itsTransaction \in {"none", "current", "dangling"}
  /\ prepared_sqls \subseteq Statements
  /\ itsEncoding \in ClientEncodings \cup {DefaultEncoding}
  /\ last_failed \in BOOLEAN /\ itsCanceled \in BOOLEAN
  /\ connPc \in ConnPcs
  /\ op \in Ops \cup {NoOp, [what |-> "open", arg |-> "none"]}
  /\ tries \in Nat
  /\ ranBeside \in BOOLEAN

(* TypeOK is kept: attempts are counted down from a limit, and not below zero. *)
LEMMA ConnectionTypeKept ==
  ASSUME ConnectionInv, ConnectionNext
  PROVE  ConnectionTypeOK'
<1>a. session' \in SessionType
  BY SessionTypeKept DEF ConnectionInv
<1>b. SUFFICES ThreadTypeOK'
  BY <1>a DEF ConnectionTypeOK, ThreadTypeOK, SessionType
<1> USE DEF ThreadTypeOK, settings
<1>0. ThreadTypeOK /\ (connPc = "pausing" => tries > 0)
  BY DEF ConnectionInv, ConnectionTypeOK
<1>1. EncodingRecorded => itsEncoding' \in ClientEncodings \cup {DefaultEncoding}
  BY <1>0, OpArguments DEF EncodingRecorded, ConnectionInv
<1>2. Done => connPc' \in ConnPcs /\ tries' \in Nat
                /\ op' \in Ops \cup {NoOp, [what |-> "open", arg |-> "none"]}
  BY DEF Done
<1>3. CASE OpenCalled BY <1>0, <1>3, Attempts DEF OpenCalled
<1>4. CASE Opens \/ Reconnects
  <2>1. itsConnection' = "open"
    BY <1>4 DEF Opens, Reconnects, Connected
  <2>2. CASE Opens BY <1>0, <1>2, <2>1, <2>2 DEF Opens
  <2>3. CASE Reconnects BY <1>0, <2>1, <2>3 DEF Reconnects
  <2> QED BY <1>4, <2>2, <2>3
<1>5. CASE OpenRefused \/ OpenFails \/ OpensAgain
  <2>1. CASE OpenRefused BY <1>0, <1>2, <2>1 DEF OpenRefused
  <2>2. CASE OpensAgain BY <1>0, <2>2 DEF OpensAgain
  <2>3. CASE OpenFails
    <3>1. connPc' \in ConnPcs /\ tries' \in Nat
          /\ op' \in Ops \cup {NoOp, [what |-> "open", arg |-> "none"]}
      BY <1>0, <1>2, <2>3 DEF OpenFails
    <3> QED BY <1>0, <2>3, <3>1 DEF OpenFails
  <2> QED BY <1>5, <2>1, <2>2, <2>3
<1>6. CASE Close BY <1>0, <1>6 DEF Close
<1>7. ASSUME NEW o \in Ops, OpCalled(o) PROVE ThreadTypeOK'
  BY <1>0, <1>7, Attempts DEF OpCalled
<1>8. CASE HasConnection \/ WaitIsOver BY <1>0, <1>8 DEF HasConnection, WaitIsOver
<1>9. CASE ReconnectRefused BY <1>0, <1>1, <1>2, <1>9 DEF ReconnectRefused
<1>10. CASE Broken
  <2>1. CASE MayTryAgain
    <3>1. tries' \in Nat /\ connPc' = "waiting" /\ op' = op /\ itsEncoding' = itsEncoding
      BY <1>0, <1>10, <2>1 DEF Broken, MayTryAgain, OneTryLess
    <3> QED BY <1>0, <1>10, <2>1, <3>1 DEF Broken, ConnectionReset
  <2>2. CASE ~MayTryAgain BY <1>0, <1>1, <1>2, <1>10, <2>2 DEF Broken
  <2> QED BY <2>1, <2>2
<1>11. CASE Queries \/ QueriesBeside \/ Begins
  BY <1>0, <1>2, <1>11 DEF Queries, QueriesBeside, Begins
<1>12. CASE Prepares
  <2>1. op.arg \in Statements
    BY <1>0, <1>12, OpArguments DEF Prepares, Executing, ConnectionInv
  <2> QED BY <1>0, <1>2, <1>12, <2>1 DEF Prepares
<1>13. CASE Encodes
  <2>1. op.arg \in ClientEncodings
    BY <1>0, <1>13, OpArguments DEF Encodes, Executing, ConnectionInv
  <2> QED BY <1>0, <1>1, <1>2, <1>13, <2>1 DEF Encodes
<1>14. CASE OpFails BY <1>0, <1>1, <1>2, <1>14 DEF OpFails
<1>15. CASE UsesDangling BY <1>0, <1>15 DEF UsesDangling
<1>16. CASE Interrupted BY <1>0, <1>2, <1>16 DEF Interrupted
<1>17. ASSUME NEW n \in Statements, Unregister(n) PROVE ThreadTypeOK'
  BY <1>0, <1>17 DEF Unregister
<1>18. CASE EndsTransaction BY <1>0, <1>18 DEF EndsTransaction
<1>19. CASE ConnectionIsLost BY <1>0, <1>19 DEF ConnectionIsLost
<1>20. CASE Cancel BY <1>0, <1>20 DEF Cancel
<1> QED BY <1>3, <1>4, <1>5, <1>6, <1>7, <1>8, <1>9, <1>10, <1>11, <1>12, <1>13, <1>14, <1>15,
           <1>16, <1>17, <1>18, <1>19, <1>20 DEF ConnectionNext, ConnectionStep

(* The session of an open connection changes with what is kept for the next one. *)
LEMMA SessionKept ==
  ASSUME ConnectionInv, ConnectionNext
  PROVE  SessionRestored'
<1> USE DEF SessionRestored, settings
<1>0. ConnectionTypeOK /\ SessionRestored
  BY DEF ConnectionInv
<1>1. ASSUME itsConnection' # "open" PROVE SessionRestored'
  BY <1>1
<1>2. ASSUME UNCHANGED <<itsConnection, session, prepared_sqls, itsEncoding>> PROVE SessionRestored'
  BY <1>0, <1>2
<1>3. CASE OpenCalled \/ Close \/ ConnectionIsLost
  BY <1>1, <1>3 DEF OpenCalled, Close, ConnectionIsLost
<1>4. CASE Opens \/ Reconnects
  BY <1>0, <1>4 DEF Opens, Reconnects, Connected, PreparedAgain, NewSession
<1>5. CASE OpenRefused \/ OpenFails \/ OpensAgain \/ HasConnection \/ WaitIsOver \/ Queries
             \/ QueriesBeside \/ Begins \/ UsesDangling \/ Interrupted \/ Cancel
  BY <1>2, <1>5 DEF OpenRefused, OpenFails, OpensAgain, HasConnection, WaitIsOver, Queries,
                    QueriesBeside, Begins, UsesDangling, Interrupted, Cancel
<1>6. ASSUME NEW o \in Ops, OpCalled(o) PROVE SessionRestored'
  BY <1>2, <1>6 DEF OpCalled
<1>7. CASE ReconnectRefused \/ Broken
  BY <1>1, <1>7 DEF ReconnectRefused, Broken, ConnectionReset
<1>8. CASE Prepares
  BY <1>0, <1>8 DEF Prepares, ConnectionTypeOK
<1>9. CASE Encodes
  BY <1>0, <1>9 DEF Encodes, EncodingRecorded, Executing, ConnectionTypeOK
<1>10. CASE OpFails
  BY <1>0, <1>10 DEF OpFails, EncodingRecorded, ConnectionTypeOK
<1>11. ASSUME NEW n \in Statements, Unregister(n) PROVE SessionRestored'
  <2>1. session \in SessionType /\ SessionRestored
    BY <1>0 DEF ConnectionTypeOK, SessionType
  <2>2. prepared_sqls' = prepared_sqls \ {n} /\ itsConnection' = itsConnection
        /\ itsEncoding' = itsEncoding
    BY <1>11 DEF Unregister
  <2>3. CASE session' = [session EXCEPT !.prepared = @ \ {n}, !.leftover = @ \ {n}]
    BY <2>1, <2>2, <2>3 DEF SessionType
  <2>4. CASE session' = [session EXCEPT !.leftover = @ \cup ({n} \cap session.prepared)]
    BY <2>1, <2>2, <2>4 DEF SessionType
  <2> QED BY <1>11, <2>3, <2>4 DEF Unregister
<1>12. CASE EndsTransaction
  BY <1>0, <1>12 DEF EndsTransaction, ConnectionTypeOK
<1> QED BY <1>3, <1>4, <1>5, <1>6, <1>7, <1>8, <1>9, <1>10, <1>11, <1>12
        DEF ConnectionNext, ConnectionStep

LEMMA AttemptsLeft ==
  ASSUME ConnectionInv, ConnectionNext
  PROVE  (connPc = "pausing" => tries > 0)'
<1>1. CASE OpenFails
  BY <1>1 DEF OpenFails, Done
<1>2. CASE Cancel \/ ConnectionIsLost
  BY <1>2 DEF Cancel, ConnectionIsLost, ConnectionInv
<1> QED BY <1>1, <1>2
        DEF ConnectionNext, ConnectionStep, OpenCalled, Close, ConnectionIsLost, Opens, OpenRefused,
            OpensAgain, HasConnection, Reconnects, ReconnectRefused, Broken, WaitIsOver, Queries,
            QueriesBeside, Begins, Prepares, Encodes, OpFails, UsesDangling, Interrupted,
            EndsTransaction, Unregister, OpCalled, Done

LEMMA ConnectionInitInv == ConnectionInit => ConnectionInv
<1> SUFFICES ASSUME ConnectionInit PROVE ConnectionInv
  OBVIOUS
<1>1. ConnectionTypeOK
  <2>1. session \in SessionType
    BY NoSessionType DEF ConnectionInit
  <2>2. ThreadTypeOK
    BY DEF ConnectionInit, ThreadTypeOK
  <2> QED BY <2>1, <2>2 DEF ConnectionTypeOK, ThreadTypeOK, SessionType
<1>2. SessionRestored /\ connPc = "idle"
  BY DEF ConnectionInit, SessionRestored
<1> QED BY <1>1, <1>2 DEF ConnectionInv

LEMMA ConnectionNextInv == ConnectionInv /\ [ConnectionNext]_connectionVars => ConnectionInv'
<1>1. ASSUME ConnectionInv, ConnectionNext PROVE ConnectionInv'
  BY <1>1, ConnectionTypeKept, AttemptsLeft, SessionKept DEF ConnectionInv
<1>2. ASSUME ConnectionInv, UNCHANGED connectionVars PROVE ConnectionInv'
  BY <1>2 DEF connectionVars, settings, ConnectionInv, ConnectionTypeOK, SessionRestored
<1> QED BY <1>1, <1>2

(* Whatever connections were lost, and between which steps of which operations, the
   session of an open one has the statements that are registered, and of others only
   those it did not let go of; and it has the encoding that is recorded, unless it did
   not take that one, or a rollback undid it.                                       *)
THEOREM SessionsRestored == ConnectionSpec => []SessionRestored
<1>1. ConnectionInv => SessionRestored
  BY DEF ConnectionInv
<1> QED BY <1>1, ConnectionInitInv, ConnectionNextInv, PTL DEF ConnectionSpec

-----------------------------------------------------------------------------
(* TemplateFactory, for every number of threads, versions and times of writing *)

USE TemplateAssumption

(* The file is the last version that was written, unless it was removed, and every time
   that a thread knows is one of writing.                                             *)
VersionsKnown ==
  /\ FileExists => template.version = timesTell.versions /\ template.modtime \in timesTell.seen
  /\ \A t \in TemplateUsers :
       /\ atCall[t] <= timesTell.versions
       /\ IsCached(t) => itsTemplates[t].modtime \in timesTell.seen
       /\ getPc[t] = "dated" => modtime[t] \in timesTell.seen

(* What a thread keeps is no older than the file of that time: the one there is, or the
   one whose time it has read in get().                                               *)
KeptIsCurrent ==
  timesTell.apart =>
    \A t \in TemplateUsers : IsCached(t) =>
      /\ FileExists /\ itsTemplates[t].modtime = template.modtime =>
           itsTemplates[t].version >= template.version
      /\ getPc[t] = "dated" /\ itsTemplates[t].modtime = modtime[t] =>
           itsTemplates[t].version >= atCall[t]

TemplateInv == TemplateTypeOK /\ VersionsKnown /\ KeptIsCurrent /\ TemplatesAreCurrent

LEMMA TemplateInitInv == TemplateInit => TemplateInv
BY DEF TemplateInit, TemplateInv, TemplateTypeOK, TemplateType, NoTemplate, VersionsKnown, KeptIsCurrent,
       TemplatesAreCurrent, FileExists, IsCached

LEMMA TemplateTypes ==
  ASSUME TemplateTypeOK
  PROVE  /\ template.version \in 0 .. MaxVersions /\ template.modtime \in WriteTimes \cup {0}
         /\ timesTell.versions \in 0 .. MaxVersions /\ timesTell.seen \subseteq WriteTimes
         /\ timesTell.apart \in BOOLEAN
         /\ \A t \in TemplateUsers :
              /\ itsTemplates[t] \in TemplateType /\ itsTemplates[t].version \in 0 .. MaxVersions
              /\ atCall[t] \in 0 .. MaxVersions /\ got[t] \in 0 .. MaxVersions
BY DEF TemplateTypeOK, TemplateType

(* A file takes the place of another one, or is gone. *)
LEMMA FileChangeKeeps ==
  ASSUME TemplateInv, FileReplaced \/ FileRemoved
  PROVE  TemplateInv'
<1> USE DEF TemplateInv
<1>1. CASE FileRemoved
  BY <1>1, TemplateTypes DEF FileRemoved, FileExists, IsCached, NoTemplate, TemplateTypeOK, TemplateType,
     VersionsKnown, KeptIsCurrent, TemplatesAreCurrent
<1>2. CASE FileReplaced
  <2>1. PICK now \in WriteTimes :
          /\ template' = [version |-> timesTell.versions + 1, modtime |-> now]
          /\ timesTell' = [seen |-> timesTell.seen \cup {now},
                           apart |-> timesTell.apart /\ now \notin timesTell.seen,
                           versions |-> timesTell.versions + 1]
    BY <1>2 DEF FileReplaced
  <2>2. /\ timesTell.versions < MaxVersions
        /\ UNCHANGED <<itsTemplates, getPc, modtime, atCall, got>>
    BY <1>2 DEF FileReplaced
  <2>3. /\ template'.version = timesTell.versions + 1 /\ template'.modtime = now
        /\ timesTell'.versions = timesTell.versions + 1 /\ now \in timesTell'.seen
        /\ timesTell.seen \subseteq timesTell'.seen
        /\ timesTell'.apart => timesTell.apart /\ now \notin timesTell.seen
    BY <2>1
  <2>4. TemplateTypeOK'
    BY <2>1, <2>2, TemplateTypes DEF TemplateTypeOK, TemplateType
  <2>5. VersionsKnown'
    BY <2>2, <2>3, TemplateTypes DEF VersionsKnown, FileExists, IsCached
  <2>6. KeptIsCurrent'
    BY <2>2, <2>3 DEF KeptIsCurrent, VersionsKnown, IsCached, FileExists
  <2>7. TemplatesAreCurrent'
    BY <2>2, <2>3 DEF TemplatesAreCurrent
  <2> QED BY <2>4, <2>5, <2>6, <2>7
<1> QED BY <1>1, <1>2

LEMMA GetCalledKeeps ==
  ASSUME TemplateInv, NEW t \in TemplateUsers, GetCalled(t)
  PROVE  TemplateInv'
<1> USE DEF TemplateInv
<1>1. TemplateTypeOK'
  BY TemplateTypes DEF GetCalled, TemplateTypeOK
<1>2. VersionsKnown'
  BY TemplateTypes DEF GetCalled, TemplateTypeOK, VersionsKnown, FileExists, IsCached
<1>3. KeptIsCurrent'
  BY TemplateTypes DEF GetCalled, TemplateTypeOK, KeptIsCurrent, FileExists, IsCached
<1>4. TemplatesAreCurrent'
  BY DEF GetCalled, TemplateTypeOK, TemplatesAreCurrent
<1> QED BY <1>1, <1>2, <1>3, <1>4

LEMMA ReturnsCachedKeeps ==
  ASSUME TemplateInv, NEW t \in TemplateUsers, ReturnsCached(t)
  PROVE  TemplateInv'
<1> USE DEF TemplateInv
<1>1. TemplateTypeOK'
  BY TemplateTypes DEF ReturnsCached, TemplateTypeOK
<1>2. VersionsKnown' /\ KeptIsCurrent'
  BY DEF ReturnsCached, TemplateTypeOK, VersionsKnown, KeptIsCurrent, FileExists, IsCached
<1>3. TemplatesAreCurrent'
  BY DEF ReturnsCached, UpToDate, KeptIsCurrent, TemplateTypeOK, TemplatesAreCurrent
<1> QED BY <1>1, <1>2, <1>3

(* What is loaded is the last version, whatever its time; it is kept with the time that
   was read before.                                                                   *)
LEMMA LoadsTemplateKeeps ==
  ASSUME TemplateInv, NEW t \in TemplateUsers, LoadsTemplate(t)
  PROVE  TemplateInv'
<1> USE DEF TemplateInv
<1> DEFINE info == [version |-> template.version, modtime |-> modtime[t]]
<1>1. /\ getPc[t] = "dated" /\ getPc' = [getPc EXCEPT ![t] = "out"]
      /\ UNCHANGED <<template, modtime, atCall, timesTell>>
  BY DEF LoadsTemplate
<1>2. CASE ~FileExists
  <2>1. UNCHANGED <<itsTemplates, got>>
    BY <1>2 DEF LoadsTemplate
  <2> QED BY <1>1, <2>1
          DEF TemplateTypeOK, VersionsKnown, KeptIsCurrent, TemplatesAreCurrent, FileExists, IsCached
<1>3. CASE FileExists
  <2>1. /\ itsTemplates' = [itsTemplates EXCEPT ![t] = Inserted(t, info)]
        /\ got' = [got EXCEPT ![t] = template.version]
    BY <1>3 DEF LoadsTemplate
  <2>2. info \in TemplateType /\ info.version = template.version /\ info.modtime = modtime[t]
    BY TemplateTypes DEF TemplateTypeOK, TemplateType
  <2> HIDE DEF info
  <2>3. /\ itsTemplates' \in [TemplateUsers -> TemplateType]
        /\ \A u \in TemplateUsers \ {t} : itsTemplates'[u] = itsTemplates[u]
        /\ itsTemplates'[t] = itsTemplates[t] \/ itsTemplates'[t] = info
    BY <2>1, <2>2 DEF TemplateTypeOK, Inserted
  <2>4. got' \in [TemplateUsers -> 0 .. MaxVersions] /\ got'[t] = template.version
        /\ \A u \in TemplateUsers \ {t} : got'[u] = got[u]
    BY <2>1, TemplateTypes DEF TemplateTypeOK
  <2>5. /\ getPc' \in [TemplateUsers -> {"out", "dated"}] /\ getPc'[t] = "out"
        /\ \A u \in TemplateUsers \ {t} : getPc'[u] = getPc[u]
    BY <1>1 DEF TemplateTypeOK
  <2>6. TemplateTypeOK'
    BY <1>1, <2>3, <2>4, <2>5 DEF TemplateTypeOK
  <2>7. VersionsKnown'
    BY <1>1, <2>2, <2>3, <2>5 DEF VersionsKnown, FileExists, IsCached
  <2>8. KeptIsCurrent'
    BY <1>1, <2>2, <2>3, <2>5, TemplateTypes DEF KeptIsCurrent, FileExists, IsCached
  <2>9. TemplatesAreCurrent'
    BY <1>1, <1>3, <2>4, TemplateTypes DEF TemplatesAreCurrent, VersionsKnown
  <2> QED BY <2>6, <2>7, <2>8, <2>9
<1> QED BY <1>2, <1>3

LEMMA TemplateNextInv == TemplateInv /\ [TemplateNext]_templateVars => TemplateInv'
<1>1. ASSUME TemplateInv, TemplateNext PROVE TemplateInv'
  BY <1>1, FileChangeKeeps, GetCalledKeeps, ReturnsCachedKeeps, LoadsTemplateKeeps DEF TemplateNext
<1>2. ASSUME TemplateInv, UNCHANGED templateVars PROVE TemplateInv'
  BY <1>2 DEF templateVars, TemplateInv, TemplateTypeOK, VersionsKnown, KeptIsCurrent, TemplatesAreCurrent,
              FileExists, IsCached
<1> QED BY <1>1, <1>2

(* A formatter is at least as new as the file was when get() was called, whatever is
   written and removed between the reading of its time and the loading of it, as long as
   no two versions have the same time (TemplateFactory.cpp:37-66).                      *)
THEOREM TemplatesCurrent == TemplateSpec => []TemplatesAreCurrent
<1>1. TemplateInv => TemplatesAreCurrent
  BY DEF TemplateInv
<1> QED BY <1>1, TemplateInitInv, TemplateNextInv, PTL DEF TemplateSpec


-----------------------------------------------------------------------------
(* StaticCleanup, for every number of threads, nested AtExits and cleanup functions *)

USE CleanupAssumption

InHand == UNION {ToSet(functions[h]) : h \in Holders}

SequencesOK ==
  /\ cleanup_functions \in Seq(Nat) /\ called \in Seq(Nat)
  /\ functions \in [Holders -> Seq(Nat)]
  /\ registered \in Nat

(* Functions are numbered as they are registered, and each number is in one of the
   sequences, once.                                                               *)
CleanupInv ==
  /\ SequencesOK
  /\ Descending(cleanup_functions)
  /\ \A h \in Holders : Descending(functions[h])
  /\ Distinct(called)
  /\ ToSet(cleanup_functions) \cup ToSet(called) \cup InHand = 1 .. registered
  /\ ToSet(cleanup_functions) \cap ToSet(called) = {}
  /\ \A h \in Holders : /\ ToSet(functions[h]) \cap ToSet(called) = {}
                        /\ ToSet(functions[h]) \cap ToSet(cleanup_functions) = {}
  /\ \A h, g \in Holders : h # g => ToSet(functions[h]) \cap ToSet(functions[g]) = {}

-----------------------------------------------------------------------------
(* Sequences of numbers *)

LEMMA ListedType ==
  ASSUME NEW s \in Seq(Nat)
  PROVE  /\ DOMAIN s = 1 .. Len(s) /\ Len(s) \in Nat
         /\ ToSet(s) \subseteq Nat
         /\ Descending(s) => Distinct(s)
<1>1. DOMAIN s = 1 .. Len(s) /\ Len(s) \in Nat /\ \A i \in DOMAIN s : s[i] \in Nat
  OBVIOUS
<1>2. ToSet(s) \subseteq Nat
  BY <1>1 DEF ToSet
<1>3. ASSUME Descending(s), NEW i \in DOMAIN s, NEW j \in DOMAIN s, s[i] = s[j] PROVE i = j
  <2>1. i \in Nat /\ j \in Nat
    BY <1>1
  <2>2. ~(i < j) /\ ~(j < i)
    BY <1>1, <1>3 DEF Descending
  <2> QED BY <2>1, <2>2
<1> QED BY <1>1, <1>2, <1>3 DEF Distinct

(* A larger number at the front. *)
LEMMA Prepended ==
  ASSUME NEW s \in Seq(Nat), NEW n \in Nat
  PROVE  /\ <<n>> \o s \in Seq(Nat)
         /\ ToSet(<<n>> \o s) = ToSet(s) \cup {n}
         /\ Descending(s) /\ (\A k \in ToSet(s) : k < n) => Descending(<<n>> \o s)
<1> DEFINE t == <<n>> \o s
<1>1. t \in Seq(Nat) /\ Len(t) = Len(s) + 1
  OBVIOUS
<1>2. t[1] = n /\ \A k \in DOMAIN s : t[k + 1] = s[k]
  OBVIOUS
<1>3. /\ DOMAIN s = 1 .. Len(s) /\ DOMAIN t = 1 .. Len(s) + 1 /\ Len(s) \in Nat
      /\ \A k \in DOMAIN t : k # 1 => k - 1 \in DOMAIN s /\ t[k] = s[k - 1]
  BY <1>1, <1>2
<1> HIDE DEF t
<1>4. ToSet(t) = ToSet(s) \cup {n}
  <2>1. ASSUME NEW x \in ToSet(t) PROVE x \in ToSet(s) \cup {n}
    BY <1>2, <1>3 DEF ToSet
  <2>2. ASSUME NEW x \in ToSet(s) PROVE x \in ToSet(t)
    <3>1. PICK k \in DOMAIN s : x = s[k]
      BY DEF ToSet
    <3>2. k + 1 \in DOMAIN t /\ t[k + 1] = x
      BY <1>2, <1>3, <3>1
    <3> QED BY <3>2 DEF ToSet
  <2>3. n \in ToSet(t)
    BY <1>2, <1>3 DEF ToSet
  <2> QED BY <2>1, <2>2, <2>3
<1>5. ASSUME Descending(s), \A k \in ToSet(s) : k < n, NEW i \in DOMAIN t, NEW j \in DOMAIN t, i < j
      PROVE  t[i] > t[j]
  <2>1. j # 1 /\ j - 1 \in DOMAIN s /\ t[j] = s[j - 1] /\ s[j - 1] \in Nat
    BY <1>3, <1>5
  <2>2. CASE i = 1
    <3>1. s[j - 1] < n
      BY <1>5, <2>1 DEF ToSet
    <3> QED BY <1>2, <2>1, <2>2, <3>1
  <2>3. CASE i # 1
    <3>1. i - 1 \in DOMAIN s /\ t[i] = s[i - 1] /\ i - 1 < j - 1
      BY <1>3, <1>5, <2>3
    <3> QED BY <1>5, <2>1, <3>1 DEF Descending
  <2> QED BY <2>2, <2>3
<1> QED BY <1>1, <1>4, <1>5 DEF Descending, t

(* The head of a sequence taken from it. *)
LEMMA Beheaded ==
  ASSUME NEW s \in Seq(Nat), s # <<>>, Descending(s)
  PROVE  /\ Tail(s) \in Seq(Nat) /\ Head(s) \in Nat /\ Head(s) \in ToSet(s)
         /\ ToSet(Tail(s)) = ToSet(s) \ {Head(s)}
         /\ Descending(Tail(s))
<1> DEFINE t == Tail(s)
<1>1. Distinct(s)
  BY ListedType
<1>2. /\ t \in Seq(Nat) /\ Len(t) = Len(s) - 1 /\ Head(s) \in Nat /\ Head(s) \in ToSet(s)
      /\ \A k \in 1 .. Len(s) - 1 : t[k] = s[k + 1]
      /\ ToSet(t) = ToSet(s) \ {Head(s)}
  BY <1>1, FirstTaken
<1> HIDE DEF t
<1>3. DOMAIN s = 1 .. Len(s) /\ DOMAIN t = 1 .. Len(s) - 1 /\ Len(s) \in Nat
  BY <1>2
<1>4. ASSUME NEW i \in DOMAIN t, NEW j \in DOMAIN t, i < j PROVE t[i] > t[j]
  <2>1. i + 1 \in DOMAIN s /\ j + 1 \in DOMAIN s /\ i + 1 < j + 1
    BY <1>3, <1>4
  <2>2. s[i + 1] > s[j + 1]
    BY <2>1 DEF Descending
  <2>3. t[i] = s[i + 1] /\ t[j] = s[j + 1]
    BY <1>2, <1>3
  <2> QED BY <2>2, <2>3
<1>5. Descending(t)
  BY <1>4 DEF Descending
<1> QED BY <1>2, <1>5 DEF t

-----------------------------------------------------------------------------
LEMMA EmptyListed == ToSet(<<>>) = {} /\ Descending(<<>>) /\ Distinct(<<>>) /\ <<>> \in Seq(Nat)
BY DEF ToSet, Descending, Distinct

LEMMA CleanupInitInv == CleanupInit => CleanupInv
<1> SUFFICES ASSUME CleanupInit PROVE CleanupInv
  OBVIOUS
<1>1. SequencesOK
  BY EmptyListed DEF CleanupInit, SequencesOK
<1>2. ToSet(cleanup_functions) = {} /\ ToSet(called) = {} /\ registered = 0
      /\ \A h \in Holders : ToSet(functions[h]) = {} /\ Descending(functions[h])
  BY EmptyListed DEF CleanupInit
<1>3. InHand = {} /\ 1 .. registered = {}
  BY <1>2 DEF InHand
<1>4. Descending(cleanup_functions) /\ Distinct(called)
  BY EmptyListed DEF CleanupInit
<1> QED BY <1>1, <1>2, <1>3, <1>4 DEF CleanupInv

(* The sequences but for the one of thread h. *)
InOtherHands(h) == UNION {ToSet(functions[g]) : g \in Holders \ {h}}

LEMMA Hands == \A h \in Holders : InHand = ToSet(functions[h]) \cup InOtherHands(h)
BY DEF InHand, InOtherHands

(* A new function has a number that is nowhere, and larger than all that are. *)
LEMMA RegisterKeeps ==
  ASSUME CleanupInv, Register
  PROVE  CleanupInv'
<1> DEFINE n == registered + 1
<1>1. /\ cleanup_functions' = <<n>> \o cleanup_functions /\ registered' = n
      /\ UNCHANGED <<functions, called>> /\ n \in Nat /\ registered \in Nat
      /\ cleanup_functions \in Seq(Nat)
  BY DEF Register, CleanupInv, SequencesOK
<1>2. 1 .. n = (1 .. registered) \cup {n}
  BY <1>1
<1>3. (\A k \in 1 .. registered : k < n) /\ n \notin 1 .. registered
  BY <1>1
<1> HIDE DEF n
<1>4. /\ ToSet(cleanup_functions') = ToSet(cleanup_functions) \cup {n}
      /\ cleanup_functions' \in Seq(Nat) /\ Descending(cleanup_functions')
  BY <1>1, <1>3, Prepended DEF CleanupInv
<1>5. n \notin ToSet(called) /\ n \notin InHand
  BY <1>1, <1>3 DEF CleanupInv
<1>6. \A h \in Holders : n \notin ToSet(functions[h])
  BY <1>5 DEF InHand
<1>7. InHand' = InHand
  BY <1>1 DEF InHand
<1>8. SequencesOK'
  BY <1>1, <1>4 DEF SequencesOK, CleanupInv
<1>9. ToSet(cleanup_functions') \cup ToSet(called') \cup InHand' = 1 .. registered'
  BY <1>1, <1>2, <1>4, <1>7 DEF CleanupInv
<1>10. ToSet(cleanup_functions') \cap ToSet(called') = {}
  BY <1>1, <1>4, <1>5 DEF CleanupInv
<1>11. \A h \in Holders : ToSet(functions'[h]) \cap ToSet(cleanup_functions') = {}
  BY <1>1, <1>4, <1>6 DEF CleanupInv
<1>12. /\ Distinct(called')
       /\ \A h \in Holders : /\ Descending(functions'[h])
                             /\ ToSet(functions'[h]) \cap ToSet(called') = {}
       /\ \A h, g \in Holders : h # g => ToSet(functions'[h]) \cap ToSet(functions'[g]) = {}
  BY <1>1 DEF CleanupInv
<1> QED BY <1>4, <1>8, <1>9, <1>10, <1>11, <1>12 DEF CleanupInv

(* The last AtExit moves what is registered to its thread, which has nothing else. *)
LEMMA MoveKeeps ==
  ASSUME CleanupInv, NEW h \in Holders, functions[h] = <<>>,
         functions' = [functions EXCEPT ![h] = cleanup_functions],
         cleanup_functions' = <<>>, UNCHANGED <<registered, called>>
  PROVE  CleanupInv'
<1>1. functions'[h] = cleanup_functions /\ \A g \in Holders \ {h} : functions'[g] = functions[g]
  BY DEF CleanupInv, SequencesOK
<1>2. ToSet(functions[h]) = {} /\ ToSet(cleanup_functions') = {} /\ Descending(cleanup_functions')
  BY EmptyListed
<1>3. InOtherHands(h)' = InOtherHands(h)
  BY <1>1 DEF InOtherHands
<1>4. InHand = InOtherHands(h) /\ InHand' = ToSet(cleanup_functions) \cup InOtherHands(h)
  <2>1. InHand' = ToSet(functions'[h]) \cup InOtherHands(h)'
    BY DEF InHand, InOtherHands
  <2> QED BY <1>1, <1>2, <1>3, <2>1, Hands
<1>5. SequencesOK'
  BY EmptyListed DEF SequencesOK, CleanupInv
<1>6. ToSet(cleanup_functions') \cup ToSet(called') \cup InHand' = 1 .. registered'
  BY <1>2, <1>4 DEF CleanupInv
<1>7. \A g \in Holders : /\ Descending(functions'[g])
                         /\ ToSet(functions'[g]) \cap ToSet(called') = {}
                         /\ ToSet(functions'[g]) \cap ToSet(cleanup_functions') = {}
  BY <1>1, <1>2 DEF CleanupInv
<1>8. \A g, k \in Holders : g # k => ToSet(functions'[g]) \cap ToSet(functions'[k]) = {}
  BY <1>1 DEF CleanupInv
<1> QED BY <1>2, <1>5, <1>6, <1>7, <1>8 DEF CleanupInv, Distinct

(* A function that is called leaves the thread's sequence for the history. *)
LEMMA CallKeeps ==
  ASSUME CleanupInv, NEW h \in Holders, CallsCleanup(h)
  PROVE  CleanupInv'
<1> DEFINE f == Head(functions[h])
<1>1. /\ functions[h] \in Seq(Nat) /\ functions[h] # <<>> /\ Descending(functions[h])
      /\ called \in Seq(Nat) /\ Distinct(called)
      /\ called' = Append(called, f) /\ functions' = [functions EXCEPT ![h] = Tail(@)]
      /\ UNCHANGED <<cleanup_functions, registered>>
  BY DEF CallsCleanup, CleanupInv, SequencesOK
<1>2. /\ Tail(functions[h]) \in Seq(Nat) /\ f \in Nat /\ f \in ToSet(functions[h])
      /\ ToSet(Tail(functions[h])) = ToSet(functions[h]) \ {f}
      /\ Descending(Tail(functions[h]))
  BY <1>1, Beheaded
<1>3. functions'[h] = Tail(functions[h]) /\ \A g \in Holders \ {h} : functions'[g] = functions[g]
  BY <1>1 DEF CleanupInv, SequencesOK
<1> HIDE DEF f
<1>4. f \notin ToSet(called) /\ f \notin ToSet(cleanup_functions)
      /\ \A g \in Holders \ {h} : f \notin ToSet(functions[g])
  BY <1>2 DEF CleanupInv
<1>5. called' \in Seq(Nat) /\ ToSet(called') = ToSet(called) \cup {f} /\ Distinct(called')
  BY <1>1, <1>2, <1>4, Appended
<1>6. InHand \cup ToSet(called) = InHand' \cup ToSet(called')
  <2>1. InHand' = ToSet(functions'[h]) \cup InOtherHands(h)'
    BY DEF InHand, InOtherHands
  <2>2. InOtherHands(h)' = InOtherHands(h)
    BY <1>3 DEF InOtherHands
  <2>3. InHand = ToSet(functions[h]) \cup InOtherHands(h)
    BY Hands
  <2> QED BY <1>2, <1>3, <1>5, <2>1, <2>2, <2>3
<1>7. SequencesOK'
  BY <1>1, <1>2, <1>5 DEF SequencesOK, CleanupInv
<1>8. ToSet(cleanup_functions') \cup ToSet(called') \cup InHand' = 1 .. registered'
  BY <1>1, <1>6 DEF CleanupInv
<1>9. \A g \in Holders : /\ Descending(functions'[g])
                         /\ ToSet(functions'[g]) \cap ToSet(called') = {}
                         /\ ToSet(functions'[g]) \cap ToSet(cleanup_functions') = {}
  BY <1>1, <1>2, <1>3, <1>4, <1>5 DEF CleanupInv
<1>10. \A g, k \in Holders : g # k => ToSet(functions'[g]) \cap ToSet(functions'[k]) = {}
  BY <1>2, <1>3 DEF CleanupInv
<1>11. ToSet(cleanup_functions') \cap ToSet(called') = {}
  BY <1>1, <1>4, <1>5 DEF CleanupInv
<1> QED BY <1>1, <1>5, <1>7, <1>8, <1>9, <1>10, <1>11 DEF CleanupInv

LEMMA CleanupNextInv == CleanupInv /\ [CleanupNext]_cleanupVars => CleanupInv'
<1>1. ASSUME CleanupInv, UNCHANGED <<cleanup_functions, functions, registered, called>>
      PROVE  CleanupInv'
  <2>1. InHand' = InHand
    BY <1>1 DEF InHand
  <2>2. SequencesOK'
    BY <1>1 DEF CleanupInv, SequencesOK
  <2>3. /\ Descending(cleanup_functions') /\ Distinct(called')
        /\ ToSet(cleanup_functions') \cup ToSet(called') \cup InHand' = 1 .. registered'
        /\ ToSet(cleanup_functions') \cap ToSet(called') = {}
    BY <1>1, <2>1 DEF CleanupInv
  <2>4. /\ \A h \in Holders : /\ Descending(functions'[h])
                              /\ ToSet(functions'[h]) \cap ToSet(called') = {}
                              /\ ToSet(functions'[h]) \cap ToSet(cleanup_functions') = {}
        /\ \A h, g \in Holders : h # g => ToSet(functions'[h]) \cap ToSet(functions'[g]) = {}
    BY <1>1 DEF CleanupInv
  <2> QED BY <2>2, <2>3, <2>4 DEF CleanupInv
<1>2. ASSUME CleanupInv, CleanupNext PROVE CleanupInv'
  <2>1. CASE Register BY <1>2, <2>1, RegisterKeeps
  <2>2. ASSUME NEW h \in Holders, AtExitBegins(h) PROVE CleanupInv'
    BY <1>1, <1>2, <2>2 DEF AtExitBegins
  <2>3. ASSUME NEW h \in Holders, AtExitEnds(h) PROVE CleanupInv'
    BY <1>1, <1>2, <2>3, MoveKeeps DEF AtExitEnds, LeftRegistered
  <2>4. ASSUME NEW h \in Holders, CallsCleanup(h) PROVE CleanupInv'
    BY <1>2, <2>4, CallKeeps
  <2> QED BY <1>2, <2>1, <2>2, <2>3, <2>4 DEF CleanupNext
<1> QED BY <1>1, <1>2 DEF cleanupVars

(* A number that is once in one sequence, and in no other, has one place. *)
LEMMA OnePlace ==
  ASSUME CleanupInv
  PROVE  CleanedUpOnce
<1>1. ASSUME NEW f \in 1 .. registered PROVE Cardinality(PlacesOf(f)) = 1
  <2>1. /\ Distinct(cleanup_functions) /\ Distinct(called)
        /\ \A h \in Holders : Distinct(functions[h])
    BY ListedType DEF CleanupInv, SequencesOK
  <2>2. f \in ToSet(cleanup_functions) \/ f \in ToSet(called)
        \/ \E h \in Holders : f \in ToSet(functions[h])
    BY DEF CleanupInv, InHand
  <2>3. \A s : f \notin ToSet(s) => At(s, f) = {}
    BY DEF ToSet, At
  <2>4. ASSUME NEW s, Distinct(s), f \in ToSet(s) PROVE \E i : At(s, f) = {i}
    <3>1. PICK i \in DOMAIN s : s[i] = f
      BY <2>4 DEF ToSet
    <3>2. At(s, f) = {i}
      BY <2>4, <3>1 DEF At, Distinct
    <3> QED BY <3>2
  <2>5. CASE f \in ToSet(cleanup_functions)
    <3>1. At(called, f) = {} /\ \A h \in Holders : At(functions[h], f) = {}
      BY <2>3, <2>5 DEF CleanupInv
    <3>2. PICK i : At(cleanup_functions, f) = {i}
      BY <2>1, <2>4, <2>5
    <3>3. PlacesOf(f) = {<<"registered", i>>}
      BY <3>1, <3>2 DEF PlacesOf
    <3> QED BY <3>3, FS_Singleton
  <2>6. CASE f \in ToSet(called)
    <3>1. At(cleanup_functions, f) = {} /\ \A h \in Holders : At(functions[h], f) = {}
      BY <2>3, <2>6 DEF CleanupInv
    <3>2. PICK i : At(called, f) = {i}
      BY <2>1, <2>4, <2>6
    <3>3. PlacesOf(f) = {<<"called", i>>}
      BY <3>1, <3>2 DEF PlacesOf
    <3> QED BY <3>3, FS_Singleton
  <2>7. ASSUME NEW h \in Holders, f \in ToSet(functions[h]) PROVE Cardinality(PlacesOf(f)) = 1
    <3>1. At(cleanup_functions, f) = {} /\ At(called, f) = {}
          /\ \A g \in Holders \ {h} : At(functions[g], f) = {}
      BY <2>3, <2>7 DEF CleanupInv
    <3>2. PICK i : At(functions[h], f) = {i}
      BY <2>1, <2>4, <2>7
    <3>3. PlacesOf(f) = {<<h, i>>}
      BY <3>1, <3>2 DEF PlacesOf
    <3> QED BY <3>3, FS_Singleton
  <2> QED BY <2>2, <2>5, <2>6, <2>7
<1> QED BY <1>1 DEF CleanedUpOnce, CleanupInv

(* A cleanup function is registered, about to be called, or called once: never lost or
   called again, whatever AtExits begin and end while others call theirs; and those that
   are called together are called in the reverse order of registration.                 *)
THEOREM CleanupOnce == CleanupSpec => []CleanedUpOnce
BY CleanupInitInv, CleanupNextInv, OnePlace, PTL DEF CleanupSpec
=============================================================================

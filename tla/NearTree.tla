------------------------------ MODULE NearTree ------------------------------
(* Fmi::NearTree (NearTree.h): a search tree for objects under any metric.  A node
   has a left and a right object, and below each a branch of objects that are nearer
   to it than to the other one, with the largest distance of those.  Insertions are
   delayed until the first search, which puts the objects into the tree in a random
   order.

   A node is named by the sides that lead to it from the root.  Distances are natural
   numbers; an object is found again by its slot, <<node, side>>.  insert() and the
   searches take a step at each node that they come to.                            *)
EXTENDS Integers, Sequences, FiniteSets, FiniteSetsExt

CONSTANTS
  Points,
  Distance,   \* the functor F
  Radii,      \* search radii; a negative one is no limit
  MaxObjects  \* bound: the number of objects inserted

Sides == {"left", "right"}
NoObject == <<>>
Root == <<>>

Apart(p, q) == Distance[<<p, q>>]

ASSUME MetricAssumption ==
  /\ NoObject \notin Points
  /\ Distance \in [Points \X Points -> Nat]
  /\ \A p, q \in Points : Apart(p, q) = Apart(q, p)
  /\ \A p, q, r \in Points : Apart(p, r) <= Apart(p, q) + Apart(q, r)
  /\ Radii \subseteq Int /\ MaxObjects \in Nat

VARIABLES
  nearTree,  \* the nodes: the object and the reach (itsMaxLeft, itsMaxRight) of each side
  buffer,    \* how often each object is waiting to be put into the tree
  flushing,  \* flush() is on its way through the buffer
  descent,   \* the object that is being put into the tree, and the node it has come to
  given,     \* history: how often each object was inserted since the last clear()
  query,     \* the search: its kind, the probe point and the radius
  known,     \* the slots it has found, and the radius it goes on with
  pending    \* the branches it has not come to, <<node, side>>, the next one first

plantVars  == <<nearTree, buffer, flushing, descent, given>>
queryVars == <<query, known, pending>>
nearVars   == <<plantVars, queryVars>>

NoneOf    == [p \in Points |-> 0]
EmptyNode == [object |-> [s \in Sides |-> NoObject], reach |-> [s \in Sides |-> -1]]
EmptyTree == [a \in {Root} |-> EmptyNode]
AtRest    == [object |-> NoObject, node |-> Root]
NoQuery   == [kind |-> "none", point |-> NoObject, radius |-> -1]
Unknown   == [slots |-> {}, radius |-> -1]

NearInit ==
  /\ nearTree = EmptyTree
  /\ buffer = NoneOf
  /\ flushing = FALSE
  /\ descent = AtRest
  /\ given = NoneOf
  /\ query = NoQuery /\ known = Unknown /\ pending = <<>>
-----------------------------------------------------------------------------
(* Insertion *)

Filled(a) == {s \in Sides : nearTree[a].object[s] # NoObject}

\* mutant: the reach is that of the last object put below
ReachOfLast(reach, distance) == distance

Reach(reach, distance) == IF reach < distance THEN distance ELSE reach

NearerSide(p, objects) ==
  IF Apart(p, objects["left"]) > Apart(p, objects["right"]) THEN "right" ELSE "left"

InsertObject(p) ==
  /\ query = NoQuery /\ ~flushing
  /\ MapThenSumSet(LAMBDA q : given[q], Points) < MaxObjects
  /\ buffer' = [buffer EXCEPT ![p] = @ + 1]
  /\ given' = [given EXCEPT ![p] = @ + 1]
  /\ UNCHANGED <<nearTree, flushing, descent, queryVars>>

\* flush(), by itself or as the first thing a search does: it shuffles the buffer, and
\* this is the next object, whichever it is.
Flushes(p) ==
  /\ query = NoQuery /\ descent = AtRest /\ buffer[p] > 0
  /\ descent' = [object |-> p, node |-> Root]
  /\ buffer' = [buffer EXCEPT ![p] = @ - 1]
  /\ flushing' = TRUE
  /\ UNCHANGED <<nearTree, given, queryVars>>

\* Impl::insert() at a node that has a side free.
Settles ==
  LET a == descent.node
      s == IF "left" \notin Filled(a) THEN "left" ELSE "right"
  IN /\ descent # AtRest /\ Filled(a) # Sides
     /\ nearTree' = [nearTree EXCEPT ![a].object[s] = descent.object]
     /\ descent' = AtRest
     /\ flushing' = (buffer # NoneOf)
     /\ UNCHANGED <<buffer, given, queryVars>>

\* Impl::insert() at a full node: the branch is made if there is none.
Descends ==
  LET a == descent.node
      p == descent.object
      s == NearerSide(p, nearTree[a].object)
      branch == Append(a, s)
  IN /\ descent # AtRest /\ Filled(a) = Sides
     /\ nearTree' = [b \in DOMAIN nearTree \cup {branch} |->
                       IF b = a
                       THEN [nearTree[a] EXCEPT !.reach[s] =
                               Reach(nearTree[a].reach[s], Apart(p, nearTree[a].object[s]))]
                       ELSE IF b \in DOMAIN nearTree THEN nearTree[b] ELSE EmptyNode]
     /\ descent' = [object |-> p, node |-> branch]
     /\ UNCHANGED <<buffer, flushing, given, queryVars>>

Clear ==
  /\ query = NoQuery /\ ~flushing
  /\ nearTree' = EmptyTree
  /\ buffer' = NoneOf
  /\ given' = NoneOf
  /\ UNCHANGED <<flushing, descent, queryVars>>
-----------------------------------------------------------------------------
(* Searches of a tree whose buffer is flushed *)

Slots == {x \in (DOMAIN nearTree) \X Sides : x[2] \in Filled(x[1])}
Object(slot) == nearTree[slot[1]].object[slot[2]]

Searches ==
  [kind : {"nearest", "within"}, point : Points, radius : Radii]
    \cup [kind : {"farthest"}, point : Points, radius : {-1}]

Away(q, slot) == Apart(q.point, Object(slot))

Takes(kind, distance, radius) ==
  CASE kind = "nearest"  -> radius < 0 \/ distance <= radius
    [] kind = "farthest" -> distance >= radius
    [] kind = "within"   -> distance <= radius

\* What is known after the object on side s of node a was looked at.
Weighed(q, k, a, s) ==
  IF s \notin Filled(a) \/ ~Takes(q.kind, Away(q, <<a, s>>), k.radius) THEN k
  ELSE IF q.kind = "within" THEN [k EXCEPT !.slots = @ \cup {<<a, s>>}]
  ELSE [slots |-> {<<a, s>>}, radius |-> Away(q, <<a, s>>)]

\* At a node, before the branches: the left one comes before the right one, which
\* profits from what was found.
Visits(q, k, a, others) ==
  LET atNode == Weighed(q, Weighed(q, k, a, "left"), a, "right")
  IN /\ known' = atNode
     /\ pending' = IF q.kind = "nearest" /\ atNode.radius < 0 THEN others
                   ELSE << <<a, "left">>, <<a, "right">> >> \o others

Search(q) ==
  /\ query = NoQuery /\ ~flushing /\ buffer = NoneOf
  /\ query' = q
  /\ Visits(q, [slots |-> {}, radius |-> q.radius], Root, <<>>)
  /\ UNCHANGED plantVars

\* Whether there is a branch that the triangle rule does not exclude.
MayHold(a, s) ==
  /\ Append(a, s) \in DOMAIN nearTree
  /\ IF query.kind = "farthest"
     THEN known.radius - nearTree[a].reach[s] <= Away(query, <<a, s>>)
     ELSE known.radius + nearTree[a].reach[s] >= Away(query, <<a, s>>)

LooksBelow ==
  /\ pending # <<>>
  /\ LET a == Head(pending)[1]
         s == Head(pending)[2]
     IN IF MayHold(a, s) THEN Visits(query, known, Append(a, s), Tail(pending))
        ELSE known' = known /\ pending' = Tail(pending)
  /\ UNCHANGED <<plantVars, query>>

Returns ==
  /\ query # NoQuery /\ pending = <<>>
  /\ query' = NoQuery /\ known' = Unknown
  /\ UNCHANGED <<plantVars, pending>>

NearNext ==
  \/ Clear
  \/ \E p \in Points : InsertObject(p) \/ Flushes(p)
  \/ Settles
  \/ Descends
  \/ \E q \in Searches : Search(q)
  \/ LooksBelow
  \/ Returns

NearSpec == NearInit /\ [][NearNext]_nearVars
-----------------------------------------------------------------------------
NearTypeOK ==
  /\ DOMAIN nearTree \subseteq Seq(Sides)
  /\ \A a \in DOMAIN nearTree :
       nearTree[a] \in [object : [Sides -> Points \cup {NoObject}], reach : [Sides -> Nat \cup {-1}]]
  /\ buffer \in [Points -> Nat]
  /\ flushing \in BOOLEAN
  /\ descent \in [object : Points \cup {NoObject}, node : DOMAIN nearTree]
  /\ given \in [Points -> Nat]
  /\ query \in Searches \cup {NoQuery}
  /\ known \in [slots : SUBSET Slots, radius : Int]
  /\ pending \in Seq((DOMAIN nearTree) \X Sides)

\* What a search is for.
Inside(q) ==
  {x \in Slots : (q.kind # "within" /\ q.radius < 0) \/ Away(q, x) <= q.radius}

(* The searches find what a search of all objects finds, from every point and with
   every radius, though they leave out branches, and whatever the order in which the
   objects came into the tree (NearTree.h:349-505, 664-677): all objects within the
   radius, one that is nearest, and one that is farthest; and no object that was
   inserted is lost on its way through the buffer.                                 *)
SearchesAreExact ==
  /\ descent = AtRest =>
       \A p \in Points : given[p] = buffer[p] + Cardinality({x \in Slots : Object(x) = p})
  /\ query # NoQuery /\ pending = <<>> =>
       LET inside == Inside(query)
           one == \E x \in inside :
                    /\ known.slots = {x}
                    /\ \A y \in inside : IF query.kind = "nearest"
                                         THEN Away(query, x) <= Away(query, y)
                                         ELSE Away(query, x) >= Away(query, y)
       IN IF query.kind = "within" \/ inside = {} THEN known.slots = inside ELSE one
=============================================================================

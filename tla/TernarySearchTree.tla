------------------------- MODULE TernarySearchTree -------------------------
(* Fmi::TernarySearchTree (TernarySearchTree.h): a map from words to values.  A node
   is named by the links that lead to it from the root.  A key is a sequence of
   characters, of which only their order matters, and its value is the key itself, so
   that what a search returns tells which insertion it comes from.  insert(), find()
   and findprefix() take a step at each node that they come to.                    *)
EXTENDS Naturals, Sequences, FiniteSets

CONSTANTS
  Words,    \* the keys that are inserted
  Probes,   \* the keys that are looked for
  MaxWords  \* bound: the number of successful insertions

ASSUME TernaryAssumption ==
  /\ Words \subseteq Seq(Nat) \ {<<>>} /\ Probes \subseteq Seq(Nat) \ {<<>>}
  /\ MaxWords \in Nat

VARIABLES
  nodes,         \* the character of each node, and its value
  spelled,       \* history: the beginning of a key that each node was made for
  inserted,      \* history: the keys that insert() returned true for
  grownAtAnEnd,  \* history: a key was inserted that continues one where the tree ended
  walk,          \* the operation: its key, where it has come to in it and in the tree
  collecting,    \* the branches that collect() has not come to, the next one first
  results        \* how often each value is in the result

plantedVars == <<nodes, spelled, inserted, grownAtAnEnd>>
lookingVars == <<collecting, results>>
treeVars    == <<plantedVars, walk, lookingVars>>

Links   == {"left", "middle", "right"}
Top     == <<>>
Nothing == <<>>

NoNodes   == [a \in {} |-> Nothing]
NoResults == [w \in Words |-> 0]
Idle      == [op |-> "none", stage |-> "end", key |-> Nothing, pos |-> 0, node |-> Top]

TreeInit ==
  /\ nodes = NoNodes /\ spelled = NoNodes
  /\ inserted = {} /\ grownAtAnEnd = FALSE
  /\ walk = Idle
  /\ collecting = <<>> /\ results = NoResults
-----------------------------------------------------------------------------
Link(c, chr) == IF c < chr THEN "left" ELSE IF c > chr THEN "right" ELSE "middle"

\* Where a comparison of key[pos] sends the walk, and whether it was the last one.
Chosen == Link(walk.key[walk.pos], nodes[walk.node].chr)
Next   == Append(walk.node, Chosen)
Matched == Chosen = "middle" /\ walk.pos = Len(walk.key)

Follow == walk' = [walk EXCEPT !.node = Next, !.pos = IF Chosen = "middle" THEN @ + 1 ELSE @]

\* A new Node(key[pos])
Plant(a, key, pos) ==
  /\ nodes' = [b \in DOMAIN nodes \cup {a} |->
                 IF b = a THEN [chr |-> key[pos], value |-> Nothing] ELSE nodes[b]]
  /\ spelled' = [b \in DOMAIN nodes \cup {a} |-> IF b = a THEN SubSeq(key, 1, pos) ELSE spelled[b]]
-----------------------------------------------------------------------------
(* Insertion *)

InsertWord(key) ==
  /\ walk = Idle /\ Cardinality(inserted) < MaxWords
  /\ IF DOMAIN nodes = {}
     THEN /\ Plant(Top, key, 1)
          /\ walk' = [op |-> "insert", stage |-> "grow", key |-> key, pos |-> 2, node |-> Top]
     ELSE /\ walk' = [op |-> "insert", stage |-> "descend", key |-> key, pos |-> 1, node |-> Top]
          /\ UNCHANGED <<nodes, spelled>>
  /\ UNCHANGED <<inserted, grownAtAnEnd, lookingVars>>

(* The node that is put below the end of the way gets the character that was compared.
   It is the one to be compared next on the left and the right, but on the middle it
   has been matched already: the code takes key[pos - 1] there.                     *)
Compares ==
  /\ walk.op = "insert" /\ walk.stage = "descend"
  /\ IF Matched
     THEN /\ walk' = [walk EXCEPT !.stage = "grow", !.pos = @ + 1]
          /\ UNCHANGED <<nodes, spelled, grownAtAnEnd>>
     ELSE IF Next \in DOMAIN nodes THEN Follow /\ UNCHANGED <<nodes, spelled, grownAtAnEnd>>
     ELSE /\ Plant(Next, walk.key, walk.pos)
          /\ walk' = [walk EXCEPT !.stage = "grow", !.pos = @ + 1, !.node = Next]
          /\ grownAtAnEnd' = (grownAtAnEnd \/ Chosen = "middle")
  /\ UNCHANGED <<inserted, lookingVars>>

\* The rest of the key, one node below the other
Grows ==
  /\ walk.stage = "grow" /\ walk.pos <= Len(walk.key)
  /\ Plant(Append(walk.node, "middle"), walk.key, walk.pos)
  /\ walk' = [walk EXCEPT !.pos = @ + 1, !.node = Append(@, "middle")]
  /\ UNCHANGED <<inserted, grownAtAnEnd, lookingVars>>

\* insert() fails if the node is occupied.
Stores ==
  /\ walk.stage = "grow" /\ walk.pos > Len(walk.key)
  /\ IF nodes[walk.node].value = Nothing
     THEN /\ nodes' = [nodes EXCEPT ![walk.node].value = walk.key]
          /\ inserted' = inserted \cup {walk.key}
     ELSE UNCHANGED <<nodes, inserted>>
  /\ walk' = Idle
  /\ UNCHANGED <<spelled, grownAtAnEnd, lookingVars>>
-----------------------------------------------------------------------------
(* Searches *)

LooksUp(op, key) ==
  /\ walk = Idle
  /\ walk' = [op |-> op, stage |-> IF DOMAIN nodes = {} THEN "collect" ELSE "descend",
              key |-> key, pos |-> 1, node |-> Top]
  /\ UNCHANGED <<plantedVars, lookingVars>>

\* The value of a node, if it has one, is put into the result.
WithValue(a) ==
  IF nodes[a].value = Nothing THEN results ELSE [results EXCEPT ![nodes[a].value] = @ + 1]

\* mutant: the neighbours of the node are collected with what is below it
AllAround(a) == << Append(a, "left"), Append(a, "middle"), Append(a, "right") >>

Continuations(a) == << Append(a, "middle") >>

LooksOn ==
  /\ walk.op \in {"find", "findprefix"} /\ walk.stage = "descend"
  /\ IF Matched
     THEN /\ walk' = [walk EXCEPT !.stage = "collect"]
          /\ results' = WithValue(walk.node)
          /\ collecting' = IF walk.op = "find" THEN <<>> ELSE Continuations(walk.node)
     ELSE /\ IF Next \in DOMAIN nodes THEN Follow ELSE walk' = [walk EXCEPT !.stage = "collect"]
          /\ UNCHANGED lookingVars
  /\ UNCHANGED plantedVars

Collects ==
  /\ collecting # <<>>
  /\ LET a == Head(collecting) IN
     IF a \in DOMAIN nodes
     THEN /\ results' = WithValue(a)
          /\ collecting' = << Append(a, "left"), Append(a, "middle"), Append(a, "right") >>
                             \o Tail(collecting)
     ELSE results' = results /\ collecting' = Tail(collecting)
  /\ UNCHANGED <<plantedVars, walk>>

Answers ==
  /\ walk.stage = "collect" /\ collecting = <<>>
  /\ walk' = Idle
  /\ results' = NoResults
  /\ UNCHANGED <<plantedVars, collecting>>

TreeNext ==
  \/ \E key \in Words : InsertWord(key)
  \/ Compares
  \/ Grows
  \/ Stores
  \/ \E op \in {"find", "findprefix"}, key \in Probes : LooksUp(op, key)
  \/ LooksOn
  \/ Collects
  \/ Answers

TreeSpec == TreeInit /\ [][TreeNext]_treeVars
-----------------------------------------------------------------------------
TreeTypeOK ==
  /\ DOMAIN nodes \subseteq Seq(Links)
  /\ \A a \in DOMAIN nodes : nodes[a] \in [chr : Nat, value : Words \cup {Nothing}]
  /\ DOMAIN spelled = DOMAIN nodes /\ \A a \in DOMAIN nodes : spelled[a] \in Seq(Nat)
  /\ inserted \subseteq Words
  /\ grownAtAnEnd \in BOOLEAN
  /\ walk \in [op : {"none", "insert", "find", "findprefix"},
               stage : {"descend", "grow", "collect", "end"},
               key : Words \cup Probes \cup {Nothing}, pos : Nat, node : Seq(Links)]
  /\ collecting \in Seq(Seq(Links))
  /\ results \in [Words -> Nat]

BeginsWith(word, key) == Len(word) >= Len(key) /\ \A i \in 1 .. Len(key) : word[i] = key[i]

\* find() returns the value of its key, findprefix() those of the keys that begin with it.
Answer(word) ==
  word \in inserted /\ (IF walk.op = "find" THEN word = walk.key ELSE BeginsWith(word, walk.key))

(* The tree is the map that was put into it: find() returns the value of each key that
   was inserted and of no other, and findprefix() those of the keys that begin with
   its argument, each once (TernarySearchTree.h:229-320), in whatever order the keys
   came and wherever the tree had to branch.                                        *)
TreeIsTheMap ==
  walk.stage = "collect" /\ collecting = <<>> =>
    \A word \in Words : results[word] = IF Answer(word) THEN 1 ELSE 0

(* TreeIsTheMap of a tree in which no key continued another one that nothing had
   continued before: these are put under a wrong character (TernarySearchTree.h:196). *)
TreeIsTheMapElsewhere == ~grownAtAnEnd => TreeIsTheMap
=============================================================================

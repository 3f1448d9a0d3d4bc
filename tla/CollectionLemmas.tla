-------------------------- MODULE CollectionLemmas --------------------------
(* Facts about the sums over sets and the sequences without repetitions that the caches
   keep: what SumFunctionOnSet, Append, Tail, RemoveFirst and InsertAt of the community
   modules return.  At the end, facts about the nodes of a tree that are named by the
   paths to them.                                                                     *)
EXTENDS SequencesExt, Functions, FiniteSetTheorems, SequenceTheorems, WellFoundedInduction, TLAPS

\* The sum of g over S counts the pairs of an element of S and a number up to its value.
Units(g, S) == UNION {{x} \X (1 .. g[x]) : x \in S}

Weight(g, S) == Cardinality(Units(g, S))

(* As many pairs as the value of an element. *)
LEMMA UnitsOfElement ==
  ASSUME NEW x, NEW n \in Nat
  PROVE  IsFiniteSet({x} \X (1 .. n)) /\ Cardinality({x} \X (1 .. n)) = n
<1>1. IsFiniteSet({x}) /\ Cardinality({x}) = 1
  BY FS_Singleton
<1>2. IsFiniteSet(1 .. n) /\ Cardinality(1 .. n) = n
  BY FS_Interval
<1>3. /\ IsFiniteSet({x} \X (1 .. n))
      /\ Cardinality({x} \X (1 .. n)) = Cardinality({x}) * Cardinality(1 .. n)
  BY <1>1, <1>2, FS_Product
<1> QED
  BY <1>1, <1>2, <1>3

(* There are finitely many. *)
LEMMA UnitsFinite ==
  ASSUME NEW S, IsFiniteSet(S), NEW g, \A x \in S : g[x] \in Nat
  PROVE  IsFiniteSet(Units(g, S))
<1> DEFINE Own(x) == {x} \X (1 .. g[x])
           own == [x \in S |-> Own(x)]
<1>1. own \in Surjection(S, {Own(x) : x \in S})
  BY DEF Surjection
<1>2. IsFiniteSet({Own(x) : x \in S})
  BY <1>1, FS_Surjection
<1>3. ASSUME NEW x \in S PROVE IsFiniteSet(Own(x))
  BY UnitsOfElement
<1> QED
  <2>1. \A T \in {Own(x) : x \in S} : IsFiniteSet(T)
    <3> HIDE DEF Own
    <3> QED BY <1>3
  <2> QED
    BY <1>2, <2>1, FS_UNION DEF Units

(* Those of one element more come on top. *)
LEMMA WeightOfMore ==
  ASSUME NEW S, IsFiniteSet(S), NEW x, x \notin S, NEW g, \A y \in S \cup {x} : g[y] \in Nat
  PROVE  Weight(g, S \cup {x}) = Weight(g, S) + g[x]
<1> DEFINE own == {x} \X (1 .. g[x])
<1>1. IsFiniteSet(own) /\ Cardinality(own) = g[x]
  BY UnitsOfElement
<1>2. IsFiniteSet(Units(g, S))
  BY UnitsFinite
<1>3. Units(g, S \cup {x}) = Units(g, S) \cup own
  BY DEF Units
<1>4. Units(g, S) \cap own = {}
  BY DEF Units
<1>5. Cardinality(Units(g, S) \cup own)
        = Cardinality(Units(g, S)) + Cardinality(own) - Cardinality(Units(g, S) \cap own)
  BY <1>1, <1>2, FS_Union
<1>6. Cardinality(Units(g, S)) \in Nat /\ g[x] \in Nat
  BY <1>2, FS_CardinalityType
<1>7. Cardinality(Units(g, S) \cup own) = Cardinality(Units(g, S)) + g[x]
  <2> HIDE DEF own
  <2> QED BY <1>1, <1>4, <1>5, <1>6, FS_EmptySet
<1> QED
  BY <1>3, <1>7 DEF Weight

(* So it satisfies the recursion of the fold, which no other function does. *)
LEMMA SumIsWeight ==
  ASSUME NEW S, IsFiniteSet(S), NEW g, \A x \in S : g[x] \in Nat
  PROVE  SumFunctionOnSet(g, S) = Weight(g, S)
<1> DEFINE Rest(s) == s \ {CHOOSE x \in s : TRUE}
           Turn(f) == [s \in SUBSET S |->
                         IF s = {} THEN 0
                         ELSE LET x == CHOOSE x \in s : TRUE IN g[x] + f[s \ {x}]]
           sum == CHOOSE f : f = Turn(f)
<1>1. SumFunctionOnSet(g, S) = sum[S]
  BY Zenon DEF SumFunctionOnSet, FoldFunctionOnSet, MapThenFoldSet
<1>2. ASSUME NEW s \in SUBSET S, s # {}, NEW x \in s
      PROVE  Weight(g, s) = g[x] + Weight(g, s \ {x})
  <2>1. IsFiniteSet(s \ {x}) /\ s = (s \ {x}) \cup {x}
    BY <1>2, FS_Subset, FS_RemoveElement
  <2>2. Weight(g, (s \ {x}) \cup {x}) = Weight(g, s \ {x}) + g[x]
    BY <2>1, WeightOfMore
  <2>3. Weight(g, s \ {x}) \in Nat
    BY <2>1, UnitsFinite, FS_CardinalityType DEF Weight
  <2>4. g[x] \in Nat
    OBVIOUS
  <2>5. Weight(g, s) = Weight(g, (s \ {x}) \cup {x})
    BY <2>1, Zenon
  <2> QED
    BY <2>2, <2>3, <2>4, <2>5
<1>3. Weight(g, {}) = 0
  BY FS_EmptySet DEF Weight, Units
<1> DEFINE weight == [s \in SUBSET S |-> Weight(g, s)]
<1>4. weight = Turn(weight)
  BY <1>2, <1>3
<1>5. sum = Turn(sum)
  BY <1>4, Zenon
<1>6. ASSUME NEW s \in SUBSET S
      PROVE  sum[s] = Weight(g, s)
  <2> DEFINE Wrong == {r \in SUBSET S : sum[r] # Weight(g, r)}
  <2> SUFFICES ASSUME Wrong # {} PROVE FALSE
    OBVIOUS
  <2>1. IsWellFoundedOn(StrictSubsetOrdering(S), SUBSET S)
    BY FS_StrictSubsetOrderingWellFounded, FS_FiniteSubsetsOfFinite
  <2>4. PICK r \in Wrong : \A q \in Wrong : ~(<<q, r>> \in StrictSubsetOrdering(S))
    <3> Wrong \subseteq SUBSET S
      OBVIOUS
    <3> HIDE DEF Wrong
    <3> QED BY <2>1, WFMin
  <2>2. CASE r = {}
    BY <2>2, <1>3, <1>5
  <2>3. CASE r # {}
    <3> DEFINE x == CHOOSE x \in r : TRUE
    <3>1. x \in r
      BY <2>3
    <3>2. sum[r] = g[x] + sum[r \ {x}]
      BY <1>5, <2>3
    <3>3. r \ {x} \notin Wrong
      <4>1. r \subseteq S /\ r \ {x} \subseteq S /\ r \ {x} # r
        BY <3>1
      <4>2. <<r \ {x}, r>> \in StrictSubsetOrdering(S)
        BY <4>1 DEF StrictSubsetOrdering
      <4> HIDE DEF Wrong, x
      <4> QED BY <2>4, <4>2
    <3>4. sum[r \ {x}] = Weight(g, r \ {x})
      BY <3>3
    <3> QED
      BY <3>1, <3>2, <3>4, <1>2, <2>3
  <2> QED
    BY <2>2, <2>3
<1> QED
  BY <1>1, <1>6

(* The sum over nothing. *)
LEMMA EmptySum ==
  ASSUME NEW g
  PROVE  SumFunctionOnSet(g, {}) = 0
BY FS_EmptySet, SumIsWeight DEF Weight, Units

(* A sum of numbers is a number. *)
LEMMA SumType ==
  ASSUME NEW S, IsFiniteSet(S), NEW g, \A y \in S : g[y] \in Nat
  PROVE  SumFunctionOnSet(g, S) \in Nat
BY SumIsWeight, UnitsFinite, FS_CardinalityType DEF Weight

(* An element more adds its value. *)
LEMMA SumOfMore ==
  ASSUME NEW S, IsFiniteSet(S), NEW x, x \notin S, NEW g, \A y \in S \cup {x} : g[y] \in Nat
  PROVE  SumFunctionOnSet(g, S \cup {x}) = SumFunctionOnSet(g, S) + g[x]
<1>1. IsFiniteSet(S \cup {x})
  BY FS_AddElement
<1>2. SumFunctionOnSet(g, S \cup {x}) = Weight(g, S \cup {x})
  BY <1>1, SumIsWeight
<1>3. SumFunctionOnSet(g, S) = Weight(g, S)
  BY SumIsWeight
<1>4. Weight(g, S \cup {x}) = Weight(g, S) + g[x]
  BY WeightOfMore
<1> QED
  BY <1>2, <1>3, <1>4

(* An element less takes its value away. *)
LEMMA SumOfLess ==
  ASSUME NEW S, IsFiniteSet(S), NEW x \in S, NEW g, \A y \in S : g[y] \in Nat
  PROVE  /\ SumFunctionOnSet(g, S) = SumFunctionOnSet(g, S \ {x}) + g[x]
         /\ SumFunctionOnSet(g, S \ {x}) = SumFunctionOnSet(g, S) - g[x]
<1>1. IsFiniteSet(S \ {x}) /\ S = (S \ {x}) \cup {x}
  BY FS_RemoveElement
<1>2. SumFunctionOnSet(g, (S \ {x}) \cup {x}) = SumFunctionOnSet(g, S \ {x}) + g[x]
  BY <1>1, SumOfMore
<1>3. SumFunctionOnSet(g, (S \ {x}) \cup {x}) = SumFunctionOnSet(g, S)
  BY <1>1, Zenon
<1>4. SumFunctionOnSet(g, S \ {x}) \in Nat /\ g[x] \in Nat
  BY <1>1, SumType
<1> QED
  BY <1>2, <1>3, <1>4

(* Functions that agree on the set have the same sum. *)
LEMMA SameSum ==
  ASSUME NEW S, IsFiniteSet(S), NEW g, \A x \in S : g[x] \in Nat, NEW h, \A x \in S : h[x] = g[x]
  PROVE  SumFunctionOnSet(h, S) = SumFunctionOnSet(g, S)
<1>1. Units(h, S) = Units(g, S)
  BY DEF Units
<1> QED
  BY <1>1, SumIsWeight DEF Weight

(* A sum of nothing but zeros. *)
LEMMA SumOfNothing ==
  ASSUME NEW S, IsFiniteSet(S), NEW g, \A x \in S : g[x] = 0
  PROVE  SumFunctionOnSet(g, S) = 0
<1>1. Units(g, S) = {}
  BY DEF Units
<1> QED
  BY <1>1, SumIsWeight, FS_EmptySet DEF Weight

-----------------------------------------------------------------------------
(* A sequence without repetitions. *)
Distinct(l) == \A i, j \in DOMAIN l : l[i] = l[j] => i = j

(* Its elements are finitely many, and as many as it is long. *)
LEMMA ListedSet ==
  ASSUME NEW S, NEW l \in Seq(S)
  PROVE  /\ IsFiniteSet(ToSet(l)) /\ ToSet(l) \subseteq S
         /\ Distinct(l) => Cardinality(ToSet(l)) = Len(l)
<1>1. Len(l) \in Nat /\ DOMAIN l = 1 .. Len(l) /\ \A i \in 1 .. Len(l) : l[i] \in S
  OBVIOUS
<1>2. IsFiniteSet(1 .. Len(l)) /\ Cardinality(1 .. Len(l)) = Len(l)
  <2>1. /\ IsFiniteSet(1 .. Len(l))
        /\ Cardinality(1 .. Len(l)) = IF 1 > Len(l) THEN 0 ELSE Len(l) - 1 + 1
    BY <1>1, FS_Interval
  <2> QED
    BY <1>1, <2>1
<1> DEFINE f == [i \in 1 .. Len(l) |-> l[i]]
<1>3. f \in Surjection(1 .. Len(l), ToSet(l))
  BY <1>1 DEF Surjection, ToSet
<1>4. Distinct(l) => f \in Injection(1 .. Len(l), ToSet(l))
  BY <1>1, <1>3 DEF Injection, IsInjective, Surjection, Distinct
<1>5. /\ IsFiniteSet(ToSet(l))
      /\ Cardinality(ToSet(l)) = Len(l) <=> f \in Injection(1 .. Len(l), ToSet(l))
  <2> HIDE DEF f
  <2> QED BY <1>2, <1>3, FS_Surjection
<1> QED
  BY <1>1, <1>4, <1>5 DEF ToSet

(* An element more at its end. *)
LEMMA Appended ==
  ASSUME NEW S, NEW l \in Seq(S), NEW x \in S
  PROVE  /\ Append(l, x) \in Seq(S) /\ Len(Append(l, x)) = Len(l) + 1 /\ Append(l, x) # <<>>
         /\ \A i \in 1 .. Len(l) : Append(l, x)[i] = l[i]
         /\ Append(l, x)[Len(l) + 1] = x
         /\ ToSet(Append(l, x)) = ToSet(l) \cup {x}
         /\ Distinct(l) /\ x \notin ToSet(l) => Distinct(Append(l, x))
<1>1. /\ Append(l, x) \in Seq(S) /\ Len(Append(l, x)) = Len(l) + 1
      /\ \A i \in 1 .. Len(l) : Append(l, x)[i] = l[i]
      /\ Append(l, x)[Len(l) + 1] = x
  OBVIOUS
<1>2. Len(l) \in Nat /\ DOMAIN l = 1 .. Len(l)
      /\ DOMAIN Append(l, x) = 1 .. Len(l) + 1
  OBVIOUS
<1> DEFINE r == Append(l, x)
<1> HIDE DEF r
<1>3. \A i \in 1 .. Len(l) + 1 : i \in 1 .. Len(l) \/ i = Len(l) + 1
  BY <1>2
<1>4. ToSet(r) = ToSet(l) \cup {x}
  BY <1>1, <1>2, <1>3 DEF ToSet, r
<1>5. Distinct(l) /\ x \notin ToSet(l) => Distinct(r)
  BY <1>1, <1>2, <1>3 DEF Distinct, ToSet, r
<1>6. r # <<>>
  <2>1. Len(r) # 0
    BY <1>1, <1>2 DEF r
  <2> QED
    BY <2>1
<1> QED
  BY <1>1, <1>4, <1>5, <1>6 DEF r

(* An element more in front. *)
LEMMA Prefixed ==
  ASSUME NEW S, NEW l \in Seq(S), NEW x \in S
  PROVE  /\ <<x>> \o l \in Seq(S) /\ Len(<<x>> \o l) = Len(l) + 1 /\ <<x>> \o l # <<>>
         /\ Head(<<x>> \o l) = x /\ Tail(<<x>> \o l) = l
         /\ ToSet(<<x>> \o l) = ToSet(l) \cup {x}
         /\ Distinct(l) /\ x \notin ToSet(l) => Distinct(<<x>> \o l)
<1> DEFINE r == <<x>> \o l
<1>1. r \in Seq(S) /\ Len(r) = Len(l) + 1 /\ r # <<>> /\ Head(r) = x /\ Tail(r) = l
  OBVIOUS
<1>2. r[1] = x /\ \A i \in DOMAIN l : r[i + 1] = l[i]
  OBVIOUS
<1>3. /\ DOMAIN l = 1 .. Len(l) /\ DOMAIN r = 1 .. Len(l) + 1 /\ Len(l) \in Nat
      /\ \A i \in DOMAIN r : i # 1 => i - 1 \in DOMAIN l /\ r[i] = l[i - 1]
  BY <1>1, <1>2
<1> HIDE DEF r
<1>4. ToSet(r) = ToSet(l) \cup {x}
  <2>1. ASSUME NEW y \in ToSet(r) PROVE y \in ToSet(l) \cup {x}
    BY <1>2, <1>3 DEF ToSet
  <2>2. ASSUME NEW y \in ToSet(l) PROVE y \in ToSet(r)
    <3>1. PICK i \in DOMAIN l : y = l[i]
      BY DEF ToSet
    <3>2. i + 1 \in DOMAIN r /\ r[i + 1] = y
      BY <1>2, <1>3, <3>1
    <3> QED
      BY <3>2 DEF ToSet
  <2>3. x \in ToSet(r)
    BY <1>2, <1>3 DEF ToSet
  <2> QED
    BY <2>1, <2>2, <2>3
<1>5. ASSUME Distinct(l), x \notin ToSet(l) PROVE Distinct(r)
  <2>1. \A i \in DOMAIN l : l[i] # x
    BY <1>5 DEF ToSet
  <2> QED
    BY <1>2, <1>3, <1>5, <2>1 DEF Distinct
<1> QED
  BY <1>1, <1>4, <1>5 DEF r

(* The first element is taken. *)
LEMMA FirstTaken ==
  ASSUME NEW S, NEW l \in Seq(S), l # <<>>, Distinct(l)
  PROVE  /\ Tail(l) \in Seq(S) /\ Len(Tail(l)) = Len(l) - 1 /\ Head(l) \in S
         /\ \A i \in 1 .. Len(l) - 1 : Tail(l)[i] = l[i + 1]
         /\ Head(l) = l[1] /\ Head(l) \in ToSet(l) /\ 1 \in 1 .. Len(l)
         /\ ToSet(Tail(l)) = ToSet(l) \ {Head(l)}
         /\ Distinct(Tail(l))
<1>1. /\ Tail(l) \in Seq(S) /\ Len(Tail(l)) = Len(l) - 1 /\ Head(l) \in S
      /\ \A i \in 1 .. Len(l) - 1 : Tail(l)[i] = l[i + 1]
      /\ Head(l) = l[1]
  OBVIOUS
<1>2. Len(l) \in Nat \ {0} /\ DOMAIN l = 1 .. Len(l) /\ DOMAIN Tail(l) = 1 .. Len(l) - 1
  OBVIOUS
<1> DEFINE r == Tail(l)
<1> HIDE DEF r
<1>3. \A i \in 1 .. Len(l) : i = 1 \/ (i - 1 \in 1 .. Len(l) - 1 /\ r[i - 1] = l[i])
  BY <1>1, <1>2 DEF r
<1>4. \A i \in 1 .. Len(l) - 1 : i + 1 \in 1 .. Len(l) /\ i + 1 # 1 /\ r[i] = l[i + 1]
  BY <1>1, <1>2 DEF r
<1>5. DOMAIN r = 1 .. Len(l) - 1 /\ Len(r) = Len(l) - 1
  BY <1>1, <1>2 DEF r
<1>6. 1 \in 1 .. Len(l)
  BY <1>2
<1>7. ToSet(r) = ToSet(l) \ {Head(l)}
  <2>1. ASSUME NEW i \in 1 .. Len(l) - 1 PROVE r[i] \in ToSet(l) /\ r[i] # Head(l)
    BY <1>1, <1>2, <1>4, <1>6 DEF Distinct, ToSet
  <2>2. ASSUME NEW i \in 1 .. Len(l), l[i] # Head(l) PROVE l[i] \in ToSet(r)
    BY <2>2, <1>1, <1>3, <1>5 DEF ToSet
  <2> QED
    BY <2>1, <2>2, <1>2, <1>5 DEF ToSet
<1>8. Distinct(r)
  <2> SUFFICES ASSUME NEW i \in 1 .. Len(l) - 1, NEW j \in 1 .. Len(l) - 1, r[i] = r[j]
               PROVE  i = j
    BY <1>5 DEF Distinct
  <2>1. i + 1 = j + 1
    BY <1>4 DEF Distinct
  <2> QED
    BY <2>1
<1> QED
  BY <1>1, <1>2, <1>6, <1>7, <1>8 DEF r, ToSet

\* What stands earlier in r stands earlier in l.
KeepsOrder(r, l) ==
  \A i, j \in 1 .. Len(r) : i < j =>
    \E a, b \in 1 .. Len(l) : a < b /\ r[i] = l[a] /\ r[j] = l[b]

(* RemoveFirst() from such a sequence leaves the others, in their order. *)
LEMMA Removed ==
  ASSUME NEW S, NEW l \in Seq(S), Distinct(l), NEW x
  PROVE  /\ RemoveFirst(l, x) \in Seq(S)
         /\ ToSet(RemoveFirst(l, x)) = ToSet(l) \ {x}
         /\ Distinct(RemoveFirst(l, x))
         /\ x \notin ToSet(l) => RemoveFirst(l, x) = l
         /\ KeepsOrder(RemoveFirst(l, x), l)
<1>0. Len(l) \in Nat /\ DOMAIN l = 1 .. Len(l) /\ \A i \in 1 .. Len(l) : l[i] \in S
  OBVIOUS
<1>1. CASE x \notin ToSet(l)
  <2>1. ~\E i \in 1 .. Len(l) : l[i] = x
    BY <1>1, <1>0 DEF ToSet
  <2>2. RemoveFirst(l, x) = l
    BY <2>1 DEF RemoveFirst
  <2>3. KeepsOrder(l, l)
    BY DEF KeepsOrder
  <2> QED
    BY <1>1, <2>2, <2>3
<1>2. CASE x \in ToSet(l)
  <2>1. PICK n \in 1 .. Len(l) : l[n] = x
    BY <1>2, <1>0 DEF ToSet
  <2>2. \A i \in 1 .. Len(l) : l[i] = x => i = n
    BY <2>1 DEF Distinct
  <2>3. RemoveFirst(l, x) = SubSeq(l, 1, n - 1) \o SubSeq(l, n + 1, Len(l))
    <3>1. {i \in 1 .. Len(l) : l[i] = x} = {n}
      BY <2>1, <2>2
    <3>2. Min({n}) = n
      BY DEF Min
    <3> QED
      BY <2>1, <3>1, <3>2 DEF RemoveFirst, RemoveAt, SelectInSeq
  <2> DEFINE r == RemoveFirst(l, x)
  <2> HIDE DEF r
  <2> DEFINE left  == SubSeq(l, 1, n - 1)
             right == SubSeq(l, n + 1, Len(l))
  <2>4. /\ left \in Seq(S) /\ Len(left) = n - 1
        /\ \A i \in 1 .. n - 1 : left[i] = l[i]
    BY <1>0
  <2>5. /\ right \in Seq(S) /\ Len(right) = Len(l) - n
        /\ \A i \in 1 .. Len(l) - n : right[i] = l[n + i]
    <3>1. \A i \in (n + 1) .. Len(l) : l[i] \in S
      BY <1>0
    <3>2. /\ right \in Seq(S)
          /\ Len(right) = IF n + 1 <= Len(l) THEN Len(l) - (n + 1) + 1 ELSE 0
          /\ \A i \in 1 .. Len(l) - (n + 1) + 1 : right[i] = l[n + 1 + i - 1]
      BY <1>0, <3>1, SubSeqProperties
    <3>3. Len(right) = Len(l) - n
      <4> DEFINE size_l == Len(l)
                 size_r == Len(right)
      <4>1. size_l \in Nat /\ n \in Nat /\ n <= size_l
        BY <1>0
      <4>2. n + 1 <= size_l => size_r = size_l - (n + 1) + 1
        BY <3>2
      <4>3. ~(n + 1 <= size_l) => size_r = 0
        BY <3>2
      <4> HIDE DEF size_l, size_r
      <4>4. size_r = size_l - n
        BY <4>1, <4>2, <4>3
      <4> QED
        BY <4>4 DEF size_l, size_r
    <3>4. \A i \in 1 .. Len(l) - n : right[i] = l[n + i]
      <4> SUFFICES ASSUME NEW i \in 1 .. Len(l) - n PROVE right[i] = l[n + i]
        OBVIOUS
      <4>1. i \in 1 .. Len(l) - (n + 1) + 1 /\ n + 1 + i - 1 = n + i
        BY <1>0
      <4> HIDE DEF right
      <4> QED BY <3>2, <4>1
    <3> QED
      BY <3>2, <3>3, <3>4
  <2>6. r = left \o right
    BY <2>3 DEF r
  <2> HIDE DEF left, right
  <2>7. /\ r \in Seq(S) /\ Len(r) = Len(left) + Len(right)
        /\ \A i \in 1 .. Len(left) + Len(right) :
             r[i] = IF i <= Len(left) THEN left[i] ELSE right[i - Len(left)]
    BY <2>6, <2>4, <2>5, ConcatProperties
  <2>8. r \in Seq(S) /\ Len(r) = Len(l) - 1 /\ DOMAIN r = 1 .. Len(l) - 1
    BY <2>7, <2>4, <2>5, <1>0
  <2>9. ASSUME NEW i \in 1 .. n - 1 PROVE r[i] = l[i]
    <3>1. i \in 1 .. Len(left) + Len(right) /\ i <= Len(left)
      BY <2>4, <2>5, <1>0
    <3>2. r[i] = left[i]
      BY <3>1, <2>7
    <3> QED
      BY <3>2, <2>4
  <2>10. ASSUME NEW i \in n .. Len(l) - 1 PROVE r[i] = l[i + 1]
    <3>1. /\ i \in 1 .. Len(left) + Len(right) /\ ~(i <= Len(left)) /\ Len(left) = n - 1
          /\ i - (n - 1) \in 1 .. Len(l) - n /\ n + (i - (n - 1)) = i + 1
      BY <2>4, <2>5, <1>0
    <3>2. r[i] = right[i - (n - 1)]
      BY <3>1, <2>7
    <3>3. right[i - (n - 1)] = l[n + (i - (n - 1))]
      BY <3>1, <2>5
    <3> QED
      BY <3>1, <3>2, <3>3
  <2> DEFINE Was(i) == IF i < n THEN i ELSE i + 1
  <2>11. ASSUME NEW i \in 1 .. Len(l) - 1
        PROVE  Was(i) \in 1 .. Len(l) /\ Was(i) # n /\ r[i] = l[Was(i)]
    BY <2>9, <2>10, <1>0
  <2>12. ASSUME NEW i \in 1 .. Len(l) - 1, NEW j \in 1 .. Len(l) - 1, i < j
         PROVE  Was(i) < Was(j)
    BY <2>12, <1>0
  <2>13. ASSUME NEW i \in 1 .. Len(l), i # n
         PROVE  \E j \in 1 .. Len(l) - 1 : Was(j) = i
    <3>1. CASE i < n
      BY <3>1, <1>0
    <3>2. CASE i > n
      <4>1. i - 1 \in 1 .. Len(l) - 1 /\ Was(i - 1) = i
        BY <3>2, <1>0
      <4> QED BY <4>1
    <3> QED
      BY <3>1, <3>2, <2>13, <1>0
  <2>14. ToSet(r) = ToSet(l) \ {x}
    <3>1. ASSUME NEW i \in 1 .. Len(l) - 1 PROVE r[i] \in ToSet(l) /\ r[i] # x
      <4> HIDE DEF Was
      <4> QED BY <2>1, <2>2, <2>11, <1>0 DEF ToSet
    <3>2. ASSUME NEW i \in 1 .. Len(l), l[i] # x PROVE l[i] \in ToSet(r)
      <4> HIDE DEF Was
      <4>1. PICK j \in 1 .. Len(l) - 1 : Was(j) = i
        BY <3>2, <2>1, <2>13
      <4> QED BY <4>1, <2>8, <2>11 DEF ToSet
    <3> QED
      BY <3>1, <3>2, <2>8, <1>0 DEF ToSet
  <2>15. KeepsOrder(r, l)
    <3> HIDE DEF Was
    <3> QED BY <2>8, <2>11, <2>12 DEF KeepsOrder
  <2>16. Distinct(r)
    <3> SUFFICES ASSUME NEW i \in 1 .. Len(l) - 1, NEW j \in 1 .. Len(l) - 1, r[i] = r[j], i < j
                 PROVE  FALSE
      BY <2>8, <1>0 DEF Distinct
    <3>1. Was(i) = Was(j)
      <4> HIDE DEF Was
      <4>1. Was(i) \in DOMAIN l /\ Was(j) \in DOMAIN l /\ l[Was(i)] = l[Was(j)]
        BY <2>11
      <4>2. Distinct(l)
        OBVIOUS
      <4> QED BY <4>1, <4>2 DEF Distinct
    <3> QED
      BY <3>1, <2>12, <1>0
  <2> QED
    BY <1>2, <2>8, <2>14, <2>15, <2>16 DEF r
<1> QED
  BY <1>1, <1>2

(* A set of the first numbers is told by its cardinality. *)
LEMMA FirstNumbers ==
  ASSUME NEW n \in Nat, NEW T \in SUBSET (1 .. n), \A i \in T : \A j \in 1 .. i : j \in T
  PROVE  Cardinality(T) \in 0 .. n /\ T = 1 .. Cardinality(T)
<1> DEFINE Left == {T \ (1 .. k) : k \in {j \in 0 .. n : 1 .. j \subseteq T}}
<1>1. PICK k \in 0 .. n : 1 .. k \subseteq T /\ \A R \in Left : ~(R \subseteq T \ (1 .. k) /\ R # T \ (1 .. k))
  <2>1. IsWellFoundedOn(StrictSubsetOrdering(T), SUBSET T)
    <3>1. IsFiniteSet(1 .. n)
      BY FS_Interval
    <3> QED
      BY <3>1, FS_Subset, FS_StrictSubsetOrderingWellFounded, FS_FiniteSubsetsOfFinite
  <2>2. Left \subseteq SUBSET T /\ T \in Left
    <3>1. 0 \in 0 .. n /\ 1 .. 0 = {}
      OBVIOUS
    <3> QED
      BY <3>1
  <2>3. PICK R \in Left : \A Q \in Left : <<Q, R>> \notin StrictSubsetOrdering(T)
    <3> HIDE DEF Left
    <3> QED BY <2>1, <2>2, WFMin
  <2> QED
    BY <2>2, <2>3 DEF StrictSubsetOrdering
<1>2. k + 1 \notin T
  <2> SUFFICES ASSUME k + 1 \in T PROVE FALSE
    OBVIOUS
  <2>1. k + 1 \in 0 .. n /\ 1 .. k + 1 \subseteq T
    BY <1>1
  <2>2. T \ (1 .. k + 1) \in Left
    BY <2>1
  <2>3. T \ (1 .. k + 1) \subseteq T \ (1 .. k) /\ k + 1 \in T \ (1 .. k) /\ k + 1 \notin T \ (1 .. k + 1)
    BY <2>1
  <2> QED
    BY <1>1, <2>2, <2>3
<1>3. T = 1 .. k
  <2>1. ASSUME NEW j \in T, ~(j <= k) PROVE FALSE
    <3>1. k + 1 \in 1 .. j
      BY <2>1
    <3> QED
      BY <3>1, <1>2
  <2>2. ASSUME NEW j \in 1 .. k PROVE j \in T
    BY <1>1
  <2>3. ASSUME NEW j \in T PROVE j \in 1 .. k
    BY <2>1
  <2> QED
    BY <2>2, <2>3
<1>5. Cardinality(1 .. k) = k
  BY FS_Interval
<1> QED
  BY <1>1, <1>3, <1>5

(* What InsertAt() returns. *)
LEMMA InsertedAt ==
  ASSUME NEW S, NEW s \in Seq(S), NEW e \in S, NEW k \in 0 .. Len(s)
  PROVE  /\ InsertAt(s, k + 1, e) \in Seq(S)
         /\ Len(InsertAt(s, k + 1, e)) = Len(s) + 1
         /\ \A i \in 1 .. k : InsertAt(s, k + 1, e)[i] = s[i]
         /\ InsertAt(s, k + 1, e)[k + 1] = e
         /\ \A i \in k + 2 .. Len(s) + 1 : InsertAt(s, k + 1, e)[i] = s[i - 1]
<1> DEFINE a == SubSeq(s, 1, k)
           b == SubSeq(s, k + 1, Len(s))
           c == a \o <<e>>
<1>1. InsertAt(s, k + 1, e) = c \o b
  <2>1. (k + 1) - 1 = k
    OBVIOUS
  <2> QED
    BY <2>1, Zenon DEF InsertAt
<1>2. a \in Seq(S) /\ Len(a) = k /\ \A i \in 1 .. k : a[i] = s[i]
  <2>1. \A i \in 1 .. k : s[i] \in S
    OBVIOUS
  <2> QED
    BY <2>1, SubSeqProperties
<1>3. b \in Seq(S) /\ Len(b) = Len(s) - k /\ \A i \in 1 .. Len(s) - k : b[i] = s[k + i]
  <2>1. \A i \in k + 1 .. Len(s) : s[i] \in S
    OBVIOUS
  <2> QED
    BY <2>1, SubSeqProperties
<1> HIDE DEF a, b
<1>4. c \in Seq(S) /\ Len(c) = k + 1 /\ c[k + 1] = e /\ \A i \in 1 .. k : c[i] = s[i]
  BY <1>2
<1> HIDE DEF c
<1>5. /\ c \o b \in Seq(S) /\ Len(c \o b) = Len(s) + 1
      /\ \A i \in 1 .. k + 1 : (c \o b)[i] = c[i]
      /\ \A i \in k + 2 .. Len(s) + 1 : (c \o b)[i] = b[i - (k + 1)]
  BY <1>3, <1>4
<1>6. \A i \in k + 2 .. Len(s) + 1 : b[i - (k + 1)] = s[i - 1]
  BY <1>3
<1>7. \A i \in 1 .. k : (c \o b)[i] = s[i]
  BY <1>4, <1>5
<1>8. (c \o b)[k + 1] = e
  BY <1>4, <1>5
<1>9. \A i \in k + 2 .. Len(s) + 1 : (c \o b)[i] = s[i - 1]
  BY <1>5, <1>6
<1> QED
  BY <1>1, <1>5, <1>7, <1>8, <1>9, Zenon

-----------------------------------------------------------------------------
(* Paths of trees: a node is named by the links or sides that lead to it from the root. *)

\* Node b is below link s of node a.
IsBelow(b, a, s) ==
  Len(b) > Len(a) /\ b[Len(a) + 1] = s /\ \A i \in 1 .. Len(a) : b[i] = a[i]

\* Below a link there is the branch and what is below it.
LEMMA BranchesBelow ==
  ASSUME NEW S, NEW a \in Seq(S), NEW b \in Seq(S), NEW s \in S, IsBelow(b, a, s)
  PROVE  b = Append(a, s) \/ \E t \in S : IsBelow(b, Append(a, s), t)
<1> DEFINE c == Append(a, s)
<1>1. /\ c \in Seq(S) /\ Len(c) = Len(a) + 1 /\ c[Len(a) + 1] = s
      /\ \A i \in 1 .. Len(a) : c[i] = a[i]
  OBVIOUS
<1> HIDE DEF c
<1>2. \A i \in 1 .. Len(c) : b[i] = c[i]
  BY <1>1 DEF IsBelow
<1>3. Len(b) >= Len(c)
  BY <1>1 DEF IsBelow
<1>4. CASE Len(b) = Len(c)
  <2>1. b = c
    BY <1>1, <1>2, <1>4, SeqEqual
  <2> QED BY <2>1 DEF c
<1>5. CASE Len(b) > Len(c)
  <2>1. b[Len(c) + 1] \in S
    BY <1>1, <1>5
  <2> QED BY <1>2, <1>5, <2>1 DEF IsBelow, c
<1> QED BY <1>1, <1>3, <1>4, <1>5

\* What is below a branch is below its link, and the node is not.
LEMMA BelowABranch ==
  ASSUME NEW S, NEW a \in Seq(S), NEW b \in Seq(S), NEW s \in S, NEW t \in S
  PROVE  /\ IsBelow(b, Append(a, s), t) => IsBelow(b, a, s)
         /\ ~IsBelow(a, Append(a, s), t) /\ ~IsBelow(a, a, s)
<1>1. /\ Len(Append(a, s)) = Len(a) + 1 /\ Append(a, s)[Len(a) + 1] = s
      /\ \A i \in 1 .. Len(a) : Append(a, s)[i] = a[i]
  OBVIOUS
<1> QED BY <1>1 DEF IsBelow

\* A branch is below what its node is below.
LEMMA BranchIsBelow ==
  ASSUME NEW S, NEW a \in Seq(S), NEW n \in Seq(S), NEW s \in S, NEW t \in S
  PROVE  /\ IsBelow(Append(n, s), a, t) <=> (a = n /\ t = s) \/ IsBelow(n, a, t)
         /\ Append(n, s) \in Seq(S) /\ Append(n, s) # n
<1> DEFINE c == Append(n, s)
<1>1. /\ c \in Seq(S) /\ Len(c) = Len(n) + 1 /\ c[Len(n) + 1] = s
      /\ \A i \in 1 .. Len(n) : c[i] = n[i]
  OBVIOUS
<1> HIDE DEF c
<1>2. ASSUME IsBelow(c, a, t)
      PROVE  (a = n /\ t = s) \/ IsBelow(n, a, t)
  <2>1. Len(c) > Len(a) /\ c[Len(a) + 1] = t /\ \A i \in 1 .. Len(a) : c[i] = a[i]
    BY <1>2 DEF IsBelow
  <2>2. CASE Len(a) = Len(n)
    BY <1>1, <2>1, <2>2, SeqEqual
  <2>3. CASE Len(a) < Len(n)
    BY <1>1, <2>1, <2>3 DEF IsBelow
  <2> QED BY <1>1, <2>1, <2>2, <2>3
<1>3. IsBelow(c, n, s) /\ (IsBelow(n, a, t) => IsBelow(c, a, t))
  BY <1>1 DEF IsBelow
<1> QED BY <1>1, <1>2, <1>3 DEF c

\* Every other node is below the root.
LEMMA BelowTheRoot ==
  ASSUME NEW S, NEW b \in Seq(S), b # <<>>
  PROVE  \E s \in S : IsBelow(b, <<>>, s)
<1>1. Len(b) > 0 /\ b[1] \in S
  BY EmptySeq
<1> QED BY <1>1 DEF IsBelow
=============================================================================

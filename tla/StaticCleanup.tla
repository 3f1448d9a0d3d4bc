---------------------------- MODULE StaticCleanup ----------------------------
(* Fmi::StaticCleanup (StaticCleanup.cpp): cleanup functions are registered from
   anywhere, by other cleanup functions too, and the last AtExit that ends takes them
   and calls them.  Threads hold AtExits, one in another as well.                     *)
EXTENDS Naturals, Sequences, FiniteSets

CONSTANTS
  Holders,      \* threads that hold AtExits
  MaxNested,    \* bound: AtExits that a thread holds, one in another
  MaxCleanups   \* bound: cleanup functions registered, numbered in this order

ASSUME CleanupAssumption == MaxNested \in Nat /\ MaxCleanups \in Nat

VARIABLES
  cleanup_functions, instance_count,
  held,        \* AtExits of each thread
  functions,   \* what the ~AtExit that a thread is in has yet to call
  registered,  \* how many there were
  called       \* history: the functions that were called, in this order

cleanupVars == <<cleanup_functions, instance_count, held, functions, registered, called>>

CleanupFunctions == 1 .. MaxCleanups

CleanupInit ==
  /\ cleanup_functions = <<>> /\ instance_count = 0
  /\ held = [h \in Holders |-> 0]
  /\ functions = [h \in Holders |-> <<>>]
  /\ registered = 0 /\ called = <<>>

\* StaticCleanup(), of any thread, and of a cleanup function that is being called
Register ==
  /\ registered < MaxCleanups
  /\ registered' = registered + 1
  /\ cleanup_functions' = <<registered + 1>> \o cleanup_functions
  /\ UNCHANGED <<instance_count, held, functions, called>>

AtExitBegins(h) ==
  /\ functions[h] = <<>> /\ held[h] < MaxNested
  /\ instance_count' = instance_count + 1
  /\ held' = [held EXCEPT ![h] = @ + 1]
  /\ UNCHANGED <<cleanup_functions, functions, registered, called>>

\* mutant: the functions are copied
LeftAsTheyAre == cleanup_functions

LeftRegistered == <<>>

\* ~AtExit(): the last one moves the functions out, under the mutex.
AtExitEnds(h) ==
  /\ functions[h] = <<>> /\ held[h] > 0
  /\ instance_count' = instance_count - 1
  /\ held' = [held EXCEPT ![h] = @ - 1]
  /\ IF instance_count = 1
     THEN /\ functions' = [functions EXCEPT ![h] = cleanup_functions]
          /\ cleanup_functions' = LeftRegistered
     ELSE UNCHANGED <<functions, cleanup_functions>>
  /\ UNCHANGED <<registered, called>>

\* Without the mutex: another AtExit may begin, and end, meanwhile.
CallsCleanup(h) ==
  /\ functions[h] # <<>>
  /\ called' = Append(called, Head(functions[h]))
  /\ functions' = [functions EXCEPT ![h] = Tail(@)]
  /\ UNCHANGED <<cleanup_functions, instance_count, held, registered>>

CleanupNext ==
  \/ Register
  \/ \E h \in Holders : AtExitBegins(h) \/ AtExitEnds(h) \/ CallsCleanup(h)

CleanupSpec == CleanupInit /\ [][CleanupNext]_cleanupVars
-----------------------------------------------------------------------------
CleanupTypeOK ==
  /\ cleanup_functions \in Seq(CleanupFunctions) /\ called \in Seq(CleanupFunctions)
  /\ instance_count \in Nat
  /\ held \in [Holders -> 0 .. MaxNested]
  /\ functions \in [Holders -> Seq(CleanupFunctions)]
  /\ registered \in 0 .. MaxCleanups

Descending(s) == \A i, j \in DOMAIN s : i < j => s[i] > s[j]

\* Where a function is: to be called by which thread, registered, or called.
At(s, f) == {i \in DOMAIN s : s[i] = f}
PlacesOf(f) ==
  {<<"registered", i>> : i \in At(cleanup_functions, f)}
  \cup {<<"called", i>> : i \in At(called, f)}
  \cup UNION {{<<h, i>> : i \in At(functions[h], f)} : h \in Holders}

(* Each function is in one place: registered, about to be called, or called once, over
   any number of AtExits one after the other, one in another and at the same time, and
   those that are called together are called in the reverse order of registration
   (StaticCleanup.cpp:34-66).                                                       *)
CleanedUpOnce ==
  /\ \A f \in 1 .. registered : Cardinality(PlacesOf(f)) = 1
  /\ Descending(cleanup_functions)
  /\ \A h \in Holders : Descending(functions[h])
=============================================================================

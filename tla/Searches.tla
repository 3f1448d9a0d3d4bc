------------------------------ MODULE Searches ------------------------------
(* The search structures of a program: trees of words and trees of objects.  They share
   no state, and a step of one is a step of its own beside those of the other.       *)
EXTENDS TernarySearchTree, NearTree

SearchSpec == TreeSpec /\ NearSpec

(* Words and objects are found where they were put, by walks that leave out most of
   their trees: find() and findprefix() answer as a map of the inserted keys would
   (TernarySearchTree.h:229-320), and the searches for objects as a search of all
   objects would (NearTree.h:349-505).                                               *)
SearchesFind == TreeIsTheMapElsewhere /\ SearchesAreExact
=============================================================================

--------------------------- MODULE MCObjectRefs ---------------------------
(***************************************************************************)
(* Instances of ObjectRefs for TLC.  Threads are interchangeable, and so   *)
(* are the objects of one kind.                                            *)
(***************************************************************************)
EXTENDS ObjectRefs, TLC

Symmetry ==
  Permutations(Threads) \cup Permutations(Referents) \cup Permutations(WeakRefs)
=============================================================================

---------------------------- MODULE MCPoolBuffer ----------------------------
(***************************************************************************)
(* Instances of PoolBuffer for TLC.  Threads are interchangeable, and so   *)
(* are pools.                                                              *)
(***************************************************************************)
EXTENDS PoolBuffer, TLC

Symmetry == Permutations(Threads) \cup Permutations(Pools)
=============================================================================

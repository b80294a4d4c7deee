--------------------------- MODULE MCMethodChains ---------------------------
(***************************************************************************)
(* An instance of MethodChains for TLC: Object with the classes Alpha and, *)
(* below it, Delta of the tests.  Object has a clear method only, and its  *)
(* member is its weak reference; Delta has the only init method of the     *)
(* test classes, Alpha is given one too so that a chain can fail half-way. *)
(***************************************************************************)
EXTENDS MethodChains, TLC

CONSTANTS Object, Alpha, Delta

MCSuper ==
  [c \in {Object, Alpha, Delta} |->
     CASE c = Object -> NULL [] c = Alpha -> Object [] c = Delta -> Alpha]

Symmetry == Permutations(Threads) \cup Permutations(Objects)
=============================================================================

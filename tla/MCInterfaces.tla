---------------------------- MODULE MCInterfaces ----------------------------
(***************************************************************************)
(* An instance of Interfaces for TLC: Object, the test class Gamma, which  *)
(* implements Beta, and below it a class without interfaces of its own and *)
(* a class that implements Foo.                                            *)
(***************************************************************************)
EXTENDS Interfaces

CONSTANTS Object, Gamma, Alpha, Delta, Beta, Foo

MCTypes == {Object, Gamma, Alpha, Delta}
MCSuper ==
  [c \in MCTypes |->
     CASE c = Object -> NULL [] c = Gamma -> Object [] OTHER -> Gamma]
MCSpecs ==
  [c \in MCTypes |->
     CASE c = Gamma -> <<Beta>> [] c = Delta -> <<Foo>> [] OTHER -> <<>>]
=============================================================================

--------------------------- MODULE MCTypeRegistry ---------------------------
(***************************************************************************)
(* An instance of TypeRegistry for TLC: Object, its subclass y_WeakRef,    *)
(* and the test classes Alpha and, below it, Delta.                        *)
(***************************************************************************)
EXTENDS TypeRegistry

CONSTANTS Object, WeakRef, Alpha, Delta

MCTypes == {Object, WeakRef, Alpha, Delta}
MCSuper ==
  [c \in MCTypes |->
     CASE c = Object -> NULL [] c = Delta -> Alpha [] OTHER -> Object]
=============================================================================

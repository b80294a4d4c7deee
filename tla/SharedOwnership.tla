--------------------------- MODULE SharedOwnership ---------------------------
(***************************************************************************)
(* What the reference counting of yakka/Object.c promises its clients,     *)
(* without counters, mutexes or weak references.  An object is live from   *)
(* its creation until it is reclaimed.  A holder, a thread or another      *)
(* object, may own several references to it.  A new reference comes about  *)
(* only while somebody owns one; an object is reclaimed, once, when nobody *)
(* owns one any more and it has given up the references it owned itself.   *)
(***************************************************************************)
EXTENDS Naturals

CONSTANTS
  Holders,  \* whoever can own a reference
  Objects   \* whatever is created and reclaimed; may overlap with Holders

VARIABLES
  status,   \* "unborn", "live" or "gone"
  owned     \* owned[h][o]: the number of references to o that h owns

vars == <<status, owned>>

Unowned(o) == \A h \in Holders : owned[h][o] = 0

Init ==
  /\ status = [o \in Objects |-> "unborn"]
  /\ owned = [h \in Holders |-> [o \in Objects |-> 0]]

New(h, o) ==
  /\ status[o] = "unborn"
  /\ status' = [status EXCEPT ![o] = "live"]
  /\ owned' = [owned EXCEPT ![h][o] = 1]

(* The new owner need not have owned the object before.                    *)
Share(h, o) ==
  /\ status[o] = "live"
  /\ ~Unowned(o)
  /\ owned' = [owned EXCEPT ![h][o] = @ + 1]
  /\ UNCHANGED status

Drop(h, o) ==
  /\ owned[h][o] > 0
  /\ owned' = [owned EXCEPT ![h][o] = @ - 1]
  /\ UNCHANGED status

Pass(h, g, o) ==
  /\ owned[h][o] > 0
  /\ owned' = [owned EXCEPT ![h][o] = @ - 1, ![g][o] = @ + 1]
  /\ UNCHANGED status

Reclaim(o) ==
  /\ status[o] = "live"
  /\ Unowned(o)
  /\ o \in Holders => \A p \in Objects : owned[o][p] = 0
  /\ status' = [status EXCEPT ![o] = "gone"]
  /\ UNCHANGED owned

Next ==
  \/ \E h \in Holders, o \in Objects :
       New(h, o) \/ Share(h, o) \/ Drop(h, o) \/ \E g \in Holders : Pass(h, g, o)
  \/ \E o \in Objects : Reclaim(o)

Spec == Init /\ [][Next]_vars
=============================================================================

--------------------------- MODULE ObjectRefs_inv ---------------------------
(***************************************************************************)
(* The inductive invariant of ObjectRefs for clients that keep to the      *)
(* rules (Freedoms = {}): why counting, two-level locking and the double   *)
(* tests together keep objects alive exactly as long as they are owned.    *)
(***************************************************************************)
EXTENDS ObjectRefs

RefPcs == {"ref_enter", "ref_check", "ref_weak", "ref_lock_weak", "ref_lock",
           "ref_unlock", "ref_unlock_weak"}
UnrefEarly == {"unref_enter", "unref_check", "unref_weak", "unref_lock_weak",
               "unref_lock"}
UnrefLate == {"unref_unlock", "unref_unset", "unref_unlock_weak"}
DestroyPcs == {"destroy", "clear", "clear_null", "mark", "free"}
WeakNewPcs == {"weak_check", "weak_lock", "weak_new"}
WeakPcs == WeakNewPcs \cup {"weak_unlock", "weak_tail"}
DerefPcs == {"deref_check", "deref_lock", "deref_unlock"}
ClearOps == {"clear", "assign"}
(* The steps that go through self to the object's weak reference.          *)
WeakRefLabels ==
  {"ref_weak", "ref_lock_weak", "ref_unlock_weak", "unref_weak",
   "unref_lock_weak", "unref_unset", "unref_unlock_weak"}

Unowned(o) == \A h \in Holders : held[h][o] = 0

(* The objects in whose y_Object_clear the running call of t is.           *)
Waiting(t) == {outer[t][i] : i \in 1 .. Len(outer[t])}

(* Which steps belong to which call, and what the local variables hold.    *)
ControlInv ==
  \A t \in Threads :
    /\ pc[t] = "idle" => op[t] = "none" /\ self[t] = NULL /\ ~doCleanup[t]
    /\ pc[t] # "idle" => self[t] # NULL /\ locked[t] = NULL
    /\ op[t] \in {"none", "ref", "unref", "weak_ref", "deref"}
         \/ (op[t] \in ClearOps /\ pc[t] = "clear")
         \/ (op[t] = "destroy" /\ pc[t] \in DestroyPcs \ {"clear_null"})
    /\ op[t] = "none" => pc[t] = "idle"
    /\ op[t] = "ref" => pc[t] \in RefPcs
    /\ op[t] = "unref" => pc[t] \in UnrefEarly \cup UnrefLate \cup DestroyPcs
    /\ op[t] = "weak_ref" => pc[t] \in WeakPcs \cup RefPcs
    /\ op[t] = "deref" => pc[t] \in DerefPcs \cup RefPcs
    /\ outer[t] # <<>> => op[t] = "unref"
    /\ pc[t] \in DerefPcs => self[t] \in WeakRefs
    /\ op[t] = "weak_ref" /\ pc[t] \in RefPcs => self[t] \in WeakRefs
    /\ pc[t] = "unref_unset" => doCleanup[t]
    /\ pc[t] \in UnrefEarly => ~doCleanup[t]
    /\ pc[t] \in WeakRefLabels => hasWeakRef[t]

(* The objects that a thread is clearing, one inside the other, differ.    *)
StackInv ==
  \A t \in Threads :
    /\ self[t] \notin Waiting(t)
    /\ \A i, j \in 1 .. Len(outer[t]) : outer[t][i] = outer[t][j] => i = j

(* t has taken the last reference to o away and is giving o back.          *)
Cleans(t, o) ==
  \/ o \in Waiting(t)
  \/ /\ self[t] = o
     /\ \/ pc[t] \in UnrefLate /\ doCleanup[t]
        \/ pc[t] \in DestroyPcs /\ op[t] \notin ClearOps

(* t no longer owns, on behalf of o, the reference to o's weak reference.  *)
Dropped(t, o) ==
  \/ o \in Waiting(t) /\ ~(o = Head(outer[t]) /\ pc[t] \in UnrefEarly)
  \/ self[t] = o /\ pc[t] = "clear_null"

(* The count is exact for objects that are alive; others are not owned.    *)
CountInv ==
  \A o \in Objects :
    /\ IsFiniteSet(Owners(o))
    /\ life[o] = "live" => refcount[o] = Cardinality(Owners(o))
    /\ life[o] # "live" => Unowned(o)

(* An object owns its weak reference until it has dropped it, and owns     *)
(* nothing else; a target is the owner of its weak reference.              *)
WeakInv ==
  /\ \A o \in Objects :
       /\ \A p \in Objects : held[o][p] > 0 => p \in WeakRefs
       /\ \A w \in WeakRefs :
            held[o][w] = IF weak_ref[o] = w /\ ~ \E t \in Threads : Dropped(t, o)
                         THEN 1 ELSE 0
       /\ weak_ref[o] # NULL => life[o] # "unborn" /\ life[weak_ref[o]] # "unborn"
  /\ \A w \in WeakRefs : target[w] # NULL =>
       /\ life[target[w]] = "live"
       /\ weak_ref[target[w]] = w

(* Weak references of weak references do not go round in a circle.         *)
AcyclicInv ==
  \A X \in SUBSET Objects :
    X # {} => \E p \in X : \A q \in X : weak_ref[q] # p

(* What keeps the object alive that a running call works on.               *)
KeptAlive(t) ==
  /\ pc[t] \in RefPcs =>
       \/ held[t][self[t]] > 0
       \/ /\ op[t] = "weak_ref"
          /\ \E o \in Objects : held[t][o] > 0 /\ weak_ref[o] = self[t]
  /\ pc[t] \in UnrefEarly =>
       IF outer[t] = <<>> THEN held[t][self[t]] > 0
                          ELSE weak_ref[Head(outer[t])] = self[t]
  /\ pc[t] \in UnrefLate => life[self[t]] = "live"
  /\ pc[t] \in WeakPcs => held[t][self[t]] > 0
  /\ pc[t] \in DerefPcs =>
       /\ held[t][self[t]] > 0
       /\ target[self[t]] # NULL => held[t][target[self[t]]] > 0
  /\ op[t] \in ClearOps =>
       /\ held[t][self[t]] > 0
       /\ SoleUser(t, self[t])
       /\ weak_ref[self[t]] = NULL
  /\ \A o \in Objects : Cleans(t, o) =>
       /\ life[o] = IF self[t] = o /\ pc[t] = "free" THEN "deleted" ELSE "live"
       /\ IF op[t] = "destroy"
          THEN /\ SoleUser(t, o)
               /\ held[t][o] = IF pc[t] = "free" THEN 0 ELSE 1
               /\ weak_ref[o] = NULL
          ELSE Unowned(o)
AliveInv == \A t \in Threads : KeptAlive(t)

(* The thread that cleans an object up is the only one that works on it.   *)
ExclusiveInv ==
  \A t \in Threads, u \in Threads, o \in Objects :
    Cleans(t, o) /\ t # u => self[u] # o /\ o \notin Waiting(u)

(* While an object's first weak reference is made nobody gives the object  *)
(* up, neither a client nor an object whose weak reference it is.          *)
MakerInv ==
  \A t \in Threads : \A o \in Objects :
    MakesWeakRef(t, o) =>
      /\ \A u \in Threads : ~GivesUp(u, o)
      /\ \A p \in Objects : held[p][o] > 0 => held[t][p] > 0

(* What y_ref and y_unref found out about a weak reference stays true, as  *)
(* long as it matters.                                                     *)
HasWeakRefInv ==
  \A t \in Threads :
    /\ pc[t] \in (RefPcs \cup UnrefEarly \cup UnrefLate)
                   \ {"ref_enter", "unref_enter"} =>
         (hasWeakRef[t] => weak_ref[self[t]] # NULL)
    /\ pc[t] \in (UnrefEarly \cup UnrefLate) \ {"unref_enter"} =>
         (~hasWeakRef[t] /\ (pc[t] \in UnrefLate => doCleanup[t])
            => weak_ref[self[t]] = NULL)
    /\ pc[t] \in {"ref_lock_weak", "unref_lock_weak"} =>
         weak[t] = weak_ref[self[t]]

(* Once an object is past y_WeakRef_unset nothing points at it.            *)
UnsetInv ==
  \A t \in Threads, o \in Objects :
    /\ Cleans(t, o) /\ ~(self[t] = o /\ pc[t] \in {"unref_unlock", "unref_unset"})
       => \A w \in WeakRefs : target[w] # o
    /\ self[t] = o /\ pc[t] \in {"mark", "free"} => weak_ref[o] = NULL

(* A client that has locked an object owns a reference to it.              *)
ManualInv ==
  \A t \in Threads : locked[t] # NULL => held[t][locked[t]] > 0

RefsInv ==
  /\ TypeOK /\ ControlInv /\ StackInv /\ CountInv /\ WeakInv /\ AcyclicInv
  /\ AliveInv /\ ExclusiveInv /\ MakerInv /\ HasWeakRefInv /\ UnsetInv
  /\ ManualInv /\ LocksPaired
=============================================================================

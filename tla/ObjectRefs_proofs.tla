------------------------- MODULE ObjectRefs_proofs -------------------------
(***************************************************************************)
(* Theorems about ObjectRefs for every number of threads, objects and      *)
(* weak references, and clients that keep to the rules (Freedoms = {}).    *)
(* That the invariant is inductive is proved in ObjectRefs_heap and        *)
(* ObjectRefs_calls.  The last part shows that ObjectRefs implements       *)
(* SharedOwnership.                                                        *)
(***************************************************************************)
EXTENDS ObjectRefs_calls

-----------------------------------------------------------------------------
(* The invariant.                                                          *)

(* The invariant holds before the first object is created.                 *)
LEMMA InitInv == Init => RefsInv
<1> SUFFICES ASSUME Init
             PROVE  RefsInv
  OBVIOUS
<1> USE Kinds DEF Init
<1>1. TypeOK
  <2>1. <<>> \in Seq(Objects)
    OBVIOUS
  <2> QED
    BY <2>1, RefsAssumption DEF TypeOK, Stages, Labels, Ops
<1>2. ControlInv
  BY DEF ControlInv, UnrefEarly, UnrefLate, DestroyPcs, WeakPcs, WeakNewPcs,
         DerefPcs, RefPcs, WeakRefLabels
<1>3. \A o \in Objects, t \in Threads : ~Cleans(t, o) /\ ~Dropped(t, o)
  BY DEF Cleans, Dropped, Waiting, UnrefLate, DestroyPcs
<1>4. CountInv
  <2>1. \A o \in Objects : Owners(o) = {}
    BY DEF Owners
  <2> QED
    BY <2>1, FS_EmptySet DEF CountInv, Unowned
<1>5. WeakInv
  BY <1>3 DEF WeakInv
<1>6. AliveInv
  BY <1>3 DEF AliveInv, KeptAlive, RefPcs, UnrefEarly, UnrefLate, WeakPcs,
              WeakNewPcs, DerefPcs, ClearOps
<1>7. ExclusiveInv /\ UnsetInv
  BY <1>3 DEF ExclusiveInv, UnsetInv
<1>8. HasWeakRefInv
  BY DEF HasWeakRefInv, RefPcs, UnrefEarly, UnrefLate, WeakNewPcs
<1>9. ManualInv
  BY DEF ManualInv
<1>10. LocksPaired
  BY DEF LocksPaired, InSection, SelfLocked, WeakRefLocked
<1>11. StackInv
  BY DEF StackInv, Waiting
<1>12. AcyclicInv
  BY DEF AcyclicInv
<1>13. MakerInv
  BY DEF MakerInv, MakesWeakRef
<1> QED
  BY <1>1, <1>2, <1>4, <1>5, <1>6, <1>7, <1>8, <1>9, <1>10, <1>11, <1>12, <1>13
  DEF RefsInv

(* For clients that keep to the rules the invariant holds in every state.  *)
THEOREM Invariance ==
  ASSUME Freedoms = {}
  PROVE  Spec => []RefsInv
<1>1. RefsInv /\ [Next]_vars => RefsInv'
  <2> SUFFICES ASSUME RefsInv, [Next]_vars
               PROVE  RefsInv'
    OBVIOUS
  <2> QED
    BY TypeStep, ControlStep, StackStep, CountStep, WeakInvStep, AcyclicStep,
       AliveStep, ExclusiveStep, MakerStep, HasWeakRefStep, UnsetStep,
       ManualStep, LocksStep DEF RefsInv
<1> QED
  BY <1>1, InitInv, PTL DEF Spec

-----------------------------------------------------------------------------
(* What it says about the library.                                         *)

(* The variables keep their types: in particular no holder ever gives up a *)
(* reference that it does not have.                                        *)
THEOREM TypeCorrectness ==
  ASSUME Freedoms = {}
  PROVE  Spec => []TypeOK
<1>1. RefsInv => TypeOK
  BY DEF RefsInv
<1> QED
  BY <1>1, Invariance, PTL

(* The weak reference that y_ref and y_unref have found is alive as long   *)
(* as they use it: its object has not given it up.                         *)
LEMMA WeakRefLive ==
  ASSUME RefsInv, NEW t \in Threads, pc[t] \in RefPcs \cup UnrefEarly \cup UnrefLate,
         weak_ref[self[t]] # NULL
  PROVE  self[t] \in Objects /\ life[weak_ref[self[t]]] = "live"
<1>1. self[t] \in Objects
  BY SelfType DEF RefPcs, UnrefEarly, UnrefLate
<1>2. self[t] \in Objects /\ weak_ref[self[t]] \in WeakRefs
  BY <1>1, Kinds DEF RefsInv, TypeOK, WeakInv
<1>3. ASSUME NEW u \in Threads, Dropped(u, self[t])
      PROVE  FALSE
  <2>1. u = t
    BY <1>1, <1>3, DroppedCleans DEF RefsInv, ExclusiveInv
  <2>2. self[t] \notin Waiting(t)
    BY DEF RefsInv, StackInv
  <2> QED
    BY <1>3, <2>1, <2>2 DEF Dropped, RefPcs, UnrefEarly, UnrefLate
<1>4. held[self[t]][weak_ref[self[t]]] = 1
  BY <1>2, <1>3 DEF RefsInv, WeakInv
<1> QED
  BY <1>2, <1>4, Owned, Kinds DEF RefsInv

(* No step of any call follows a pointer to memory that was given back.    *)
THEOREM NoCallUsesFreedMemory ==
  ASSUME Freedoms = {}
  PROVE  Spec => []NoUseAfterFree
<1>1. RefsInv => NoUseAfterFree
  <2> SUFFICES ASSUME RefsInv, NEW t \in Threads, ~At(t, "idle"),
                      NEW p \in Followed(t)
               PROVE  p # NULL /\ life[p] \in {"live", "deleted"}
    BY DEF NoUseAfterFree
  <2>1. self[t] \in Objects /\ self[t] # NULL
    BY SelfType, Kinds DEF At
  <2>2. CASE p = self[t] /\ pc[t] # "free"
    BY <2>1, <2>2, SelfLive DEF At
  <2>3. CASE p = self[t] /\ pc[t] = "free"
    <3>1. Cleans(t, self[t])
      BY <2>3 DEF RefsInv, ControlInv, Cleans, DestroyPcs, ClearOps
    <3> QED
      BY <2>1, <2>3, <3>1 DEF RefsInv, AliveInv, KeptAlive
  <2>4. CASE p # self[t]
    <3>1. p = weak_ref[self[t]] /\ pc[t] \in WeakRefLabels \ {"ref_weak", "unref_weak"}
      BY <2>4 DEF Followed, At, WeakRefLabels, RefsInv, HasWeakRefInv
    <3>2. hasWeakRef[t] /\ pc[t] \in RefPcs \cup UnrefEarly \cup UnrefLate
      BY <3>1
         DEF RefsInv, ControlInv, WeakRefLabels, RefPcs, UnrefEarly, UnrefLate
    <3>3. p # NULL
      BY <3>1, <3>2 DEF RefsInv, HasWeakRefInv, WeakRefLabels
    <3> QED
      BY <3>1, <3>2, <3>3, WeakRefLive
  <2> QED
    BY <2>2, <2>3, <2>4
<1> QED
  BY <1>1, Invariance, PTL

(* The reference count of an object that is alive is the number of strong  *)
(* references that threads and objects own.                                *)
THEOREM CountIsExact ==
  ASSUME Freedoms = {}
  PROVE  Spec => []RefcountExact
<1>1. RefsInv => RefcountExact
  BY DEF RefsInv, CountInv, RefcountExact
<1> QED
  BY <1>1, Invariance, PTL

(* Nobody owns a reference to an object that was given back.               *)
THEOREM NobodyOwnsTheDead ==
  ASSUME Freedoms = {}
  PROVE  Spec => []NoOwnerLeft
<1>1. RefsInv => NoOwnerLeft
  <2> SUFFICES ASSUME RefsInv, NEW o \in Objects, life[o] \in {"deleted", "freed"}
               PROVE  Owners(o) = {}
    BY DEF NoOwnerLeft
  <2>1. \A h \in Holders : held[h][o] = 0
    BY DEF RefsInv, CountInv, Unowned
  <2> QED
    BY <2>1 DEF Owners
<1> QED
  BY <1>1, Invariance, PTL

(* A weak reference that still has a target names an object that exists.   *)
THEOREM WeakRefsDoNotDangle ==
  ASSUME Freedoms = {}
  PROVE  Spec => []NoDanglingWeakRef
<1>1. RefsInv => NoDanglingWeakRef
  BY DEF RefsInv, WeakInv, NoDanglingWeakRef
<1> QED
  BY <1>1, Invariance, PTL

(* Whatever points at an object is the weak reference that it will reset.  *)
THEOREM WeakRefsAreUnique ==
  ASSUME Freedoms = {}
  PROVE  Spec => []OneWeakRef
<1>1. RefsInv => OneWeakRef
  BY DEF RefsInv, WeakInv, OneWeakRef
<1> QED
  BY <1>1, Invariance, PTL

(* Every mutex is held exactly by the thread whose section it protects.    *)
THEOREM MutexesArePaired ==
  ASSUME Freedoms = {}
  PROVE  Spec => []LocksPaired
<1>1. RefsInv => LocksPaired
  BY DEF RefsInv
<1> QED
  BY <1>1, Invariance, PTL

(* No set of threads waits for mutexes that its own members hold, since a  *)
(* thread that holds one while it waits holds that of a weak reference and *)
(* waits for that of the object it belongs to, and weak references of weak *)
(* references do not go round in a circle.                                 *)
THEOREM NobodyDeadlocks ==
  ASSUME Freedoms = {}
  PROVE  Spec => []NoDeadlock
<1>1. RefsInv => NoDeadlock
  <2> SUFFICES ASSUME RefsInv, NEW S \in (SUBSET Threads) \ {{}},
                      \A t \in S : Wanted(t) # NULL /\ mutex[Wanted(t)] \in S
               PROVE  FALSE
    BY DEF NoDeadlock
  <2>1. ASSUME NEW t \in S
        PROVE  t \in Threads /\ Wanted(t) \in Objects /\ pc[t] # "idle"
    <3>1. t \in Threads /\ pc[t] # "idle" /\ Wanted(t) # NULL
      BY DEF Wanted
    <3>2. self[t] \in Objects
      BY <3>1, SelfType
    <3> QED
      BY <3>1, <3>2, Kinds DEF Wanted, RefsInv, TypeOK
  <2>2. ASSUME NEW t \in S
        PROVE  \E u \in S : /\ Wanted(t) = weak_ref[self[u]] /\ weak_ref[self[u]] # NULL
                            /\ Wanted(u) = self[u] /\ self[u] \in Objects
    <3> DEFINE u == mutex[Wanted(t)]
    <3>1. u \in S /\ u \in Threads /\ Wanted(t) \in Objects
      BY <2>1
    <3>2. pc[u] # "idle" /\ Wanted(u) # NULL
      BY <2>1, <3>1
    <3>3. locked[u] = NULL
      BY <3>1, <3>2 DEF RefsInv, ControlInv
    <3>4. InSection(u, Wanted(t))
      BY <3>1, <3>3, Kinds DEF RefsInv, LocksPaired
    <3>5. pc[u] \in {"ref_lock", "unref_lock"} /\ Wanted(u) = self[u]
      BY <3>2, <3>4 DEF Wanted, InSection, SelfLocked, WeakRefLocked
    <3>6. hasWeakRef[u] /\ weak_ref[self[u]] = Wanted(t)
      BY <3>4, <3>5 DEF InSection, SelfLocked
    <3>7. weak_ref[self[u]] # NULL
      BY <3>1, <3>6, Kinds
    <3>8. self[u] \in Objects
      BY <3>1, <3>5, <3>7, WeakRefLive DEF RefPcs, UnrefEarly
    <3>9. /\ Wanted(t) = weak_ref[self[u]] /\ weak_ref[self[u]] # NULL
          /\ Wanted(u) = self[u] /\ self[u] \in Objects /\ u \in S
      BY <3>1, <3>5, <3>6, <3>7, <3>8
    <3> HIDE DEF u
    <3>10. u \in S
      BY <3>9
    <3> WITNESS u \in S
    <3> QED
      BY <3>9
  <2> DEFINE X == {Wanted(t) : t \in S}
  <2>3. X \in SUBSET Objects /\ X # {}
    BY <2>1
  <2>4. PICK p \in X : \A q \in X : weak_ref[q] # p
    BY <2>3 DEF RefsInv, AcyclicInv
  <2>5. PICK t \in S : p = Wanted(t)
    BY <2>4
  <2>6. PICK u \in S : Wanted(t) = weak_ref[self[u]] /\ Wanted(u) = self[u]
    BY <2>2, <2>5
  <2>7. self[u] \in X
    BY <2>6
  <2> QED
    BY <2>4, <2>5, <2>6, <2>7
<1> QED
  BY <1>1, Invariance, PTL

(* The memory of an object is given back with its mutex free.              *)
THEOREM FreedObjectsAreUnlocked ==
  ASSUME Freedoms = {}
  PROVE  Spec => []FreedUnlocked
<1>1. RefsInv => FreedUnlocked
  <2> SUFFICES ASSUME RefsInv, NEW o \in Objects, life[o] = "freed", mutex[o] # NULL
               PROVE  FALSE
    BY DEF FreedUnlocked
  <2> DEFINE t == mutex[o]
  <2>1. t \in Threads /\ (InSection(t, o) \/ locked[t] = o)
    BY DEF RefsInv, TypeOK, LocksPaired
  <2>2. CASE locked[t] = o
    <3>1. held[t][o] > 0
      BY <2>1, <2>2, Kinds DEF RefsInv, ManualInv
    <3> QED
      BY <2>1, <3>1, Owned, Kinds DEF RefsInv
  <2>3. CASE pc[t] \in SelfLocked /\ self[t] = o
    BY <2>1, <2>3, SelfLive DEF SelfLocked
  <2>4. CASE pc[t] \in WeakRefLocked /\ weak_ref[self[t]] = o
    BY <2>1, <2>4, WeakRefLive, Kinds
       DEF WeakRefLocked, RefPcs, UnrefEarly, UnrefLate
  <2> QED
    BY <2>1, <2>2, <2>3, <2>4 DEF InSection
<1> QED
  BY <1>1, Invariance, PTL

(* weak_ref has its type whatever the clients do.                          *)
WeakRefTyped == weak_ref \in [Objects -> WeakRefs \cup {NULL}]

(* The steps that change the weak reference of an object.                  *)
LEMMA WeakRefWriters ==
  ASSUME [Next]_vars
  PROVE  \/ weak_ref' = weak_ref
         \/ \E t \in Threads : \/ ClearNull(t) \/ WeakNew(t)
                               \/ \E o \in Referents : Create(t, o)
<1>1. ASSUME NEW t \in Threads, RefStep(t)
      PROVE  weak_ref' = weak_ref
  BY <1>1 DEF RefStep, RefEnter, RefCheck, RefWeak, RefLockWeak, RefLock,
              RefUnlock, RefUnlockWeak, heapVars
<1>2. ASSUME NEW t \in Threads, UnrefStep(t)
      PROVE  weak_ref' = weak_ref
  BY <1>2 DEF UnrefStep, UnrefEnter, UnrefCheck, UnrefWeak, UnrefLockWeak,
              UnrefLock, UnrefUnlock, UnrefUnset, UnrefUnlockWeak, heapVars
<1>3. ASSUME NEW t \in Threads, DestroyStep(t), ~ClearNull(t)
      PROVE  weak_ref' = weak_ref
  BY <1>3 DEF DestroyStep, Destroy, Clear, Mark, Free, heapVars
<1>4. ASSUME NEW t \in Threads, WeakStep(t), ~WeakNew(t)
      PROVE  weak_ref' = weak_ref
  BY <1>4 DEF WeakStep, WeakCheck, WeakLock, WeakUnlock, WeakRefTail,
              DerefCheck, DerefLock, DerefUnlock, heapVars
<1>5. ASSUME NEW t \in Threads, ClientStep(t), ~ \E o \in Referents : Create(t, o)
      PROVE  weak_ref' = weak_ref
  BY <1>5
  DEF ClientStep, CallRef, CallUnref, CallWeakRef, CallClear, CallDestroy,
      CallAssign, CallDeref, Call, ManualLock, ManualUnlock, Give, heapVars
<1>6. CASE UNCHANGED vars
  BY <1>6 DEF vars, heapVars
<1> QED
  BY <1>1, <1>2, <1>3, <1>4, <1>5, <1>6 DEF Next, Rest, Step

(* An object's weak reference is never replaced by another one, whatever   *)
(* its clients do: nothing is assumed of Freedoms, so the first y_weak_ref *)
(* on an object may race with others of its kind, with y_unref and with    *)
(* y_clear, and the test under the lock still keeps them apart.            *)
THEOREM WeakRefsAreKept == Spec => WeakRefKept
<1>1. Init => WeakRefTyped
  BY DEF Init, WeakRefTyped
<1>2. WeakRefTyped /\ [Next]_vars => WeakRefTyped'
  <2> SUFFICES ASSUME WeakRefTyped, [Next]_vars
               PROVE  WeakRefTyped'
    OBVIOUS
  <2>1. ASSUME NEW t \in Threads, ClearNull(t)
        PROVE  WeakRefTyped'
    BY <2>1 DEF ClearNull, WeakRefTyped
  <2>2. ASSUME NEW t \in Threads, WeakNew(t)
        PROVE  WeakRefTyped'
    BY <2>2 DEF WeakNew, y_WeakRef_new, heapVars, WeakRefTyped
  <2>3. ASSUME NEW t \in Threads, NEW o \in Referents, Create(t, o)
        PROVE  WeakRefTyped'
    BY <2>3 DEF Create, WeakRefTyped
  <2>4. CASE weak_ref' = weak_ref
    BY <2>4 DEF WeakRefTyped
  <2> QED
    BY <2>1, <2>2, <2>3, <2>4, WeakRefWriters
<1>3. WeakRefTyped /\ [Next]_vars =>
        [\A o \in Objects :
           weak_ref[o] # NULL => weak_ref'[o] \in {weak_ref[o], NULL}]_vars
  <2> SUFFICES ASSUME WeakRefTyped, [Next]_vars, NEW o \in Objects,
                      weak_ref[o] # NULL
               PROVE  weak_ref'[o] \in {weak_ref[o], NULL}
    OBVIOUS
  <2>1. ASSUME NEW t \in Threads, ClearNull(t)
        PROVE  weak_ref'[o] \in {weak_ref[o], NULL}
    BY <2>1 DEF ClearNull, WeakRefTyped
  <2>2. ASSUME NEW t \in Threads, WeakNew(t)
        PROVE  weak_ref'[o] \in {weak_ref[o], NULL}
    <3>1. CASE weak_ref' = weak_ref
      BY <3>1
    <3>2. ASSUME weak_ref[self[t]] = NULL, NEW w \in WeakRefs,
                 y_WeakRef_new(self[t], w)
          PROVE  weak_ref'[o] = weak_ref[o]
      BY <3>2 DEF y_WeakRef_new, WeakRefTyped
    <3> QED
      BY <2>2, <3>1, <3>2 DEF WeakNew, heapVars
  <2>3. ASSUME NEW t \in Threads, NEW p \in Referents, Create(t, p)
        PROVE  weak_ref'[o] \in {weak_ref[o], NULL}
    BY <2>3 DEF Create, WeakRefTyped
  <2> QED
    BY <2>1, <2>2, <2>3, WeakRefWriters
<1> QED
  BY <1>1, <1>2, <1>3, PTL DEF Spec, WeakRefKept

-----------------------------------------------------------------------------
(* What nobody owns is given back: no object is forgotten on the way.      *)

Abandoned(o) == life[o] \in {"live", "deleted"} /\ Unowned(o)

ReclaimInv ==
  \A o \in Objects : Abandoned(o) => \E t \in Threads : Cleans(t, o)

(* Which steps of a call begin or end a y_unref in y_Object_clear.         *)
LEMMA StepOuter ==
  ASSUME NEW t \in Threads, Step(t)
  PROVE  Return(t) \/ outer' = outer \/ (Clear(t) /\ weak_ref[self[t]] # NULL)
<1>1. CASE RefStep(t)
  BY <1>1
  DEF RefStep, RefEnter, RefCheck, RefWeak, RefLockWeak, RefLock, RefUnlock,
      RefUnlockWeak, localVars
<1>2. CASE WeakStep(t)
  BY <1>2
  DEF WeakStep, WeakCheck, WeakLock, WeakNew, WeakUnlock, WeakRefTail,
      DerefCheck, DerefLock, DerefUnlock, localVars
<1>3. CASE UnrefStep(t)
  BY <1>3
  DEF UnrefStep, UnrefEnter, UnrefCheck, UnrefWeak, UnrefLockWeak, UnrefLock,
      UnrefUnlock, UnrefUnset, UnrefUnlockWeak, EndUnref, localVars
<1>4. CASE DestroyStep(t)
  BY <1>4
  DEF DestroyStep, Destroy, Clear, ClearNull, Mark, Free, EndClear, localVars
<1> QED
  BY <1>1, <1>2, <1>3, <1>4 DEF Step

(* A thread that cleans an object up goes on until the object is freed.    *)
LEMMA StillCleans ==
  ASSUME RefsInv, NEW t \in Threads, Step(t), NEW o \in Objects, Cleans(t, o)
  PROVE  Cleans(t, o)' \/ life'[o] = "freed"
<1> USE DEF At
<1>1. /\ TypeOK /\ o # NULL /\ KeptAlive(t)
      /\ outer[t] # <<>> => op[t] = "unref"
      /\ StackInv
  BY Kinds DEF RefsInv, ControlInv, AliveInv
<1>2. CASE o \in Waiting(t)
  <2>1. CASE Return(t)
    <3>1. outer[t] # <<>>
      BY <1>1, <1>2, WaitingType
    <3>2. /\ self'[t] = Head(outer[t]) /\ outer'[t] = Tail(outer[t])
          /\ pc'[t] = "clear_null" /\ op'[t] = "unref"
      BY <1>1, <2>1, <3>1, Returned
    <3>3. o = Head(outer[t]) \/ o \in Waiting(t)'
      BY <1>1, <1>2, <3>1, <3>2, Popped
    <3> QED
      BY <3>2, <3>3 DEF Cleans, DestroyPcs, ClearOps
  <2>2. CASE outer' = outer
    BY <1>2, <2>2 DEF Cleans, Waiting
  <2>3. CASE Clear(t) /\ weak_ref[self[t]] # NULL
    <3>1. self[t] \in Objects /\ outer'[t] = <<self[t]>> \o outer[t]
      BY <1>1, <2>3, SelfType DEF Clear, TypeOK
    <3> QED
      BY <1>1, <1>2, <3>1, Pushed DEF Cleans
  <2> QED
    BY <2>1, <2>2, <2>3, StepOuter
<1>3. CASE self[t] = o /\ pc[t] \in UnrefLate /\ doCleanup[t]
  <2>1. /\ self'[t] = o /\ op'[t] = op[t] /\ doCleanup'[t]
        /\ pc'[t] \in UnrefLate \/ (pc'[t] = "destroy" /\ op[t] \notin ClearOps)
    <3>1. op[t] \notin ClearOps
      BY <1>3 DEF RefsInv, ControlInv, UnrefLate, ClearOps
    <3>2. UnrefUnlock(t) \/ UnrefUnset(t) \/ UnrefUnlockWeak(t)
      BY <1>3 DEF Step, RefStep, UnrefStep, DestroyStep, WeakStep, UnrefLate,
         RefEnter, RefCheck, RefWeak, RefLockWeak, RefLock, RefUnlock, RefUnlockWeak,
         UnrefEnter, UnrefCheck, UnrefWeak, UnrefLockWeak, UnrefLock, Destroy, Clear,
         ClearNull, Mark, Free, WeakCheck, WeakLock, WeakNew, WeakUnlock,
         WeakRefTail, DerefCheck, DerefLock, DerefUnlock
    <3> QED
      BY <1>1, <1>3, <3>1, <3>2 DEF UnrefUnlock, UnrefUnset, UnrefUnlockWeak,
         EndUnref, Goto, TypeOK, UnrefLate, localVars
  <2> QED
    BY <2>1 DEF Cleans, DestroyPcs
<1>4. CASE self[t] = o /\ pc[t] \in DestroyPcs /\ op[t] \notin ClearOps
  <2>1. life[o] = IF pc[t] = "free" THEN "deleted" ELSE "live"
    BY <1>1, <1>4 DEF KeptAlive
  <2>2. DestroyStep(t)
    BY <1>4 DEF Step, RefStep, UnrefStep, DestroyStep, WeakStep, DestroyPcs,
       RefEnter, RefCheck, RefWeak, RefLockWeak, RefLock, RefUnlock, RefUnlockWeak,
       UnrefEnter, UnrefCheck, UnrefWeak, UnrefLockWeak, UnrefLock, UnrefUnlock,
       UnrefUnset, UnrefUnlockWeak, WeakCheck, WeakLock, WeakNew, WeakUnlock,
       WeakRefTail, DerefCheck, DerefLock, DerefUnlock
  <2>3. CASE Clear(t) /\ weak_ref[self[t]] # NULL
    <3>1. outer'[t] = <<o>> \o outer[t]
      BY <1>1, <1>4, <2>3 DEF Clear, TypeOK
    <3> QED
      BY <1>1, <3>1, Pushed DEF Cleans
  <2>4. CASE Free(t)
    BY <1>1, <1>4, <2>4 DEF Free, TypeOK
  <2>5. CASE ~Free(t) /\ ~(Clear(t) /\ weak_ref[self[t]] # NULL)
    <3>1. self'[t] = o /\ op'[t] = op[t] /\ pc'[t] \in {"clear", "mark", "free"}
      BY <1>1, <1>4, <2>1, <2>2, <2>5 DEF DestroyStep, Destroy, Clear, ClearNull,
         Mark, EndClear, ClearsOnly, ClearOps, Goto, TypeOK, localVars
    <3> QED
      BY <1>4, <3>1 DEF Cleans, DestroyPcs
  <2> QED
    BY <2>3, <2>4, <2>5
<1> QED
  BY <1>2, <1>3, <1>4 DEF Cleans

(* The clients' steps do not interfere with a thread that cleans up.       *)
LEMMA ClientLetsClean ==
  ASSUME RefsInv, NEW t \in Threads, ClientStep(t),
         NEW u \in Threads, NEW o \in Objects, Cleans(u, o)
  PROVE  Cleans(u, o)'
<1>1. At(t, "idle") /\ (u # t => SameThread(u))
  <2> USE DEF At, Goto, SameThread, RefsInv, TypeOK
  <2>1. ASSUME NEW p \in Objects, NEW name, NEW label, Call(t, p, name, label)
        PROVE  At(t, "idle") /\ (u # t => SameThread(u))
    BY <2>1 DEF Call
  <2>2. ASSUME NEW p \in Objects, CallRef(t, p) \/ CallUnref(t, p)
        PROVE  At(t, "idle") /\ (u # t => SameThread(u))
    BY <2>1, <2>2 DEF CallRef, CallUnref
  <2>3. ASSUME NEW p \in Objects, ManualLock(t, p) \/ ManualUnlock(t, p)
        PROVE  At(t, "idle") /\ (u # t => SameThread(u))
    BY <2>3 DEF ManualLock, ManualUnlock
  <2>4. ASSUME NEW v \in Threads, NEW p \in Objects, Give(t, v, p)
        PROVE  At(t, "idle") /\ (u # t => SameThread(u))
    BY <2>4 DEF Give, localVars
  <2>5. ASSUME NEW p \in Referents, Create(t, p)
        PROVE  At(t, "idle") /\ (u # t => SameThread(u))
    BY <2>5 DEF Create, localVars
  <2>6. ASSUME NEW p \in Objects,
               CallWeakRef(t, p) \/ CallClear(t, p) \/ CallDestroy(t, p)
        PROVE  At(t, "idle") /\ (u # t => SameThread(u))
    BY <2>1, <2>6, Kinds DEF CallWeakRef, CallClear, CallDestroy
  <2>7. ASSUME NEW w \in WeakRefs, CallDeref(t, w)
        PROVE  At(t, "idle") /\ (u # t => SameThread(u))
    BY <2>1, <2>7, Kinds DEF CallDeref
  <2>8. ASSUME NEW p \in Referents, NEW from \in Referents, CallAssign(t, p, from)
        PROVE  At(t, "idle") /\ (u # t => SameThread(u))
    BY <2>1, <2>8, Kinds DEF CallAssign
  <2> QED
    BY <2>2, <2>3, <2>4, <2>5, <2>6, <2>7, <2>8 DEF ClientStep
<1>2. u # t
  <2>1. self[t] = NULL /\ outer[t] = <<>> /\ TypeOK
    BY <1>1 DEF RefsInv, ControlInv, At
  <2>2. o \notin Waiting(t)
    BY <2>1, WaitingType
  <2> QED
    BY <2>1, <2>2, Kinds DEF Cleans
<1> QED
  BY <1>1, <1>2, SameCleans

(* Only y_unref and y_destroy abandon an object, and they clean it up.     *)
LEMMA StepAbandons ==
  ASSUME RefsInv, RefsInv', NEW t \in Threads, Step(t),
         NEW o \in Objects, ~Abandoned(o), Abandoned(o)'
  PROVE  Cleans(t, o)'
<1>1. TypeOK /\ TypeOK'
  BY DEF RefsInv
<1>2. ~UNCHANGED <<life, held>>
  BY DEF Abandoned, Unowned
<1>3. CASE RefLock(t)
  <2>1. PICK h \in Holders : held[h][o] # 0
    BY <1>3 DEF RefLock, Abandoned, Unowned
  <2>2. held'[h][o] # 0
    <3>1. held \in [Holders -> [Objects -> Nat]]
      BY <1>1 DEF TypeOK
    <3>2. held' = held \/ held' = [held EXCEPT ![t][self[t]] = @ + 1]
      BY <1>3 DEF RefLock
    <3> QED
      BY <2>1, <3>1, <3>2
  <2> QED
    BY <2>1, <2>2 DEF Abandoned, Unowned
<1>4. CASE UnrefLock(t)
  <2>1. /\ self[t] \in Objects /\ Releaser(t) \in Holders
        /\ held[Releaser(t)][self[t]] \in Nat \ {0}
    BY <1>4, Released DEF UnrefLock, At, UnrefEarly
  <2>2. life[self[t]] = "live" /\ life' = life /\ self' = self
    BY <1>4, SelfLive DEF UnrefLock, At
  <2>3. o = self[t]
    <3>1. PICK h \in Holders : held[h][o] # 0
      BY <2>2 DEF Abandoned, Unowned
    <3>2. o # self[t] => held'[h][o] = held[h][o]
      BY <1>1, <1>4, <2>1 DEF UnrefLock, TypeOK
    <3> QED
      BY <3>1, <3>2 DEF Abandoned, Unowned
  <2>4. refcount'[o] = 0
    <3>1. Owners(o)' = {}
      BY DEF Abandoned, Unowned, Owners
    <3>2. refcount'[o] = Cardinality(Owners(o)')
      BY <2>2, <2>3 DEF RefsInv, CountInv
    <3> QED
      BY <3>1, <3>2, FS_EmptySet
  <2>5. refcount[o] = 1 /\ doCleanup'[t] /\ pc'[t] = "unref_unlock"
    <3>1. refcount[o] \in Int
      BY <1>1 DEF TypeOK
    <3>2. CASE refcount[o] > 0
      BY <1>1, <1>4, <2>3, <2>4, <3>1, <3>2 DEF UnrefLock, Goto, TypeOK
    <3>3. CASE ~(refcount[o] > 0)
      BY <1>2, <1>4, <2>3, <3>1, <3>3 DEF UnrefLock
    <3> QED
      BY <3>2, <3>3
  <2> QED
    BY <2>2, <2>3, <2>5 DEF Cleans, UnrefLate
<1>5. CASE Mark(t)
  <2>1. self[t] \in Objects /\ self' = self /\ op' = op /\ pc'[t] = "free"
    BY <1>1, <1>5, SelfType DEF Mark, At, Goto, TypeOK, localVars
  <2>2. op[t] \notin ClearOps
    BY <1>5 DEF RefsInv, ControlInv, Mark, At, ClearOps
  <2>3. o = self[t]
    <3>1. o # self[t] => life'[o] = life[o] /\ \A h \in Holders : held'[h][o] = held[h][o]
      BY <1>1, <1>5, <2>1, Kinds DEF Mark, TypeOK
    <3> QED
      BY <3>1 DEF Abandoned, Unowned
  <2> QED
    BY <2>1, <2>2, <2>3 DEF Cleans, DestroyPcs
<1>6. CASE Free(t)
  <2>1. life'[o] = "freed" \/ life'[o] = life[o]
    BY <1>1, <1>6 DEF Free, TypeOK
  <2> QED
    BY <1>6, <2>1 DEF Free, Abandoned, Unowned
<1>7. CASE WeakNew(t)
  <2>1. PICK w \in WeakRefs : y_WeakRef_new(self[t], w)
    BY <1>2, <1>7 DEF WeakNew, heapVars
  <2>2. self[t] \in Holders /\ w \in Objects
    BY <1>7, SelfType, Kinds DEF WeakNew, At
  <2>3. held'[self[t]][w] > 0
    BY <1>1, <2>1, <2>2 DEF y_WeakRef_new, TypeOK
  <2>4. o # w
    BY <2>2, <2>3 DEF Abandoned, Unowned
  <2>5. life'[o] = life[o] /\ \A h \in Holders : held'[h][o] = held[h][o]
    BY <1>1, <2>1, <2>2, <2>4 DEF y_WeakRef_new, TypeOK
  <2> QED
    BY <2>5 DEF Abandoned, Unowned
<1>8. RefLock(t) \/ UnrefLock(t) \/ Mark(t) \/ Free(t) \/ WeakNew(t)
  BY <1>2 DEF Step, RefStep, UnrefStep, DestroyStep, WeakStep,
     RefEnter, RefCheck, RefWeak, RefLockWeak, RefUnlock, RefUnlockWeak,
     UnrefEnter, UnrefCheck, UnrefWeak, UnrefLockWeak, UnrefUnlock, UnrefUnset,
     UnrefUnlockWeak, Destroy, Clear, ClearNull, WeakCheck, WeakLock,
     WeakUnlock, WeakRefTail, DerefCheck, DerefLock, DerefUnlock, heapVars
<1> QED
  BY <1>3, <1>4, <1>5, <1>6, <1>7, <1>8

(* Clients own what they create, and give references to other clients.     *)
LEMMA ClientAbandons ==
  ASSUME RefsInv, NEW t \in Threads, ClientStep(t),
         NEW o \in Objects, ~Abandoned(o)
  PROVE  ~Abandoned(o)'
<1>1. TypeOK /\ t \in Holders
  BY Kinds DEF RefsInv
<1>2. CASE UNCHANGED <<life, held>>
  BY <1>2 DEF Abandoned, Unowned
<1>3. ASSUME NEW u \in Threads, NEW p \in Objects, Give(t, u, p)
      PROVE  ~Abandoned(o)'
  <2>1. u \in Holders /\ life' = life
    BY <1>3, Kinds DEF Give
  <2>2. held'[u][p] > 0
    BY <1>1, <1>3, <2>1 DEF Give, TypeOK
  <2>3. p # o => \A h \in Holders : held'[h][o] = held[h][o]
    BY <1>1, <1>3, <2>1 DEF Give, TypeOK
  <2> QED
    BY <2>1, <2>2, <2>3 DEF Abandoned, Unowned
<1>4. ASSUME NEW p \in Referents, Create(t, p)
      PROVE  ~Abandoned(o)'
  <2>1. p \in Objects /\ held'[t][p] = 1
    BY <1>1, <1>4, Kinds DEF Create, TypeOK
  <2>2. p # o => life'[o] = life[o] /\ \A h \in Holders : held'[h][o] = held[h][o]
    BY <1>1, <1>4, <2>1 DEF Create, TypeOK
  <2> QED
    BY <1>1, <2>1, <2>2 DEF Abandoned, Unowned
<1>5. \/ UNCHANGED <<life, held>>
      \/ \E u \in Threads, p \in Objects : Give(t, u, p)
      \/ \E p \in Referents : Create(t, p)
  BY DEF ClientStep, CallRef, CallUnref, CallWeakRef, CallClear, CallDestroy,
     CallAssign, CallDeref, Call, ManualLock, ManualUnlock, heapVars
<1> QED
  BY <1>2, <1>3, <1>4, <1>5

(* An object that nobody owns, and that is not freed yet, is in the hands  *)
(* of a thread that will free it, which by ExclusiveInv is one thread.     *)
THEOREM AbandonedAreCleaned ==
  ASSUME Freedoms = {}
  PROVE  Spec => []ReclaimInv
<1>1. Init => ReclaimInv
  BY DEF Init, ReclaimInv, Abandoned
<1>2. RefsInv /\ RefsInv' /\ ReclaimInv /\ [Next]_vars => ReclaimInv'
  <2> SUFFICES ASSUME RefsInv, RefsInv', ReclaimInv, [Next]_vars,
                      NEW o \in Objects, Abandoned(o)'
               PROVE  \E t \in Threads : Cleans(t, o)'
    BY DEF ReclaimInv
  <2>1. CASE UNCHANGED vars
    BY <2>1
    DEF vars, heapVars, localVars, ReclaimInv, Abandoned, Unowned, Cleans, Waiting
  <2>2. ASSUME NEW t \in Threads, Step(t)
        PROVE  \E u \in Threads : Cleans(u, o)'
    <3>1. CASE ~Abandoned(o)
      BY <2>2, <3>1, StepAbandons
    <3>2. CASE Abandoned(o)
      <4>1. PICK u \in Threads : Cleans(u, o)
        BY <3>2 DEF ReclaimInv
      <4>2. CASE u = t
        <5>1. life'[o] # "freed"
          BY DEF Abandoned
        <5> QED
          BY <2>2, <4>1, <4>2, <5>1, StillCleans
      <4>3. CASE u # t
        <5>1. SameThread(u)
          BY <2>2, <4>3, StepFrame DEF RefsInv
        <5> QED
          BY <4>1, <5>1, SameCleans
      <4> QED
        BY <4>2, <4>3
    <3> QED
      BY <3>1, <3>2
  <2>3. ASSUME NEW t \in Threads, ClientStep(t)
        PROVE  \E u \in Threads : Cleans(u, o)'
    <3>1. Abandoned(o)
      BY <2>3, ClientAbandons
    <3>2. PICK u \in Threads : Cleans(u, o)
      BY <3>1 DEF ReclaimInv
    <3> QED
      BY <2>3, <3>2, ClientLetsClean
  <2> QED
    BY <2>1, <2>2, <2>3 DEF Next, Rest
<1> QED
  BY <1>1, <1>2, Invariance, PTL DEF Spec

(* No leak: when all calls have returned, whatever was made and not freed  *)
(* has an owner, and a weak reference has its referent.                    *)
THEOREM NothingIsForgotten ==
  ASSUME Freedoms = {}
  PROVE  Spec => []((\A t \in Threads : At(t, "idle")) =>
                      \A o \in Objects : life[o] \in {"live", "deleted"} =>
                        life[o] = "live" /\ refcount[o] > 0)
<1> DEFINE AllOwned == (\A t \in Threads : At(t, "idle")) =>
                          \A o \in Objects : life[o] \in {"live", "deleted"} =>
                            life[o] = "live" /\ refcount[o] > 0
<1>1. RefsInv /\ ReclaimInv => AllOwned
  <2> SUFFICES ASSUME RefsInv, ReclaimInv, \A t \in Threads : At(t, "idle"),
                      NEW o \in Objects, life[o] \in {"live", "deleted"}
               PROVE  life[o] = "live" /\ refcount[o] > 0
    OBVIOUS
  <2>1. \A t \in Threads : self[t] = NULL /\ outer[t] = <<>>
    BY DEF RefsInv, ControlInv, At
  <2>2. \A t \in Threads : o \notin Waiting(t)
    BY <2>1, WaitingType DEF RefsInv
  <2>3. ~Unowned(o)
    BY <2>1, <2>2, Kinds DEF ReclaimInv, Abandoned, Cleans
  <2>4. PICK h \in Holders : held[h][o] # 0
    BY <2>3 DEF Unowned
  <2>5. held[h][o] > 0
    BY <2>4 DEF RefsInv, TypeOK
  <2> QED
    BY <2>4, <2>5, Owned DEF RefsInv
<1> QED
  BY <1>1, Invariance, AbandonedAreCleaned, PTL

-----------------------------------------------------------------------------
(* ObjectRefs implements SharedOwnership.                                  *)

(* Nobody can tell apart states in which the same objects exist, of which  *)
(* some may be going away, and the same references are owned.              *)
LEMMA Stutters ==
  ASSUME UNCHANGED <<life, held>>
  PROVE  UNCHANGED Ownership!vars
  BY DEF Ownership!vars, status

(* y_ref makes a new reference only while somebody owns one.               *)
LEMMA RefLockShares ==
  ASSUME RefsInv, NEW t \in Threads, RefLock(t)
  PROVE  [Ownership!Next]_(Ownership!vars)
<1>1. life' = life
  BY DEF RefLock
<1>2. CASE held' = held
  BY <1>1, <1>2, Stutters
<1>3. CASE held' = [held EXCEPT ![t][self[t]] = @ + 1]
  <2>1. pc[t] \in RefPcs /\ pc[t] # "idle"
    BY DEF RefLock, At, RefPcs
  <2>2. self[t] \in Objects /\ t \in Holders
    BY <2>1, SelfType, Kinds
  <2>3. PICK h \in Holders : held[h][self[t]] > 0
    BY <2>1, RefOwned
  <2>4. life[self[t]] = "live"
    BY <2>2, <2>3, Owned DEF RefsInv
  <2>5. ~Ownership!Unowned(self[t])
    BY <2>3 DEF Ownership!Unowned
  <2>6. Ownership!Share(t, self[t])
    BY <1>1, <1>3, <2>2, <2>4, <2>5 DEF Ownership!Share, status
  <2> QED
    BY <2>2, <2>6 DEF Ownership!Next
<1> QED
  BY <1>2, <1>3 DEF RefLock

(* y_unref gives up a reference that is there.                             *)
LEMMA UnrefLockDrops ==
  ASSUME RefsInv, NEW t \in Threads, UnrefLock(t)
  PROVE  [Ownership!Next]_(Ownership!vars)
<1>1. life' = life
  BY DEF UnrefLock
<1>2. CASE held' = held
  BY <1>1, <1>2, Stutters
<1>3. CASE held' = [held EXCEPT ![Releaser(t)][self[t]] = @ - 1]
  <2>1. /\ self[t] \in Objects /\ Releaser(t) \in Holders
        /\ held[Releaser(t)][self[t]] > 0
    BY Released DEF UnrefLock, At, UnrefEarly
  <2>2. Ownership!Drop(Releaser(t), self[t])
    BY <1>1, <1>3, <2>1 DEF Ownership!Drop, status
  <2> QED
    BY <2>1, <2>2 DEF Ownership!Next
<1> QED
  BY <1>2, <1>3 DEF UnrefLock

(* y_WeakRef_new makes an object of which its referent is the owner.       *)
LEMMA WeakNewCreates ==
  ASSUME RefsInv, NEW t \in Threads, WeakNew(t)
  PROVE  [Ownership!Next]_(Ownership!vars)
<1>1. CASE UNCHANGED heapVars
  BY <1>1, Stutters DEF heapVars
<1>2. ASSUME NEW w \in WeakRefs, y_WeakRef_new(self[t], w)
      PROVE  Ownership!Next
  <2>1. self[t] \in Objects /\ w \in Objects /\ self[t] \in Holders
    BY SelfType, Kinds DEF WeakNew, At
  <2>2. life[w] = "unborn" /\ life' = [life EXCEPT ![w] = "live"]
    BY <1>2 DEF y_WeakRef_new
  <2>3. held[self[t]][w] = 0
    BY <2>1, <2>2, UnbornUnused
  <2>4. held' = [held EXCEPT ![self[t]][w] = 1]
    <3>1. held' = [held EXCEPT ![self[t]][w] = held[self[t]][w] + 1]
      BY <1>2 DEF y_WeakRef_new
    <3>2. held[self[t]][w] + 1 = 1
      BY <2>3
    <3> QED
      BY <3>1, <3>2, Zenon
  <2>5. status[w] = "unborn" /\ status' = [status EXCEPT ![w] = "live"]
    BY <2>1, <2>2 DEF status, RefsInv, TypeOK
  <2>6. Ownership!New(self[t], w)
    BY <2>4, <2>5 DEF Ownership!New
  <2> QED
    BY <2>1, <2>6 DEF Ownership!Next
<1> QED
  BY <1>1, <1>2 DEF WeakNew

(* The caller of y_destroy loses its reference, no y_unref does.           *)
LEMMA MarkDrops ==
  ASSUME RefsInv, NEW t \in Threads, Mark(t)
  PROVE  [Ownership!Next]_(Ownership!vars)
<1>1. pc[t] = "mark" /\ self[t] \in Objects /\ t \in Holders
  BY SelfType, Kinds DEF Mark, At
<1>2. op[t] \notin ClearOps
  BY <1>1 DEF RefsInv, ControlInv, ClearOps
<1>3. Cleans(t, self[t])
  BY <1>1, <1>2 DEF Cleans, DestroyPcs
<1>4. life[self[t]] = "live" /\ (op[t] = "destroy" => held[t][self[t]] = 1)
  BY <1>1, <1>3 DEF RefsInv, AliveInv, KeptAlive
<1>5. status' = status
  BY <1>1, <1>4 DEF Mark, status, RefsInv, TypeOK
<1>6. CASE held' = held
  BY <1>5, <1>6 DEF Ownership!vars
<1>7. CASE op[t] = "destroy" /\ held' = [held EXCEPT ![t][self[t]] = 0]
  <2>1. held[t][self[t]] = 1 /\ held[t][self[t]] - 1 = 0
    BY <1>4, <1>7
  <2>2. held' = [held EXCEPT ![t][self[t]] = held[t][self[t]] - 1]
    BY <1>7, <2>1, Zenon
  <2>3. Ownership!Drop(t, self[t])
    BY <1>5, <2>1, <2>2 DEF Ownership!Drop
  <2> QED
    BY <1>1, <2>3 DEF Ownership!Next
<1> QED
  BY <1>6, <1>7 DEF Mark

(* The memory that is given back belongs to an object that nobody owns and *)
(* that owns nothing.                                                      *)
LEMMA FreeReclaims ==
  ASSUME RefsInv, NEW t \in Threads, Free(t)
  PROVE  [Ownership!Next]_(Ownership!vars)
<1> DEFINE o == self[t]
<1>1. pc[t] = "free" /\ o \in Objects
  BY SelfType DEF Free, At
<1>2. op[t] \notin ClearOps
  BY <1>1 DEF RefsInv, ControlInv, ClearOps
<1>3. Cleans(t, o)
  BY <1>1, <1>2 DEF Cleans, DestroyPcs
<1>4. life[o] = "deleted"
  BY <1>1, <1>3 DEF RefsInv, AliveInv, KeptAlive
<1>5. Ownership!Unowned(o)
  BY <1>1, <1>4 DEF RefsInv, CountInv, Unowned, Ownership!Unowned
<1>6. ASSUME o \in Holders, NEW p \in Objects
      PROVE  held[o][p] = 0
  <2>1. o \in Objects
    BY <1>1, <1>6, Kinds DEF Holders
  <2>2. weak_ref[o] = NULL
    BY <1>1 DEF RefsInv, UnsetInv
  <2>3. held[o][p] \in Nat
    BY <1>6 DEF RefsInv, TypeOK
  <2>4. CASE p \in WeakRefs
    BY <2>1, <2>2, <2>4, Kinds DEF RefsInv, WeakInv
  <2>5. CASE p \notin WeakRefs
    BY <1>6, <2>1, <2>3, <2>5 DEF RefsInv, WeakInv
  <2> QED
    BY <2>4, <2>5
<1>7. status[o] = "live" /\ status' = [status EXCEPT ![o] = "gone"]
  BY <1>1, <1>4 DEF Free, status, RefsInv, TypeOK
<1>8. held' = held
  BY DEF Free
<1>9. Ownership!Reclaim(o)
  BY <1>5, <1>6, <1>7, <1>8 DEF Ownership!Reclaim
<1> QED
  BY <1>1, <1>9 DEF Ownership!Next

(* All other steps of the library are none of the owners' business.        *)
LEMMA StepShares ==
  ASSUME RefsInv, NEW t \in Threads, Step(t)
  PROVE  [Ownership!Next]_(Ownership!vars)
<1>1. CASE RefStep(t)
  <2>1. CASE RefLock(t)
    BY <2>1, RefLockShares
  <2>2. CASE ~RefLock(t)
    <3>1. UNCHANGED <<life, held>>
      BY <1>1, <2>2 DEF RefStep, RefEnter, RefCheck, RefWeak, RefLockWeak, RefUnlock,
         RefUnlockWeak, heapVars
    <3> QED
      BY <3>1, Stutters
  <2> QED
    BY <2>1, <2>2
<1>2. CASE UnrefStep(t)
  <2>1. CASE UnrefLock(t)
    BY <2>1, UnrefLockDrops
  <2>2. CASE ~UnrefLock(t)
    <3>1. UNCHANGED <<life, held>>
      BY <1>2, <2>2 DEF UnrefStep, UnrefEnter, UnrefCheck, UnrefWeak, UnrefLockWeak,
         UnrefUnlock, UnrefUnset, UnrefUnlockWeak, heapVars
    <3> QED
      BY <3>1, Stutters
  <2> QED
    BY <2>1, <2>2
<1>3. CASE DestroyStep(t)
  <2>1. CASE Mark(t) \/ Free(t)
    BY <2>1, MarkDrops, FreeReclaims
  <2>2. CASE ~ (Mark(t) \/ Free(t))
    <3>1. UNCHANGED <<life, held>>
      BY <1>3, <2>2 DEF DestroyStep, Destroy, Clear, ClearNull, heapVars
    <3> QED
      BY <3>1, Stutters
  <2> QED
    BY <2>1, <2>2
<1>4. CASE WeakStep(t)
  <2>1. CASE WeakNew(t)
    BY <2>1, WeakNewCreates
  <2>2. CASE ~WeakNew(t)
    <3>1. UNCHANGED <<life, held>>
      BY <1>4, <2>2 DEF WeakStep, WeakCheck, WeakLock, WeakUnlock,
         WeakRefTail, DerefCheck, DerefLock, DerefUnlock, heapVars
    <3> QED
      BY <3>1, Stutters
  <2> QED
    BY <2>1, <2>2
<1> QED
  BY <1>1, <1>2, <1>3, <1>4 DEF Step

(* Clients create objects and pass their references on; their calls change *)
(* nothing before the library's first step.                                *)
LEMMA ClientShares ==
  ASSUME RefsInv, NEW t \in Threads, ClientStep(t)
  PROVE  [Ownership!Next]_(Ownership!vars)
<1>1. ASSUME NEW o \in Objects, CallRef(t, o) \/ CallUnref(t, o)
      PROVE  UNCHANGED <<life, held>>
  BY <1>1 DEF CallRef, CallUnref, Call, heapVars
<1>2. ASSUME NEW o \in Objects, ManualLock(t, o) \/ ManualUnlock(t, o)
      PROVE  UNCHANGED <<life, held>>
  BY <1>2 DEF ManualLock, ManualUnlock, heapVars
<1>3. ASSUME NEW u \in Threads, NEW o \in Objects, Give(t, u, o)
      PROVE  Ownership!Next
  <2>1. t \in Holders /\ u \in Holders
    BY Kinds
  <2>2. status' = status
    BY <1>3 DEF Give, status
  <2>3. Ownership!Pass(t, u, o)
    BY <1>3, <2>2 DEF Give, Uses, Ownership!Pass
  <2> QED
    BY <2>1, <2>3 DEF Ownership!Next
<1>4. ASSUME NEW o \in Referents, Create(t, o)
      PROVE  Ownership!Next
  <2>1. t \in Holders /\ o \in Objects
    BY Kinds
  <2>2. life[o] = "unborn" /\ life' = [life EXCEPT ![o] = "live"]
    BY <1>4 DEF Create
  <2>3. status[o] = "unborn" /\ status' = [status EXCEPT ![o] = "live"]
    BY <2>1, <2>2 DEF status, RefsInv, TypeOK
  <2>4. Ownership!New(t, o)
    BY <1>4, <2>3 DEF Create, Ownership!New
  <2> QED
    BY <2>1, <2>4 DEF Ownership!Next
<1>5. ASSUME NEW o \in Objects,
             CallWeakRef(t, o) \/ CallClear(t, o) \/ CallDestroy(t, o)
      PROVE  UNCHANGED <<life, held>>
  BY <1>5 DEF CallWeakRef, CallClear, CallDestroy, Call, heapVars
<1>6. ASSUME NEW w \in WeakRefs, CallDeref(t, w)
      PROVE  UNCHANGED <<life, held>>
  BY <1>6 DEF CallDeref, Call, heapVars
<1>7. ASSUME NEW o \in Referents, NEW from \in Referents, CallAssign(t, o, from)
      PROVE  UNCHANGED <<life, held>>
  BY <1>7 DEF CallAssign, Call, heapVars
<1> QED
  BY <1>1, <1>2, <1>3, <1>4, <1>5, <1>6, <1>7, Stutters DEF ClientStep

(* Counting, double tests and mutexes implement shared ownership: what the *)
(* code does with a counter and two mutexes per object is, step by step,   *)
(* what SharedOwnership allows its owners.                                 *)
THEOREM Refinement ==
  ASSUME Freedoms = {}
  PROVE  Spec => ImplementsOwnership
<1>1. Init => Ownership!Init
  BY DEF Init, Ownership!Init, status
<1>2. RefsInv /\ [Next]_vars => [Ownership!Next]_(Ownership!vars)
  <2> SUFFICES ASSUME RefsInv, [Next]_vars
               PROVE  [Ownership!Next]_(Ownership!vars)
    OBVIOUS
  <2>1. CASE \E t \in Threads : Step(t) \/ ClientStep(t)
    BY <2>1, StepShares, ClientShares
  <2>2. CASE UNCHANGED vars
    BY <2>2, Stutters DEF vars, heapVars
  <2> QED
    BY <2>1, <2>2 DEF Next, Rest
<1> QED
  BY <1>1, <1>2, Invariance, PTL DEF Spec, ImplementsOwnership, Ownership!Spec
=============================================================================

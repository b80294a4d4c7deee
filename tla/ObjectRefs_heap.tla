-------------------------- MODULE ObjectRefs_heap --------------------------
(***************************************************************************)
(* What the inductive invariant RefsInv of ObjectRefs says about single    *)
(* threads and objects, and the first part of the proof that it is         *)
(* inductive: types, the control of the calls, and the objects with their  *)
(* counts, their owners and their weak references.                         *)
(***************************************************************************)
EXTENDS ObjectRefs_inv, FiniteSetTheorems, TLAPS

(* The kinds of things that the variables refer to.                        *)
LEMMA Kinds ==
  /\ Referents \subseteq Objects /\ WeakRefs \subseteq Objects
  /\ Threads \cap Objects = {}
  /\ Threads \subseteq Holders /\ Objects \subseteq Holders
  /\ \A h \in Holders : h \in Threads \/ h \in Objects
  /\ NULL \notin Threads /\ NULL \notin Objects
  BY RefsAssumption DEF Objects, Holders

(* The objects whose y_Object_clear a call is in are objects.              *)
LEMMA WaitingType ==
  ASSUME TypeOK, NEW t \in Threads
  PROVE  /\ outer[t] \in Seq(Objects)
         /\ \A o \in Waiting(t) : o \in Objects
         /\ outer[t] = <<>> => \A o : o \notin Waiting(t)
         /\ outer[t] # <<>> =>
              Head(outer[t]) \in Objects /\ Head(outer[t]) \in Waiting(t)
<1>1. outer[t] \in Seq(Objects)
  BY DEF TypeOK
<1>2. \A o : o \in Waiting(t) <=> \E i \in 1 .. Len(outer[t]) : outer[t][i] = o
  BY DEF Waiting
<1>3. ASSUME outer[t] # <<>>
      PROVE  1 \in 1 .. Len(outer[t]) /\ Head(outer[t]) = outer[t][1]
  BY <1>1, <1>3
<1> QED
  BY <1>1, <1>2, <1>3

(* y_Object_clear calls y_unref: one object more.                          *)
LEMMA Pushed ==
  ASSUME TypeOK, NEW t \in Threads, NEW x \in Objects,
         outer'[t] = <<x>> \o outer[t]
  PROVE  /\ outer'[t] \in Seq(Objects) /\ outer'[t] # <<>> /\ Head(outer'[t]) = x
         /\ Len(outer'[t]) = Len(outer[t]) + 1
         /\ \A i \in 1 .. Len(outer'[t]) :
              outer'[t][i] = IF i = 1 THEN x ELSE outer[t][i - 1]
         /\ \A o : o \in Waiting(t)' <=> o = x \/ o \in Waiting(t)
<1>1. outer[t] \in Seq(Objects)
  BY DEF TypeOK
<1>2. /\ outer'[t] \in Seq(Objects)
      /\ Len(outer'[t]) = Len(outer[t]) + 1
      /\ \A i \in 1 .. Len(outer'[t]) :
           outer'[t][i] = IF i = 1 THEN x ELSE outer[t][i - 1]
  BY <1>1
<1>3. outer'[t] # <<>> /\ Head(outer'[t]) = x
  BY <1>1, <1>2
<1>4. /\ \A o : o \in Waiting(t) <=> \E i \in 1 .. Len(outer[t]) : outer[t][i] = o
      /\ \A o : o \in Waiting(t)' <=> \E i \in 1 .. Len(outer'[t]) : outer'[t][i] = o
  BY DEF Waiting
<1>5. ASSUME NEW o \in Waiting(t)'
      PROVE  o = x \/ o \in Waiting(t)
  <2>1. PICK i \in 1 .. Len(outer'[t]) : outer'[t][i] = o
    BY <1>4
  <2>2. CASE i # 1
    BY <1>1, <1>2, <1>4, <2>1, <2>2
  <2> QED
    BY <1>2, <2>1, <2>2
<1>6. ASSUME NEW o \in Waiting(t)
      PROVE  o \in Waiting(t)'
  <2>1. PICK i \in 1 .. Len(outer[t]) : outer[t][i] = o
    BY <1>4
  <2>2. i + 1 \in 1 .. Len(outer'[t]) /\ outer'[t][i + 1] = o
    BY <1>1, <1>2, <2>1
  <2> QED
    BY <1>4, <2>2
<1>7. x \in Waiting(t)'
  <2>1. 1 \in 1 .. Len(outer'[t]) /\ outer'[t][1] = x
    BY <1>1, <1>2
  <2> QED
    BY <1>4, <2>1
<1> QED
  BY <1>2, <1>3, <1>5, <1>6, <1>7

(* The call returns into y_Object_clear: one object less.                  *)
LEMMA Popped ==
  ASSUME TypeOK, StackInv, NEW t \in Threads, outer[t] # <<>>,
         outer'[t] = Tail(outer[t])
  PROVE  /\ outer'[t] \in Seq(Objects)
         /\ Len(outer'[t]) = Len(outer[t]) - 1
         /\ \A i \in 1 .. Len(outer'[t]) : outer'[t][i] = outer[t][i + 1]
         /\ \A o : o \in Waiting(t)' <=> o # Head(outer[t]) /\ o \in Waiting(t)
<1>1. outer[t] \in Seq(Objects) /\ Len(outer[t]) \in Nat \ {0}
  BY DEF TypeOK
<1>2. /\ outer'[t] \in Seq(Objects)
      /\ Len(outer'[t]) = Len(outer[t]) - 1
      /\ \A i \in 1 .. Len(outer'[t]) : outer'[t][i] = outer[t][i + 1]
      /\ Head(outer[t]) = outer[t][1]
  BY <1>1
<1>3. /\ \A o : o \in Waiting(t) <=> \E i \in 1 .. Len(outer[t]) : outer[t][i] = o
      /\ \A o : o \in Waiting(t)' <=> \E i \in 1 .. Len(outer'[t]) : outer'[t][i] = o
  BY DEF Waiting
<1>4. ASSUME NEW o \in Waiting(t)'
      PROVE  o # Head(outer[t]) /\ o \in Waiting(t)
  <2>1. PICK i \in 1 .. Len(outer'[t]) : outer'[t][i] = o
    BY <1>3
  <2>2. i + 1 \in 1 .. Len(outer[t]) /\ 1 \in 1 .. Len(outer[t]) /\ i + 1 # 1
    BY <1>1, <1>2, <2>1
  <2>3. outer[t][i + 1] = o /\ (outer[t][i + 1] = outer[t][1] => i + 1 = 1)
    BY <1>2, <2>1, <2>2 DEF StackInv
  <2> QED
    BY <1>2, <1>3, <2>2, <2>3
<1>5. ASSUME NEW o \in Waiting(t), o # Head(outer[t])
      PROVE  o \in Waiting(t)'
  <2>1. PICK i \in 1 .. Len(outer[t]) : outer[t][i] = o
    BY <1>3
  <2>2. i # 1
    BY <1>2, <1>5, <2>1
  <2>3. i - 1 \in 1 .. Len(outer'[t]) /\ outer'[t][i - 1] = outer[t][(i - 1) + 1]
    BY <1>1, <1>2, <2>1, <2>2
  <2>4. (i - 1) + 1 = i
    BY <2>1
  <2> QED
    BY <1>3, <2>1, <2>3, <2>4
<1> QED
  BY <1>2, <1>4, <1>5

-----------------------------------------------------------------------------
(* Counting.  The owners of an object are those of a function that says    *)
(* how many references each holder has.                                    *)
Tally(f) == UNION {{<<h, k>> : k \in 1 .. f[h]} : h \in Holders}

Share(o) == [h \in Holders |-> held[h][o]]

(* The owners of an object are the tally of the references to it.          *)
LEMMA OwnersTally ==
  ASSUME NEW o \in Objects
  PROVE  Owners(o) = Tally(Share(o)) /\ Owners(o)' = Tally(Share(o)')
  BY DEF Owners, Tally, Share

(* The elements of a tally.                                                *)
LEMMA TallyElement ==
  ASSUME NEW f \in [Holders -> Nat]
  PROVE  \A x : x \in Tally(f) <=>
           \E h \in Holders : \E k \in 1 .. f[h] : x = <<h, k>>
  BY DEF Tally

(* A tally is empty if nobody has a reference.                             *)
LEMMA TallyEmpty ==
  ASSUME NEW f \in [Holders -> Nat]
  PROVE  Tally(f) = {} <=> \A h \in Holders : f[h] = 0
<1>1. ASSUME NEW h \in Holders, f[h] # 0
      PROVE  <<h, 1>> \in Tally(f)
  BY <1>1, TallyElement
<1>2. ASSUME NEW x \in Tally(f), \A h \in Holders : f[h] = 0
      PROVE  FALSE
  BY <1>2, TallyElement
<1> QED
  BY <1>1, <1>2

(* One more reference is one more element.                                 *)
LEMMA TallyGain ==
  ASSUME NEW f \in [Holders -> Nat], NEW h \in Holders, IsFiniteSet(Tally(f)),
         NEW g, g = [f EXCEPT ![h] = @ + 1]
  PROVE  /\ IsFiniteSet(Tally(g))
         /\ Cardinality(Tally(g)) = Cardinality(Tally(f)) + 1
<1>1. g \in [Holders -> Nat]
  OBVIOUS
<1>2. <<h, f[h] + 1>> \notin Tally(f)
  BY TallyElement
<1>3. Tally(g) = Tally(f) \cup {<<h, f[h] + 1>>}
  <2>1. ASSUME NEW x
        PROVE  x \in Tally(g) <=> x \in Tally(f) \/ x = <<h, f[h] + 1>>
    <3>1. x \in Tally(g) <=> \E i \in Holders : \E k \in 1 .. g[i] : x = <<i, k>>
      BY <1>1, TallyElement
    <3>2. x \in Tally(f) <=> \E i \in Holders : \E k \in 1 .. f[i] : x = <<i, k>>
      BY TallyElement
    <3> QED
      BY <3>1, <3>2
  <2> QED
    BY <2>1
<1> DEFINE x == <<h, f[h] + 1>>
<1>4. /\ IsFiniteSet(Tally(f) \cup {x})
      /\ Cardinality(Tally(f) \cup {x}) =
           IF x \in Tally(f) THEN Cardinality(Tally(f)) ELSE Cardinality(Tally(f)) + 1
  BY FS_AddElement
<1> QED
  BY <1>2, <1>3, <1>4

(* One reference less is one element less.                                 *)
LEMMA TallyLose ==
  ASSUME NEW f \in [Holders -> Nat], NEW h \in Holders, IsFiniteSet(Tally(f)),
         f[h] > 0, NEW g, g = [f EXCEPT ![h] = @ - 1]
  PROVE  /\ IsFiniteSet(Tally(g))
         /\ Cardinality(Tally(g)) = Cardinality(Tally(f)) - 1
<1>1. g \in [Holders -> Nat]
  OBVIOUS
<1>2. <<h, f[h]>> \in Tally(f)
  BY TallyElement
<1>3. Tally(g) = Tally(f) \ {<<h, f[h]>>}
  <2>1. ASSUME NEW x
        PROVE  x \in Tally(g) <=> x \in Tally(f) /\ x # <<h, f[h]>>
    <3>1. x \in Tally(g) <=> \E i \in Holders : \E k \in 1 .. g[i] : x = <<i, k>>
      BY <1>1, TallyElement
    <3>2. x \in Tally(f) <=> \E i \in Holders : \E k \in 1 .. f[i] : x = <<i, k>>
      BY TallyElement
    <3> QED
      BY <3>1, <3>2
  <2> QED
    BY <2>1
<1> DEFINE x == <<h, f[h]>>
<1>4. /\ IsFiniteSet(Tally(f) \ {x})
      /\ Cardinality(Tally(f) \ {x}) =
           IF x \in Tally(f) THEN Cardinality(Tally(f)) - 1 ELSE Cardinality(Tally(f))
  BY FS_RemoveElement
<1> QED
  BY <1>2, <1>3, <1>4

(* What the exact count says about an object that somebody owns.           *)
LEMMA Owned ==
  ASSUME TypeOK, CountInv, NEW o \in Objects, NEW h \in Holders, held[h][o] > 0
  PROVE  /\ life[o] = "live"
         /\ refcount[o] \in Nat \ {0}
         /\ refcount[o] = 1 =>
              held[h][o] = 1 /\ \A g \in Holders \ {h} : held[g][o] = 0
<1> DEFINE f == Share(o)
           less == [f EXCEPT ![h] = @ - 1]
<1>1. f \in [Holders -> Nat] /\ f[h] > 0 /\ \A g \in Holders : f[g] = held[g][o]
  BY DEF TypeOK, Share
<1>2. life[o] = "live" /\ refcount[o] = Cardinality(Tally(f)) /\ IsFiniteSet(Tally(f))
  BY OwnersTally DEF CountInv, Unowned
<1>3. /\ less \in [Holders -> Nat]
      /\ IsFiniteSet(Tally(less))
      /\ Cardinality(Tally(less)) = Cardinality(Tally(f)) - 1
  <2> HIDE DEF f
  <2>1. less \in [Holders -> Nat]
    BY <1>1
  <2> QED
    BY <1>1, <1>2, <2>1, TallyLose
<1> HIDE DEF f, less
<1>4. Cardinality(Tally(less)) \in Nat /\ Cardinality(Tally(f)) \in Nat
  BY <1>2, <1>3, FS_CardinalityType
<1>5. ASSUME refcount[o] = 1
      PROVE  \A g \in Holders : less[g] = 0
  BY <1>2, <1>3, <1>5, FS_EmptySet, TallyEmpty
<1>6. less = [f EXCEPT ![h] = @ - 1]
  BY DEF less
<1> QED
  BY <1>1, <1>2, <1>3, <1>4, <1>5, <1>6

-----------------------------------------------------------------------------
(* What the invariant says about one thread or one object.                 *)

(* A thread that is in a call works on an object.                          *)
LEMMA SelfType ==
  ASSUME RefsInv, NEW t \in Threads, pc[t] # "idle"
  PROVE  self[t] \in Objects
  BY DEF RefsInv, TypeOK, ControlInv

(* Nobody owns an object that is being cleaned up, except the thread that  *)
(* has called y_destroy.                                                   *)
LEMMA OwnedNotCleaned ==
  ASSUME RefsInv, NEW o \in Objects, NEW h \in Holders, held[h][o] > 0,
         NEW t \in Threads, Cleans(t, o)
  PROVE  h = t /\ op[t] = "destroy" /\ held[t][o] = 1 /\ weak_ref[o] = NULL
<1>1. op[t] = "destroy"
  BY DEF RefsInv, TypeOK, AliveInv, KeptAlive, Unowned
<1>2. SoleUser(t, o) /\ weak_ref[o] = NULL /\ held[t][o] \in {0, 1}
  BY <1>1 DEF RefsInv, AliveInv, KeptAlive
<1> QED
  BY <1>1, <1>2 DEF SoleUser, RefsInv, TypeOK

(* A thread that gives an object's weak reference up is cleaning it up.    *)
LEMMA DroppedCleans ==
  ASSUME RefsInv, NEW t \in Threads, NEW o \in Objects, Dropped(t, o)
  PROVE  Cleans(t, o)
  BY DEF RefsInv, ControlInv, Dropped, Cleans, DestroyPcs, ClearOps

(* An object that somebody owns owns its weak reference.                   *)
LEMMA OwnsWeakRef ==
  ASSUME RefsInv, NEW o \in Objects, NEW h \in Holders, held[h][o] > 0,
         weak_ref[o] # NULL
  PROVE  /\ weak_ref[o] \in WeakRefs
         /\ held[o][weak_ref[o]] = 1
         /\ \A t \in Threads : ~Cleans(t, o) /\ ~Dropped(t, o)
<1>1. o \in Objects
  BY Kinds
<1>2. ASSUME NEW t \in Threads, Cleans(t, o)
      PROVE  FALSE
  BY <1>1, <1>2, OwnedNotCleaned
<1>3. \A t \in Threads : ~Cleans(t, o) /\ ~Dropped(t, o)
  BY <1>1, <1>2, DroppedCleans
<1>4. weak_ref[o] \in WeakRefs
  BY <1>1 DEF RefsInv, TypeOK
<1>5. held[o][weak_ref[o]] = 1
  BY <1>3, <1>4 DEF RefsInv, WeakInv
<1> QED
  BY <1>3, <1>4, <1>5

(* The reference that y_unref gives up is there.                           *)
LEMMA Released ==
  ASSUME RefsInv, NEW t \in Threads, pc[t] \in UnrefEarly
  PROVE  /\ self[t] \in Objects
         /\ Releaser(t) \in Holders
         /\ held[Releaser(t)][self[t]] \in Nat \ {0}
<1>1. pc[t] # "idle" /\ KeptAlive(t) /\ self[t] \in Objects /\ TypeOK
  BY SelfType DEF RefsInv, AliveInv, UnrefEarly
<1>2. CASE outer[t] = <<>>
  BY <1>1, <1>2, Kinds DEF TypeOK, Releaser, KeptAlive
<1>3. CASE outer[t] # <<>>
  <2> DEFINE r == Head(outer[t])
  <2>1. r \in Objects /\ r \in Waiting(t) /\ Cleans(t, r) /\ weak_ref[r] = self[t]
    BY <1>1, <1>3, WaitingType DEF Cleans, KeptAlive
  <2>2. ASSUME NEW u \in Threads, Dropped(u, r)
        PROVE  FALSE
    <3>1. CASE u = t
      BY <2>2, <3>1 DEF Dropped, UnrefEarly
    <3>2. CASE u # t
      BY <2>1, <2>2, <3>2 DEF RefsInv, ExclusiveInv, Dropped
    <3> QED
      BY <3>1, <3>2
  <2>3. self[t] \in WeakRefs
    BY <1>1, <2>1, Kinds DEF TypeOK
  <2>4. held[r][self[t]] = 1
    BY <2>1, <2>2, <2>3 DEF RefsInv, WeakInv
  <2> QED
    BY <1>1, <2>1, <2>4, Kinds, <1>3 DEF Releaser
<1> QED
  BY <1>2, <1>3

(* Somebody owns the object that y_ref is called on.                       *)
LEMMA RefOwned ==
  ASSUME RefsInv, NEW t \in Threads, pc[t] \in RefPcs
  PROVE  \E h \in Holders : held[h][self[t]] > 0
<1>1. CASE held[t][self[t]] > 0
  BY <1>1, Kinds
<1>2. CASE \E o \in Objects : held[t][o] > 0 /\ weak_ref[o] = self[t]
  <2>1. PICK o \in Objects : held[t][o] > 0 /\ weak_ref[o] = self[t]
    BY <1>2
  <2>2. self[t] # NULL
    BY DEF RefsInv, ControlInv, RefPcs
  <2> QED
    BY <2>1, <2>2, OwnsWeakRef, Kinds
<1> QED
  BY <1>1, <1>2 DEF RefsInv, AliveInv, KeptAlive

(* An object stays alive while a call works on it, until it is freed.      *)
LEMMA SelfLive ==
  ASSUME RefsInv, NEW t \in Threads, pc[t] # "idle", pc[t] # "free"
  PROVE  self[t] \in Objects /\ life[self[t]] = "live"
<1>1. self[t] \in Objects /\ t \in Holders
  BY SelfType, Kinds
<1>2. CASE pc[t] \in RefPcs
  BY <1>1, <1>2, RefOwned, Owned DEF RefsInv
<1>3. CASE pc[t] \in UnrefEarly
  <2>1. Releaser(t) \in Holders /\ held[Releaser(t)][self[t]] > 0
    BY <1>3, Released
  <2> QED
    BY <1>1, <2>1, Owned DEF RefsInv
<1>4. CASE pc[t] \in UnrefLate
  BY <1>1, <1>4 DEF RefsInv, AliveInv, KeptAlive
<1>5. CASE pc[t] \in WeakPcs \cup DerefPcs \/ op[t] \in ClearOps
  <2>1. held[t][self[t]] > 0
    BY <1>5 DEF RefsInv, AliveInv, KeptAlive
  <2> QED
    BY <1>1, <2>1, Owned DEF RefsInv
<1>6. CASE pc[t] \in DestroyPcs /\ op[t] \notin ClearOps
  BY <1>1, <1>6 DEF RefsInv, AliveInv, KeptAlive, Cleans
<1> QED
  BY <1>2, <1>3, <1>4, <1>5, <1>6
  DEF RefsInv, TypeOK, Labels, RefPcs, UnrefEarly, UnrefLate, WeakPcs,
      WeakNewPcs, DerefPcs, DestroyPcs

-----------------------------------------------------------------------------
(* What a step leaves alone.                                               *)

(* A step of one thread leaves the local variables of the others alone.    *)
SameThread(u) ==
  /\ pc'[u] = pc[u] /\ self'[u] = self[u] /\ outer'[u] = outer[u]
  /\ hasWeakRef'[u] = hasWeakRef[u] /\ doCleanup'[u] = doCleanup[u]
  /\ op'[u] = op[u] /\ locked'[u] = locked[u] /\ weak'[u] = weak[u]

(* No step of t changes the local variables of another thread u.           *)
LEMMA StepFrame ==
  ASSUME TypeOK, NEW t \in Threads, Step(t), NEW u \in Threads, u # t
  PROVE  SameThread(u)
<1> USE DEF TypeOK, SameThread, Goto
<1>1. CASE Return(t)
  BY <1>1 DEF Return
<1>2. ASSUME RefStep(t), ~Return(t)
      PROVE  SameThread(u)
  BY <1>2 DEF RefStep, RefEnter, RefCheck, RefWeak, RefLockWeak, RefLock,
              RefUnlock, RefUnlockWeak, localVars
<1>3. ASSUME UnrefStep(t), ~Return(t)
      PROVE  SameThread(u)
  BY <1>3 DEF UnrefStep, UnrefEnter, UnrefCheck, UnrefWeak, UnrefLockWeak,
              UnrefLock, UnrefUnlock, UnrefUnset, UnrefUnlockWeak, EndUnref,
              localVars
<1>4. ASSUME DestroyStep(t), ~Return(t)
      PROVE  SameThread(u)
  BY <1>4 DEF DestroyStep, Destroy, Clear, ClearNull, Mark, Free, EndClear,
              localVars
<1>5. ASSUME WeakStep(t), ~Return(t)
      PROVE  SameThread(u)
  BY <1>5 DEF WeakStep, WeakCheck, WeakLock, WeakNew, WeakUnlock, WeakRefTail,
              DerefCheck, DerefLock, DerefUnlock, localVars
<1> QED
  BY <1>1, <1>2, <1>3, <1>4, <1>5 DEF Step

(* Where a call returns to.                                                *)
LEMMA Returned ==
  ASSUME TypeOK, NEW t \in Threads, Return(t)
  PROVE  /\ outer[t] = <<>> =>
              /\ pc'[t] = "idle" /\ self'[t] = NULL /\ op'[t] = "none"
              /\ outer'[t] = <<>>
         /\ outer[t] # <<>> =>
              /\ pc'[t] = "clear_null" /\ self'[t] = Head(outer[t])
              /\ op'[t] = op[t] /\ outer'[t] = Tail(outer[t])
         /\ ~hasWeakRef'[t] /\ ~doCleanup'[t]
         /\ locked'[t] = locked[t] /\ weak'[t] = weak[t]
  BY DEF TypeOK, Return, Goto

(* A thread that works on o and is not cleaning it up after somebody       *)
(* else's references have gone needs one that keeps o alive.               *)
LEMMA UserOwns ==
  ASSUME RefsInv, NEW u \in Threads, NEW o \in Objects, self[u] = o,
         ~Cleans(u, o), pc[u] \notin UnrefLate
  PROVE  \/ \E p \in Objects : held[u][p] > 0 /\ held[p][o] > 0
         \/ held[Releaser(u)][o] > 0 /\ Releaser(u) \in Holders
         \/ held[u][o] > 0 /\ u \in Holders
<1>1. pc[u] # "idle" /\ KeptAlive(u)
  BY Kinds DEF RefsInv, ControlInv, AliveInv
<1>2. CASE pc[u] \in RefPcs /\ ~ held[u][o] > 0
  <2>1. PICK p \in Objects : held[u][p] > 0 /\ weak_ref[p] = o
    BY <1>1, <1>2 DEF KeptAlive
  <2>2. held[p][o] = 1
    BY <2>1, OwnsWeakRef, Kinds
  <2> QED
    BY <2>1, <2>2
<1>3. CASE pc[u] \in UnrefEarly
  BY <1>3, Released
<1>4. CASE pc[u] \in WeakPcs \cup DerefPcs \/ op[u] \in ClearOps
  BY <1>1, <1>4, Kinds DEF KeptAlive
<1>5. ~ (pc[u] \in DestroyPcs /\ op[u] \notin ClearOps)
  BY DEF Cleans
<1> QED
  BY <1>1, <1>2, <1>3, <1>4, <1>5, Kinds
  DEF RefsInv, TypeOK, Labels, RefPcs, UnrefEarly, UnrefLate, WeakPcs,
      WeakNewPcs, DerefPcs, DestroyPcs

(* The heart of y_unref: the thread that takes the last reference away,    *)
(* with the weak reference and the object locked, is the only one that     *)
(* still works on the object.                                              *)
LEMMA LastUser ==
  ASSUME RefsInv, NEW t \in Threads, pc[t] = "unref_lock",
         mutex[self[t]] = NULL, refcount[self[t]] <= 1
  PROVE  /\ \A u \in Threads \ {t} :
              self[u] # self[t] /\ self[t] \notin Waiting(u)
         /\ \A h \in Holders : held[h][self[t]] = IF h = Releaser(t) THEN 1 ELSE 0
         /\ refcount[self[t]] = 1
<1> DEFINE o == self[t]
<1>1. o \in Objects /\ Releaser(t) \in Holders /\ held[Releaser(t)][o] > 0
  BY Released DEF UnrefEarly
<1>2. /\ refcount[o] = 1
      /\ \A h \in Holders : held[h][o] = IF h = Releaser(t) THEN 1 ELSE 0
  BY <1>1, Owned DEF RefsInv
<1>3. ASSUME NEW u \in Threads, u # t, Cleans(u, o)
      PROVE  FALSE
  BY <1>1, <1>3 DEF RefsInv, ExclusiveInv
<1>4. ASSUME NEW u \in Threads, u # t, self[u] = o
      PROVE  FALSE
  <2>1. CASE pc[u] \in UnrefLate
    <3>1. ~doCleanup[u]
      BY <1>3, <1>4, <2>1 DEF Cleans
    <3>2. pc[u] \in {"unref_unlock", "unref_unlock_weak"}
      BY <2>1, <3>1 DEF RefsInv, ControlInv, UnrefLate
    <3>3. CASE pc[u] = "unref_unlock"
      <4>1. InSection(u, o)
        BY <1>4, <3>3 DEF InSection, SelfLocked
      <4> QED
        BY <1>1, <4>1, Kinds DEF RefsInv, LocksPaired
    <3>4. CASE pc[u] = "unref_unlock_weak"
      <4>1. hasWeakRef[u]
        BY <3>4 DEF RefsInv, ControlInv, WeakRefLabels
      <4>2. weak_ref[o] # NULL
        BY <1>4, <3>4, <4>1 DEF RefsInv, HasWeakRefInv, UnrefLate
      <4>3. weak_ref[o] \in Objects
        BY <1>1, <4>2, Kinds DEF RefsInv, TypeOK
      <4>4. hasWeakRef[t]
        BY <4>2 DEF RefsInv, HasWeakRefInv, UnrefEarly, UnrefLate
      <4>5. InSection(u, weak_ref[o]) /\ InSection(t, weak_ref[o])
        BY <1>4, <3>4, <4>1, <4>4 DEF InSection, WeakRefLocked
      <4> QED
        BY <1>4, <4>3, <4>5 DEF RefsInv, LocksPaired
    <3> QED
      BY <3>2, <3>3, <3>4
  <2>2. CASE \E p \in Objects : held[u][p] > 0 /\ held[p][o] > 0
    <3>1. PICK p \in Objects : held[u][p] > 0 /\ held[p][o] > 0
      BY <2>2
    <3>2. p = Releaser(t) /\ p \in Objects /\ u \in Holders
      BY <1>2, <3>1, Kinds
    <3>3. outer[t] # <<>> /\ p = Head(outer[t])
      BY <3>2, Kinds DEF Releaser
    <3>4. Cleans(t, p)
      BY <3>3, WaitingType DEF Cleans, RefsInv
    <3> QED
      BY <1>4, <3>1, <3>2, <3>4, OwnedNotCleaned
  <2>3. CASE held[Releaser(u)][o] > 0 /\ Releaser(u) \in Holders
    <3>1. Releaser(u) = Releaser(t)
      BY <1>2, <2>3
    <3>2. /\ outer[u] # <<>> => Head(outer[u]) \in Objects
          /\ outer[t] # <<>> => Head(outer[t]) \in Objects
      BY WaitingType DEF RefsInv
    <3>3. /\ outer[u] # <<>> /\ outer[t] # <<>>
          /\ Head(outer[u]) = Head(outer[t])
      BY <1>4, <3>1, <3>2, Kinds DEF Releaser
    <3>4. /\ Head(outer[t]) \in Objects /\ Head(outer[t]) \in Waiting(u)
          /\ Cleans(t, Head(outer[t]))
      BY <3>3, WaitingType DEF Cleans, RefsInv
    <3> QED
      BY <1>4, <3>4 DEF RefsInv, ExclusiveInv
  <2>4. CASE held[u][o] > 0 /\ u \in Holders
    <3>1. u = Releaser(t)
      BY <1>2, <2>4
    <3> QED
      BY <1>4, <3>1, WaitingType, Kinds DEF Releaser, RefsInv
  <2> QED
    BY <1>1, <1>3, <1>4, <2>1, <2>2, <2>3, <2>4, UserOwns
<1>5. ASSUME NEW u \in Threads, u # t, o \in Waiting(u)
      PROVE  FALSE
  BY <1>3, <1>5 DEF Cleans
<1> QED
  BY <1>2, <1>4, <1>5

(* y_Object_clear finds a weak reference only in an object that its thread *)
(* is giving back, and then the object still owns the weak reference.      *)
LEMMA ClearDrops ==
  ASSUME RefsInv, NEW t \in Threads, pc[t] = "clear", weak_ref[self[t]] # NULL
  PROVE  /\ self[t] \in Objects /\ weak_ref[self[t]] \in WeakRefs
         /\ op[t] = "unref" /\ Cleans(t, self[t]) /\ self[t] \notin Waiting(t)
         /\ held[self[t]][weak_ref[self[t]]] = 1
         /\ \A u \in Threads : ~Cleans(u, weak_ref[self[t]])
<1>1. self[t] \in Objects
  BY SelfType
<1>2. weak_ref[self[t]] \in WeakRefs /\ self[t] \notin Waiting(t)
  BY <1>1 DEF RefsInv, TypeOK, StackInv
<1>3. op[t] \notin ClearOps
  BY DEF RefsInv, AliveInv, KeptAlive
<1>4. Cleans(t, self[t])
  BY <1>3 DEF Cleans, DestroyPcs
<1>5. op[t] = "unref"
  <2>1. op[t] # "destroy"
    BY <1>1, <1>4 DEF RefsInv, AliveInv, KeptAlive
  <2> QED
    BY <1>3, <2>1 DEF RefsInv, TypeOK, Ops, ControlInv, RefPcs, WeakPcs,
       WeakNewPcs, DerefPcs, ClearOps
<1>6. \A u \in Threads : ~Dropped(u, self[t])
  <2>1. ~Dropped(t, self[t])
    BY <1>2 DEF Dropped
  <2>2. ASSUME NEW u \in Threads, u # t, Dropped(u, self[t])
        PROVE  FALSE
    BY <1>1, <1>4, <2>2 DEF Dropped, RefsInv, ExclusiveInv
  <2> QED
    BY <2>1, <2>2
<1>7. held[self[t]][weak_ref[self[t]]] = 1
  BY <1>1, <1>2, <1>6 DEF RefsInv, WeakInv
<1> QED
  BY <1>1, <1>2, <1>4, <1>5, <1>7, OwnedNotCleaned, Kinds

(* y_ref is not called on an object that another thread has to itself.     *)
LEMMA SoleNotReffed ==
  ASSUME RefsInv, NEW u \in Threads, NEW v \in Threads, u # v,
         NEW o \in Objects, SoleUser(u, o), pc[v] \in RefPcs
  PROVE  self[v] # o
<1>1. \A h \in Holders : h # u => held[h][o] = 0
  BY DEF SoleUser
<1>2. ASSUME NEW p \in Objects, held[v][p] > 0, weak_ref[p] = o
      PROVE  FALSE
  BY <1>1, <1>2, OwnsWeakRef, Kinds
<1>3. held[v][o] = 0 /\ KeptAlive(v)
  BY <1>1, Kinds DEF RefsInv, AliveInv
<1> QED
  BY <1>2, <1>3 DEF KeptAlive

(* No client creates, and no y_weak_ref makes, an object that a running    *)
(* call works on.                                                          *)
LEMMA UnbornUnused ==
  ASSUME RefsInv, NEW o \in Objects, life[o] = "unborn"
  PROVE  /\ \A u \in Threads : self[u] # o /\ o \notin Waiting(u) /\ locked[u] # o
         /\ \A h \in Holders : held[h][o] = 0
         /\ weak_ref[o] = NULL
         /\ \A p \in Objects : weak_ref[p] # o
         /\ \A w \in WeakRefs : target[w] # o
         /\ \A u \in Threads : ~Cleans(u, o)
<1>1. \A u \in Threads : ~Cleans(u, o)
  BY DEF RefsInv, AliveInv, KeptAlive
<1>2. \A h \in Holders : held[h][o] = 0
  BY DEF RefsInv, CountInv, Unowned
<1>3. ASSUME NEW u \in Threads
      PROVE  self[u] # o
  <2>1. CASE pc[u] = "idle"
    BY <2>1, Kinds DEF RefsInv, ControlInv
  <2>2. CASE pc[u] = "free"
    BY <1>1, <2>2 DEF RefsInv, ControlInv, Cleans, DestroyPcs, ClearOps
  <2>3. CASE pc[u] \notin {"idle", "free"}
    BY <2>3, SelfLive
  <2> QED
    BY <2>1, <2>2, <2>3
<1>4. \A u \in Threads : o \notin Waiting(u)
  BY <1>1 DEF Cleans
<1>5. \A u \in Threads : locked[u] # o
  BY <1>2, Kinds DEF RefsInv, ManualInv
<1>6. /\ weak_ref[o] = NULL
      /\ \A p \in Objects : weak_ref[p] # o
      /\ \A w \in WeakRefs : target[w] # o
  BY Kinds DEF RefsInv, WeakInv
<1> QED
  BY <1>1, <1>2, <1>3, <1>4, <1>5, <1>6

(* Only y_unref and y_destroy are called from y_Object_clear.              *)
LEMMA NoOuter ==
  ASSUME RefsInv, NEW t \in Threads, pc[t] \in RefPcs \cup WeakPcs \cup DerefPcs
  PROVE  outer[t] = <<>> /\ \A o \in Objects : ~Cleans(t, o)
<1>1. pc[t] \notin UnrefEarly \cup UnrefLate \cup DestroyPcs
  BY DEF RefPcs, WeakPcs, WeakNewPcs, DerefPcs, UnrefEarly, UnrefLate, DestroyPcs
<1>2. outer[t] = <<>>
  BY <1>1 DEF RefsInv, ControlInv, ClearOps
<1> QED
  BY <1>1, <1>2, WaitingType DEF Cleans, RefsInv

(* An object without a weak reference is no weak reference's target.       *)
LEMMA NoTarget ==
  ASSUME RefsInv, NEW o \in Objects, weak_ref[o] = NULL
  PROVE  \A w \in WeakRefs : target[w] # o
  BY Kinds DEF RefsInv, WeakInv

-----------------------------------------------------------------------------
(* TypeOK                                                                  *)

(* Returning from a call changes the local variables only.                 *)
LEMMA ReturnTypes ==
  ASSUME TypeOK, NEW t \in Threads, Return(t)
  PROVE  /\ pc' \in [Threads -> Labels]
         /\ self' \in [Threads -> Objects \cup {NULL}]
         /\ outer' \in [Threads -> Seq(Objects)]
         /\ weak' \in [Threads -> WeakRefs \cup {NULL}]
         /\ hasWeakRef' \in [Threads -> BOOLEAN]
         /\ doCleanup' \in [Threads -> BOOLEAN]
         /\ op' \in [Threads -> Ops]
         /\ calls' \in Nat
         /\ locked' \in [Threads -> Objects \cup {NULL}]
<1>1. /\ outer[t] # <<>> =>
           Head(outer[t]) \in Objects /\ Tail(outer[t]) \in Seq(Objects)
      /\ outer[t] = <<>> \/ outer[t] # <<>>
  BY DEF TypeOK
<1>2. /\ pc' \in [Threads -> Labels]
      /\ op' \in [Threads -> Ops]
  BY DEF TypeOK, Return, Goto, Labels, Ops
<1>3. self' \in [Threads -> Objects \cup {NULL}]
  <2>1. CASE outer[t] = <<>>
    BY <2>1 DEF TypeOK, Return
  <2>2. CASE outer[t] # <<>>
    <3>1. self' = [self EXCEPT ![t] = Head(outer[t])]
      BY <2>2 DEF Return
    <3> DEFINE h == Head(outer[t])
    <3>2. h \in Objects
      BY <1>1, <2>2
    <3> HIDE DEF h
    <3>3. [self EXCEPT ![t] = h] \in [Threads -> Objects \cup {NULL}]
      BY <3>2 DEF TypeOK
    <3> QED
      BY <3>1, <3>3 DEF h
  <2> QED
    BY <2>1, <2>2
<1>4. outer' \in [Threads -> Seq(Objects)]
  BY <1>1 DEF TypeOK, Return
<1>5. /\ weak' \in [Threads -> WeakRefs \cup {NULL}]
      /\ hasWeakRef' \in [Threads -> BOOLEAN]
      /\ doCleanup' \in [Threads -> BOOLEAN]
      /\ calls' \in Nat
      /\ locked' \in [Threads -> Objects \cup {NULL}]
  BY DEF TypeOK, Return
<1> QED
  BY <1>2, <1>3, <1>4, <1>5

(* One holder gains a reference.                                           *)
LEMMA HeldTypes ==
  ASSUME NEW f \in [Holders -> [Objects -> Nat]],
         NEW h \in Holders, NEW o \in Objects
  PROVE  [f EXCEPT ![h][o] = @ + 1] \in [Holders -> [Objects -> Nat]]
  OBVIOUS

(* Every step of clients that keep to the rules preserves TypeOK.          *)
LEMMA TypeStep ==
  ASSUME RefsInv, Freedoms = {}, [Next]_vars
  PROVE  TypeOK'
<1> USE DEF RefsInv, TypeOK
<1>1. ASSUME NEW t \in Threads, RefEnter(t)
      PROVE  TypeOK'
  BY <1>1 DEF Goto, heapVars, localVars, Labels, Stages, Ops, RefEnter
<1>2. ASSUME NEW t \in Threads, RefCheck(t)
      PROVE  TypeOK'
  <2>1. CASE Return(t)
    BY <1>2, <2>1, ReturnTypes DEF heapVars, RefCheck
  <2>2. CASE ~(Return(t))
    BY <1>2, <2>2 DEF heapVars, localVars, Goto, Labels, RefCheck
  <2> QED
    BY <2>1, <2>2
<1>3. ASSUME NEW t \in Threads, RefWeak(t)
      PROVE  TypeOK'
  BY <1>3, SelfType
     DEF At, Goto, heapVars, Labels, Stages, Ops, RefWeak
<1>4. ASSUME NEW t \in Threads, RefLockWeak(t)
      PROVE  TypeOK'
  BY <1>4 DEF Goto, heapVars, localVars, Labels, y_lock, RefLockWeak
<1>5. ASSUME NEW t \in Threads, RefLock(t)
      PROVE  TypeOK'
  <2>1. self[t] \in Objects /\ t \in Holders
    BY <1>5, SelfType, Kinds DEF RefLock, At
  <2>2. [held EXCEPT ![t][self[t]] = @ + 1] \in [Holders -> [Objects -> Nat]]
    BY <2>1
  <2>3. /\ refcount' \in [Objects -> Int]
        /\ held' \in [Holders -> [Objects -> Nat]]
    <3>1. refcount' = refcount \/ refcount' = [refcount EXCEPT ![self[t]] = @ + 1]
      BY <1>5 DEF RefLock
    <3>2. held' = held \/ held' = [held EXCEPT ![t][self[t]] = @ + 1]
      BY <1>5 DEF RefLock
    <3>3. [refcount EXCEPT ![self[t]] = @ + 1] \in [Objects -> Int]
      BY <2>1
    <3> QED
      BY <2>2, <3>1, <3>2, <3>3
  <2>4. mutex' \in [Objects -> Threads \cup {NULL}]
    BY <1>5, <2>1 DEF RefLock, y_lock
  <2> QED
    BY <1>5, <2>3, <2>4 DEF localVars, Goto, Labels, RefLock
<1>6. ASSUME NEW t \in Threads, RefUnlock(t)
      PROVE  TypeOK'
  <2>1. CASE Return(t)
    BY <1>6, <2>1, ReturnTypes DEF heapVars, y_unlock, RefUnlock
  <2>2. CASE ~(Return(t))
    BY <1>6, <2>2 DEF heapVars, localVars, Goto, Labels, y_unlock, RefUnlock
  <2> QED
    BY <2>1, <2>2
<1>7. ASSUME NEW t \in Threads, RefUnlockWeak(t)
      PROVE  TypeOK'
  BY <1>7, ReturnTypes DEF heapVars, y_unlock, RefUnlockWeak
<1>8. ASSUME NEW t \in Threads, UnrefEnter(t)
      PROVE  TypeOK'
  BY <1>8 DEF Goto, heapVars, localVars, Labels, Stages, Ops, UnrefEnter
<1>9. ASSUME NEW t \in Threads, UnrefCheck(t)
      PROVE  TypeOK'
  <2>1. CASE Return(t)
    BY <1>9, <2>1, ReturnTypes DEF heapVars, UnrefCheck
  <2>2. CASE ~(Return(t))
    BY <1>9, <2>2 DEF heapVars, localVars, Goto, Labels, UnrefCheck
  <2> QED
    BY <2>1, <2>2
<1>10. ASSUME NEW t \in Threads, UnrefWeak(t)
      PROVE  TypeOK'
  BY <1>10, SelfType
     DEF At, Goto, heapVars, Labels, Stages, Ops, UnrefWeak
<1>11. ASSUME NEW t \in Threads, UnrefLockWeak(t)
      PROVE  TypeOK'
  BY <1>11 DEF Goto, heapVars, localVars, Labels, y_lock, UnrefLockWeak
<1>12. ASSUME NEW t \in Threads, UnrefLock(t)
      PROVE  TypeOK'
  <2>1. /\ self[t] \in Objects /\ Releaser(t) \in Holders
        /\ held[Releaser(t)][self[t]] \in Nat \ {0}
    BY <1>12, Released DEF UnrefLock, At, UnrefEarly
  <2>2. [held EXCEPT ![Releaser(t)][self[t]] = @ - 1] \in [Holders -> [Objects -> Nat]]
    BY <2>1
  <2>3. /\ refcount' \in [Objects -> Int]
        /\ held' \in [Holders -> [Objects -> Nat]]
    <3>1. refcount' = refcount \/ refcount' = [refcount EXCEPT ![self[t]] = @ - 1]
      BY <1>12 DEF UnrefLock
    <3>2. \/ held' = held
          \/ held' = [held EXCEPT ![Releaser(t)][self[t]] = @ - 1]
      BY <1>12 DEF UnrefLock
    <3>3. [refcount EXCEPT ![self[t]] = @ - 1] \in [Objects -> Int]
      BY <2>1
    <3> QED
      BY <2>2, <3>1, <3>2, <3>3
  <2>4. /\ mutex' \in [Objects -> Threads \cup {NULL}]
        /\ doCleanup' \in [Threads -> BOOLEAN]
    BY <1>12, <2>1 DEF UnrefLock, y_lock
  <2> QED
    BY <1>12, <2>3, <2>4 DEF localVars, Goto, Labels, UnrefLock
<1>13. ASSUME NEW t \in Threads, UnrefUnlock(t)
      PROVE  TypeOK'
  <2>1. CASE Return(t)
    BY <1>13, <2>1, ReturnTypes DEF heapVars, y_unlock, UnrefUnlock, EndUnref
  <2>2. CASE ~(Return(t))
    BY <1>13, <2>2
       DEF heapVars, localVars, Goto, Labels, y_unlock, UnrefUnlock, EndUnref
  <2> QED
    BY <2>1, <2>2
<1>14. ASSUME NEW t \in Threads, UnrefUnset(t)
      PROVE  TypeOK'
  BY <1>14 DEF Goto, heapVars, localVars, Labels, Stages, Ops, UnrefUnset
<1>15. ASSUME NEW t \in Threads, UnrefUnlockWeak(t)
      PROVE  TypeOK'
  <2>1. CASE Return(t)
    BY <1>15, <2>1, ReturnTypes
       DEF heapVars, y_unlock, UnrefUnlockWeak, EndUnref
  <2>2. CASE ~(Return(t))
    BY <1>15, <2>2
       DEF heapVars, localVars, Goto, Labels, y_unlock, UnrefUnlockWeak,
           EndUnref
  <2> QED
    BY <2>1, <2>2
<1>16. ASSUME NEW t \in Threads, Destroy(t)
      PROVE  TypeOK'
  <2>1. CASE Return(t)
    BY <1>16, <2>1, ReturnTypes DEF heapVars, Destroy
  <2>2. CASE ~(Return(t))
    BY <1>16, <2>2 DEF heapVars, localVars, Goto, Labels, Destroy
  <2> QED
    BY <2>1, <2>2
<1>17. ASSUME NEW t \in Threads, Clear(t)
      PROVE  TypeOK'
  <2>1. CASE weak_ref[self[t]] # NULL
    <3>1. self[t] \in Objects /\ weak_ref[self[t]] \in Objects
      BY <1>17, <2>1, SelfType, Kinds DEF Clear, At
    <3>2. outer' = [outer EXCEPT ![t] = <<self[t]>> \o @]
      BY <1>17, <2>1 DEF Clear
    <3>3. <<self[t]>> \o outer[t] \in Seq(Objects)
      BY <3>1
    <3>4. outer' \in [Threads -> Seq(Objects)]
      BY <3>2, <3>3
    <3>5. self' \in [Threads -> Objects \cup {NULL}]
      BY <1>17, <2>1, <3>1 DEF Clear
    <3> QED
      BY <1>17, <2>1, <3>4, <3>5 DEF heapVars, Goto, Labels, Clear
  <2>2. CASE weak_ref[self[t]] = NULL /\ Return(t)
    BY <1>17, <2>2, ReturnTypes DEF heapVars, Clear
  <2>3. CASE weak_ref[self[t]] = NULL /\ ~Return(t)
    BY <1>17, <2>3 DEF heapVars, localVars, Goto, Labels, Clear, EndClear
  <2> QED
    BY <2>1, <2>2, <2>3
<1>18. ASSUME NEW t \in Threads, ClearNull(t)
      PROVE  TypeOK'
  <2>1. CASE Return(t)
    BY <1>18, <2>1, ReturnTypes DEF heapVars, ClearNull, EndClear
  <2>2. CASE ~(Return(t))
    BY <1>18, <2>2 DEF heapVars, localVars, Goto, Labels, ClearNull, EndClear
  <2> QED
    BY <2>1, <2>2
<1>19. ASSUME NEW t \in Threads, Mark(t)
      PROVE  TypeOK'
  BY <1>19 DEF Goto, heapVars, localVars, Labels, Stages, Ops, Mark
<1>20. ASSUME NEW t \in Threads, Free(t)
      PROVE  TypeOK'
  BY <1>20, ReturnTypes DEF heapVars, Stages, Free
<1>21. ASSUME NEW t \in Threads, WeakCheck(t)
      PROVE  TypeOK'
  BY <1>21 DEF Goto, heapVars, localVars, Labels, Stages, Ops, WeakCheck
<1>22. ASSUME NEW t \in Threads, WeakLock(t)
      PROVE  TypeOK'
  BY <1>22 DEF Goto, heapVars, localVars, Labels, y_lock, WeakLock
<1>23. ASSUME NEW t \in Threads, WeakNew(t)
      PROVE  TypeOK'
  <2>1. CASE UNCHANGED heapVars
    BY <1>23, <2>1 DEF heapVars, localVars, Goto, Labels, WeakNew
  <2>2. CASE \E w \in WeakRefs : y_WeakRef_new(self[t], w)
    <3>1. PICK w \in WeakRefs : y_WeakRef_new(self[t], w)
      BY <2>2
    <3>2. self[t] \in Objects
      BY <1>23, SelfType DEF WeakNew, At
    <3>3. [held EXCEPT ![self[t]][w] = @ + 1] \in [Holders -> [Objects -> Nat]]
      BY <3>2, Kinds
    <3>4. /\ life' \in [Objects -> Stages]
          /\ refcount' \in [Objects -> Int]
          /\ weak_ref' \in [Objects -> WeakRefs \cup {NULL}]
          /\ target' \in [WeakRefs -> Objects \cup {NULL}]
          /\ held' \in [Holders -> [Objects -> Nat]]
      BY <3>1, <3>2, <3>3, Kinds DEF y_WeakRef_new, Stages
    <3> QED
      BY <1>23, <3>4 DEF localVars, Goto, Labels, WeakNew
  <2> QED
    BY <1>23, <2>1, <2>2 DEF WeakNew
<1>24. ASSUME NEW t \in Threads, WeakUnlock(t)
      PROVE  TypeOK'
  BY <1>24 DEF Goto, heapVars, localVars, Labels, y_unlock, WeakUnlock
<1>25. ASSUME NEW t \in Threads, WeakRefTail(t)
      PROVE  TypeOK'
  <2>1. CASE Return(t)
    BY <1>25, <2>1, ReturnTypes DEF heapVars, WeakRefTail
  <2>2. CASE ~Return(t)
    <3>1. weak_ref[self[t]] \in Objects
      BY <1>25, <2>2, SelfType, Kinds DEF WeakRefTail, At
    <3> QED
      BY <1>25, <2>2, <3>1 DEF heapVars, localVars, Goto, Labels, WeakRefTail
  <2> QED
    BY <2>1, <2>2
<1>26. ASSUME NEW t \in Threads, DerefCheck(t)
      PROVE  TypeOK'
  <2>1. CASE Return(t)
    BY <1>26, <2>1, ReturnTypes DEF heapVars, DerefCheck
  <2>2. CASE ~(Return(t))
    BY <1>26, <2>2 DEF heapVars, localVars, Goto, Labels, DerefCheck
  <2> QED
    BY <2>1, <2>2
<1>27. ASSUME NEW t \in Threads, DerefLock(t)
      PROVE  TypeOK'
  BY <1>27 DEF Goto, heapVars, localVars, Labels, y_lock, DerefLock
<1>28. ASSUME NEW t \in Threads, DerefUnlock(t)
      PROVE  TypeOK'
  <2>1. CASE Return(t)
    BY <1>28, <2>1, ReturnTypes DEF heapVars, y_unlock, DerefUnlock
  <2>2. CASE ~Return(t)
    <3>1. target[self[t]] \in Objects
      BY <1>28, <2>2, Kinds DEF DerefUnlock, At, ControlInv, DerefPcs
    <3> QED
      BY <1>28, <2>2, <3>1
         DEF heapVars, localVars, y_unlock, Goto, Labels, DerefUnlock
  <2> QED
    BY <2>1, <2>2
<1>29. ASSUME NEW t \in Threads, NEW o \in Objects, CallRef(t, o)
      PROVE  TypeOK'
  BY <1>29 DEF Goto, heapVars, localVars, Labels, Stages, Ops, CallRef, Call
<1>30. ASSUME NEW t \in Threads, NEW o \in Objects, CallUnref(t, o)
      PROVE  TypeOK'
  BY <1>30 DEF Goto, heapVars, localVars, Labels, Stages, Ops, CallUnref, Call
<1>31. ASSUME NEW t \in Threads, NEW o \in Objects, ManualLock(t, o)
      PROVE  TypeOK'
  <2>1. mutex' \in [Objects -> Threads \cup {NULL}]
    BY <1>31 DEF ManualLock, y_lock
  <2> QED
    BY <1>31, <2>1 DEF heapVars, ManualLock
<1>32. ASSUME NEW t \in Threads, NEW o \in Objects, ManualUnlock(t, o)
      PROVE  TypeOK'
  BY <1>32 DEF Goto, heapVars, localVars, Labels, y_unlock, ManualUnlock
<1>33. ASSUME NEW t \in Threads, NEW u \in Threads, NEW o \in Objects,
             Give(t, u, o)
      PROVE  TypeOK'
  <2>1. held[t][o] \in Nat \ {0} /\ t \in Holders /\ u \in Holders
    BY <1>33, Kinds DEF Give, Uses
  <2> DEFINE taken == [held EXCEPT ![t][o] = @ - 1]
  <2>2. taken \in [Holders -> [Objects -> Nat]]
    BY <2>1
  <2>3. [taken EXCEPT ![u][o] = @ + 1] \in [Holders -> [Objects -> Nat]]
    BY <2>1, <2>2, HeldTypes
  <2>4. held' = [taken EXCEPT ![u][o] = @ + 1]
    BY <1>33 DEF Give
  <2> QED
    BY <1>33, <2>3, <2>4 DEF localVars, Give
<1>34. ASSUME NEW t \in Threads, NEW o \in Referents, Create(t, o)
      PROVE  TypeOK'
  BY <1>34, Kinds DEF Goto, heapVars, localVars, Labels, Stages, Ops, Create
<1>35. ASSUME NEW t \in Threads, NEW o \in Objects, CallWeakRef(t, o)
      PROVE  TypeOK'
  BY <1>35, Kinds
     DEF Goto, heapVars, localVars, Labels, Stages, Ops, CallWeakRef, Call
<1>36. ASSUME NEW t \in Threads, NEW o \in Objects, CallClear(t, o)
      PROVE  TypeOK'
  BY <1>36, Kinds
     DEF Goto, heapVars, localVars, Labels, Stages, Ops, CallClear, Call
<1>37. ASSUME NEW t \in Threads, NEW o \in Referents, NEW from \in Referents,
             CallAssign(t, o, from)
      PROVE  TypeOK'
  BY <1>37, Kinds
     DEF Goto, heapVars, localVars, Labels, Stages, Ops, CallAssign, Call
<1>38. ASSUME NEW t \in Threads, NEW o \in Objects, CallDestroy(t, o)
      PROVE  TypeOK'
  BY <1>38, Kinds
     DEF Goto, heapVars, localVars, Labels, Stages, Ops, CallDestroy, Call
<1>39. ASSUME NEW t \in Threads, NEW w \in WeakRefs, CallDeref(t, w)
      PROVE  TypeOK'
  BY <1>39, Kinds
     DEF Goto, heapVars, localVars, Labels, Stages, Ops, CallDeref, Call
<1>40. CASE UNCHANGED vars
  BY <1>40 DEF Goto, heapVars, localVars, Labels, Stages, Ops, vars
<1> HIDE DEF RefsInv, TypeOK
<1>41. ASSUME NEW t \in Threads, RefStep(t)
      PROVE  TypeOK'
  BY <1>1, <1>2, <1>3, <1>4, <1>5, <1>6, <1>7, <1>41 DEF RefStep
<1>42. ASSUME NEW t \in Threads, UnrefStep(t)
      PROVE  TypeOK'
  BY <1>8, <1>9, <1>10, <1>11, <1>12, <1>13, <1>14, <1>15, <1>42 DEF UnrefStep
<1>43. ASSUME NEW t \in Threads, DestroyStep(t)
      PROVE  TypeOK'
  BY <1>16, <1>17, <1>18, <1>19, <1>20, <1>43 DEF DestroyStep
<1>44. ASSUME NEW t \in Threads, WeakStep(t)
      PROVE  TypeOK'
  BY <1>21, <1>22, <1>23, <1>24, <1>25, <1>26, <1>27, <1>28, <1>44 DEF WeakStep
<1>45. ASSUME NEW t \in Threads, ClientStep(t)
      PROVE  TypeOK'
  BY <1>29, <1>30, <1>31, <1>32, <1>33, <1>34, <1>35, <1>36, <1>37, <1>38, <1>39,
     <1>45 DEF ClientStep
<1> QED
  BY <1>40, <1>41, <1>42, <1>43, <1>44, <1>45 DEF Next, Rest, Step

-----------------------------------------------------------------------------
(* ControlInv: which steps belong to which call.                           *)

(* The control of the call that t runs.                                    *)
Controlled(t) ==
  /\ pc[t] = "idle" => op[t] = "none" /\ self[t] = NULL /\ ~doCleanup[t]
  /\ pc[t] # "idle" => self[t] # NULL /\ locked[t] = NULL
  /\ op[t] \in {"none", "ref", "unref", "weak_ref", "deref"}
       \/ (op[t] \in ClearOps /\ pc[t] = "clear")
       \/ (op[t] = "destroy" /\ pc[t] \in DestroyPcs \ {"clear_null"})
  /\ op[t] = "none" => pc[t] = "idle"
  /\ op[t] = "ref" => pc[t] \in RefPcs
  /\ op[t] = "unref" => pc[t] \in UnrefEarly \cup UnrefLate \cup DestroyPcs
  /\ op[t] = "weak_ref" => pc[t] \in WeakPcs \cup RefPcs
  /\ op[t] = "deref" => pc[t] \in DerefPcs \cup RefPcs
  /\ outer[t] # <<>> => op[t] = "unref"
  /\ pc[t] \in DerefPcs => self[t] \in WeakRefs
  /\ op[t] = "weak_ref" /\ pc[t] \in RefPcs => self[t] \in WeakRefs
  /\ pc[t] = "unref_unset" => doCleanup[t]
  /\ pc[t] \in UnrefEarly => ~doCleanup[t]
  /\ pc[t] \in WeakRefLabels => hasWeakRef[t]

(* A step of t leaves the control of the other threads alone.              *)
LEMMA ControlOne ==
  ASSUME RefsInv, NEW t \in Threads, Step(t), Controlled(t)'
  PROVE  ControlInv'
<1>1. ASSUME NEW u \in Threads
      PROVE  Controlled(u)'
  <2>1. CASE u # t
    <3>1. SameThread(u)
      BY <2>1, StepFrame DEF RefsInv
    <3>2. Controlled(u)
      BY DEF RefsInv, ControlInv, Controlled
    <3> QED
      BY <3>1, <3>2 DEF SameThread, Controlled
  <2> QED
    BY <2>1
<1> QED
  BY <1>1 DEF ControlInv, Controlled

(* A call returns to its client or into y_Object_clear.                    *)
LEMMA ReturnControlled ==
  ASSUME RefsInv, NEW t \in Threads, Return(t), pc[t] # "idle"
  PROVE  Controlled(t)'
<1>1. TypeOK /\ locked[t] = NULL /\ (outer[t] # <<>> => op[t] = "unref")
  BY DEF RefsInv, ControlInv
<1>2. CASE outer[t] = <<>>
  BY <1>1, <1>2, Returned
  DEF Controlled, RefPcs, UnrefEarly, UnrefLate, DestroyPcs, WeakPcs,
      WeakNewPcs, DerefPcs, WeakRefLabels
<1>3. CASE outer[t] # <<>>
  <2>1. /\ pc'[t] = "clear_null" /\ self'[t] \in Objects /\ op'[t] = "unref"
        /\ locked'[t] = NULL
    BY <1>1, <1>3, Returned, WaitingType
  <2> QED
    BY <2>1, Kinds
    DEF Controlled, RefPcs, UnrefEarly, UnrefLate, DestroyPcs, WeakPcs,
        WeakNewPcs, DerefPcs, WeakRefLabels
<1> QED
  BY <1>2, <1>3

(* RefUnlock keeps to its call.                                         *)
LEMMA ControlledRefUnlock ==
  ASSUME RefsInv, NEW t \in Threads, RefUnlock(t)
  PROVE  ControlInv'
<1> SUFFICES Controlled(t)'
  BY ControlOne DEF Step, RefStep
<1>1. TypeOK /\ pc[t] = "ref_unlock" /\ self[t] \in Objects
  BY SelfType DEF RefUnlock, At, RefsInv
<1>2. CASE Return(t)
  BY <1>1, <1>2, ReturnControlled
<1>3. CASE ~Return(t)
  <2>1. /\ pc'[t] = "ref_unlock_weak" /\ hasWeakRef[t]
        /\ self' = self /\ UNCHANGED localVars
    BY <1>1, <1>3 DEF RefUnlock, At, Goto, TypeOK, localVars
  <2> QED
    BY <1>1, <2>1, Kinds
    DEF RefsInv, ControlInv, Controlled, RefPcs, UnrefEarly, UnrefLate,
        DestroyPcs, WeakPcs, WeakNewPcs, DerefPcs, WeakRefLabels, ClearOps,
        localVars
<1> QED
  BY <1>2, <1>3

(* Destroy keeps to its call.                                           *)
LEMMA ControlledDestroy ==
  ASSUME RefsInv, NEW t \in Threads, Destroy(t)
  PROVE  ControlInv'
<1> SUFFICES Controlled(t)'
  BY ControlOne DEF Step, DestroyStep
<1>1. TypeOK /\ pc[t] = "destroy" /\ self[t] \in Objects
  BY SelfType DEF Destroy, At, RefsInv
<1>2. CASE Return(t)
  BY <1>1, <1>2, ReturnControlled
<1>3. CASE ~Return(t)
  <2>1. pc'[t] = "clear" /\ self' = self /\ UNCHANGED localVars
    BY <1>1, <1>3 DEF Destroy, At, Goto, TypeOK, localVars
  <2> QED
    BY <1>1, <2>1, Kinds
    DEF RefsInv, ControlInv, Controlled, RefPcs, UnrefEarly, UnrefLate,
        DestroyPcs, WeakPcs, WeakNewPcs, DerefPcs, WeakRefLabels, ClearOps,
        localVars
<1> QED
  BY <1>2, <1>3

(* Clear keeps to its call.                                             *)
LEMMA ControlledClear ==
  ASSUME RefsInv, NEW t \in Threads, Clear(t)
  PROVE  ControlInv'
<1> SUFFICES Controlled(t)'
  BY ControlOne DEF Step, DestroyStep
<1>1. TypeOK /\ pc[t] = "clear" /\ self[t] \in Objects
  BY SelfType DEF Clear, At, RefsInv
<1>2. CASE Return(t)
  BY <1>1, <1>2, ReturnControlled
<1>3. CASE weak_ref[self[t]] # NULL
  <2>1. weak_ref[self[t]] \in Objects /\ op[t] = "unref"
    BY <1>1, <1>3, ClearDrops, Kinds
  <2>2. /\ pc'[t] = "unref_enter" /\ self'[t] \in Objects
        /\ ~hasWeakRef'[t] /\ ~doCleanup'[t] /\ op' = op /\ locked' = locked
    BY <1>1, <1>3, <2>1 DEF Clear, Goto, TypeOK
  <2> QED
    BY <1>1, <2>1, <2>2, Kinds
    DEF RefsInv, ControlInv, Controlled, RefPcs, UnrefEarly, UnrefLate,
        DestroyPcs, WeakPcs, WeakNewPcs, DerefPcs, WeakRefLabels, ClearOps,
        localVars
<1>4. CASE weak_ref[self[t]] = NULL /\ ~Return(t)
  <2>1. /\ pc'[t] = "mark" /\ self' = self /\ UNCHANGED localVars
        /\ ~ClearsOnly(t)
    BY <1>1, <1>4 DEF Clear, EndClear, Goto, TypeOK
  <2> QED
    BY <1>1, <2>1, Kinds
    DEF RefsInv, ControlInv, Controlled, RefPcs, UnrefEarly, UnrefLate,
        DestroyPcs, WeakPcs, WeakNewPcs, DerefPcs, WeakRefLabels, ClearOps,
        localVars, ClearsOnly
<1> QED
  BY <1>2, <1>3, <1>4

(* WeakRefTail keeps to its call.                                       *)
LEMMA ControlledWeakRefTail ==
  ASSUME RefsInv, NEW t \in Threads, WeakRefTail(t)
  PROVE  ControlInv'
<1> SUFFICES Controlled(t)'
  BY ControlOne DEF Step, WeakStep
<1>1. TypeOK /\ pc[t] = "weak_tail" /\ self[t] \in Objects
  BY SelfType DEF WeakRefTail, At, RefsInv
<1>2. CASE Return(t)
  BY <1>1, <1>2, ReturnControlled
<1>3. CASE ~Return(t)
  <2>1. /\ pc'[t] = "ref_enter" /\ self'[t] \in WeakRefs
        /\ UNCHANGED localVars
    BY <1>1, <1>3 DEF WeakRefTail, At, Goto, TypeOK, localVars
  <2> QED
    BY <1>1, <2>1, Kinds
    DEF RefsInv, ControlInv, Controlled, RefPcs, UnrefEarly, UnrefLate,
        DestroyPcs, WeakPcs, WeakNewPcs, DerefPcs, WeakRefLabels, ClearOps,
        localVars
<1> QED
  BY <1>2, <1>3

(* DerefCheck keeps to its call.                                        *)
LEMMA ControlledDerefCheck ==
  ASSUME RefsInv, NEW t \in Threads, DerefCheck(t)
  PROVE  ControlInv'
<1> SUFFICES Controlled(t)'
  BY ControlOne DEF Step, WeakStep
<1>1. TypeOK /\ pc[t] = "deref_check" /\ self[t] \in Objects
  BY SelfType DEF DerefCheck, At, RefsInv
<1>2. CASE Return(t)
  BY <1>1, <1>2, ReturnControlled
<1>3. CASE ~Return(t)
  <2>1. pc'[t] = "deref_lock" /\ self' = self /\ UNCHANGED localVars
    BY <1>1, <1>3 DEF DerefCheck, At, Goto, TypeOK, localVars
  <2> QED
    BY <1>1, <2>1, Kinds
    DEF RefsInv, ControlInv, Controlled, RefPcs, UnrefEarly, UnrefLate,
        DestroyPcs, WeakPcs, WeakNewPcs, DerefPcs, WeakRefLabels, ClearOps,
        localVars
<1> QED
  BY <1>2, <1>3

(* Every step of clients that keep to the rules preserves ControlInv.      *)
LEMMA ControlStep ==
  ASSUME RefsInv, Freedoms = {}, [Next]_vars
  PROVE  ControlInv'
<1> USE RefsAssumption
   DEF RefsInv, At, Goto, Return, y_lock, y_unlock, heapVars, localVars,
       TypeOK, ControlInv, WeakInv, ManualInv, AliveInv, KeptAlive, RefPcs,
       UnrefEarly, UnrefLate, DestroyPcs, WeakNewPcs, WeakPcs, DerefPcs,
       ClearOps, WeakRefLabels, Cleans, Objects
<1>1. ASSUME NEW t \in Threads, RefEnter(t)
      PROVE  ControlInv'
  BY <1>1 DEF RefEnter
<1>2. ASSUME NEW t \in Threads, RefCheck(t)
      PROVE  ControlInv'
  BY <1>2 DEF RefCheck
<1>3. ASSUME NEW t \in Threads, RefWeak(t)
      PROVE  ControlInv'
  BY <1>3 DEF RefWeak
<1>4. ASSUME NEW t \in Threads, RefLockWeak(t)
      PROVE  ControlInv'
  BY <1>4 DEF RefLockWeak
<1>5. ASSUME NEW t \in Threads, RefLock(t)
      PROVE  ControlInv'
  BY <1>5, SMTT(30) DEF RefLock
<1>6. ASSUME NEW t \in Threads, RefUnlock(t)
      PROVE  ControlInv'
  BY <1>6, ControlledRefUnlock
<1>7. ASSUME NEW t \in Threads, RefUnlockWeak(t)
      PROVE  ControlInv'
  BY <1>7 DEF RefUnlockWeak
<1>8. ASSUME NEW t \in Threads, UnrefEnter(t)
      PROVE  ControlInv'
  BY <1>8 DEF UnrefEnter
<1>9. ASSUME NEW t \in Threads, UnrefCheck(t)
      PROVE  ControlInv'
  BY <1>9 DEF UnrefCheck
<1>10. ASSUME NEW t \in Threads, UnrefWeak(t)
      PROVE  ControlInv'
  BY <1>10 DEF UnrefWeak
<1>11. ASSUME NEW t \in Threads, UnrefLockWeak(t)
      PROVE  ControlInv'
  BY <1>11 DEF UnrefLockWeak
<1>12. ASSUME NEW t \in Threads, UnrefLock(t)
      PROVE  ControlInv'
  BY <1>12 DEF UnrefLock, Releaser
<1>13. ASSUME NEW t \in Threads, UnrefUnlock(t)
      PROVE  ControlInv'
  BY <1>13, SMTT(30) DEF UnrefUnlock, EndUnref
<1>14. ASSUME NEW t \in Threads, UnrefUnset(t)
      PROVE  ControlInv'
  BY <1>14 DEF UnrefUnset
<1>15. ASSUME NEW t \in Threads, UnrefUnlockWeak(t)
      PROVE  ControlInv'
  BY <1>15, SMTT(30) DEF UnrefUnlockWeak, EndUnref
<1>16. ASSUME NEW t \in Threads, Destroy(t)
      PROVE  ControlInv'
  BY <1>16, ControlledDestroy
<1>17. ASSUME NEW t \in Threads, Clear(t)
      PROVE  ControlInv'
  BY <1>17, ControlledClear
<1>18. ASSUME NEW t \in Threads, ClearNull(t)
      PROVE  ControlInv'
  BY <1>18 DEF ClearNull, EndClear
<1>19. ASSUME NEW t \in Threads, Mark(t)
      PROVE  ControlInv'
  BY <1>19 DEF Mark
<1>20. ASSUME NEW t \in Threads, Free(t)
      PROVE  ControlInv'
  BY <1>20 DEF Free
<1>21. ASSUME NEW t \in Threads, WeakCheck(t)
      PROVE  ControlInv'
  BY <1>21 DEF WeakCheck
<1>22. ASSUME NEW t \in Threads, WeakLock(t)
      PROVE  ControlInv'
  BY <1>22 DEF WeakLock
<1>23. ASSUME NEW t \in Threads, WeakNew(t)
      PROVE  ControlInv'
  BY <1>23 DEF WeakNew, y_WeakRef_new
<1>24. ASSUME NEW t \in Threads, WeakUnlock(t)
      PROVE  ControlInv'
  BY <1>24 DEF WeakUnlock
<1>25. ASSUME NEW t \in Threads, WeakRefTail(t)
      PROVE  ControlInv'
  BY <1>25, ControlledWeakRefTail
<1>26. ASSUME NEW t \in Threads, DerefCheck(t)
      PROVE  ControlInv'
  BY <1>26, ControlledDerefCheck
<1>27. ASSUME NEW t \in Threads, DerefLock(t)
      PROVE  ControlInv'
  BY <1>27 DEF DerefLock
<1>28. ASSUME NEW t \in Threads, DerefUnlock(t)
      PROVE  ControlInv'
  BY <1>28 DEF DerefUnlock
<1>29. ASSUME NEW t \in Threads, NEW o \in Objects, CallRef(t, o)
      PROVE  ControlInv'
  BY <1>29 DEF CallRef, Call
<1>30. ASSUME NEW t \in Threads, NEW o \in Objects, CallUnref(t, o)
      PROVE  ControlInv'
  BY <1>30 DEF CallUnref, Call
<1>31. ASSUME NEW t \in Threads, NEW o \in Objects, ManualLock(t, o)
      PROVE  ControlInv'
  BY <1>31 DEF ManualLock
<1>32. ASSUME NEW t \in Threads, NEW o \in Objects, ManualUnlock(t, o)
      PROVE  ControlInv'
  BY <1>32 DEF ManualUnlock
<1>33. ASSUME NEW t \in Threads, NEW u \in Threads, NEW o \in Objects,
             Give(t, u, o)
      PROVE  ControlInv'
  BY <1>33 DEF Give
<1>34. ASSUME NEW t \in Threads, NEW o \in Referents, Create(t, o)
      PROVE  ControlInv'
  BY <1>34 DEF Create
<1>35. ASSUME NEW t \in Threads, NEW o \in Objects, CallWeakRef(t, o)
      PROVE  ControlInv'
  BY <1>35 DEF CallWeakRef, Call
<1>36. ASSUME NEW t \in Threads, NEW o \in Objects, CallClear(t, o)
      PROVE  ControlInv'
  BY <1>36 DEF CallClear, Call
<1>37. ASSUME NEW t \in Threads, NEW o \in Referents, NEW from \in Referents,
             CallAssign(t, o, from)
      PROVE  ControlInv'
  BY <1>37 DEF CallAssign, Call
<1>38. ASSUME NEW t \in Threads, NEW o \in Objects, CallDestroy(t, o)
      PROVE  ControlInv'
  BY <1>38 DEF CallDestroy, Call
<1>39. ASSUME NEW t \in Threads, NEW w \in WeakRefs, CallDeref(t, w)
      PROVE  ControlInv'
  BY <1>39 DEF CallDeref, Call
<1>40. CASE UNCHANGED vars
  BY <1>40 DEF vars
<1> HIDE
   DEF RefsInv, At, Goto, Return, y_lock, y_unlock, heapVars, localVars,
       TypeOK, ControlInv, WeakInv, ManualInv, AliveInv, KeptAlive, RefPcs,
       UnrefEarly, UnrefLate, DestroyPcs, WeakNewPcs, WeakPcs, DerefPcs,
       ClearOps, WeakRefLabels, Cleans, Objects
<1>41. ASSUME NEW t \in Threads, RefStep(t)
      PROVE  ControlInv'
  BY <1>1, <1>2, <1>3, <1>4, <1>5, <1>6, <1>7, <1>41 DEF RefStep
<1>42. ASSUME NEW t \in Threads, UnrefStep(t)
      PROVE  ControlInv'
  BY <1>8, <1>9, <1>10, <1>11, <1>12, <1>13, <1>14, <1>15, <1>42 DEF UnrefStep
<1>43. ASSUME NEW t \in Threads, DestroyStep(t)
      PROVE  ControlInv'
  BY <1>16, <1>17, <1>18, <1>19, <1>20, <1>43 DEF DestroyStep
<1>44. ASSUME NEW t \in Threads, WeakStep(t)
      PROVE  ControlInv'
  BY <1>21, <1>22, <1>23, <1>24, <1>25, <1>26, <1>27, <1>28, <1>44 DEF WeakStep
<1>45. ASSUME NEW t \in Threads, ClientStep(t)
      PROVE  ControlInv'
  BY <1>29, <1>30, <1>31, <1>32, <1>33, <1>34, <1>35, <1>36, <1>37, <1>38, <1>39,
     <1>45 DEF ClientStep
<1> QED
  BY <1>40, <1>41, <1>42, <1>43, <1>44, <1>45 DEF Next, Rest, Step

-----------------------------------------------------------------------------
(* ManualInv: clients own what they have locked.                           *)

(* UnrefLock preserves ManualInv.                                          *)
LEMMA ManualUnrefLock ==
  ASSUME RefsInv, Freedoms = {}, NEW t \in Threads, UnrefLock(t)
  PROVE  ManualInv'
<1>1. /\ TypeOK /\ locked' = locked /\ locked[t] = NULL
      /\ self[t] \in Objects /\ Releaser(t) \in Holders
  BY Released DEF UnrefLock, At, RefsInv, ControlInv, UnrefEarly
<1>2. \/ held' = held
      \/ held' = [held EXCEPT ![Releaser(t)][self[t]] = @ - 1]
  BY DEF UnrefLock
<1>3. ASSUME NEW u \in Threads, u # t
      PROVE  held'[u] = held[u]
  <2>1. u # Releaser(t)
    BY <1>1, <1>3, WaitingType, Kinds DEF Releaser
  <2> QED
    BY <1>1, <1>2, <2>1, Kinds DEF TypeOK
<1> QED
  BY <1>1, <1>3 DEF RefsInv, ManualInv

(* WeakNew preserves ManualInv.                                            *)
LEMMA ManualWeakNew ==
  ASSUME RefsInv, Freedoms = {}, NEW t \in Threads, WeakNew(t)
  PROVE  ManualInv'
<1>1. TypeOK /\ self[t] \in Objects /\ locked' = locked
  BY SelfType DEF WeakNew, At, RefsInv, localVars
<1>2. ASSUME NEW u \in Threads
      PROVE  held'[u] = held[u]
  BY <1>1, Kinds DEF WeakNew, y_WeakRef_new, heapVars, TypeOK
<1> QED
  BY <1>1, <1>2 DEF RefsInv, ManualInv

(* Give preserves ManualInv.                                               *)
LEMMA ManualGive ==
  ASSUME RefsInv, Freedoms = {}, NEW t \in Threads, NEW u \in Threads, NEW o \in Objects,
         Give(t, u, o)
  PROVE  ManualInv'
<1>1. TypeOK /\ locked' = locked /\ t \in Holders /\ u \in Holders
  BY Kinds DEF Give, RefsInv, localVars
<1>2. ASSUME NEW v \in Threads, locked[v] # NULL
      PROVE  held'[v][locked[v]] > 0
  <2>1. held[v][locked[v]] \in Nat \ {0} /\ locked[v] \in Objects /\ v \in Holders
    BY <1>1, <1>2, Kinds DEF RefsInv, ManualInv, TypeOK
  <2> DEFINE taken == [held EXCEPT ![t][o] = @ - 1]
  <2>2. held' = [taken EXCEPT ![u][o] = @ + 1]
    BY DEF Give
  <2>3. taken[v][locked[v]] = held[v][locked[v]]
    BY <1>1, <2>1 DEF Give, TypeOK
  <2>4. held'[v][locked[v]] \in {taken[v][locked[v]], taken[v][locked[v]] + 1}
    BY <1>1, <2>1, <2>2 DEF TypeOK
  <2> QED
    BY <2>1, <2>3, <2>4
<1> QED
  BY <1>1, <1>2 DEF ManualInv

(* Every step of clients that keep to the rules preserves ManualInv.       *)
LEMMA ManualStep ==
  ASSUME RefsInv, Freedoms = {}, [Next]_vars
  PROVE  ManualInv'
<1> USE RefsAssumption, Kinds
   DEF RefsInv, At, Goto, Return, heapVars, localVars, TypeOK, ControlInv,
       ManualInv, Uses
<1>1. ASSUME NEW t \in Threads, RefEnter(t)
      PROVE  ManualInv'
  BY <1>1 DEF RefEnter
<1>2. ASSUME NEW t \in Threads, RefCheck(t)
      PROVE  ManualInv'
  BY <1>2 DEF RefCheck
<1>3. ASSUME NEW t \in Threads, RefWeak(t)
      PROVE  ManualInv'
  BY <1>3 DEF RefWeak
<1>4. ASSUME NEW t \in Threads, RefLockWeak(t)
      PROVE  ManualInv'
  BY <1>4 DEF RefLockWeak
<1>5. ASSUME NEW t \in Threads, RefLock(t)
      PROVE  ManualInv'
  BY <1>5 DEF RefLock
<1>6. ASSUME NEW t \in Threads, RefUnlock(t)
      PROVE  ManualInv'
  BY <1>6 DEF RefUnlock
<1>7. ASSUME NEW t \in Threads, RefUnlockWeak(t)
      PROVE  ManualInv'
  BY <1>7 DEF RefUnlockWeak
<1>8. ASSUME NEW t \in Threads, UnrefEnter(t)
      PROVE  ManualInv'
  BY <1>8 DEF UnrefEnter
<1>9. ASSUME NEW t \in Threads, UnrefCheck(t)
      PROVE  ManualInv'
  BY <1>9 DEF UnrefCheck
<1>10. ASSUME NEW t \in Threads, UnrefWeak(t)
      PROVE  ManualInv'
  BY <1>10 DEF UnrefWeak
<1>11. ASSUME NEW t \in Threads, UnrefLockWeak(t)
      PROVE  ManualInv'
  BY <1>11 DEF UnrefLockWeak
<1>12. ASSUME NEW t \in Threads, UnrefLock(t)
      PROVE  ManualInv'
  BY <1>12, ManualUnrefLock
<1>13. ASSUME NEW t \in Threads, UnrefUnlock(t)
      PROVE  ManualInv'
  BY <1>13 DEF UnrefUnlock, EndUnref
<1>14. ASSUME NEW t \in Threads, UnrefUnset(t)
      PROVE  ManualInv'
  BY <1>14 DEF UnrefUnset
<1>15. ASSUME NEW t \in Threads, UnrefUnlockWeak(t)
      PROVE  ManualInv'
  BY <1>15 DEF UnrefUnlockWeak, EndUnref
<1>16. ASSUME NEW t \in Threads, Destroy(t)
      PROVE  ManualInv'
  BY <1>16 DEF Destroy
<1>17. ASSUME NEW t \in Threads, Clear(t)
      PROVE  ManualInv'
  BY <1>17 DEF Clear, EndClear
<1>18. ASSUME NEW t \in Threads, ClearNull(t)
      PROVE  ManualInv'
  BY <1>18 DEF ClearNull, EndClear
<1>19. ASSUME NEW t \in Threads, Mark(t)
      PROVE  ManualInv'
  BY <1>19 DEF Mark
<1>20. ASSUME NEW t \in Threads, Free(t)
      PROVE  ManualInv'
  BY <1>20 DEF Free
<1>21. ASSUME NEW t \in Threads, WeakCheck(t)
      PROVE  ManualInv'
  BY <1>21 DEF WeakCheck
<1>22. ASSUME NEW t \in Threads, WeakLock(t)
      PROVE  ManualInv'
  BY <1>22 DEF WeakLock
<1>23. ASSUME NEW t \in Threads, WeakNew(t)
      PROVE  ManualInv'
  BY <1>23, ManualWeakNew
<1>24. ASSUME NEW t \in Threads, WeakUnlock(t)
      PROVE  ManualInv'
  BY <1>24 DEF WeakUnlock
<1>25. ASSUME NEW t \in Threads, WeakRefTail(t)
      PROVE  ManualInv'
  BY <1>25 DEF WeakRefTail
<1>26. ASSUME NEW t \in Threads, DerefCheck(t)
      PROVE  ManualInv'
  BY <1>26 DEF DerefCheck
<1>27. ASSUME NEW t \in Threads, DerefLock(t)
      PROVE  ManualInv'
  BY <1>27 DEF DerefLock
<1>28. ASSUME NEW t \in Threads, DerefUnlock(t)
      PROVE  ManualInv'
  BY <1>28 DEF DerefUnlock
<1>29. ASSUME NEW t \in Threads, NEW o \in Objects, CallRef(t, o)
      PROVE  ManualInv'
  BY <1>29 DEF CallRef, Call
<1>30. ASSUME NEW t \in Threads, NEW o \in Objects, CallUnref(t, o)
      PROVE  ManualInv'
  BY <1>30 DEF CallUnref, Call
<1>31. ASSUME NEW t \in Threads, NEW o \in Objects, ManualLock(t, o)
      PROVE  ManualInv'
  BY <1>31 DEF ManualLock
<1>32. ASSUME NEW t \in Threads, NEW o \in Objects, ManualUnlock(t, o)
      PROVE  ManualInv'
  BY <1>32 DEF ManualUnlock
<1>33. ASSUME NEW t \in Threads, NEW u \in Threads, NEW o \in Objects,
             Give(t, u, o)
      PROVE  ManualInv'
  BY <1>33, ManualGive
<1>34. ASSUME NEW t \in Threads, NEW o \in Referents, Create(t, o)
      PROVE  ManualInv'
  BY <1>34 DEF Create
<1>35. ASSUME NEW t \in Threads, NEW o \in Objects, CallWeakRef(t, o)
      PROVE  ManualInv'
  BY <1>35 DEF CallWeakRef, Call
<1>36. ASSUME NEW t \in Threads, NEW o \in Objects, CallClear(t, o)
      PROVE  ManualInv'
  BY <1>36 DEF CallClear, Call
<1>37. ASSUME NEW t \in Threads, NEW o \in Referents, NEW from \in Referents,
             CallAssign(t, o, from)
      PROVE  ManualInv'
  BY <1>37 DEF CallAssign, Call
<1>38. ASSUME NEW t \in Threads, NEW o \in Objects, CallDestroy(t, o)
      PROVE  ManualInv'
  BY <1>38 DEF CallDestroy, Call
<1>39. ASSUME NEW t \in Threads, NEW w \in WeakRefs, CallDeref(t, w)
      PROVE  ManualInv'
  BY <1>39 DEF CallDeref, Call
<1>40. CASE UNCHANGED vars
  BY <1>40 DEF vars
<1> HIDE
   DEF RefsInv, At, Goto, Return, heapVars, localVars, TypeOK, ControlInv,
       ManualInv, Uses
<1>41. ASSUME NEW t \in Threads, RefStep(t)
      PROVE  ManualInv'
  BY <1>1, <1>2, <1>3, <1>4, <1>5, <1>6, <1>7, <1>41 DEF RefStep
<1>42. ASSUME NEW t \in Threads, UnrefStep(t)
      PROVE  ManualInv'
  BY <1>8, <1>9, <1>10, <1>11, <1>12, <1>13, <1>14, <1>15, <1>42 DEF UnrefStep
<1>43. ASSUME NEW t \in Threads, DestroyStep(t)
      PROVE  ManualInv'
  BY <1>16, <1>17, <1>18, <1>19, <1>20, <1>43 DEF DestroyStep
<1>44. ASSUME NEW t \in Threads, WeakStep(t)
      PROVE  ManualInv'
  BY <1>21, <1>22, <1>23, <1>24, <1>25, <1>26, <1>27, <1>28, <1>44 DEF WeakStep
<1>45. ASSUME NEW t \in Threads, ClientStep(t)
      PROVE  ManualInv'
  BY <1>29, <1>30, <1>31, <1>32, <1>33, <1>34, <1>35, <1>36, <1>37, <1>38, <1>39,
     <1>45 DEF ClientStep
<1> QED
  BY <1>40, <1>41, <1>42, <1>43, <1>44, <1>45 DEF Next, Rest, Step

-----------------------------------------------------------------------------
(* CountInv: the count is exact.                                           *)

(* The count of one object.                                                *)
Counted(o) ==
  /\ IsFiniteSet(Owners(o))
  /\ life[o] = "live" => refcount[o] = Cardinality(Owners(o))
  /\ life[o] # "live" => Unowned(o)

(* The invariant says this of every object.                                *)
LEMMA CountParts ==
  /\ CountInv <=> \A o \in Objects : Counted(o)
  /\ CountInv' <=> \A o \in Objects : Counted(o)'
  BY DEF CountInv, Counted

(* Nobody gains or loses a reference to o.                                 *)
LEMMA CountSame ==
  ASSUME TypeOK, CountInv, NEW o \in Objects,
         \A h \in Holders : held'[h][o] = held[h][o],
         \/ life'[o] = life[o] /\ refcount'[o] = refcount[o]
         \/ life'[o] # "live" /\ Unowned(o)
  PROVE  Counted(o)'
<1>1. Owners(o)' = Owners(o)
  BY DEF Owners
<1>2. Unowned(o)' <=> Unowned(o)
  BY DEF Unowned
<1>3. Counted(o)
  BY CountParts
<1> QED
  BY <1>1, <1>2, <1>3 DEF Counted

(* One holder gains a reference to o, which is counted.                    *)
LEMMA CountGain ==
  ASSUME TypeOK, CountInv, NEW o \in Objects, NEW h \in Holders,
         \A g \in Holders : held'[g][o] = IF g = h THEN held[g][o] + 1 ELSE held[g][o],
         life[o] = "live", life'[o] = "live", refcount'[o] = refcount[o] + 1
  PROVE  Counted(o)'
<1>1. Share(o) \in [Holders -> Nat] /\ Share(o)' = [Share(o) EXCEPT ![h] = @ + 1]
  BY DEF Share, TypeOK
<1>2. Owners(o) = Tally(Share(o)) /\ Owners(o)' = Tally(Share(o)')
  BY OwnersTally
<1>3. IsFiniteSet(Tally(Share(o))) /\ refcount[o] = Cardinality(Tally(Share(o)))
  BY <1>2 DEF CountInv
<1>4. /\ IsFiniteSet(Tally(Share(o)'))
      /\ Cardinality(Tally(Share(o)')) = Cardinality(Tally(Share(o))) + 1
  BY <1>1, <1>3, TallyGain
<1> QED
  BY <1>2, <1>3, <1>4 DEF Counted

(* One holder gives a reference to o up, which is counted.                 *)
LEMMA CountLose ==
  ASSUME TypeOK, CountInv, NEW o \in Objects, NEW h \in Holders, held[h][o] > 0,
         \A g \in Holders : held'[g][o] = IF g = h THEN held[g][o] - 1 ELSE held[g][o],
         life[o] = "live", life'[o] = "live", refcount'[o] = refcount[o] - 1
  PROVE  Counted(o)'
<1>1. /\ Share(o) \in [Holders -> Nat] /\ Share(o)' = [Share(o) EXCEPT ![h] = @ - 1]
      /\ Share(o)[h] > 0
  BY DEF Share, TypeOK
<1>2. Owners(o) = Tally(Share(o)) /\ Owners(o)' = Tally(Share(o)')
  BY OwnersTally
<1>3. IsFiniteSet(Tally(Share(o))) /\ refcount[o] = Cardinality(Tally(Share(o)))
  BY <1>2 DEF CountInv
<1>4. /\ IsFiniteSet(Tally(Share(o)'))
      /\ Cardinality(Tally(Share(o)')) = Cardinality(Tally(Share(o))) - 1
  BY <1>1, <1>3, TallyLose
<1> QED
  BY <1>2, <1>3, <1>4 DEF Counted

(* A new object has one owner.                                             *)
LEMMA CountNew ==
  ASSUME TypeOK, CountInv, NEW o \in Objects, NEW h \in Holders, life[o] = "unborn",
         \A g \in Holders : held'[g][o] = IF g = h THEN 1 ELSE held[g][o],
         life'[o] = "live", refcount'[o] = 1
  PROVE  Counted(o)'
<1>1. \A g \in Holders : held[g][o] = 0
  BY DEF CountInv, Unowned
<1>2. /\ Share(o) \in [Holders -> Nat] /\ Share(o)' = [Share(o) EXCEPT ![h] = @ + 1]
      /\ \A g \in Holders : Share(o)[g] = 0
  <2>1. /\ Share(o) \in [Holders -> Nat]
        /\ \A g \in Holders : Share(o)[g] = 0
    BY <1>1 DEF Share, TypeOK
  <2>2. \A g \in Holders : Share(o)'[g] = IF g = h THEN 1 ELSE 0
    BY <1>1 DEF Share
  <2>3. Share(o)' = [g \in Holders |-> Share(o)'[g]]
    BY DEF Share
  <2> DEFINE one == [g \in Holders |-> IF g = h THEN 1 ELSE 0]
  <2>4. Share(o)' = one
    BY <2>2, <2>3
  <2>5. ASSUME NEW f \in [Holders -> Nat], \A g \in Holders : f[g] = 0
        PROVE  [f EXCEPT ![h] = @ + 1] = one
    <3>1. [f EXCEPT ![h] = @ + 1] = [g \in Holders |-> IF g = h THEN f[h] + 1 ELSE f[g]]
      OBVIOUS
    <3> QED
      BY <2>5, <3>1
  <2> QED
    BY <2>1, <2>4, <2>5
<1>3. Owners(o) = Tally(Share(o)) /\ Owners(o)' = Tally(Share(o)')
  BY OwnersTally
<1>4. Tally(Share(o)) = {}
  BY <1>2, TallyEmpty
<1>5. IsFiniteSet(Tally(Share(o))) /\ Cardinality(Tally(Share(o))) = 0
  BY <1>4, FS_EmptySet
<1>6. /\ IsFiniteSet(Tally(Share(o)'))
      /\ Cardinality(Tally(Share(o)')) = Cardinality(Tally(Share(o))) + 1
  BY <1>2, <1>5, TallyGain
<1> QED
  BY <1>3, <1>5, <1>6 DEF Counted

(* An object that nobody owns any more needs no count.                     *)
LEMMA CountNone ==
  ASSUME NEW o \in Objects, \A h \in Holders : held'[h][o] = 0, life'[o] # "live"
  PROVE  Counted(o)'
<1>1. Owners(o)' = {}
  BY DEF Owners
<1>2. IsFiniteSet(Owners(o)')
  BY <1>1, FS_EmptySet
<1>3. Unowned(o)'
  BY DEF Unowned
<1> QED
  BY <1>2, <1>3 DEF Counted

(* No reference is made or given up, and none is counted.                  *)
LEMMA CountKept ==
  ASSUME CountInv, UNCHANGED <<life, refcount, held>>
  PROVE  CountInv'
  BY DEF CountInv, Owners, Unowned

(* RefLock preserves CountInv.                                             *)
LEMMA CountRefLock ==
  ASSUME RefsInv, Freedoms = {}, NEW t \in Threads, RefLock(t)
  PROVE  CountInv'
<1>1. TypeOK /\ CountInv /\ self[t] \in Objects /\ t \in Holders /\ life[self[t]] = "live"
  BY SelfLive, Kinds DEF RefLock, At, RefsInv
<1>2. refcount[self[t]] \in Nat \ {0}
  BY <1>1, RefOwned, Owned DEF RefLock, At, RefPcs, RefsInv
<1>3. /\ \A h \in Holders, p \in Objects :
           held'[h][p] = IF h = t /\ p = self[t] THEN held[h][p] + 1 ELSE held[h][p]
      /\ \A p \in Objects : refcount'[p] = IF p = self[t] THEN refcount[p] + 1 ELSE refcount[p]
      /\ life' = life
  BY <1>1, <1>2 DEF RefLock, TypeOK
<1>4. ASSUME NEW p \in Objects
      PROVE  Counted(p)'
  <2>1. CASE p = self[t]
    BY <1>1, <1>3, <2>1, CountGain
  <2>2. CASE p # self[t]
    BY <1>1, <1>3, <2>2, CountSame
  <2> QED
    BY <2>1, <2>2
<1> QED
  BY <1>4, CountParts

(* UnrefLock preserves CountInv.                                           *)
LEMMA CountUnrefLock ==
  ASSUME RefsInv, Freedoms = {}, NEW t \in Threads, UnrefLock(t)
  PROVE  CountInv'
<1>1. /\ TypeOK /\ CountInv /\ self[t] \in Objects /\ life[self[t]] = "live"
      /\ Releaser(t) \in Holders /\ held[Releaser(t)][self[t]] \in Nat \ {0}
      /\ refcount[self[t]] \in Nat \ {0}
  BY SelfLive, Released, Owned DEF UnrefLock, At, RefsInv, UnrefEarly
<1>2. /\ \A h \in Holders, p \in Objects :
           held'[h][p] = IF h = Releaser(t) /\ p = self[t] THEN held[h][p] - 1
                                                           ELSE held[h][p]
      /\ \A p \in Objects : refcount'[p] = IF p = self[t] THEN refcount[p] - 1 ELSE refcount[p]
      /\ life' = life
  BY <1>1 DEF UnrefLock, TypeOK
<1>3. ASSUME NEW p \in Objects
      PROVE  Counted(p)'
  <2>1. CASE p = self[t]
    BY <1>1, <1>2, <2>1, CountLose
  <2>2. CASE p # self[t]
    BY <1>1, <1>2, <2>2, CountSame
  <2> QED
    BY <2>1, <2>2
<1> QED
  BY <1>3, CountParts

(* Mark preserves CountInv.                                                *)
LEMMA CountMark ==
  ASSUME RefsInv, Freedoms = {}, NEW t \in Threads, Mark(t)
  PROVE  CountInv'
<1>1. /\ TypeOK /\ CountInv /\ self[t] \in Objects /\ Cleans(t, self[t])
      /\ op[t] = "destroy" => outer[t] = <<>>
  BY SelfType DEF Mark, At, RefsInv, ControlInv, Cleans, DestroyPcs, ClearOps
<1>2. /\ \A p \in Objects : life'[p] = IF p = self[t] THEN "deleted" ELSE life[p]
      /\ \A h \in Holders, p \in Objects :
           held'[h][p] = IF op[t] = "destroy" /\ h = t /\ p = self[t] THEN 0 ELSE held[h][p]
      /\ refcount' = refcount
  BY <1>1, Kinds DEF Mark, TypeOK
<1>3. \A h \in Holders : held'[h][self[t]] = 0
  <2>1. CASE op[t] = "destroy"
    <3>1. SoleUser(t, self[t])
      BY <1>1, <2>1 DEF RefsInv, AliveInv, KeptAlive
    <3> QED
      BY <1>1, <1>2, <2>1, <3>1 DEF SoleUser
  <2>2. CASE op[t] # "destroy"
    <3>1. Unowned(self[t])
      BY <1>1, <2>2 DEF RefsInv, AliveInv, KeptAlive
    <3> QED
      BY <1>1, <1>2, <2>2, <3>1 DEF Unowned
  <2> QED
    BY <2>1, <2>2
<1>4. ASSUME NEW p \in Objects
      PROVE  Counted(p)'
  <2>1. CASE p = self[t]
    BY <1>1, <1>2, <1>3, <2>1, CountNone
  <2>2. CASE p # self[t]
    BY <1>1, <1>2, <2>2, CountSame
  <2> QED
    BY <2>1, <2>2
<1> QED
  BY <1>4, CountParts

(* Free preserves CountInv.                                                *)
LEMMA CountFree ==
  ASSUME RefsInv, Freedoms = {}, NEW t \in Threads, Free(t)
  PROVE  CountInv'
<1>1. TypeOK /\ CountInv /\ self[t] \in Objects /\ Cleans(t, self[t])
  BY SelfType DEF Free, At, RefsInv, ControlInv, Cleans, DestroyPcs, ClearOps
<1>2. /\ \A p \in Objects : life'[p] = IF p = self[t] THEN "freed" ELSE life[p]
      /\ UNCHANGED <<refcount, held>>
  BY <1>1 DEF Free, TypeOK
<1>3. life[self[t]] = "deleted"
  BY <1>1 DEF Free, At, RefsInv, AliveInv, KeptAlive
<1>4. Unowned(self[t])
  BY <1>1, <1>3 DEF CountInv
<1>5. ASSUME NEW p \in Objects
      PROVE  Counted(p)'
  BY <1>1, <1>2, <1>4, CountSame
<1> QED
  BY <1>5, CountParts

(* WeakNew preserves CountInv.                                             *)
LEMMA CountWeakNew ==
  ASSUME RefsInv, Freedoms = {}, NEW t \in Threads, WeakNew(t)
  PROVE  CountInv'
<1>1. TypeOK /\ CountInv /\ self[t] \in Objects /\ self[t] \in Holders
  BY SelfType, Kinds DEF WeakNew, At, RefsInv
<1>2. CASE UNCHANGED heapVars
  BY <1>1, <1>2, CountSame, CountParts DEF heapVars
<1>3. CASE \E w \in WeakRefs : y_WeakRef_new(self[t], w)
  <2>1. PICK w \in WeakRefs : y_WeakRef_new(self[t], w)
    BY <1>3
  <2>2. w \in Objects /\ life[w] = "unborn" /\ held[self[t]][w] = 0
    BY <1>1, <2>1, UnbornUnused, Kinds DEF y_WeakRef_new
  <2>3. /\ \A h \in Holders, p \in Objects :
             held'[h][p] = IF h = self[t] /\ p = w THEN 1 ELSE held[h][p]
        /\ \A p \in Objects : /\ refcount'[p] = IF p = w THEN 1 ELSE refcount[p]
                              /\ life'[p] = IF p = w THEN "live" ELSE life[p]
    BY <1>1, <2>1, <2>2 DEF y_WeakRef_new, TypeOK
  <2>4. ASSUME NEW p \in Objects
        PROVE  Counted(p)'
    <3>1. CASE p = w
      BY <1>1, <2>2, <2>3, <3>1, CountNew
    <3>2. CASE p # w
      BY <1>1, <2>3, <3>2, CountSame
    <3> QED
      BY <3>1, <3>2
  <2> QED
    BY <2>4, CountParts
<1> QED
  BY <1>2, <1>3 DEF WeakNew

(* Create preserves CountInv.                                              *)
LEMMA CountCreate ==
  ASSUME RefsInv, Freedoms = {}, NEW t \in Threads, NEW o \in Referents,
         Create(t, o)
  PROVE  CountInv'
<1>1. TypeOK /\ CountInv /\ t \in Holders /\ o \in Objects /\ life[o] = "unborn"
  BY Kinds DEF Create, RefsInv
<1>2. /\ \A h \in Holders, p \in Objects :
           held'[h][p] = IF h = t /\ p = o THEN 1 ELSE held[h][p]
      /\ \A p \in Objects : /\ refcount'[p] = IF p = o THEN 1 ELSE refcount[p]
                            /\ life'[p] = IF p = o THEN "live" ELSE life[p]
  BY <1>1 DEF Create, TypeOK
<1>3. ASSUME NEW p \in Objects
      PROVE  Counted(p)'
  <2>1. CASE p = o
    BY <1>1, <1>2, <2>1, CountNew
  <2>2. CASE p # o
    BY <1>1, <1>2, <2>2, CountSame
  <2> QED
    BY <2>1, <2>2
<1> QED
  BY <1>3, CountParts

(* Give preserves CountInv.                                                *)
LEMMA CountGive ==
  ASSUME RefsInv, Freedoms = {}, NEW t \in Threads, NEW u \in Threads, NEW o \in Objects,
         Give(t, u, o)
  PROVE  CountInv'
<1>1. /\ TypeOK /\ CountInv /\ t \in Holders /\ u \in Holders /\ t # u
      /\ held[t][o] \in Nat \ {0} /\ UNCHANGED <<life, refcount>>
  BY Kinds, SMTT(30) DEF Give, Uses, RefsInv, TypeOK
<1> DEFINE taken == [Share(o) EXCEPT ![t] = @ - 1]
<1>2. /\ \A h \in Holders, p \in Objects : p # o => held'[h][p] = held[h][p]
      /\ \A h \in Holders :
           held'[h][o] = IF h = t THEN held[h][o] - 1
                         ELSE IF h = u THEN held[h][o] + 1 ELSE held[h][o]
  BY <1>1 DEF Give, TypeOK
<1>3. /\ Share(o) \in [Holders -> Nat] /\ Share(o)[t] > 0
      /\ taken \in [Holders -> Nat]
      /\ Share(o)' = [taken EXCEPT ![u] = @ + 1]
  <2>1. Share(o) \in [Holders -> Nat] /\ Share(o)[t] > 0
    BY <1>1 DEF Share, TypeOK
  <2>2. /\ taken \in [Holders -> Nat]
        /\ \A h \in Holders :
             taken[h] = IF h = t THEN held[t][o] - 1 ELSE held[h][o]
    BY <1>1, <2>1 DEF Share, TypeOK
  <2>3. /\ Share(o)' = [h \in Holders |-> Share(o)'[h]]
        /\ \A h \in Holders : Share(o)'[h] = held'[h][o]
    BY DEF Share
  <2> HIDE DEF taken
  <2>4. \A h \in Holders : Share(o)'[h] = IF h = u THEN taken[h] + 1 ELSE taken[h]
    BY <1>1, <1>2, <2>2, <2>3
  <2>5. Share(o)' = [taken EXCEPT ![u] = @ + 1]
    BY <2>2, <2>3, <2>4
  <2> QED
    BY <2>1, <2>2, <2>5
<1>4. Owners(o) = Tally(Share(o)) /\ Owners(o)' = Tally(Share(o)')
  BY OwnersTally
<1>5. /\ IsFiniteSet(Tally(Share(o))) /\ life[o] = "live"
      /\ refcount[o] = Cardinality(Tally(Share(o)))
  BY <1>1, <1>4 DEF CountInv, Unowned
<1>6. /\ IsFiniteSet(Tally(taken))
      /\ Cardinality(Tally(taken)) = Cardinality(Tally(Share(o))) - 1
  BY <1>1, <1>3, <1>5, TallyLose
<1>7. /\ IsFiniteSet(Tally(Share(o)'))
      /\ Cardinality(Tally(Share(o)')) = Cardinality(Tally(taken)) + 1
  <2> HIDE DEF taken
  <2> QED
    BY <1>1, <1>3, <1>6, TallyGain
<1>8. Counted(o)'
  <2>1. Cardinality(Tally(Share(o))) \in Nat
    BY <1>5, FS_CardinalityType
  <2> QED
    BY <1>1, <1>4, <1>5, <1>6, <1>7, <2>1 DEF Counted
<1>9. ASSUME NEW p \in Objects, p # o
      PROVE  Counted(p)'
  BY <1>1, <1>2, <1>9, CountSame
<1> QED
  BY <1>8, <1>9, CountParts

(* Every step of clients that keep to the rules preserves CountInv.        *)
LEMMA CountStep ==
  ASSUME RefsInv, Freedoms = {}, [Next]_vars
  PROVE  CountInv'
<1>1. ASSUME NEW t \in Threads, RefEnter(t)
      PROVE  CountInv'
  BY <1>1, CountKept DEF RefsInv, heapVars, RefEnter
<1>2. ASSUME NEW t \in Threads, RefCheck(t)
      PROVE  CountInv'
  BY <1>2, CountKept DEF RefsInv, heapVars, RefCheck
<1>3. ASSUME NEW t \in Threads, RefWeak(t)
      PROVE  CountInv'
  BY <1>3, CountKept DEF RefsInv, heapVars, RefWeak
<1>4. ASSUME NEW t \in Threads, RefLockWeak(t)
      PROVE  CountInv'
  BY <1>4, CountKept DEF RefsInv, heapVars, RefLockWeak
<1>5. ASSUME NEW t \in Threads, RefLock(t)
      PROVE  CountInv'
  BY <1>5, CountRefLock
<1>6. ASSUME NEW t \in Threads, RefUnlock(t)
      PROVE  CountInv'
  BY <1>6, CountKept DEF RefsInv, heapVars, RefUnlock
<1>7. ASSUME NEW t \in Threads, RefUnlockWeak(t)
      PROVE  CountInv'
  BY <1>7, CountKept DEF RefsInv, heapVars, RefUnlockWeak
<1>8. ASSUME NEW t \in Threads, UnrefEnter(t)
      PROVE  CountInv'
  BY <1>8, CountKept DEF RefsInv, heapVars, UnrefEnter
<1>9. ASSUME NEW t \in Threads, UnrefCheck(t)
      PROVE  CountInv'
  BY <1>9, CountKept DEF RefsInv, heapVars, UnrefCheck
<1>10. ASSUME NEW t \in Threads, UnrefWeak(t)
      PROVE  CountInv'
  BY <1>10, CountKept DEF RefsInv, heapVars, UnrefWeak
<1>11. ASSUME NEW t \in Threads, UnrefLockWeak(t)
      PROVE  CountInv'
  BY <1>11, CountKept DEF RefsInv, heapVars, UnrefLockWeak
<1>12. ASSUME NEW t \in Threads, UnrefLock(t)
      PROVE  CountInv'
  BY <1>12, CountUnrefLock
<1>13. ASSUME NEW t \in Threads, UnrefUnlock(t)
      PROVE  CountInv'
  BY <1>13, CountKept DEF RefsInv, heapVars, UnrefUnlock, EndUnref
<1>14. ASSUME NEW t \in Threads, UnrefUnset(t)
      PROVE  CountInv'
  BY <1>14, CountKept DEF RefsInv, heapVars, UnrefUnset
<1>15. ASSUME NEW t \in Threads, UnrefUnlockWeak(t)
      PROVE  CountInv'
  BY <1>15, CountKept DEF RefsInv, heapVars, UnrefUnlockWeak, EndUnref
<1>16. ASSUME NEW t \in Threads, Destroy(t)
      PROVE  CountInv'
  BY <1>16, CountKept DEF RefsInv, heapVars, Destroy
<1>17. ASSUME NEW t \in Threads, Clear(t)
      PROVE  CountInv'
  BY <1>17, CountKept DEF RefsInv, heapVars, Clear, EndClear
<1>18. ASSUME NEW t \in Threads, ClearNull(t)
      PROVE  CountInv'
  BY <1>18, CountKept DEF RefsInv, heapVars, ClearNull, EndClear
<1>19. ASSUME NEW t \in Threads, Mark(t)
      PROVE  CountInv'
  BY <1>19, CountMark
<1>20. ASSUME NEW t \in Threads, Free(t)
      PROVE  CountInv'
  BY <1>20, CountFree
<1>21. ASSUME NEW t \in Threads, WeakCheck(t)
      PROVE  CountInv'
  BY <1>21, CountKept DEF RefsInv, heapVars, WeakCheck
<1>22. ASSUME NEW t \in Threads, WeakLock(t)
      PROVE  CountInv'
  BY <1>22, CountKept DEF RefsInv, heapVars, WeakLock
<1>23. ASSUME NEW t \in Threads, WeakNew(t)
      PROVE  CountInv'
  BY <1>23, CountWeakNew
<1>24. ASSUME NEW t \in Threads, WeakUnlock(t)
      PROVE  CountInv'
  BY <1>24, CountKept DEF RefsInv, heapVars, WeakUnlock
<1>25. ASSUME NEW t \in Threads, WeakRefTail(t)
      PROVE  CountInv'
  BY <1>25, CountKept DEF RefsInv, heapVars, WeakRefTail
<1>26. ASSUME NEW t \in Threads, DerefCheck(t)
      PROVE  CountInv'
  BY <1>26, CountKept DEF RefsInv, heapVars, DerefCheck
<1>27. ASSUME NEW t \in Threads, DerefLock(t)
      PROVE  CountInv'
  BY <1>27, CountKept DEF RefsInv, heapVars, DerefLock
<1>28. ASSUME NEW t \in Threads, DerefUnlock(t)
      PROVE  CountInv'
  BY <1>28, CountKept DEF RefsInv, heapVars, DerefUnlock
<1>29. ASSUME NEW t \in Threads, NEW o \in Objects, CallRef(t, o)
      PROVE  CountInv'
  BY <1>29, CountKept DEF RefsInv, heapVars, CallRef, Call
<1>30. ASSUME NEW t \in Threads, NEW o \in Objects, CallUnref(t, o)
      PROVE  CountInv'
  BY <1>30, CountKept DEF RefsInv, heapVars, CallUnref, Call
<1>31. ASSUME NEW t \in Threads, NEW o \in Objects, ManualLock(t, o)
      PROVE  CountInv'
  BY <1>31, CountKept DEF RefsInv, heapVars, ManualLock
<1>32. ASSUME NEW t \in Threads, NEW o \in Objects, ManualUnlock(t, o)
      PROVE  CountInv'
  BY <1>32, CountKept DEF RefsInv, heapVars, ManualUnlock
<1>33. ASSUME NEW t \in Threads, NEW u \in Threads, NEW o \in Objects,
             Give(t, u, o)
      PROVE  CountInv'
  BY <1>33, CountGive
<1>34. ASSUME NEW t \in Threads, NEW o \in Referents, Create(t, o)
      PROVE  CountInv'
  BY <1>34, CountCreate
<1>35. ASSUME NEW t \in Threads, NEW o \in Objects, CallWeakRef(t, o)
      PROVE  CountInv'
  BY <1>35, CountKept DEF RefsInv, heapVars, CallWeakRef, Call
<1>36. ASSUME NEW t \in Threads, NEW o \in Objects, CallClear(t, o)
      PROVE  CountInv'
  BY <1>36, CountKept DEF RefsInv, heapVars, CallClear, Call
<1>37. ASSUME NEW t \in Threads, NEW o \in Referents, NEW from \in Referents,
             CallAssign(t, o, from)
      PROVE  CountInv'
  BY <1>37, CountKept DEF RefsInv, heapVars, CallAssign, Call
<1>38. ASSUME NEW t \in Threads, NEW o \in Objects, CallDestroy(t, o)
      PROVE  CountInv'
  BY <1>38, CountKept DEF RefsInv, heapVars, CallDestroy, Call
<1>39. ASSUME NEW t \in Threads, NEW w \in WeakRefs, CallDeref(t, w)
      PROVE  CountInv'
  BY <1>39, CountKept DEF RefsInv, heapVars, CallDeref, Call
<1>40. CASE UNCHANGED vars
  BY <1>40, CountKept DEF RefsInv, heapVars, vars
<1>41. ASSUME NEW t \in Threads, RefStep(t)
      PROVE  CountInv'
  BY <1>1, <1>2, <1>3, <1>4, <1>5, <1>6, <1>7, <1>41 DEF RefStep
<1>42. ASSUME NEW t \in Threads, UnrefStep(t)
      PROVE  CountInv'
  BY <1>8, <1>9, <1>10, <1>11, <1>12, <1>13, <1>14, <1>15, <1>42 DEF UnrefStep
<1>43. ASSUME NEW t \in Threads, DestroyStep(t)
      PROVE  CountInv'
  BY <1>16, <1>17, <1>18, <1>19, <1>20, <1>43 DEF DestroyStep
<1>44. ASSUME NEW t \in Threads, WeakStep(t)
      PROVE  CountInv'
  BY <1>21, <1>22, <1>23, <1>24, <1>25, <1>26, <1>27, <1>28, <1>44 DEF WeakStep
<1>45. ASSUME NEW t \in Threads, ClientStep(t)
      PROVE  CountInv'
  BY <1>29, <1>30, <1>31, <1>32, <1>33, <1>34, <1>35, <1>36, <1>37, <1>38, <1>39,
     <1>45 DEF ClientStep
<1> QED
  BY <1>40, <1>41, <1>42, <1>43, <1>44, <1>45 DEF Next, Rest, Step

-----------------------------------------------------------------------------
(* WeakInv: objects own their weak references.                             *)

(* A step by t that changes no weak reference, no reference that an object *)
(* owns, and for which it makes no difference what t has dropped.          *)
LEMMA StillWeak ==
  ASSUME RefsInv, NEW t \in Threads, Step(t), weak_ref' = weak_ref,
         \A w \in WeakRefs : target'[w] \in {target[w], NULL},
         \A o \in Objects : life'[o] = life[o] \/
           (life'[o] # "unborn" /\ \A w \in WeakRefs : target[w] # o),
         \A o \in Objects :
           held'[o] = held[o] /\ (Dropped(t, o)' <=> Dropped(t, o))
  PROVE  WeakInv'
<1>1. WeakInv
  BY DEF RefsInv
<1>2. ASSUME NEW o \in Objects
      PROVE  (\E u \in Threads : Dropped(u, o)') <=> \E u \in Threads : Dropped(u, o)
  <2>1. ASSUME NEW u \in Threads
        PROVE  Dropped(u, o)' <=> Dropped(u, o)
    <3>1. CASE u # t
      BY <3>1, StepFrame DEF RefsInv, SameThread, Dropped, Waiting
    <3> QED
      BY <3>1
  <2> QED
    BY <2>1
<1>3. ASSUME NEW o \in Objects
      PROVE  /\ \A p \in Objects : held'[o][p] > 0 => p \in WeakRefs
             /\ \A w \in WeakRefs :
                  held'[o][w] = IF weak_ref'[o] = w /\ ~ \E u \in Threads : Dropped(u, o)'
                                THEN 1 ELSE 0
  BY <1>1, <1>2 DEF WeakInv
<1>4. ASSUME NEW o \in Objects, weak_ref'[o] # NULL
      PROVE  life'[o] # "unborn" /\ life'[weak_ref'[o]] # "unborn"
  <2>1. weak_ref[o] \in Objects /\ o \in Objects
    BY <1>4, Kinds DEF RefsInv, TypeOK
  <2> QED
    BY <1>1, <1>4, <2>1 DEF WeakInv
<1>5. ASSUME NEW w \in WeakRefs, target'[w] # NULL
      PROVE  life'[target'[w]] = "live" /\ weak_ref'[target'[w]] = w
  <2>1. target'[w] = target[w] /\ target[w] \in Objects
    BY <1>5, Kinds DEF RefsInv, TypeOK
  <2> QED
    BY <1>1, <1>5, <2>1 DEF WeakInv
<1> QED
  BY <1>3, <1>4, <1>5 DEF WeakInv

(* Outside y_unref and y_destroy a thread drops nothing.                   *)
LEMMA NothingDropped ==
  ASSUME RefsInv, NEW t \in Threads, pc[t] \in RefPcs \cup WeakPcs \cup DerefPcs,
         outer'[t] = <<>>, pc'[t] # "clear_null"
  PROVE  \A o \in Objects : ~Dropped(t, o) /\ ~Dropped(t, o)'
<1>1. pc[t] # "clear_null" /\ outer[t] = <<>>
  BY NoOuter DEF RefPcs, WeakPcs, WeakNewPcs, DerefPcs
<1>2. \A o : o \notin Waiting(t) /\ o \notin Waiting(t)'
  BY <1>1 DEF Waiting
<1> QED
  BY <1>1, <1>2 DEF Dropped

(* The y_unref on the weak reference returns to y_Object_clear.            *)
LEMMA ReturnDropped ==
  ASSUME TypeOK, StackInv, NEW t \in Threads, Return(t),
         pc[t] \notin UnrefEarly \cup {"clear_null"}
  PROVE  \A o \in Objects : Dropped(t, o)' <=> Dropped(t, o)
<1>1. CASE outer[t] = <<>>
  <2>1. outer'[t] = <<>> /\ pc'[t] = "idle"
    BY <1>1, Returned
  <2>2. \A o : o \notin Waiting(t) /\ o \notin Waiting(t)'
    BY <1>1, <2>1 DEF Waiting
  <2> QED
    BY <2>1, <2>2 DEF Dropped
<1>2. CASE outer[t] # <<>>
  <2>1. /\ pc'[t] = "clear_null" /\ self'[t] = Head(outer[t])
        /\ outer'[t] = Tail(outer[t])
    BY <1>2, Returned
  <2>2. /\ \A o : o \in Waiting(t)' <=> o # Head(outer[t]) /\ o \in Waiting(t)
        /\ Head(outer[t]) \in Waiting(t)
    BY <1>2, <2>1, Popped, WaitingType
  <2> QED
    BY <2>1, <2>2 DEF Dropped, UnrefEarly
<1> QED
  BY <1>1, <1>2

(* RefCheck preserves WeakInv.                                             *)
LEMMA WeakInvRefCheck ==
  ASSUME RefsInv, Freedoms = {}, NEW t \in Threads, RefCheck(t)
  PROVE  WeakInv'
<1>1. TypeOK /\ Step(t) /\ UNCHANGED heapVars /\ outer[t] = <<>>
  BY NoOuter DEF RefCheck, RefsInv, At, Step, RefStep, RefPcs
<1>2. outer'[t] = <<>> /\ pc'[t] # "clear_null"
  BY <1>1, Returned DEF RefCheck, Goto, localVars, TypeOK
<1> QED
  BY <1>1, <1>2, NothingDropped, StillWeak DEF RefCheck, At, RefPcs, heapVars

(* RefUnlock preserves WeakInv.                                            *)
LEMMA WeakInvRefUnlock ==
  ASSUME RefsInv, Freedoms = {}, NEW t \in Threads, RefUnlock(t)
  PROVE  WeakInv'
<1>1. TypeOK /\ Step(t) /\ UNCHANGED heapVars /\ outer[t] = <<>>
  BY NoOuter DEF RefUnlock, RefsInv, At, Step, RefStep, RefPcs
<1>2. outer'[t] = <<>> /\ pc'[t] # "clear_null"
  BY <1>1, Returned DEF RefUnlock, Goto, localVars, TypeOK
<1> QED
  BY <1>1, <1>2, NothingDropped, StillWeak DEF RefUnlock, At, RefPcs, heapVars

(* WeakRefTail preserves WeakInv.                                          *)
LEMMA WeakInvWeakRefTail ==
  ASSUME RefsInv, Freedoms = {}, NEW t \in Threads, WeakRefTail(t)
  PROVE  WeakInv'
<1>1. TypeOK /\ Step(t) /\ UNCHANGED heapVars /\ outer[t] = <<>>
  BY NoOuter DEF WeakRefTail, RefsInv, At, Step, WeakStep, WeakPcs
<1>2. outer'[t] = <<>> /\ pc'[t] # "clear_null"
  BY <1>1, Returned DEF WeakRefTail, Goto, localVars, TypeOK
<1> QED
  BY <1>1, <1>2, NothingDropped, StillWeak
     DEF WeakRefTail, At, WeakPcs, heapVars

(* DerefCheck preserves WeakInv.                                           *)
LEMMA WeakInvDerefCheck ==
  ASSUME RefsInv, Freedoms = {}, NEW t \in Threads, DerefCheck(t)
  PROVE  WeakInv'
<1>1. TypeOK /\ Step(t) /\ UNCHANGED heapVars /\ outer[t] = <<>>
  BY NoOuter DEF DerefCheck, RefsInv, At, Step, WeakStep, DerefPcs
<1>2. outer'[t] = <<>> /\ pc'[t] # "clear_null"
  BY <1>1, Returned DEF DerefCheck, Goto, localVars, TypeOK
<1> QED
  BY <1>1, <1>2, NothingDropped, StillWeak
     DEF DerefCheck, At, DerefPcs, heapVars

(* DerefLock preserves WeakInv.                                            *)
LEMMA WeakInvDerefLock ==
  ASSUME RefsInv, Freedoms = {}, NEW t \in Threads, DerefLock(t)
  PROVE  WeakInv'
<1>1. TypeOK /\ Step(t) /\ UNCHANGED heapVars /\ outer[t] = <<>>
  BY NoOuter DEF DerefLock, RefsInv, At, Step, WeakStep, DerefPcs
<1>2. outer'[t] = <<>> /\ pc'[t] # "clear_null"
  BY <1>1 DEF DerefLock, Goto, localVars, TypeOK
<1> QED
  BY <1>1, <1>2, NothingDropped, StillWeak
     DEF DerefLock, At, DerefPcs, heapVars

(* DerefUnlock preserves WeakInv.                                          *)
LEMMA WeakInvDerefUnlock ==
  ASSUME RefsInv, Freedoms = {}, NEW t \in Threads, DerefUnlock(t)
  PROVE  WeakInv'
<1>1. TypeOK /\ Step(t) /\ UNCHANGED heapVars /\ outer[t] = <<>>
  BY NoOuter DEF DerefUnlock, RefsInv, At, Step, WeakStep, DerefPcs
<1>2. outer'[t] = <<>> /\ pc'[t] # "clear_null"
  BY <1>1, Returned DEF DerefUnlock, Goto, localVars, TypeOK
<1> QED
  BY <1>1, <1>2, NothingDropped, StillWeak
     DEF DerefUnlock, At, DerefPcs, heapVars

(* RefLock preserves WeakInv.                                              *)
LEMMA WeakInvRefLock ==
  ASSUME RefsInv, Freedoms = {}, NEW t \in Threads, RefLock(t)
  PROVE  WeakInv'
<1>1. /\ TypeOK /\ Step(t) /\ UNCHANGED <<life, weak_ref, target>>
      /\ outer[t] = <<>>
  BY NoOuter DEF RefLock, RefsInv, At, Step, RefStep, RefPcs
<1>2. outer'[t] = <<>> /\ pc'[t] # "clear_null"
  BY <1>1 DEF RefLock, Goto, localVars, TypeOK
<1>3. \A o \in Objects : held'[o] = held[o]
  BY <1>1, Kinds DEF RefLock, TypeOK
<1> QED
  BY <1>1, <1>2, <1>3, NothingDropped, StillWeak DEF RefLock, At, RefPcs

(* UnrefCheck preserves WeakInv.                                           *)
LEMMA WeakInvUnrefCheck ==
  ASSUME RefsInv, Freedoms = {}, NEW t \in Threads, UnrefCheck(t)
  PROVE  WeakInv'
<1>1. TypeOK /\ Step(t) /\ UNCHANGED heapVars
  BY DEF UnrefCheck, RefsInv, Step, UnrefStep
<1>2. ~Return(t)
  <2>1. refcount[self[t]] \in Nat \ {0}
    BY Released, Owned DEF UnrefCheck, At, UnrefEarly, RefsInv
  <2> QED
    BY <1>1, <2>1, Returned DEF UnrefCheck, Goto, TypeOK
<1>3. /\ pc'[t] \in {"unref_weak", "unref_lock"}
      /\ self' = self /\ outer' = outer /\ pc[t] = "unref_check"
  BY <1>1, <1>2 DEF UnrefCheck, At, Goto, TypeOK, localVars
<1>4. \A o \in Objects : Dropped(t, o)' <=> Dropped(t, o)
  BY <1>3 DEF Dropped, UnrefEarly, Waiting
<1> QED
  BY <1>1, <1>4, StillWeak DEF heapVars

(* UnrefUnlock preserves WeakInv.                                          *)
LEMMA WeakInvUnrefUnlock ==
  ASSUME RefsInv, Freedoms = {}, NEW t \in Threads, UnrefUnlock(t)
  PROVE  WeakInv'
<1>1. /\ TypeOK /\ StackInv /\ Step(t) /\ UNCHANGED heapVars
      /\ pc[t] = "unref_unlock"
  BY DEF UnrefUnlock, At, RefsInv, Step, UnrefStep
<1>2. \A o \in Objects : Dropped(t, o)' <=> Dropped(t, o)
  <2>1. CASE Return(t)
    BY <1>1, <2>1, ReturnDropped DEF UnrefEarly
  <2>2. CASE ~Return(t)
    BY <1>1, <2>2
    DEF UnrefUnlock, EndUnref, Goto, TypeOK, localVars, Dropped, UnrefEarly,
        Waiting
  <2> QED
    BY <2>1, <2>2
<1> QED
  BY <1>1, <1>2, StillWeak DEF heapVars

(* UnrefUnlockWeak preserves WeakInv.                                      *)
LEMMA WeakInvUnrefUnlockWeak ==
  ASSUME RefsInv, Freedoms = {}, NEW t \in Threads, UnrefUnlockWeak(t)
  PROVE  WeakInv'
<1>1. /\ TypeOK /\ StackInv /\ Step(t) /\ UNCHANGED heapVars
      /\ pc[t] = "unref_unlock_weak"
  BY DEF UnrefUnlockWeak, At, RefsInv, Step, UnrefStep
<1>2. \A o \in Objects : Dropped(t, o)' <=> Dropped(t, o)
  <2>1. CASE Return(t)
    BY <1>1, <2>1, ReturnDropped DEF UnrefEarly
  <2>2. CASE ~Return(t)
    BY <1>1, <2>2
    DEF UnrefUnlockWeak, EndUnref, Goto, TypeOK, localVars, Dropped, UnrefEarly,
        Waiting
  <2> QED
    BY <2>1, <2>2
<1> QED
  BY <1>1, <1>2, StillWeak DEF heapVars

(* Destroy preserves WeakInv.                                              *)
LEMMA WeakInvDestroy ==
  ASSUME RefsInv, Freedoms = {}, NEW t \in Threads, Destroy(t)
  PROVE  WeakInv'
<1>1. /\ TypeOK /\ StackInv /\ Step(t) /\ UNCHANGED heapVars
      /\ pc[t] = "destroy"
  BY DEF Destroy, At, RefsInv, Step, DestroyStep
<1>2. \A o \in Objects : Dropped(t, o)' <=> Dropped(t, o)
  <2>1. CASE Return(t)
    BY <1>1, <2>1, ReturnDropped DEF UnrefEarly
  <2>2. CASE ~Return(t)
    BY <1>1, <2>2
    DEF Destroy, Goto, TypeOK, localVars, Dropped, UnrefEarly, Waiting
  <2> QED
    BY <2>1, <2>2
<1> QED
  BY <1>1, <1>2, StillWeak DEF heapVars

(* Clear preserves WeakInv.                                                *)
LEMMA WeakInvClear ==
  ASSUME RefsInv, Freedoms = {}, NEW t \in Threads, Clear(t)
  PROVE  WeakInv'
<1>1. /\ TypeOK /\ StackInv /\ Step(t) /\ UNCHANGED heapVars
      /\ pc[t] = "clear"
  BY DEF Clear, At, RefsInv, Step, DestroyStep
<1>2. \A o \in Objects : Dropped(t, o)' <=> Dropped(t, o)
  <2>1. CASE weak_ref[self[t]] # NULL
    <3>1. self[t] \in Objects /\ self[t] \notin Waiting(t)
      BY <1>1, <2>1, ClearDrops
    <3>2. /\ pc'[t] = "unref_enter"
          /\ outer'[t] = <<self[t]>> \o outer[t]
      BY <1>1, <2>1 DEF Clear, Goto, TypeOK
    <3>3. /\ Head(outer'[t]) = self[t]
          /\ \A o : o \in Waiting(t)' <=> o = self[t] \/ o \in Waiting(t)
      BY <1>1, <3>1, <3>2, Pushed
    <3> QED
      BY <1>1, <3>1, <3>2, <3>3 DEF Dropped, UnrefEarly
  <2>2. CASE weak_ref[self[t]] = NULL /\ Return(t)
    BY <1>1, <2>2, ReturnDropped DEF UnrefEarly
  <2>3. CASE weak_ref[self[t]] = NULL /\ ~Return(t)
    BY <1>1, <2>3
    DEF Clear, EndClear, Goto, TypeOK, localVars, Dropped, UnrefEarly, Waiting
  <2> QED
    BY <2>1, <2>2, <2>3
<1> QED
  BY <1>1, <1>2, StillWeak DEF heapVars

(* UnrefUnset preserves WeakInv.                                           *)
LEMMA WeakInvUnrefUnset ==
  ASSUME RefsInv, Freedoms = {}, NEW t \in Threads, UnrefUnset(t)
  PROVE  WeakInv'
<1>1. TypeOK /\ Step(t) /\ UNCHANGED <<life, weak_ref, held>> /\ pc[t] = "unref_unset"
  BY DEF UnrefUnset, At, RefsInv, Step, UnrefStep
<1>2. \A w \in WeakRefs : target'[w] \in {target[w], NULL}
  BY <1>1 DEF UnrefUnset, TypeOK
<1>3. \A o \in Objects : Dropped(t, o)' <=> Dropped(t, o)
  BY <1>1 DEF UnrefUnset, Goto, TypeOK, localVars, Dropped, UnrefEarly,
                Waiting
<1> QED
  BY <1>1, <1>2, <1>3, StillWeak

(* Mark preserves WeakInv.                                                 *)
LEMMA WeakInvMark ==
  ASSUME RefsInv, Freedoms = {}, NEW t \in Threads, Mark(t)
  PROVE  WeakInv'
<1>1. /\ TypeOK /\ Step(t) /\ UNCHANGED <<weak_ref, target>> /\ pc[t] = "mark"
      /\ self[t] \in Objects
  BY SelfType DEF Mark, At, RefsInv, Step, DestroyStep
<1>2. \A w \in WeakRefs : target[w] # self[t]
  BY <1>1, NoTarget DEF RefsInv, UnsetInv
<1>3. \A o \in Objects : life'[o] = IF o = self[t] THEN "deleted" ELSE life[o]
  BY <1>1 DEF Mark, TypeOK
<1>4. \A o \in Objects : held'[o] = held[o]
  BY <1>1, Kinds DEF Mark, TypeOK
<1>5. \A o \in Objects : Dropped(t, o)' <=> Dropped(t, o)
  BY <1>1 DEF Mark, Goto, TypeOK, localVars, Dropped, UnrefEarly,
                Waiting
<1> QED
  BY <1>1, <1>2, <1>3, <1>4, <1>5, StillWeak

(* Free preserves WeakInv.                                                 *)
LEMMA WeakInvFree ==
  ASSUME RefsInv, Freedoms = {}, NEW t \in Threads, Free(t)
  PROVE  WeakInv'
<1>1. /\ TypeOK /\ StackInv /\ Step(t) /\ UNCHANGED <<weak_ref, target, held>>
      /\ pc[t] = "free" /\ self[t] \in Objects
  BY SelfType DEF Free, At, RefsInv, Step, DestroyStep
<1>2. \A w \in WeakRefs : target[w] # self[t]
  BY <1>1, NoTarget DEF RefsInv, UnsetInv
<1>3. \A o \in Objects : life'[o] = IF o = self[t] THEN "freed" ELSE life[o]
  BY <1>1 DEF Free, TypeOK
<1>4. \A o \in Objects : Dropped(t, o)' <=> Dropped(t, o)
  BY <1>1, ReturnDropped DEF Free, UnrefEarly
<1> QED
  BY <1>1, <1>2, <1>3, <1>4, StillWeak

(* UnrefLock preserves WeakInv.                                            *)
LEMMA WeakInvUnrefLock ==
  ASSUME RefsInv, Freedoms = {}, NEW t \in Threads, UnrefLock(t)
  PROVE  WeakInv'
<1>1. TypeOK /\ Step(t) /\ UNCHANGED <<life, weak_ref, target>> /\ pc[t] = "unref_lock"
  BY DEF UnrefLock, At, RefsInv, Step, UnrefStep
<1>2. /\ self[t] \in Objects /\ Releaser(t) \in Holders
      /\ held[Releaser(t)][self[t]] \in Nat \ {0}
      /\ refcount[self[t]] \in Nat \ {0}
  BY <1>1, Released, Owned DEF UnrefEarly, RefsInv
<1>3. /\ held' = [held EXCEPT ![Releaser(t)][self[t]] = @ - 1]
      /\ self'[t] = self[t] /\ outer'[t] = outer[t] /\ pc'[t] = "unref_unlock"
      /\ Waiting(t)' = Waiting(t)
  BY <1>1, <1>2 DEF UnrefLock, Goto, TypeOK, Waiting
<1>4. CASE outer[t] = <<>>
  <2>1. \A o \in Objects : held'[o] = held[o]
    BY <1>1, <1>2, <1>3, <1>4, Kinds DEF Releaser, TypeOK
  <2>2. \A o \in Objects : Dropped(t, o)' <=> Dropped(t, o)
    BY <1>1, <1>3, <1>4, WaitingType DEF Dropped
  <2> QED
    BY <1>1, <2>1, <2>2, StillWeak
<1>5. CASE outer[t] # <<>>
  <2> DEFINE r == Head(outer[t])
             v == self[t]
  <2>1. /\ r \in Objects /\ r \in Waiting(t) /\ Releaser(t) = r
        /\ weak_ref[r] = v /\ v \in WeakRefs /\ WeakInv
    <3>1. r \in Objects /\ r \in Waiting(t) /\ Releaser(t) = r
      BY <1>1, <1>5, WaitingType DEF Releaser
    <3>2. weak_ref[r] = v
      BY <1>1, <1>5 DEF RefsInv, AliveInv, KeptAlive, UnrefEarly
    <3> QED
      BY <1>1, <1>2, <3>1, <3>2, Kinds DEF RefsInv, TypeOK
  <2>2. held[r][v] = 1
    BY <1>2, <2>1 DEF WeakInv
  <2>3. /\ \A h \in Holders, p \in Objects :
             held'[h][p] = IF h = r /\ p = v THEN 0 ELSE held[h][p]
        /\ r \in Holders
    BY <1>1, <1>2, <1>3, <2>1, <2>2 DEF TypeOK
  <2>4. ASSUME NEW o, o = r
        PROVE  Dropped(t, o)'
    BY <1>3, <2>1, <2>4 DEF Dropped, UnrefEarly
  <2>5. ASSUME NEW o \in Objects, o # r
        PROVE  (\E u \in Threads : Dropped(u, o)') <=> \E u \in Threads : Dropped(u, o)
    <3>1. ASSUME NEW u \in Threads
          PROVE  Dropped(u, o)' <=> Dropped(u, o)
      <4>1. CASE u = t
        BY <1>1, <1>3, <2>5, <4>1 DEF Dropped
      <4>2. CASE u # t
        BY <1>1, <4>2, StepFrame DEF SameThread, Dropped, Waiting
      <4> QED
        BY <4>1, <4>2
    <3> QED
      BY <3>1
  <2>6. ASSUME NEW o \in Objects
        PROVE  /\ \A p \in Objects : held'[o][p] > 0 => p \in WeakRefs
               /\ \A w \in WeakRefs :
                    held'[o][w] = IF weak_ref'[o] = w /\ ~ \E u \in Threads : Dropped(u, o)'
                                  THEN 1 ELSE 0
    <3>1. CASE o = r
      <4>1. \A w \in WeakRefs : held'[r][w] = 0
        BY <2>1, <2>3, Kinds DEF WeakInv
      <4>2. \A p \in Objects : held'[r][p] > 0 => p \in WeakRefs
        BY <2>1, <2>3 DEF WeakInv
      <4> QED
        BY <2>4, <3>1, <4>1, <4>2
    <3>2. CASE o # r
      BY <1>1, <2>1, <2>3, <2>5, <3>2, Kinds DEF WeakInv
    <3> QED
      BY <3>1, <3>2
  <2> QED
    BY <1>1, <2>1, <2>6 DEF WeakInv
<1> QED
  BY <1>4, <1>5

(* ClearNull preserves WeakInv.                                            *)
LEMMA WeakInvClearNull ==
  ASSUME RefsInv, Freedoms = {}, NEW t \in Threads, ClearNull(t)
  PROVE  WeakInv'
<1>1. /\ TypeOK /\ Step(t) /\ UNCHANGED <<life, target, held>> /\ pc[t] = "clear_null"
      /\ self[t] \in Objects
  BY SelfType DEF ClearNull, At, RefsInv, Step, DestroyStep
<1>2. op[t] \notin ClearOps
  BY <1>1 DEF RefsInv, ControlInv, ClearOps
<1>3. Cleans(t, self[t]) /\ Dropped(t, self[t])
  BY <1>1, <1>2 DEF Cleans, Dropped, DestroyPcs
<1>4. /\ pc'[t] = "mark" /\ self' = self /\ outer' = outer
      /\ Waiting(t)' = Waiting(t)
  BY <1>1, <1>2
  DEF ClearNull, EndClear, ClearsOnly, ClearOps, Goto, TypeOK, localVars, Waiting
<1>5. /\ \A w \in WeakRefs : target[w] # self[t]
      /\ WeakInv
  BY <1>1, <1>3 DEF RefsInv, UnsetInv
<1>6. \A o \in Objects : weak_ref'[o] = IF o = self[t] THEN NULL ELSE weak_ref[o]
  BY <1>1 DEF ClearNull, TypeOK
<1>7. ASSUME NEW o \in Objects, o # self[t]
      PROVE  (\E u \in Threads : Dropped(u, o)') <=> \E u \in Threads : Dropped(u, o)
  <2>1. ASSUME NEW u \in Threads
        PROVE  Dropped(u, o)' <=> Dropped(u, o)
    <3>1. CASE u = t
      BY <1>1, <1>4, <1>7, <3>1 DEF Dropped, UnrefEarly
    <3>2. CASE u # t
      BY <1>1, <3>2, StepFrame DEF SameThread, Dropped, Waiting
    <3> QED
      BY <3>1, <3>2
  <2> QED
    BY <2>1
<1>8. ASSUME NEW o \in Objects
      PROVE  /\ \A p \in Objects : held'[o][p] > 0 => p \in WeakRefs
             /\ \A w \in WeakRefs :
                  held'[o][w] = IF weak_ref'[o] = w /\ ~ \E u \in Threads : Dropped(u, o)'
                                THEN 1 ELSE 0
             /\ weak_ref'[o] # NULL => life'[o] # "unborn" /\ life'[weak_ref'[o]] # "unborn"
  <2>1. CASE o = self[t]
    BY <1>1, <1>3, <1>5, <1>6, <2>1, Kinds DEF WeakInv
  <2>2. CASE o # self[t]
    BY <1>1, <1>5, <1>6, <1>7, <2>2, Kinds DEF WeakInv
  <2> QED
    BY <2>1, <2>2
<1>9. ASSUME NEW w \in WeakRefs, target'[w] # NULL
      PROVE  life'[target'[w]] = "live" /\ weak_ref'[target'[w]] = w
  BY <1>9, <1>1, <1>5, <1>6, Kinds DEF WeakInv, TypeOK
<1> QED
  BY <1>8, <1>9 DEF WeakInv

(* WeakNew preserves WeakInv.                                              *)
LEMMA WeakInvWeakNew ==
  ASSUME RefsInv, Freedoms = {}, NEW t \in Threads, WeakNew(t)
  PROVE  WeakInv'
<1>1. TypeOK /\ Step(t) /\ self[t] \in Objects /\ outer[t] = <<>>
  BY NoOuter, SelfType
  DEF WeakNew, At, RefsInv, Step, WeakStep, WeakPcs, WeakNewPcs
<1>2. outer'[t] = <<>> /\ pc'[t] = "weak_unlock"
  BY <1>1 DEF WeakNew, Goto, TypeOK, localVars
<1>3. \A o \in Objects : ~Dropped(t, o) /\ ~Dropped(t, o)'
  BY <1>1, <1>2, NothingDropped DEF WeakNew, At, WeakPcs, WeakNewPcs
<1>4. CASE UNCHANGED heapVars
  BY <1>1, <1>3, <1>4, StillWeak DEF heapVars
<1>5. CASE ~UNCHANGED heapVars
  <2> DEFINE o == self[t]
  <2>1. /\ weak_ref[o] = NULL
        /\ \E w \in WeakRefs : y_WeakRef_new(o, w)
    BY <1>5 DEF WeakNew
  <2>2. PICK w \in WeakRefs : y_WeakRef_new(o, w)
    BY <2>1
  <2>3. /\ o \in Objects /\ o \in Holders /\ w \in Objects /\ w # o
        /\ life[w] = "unborn" /\ WeakInv
    <3>1. life[o] = "live" /\ life[w] = "unborn"
      BY <2>2, SelfLive DEF WeakNew, At, y_WeakRef_new
    <3> QED
      BY <1>1, <3>1, Kinds DEF RefsInv
  <2>4. /\ \A p \in Objects : /\ life'[p] = IF p = w THEN "live" ELSE life[p]
                              /\ weak_ref'[p] = IF p = o THEN w ELSE weak_ref[p]
        /\ \A v \in WeakRefs : target'[v] = IF v = w THEN o ELSE target[v]
        /\ \A h \in Holders, p \in Objects :
             held'[h][p] = IF h = o /\ p = w THEN held[o][w] + 1 ELSE held[h][p]
    BY <1>1, <2>2, <2>3 DEF y_WeakRef_new, TypeOK
  <2>5. life[o] = "live" /\ \A v \in WeakRefs : held[o][v] = 0
    BY <1>1, <2>1, <2>3, SelfLive, Kinds DEF WeakNew, At, WeakInv
  <2>6. \A u \in Threads : ~Dropped(u, o)
    <3>1. held[t][o] > 0
      BY DEF WeakNew, At, RefsInv, AliveInv, KeptAlive, WeakPcs, WeakNewPcs
    <3>2. ASSUME NEW u \in Threads, u # t, Dropped(u, o)
          PROVE  FALSE
      BY <2>3, <3>1, <3>2, DroppedCleans, OwnedNotCleaned, Kinds
    <3> QED
      BY <1>1, <1>3, <3>2
  <2>7. ASSUME NEW p \in Objects, NEW u \in Threads
        PROVE  Dropped(u, p)' <=> Dropped(u, p)
    <3>1. CASE u = t
      BY <1>3, <3>1
    <3>2. CASE u # t
      BY <1>1, <3>2, StepFrame DEF SameThread, Dropped, Waiting
    <3> QED
      BY <3>1, <3>2
  <2>8. ASSUME NEW p \in Objects
        PROVE  /\ \A q \in Objects : held'[p][q] > 0 => q \in WeakRefs
               /\ \A v \in WeakRefs :
                    held'[p][v] = IF weak_ref'[p] = v /\ ~ \E u \in Threads : Dropped(u, p)'
                                  THEN 1 ELSE 0
               /\ weak_ref'[p] # NULL => life'[p] # "unborn" /\ life'[weak_ref'[p]] # "unborn"
    <3>1. p \in Holders /\ weak_ref[p] # w /\ weak_ref[w] = NULL
      BY <2>3, UnbornUnused, Kinds
    <3>2. CASE p = o
      BY <2>3, <2>4, <2>5, <2>6, <2>7, <3>1, <3>2, Kinds DEF WeakInv
    <3>3. CASE p # o
      <4>1. \A q \in Objects : held'[p][q] = held[p][q]
        BY <2>4, <3>1, <3>3
      <4>2. weak_ref'[p] = weak_ref[p]
        BY <2>4, <3>1, <3>3
      <4>3. weak_ref[p] # NULL => life'[p] # "unborn" /\ life'[weak_ref[p]] # "unborn"
        <5>1. ASSUME weak_ref[p] # NULL
              PROVE  /\ weak_ref[p] \in Objects
                     /\ life[p] # "unborn" /\ life[weak_ref[p]] # "unborn"
          BY <1>1, <2>3, <5>1, Kinds DEF WeakInv, TypeOK
        <5> QED
          BY <2>4, <5>1
      <4> QED
        BY <2>3, <2>7, <4>1, <4>2, <4>3, Kinds DEF WeakInv
    <3> QED
      BY <3>2, <3>3
  <2>9. ASSUME NEW v \in WeakRefs
        PROVE  target'[v] # NULL => life'[target'[v]] = "live" /\ weak_ref'[target'[v]] = v
    <3>1. CASE v = w
      <4>1. target'[w] = o /\ life'[o] = "live" /\ weak_ref'[o] = w
        BY <2>3, <2>4, <2>5
      <4> QED
        BY <3>1, <4>1
    <3>2. CASE v # w
      <4>1. target'[v] = target[v]
        BY <2>4, <3>2
      <4>2. target[v] # NULL => target[v] \in Objects /\ target[v] # w /\ target[v] # o
        BY <1>1, <2>1, <2>3, UnbornUnused, NoTarget, Kinds DEF TypeOK
      <4> QED
        BY <2>3, <2>4, <4>1, <4>2 DEF WeakInv
    <3> QED
      BY <3>1, <3>2
  <2> QED
    BY <2>8, <2>9 DEF WeakInv
<1> QED
  BY <1>4, <1>5

(* RefWeak preserves WeakInv.                                           *)
LEMMA WeakInvRefWeak ==
  ASSUME RefsInv, Freedoms = {}, NEW t \in Threads, RefWeak(t)
  PROVE  WeakInv'
<1>1. TypeOK /\ Step(t) /\ UNCHANGED heapVars /\ outer[t] = <<>>
  BY NoOuter DEF RefWeak, RefsInv, At, Step, RefStep, RefPcs
<1>2. outer'[t] = <<>> /\ pc'[t] # "clear_null"
  BY <1>1 DEF RefWeak, Goto, localVars, TypeOK
<1> QED
  BY <1>1, <1>2, NothingDropped, StillWeak
     DEF RefWeak, At, RefPcs, heapVars

(* RefLockWeak preserves WeakInv.                                          *)
LEMMA WeakInvRefLockWeak ==
  ASSUME RefsInv, Freedoms = {}, NEW t \in Threads, RefLockWeak(t)
  PROVE  WeakInv'
<1>1. TypeOK /\ Step(t) /\ UNCHANGED heapVars /\ outer[t] = <<>>
  BY NoOuter DEF RefLockWeak, RefsInv, At, Step, RefStep, RefPcs
<1>2. outer'[t] = <<>> /\ pc'[t] # "clear_null"
  BY <1>1 DEF RefLockWeak, Goto, localVars, TypeOK
<1> QED
  BY <1>1, <1>2, NothingDropped, StillWeak
     DEF RefLockWeak, At, RefPcs, heapVars

(* UnrefWeak preserves WeakInv.                                         *)
LEMMA WeakInvUnrefWeak ==
  ASSUME RefsInv, Freedoms = {}, NEW t \in Threads, UnrefWeak(t)
  PROVE  WeakInv'
<1>1. TypeOK /\ Step(t) /\ UNCHANGED heapVars /\ pc[t] = "unref_weak"
  BY DEF UnrefWeak, At, RefsInv, Step, UnrefStep
<1>2. \A o \in Objects : Dropped(t, o)' <=> Dropped(t, o)
  BY <1>1 DEF UnrefWeak, Goto, TypeOK, localVars, Dropped, UnrefEarly,
                Waiting
<1> QED
  BY <1>1, <1>2, StillWeak DEF heapVars

(* UnrefLockWeak preserves WeakInv.                                        *)
LEMMA WeakInvUnrefLockWeak ==
  ASSUME RefsInv, Freedoms = {}, NEW t \in Threads, UnrefLockWeak(t)
  PROVE  WeakInv'
<1>1. TypeOK /\ Step(t) /\ UNCHANGED heapVars /\ pc[t] = "unref_lock_weak"
  BY DEF UnrefLockWeak, At, RefsInv, Step, UnrefStep
<1>2. \A o \in Objects : Dropped(t, o)' <=> Dropped(t, o)
  BY <1>1 DEF UnrefLockWeak, Goto, TypeOK, localVars, Dropped, UnrefEarly,
                Waiting
<1> QED
  BY <1>1, <1>2, StillWeak DEF heapVars

(* RefUnlockWeak preserves WeakInv.                                     *)
LEMMA WeakInvRefUnlockWeak ==
  ASSUME RefsInv, Freedoms = {}, NEW t \in Threads, RefUnlockWeak(t)
  PROVE  WeakInv'
<1>1. TypeOK /\ Step(t) /\ UNCHANGED heapVars /\ outer[t] = <<>>
  BY NoOuter DEF RefUnlockWeak, RefsInv, At, Step, RefStep, RefPcs
<1>2. outer'[t] = <<>> /\ pc'[t] # "clear_null"
  BY <1>1, Returned DEF RefUnlockWeak, Goto, localVars, TypeOK
<1> QED
  BY <1>1, <1>2, NothingDropped, StillWeak DEF RefUnlockWeak, At, RefPcs, heapVars

(* A thread goes on, with nothing changed but its place in the same call.  *)
LEMMA WeakInvGoto ==
  ASSUME RefsInv, NEW t \in Threads, UNCHANGED <<heapVars, self, outer>>,
         NEW l, pc' = [pc EXCEPT ![t] = l], {l, pc[t]} \cap {"clear_null"} = {},
         l \in UnrefEarly <=> pc[t] \in UnrefEarly
  PROVE  WeakInv'
<1>1. ASSUME NEW u \in Threads, NEW o \in Objects
      PROVE  Dropped(u, o)' <=> Dropped(u, o)
  BY DEF Dropped, Waiting, RefsInv, TypeOK
<1> QED
  BY <1>1 DEF RefsInv, WeakInv, heapVars

(* A client makes a call.                                                  *)
LEMMA WeakInvCall ==
  ASSUME RefsInv, NEW t \in Threads, NEW o, NEW name, NEW label,
         Call(t, o, name, label), label # "clear_null"
  PROVE  WeakInv'
<1>1. outer[t] = <<>> /\ pc[t] = "idle"
  BY DEF Call, At, RefsInv, ControlInv
<1>2. ASSUME NEW u \in Threads, NEW p \in Objects
      PROVE  Dropped(u, p)' <=> Dropped(u, p)
  BY <1>1 DEF Call, Goto, Dropped, Waiting, RefsInv, TypeOK
<1> QED
  BY <1>2 DEF Call, RefsInv, WeakInv, heapVars

(* A client creates an object or hands references over.                    *)
LEMMA WeakInvClient ==
  ASSUME RefsInv, Freedoms = {}, NEW t \in Threads, NEW o \in Objects,
         Create(t, o) \/ \E u \in Threads : Give(t, u, o)
  PROVE  WeakInv'
<1>1. TypeOK /\ WeakInv /\ UNCHANGED <<target, pc, self, outer>>
  BY DEF Create, Give, RefsInv, localVars
<1>2. \A h \in Objects : held'[h] = held[h]
  BY <1>1, Kinds DEF Create, Give, TypeOK
<1>3. ASSUME NEW u \in Threads, NEW p \in Objects
      PROVE  Dropped(u, p)' <=> Dropped(u, p)
  BY <1>1 DEF Dropped, Waiting
<1>4. weak_ref' = weak_ref
  <2>1. CASE Create(t, o)
    BY <1>1, <2>1 DEF Create, WeakInv, TypeOK
  <2>2. CASE \E u \in Threads : Give(t, u, o)
    BY <2>2 DEF Give
  <2> QED
    BY <2>1, <2>2
<1>5. \A p \in Objects : life'[p] = life[p] \/ (life[p] = "unborn" /\ life'[p] = "live")
  BY <1>1 DEF Create, Give, TypeOK
<1>6. ASSUME NEW p \in Objects, weak_ref'[p] # NULL
      PROVE  life'[p] # "unborn" /\ life'[weak_ref'[p]] # "unborn"
  <2>1. weak_ref[p] \in Objects /\ life[p] # "unborn" /\ life[weak_ref[p]] # "unborn"
    BY <1>1, <1>4, <1>6, Kinds DEF WeakInv, TypeOK
  <2> QED
    BY <1>4, <1>5, <2>1
<1>7. ASSUME NEW w \in WeakRefs, target'[w] # NULL
      PROVE  life'[target'[w]] = "live" /\ weak_ref'[target'[w]] = w
  <2>1. target[w] \in Objects /\ life[target[w]] = "live" /\ weak_ref[target[w]] = w
    BY <1>1, <1>7 DEF WeakInv, TypeOK
  <2> QED
    BY <1>1, <1>4, <1>5, <2>1
<1> QED
  BY <1>1, <1>2, <1>3, <1>4, <1>6, <1>7 DEF WeakInv

(* No object, no reference and no thread moves.                            *)
LEMMA WeakInvSame ==
  ASSUME RefsInv, UNCHANGED <<heapVars, pc, self, outer>>
  PROVE  WeakInv'
<1>1. ASSUME NEW u \in Threads, NEW o \in Objects
      PROVE  Dropped(u, o)' <=> Dropped(u, o)
  BY DEF Dropped, Waiting
<1> QED
  BY <1>1 DEF RefsInv, WeakInv, heapVars

(* Every step of clients that keep to the rules preserves WeakInv.         *)
LEMMA WeakInvStep ==
  ASSUME RefsInv, Freedoms = {}, [Next]_vars
  PROVE  WeakInv'
<1>1. ASSUME NEW t \in Threads, RefEnter(t)
      PROVE  WeakInv'
  BY <1>1, WeakInvGoto DEF RefEnter, At, Goto, localVars, UnrefEarly
<1>2. ASSUME NEW t \in Threads, RefCheck(t)
      PROVE  WeakInv'
  BY <1>2, WeakInvRefCheck
<1>3. ASSUME NEW t \in Threads, RefWeak(t)
      PROVE  WeakInv'
  BY <1>3, WeakInvRefWeak
<1>4. ASSUME NEW t \in Threads, RefLockWeak(t)
      PROVE  WeakInv'
  BY <1>4, WeakInvRefLockWeak
<1>5. ASSUME NEW t \in Threads, RefLock(t)
      PROVE  WeakInv'
  BY <1>5, WeakInvRefLock
<1>6. ASSUME NEW t \in Threads, RefUnlock(t)
      PROVE  WeakInv'
  BY <1>6, WeakInvRefUnlock
<1>7. ASSUME NEW t \in Threads, RefUnlockWeak(t)
      PROVE  WeakInv'
  BY <1>7, WeakInvRefUnlockWeak
<1>8. ASSUME NEW t \in Threads, UnrefEnter(t)
      PROVE  WeakInv'
  BY <1>8, WeakInvGoto DEF UnrefEnter, At, Goto, localVars, UnrefEarly
<1>9. ASSUME NEW t \in Threads, UnrefCheck(t)
      PROVE  WeakInv'
  BY <1>9, WeakInvUnrefCheck
<1>10. ASSUME NEW t \in Threads, UnrefWeak(t)
      PROVE  WeakInv'
  BY <1>10, WeakInvUnrefWeak
<1>11. ASSUME NEW t \in Threads, UnrefLockWeak(t)
      PROVE  WeakInv'
  BY <1>11, WeakInvUnrefLockWeak
<1>12. ASSUME NEW t \in Threads, UnrefLock(t)
      PROVE  WeakInv'
  BY <1>12, WeakInvUnrefLock
<1>13. ASSUME NEW t \in Threads, UnrefUnlock(t)
      PROVE  WeakInv'
  BY <1>13, WeakInvUnrefUnlock
<1>14. ASSUME NEW t \in Threads, UnrefUnset(t)
      PROVE  WeakInv'
  BY <1>14, WeakInvUnrefUnset
<1>15. ASSUME NEW t \in Threads, UnrefUnlockWeak(t)
      PROVE  WeakInv'
  BY <1>15, WeakInvUnrefUnlockWeak
<1>16. ASSUME NEW t \in Threads, Destroy(t)
      PROVE  WeakInv'
  BY <1>16, WeakInvDestroy
<1>17. ASSUME NEW t \in Threads, Clear(t)
      PROVE  WeakInv'
  BY <1>17, WeakInvClear
<1>18. ASSUME NEW t \in Threads, ClearNull(t)
      PROVE  WeakInv'
  BY <1>18, WeakInvClearNull
<1>19. ASSUME NEW t \in Threads, Mark(t)
      PROVE  WeakInv'
  BY <1>19, WeakInvMark
<1>20. ASSUME NEW t \in Threads, Free(t)
      PROVE  WeakInv'
  BY <1>20, WeakInvFree
<1>21. ASSUME NEW t \in Threads, WeakCheck(t)
      PROVE  WeakInv'
  BY <1>21, WeakInvGoto DEF WeakCheck, At, Goto, localVars, UnrefEarly
<1>22. ASSUME NEW t \in Threads, WeakLock(t)
      PROVE  WeakInv'
  BY <1>22, WeakInvGoto DEF WeakLock, At, Goto, localVars, UnrefEarly
<1>23. ASSUME NEW t \in Threads, WeakNew(t)
      PROVE  WeakInv'
  BY <1>23, WeakInvWeakNew
<1>24. ASSUME NEW t \in Threads, WeakUnlock(t)
      PROVE  WeakInv'
  BY <1>24, WeakInvGoto DEF WeakUnlock, At, Goto, localVars, UnrefEarly
<1>25. ASSUME NEW t \in Threads, WeakRefTail(t)
      PROVE  WeakInv'
  BY <1>25, WeakInvWeakRefTail
<1>26. ASSUME NEW t \in Threads, DerefCheck(t)
      PROVE  WeakInv'
  BY <1>26, WeakInvDerefCheck
<1>27. ASSUME NEW t \in Threads, DerefLock(t)
      PROVE  WeakInv'
  BY <1>27, WeakInvDerefLock
<1>28. ASSUME NEW t \in Threads, DerefUnlock(t)
      PROVE  WeakInv'
  BY <1>28, WeakInvDerefUnlock
<1>29. ASSUME NEW t \in Threads, NEW o \in Objects, CallRef(t, o)
      PROVE  WeakInv'
  BY <1>29, WeakInvCall DEF CallRef
<1>30. ASSUME NEW t \in Threads, NEW o \in Objects, CallUnref(t, o)
      PROVE  WeakInv'
  BY <1>30, WeakInvCall DEF CallUnref
<1>31. ASSUME NEW t \in Threads, NEW o \in Objects, ManualLock(t, o)
      PROVE  WeakInv'
  BY <1>31, WeakInvSame DEF ManualLock
<1>32. ASSUME NEW t \in Threads, NEW o \in Objects, ManualUnlock(t, o)
      PROVE  WeakInv'
  BY <1>32, WeakInvSame DEF ManualUnlock
<1>33. ASSUME NEW t \in Threads, NEW u \in Threads, NEW o \in Objects,
             Give(t, u, o)
      PROVE  WeakInv'
  BY <1>33, WeakInvClient
<1>34. ASSUME NEW t \in Threads, NEW o \in Referents, Create(t, o)
      PROVE  WeakInv'
  BY <1>34, WeakInvClient, Kinds
<1>35. ASSUME NEW t \in Threads, NEW o \in Objects, CallWeakRef(t, o)
      PROVE  WeakInv'
  BY <1>35, WeakInvCall DEF CallWeakRef
<1>36. ASSUME NEW t \in Threads, NEW o \in Objects, CallClear(t, o)
      PROVE  WeakInv'
  BY <1>36, WeakInvCall DEF CallClear
<1>37. ASSUME NEW t \in Threads, NEW o \in Referents, NEW from \in Referents,
             CallAssign(t, o, from)
      PROVE  WeakInv'
  BY <1>37, WeakInvCall DEF CallAssign
<1>38. ASSUME NEW t \in Threads, NEW o \in Objects, CallDestroy(t, o)
      PROVE  WeakInv'
  BY <1>38, WeakInvCall DEF CallDestroy
<1>39. ASSUME NEW t \in Threads, NEW w \in WeakRefs, CallDeref(t, w)
      PROVE  WeakInv'
  BY <1>39, WeakInvCall DEF CallDeref
<1>40. CASE UNCHANGED vars
  BY <1>40, WeakInvSame DEF vars, localVars
<1>41. ASSUME NEW t \in Threads, RefStep(t)
      PROVE  WeakInv'
  BY <1>1, <1>2, <1>3, <1>4, <1>5, <1>6, <1>7, <1>41 DEF RefStep
<1>42. ASSUME NEW t \in Threads, UnrefStep(t)
      PROVE  WeakInv'
  BY <1>8, <1>9, <1>10, <1>11, <1>12, <1>13, <1>14, <1>15, <1>42 DEF UnrefStep
<1>43. ASSUME NEW t \in Threads, DestroyStep(t)
      PROVE  WeakInv'
  BY <1>16, <1>17, <1>18, <1>19, <1>20, <1>43 DEF DestroyStep
<1>44. ASSUME NEW t \in Threads, WeakStep(t)
      PROVE  WeakInv'
  BY <1>21, <1>22, <1>23, <1>24, <1>25, <1>26, <1>27, <1>28, <1>44 DEF WeakStep
<1>45. ASSUME NEW t \in Threads, ClientStep(t)
      PROVE  WeakInv'
  BY <1>29, <1>30, <1>31, <1>32, <1>33, <1>34, <1>35, <1>36, <1>37, <1>38, <1>39,
     <1>45 DEF ClientStep
<1> QED
  BY <1>40, <1>41, <1>42, <1>43, <1>44, <1>45 DEF Next, Rest, Step

-----------------------------------------------------------------------------
(* StackInv: the objects that a thread is clearing differ.                 *)

(* Which steps change the object that a call works on.                     *)
LEMMA SelfMoves ==
  ASSUME RefsInv, [Next]_vars
  PROVE  \/ UNCHANGED <<self, outer>>
         \/ \E t \in Threads : Return(t)
         \/ \E t \in Threads : Clear(t) /\ weak_ref[self[t]] # NULL
         \/ \E t \in Threads :
              /\ outer[t] = <<>> /\ outer' = outer
              /\ \E s : self' = [self EXCEPT ![t] = s]
<1> DEFINE Moves ==
      \/ UNCHANGED <<self, outer>>
      \/ \E t \in Threads : Return(t)
      \/ \E t \in Threads : Clear(t) /\ weak_ref[self[t]] # NULL
      \/ \E t \in Threads :
           /\ outer[t] = <<>> /\ outer' = outer
           /\ \E s : self' = [self EXCEPT ![t] = s]
<1>1. ASSUME NEW t \in Threads, RefStep(t)
      PROVE  Moves
  BY <1>1 DEF RefStep, RefEnter, RefCheck, RefWeak, RefLockWeak, RefLock,
              RefUnlock, RefUnlockWeak, localVars
<1>2. ASSUME NEW t \in Threads, UnrefStep(t)
      PROVE  Moves
  BY <1>2 DEF UnrefStep, UnrefEnter, UnrefCheck, UnrefWeak, UnrefLockWeak,
              UnrefLock, UnrefUnlock, UnrefUnset, UnrefUnlockWeak, EndUnref,
              localVars
<1>3. ASSUME NEW t \in Threads, DestroyStep(t)
      PROVE  Moves
  BY <1>3 DEF DestroyStep, Destroy, Clear, ClearNull, Mark, Free, EndClear,
              localVars
<1>4. ASSUME NEW t \in Threads, WeakStep(t)
      PROVE  Moves
  <2>1. CASE Return(t) \/ UNCHANGED <<self, outer>>
    BY <2>1
  <2>2. CASE ~(Return(t) \/ UNCHANGED <<self, outer>>)
    <3>1. WeakRefTail(t) \/ DerefUnlock(t)
      BY <1>4, <2>2
      DEF WeakStep, WeakCheck, WeakLock, WeakNew, WeakUnlock, DerefCheck,
          DerefLock, localVars
    <3>2. outer[t] = <<>>
      BY <3>1, NoOuter
      DEF WeakRefTail, DerefUnlock, At, WeakPcs, WeakNewPcs, DerefPcs
    <3>3. outer' = outer /\ \E s : self' = [self EXCEPT ![t] = s]
      BY <2>2, <3>1 DEF WeakRefTail, DerefUnlock, localVars
    <3> QED
      BY <3>2, <3>3
  <2> QED
    BY <2>1, <2>2
<1>5. ASSUME NEW t \in Threads, ClientStep(t)
      PROVE  Moves
  <2>1. CASE UNCHANGED <<self, outer>>
    BY <2>1
  <2>2. CASE ~UNCHANGED <<self, outer>>
    <3>1. \E o, name, label : Call(t, o, name, label)
      BY <1>5, <2>2
      DEF ClientStep, CallRef, CallUnref, CallWeakRef, CallClear, CallDestroy,
          CallAssign, CallDeref, ManualLock, ManualUnlock, Give, Create,
          localVars
    <3>2. outer[t] = <<>>
      BY <3>1 DEF Call, At, RefsInv, ControlInv
    <3>3. outer' = outer /\ \E s : self' = [self EXCEPT ![t] = s]
      BY <3>1 DEF Call
    <3> QED
      BY <3>2, <3>3
  <2> QED
    BY <2>1, <2>2
<1>6. ASSUME UNCHANGED vars
      PROVE  Moves
  BY <1>6 DEF vars, localVars
<1> HIDE DEF Moves
<1>7. Moves
  BY <1>1, <1>2, <1>3, <1>4, <1>5, <1>6 DEF Next, Rest, Step
<1> QED
  BY <1>7 DEF Moves

(* What the invariant says of one thread.                                  *)
Stacked(t) ==
  /\ self[t] \notin Waiting(t)
  /\ \A i, j \in 1 .. Len(outer[t]) : outer[t][i] = outer[t][j] => i = j

(* Every step preserves StackInv: y_Object_clear goes on with a weak       *)
(* reference that its object still owned, and which nobody is clearing.    *)
LEMMA StackStep ==
  ASSUME RefsInv, [Next]_vars
  PROVE  StackInv'
<1> USE DEF Stacked
<1>1. TypeOK /\ StackInv /\ \A t \in Threads : Stacked(t)
  BY DEF RefsInv, StackInv
<1>2. CASE UNCHANGED <<self, outer>>
  BY <1>1, <1>2 DEF StackInv, Waiting
<1>3. ASSUME NEW t \in Threads, Stacked(t)',
             \A u \in Threads \ {t} : self'[u] = self[u] /\ outer'[u] = outer[u]
      PROVE  StackInv'
  BY <1>1, <1>3 DEF StackInv, Waiting
<1>4. ASSUME NEW t \in Threads, Return(t)
      PROVE  StackInv'
  <2>1. Stacked(t)'
    <3>1. CASE outer[t] = <<>>
      BY <1>1, <1>4, <3>1, Returned DEF Waiting
    <3>2. CASE outer[t] # <<>>
      <4>1. self'[t] = Head(outer[t]) /\ outer'[t] = Tail(outer[t])
        BY <1>1, <1>4, <3>2, Returned
      <4>2. /\ self'[t] \notin Waiting(t)'
            /\ outer[t] \in Seq(Objects) /\ Len(outer[t]) \in Nat
            /\ Len(outer'[t]) = Len(outer[t]) - 1
            /\ \A i \in 1 .. Len(outer'[t]) : outer'[t][i] = outer[t][i + 1]
        BY <1>1, <3>2, <4>1, Popped, WaitingType
      <4>3. ASSUME NEW i \in 1 .. Len(outer'[t]), NEW j \in 1 .. Len(outer'[t]),
                   outer'[t][i] = outer'[t][j]
            PROVE  i = j
        <5>1. /\ i + 1 \in 1 .. Len(outer[t]) /\ j + 1 \in 1 .. Len(outer[t])
              /\ outer[t][i + 1] = outer[t][j + 1] /\ i \in Int /\ j \in Int
          BY <4>2, <4>3
        <5>2. i + 1 = j + 1
          BY <1>1, <5>1
        <5> QED
          BY <5>1, <5>2
      <4> QED
        BY <4>2, <4>3
    <3> QED
      BY <3>1, <3>2
  <2>2. \A u \in Threads \ {t} : self'[u] = self[u] /\ outer'[u] = outer[u]
    BY <1>1, <1>4 DEF Return, TypeOK
  <2> QED
    BY <1>3, <2>1, <2>2
<1>5. ASSUME NEW t \in Threads, Clear(t), weak_ref[self[t]] # NULL
      PROVE  StackInv'
  <2> DEFINE x == self[t]
             w == weak_ref[x]
  <2>1. /\ x \in Objects /\ x \notin Waiting(t) /\ Cleans(t, x)
        /\ \A u \in Threads : ~Cleans(u, w)
    BY <1>5, ClearDrops DEF Clear, At
  <2>2. /\ outer'[t] = <<x>> \o outer[t] /\ self'[t] = w
        /\ \A u \in Threads \ {t} : self'[u] = self[u] /\ outer'[u] = outer[u]
    BY <1>1, <1>5 DEF Clear, TypeOK
  <2>3. w # x /\ w \notin Waiting(t)
    BY <2>1 DEF Cleans
  <2> HIDE DEF x, w
  <2>4. /\ outer[t] \in Seq(Objects) /\ Len(outer[t]) \in Nat
        /\ Len(outer'[t]) = Len(outer[t]) + 1
        /\ \A i \in 1 .. Len(outer'[t]) :
             outer'[t][i] = IF i = 1 THEN x ELSE outer[t][i - 1]
        /\ \A o : o \in Waiting(t)' <=> o = x \/ o \in Waiting(t)
    BY <1>1, <2>1, <2>2, Pushed, WaitingType
  <2>5. ASSUME NEW i \in 1 .. Len(outer'[t]), i # 1
        PROVE  /\ i - 1 \in 1 .. Len(outer[t]) /\ i \in Int
               /\ outer'[t][i] = outer[t][i - 1] /\ outer'[t][i] # x
    <3>1. i - 1 \in 1 .. Len(outer[t]) /\ outer'[t][i] = outer[t][i - 1] /\ i \in Int
      BY <2>4, <2>5
    <3>2. outer[t][i - 1] \in Waiting(t)
      BY <3>1 DEF Waiting
    <3> QED
      BY <2>1, <3>1, <3>2
  <2>6. ASSUME NEW i \in 1 .. Len(outer'[t]), NEW j \in 1 .. Len(outer'[t]),
               outer'[t][i] = outer'[t][j]
        PROVE  i = j
    <3>1. CASE i # 1 /\ j # 1
      <4>1. i - 1 = j - 1
        BY <1>1, <2>5, <2>6, <3>1
      <4> QED
        BY <2>5, <3>1, <4>1
    <3>2. CASE i = 1 \/ j = 1
      BY <2>4, <2>5, <2>6, <3>2
    <3> QED
      BY <3>1, <3>2
  <2>7. Stacked(t)'
    BY <2>2, <2>3, <2>4, <2>6
  <2> QED
    BY <1>3, <2>2, <2>7
<1>6. ASSUME NEW t \in Threads, outer[t] = <<>>, outer' = outer,
             \E s : self' = [self EXCEPT ![t] = s]
      PROVE  StackInv'
  <2>1. \A u \in Threads \ {t} : self'[u] = self[u] /\ outer'[u] = outer[u]
    BY <1>1, <1>6 DEF TypeOK
  <2>2. Stacked(t)'
    BY <1>6 DEF Waiting
  <2> QED
    BY <1>3, <2>1, <2>2
<1> QED
  BY <1>2, <1>4, <1>5, <1>6, SelfMoves

-----------------------------------------------------------------------------
(* AcyclicInv: chains of weak references come to an end.                   *)

(* Which steps change the weak reference of an object.                     *)
LEMMA WeakRefMoves ==
  ASSUME RefsInv, [Next]_vars
  PROVE  \/ weak_ref' = weak_ref
         \/ \E t \in Threads : ClearNull(t) \/ WeakNew(t)
<1>1. ASSUME NEW t \in Threads, RefStep(t)
      PROVE  weak_ref' = weak_ref
  BY <1>1 DEF RefStep, RefEnter, RefCheck, RefWeak, RefLockWeak, RefLock,
              RefUnlock, RefUnlockWeak, heapVars
<1>2. ASSUME NEW t \in Threads, UnrefStep(t)
      PROVE  weak_ref' = weak_ref
  BY <1>2 DEF UnrefStep, UnrefEnter, UnrefCheck, UnrefWeak, UnrefLockWeak,
              UnrefLock, UnrefUnlock, UnrefUnset, UnrefUnlockWeak, heapVars
<1>3. ASSUME NEW t \in Threads, DestroyStep(t), ~ClearNull(t)
      PROVE  weak_ref' = weak_ref
  BY <1>3 DEF DestroyStep, Destroy, Clear, Mark, Free, heapVars
<1>4. ASSUME NEW t \in Threads, WeakStep(t), ~WeakNew(t)
      PROVE  weak_ref' = weak_ref
  BY <1>4 DEF WeakStep, WeakCheck, WeakLock, WeakUnlock, WeakRefTail,
              DerefCheck, DerefLock, DerefUnlock, heapVars
<1>5. ASSUME NEW t \in Threads, ClientStep(t)
      PROVE  weak_ref' = weak_ref
  <2>1. CASE \E o \in Referents : Create(t, o)
    <3>1. PICK o \in Referents : Create(t, o)
      BY <2>1
    <3>2. weak_ref[o] = NULL /\ o \in Objects
      BY <3>1, UnbornUnused, Kinds DEF Create
    <3> QED
      BY <3>1, <3>2 DEF Create, RefsInv, TypeOK
  <2>2. CASE ~ \E o \in Referents : Create(t, o)
    BY <1>5, <2>2
    DEF ClientStep, CallRef, CallUnref, CallWeakRef, CallClear, CallDestroy,
        CallAssign, CallDeref, Call, ManualLock, ManualUnlock, Give, heapVars
  <2> QED
    BY <2>1, <2>2
<1>6. CASE UNCHANGED vars
  BY <1>6 DEF vars, heapVars
<1> QED
  BY <1>1, <1>2, <1>3, <1>4, <1>5, <1>6 DEF Next, Rest, Step

(* Every step preserves AcyclicInv: a new weak reference is nobody's, and  *)
(* has none itself.                                                        *)
LEMMA AcyclicStep ==
  ASSUME RefsInv, [Next]_vars
  PROVE  AcyclicInv'
<1>1. TypeOK /\ AcyclicInv
  BY DEF RefsInv
<1>2. CASE weak_ref' = weak_ref
  BY <1>1, <1>2 DEF AcyclicInv
<1>3. ASSUME \A o \in Objects : weak_ref'[o] \in {weak_ref[o], NULL}
      PROVE  AcyclicInv'
  BY <1>1, <1>3, Kinds DEF AcyclicInv
<1>4. ASSUME NEW t \in Threads, ClearNull(t)
      PROVE  AcyclicInv'
  BY <1>1, <1>3, <1>4 DEF ClearNull, TypeOK
<1>5. ASSUME NEW t \in Threads, WeakNew(t), weak_ref' # weak_ref
      PROVE  AcyclicInv'
  <2> DEFINE o == self[t]
  <2>1. PICK w \in WeakRefs : y_WeakRef_new(o, w)
    BY <1>5 DEF WeakNew, heapVars
  <2>2. o \in Objects /\ life[o] = "live" /\ w \in Objects
    BY <1>5, SelfLive, Kinds DEF WeakNew, At
  <2>3. /\ w # o /\ weak_ref[w] = NULL
        /\ \A p \in Objects : weak_ref'[p] = IF p = o THEN w ELSE weak_ref[p]
    BY <1>1, <2>1, <2>2, UnbornUnused DEF y_WeakRef_new, TypeOK
  <2> HIDE DEF o
  <2>4. ASSUME NEW X \in SUBSET Objects, X # {}
        PROVE  \E p \in X : \A q \in X : weak_ref'[q] # p
    <3>1. CASE X \subseteq {w}
      BY <2>2, <2>3, <2>4, <3>1, Kinds
    <3>2. CASE ~(X \subseteq {w})
      <4>1. PICK p \in X \ {w} : \A q \in X \ {w} : weak_ref[q] # p
        <5>1. X \ {w} \in SUBSET Objects /\ X \ {w} # {}
          BY <3>2
        <5> QED
          BY <1>1, <5>1 DEF AcyclicInv
      <4>2. \A q \in X : weak_ref'[q] # p
        BY <2>2, <2>3, <4>1, Kinds
      <4> QED
        BY <4>1, <4>2
    <3> QED
      BY <3>1, <3>2
  <2> QED
    BY <2>4 DEF AcyclicInv
<1> QED
  BY <1>2, <1>4, <1>5, WeakRefMoves

=============================================================================

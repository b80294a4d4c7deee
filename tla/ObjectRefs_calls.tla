-------------------------- MODULE ObjectRefs_calls --------------------------
(***************************************************************************)
(* The invariant RefsInv of ObjectRefs is inductive, second part: what     *)
(* the running calls know, what keeps alive what they work on, and the     *)
(* mutexes.                                                                *)
(***************************************************************************)
EXTENDS ObjectRefs_heap

-----------------------------------------------------------------------------
(* AliveInv: what running calls work on stays alive.                       *)

(* A thread that another one leaves alone cleans up what it cleaned up.    *)
LEMMA SameCleans ==
  ASSUME NEW u \in Threads, SameThread(u)
  PROVE  /\ Waiting(u)' = Waiting(u)
         /\ \A o : Cleans(u, o)' <=> Cleans(u, o)
  BY DEF SameThread, Waiting, Cleans

(* A step of another thread keeps alive what u works on, provided that it  *)
(* takes no reference of u's away, leaves the weak references of what u    *)
(* owns alone, and does not touch what u has to itself.                    *)
LEMMA StillAlive ==
  ASSUME RefsInv, NEW u \in Threads, SameThread(u),
         \A o \in Objects : held[u][o] > 0 => held'[u][o] > 0,
         \A o \in Objects :
           held[u][o] > 0 /\ weak_ref[o] # NULL => weak_ref'[o] = weak_ref[o],
         pc[u] \in UnrefLate => life'[self[u]] = "live",
         pc[u] \in DerefPcs => target'[self[u]] \in {target[self[u]], NULL},
         \A o \in Objects : Cleans(u, o) \/ (op[u] \in ClearOps /\ self[u] = o) =>
           /\ life'[o] = life[o] /\ weak_ref'[o] = weak_ref[o]
           /\ \A h \in Holders : held'[h][o] = held[h][o]
  PROVE  KeptAlive(u)'
<1>1. KeptAlive(u) /\ TypeOK
  BY DEF RefsInv, AliveInv
<1>2. ASSUME pc[u] # "idle"
      PROVE  self[u] \in Objects
  BY <1>2, SelfType
<1>3. pc'[u] \in RefPcs =>
       \/ held'[u][self'[u]] > 0
       \/ /\ op'[u] = "weak_ref"
          /\ \E o \in Objects : held'[u][o] > 0 /\ weak_ref'[o] = self'[u]
  <2> SUFFICES ASSUME pc[u] \in RefPcs
               PROVE  \/ held'[u][self[u]] > 0
                      \/ /\ op[u] = "weak_ref"
                         /\ \E o \in Objects : held'[u][o] > 0 /\ weak_ref'[o] = self[u]
    BY DEF SameThread
  <2>1. self[u] \in Objects
    BY <1>2 DEF RefPcs
  <2> QED
    BY <1>1, <2>1, Kinds DEF KeptAlive
<1>4. pc'[u] \in UnrefEarly =>
       IF outer'[u] = <<>> THEN held'[u][self'[u]] > 0
                           ELSE weak_ref'[Head(outer'[u])] = self'[u]
  <2> SUFFICES ASSUME pc[u] \in UnrefEarly
               PROVE  IF outer[u] = <<>> THEN held'[u][self[u]] > 0
                                         ELSE weak_ref'[Head(outer[u])] = self[u]
    BY DEF SameThread
  <2>1. self[u] \in Objects
    BY <1>2 DEF UnrefEarly
  <2>2. outer[u] # <<>> => Head(outer[u]) \in Objects /\ Cleans(u, Head(outer[u]))
    BY <1>1, WaitingType DEF Cleans
  <2> QED
    BY <1>1, <2>1, <2>2 DEF KeptAlive
<1>5. pc'[u] \in UnrefLate => life'[self'[u]] = "live"
  BY DEF SameThread
<1>6. pc'[u] \in WeakPcs => held'[u][self'[u]] > 0
  BY <1>1, <1>2 DEF SameThread, KeptAlive, WeakPcs, WeakNewPcs
<1>7. pc'[u] \in DerefPcs =>
       /\ held'[u][self'[u]] > 0
       /\ target'[self'[u]] # NULL => held'[u][target'[self'[u]]] > 0
  <2> SUFFICES ASSUME pc[u] \in DerefPcs
               PROVE  /\ held'[u][self[u]] > 0
                      /\ target'[self[u]] # NULL => held'[u][target'[self[u]]] > 0
    BY DEF SameThread
  <2>1. self[u] \in WeakRefs /\ self[u] \in Objects
    BY Kinds DEF RefsInv, ControlInv
  <2>2. target[self[u]] # NULL => target[self[u]] \in Objects
    BY <1>1, <2>1, Kinds DEF TypeOK
  <2> QED
    BY <1>1, <2>1, <2>2 DEF KeptAlive
<1>8. op'[u] \in ClearOps =>
       /\ held'[u][self'[u]] > 0
       /\ SoleUser(u, self[u])'
       /\ weak_ref'[self'[u]] = NULL
  <2> SUFFICES ASSUME op[u] \in ClearOps
               PROVE  /\ held'[u][self[u]] > 0
                      /\ \A v \in Holders \ {u} : held'[v][self[u]] = 0
                      /\ weak_ref'[self[u]] = NULL
    BY DEF SameThread, SoleUser
  <2>1. self[u] \in Objects
    BY <1>2 DEF RefsInv, ControlInv, ClearOps, TypeOK, Ops
  <2> QED
    BY <1>1, <2>1, Kinds DEF KeptAlive, SoleUser
<1>9. ASSUME NEW o \in Objects, Cleans(u, o)'
      PROVE  /\ life'[o] = IF self'[u] = o /\ pc'[u] = "free" THEN "deleted" ELSE "live"
             /\ IF op'[u] = "destroy"
                THEN /\ SoleUser(u, o)'
                     /\ held'[u][o] = IF pc'[u] = "free" THEN 0 ELSE 1
                     /\ weak_ref'[o] = NULL
                ELSE Unowned(o)'
  <2>1. Cleans(u, o)
    BY <1>9, SameCleans
  <2>2. /\ life'[o] = life[o] /\ weak_ref'[o] = weak_ref[o]
        /\ \A h \in Holders : held'[h][o] = held[h][o]
    BY <2>1
  <2>3. SoleUser(u, o) => SoleUser(u, o)'
    BY <2>2, Kinds DEF SoleUser
  <2>4. Unowned(o) => Unowned(o)'
    BY <2>2 DEF Unowned
  <2> QED
    BY <1>1, <2>1, <2>2, <2>3, <2>4, Kinds DEF KeptAlive, SameThread
<1> QED
  BY <1>3, <1>4, <1>5, <1>6, <1>7, <1>8, <1>9 DEF KeptAlive

(* Steps that change no reference, weak reference or stage of life.        *)
LEMMA OthersAlive ==
  ASSUME RefsInv, NEW t \in Threads, Step(t), UNCHANGED <<life, weak_ref, held>>,
         \A w \in WeakRefs : target'[w] \in {target[w], NULL},
         KeptAlive(t)'
  PROVE  AliveInv'
<1>1. ASSUME NEW u \in Threads, u # t
      PROVE  KeptAlive(u)'
  <2>1. SameThread(u)
    BY <1>1, StepFrame DEF RefsInv
  <2>2. pc[u] \in UnrefLate => life[self[u]] = "live"
    BY DEF RefsInv, AliveInv, KeptAlive
  <2>3. pc[u] \in DerefPcs => self[u] \in WeakRefs
    BY DEF RefsInv, ControlInv
  <2> QED
    BY <2>1, <2>2, <2>3, StillAlive
<1> QED
  BY <1>1 DEF AliveInv

(* A thread with no object to clean up.                                    *)
LEMMA NothingCleaned ==
  ASSUME NEW t \in Threads, outer'[t] = <<>>,
         pc'[t] \in {"idle"} \cup RefPcs \cup UnrefEarly \cup WeakPcs \cup DerefPcs
  PROVE  \A o \in Objects : ~Cleans(t, o)'
  BY DEF Cleans, Waiting, RefPcs, UnrefEarly, UnrefLate, WeakPcs, WeakNewPcs,
               DerefPcs, DestroyPcs

(* A thread in no call.                                                    *)
LEMMA IdleAlive ==
  ASSUME NEW t \in Threads, outer'[t] = <<>>, pc'[t] = "idle", op'[t] = "none"
  PROVE  KeptAlive(t)'
  BY NothingCleaned
     DEF KeptAlive, RefPcs, UnrefEarly, UnrefLate, WeakPcs, WeakNewPcs,
               DerefPcs, DestroyPcs, ClearOps

(* A thread in y_ref that owns the object.                                 *)
LEMMA RefAlive ==
  ASSUME NEW t \in Threads, outer'[t] = <<>>, pc'[t] \in RefPcs,
         op'[t] \in {"ref", "weak_ref", "deref"},
         \/ held'[t][self'[t]] > 0
         \/ /\ op'[t] = "weak_ref"
            /\ \E o \in Objects : held'[t][o] > 0 /\ weak_ref'[o] = self'[t]
  PROVE  KeptAlive(t)'
<1>1. \A o \in Objects : ~Cleans(t, o)'
  BY NothingCleaned
<1>2. pc'[t] \notin UnrefEarly \cup UnrefLate \cup WeakPcs \cup DerefPcs
  BY DEF RefPcs, UnrefEarly, UnrefLate, WeakPcs, WeakNewPcs, DerefPcs
<1> QED
  BY <1>1, <1>2 DEF KeptAlive, ClearOps

(* A thread that returns into y_Object_clear has the objects to clean up   *)
(* that it had before.                                                     *)
LEMMA ReturnAlive ==
  ASSUME RefsInv, NEW t \in Threads, Return(t), pc[t] # "idle",
         \A o \in Waiting(t) :
           life'[o] = life[o] /\ \A h \in Holders : held'[h][o] = held[h][o]
  PROVE  KeptAlive(t)'
<1>1. TypeOK /\ StackInv
  BY DEF RefsInv
<1>2. CASE outer[t] = <<>>
  BY <1>1, <1>2, Returned, IdleAlive
<1>3. CASE outer[t] # <<>>
  <2>1. op[t] = "unref"
    BY <1>3 DEF RefsInv, ControlInv
  <2>2. /\ pc'[t] = "clear_null" /\ self'[t] = Head(outer[t]) /\ op'[t] = "unref"
        /\ outer'[t] = Tail(outer[t])
    BY <1>1, <1>3, <2>1, Returned
  <2>3. pc'[t] \notin RefPcs \cup UnrefEarly \cup UnrefLate \cup WeakPcs \cup DerefPcs
    BY <2>2 DEF RefPcs, UnrefEarly, UnrefLate, WeakPcs, WeakNewPcs, DerefPcs
  <2>4. ASSUME NEW o \in Objects, Cleans(t, o)'
        PROVE  life'[o] = "live" /\ Unowned(o)'
    <3>1. o \in Waiting(t)
      BY <1>1, <1>3, <2>2, <2>4, Popped, WaitingType DEF Cleans
    <3>2. Cleans(t, o) /\ self[t] # o
      BY <3>1 DEF Cleans, RefsInv, StackInv
    <3>3. life[o] = "live" /\ Unowned(o)
      BY <2>1, <3>2 DEF RefsInv, AliveInv, KeptAlive
    <3> QED
      BY <3>1, <3>3 DEF Unowned
  <2> QED
    BY <2>2, <2>3, <2>4 DEF KeptAlive, ClearOps
<1> QED
  BY <1>2, <1>3

(* A call that returns and changes no object.                              *)
LEMMA AliveReturn ==
  ASSUME RefsInv, NEW t \in Threads, Step(t), Return(t), pc[t] # "idle",
         UNCHANGED <<life, weak_ref, held>>,
         \A w \in WeakRefs : target'[w] \in {target[w], NULL}
  PROVE  AliveInv'
  BY ReturnAlive, OthersAlive

(* WeakRefTail preserves AliveInv.                                         *)
LEMMA AliveWeakRefTail ==
  ASSUME RefsInv, Freedoms = {}, NEW t \in Threads, WeakRefTail(t)
  PROVE  AliveInv'
<1>1. /\ TypeOK /\ Step(t) /\ UNCHANGED heapVars /\ self[t] \in Objects
      /\ outer[t] = <<>> /\ held[t][self[t]] > 0
  BY NoOuter, SelfType
     DEF WeakRefTail, RefsInv, At, Step, WeakStep, WeakPcs, AliveInv, KeptAlive
<1>2. op[t] = "weak_ref"
  BY DEF WeakRefTail, At, RefsInv, ControlInv, TypeOK, Ops, RefPcs,
         UnrefEarly, UnrefLate, DestroyPcs, DerefPcs
<1>3. KeptAlive(t)'
  <2>1. CASE Return(t)
    BY <1>1, <2>1, Returned, IdleAlive
  <2>2. CASE ~Return(t)
    <3>1. /\ self'[t] = weak_ref[self[t]] /\ outer'[t] = <<>> /\ op'[t] = "weak_ref"
          /\ pc'[t] = "ref_enter" /\ held' = held /\ weak_ref' = weak_ref
      BY <1>1, <1>2, <2>2 DEF WeakRefTail, Goto, localVars, TypeOK, heapVars
    <3> QED
      BY <1>1, <3>1, RefAlive DEF RefPcs
  <2> QED
    BY <2>1, <2>2
<1> QED
  BY <1>1, <1>3, OthersAlive DEF heapVars

(* DerefUnlock preserves AliveInv.                                         *)
LEMMA AliveDerefUnlock ==
  ASSUME RefsInv, Freedoms = {}, NEW t \in Threads, DerefUnlock(t)
  PROVE  AliveInv'
<1>1. /\ TypeOK /\ Step(t) /\ UNCHANGED heapVars /\ self[t] \in WeakRefs
      /\ outer[t] = <<>>
      /\ target[self[t]] # NULL => held[t][target[self[t]]] > 0
  BY NoOuter
     DEF DerefUnlock, RefsInv, At, Step, WeakStep, DerefPcs, ControlInv,
         AliveInv, KeptAlive
<1>2. op[t] = "deref"
  BY DEF DerefUnlock, At, RefsInv, ControlInv, TypeOK, Ops, RefPcs,
         UnrefEarly, UnrefLate, DestroyPcs, WeakPcs, WeakNewPcs
<1>3. KeptAlive(t)'
  <2>1. CASE Return(t)
    BY <1>1, <2>1, Returned, IdleAlive
  <2>2. CASE ~Return(t)
    <3>1. /\ target[self[t]] # NULL
          /\ self'[t] = target[self[t]] /\ outer'[t] = <<>> /\ op'[t] = "deref"
          /\ pc'[t] = "ref_enter" /\ held' = held
      BY <1>1, <1>2, <2>2 DEF DerefUnlock, Goto, localVars, TypeOK, heapVars
    <3> QED
      BY <1>1, <3>1, RefAlive DEF RefPcs
  <2> QED
    BY <2>1, <2>2
<1> QED
  BY <1>1, <1>3, OthersAlive DEF heapVars

(* RefLock preserves AliveInv.                                             *)
LEMMA AliveRefLock ==
  ASSUME RefsInv, Freedoms = {}, NEW t \in Threads, RefLock(t)
  PROVE  AliveInv'
<1>1. /\ TypeOK /\ Step(t) /\ UNCHANGED <<life, weak_ref, target>>
      /\ self[t] \in Objects /\ outer[t] = <<>> /\ life[self[t]] = "live"
      /\ \A o \in Objects : ~Cleans(t, o)
  BY NoOuter, SelfLive DEF RefLock, RefsInv, At, Step, RefStep, RefPcs
<1>2. refcount[self[t]] \in Nat \ {0}
  BY <1>1, RefOwned, Owned DEF RefLock, At, RefPcs, RefsInv
<1>3. /\ held' = [held EXCEPT ![t][self[t]] = @ + 1]
      /\ self'[t] = self[t] /\ outer'[t] = <<>> /\ op'[t] = op[t]
      /\ pc'[t] = "ref_unlock"
  BY <1>1, <1>2 DEF RefLock, Goto, localVars, TypeOK
<1>4. \A h \in Holders, p \in Objects :
        held'[h][p] = IF h = t /\ p = self[t] THEN held[h][p] + 1 ELSE held[h][p]
  BY <1>1, <1>3, Kinds DEF TypeOK
<1>5. KeptAlive(t)'
  <2>1. held'[t][self'[t]] > 0
    BY <1>1, <1>3, <1>4, Kinds DEF TypeOK
  <2>2. op[t] \in {"ref", "weak_ref", "deref"}
    BY
       DEF RefLock, At, RefsInv, ControlInv, TypeOK, Ops, UnrefEarly,
           UnrefLate,
           DestroyPcs
  <2> QED
    BY <1>3, <2>1, <2>2, RefAlive DEF RefPcs
<1>6. ASSUME NEW u \in Threads, u # t
      PROVE  KeptAlive(u)'
  <2>1. SameThread(u)
    BY <1>1, <1>6, StepFrame
  <2>2. ASSUME NEW o \in Objects, Cleans(u, o) \/ (op[u] \in ClearOps /\ self[u] = o)
        PROVE  self[t] # o
    <3>1. CASE Cleans(u, o)
      BY <1>6, <3>1 DEF RefsInv, ExclusiveInv
    <3>2. CASE op[u] \in ClearOps /\ self[u] = o
      <4>1. o \in Objects /\ SoleUser(u, o)
        BY <2>2, <3>2 DEF RefsInv, AliveInv, KeptAlive
      <4> QED
        BY <1>6, <4>1, SoleNotReffed DEF RefLock, At, RefPcs
    <3> QED
      BY <2>2, <3>1, <3>2
  <2>3. pc[u] \in UnrefLate => life[self[u]] = "live"
    BY DEF RefsInv, AliveInv, KeptAlive
  <2>4. \A o \in Objects : held'[u][o] = held[u][o]
    BY <1>4, <1>6, Kinds
  <2> QED
    BY <1>1, <1>4, <2>1, <2>2, <2>3, <2>4, StillAlive
<1> QED
  BY <1>5, <1>6 DEF AliveInv

(* UnrefLock preserves AliveInv.                                           *)
LEMMA AliveUnrefLock ==
  ASSUME RefsInv, Freedoms = {}, NEW t \in Threads, UnrefLock(t)
  PROVE  AliveInv'
<1>1. /\ TypeOK /\ Step(t) /\ UNCHANGED <<life, weak_ref, target>>
      /\ pc[t] = "unref_lock" /\ self[t] \in Objects /\ life[self[t]] = "live"
  BY SelfLive DEF UnrefLock, RefsInv, At, Step, UnrefStep
<1>2. /\ Releaser(t) \in Holders /\ held[Releaser(t)][self[t]] \in Nat \ {0}
      /\ refcount[self[t]] \in Nat \ {0}
  BY <1>1, Released, Owned DEF UnrefEarly, RefsInv
<1>3. /\ \A h \in Holders, p \in Objects :
           held'[h][p] = IF h = Releaser(t) /\ p = self[t] THEN held[h][p] - 1
                                                           ELSE held[h][p]
      /\ self'[t] = self[t] /\ outer'[t] = outer[t] /\ op'[t] = op[t]
      /\ pc'[t] = "unref_unlock"
      /\ doCleanup'[t] = (refcount[self[t]] = 1) /\ mutex[self[t]] = NULL
  BY <1>1, <1>2, Kinds DEF UnrefLock, y_lock, Goto, TypeOK
<1>4. op[t] = "unref"
  BY <1>1 DEF RefsInv, ControlInv, TypeOK, Ops, RefPcs, DestroyPcs, WeakPcs,
              WeakNewPcs, DerefPcs
<1>5. ASSUME NEW o \in Objects, Cleans(t, o)'
      PROVE  life[o] = "live" /\ \A h \in Holders : held'[h][o] = 0
  <2>1. CASE o \in Waiting(t)
    <3>1. Cleans(t, o) /\ self[t] # o
      BY <2>1 DEF Cleans, RefsInv, StackInv
    <3>2. life[o] = "live" /\ Unowned(o)
      BY <1>4, <3>1 DEF RefsInv, AliveInv, KeptAlive
    <3> QED
      BY <1>3, <3>1, <3>2 DEF Unowned
  <2>2. CASE o \notin Waiting(t)
    <3>1. self[t] = o /\ refcount[o] = 1
      <4>1. o \notin Waiting(t)'
        BY <1>3, <2>2 DEF Waiting
      <4> QED
        BY <1>3, <1>5, <4>1 DEF Cleans, UnrefLate, DestroyPcs
    <3>2. \A h \in Holders : held[h][o] = IF h = Releaser(t) THEN 1 ELSE 0
      BY <1>1, <1>3, <3>1, LastUser
    <3> QED
      BY <1>1, <1>2, <1>3, <3>1, <3>2
  <2> QED
    BY <2>1, <2>2
<1>6. KeptAlive(t)'
  <2>1. pc'[t] \notin RefPcs \cup UnrefEarly \cup WeakPcs \cup DerefPcs
    BY <1>3 DEF RefPcs, UnrefEarly, WeakPcs, WeakNewPcs, DerefPcs
  <2>2. ASSUME NEW o \in Objects, Cleans(t, o)'
        PROVE  life'[o] = "live" /\ Unowned(o)' /\ op'[t] # "destroy" /\ pc'[t] # "free"
    BY <1>1, <1>3, <1>4, <1>5, <2>2 DEF Unowned
  <2> QED
    BY <1>1, <1>3, <1>4, <2>1, <2>2 DEF KeptAlive, ClearOps
<1>7. ASSUME NEW u \in Threads, u # t
      PROVE  KeptAlive(u)'
  <2>1. SameThread(u)
    BY <1>1, <1>7, StepFrame
  <2>2. Releaser(t) # u
    BY <1>1, <1>7, Kinds, WaitingType DEF Releaser
  <2>3. ASSUME NEW o \in Objects, Cleans(u, o) \/ (op[u] \in ClearOps /\ self[u] = o)
        PROVE  self[t] # o
    <3>1. CASE Cleans(u, o)
      BY <1>7, <3>1 DEF RefsInv, ExclusiveInv
    <3>2. CASE op[u] \in ClearOps /\ self[u] = o
      <4>1. o \in Objects /\ SoleUser(u, o)
        BY <2>3, <3>2 DEF RefsInv, AliveInv, KeptAlive
      <4>2. CASE self[t] = o
        <5>1. Releaser(t) \in Holders \ {u}
          BY <1>2, <2>2
        <5> QED
          BY <1>2, <4>1, <4>2, <5>1 DEF SoleUser
      <4> QED
        BY <4>2
    <3> QED
      BY <2>3, <3>1, <3>2
  <2>4. pc[u] \in UnrefLate => life[self[u]] = "live"
    BY DEF RefsInv, AliveInv, KeptAlive
  <2>5. \A o \in Objects : held'[u][o] = held[u][o]
    BY <1>3, <2>2, Kinds
  <2> QED
    BY <1>1, <1>3, <2>1, <2>3, <2>4, <2>5, StillAlive
<1> QED
  BY <1>6, <1>7 DEF AliveInv

(* ClearNull preserves AliveInv.                                           *)
LEMMA AliveClearNull ==
  ASSUME RefsInv, Freedoms = {}, NEW t \in Threads, ClearNull(t)
  PROVE  AliveInv'
<1>1. /\ TypeOK /\ Step(t) /\ UNCHANGED <<life, target, held>> /\ pc[t] = "clear_null"
      /\ self[t] \in Objects
  BY SelfType DEF ClearNull, At, RefsInv, Step, DestroyStep
<1>2. op[t] \notin ClearOps \cup {"destroy"}
  BY <1>1 DEF RefsInv, ControlInv, ClearOps
<1>3. Cleans(t, self[t])
  BY <1>1, <1>2 DEF Cleans, DestroyPcs
<1>4. /\ outer'[t] = outer[t] /\ pc'[t] = "mark" /\ self'[t] = self[t] /\ op'[t] = op[t]
      /\ \A o \in Objects : o # self[t] => weak_ref'[o] = weak_ref[o]
  BY <1>1, <1>2 DEF ClearNull, EndClear, ClearsOnly, ClearOps, Goto, TypeOK, localVars
<1>5. \A o \in Objects : Cleans(t, o) => life[o] = "live" /\ Unowned(o)
  BY <1>1, <1>2 DEF RefsInv, AliveInv, KeptAlive
<1>6. KeptAlive(t)'
  <2>1. pc'[t] \notin RefPcs \cup UnrefEarly \cup UnrefLate \cup WeakPcs \cup DerefPcs
    BY <1>4 DEF RefPcs, UnrefEarly, UnrefLate, WeakPcs, WeakNewPcs, DerefPcs
  <2>2. ASSUME NEW o \in Objects, Cleans(t, o)'
        PROVE  life'[o] = "live" /\ Unowned(o)' /\ op'[t] # "destroy" /\ pc'[t] # "free"
    <3>1. Cleans(t, o)
      BY <1>1, <1>2, <1>4, <2>2 DEF Cleans, Waiting, DestroyPcs
    <3> QED
      BY <1>1, <1>2, <1>4, <1>5, <3>1 DEF Unowned
  <2> QED
    BY <1>2, <1>4, <2>1, <2>2 DEF KeptAlive
<1>7. ASSUME NEW u \in Threads, u # t
      PROVE  KeptAlive(u)'
  <2>1. SameThread(u)
    BY <1>1, <1>7, StepFrame
  <2>2. ASSUME NEW o \in Objects, Cleans(u, o) \/ (op[u] \in ClearOps /\ self[u] = o)
        PROVE  self[t] # o
    BY <1>1, <1>3, <1>7, <2>2 DEF RefsInv, ExclusiveInv
  <2>3. pc[u] \in UnrefLate => life[self[u]] = "live"
    BY DEF RefsInv, AliveInv, KeptAlive
  <2>4. ~ held[u][self[t]] > 0
    BY <1>1, <1>3, <1>5, Kinds DEF Unowned
  <2> QED
    BY <1>1, <1>4, <2>1, <2>2, <2>3, <2>4, Kinds, StillAlive
<1> QED
  BY <1>6, <1>7 DEF AliveInv

(* Mark preserves AliveInv.                                                *)
LEMMA AliveMark ==
  ASSUME RefsInv, Freedoms = {}, NEW t \in Threads, Mark(t)
  PROVE  AliveInv'
<1>1. /\ TypeOK /\ Step(t) /\ UNCHANGED <<weak_ref, target>> /\ pc[t] = "mark"
      /\ self[t] \in Objects
  BY SelfType DEF Mark, At, RefsInv, Step, DestroyStep
<1>2. op[t] \notin ClearOps /\ Cleans(t, self[t])
  BY <1>1 DEF RefsInv, ControlInv, Cleans, DestroyPcs, ClearOps
<1>3. op[t] = "destroy" => outer[t] = <<>>
  BY DEF RefsInv, ControlInv
<1>4. /\ \A p \in Objects : life'[p] = IF p = self[t] THEN "deleted" ELSE life[p]
      /\ \A h \in Holders, p \in Objects :
           held'[h][p] = IF op[t] = "destroy" /\ h = t /\ p = self[t] THEN 0 ELSE held[h][p]
      /\ self'[t] = self[t] /\ outer'[t] = outer[t] /\ op'[t] = op[t]
      /\ pc'[t] = "free"
  BY <1>1, <1>3, Kinds DEF Mark, Goto, localVars, TypeOK
<1>5. KeptAlive(t)'
  <2>1. pc'[t] \notin RefPcs \cup UnrefEarly \cup UnrefLate \cup WeakPcs \cup DerefPcs
    BY <1>4 DEF RefPcs, UnrefEarly, UnrefLate, WeakPcs, WeakNewPcs, DerefPcs
  <2>2. ASSUME NEW o \in Objects, Cleans(t, o)'
        PROVE  /\ life'[o] = IF self'[t] = o THEN "deleted" ELSE "live"
               /\ IF op'[t] = "destroy"
                  THEN /\ SoleUser(t, o)'
                       /\ held'[t][o] = 0
                       /\ weak_ref'[o] = NULL
                  ELSE Unowned(o)'
    <3>1. Cleans(t, o)
      BY <1>1, <1>4, <2>2 DEF Cleans, DestroyPcs, UnrefLate, Waiting
    <3>2. /\ life[o] = "live"
          /\ IF op[t] = "destroy" THEN SoleUser(t, o) /\ weak_ref[o] = NULL
                                  ELSE Unowned(o)
      BY <1>1, <3>1 DEF RefsInv, AliveInv, KeptAlive
    <3>3. op[t] = "destroy" => o = self[t]
      BY <1>1, <1>3, <3>1, WaitingType DEF Cleans
    <3>4. CASE op[t] = "destroy"
      <4>1. SoleUser(t, o)'
        BY <1>4, <3>2, <3>4, Kinds DEF SoleUser
      <4> QED
        BY <1>1, <1>4, <3>2, <3>3, <3>4, <4>1, Kinds
    <3>5. CASE op[t] # "destroy"
      BY <1>4, <3>2, <3>5 DEF Unowned
    <3> QED
      BY <3>4, <3>5
  <2> QED
    BY <1>2, <1>4, <2>1, <2>2 DEF KeptAlive
<1>6. ASSUME NEW u \in Threads, u # t
      PROVE  KeptAlive(u)'
  <2>1. SameThread(u)
    BY <1>1, <1>6, StepFrame
  <2>2. self[u] # self[t] /\ self[t] \notin Waiting(u)
    BY <1>1, <1>2, <1>6 DEF RefsInv, ExclusiveInv
  <2>3. ASSUME NEW o \in Objects, Cleans(u, o) \/ (op[u] \in ClearOps /\ self[u] = o)
        PROVE  self[t] # o
    BY <2>2, <2>3 DEF Cleans
  <2>4. pc[u] \in UnrefLate => life'[self[u]] = "live"
    <3>1. pc[u] \in UnrefLate => life[self[u]] = "live" /\ self[u] \in Objects
      BY SelfType DEF RefsInv, AliveInv, KeptAlive, UnrefLate
    <3> QED
      BY <1>4, <2>2, <3>1
  <2>5. \A o \in Objects : held'[u][o] = held[u][o]
    BY <1>4, <1>6, Kinds
  <2> QED
    BY <1>1, <1>4, <2>1, <2>3, <2>4, <2>5, StillAlive
<1> QED
  BY <1>5, <1>6 DEF AliveInv

(* Free preserves AliveInv.                                                *)
LEMMA AliveFree ==
  ASSUME RefsInv, Freedoms = {}, NEW t \in Threads, Free(t)
  PROVE  AliveInv'
<1>1. /\ TypeOK /\ Step(t) /\ UNCHANGED <<weak_ref, target, held>> /\ pc[t] = "free"
      /\ self[t] \in Objects
  BY SelfType DEF Free, At, RefsInv, Step, DestroyStep
<1>2. Cleans(t, self[t])
  BY <1>1 DEF RefsInv, ControlInv, Cleans, DestroyPcs, ClearOps
<1>3. \A p \in Objects : life'[p] = IF p = self[t] THEN "freed" ELSE life[p]
  BY <1>1 DEF Free, TypeOK
<1>4. KeptAlive(t)'
  <2>1. \A o \in Waiting(t) : o \in Objects /\ o # self[t]
    BY <1>1, WaitingType DEF RefsInv, StackInv
  <2> QED
    BY <1>1, <1>3, <2>1, ReturnAlive DEF Free
<1>5. ASSUME NEW u \in Threads, u # t
      PROVE  KeptAlive(u)'
  <2>1. SameThread(u)
    BY <1>1, <1>5, StepFrame
  <2>2. self[u] # self[t] /\ self[t] \notin Waiting(u)
    BY <1>1, <1>2, <1>5 DEF RefsInv, ExclusiveInv
  <2>3. ASSUME NEW o \in Objects, Cleans(u, o) \/ (op[u] \in ClearOps /\ self[u] = o)
        PROVE  self[t] # o
    BY <2>2, <2>3 DEF Cleans
  <2>4. pc[u] \in UnrefLate => life'[self[u]] = "live"
    <3>1. pc[u] \in UnrefLate => life[self[u]] = "live" /\ self[u] \in Objects
      BY SelfType DEF RefsInv, AliveInv, KeptAlive, UnrefLate
    <3> QED
      BY <1>3, <2>2, <3>1
  <2> QED
    BY <1>1, <1>3, <2>1, <2>3, <2>4, StillAlive
<1> QED
  BY <1>4, <1>5 DEF AliveInv

(* WeakNew preserves AliveInv.                                             *)
LEMMA AliveWeakNew ==
  ASSUME RefsInv, Freedoms = {}, NEW t \in Threads, WeakNew(t)
  PROVE  AliveInv'
<1>1. TypeOK /\ Step(t) /\ self[t] \in Objects /\ outer[t] = <<>> /\ held[t][self[t]] > 0
  BY NoOuter, SelfType
     DEF WeakNew, At, RefsInv, Step, WeakStep, WeakPcs, WeakNewPcs, AliveInv,
         KeptAlive
<1>2. self'[t] = self[t] /\ outer'[t] = <<>> /\ pc'[t] = "weak_unlock" /\ op'[t] = op[t]
  BY <1>1 DEF WeakNew, Goto, TypeOK, localVars
<1>3. /\ \A v \in Threads : held'[v] = held[v]
      /\ \A o \in Objects : weak_ref[o] # NULL \/ o # self[t] => weak_ref'[o] = weak_ref[o]
  <2>1. CASE UNCHANGED heapVars
    BY <2>1 DEF heapVars
  <2>2. ASSUME NEW w \in WeakRefs, y_WeakRef_new(self[t], w), weak_ref[self[t]] = NULL
        PROVE  /\ \A v \in Threads : held'[v] = held[v]
               /\ \A o \in Objects :
                    weak_ref[o] # NULL \/ o # self[t] => weak_ref'[o] = weak_ref[o]
    <3>1. self[t] \in Holders /\ \A v \in Threads : v # self[t] /\ v \in Holders
      BY <1>1, Kinds
    <3> QED
      BY <1>1, <2>2, <3>1 DEF y_WeakRef_new, TypeOK
  <2> QED
    BY <2>1, <2>2 DEF WeakNew
<1>4. ASSUME NEW o \in Objects, life[o] # "unborn"
      PROVE  /\ life'[o] = life[o]
             /\ o \in WeakRefs => target'[o] = target[o]
             /\ \A h \in Holders : held'[h][o] = held[h][o]
  <2>1. CASE UNCHANGED heapVars
    BY <2>1 DEF heapVars
  <2>2. ASSUME NEW w \in WeakRefs, y_WeakRef_new(self[t], w)
        PROVE  /\ life'[o] = life[o]
               /\ o \in WeakRefs => target'[o] = target[o]
               /\ \A h \in Holders : held'[h][o] = held[h][o]
    <3>1. o # w /\ w \in Objects /\ self[t] \in Holders
      BY <1>1, <1>4, <2>2, Kinds DEF y_WeakRef_new
    <3> QED
      BY <1>1, <2>2, <3>1 DEF y_WeakRef_new, TypeOK
  <2> QED
    BY <2>1, <2>2 DEF WeakNew
<1>5. KeptAlive(t)'
  <2>1. op[t] \notin ClearOps \cup {"destroy"}
    BY DEF WeakNew, At, RefsInv, ControlInv, DestroyPcs, ClearOps
  <2>2. \A o \in Objects : ~Cleans(t, o)'
    BY <1>2, NothingCleaned DEF WeakPcs
  <2> QED
    BY <1>1, <1>2, <1>3, <2>1, <2>2
    DEF KeptAlive, RefPcs, UnrefEarly, UnrefLate, DerefPcs, WeakPcs
<1>6. ASSUME NEW u \in Threads, u # t
      PROVE  KeptAlive(u)'
  <2>1. SameThread(u)
    BY <1>1, <1>6, StepFrame
  <2>2. ASSUME NEW o \in Objects, Cleans(u, o) \/ (op[u] \in ClearOps /\ self[u] = o)
        PROVE  self[t] # o /\ life[o] # "unborn"
    <3>1. CASE Cleans(u, o)
      BY <1>6, <3>1, UnbornUnused DEF RefsInv, ExclusiveInv
    <3>2. CASE op[u] \in ClearOps /\ self[u] = o
      <4>1. SoleUser(u, o)
        BY <3>2 DEF RefsInv, AliveInv, KeptAlive
      <4> QED
        BY <1>1, <1>6, <3>2, <4>1, UnbornUnused, Kinds DEF SoleUser
    <3> QED
      BY <2>2, <3>1, <3>2
  <2>3. pc[u] \in UnrefLate => life[self[u]] = "live" /\ self[u] \in Objects
    BY SelfType DEF RefsInv, AliveInv, KeptAlive, UnrefLate
  <2>4. pc[u] \in DerefPcs => target'[self[u]] = target[self[u]]
    <3>1. pc[u] \in DerefPcs => self[u] \in WeakRefs /\ self[u] \in Objects
      BY Kinds DEF RefsInv, ControlInv
    <3> QED
      BY <1>4, <3>1, UnbornUnused
  <2> QED
    BY <1>3, <1>4, <2>1, <2>2, <2>3, <2>4, Kinds, StillAlive
<1> QED
  BY <1>5, <1>6 DEF AliveInv

(* Give preserves AliveInv.                                                *)
LEMMA AliveGive ==
  ASSUME RefsInv, Freedoms = {}, NEW t \in Threads, NEW u \in Threads, NEW o \in Objects,
         Give(t, u, o)
  PROVE  AliveInv'
<1>1. /\ TypeOK /\ t \in Holders /\ u \in Holders /\ held[t][o] > 0
      /\ UNCHANGED <<life, weak_ref, target, localVars, pc, self>>
  BY Kinds DEF Give, Uses, RefsInv
<1>2. \A v \in Threads : SameThread(v)
  BY <1>1 DEF SameThread, localVars
<1>3. ASSUME NEW v \in Threads
      PROVE  KeptAlive(v)'
  <2>1. CASE pc[v] = "idle"
    <3>1. outer[v] = <<>> /\ op[v] = "none"
      BY <2>1 DEF RefsInv, ControlInv
    <3> QED
      BY <1>2, <2>1, <3>1, IdleAlive DEF SameThread
  <2>2. CASE pc[v] # "idle"
    <3>1. v # t /\ v # u
      BY <2>2 DEF Give, At
    <3>2. \A p \in Objects : held'[v][p] = held[v][p]
      BY <1>1, <3>1, Kinds DEF Give, TypeOK
    <3>3. ASSUME NEW p \in Objects, Cleans(v, p) \/ (op[v] \in ClearOps /\ self[v] = p)
          PROVE  \A h \in Holders : held'[h][p] = held[h][p]
      <4>1. CASE Cleans(v, p)
        BY <1>1, <3>1, <4>1, OwnedNotCleaned DEF Give, TypeOK
      <4>2. CASE op[v] \in ClearOps /\ self[v] = p
        <5>1. SoleUser(v, p)
          BY <4>2 DEF RefsInv, AliveInv, KeptAlive
        <5>2. p # o
          BY <1>1, <3>1, <5>1 DEF SoleUser
        <5> QED
          BY <1>1, <5>2 DEF Give, TypeOK
      <4> QED
        BY <3>3, <4>1, <4>2
    <3>4. pc[v] \in UnrefLate => life[self[v]] = "live"
      BY DEF RefsInv, AliveInv, KeptAlive
    <3> QED
      BY <1>1, <1>2, <3>2, <3>3, <3>4, StillAlive
  <2> QED
    BY <2>1, <2>2
<1> QED
  BY <1>3 DEF AliveInv

(* Create preserves AliveInv.                                              *)
LEMMA AliveCreate ==
  ASSUME RefsInv, Freedoms = {}, NEW t \in Threads, NEW o \in Referents,
         Create(t, o)
  PROVE  AliveInv'
<1>1. /\ TypeOK /\ t \in Holders /\ o \in Objects /\ life[o] = "unborn"
      /\ UNCHANGED <<target, localVars, pc, self>>
  BY Kinds DEF Create, RefsInv
<1>2. \A v \in Threads : SameThread(v)
  BY <1>1 DEF SameThread, localVars
<1>3. \A p \in Objects : p # o =>
        /\ life'[p] = life[p] /\ weak_ref'[p] = weak_ref[p]
        /\ \A h \in Holders : held'[h][p] = held[h][p]
  BY <1>1 DEF Create, TypeOK
<1>4. ASSUME NEW v \in Threads
      PROVE  KeptAlive(v)'
  <2>1. self[v] # o /\ ~Cleans(v, o) /\ held[v][o] = 0
    BY <1>1, UnbornUnused, Kinds
  <2>2. pc[v] \in UnrefLate => life[self[v]] = "live" /\ self[v] \in Objects
    BY SelfType DEF RefsInv, AliveInv, KeptAlive, UnrefLate
  <2>3. \A p \in Objects : held[v][p] > 0 => held'[v][p] > 0
    BY <1>3, <2>1, Kinds
  <2>4. \A p \in Objects : held[v][p] > 0 => weak_ref'[p] = weak_ref[p]
    BY <1>3, <2>1, Kinds
  <2> QED
    BY <1>1, <1>2, <1>3, <2>1, <2>2, <2>3, <2>4, StillAlive
<1> QED
  BY <1>4 DEF AliveInv

(* CallDestroy preserves AliveInv.                                         *)
LEMMA AliveCallDestroy ==
  ASSUME RefsInv, Freedoms = {}, NEW t \in Threads, NEW o \in Objects,
         CallDestroy(t, o)
  PROVE  AliveInv'
<1>1. /\ TypeOK /\ o \in Objects /\ t \in Holders
      /\ UNCHANGED <<life, weak_ref, held, target>>
      /\ weak_ref[o] = NULL /\ SoleUser(t, o) /\ held[t][o] = 1
  BY Kinds DEF RefsInv, CallDestroy, Call, heapVars
<1>2. /\ \A u \in Threads \ {t} : SameThread(u)
      /\ self'[t] = o /\ outer'[t] = <<>> /\ pc'[t] = "destroy" /\ op'[t] = "destroy"
  BY <1>1
     DEF CallDestroy, Call, Goto, At, SameThread, RefsInv, TypeOK, ControlInv
<1>3. life[o] = "live"
  BY <1>1, Owned DEF RefsInv
<1>4. ASSUME NEW u \in Threads, u # t
      PROVE  KeptAlive(u)'
  <2>1. pc[u] \in UnrefLate => life[self[u]] = "live"
    BY DEF RefsInv, AliveInv, KeptAlive
  <2> QED
    BY <1>1, <1>2, <1>4, <2>1, StillAlive
<1>5. KeptAlive(t)'
  <2>1. pc'[t] \notin RefPcs \cup UnrefEarly \cup UnrefLate \cup WeakPcs \cup DerefPcs
    BY <1>2 DEF RefPcs, UnrefEarly, UnrefLate, WeakPcs, WeakNewPcs, DerefPcs
  <2>2. ASSUME NEW p \in Objects, Cleans(t, p)'
        PROVE  p = o
    BY <1>2, <2>2 DEF Cleans, Waiting
  <2>3. SoleUser(t, o)'
    BY <1>1 DEF SoleUser
  <2> QED
    BY <1>1, <1>2, <1>3, <2>1, <2>2, <2>3 DEF KeptAlive
<1> QED
  BY <1>4, <1>5 DEF AliveInv

(* A step that goes on with the same object, takes no reference away and   *)
(* does not turn to another part of the code.                              *)
LEMMA GotoAlive ==
  ASSUME RefsInv, NEW t \in Threads, Step(t),
         UNCHANGED <<life, weak_ref, held, self, outer, op, doCleanup>>,
         \A w \in WeakRefs : target'[w] \in {target[w], NULL},
         NEW l, pc' = [pc EXCEPT ![t] = l], l # "free",
         l \in RefPcs => pc[t] \in RefPcs,
         l \in UnrefEarly => pc[t] \in UnrefEarly,
         l \in UnrefLate => pc[t] \in UnrefLate,
         l \in WeakPcs => pc[t] \in WeakPcs,
         l \in DerefPcs => pc[t] \in DerefPcs,
         l \in DestroyPcs /\ op[t] \notin ClearOps => Cleans(t, self[t]),
         pc[t] # "free"
  PROVE  AliveInv'
<1>1. /\ TypeOK /\ pc'[t] = l /\ self'[t] = self[t] /\ outer'[t] = outer[t]
      /\ op'[t] = op[t] /\ KeptAlive(t)
  BY DEF RefsInv, TypeOK, AliveInv
<1>2. \A o \in Objects : Cleans(t, o)' => Cleans(t, o)
  BY <1>1 DEF Cleans, Waiting
<1>3. pc'[t] \in RefPcs =>
       \/ held'[t][self'[t]] > 0
       \/ op'[t] = "weak_ref" /\ \E o \in Objects : held'[t][o] > 0 /\ weak_ref'[o] = self'[t]
  BY <1>1 DEF KeptAlive
<1>4. pc'[t] \in UnrefEarly =>
       IF outer'[t] = <<>> THEN held'[t][self'[t]] > 0
                           ELSE weak_ref'[Head(outer'[t])] = self'[t]
  BY <1>1 DEF KeptAlive
<1>5. pc'[t] \in UnrefLate => life'[self'[t]] = "live"
  BY <1>1 DEF KeptAlive
<1>6. pc'[t] \in WeakPcs => held'[t][self'[t]] > 0
  BY <1>1 DEF KeptAlive
<1>7. ASSUME pc'[t] \in DerefPcs
      PROVE  /\ held'[t][self'[t]] > 0
             /\ target'[self'[t]] # NULL => held'[t][target'[self'[t]]] > 0
  <2>1. self[t] \in WeakRefs
    BY <1>1, <1>7 DEF RefsInv, ControlInv
  <2> QED
    BY <1>1, <1>7, <2>1 DEF KeptAlive
<1>8. op'[t] \in ClearOps =>
       /\ held'[t][self'[t]] > 0
       /\ SoleUser(t, self[t])'
       /\ weak_ref'[self'[t]] = NULL
  BY <1>1 DEF KeptAlive, SoleUser
<1>9. ASSUME NEW o \in Objects, Cleans(t, o)'
      PROVE  /\ life'[o] = IF self'[t] = o /\ pc'[t] = "free" THEN "deleted" ELSE "live"
             /\ IF op'[t] = "destroy"
                THEN /\ SoleUser(t, o)'
                     /\ held'[t][o] = IF pc'[t] = "free" THEN 0 ELSE 1
                     /\ weak_ref'[o] = NULL
                ELSE Unowned(o)'
  <2>1. /\ life[o] = "live"
        /\ IF op[t] = "destroy"
           THEN SoleUser(t, o) /\ held[t][o] = 1 /\ weak_ref[o] = NULL
           ELSE Unowned(o)
    BY <1>1, <1>2, <1>9 DEF KeptAlive
  <2>2. (SoleUser(t, o) => SoleUser(t, o)') /\ (Unowned(o) => Unowned(o)')
    BY DEF SoleUser, Unowned
  <2> QED
    BY <1>1, <2>1, <2>2
<1>10. KeptAlive(t)'
  BY <1>1, <1>3, <1>4, <1>5, <1>6, <1>7, <1>8, <1>9 DEF KeptAlive
<1> QED
  BY <1>10, OthersAlive

(* Clear preserves AliveInv.                                               *)
LEMMA AliveClear ==
  ASSUME RefsInv, Freedoms = {}, NEW t \in Threads, Clear(t)
  PROVE  AliveInv'
<1>1. /\ TypeOK /\ Step(t) /\ self[t] \in Objects /\ pc[t] = "clear"
      /\ UNCHANGED <<life, weak_ref, held, target>>
  BY SelfType DEF Clear, At, RefsInv, Step, DestroyStep, heapVars
<1>2. CASE weak_ref[self[t]] # NULL
  <2>1. op[t] = "unref" /\ Cleans(t, self[t])
    BY <1>1, <1>2, ClearDrops
  <2>2. /\ self'[t] = weak_ref[self[t]] /\ outer'[t] = <<self[t]>> \o outer[t]
        /\ pc'[t] = "unref_enter" /\ op'[t] = "unref"
    BY <1>1, <1>2, <2>1 DEF Clear, Goto, EndClear, TypeOK
  <2>3. outer'[t] # <<>> /\ Head(outer'[t]) = self[t]
    BY <1>1, <2>2, Pushed
  <2>4. \A p : p \in Waiting(t)' <=> p = self[t] \/ p \in Waiting(t)
    BY <1>1, <2>2, Pushed
  <2>5. ASSUME NEW p \in Objects, Cleans(t, p)'
        PROVE  life'[p] = "live" /\ Unowned(p)'
    <3>1. Cleans(t, p)
      BY <2>1, <2>2, <2>4, <2>5 DEF Cleans, UnrefLate, DestroyPcs
    <3>2. life[p] = "live" /\ Unowned(p)
      BY <1>1, <2>1, <3>1 DEF RefsInv, AliveInv, KeptAlive
    <3> QED
      BY <1>1, <3>2 DEF Unowned
  <2>6. pc'[t] \notin RefPcs \cup UnrefLate \cup WeakPcs \cup DerefPcs
    BY <2>2 DEF RefPcs, UnrefLate, WeakPcs, WeakNewPcs, DerefPcs
  <2>7. KeptAlive(t)'
    BY <1>1, <2>2, <2>3, <2>5, <2>6 DEF KeptAlive, ClearOps
  <2> QED
    BY <1>1, <2>7, OthersAlive
<1>3. CASE weak_ref[self[t]] = NULL
  <2>1. CASE Return(t)
    BY <1>1, <2>1, AliveReturn
  <2>2. CASE ~Return(t)
    <3>1. /\ UNCHANGED <<self, outer, op, doCleanup>>
          /\ pc' = [pc EXCEPT ![t] = "mark"]
      BY <1>3, <2>2 DEF Clear, EndClear, Goto, localVars
    <3>2. op[t] \notin ClearOps => Cleans(t, self[t])
      BY <1>1 DEF Cleans, DestroyPcs
    <3> QED
      BY <1>1, <3>1, <3>2, GotoAlive
         DEF RefPcs, UnrefEarly, UnrefLate, WeakPcs, WeakNewPcs, DerefPcs
  <2> QED
    BY <2>1, <2>2
<1> QED
  BY <1>2, <1>3

(* UnrefUnlock and UnrefUnlockWeak preserve AliveInv.                      *)
LEMMA AliveUnlock ==
  ASSUME RefsInv, Freedoms = {}, NEW t \in Threads, UnrefUnlock(t) \/ UnrefUnlockWeak(t)
  PROVE  AliveInv'
<1>1. /\ Step(t) /\ pc[t] \in UnrefLate
      /\ UNCHANGED <<life, weak_ref, held, target>>
  BY DEF UnrefUnlock, UnrefUnlockWeak, At, Step, UnrefStep, UnrefLate, heapVars
<1>2. CASE Return(t)
  BY <1>1, <1>2, AliveReturn DEF UnrefLate
<1>3. CASE ~Return(t)
  <2>1. /\ UNCHANGED <<self, outer, op, doCleanup>>
        /\ \E l \in UnrefLate \cup {"destroy"} :
             pc' = [pc EXCEPT ![t] = l] /\ (l = "destroy" => doCleanup[t])
    BY <1>3 DEF UnrefUnlock, UnrefUnlockWeak, EndUnref, Goto, localVars, UnrefLate
  <2>2. doCleanup[t] => Cleans(t, self[t])
    BY <1>1 DEF Cleans
  <2>3. PICK l \in UnrefLate \cup {"destroy"} :
          pc' = [pc EXCEPT ![t] = l] /\ (l = "destroy" => doCleanup[t])
    BY <2>1
  <2>4. /\ l \notin RefPcs \cup UnrefEarly \cup WeakPcs \cup DerefPcs /\ l # "free"
        /\ pc[t] # "free" /\ (l \in DestroyPcs => l = "destroy")
    BY <1>1, <2>3
       DEF RefPcs, UnrefEarly, UnrefLate, WeakPcs, WeakNewPcs, DerefPcs, DestroyPcs
  <2> QED
    BY <1>1, <2>1, <2>2, <2>3, <2>4, GotoAlive
<1> QED
  BY <1>2, <1>3

(* What a client call begins with.                                         *)
LEMMA Called ==
  ASSUME RefsInv, NEW t \in Threads, NEW o \in Objects, NEW name, NEW label,
         Call(t, o, name, label)
  PROVE  /\ \A u \in Threads \ {t} : SameThread(u)
         /\ self'[t] = o /\ outer'[t] = <<>> /\ pc'[t] = label /\ op'[t] = name
         /\ ~doCleanup'[t] /\ held[t][o] > 0
         /\ UNCHANGED <<life, weak_ref, held, target>>
  BY DEF Call, Uses, Goto, At, SameThread, RefsInv, TypeOK, ControlInv, heapVars

(* A call that cleans nothing up keeps alive what it works on.             *)
LEMMA AliveCall ==
  ASSUME RefsInv, NEW t \in Threads, NEW o \in Objects, NEW name, NEW label,
         Call(t, o, name, label),
         \/ name = "ref" /\ label = "ref_enter"
         \/ name = "unref" /\ label = "unref_enter"
         \/ name = "weak_ref" /\ label = "weak_check"
         \/ /\ name = "deref" /\ label = "deref_check"
            /\ target[o] # NULL => held[t][target[o]] > 0
         \/ /\ name \in ClearOps /\ label = "clear"
            /\ SoleUser(t, o) /\ weak_ref[o] = NULL
  PROVE  AliveInv'
<1>1. /\ \A u \in Threads \ {t} : SameThread(u)
      /\ self'[t] = o /\ outer'[t] = <<>> /\ pc'[t] = label /\ op'[t] = name
      /\ ~doCleanup'[t] /\ held[t][o] > 0
      /\ UNCHANGED <<life, weak_ref, held, target>>
  BY Called
<1>2. ASSUME NEW u \in Threads, u # t
      PROVE  KeptAlive(u)'
  <2>1. pc[u] \in UnrefLate => life[self[u]] = "live"
    BY DEF RefsInv, AliveInv, KeptAlive
  <2> QED
    BY <1>1, <1>2, <2>1, StillAlive
<1>3. \A p \in Objects : ~Cleans(t, p)'
  BY <1>1 DEF Cleans, Waiting, DestroyPcs, ClearOps
<1>4. SoleUser(t, o) => SoleUser(t, o)'
  BY <1>1 DEF SoleUser
<1>5. KeptAlive(t)'
  BY <1>1, <1>3, <1>4
     DEF KeptAlive, RefPcs, UnrefEarly, UnrefLate, WeakPcs, WeakNewPcs, DerefPcs,
         ClearOps
<1> QED
  BY <1>2, <1>5 DEF AliveInv

(* A step that leaves the calls and the objects alone.                     *)
LEMMA SameAlive ==
  ASSUME RefsInv, UNCHANGED <<life, weak_ref, held, target, pc, self, outer, op, doCleanup>>
  PROVE  AliveInv'
<1>1. ASSUME NEW t \in Threads
      PROVE  KeptAlive(t)'
  <2>1. KeptAlive(t)
    BY DEF RefsInv, AliveInv
  <2>2. \A o \in Objects : Cleans(t, o)' <=> Cleans(t, o)
    BY DEF Cleans, Waiting
  <2>3. \A o : (SoleUser(t, o)' <=> SoleUser(t, o)) /\ (Unowned(o)' <=> Unowned(o))
    BY DEF SoleUser, Unowned
  <2> QED
    BY <2>1, <2>2, <2>3 DEF KeptAlive
<1> QED
  BY <1>1 DEF AliveInv

(* Every step of clients that keep to the rules preserves AliveInv.        *)
LEMMA AliveStep ==
  ASSUME RefsInv, Freedoms = {}, [Next]_vars
  PROVE  AliveInv'
<1>1. ASSUME NEW t \in Threads, RefEnter(t)
      PROVE  AliveInv'
  <2>1. /\ Step(t) /\ UNCHANGED <<life, weak_ref, held, self, outer, op, doCleanup>>
        /\ \A w \in WeakRefs : target'[w] \in {target[w], NULL}
    BY <1>1 DEF RefEnter, RefStep, Step, heapVars, localVars, RefsInv, TypeOK
  <2> QED
    BY <1>1, <2>1, GotoAlive
       DEF RefEnter, At, Goto, RefPcs, UnrefEarly, UnrefLate, WeakPcs,
           WeakNewPcs, DerefPcs, DestroyPcs
<1>2. ASSUME NEW t \in Threads, RefCheck(t)
      PROVE  AliveInv'
  <2>1. Step(t) /\ UNCHANGED <<life, weak_ref, held, target>>
    BY <1>2 DEF RefCheck, RefStep, Step, heapVars
  <2>2. CASE Return(t)
    BY <1>2, <2>1, <2>2, AliveReturn DEF RefCheck, At
  <2>3. CASE ~Return(t)
    <3>1. UNCHANGED <<self, outer, op, doCleanup>>
      BY <1>2, <2>3 DEF RefCheck, localVars
    <3>2. pc[t] # "free"
      BY <1>2 DEF RefCheck, At, Cleans, DestroyPcs
    <3> QED
      BY <1>2, <2>1, <2>3, <3>1, <3>2, GotoAlive
         DEF RefCheck, At, Goto, RefPcs, UnrefEarly, UnrefLate, WeakPcs,
             WeakNewPcs, DerefPcs, DestroyPcs
  <2> QED
    BY <2>2, <2>3
<1>3. ASSUME NEW t \in Threads, RefWeak(t)
      PROVE  AliveInv'
  <2>1. /\ Step(t) /\ UNCHANGED <<life, weak_ref, held, self, outer, op, doCleanup>>
        /\ \A w \in WeakRefs : target'[w] \in {target[w], NULL}
    BY <1>3 DEF RefWeak, RefStep, Step, heapVars, localVars, RefsInv, TypeOK
  <2> QED
    BY <1>3, <2>1, GotoAlive
       DEF RefWeak, At, Goto, RefPcs, UnrefEarly, UnrefLate, WeakPcs,
           WeakNewPcs, DerefPcs, DestroyPcs
<1>4. ASSUME NEW t \in Threads, RefLockWeak(t)
      PROVE  AliveInv'
  <2>1. /\ Step(t) /\ UNCHANGED <<life, weak_ref, held, self, outer, op, doCleanup>>
        /\ \A w \in WeakRefs : target'[w] \in {target[w], NULL}
    BY <1>4 DEF RefLockWeak, RefStep, Step, heapVars, localVars, RefsInv, TypeOK
  <2> QED
    BY <1>4, <2>1, GotoAlive
       DEF RefLockWeak, At, Goto, RefPcs, UnrefEarly, UnrefLate, WeakPcs,
           WeakNewPcs, DerefPcs, DestroyPcs
<1>5. ASSUME NEW t \in Threads, RefLock(t)
      PROVE  AliveInv'
  BY <1>5, AliveRefLock
<1>6. ASSUME NEW t \in Threads, RefUnlock(t)
      PROVE  AliveInv'
  <2>1. Step(t) /\ UNCHANGED <<life, weak_ref, held, target>>
    BY <1>6 DEF RefUnlock, RefStep, Step, heapVars
  <2>2. CASE Return(t)
    BY <1>6, <2>1, <2>2, AliveReturn DEF RefUnlock, At
  <2>3. CASE ~Return(t)
    <3>1. UNCHANGED <<self, outer, op, doCleanup>>
      BY <1>6, <2>3 DEF RefUnlock, localVars
    <3>2. pc[t] # "free"
      BY <1>6 DEF RefUnlock, At, Cleans, DestroyPcs
    <3> QED
      BY <1>6, <2>1, <2>3, <3>1, <3>2, GotoAlive
         DEF RefUnlock, At, Goto, RefPcs, UnrefEarly, UnrefLate, WeakPcs,
             WeakNewPcs, DerefPcs, DestroyPcs
  <2> QED
    BY <2>2, <2>3
<1>7. ASSUME NEW t \in Threads, RefUnlockWeak(t)
      PROVE  AliveInv'
  BY <1>7, AliveReturn DEF RefUnlockWeak, At, RefStep, Step, heapVars
<1>8. ASSUME NEW t \in Threads, UnrefEnter(t)
      PROVE  AliveInv'
  <2>1. /\ Step(t) /\ UNCHANGED <<life, weak_ref, held, self, outer, op, doCleanup>>
        /\ \A w \in WeakRefs : target'[w] \in {target[w], NULL}
    BY <1>8 DEF UnrefEnter, UnrefStep, Step, heapVars, localVars, RefsInv, TypeOK
  <2> QED
    BY <1>8, <2>1, GotoAlive
       DEF UnrefEnter, At, Goto, RefPcs, UnrefEarly, UnrefLate, WeakPcs,
           WeakNewPcs, DerefPcs, DestroyPcs
<1>9. ASSUME NEW t \in Threads, UnrefCheck(t)
      PROVE  AliveInv'
  <2>1. Step(t) /\ UNCHANGED <<life, weak_ref, held, target>>
    BY <1>9 DEF UnrefCheck, UnrefStep, Step, heapVars
  <2>2. CASE Return(t)
    BY <1>9, <2>1, <2>2, AliveReturn DEF UnrefCheck, At
  <2>3. CASE ~Return(t)
    <3>1. UNCHANGED <<self, outer, op, doCleanup>>
      BY <1>9, <2>3 DEF UnrefCheck, localVars
    <3>2. pc[t] # "free"
      BY <1>9 DEF UnrefCheck, At, Cleans, DestroyPcs
    <3> QED
      BY <1>9, <2>1, <2>3, <3>1, <3>2, GotoAlive
         DEF UnrefCheck, At, Goto, RefPcs, UnrefEarly, UnrefLate, WeakPcs,
             WeakNewPcs, DerefPcs, DestroyPcs
  <2> QED
    BY <2>2, <2>3
<1>10. ASSUME NEW t \in Threads, UnrefWeak(t)
      PROVE  AliveInv'
  <2>1. /\ Step(t) /\ UNCHANGED <<life, weak_ref, held, self, outer, op, doCleanup>>
        /\ \A w \in WeakRefs : target'[w] \in {target[w], NULL}
    BY <1>10 DEF UnrefWeak, UnrefStep, Step, heapVars, localVars, RefsInv, TypeOK
  <2> QED
    BY <1>10, <2>1, GotoAlive
       DEF UnrefWeak, At, Goto, RefPcs, UnrefEarly, UnrefLate, WeakPcs,
           WeakNewPcs, DerefPcs, DestroyPcs
<1>11. ASSUME NEW t \in Threads, UnrefLockWeak(t)
      PROVE  AliveInv'
  <2>1. /\ Step(t) /\ UNCHANGED <<life, weak_ref, held, self, outer, op, doCleanup>>
        /\ \A w \in WeakRefs : target'[w] \in {target[w], NULL}
    BY <1>11 DEF UnrefLockWeak, UnrefStep, Step, heapVars, localVars, RefsInv, TypeOK
  <2> QED
    BY <1>11, <2>1, GotoAlive
       DEF UnrefLockWeak, At, Goto, RefPcs, UnrefEarly, UnrefLate, WeakPcs,
           WeakNewPcs, DerefPcs, DestroyPcs
<1>12. ASSUME NEW t \in Threads, UnrefLock(t)
      PROVE  AliveInv'
  BY <1>12, AliveUnrefLock
<1>13. ASSUME NEW t \in Threads, UnrefUnlock(t)
      PROVE  AliveInv'
  BY <1>13, AliveUnlock
<1>14. ASSUME NEW t \in Threads, UnrefUnset(t)
      PROVE  AliveInv'
  <2>1. /\ Step(t) /\ UNCHANGED <<life, weak_ref, held, self, outer, op, doCleanup>>
        /\ \A w \in WeakRefs : target'[w] \in {target[w], NULL}
    BY <1>14 DEF UnrefUnset, UnrefStep, Step, heapVars, localVars, RefsInv, TypeOK
  <2> QED
    BY <1>14, <2>1, GotoAlive
       DEF UnrefUnset, At, Goto, RefPcs, UnrefEarly, UnrefLate, WeakPcs,
           WeakNewPcs, DerefPcs, DestroyPcs
<1>15. ASSUME NEW t \in Threads, UnrefUnlockWeak(t)
      PROVE  AliveInv'
  BY <1>15, AliveUnlock
<1>16. ASSUME NEW t \in Threads, Destroy(t)
      PROVE  AliveInv'
  <2>1. Step(t) /\ UNCHANGED <<life, weak_ref, held, target>>
    BY <1>16 DEF Destroy, DestroyStep, Step, heapVars
  <2>2. CASE Return(t)
    BY <1>16, <2>1, <2>2, AliveReturn DEF Destroy, At
  <2>3. CASE ~Return(t)
    <3>1. UNCHANGED <<self, outer, op, doCleanup>>
      BY <1>16, <2>3 DEF Destroy, localVars
    <3>2. op[t] \notin ClearOps => Cleans(t, self[t])
      BY <1>16 DEF Destroy, At, Cleans, DestroyPcs
    <3> QED
      BY <1>16, <2>1, <2>3, <3>1, <3>2, GotoAlive
         DEF Destroy, At, Goto, RefPcs, UnrefEarly, UnrefLate, WeakPcs,
             WeakNewPcs, DerefPcs, DestroyPcs
  <2> QED
    BY <2>2, <2>3
<1>17. ASSUME NEW t \in Threads, Clear(t)
      PROVE  AliveInv'
  BY <1>17, AliveClear
<1>18. ASSUME NEW t \in Threads, ClearNull(t)
      PROVE  AliveInv'
  BY <1>18, AliveClearNull
<1>19. ASSUME NEW t \in Threads, Mark(t)
      PROVE  AliveInv'
  BY <1>19, AliveMark
<1>20. ASSUME NEW t \in Threads, Free(t)
      PROVE  AliveInv'
  BY <1>20, AliveFree
<1>21. ASSUME NEW t \in Threads, WeakCheck(t)
      PROVE  AliveInv'
  <2>1. /\ Step(t) /\ UNCHANGED <<life, weak_ref, held, self, outer, op, doCleanup>>
        /\ \A w \in WeakRefs : target'[w] \in {target[w], NULL}
    BY <1>21 DEF WeakCheck, WeakStep, Step, heapVars, localVars, RefsInv, TypeOK
  <2> QED
    BY <1>21, <2>1, GotoAlive
       DEF WeakCheck, At, Goto, RefPcs, UnrefEarly, UnrefLate, WeakPcs,
           WeakNewPcs, DerefPcs, DestroyPcs
<1>22. ASSUME NEW t \in Threads, WeakLock(t)
      PROVE  AliveInv'
  <2>1. /\ Step(t) /\ UNCHANGED <<life, weak_ref, held, self, outer, op, doCleanup>>
        /\ \A w \in WeakRefs : target'[w] \in {target[w], NULL}
    BY <1>22 DEF WeakLock, WeakStep, Step, heapVars, localVars, RefsInv, TypeOK
  <2> QED
    BY <1>22, <2>1, GotoAlive
       DEF WeakLock, At, Goto, RefPcs, UnrefEarly, UnrefLate, WeakPcs,
           WeakNewPcs, DerefPcs, DestroyPcs
<1>23. ASSUME NEW t \in Threads, WeakNew(t)
      PROVE  AliveInv'
  BY <1>23, AliveWeakNew
<1>24. ASSUME NEW t \in Threads, WeakUnlock(t)
      PROVE  AliveInv'
  <2>1. /\ Step(t) /\ UNCHANGED <<life, weak_ref, held, self, outer, op, doCleanup>>
        /\ \A w \in WeakRefs : target'[w] \in {target[w], NULL}
    BY <1>24 DEF WeakUnlock, WeakStep, Step, heapVars, localVars, RefsInv, TypeOK
  <2> QED
    BY <1>24, <2>1, GotoAlive
       DEF WeakUnlock, At, Goto, RefPcs, UnrefEarly, UnrefLate, WeakPcs,
           WeakNewPcs, DerefPcs, DestroyPcs
<1>25. ASSUME NEW t \in Threads, WeakRefTail(t)
      PROVE  AliveInv'
  BY <1>25, AliveWeakRefTail
<1>26. ASSUME NEW t \in Threads, DerefCheck(t)
      PROVE  AliveInv'
  <2>1. Step(t) /\ UNCHANGED <<life, weak_ref, held, target>>
    BY <1>26 DEF DerefCheck, WeakStep, Step, heapVars
  <2>2. CASE Return(t)
    BY <1>26, <2>1, <2>2, AliveReturn DEF DerefCheck, At
  <2>3. CASE ~Return(t)
    <3>1. UNCHANGED <<self, outer, op, doCleanup>>
      BY <1>26, <2>3 DEF DerefCheck, localVars
    <3>2. pc[t] # "free"
      BY <1>26 DEF DerefCheck, At, Cleans, DestroyPcs
    <3> QED
      BY <1>26, <2>1, <2>3, <3>1, <3>2, GotoAlive
         DEF DerefCheck, At, Goto, RefPcs, UnrefEarly, UnrefLate, WeakPcs,
             WeakNewPcs, DerefPcs, DestroyPcs
  <2> QED
    BY <2>2, <2>3
<1>27. ASSUME NEW t \in Threads, DerefLock(t)
      PROVE  AliveInv'
  <2>1. /\ Step(t) /\ UNCHANGED <<life, weak_ref, held, self, outer, op, doCleanup>>
        /\ \A w \in WeakRefs : target'[w] \in {target[w], NULL}
    BY <1>27 DEF DerefLock, WeakStep, Step, heapVars, localVars, RefsInv, TypeOK
  <2> QED
    BY <1>27, <2>1, GotoAlive
       DEF DerefLock, At, Goto, RefPcs, UnrefEarly, UnrefLate, WeakPcs,
           WeakNewPcs, DerefPcs, DestroyPcs
<1>28. ASSUME NEW t \in Threads, DerefUnlock(t)
      PROVE  AliveInv'
  BY <1>28, AliveDerefUnlock
<1>29. ASSUME NEW t \in Threads, NEW o \in Objects, CallRef(t, o)
      PROVE  AliveInv'
  BY <1>29, AliveCall DEF CallRef
<1>30. ASSUME NEW t \in Threads, NEW o \in Objects, CallUnref(t, o)
      PROVE  AliveInv'
  BY <1>30, AliveCall DEF CallUnref
<1>31. ASSUME NEW t \in Threads, NEW o \in Objects, ManualLock(t, o)
      PROVE  AliveInv'
  BY <1>31, SameAlive DEF ManualLock, heapVars
<1>32. ASSUME NEW t \in Threads, NEW o \in Objects, ManualUnlock(t, o)
      PROVE  AliveInv'
  BY <1>32, SameAlive DEF ManualUnlock, heapVars
<1>33. ASSUME NEW t \in Threads, NEW u \in Threads, NEW o \in Objects,
             Give(t, u, o)
      PROVE  AliveInv'
  BY <1>33, AliveGive
<1>34. ASSUME NEW t \in Threads, NEW o \in Referents, Create(t, o)
      PROVE  AliveInv'
  BY <1>34, AliveCreate
<1>35. ASSUME NEW t \in Threads, NEW o \in Objects, CallWeakRef(t, o)
      PROVE  AliveInv'
  BY <1>35, AliveCall DEF CallWeakRef
<1>36. ASSUME NEW t \in Threads, NEW o \in Objects, CallClear(t, o)
      PROVE  AliveInv'
  BY <1>36, AliveCall DEF CallClear, ClearableBy, ClearOps
<1>37. ASSUME NEW t \in Threads, NEW o \in Referents, NEW from \in Referents,
             CallAssign(t, o, from)
      PROVE  AliveInv'
  BY <1>37, AliveCall, Kinds DEF CallAssign, ClearableBy, ClearOps
<1>38. ASSUME NEW t \in Threads, NEW o \in Objects, CallDestroy(t, o)
      PROVE  AliveInv'
  BY <1>38, AliveCallDestroy
<1>39. ASSUME NEW t \in Threads, NEW w \in WeakRefs, CallDeref(t, w)
      PROVE  AliveInv'
  BY <1>39, AliveCall, Kinds DEF CallDeref, Uses
<1>40. CASE UNCHANGED vars
  BY <1>40, SameAlive DEF vars, heapVars, localVars
<1>41. ASSUME NEW t \in Threads, RefStep(t)
      PROVE  AliveInv'
  BY <1>1, <1>2, <1>3, <1>4, <1>5, <1>6, <1>7, <1>41 DEF RefStep
<1>42. ASSUME NEW t \in Threads, UnrefStep(t)
      PROVE  AliveInv'
  BY <1>8, <1>9, <1>10, <1>11, <1>12, <1>13, <1>14, <1>15, <1>42 DEF UnrefStep
<1>43. ASSUME NEW t \in Threads, DestroyStep(t)
      PROVE  AliveInv'
  BY <1>16, <1>17, <1>18, <1>19, <1>20, <1>43 DEF DestroyStep
<1>44. ASSUME NEW t \in Threads, WeakStep(t)
      PROVE  AliveInv'
  BY <1>21, <1>22, <1>23, <1>24, <1>25, <1>26, <1>27, <1>28, <1>44 DEF WeakStep
<1>45. ASSUME NEW t \in Threads, ClientStep(t)
      PROVE  AliveInv'
  BY <1>29, <1>30, <1>31, <1>32, <1>33, <1>34, <1>35, <1>36, <1>37, <1>38, <1>39,
     <1>45 DEF ClientStep
<1> QED
  BY <1>40, <1>41, <1>42, <1>43, <1>44, <1>45 DEF Next, Rest, Step

-----------------------------------------------------------------------------
(* ExclusiveInv: who cleans an object up is alone.                         *)

(* A step by t keeps the threads that clean up on their own if it neither  *)
(* starts to clean up what others work on nor turns to what they clean up. *)
LEMMA StillExclusive ==
  ASSUME RefsInv, NEW t \in Threads,
         \A u \in Threads \ {t} : SameThread(u),
         \A u \in Threads \ {t}, o \in Objects :
           /\ Cleans(t, o)' => self[u] # o /\ o \notin Waiting(u)
           /\ self'[t] = o \/ o \in Waiting(t)' => ~Cleans(u, o)
  PROVE  ExclusiveInv'
<1>1. ASSUME NEW u \in Threads, NEW v \in Threads, NEW o \in Objects,
             Cleans(u, o)', u # v
      PROVE  self'[v] # o /\ o \notin Waiting(v)'
  <2>1. CASE u = t
    BY <1>1, <2>1, SameCleans DEF SameThread
  <2>2. CASE u # t
    <3>1. Cleans(u, o)
      BY <1>1, <2>2, SameCleans
    <3>2. CASE v = t
      BY <2>2, <3>1, <3>2
    <3>3. CASE v # t
      BY <1>1, <3>1, <3>3, SameCleans DEF RefsInv, ExclusiveInv, SameThread
    <3> QED
      BY <3>2, <3>3
  <2> QED
    BY <2>1, <2>2
<1> QED
  BY <1>1 DEF ExclusiveInv

(* A client only works on what it owns.                                    *)
LEMMA CallExclusive ==
  ASSUME RefsInv, NEW t \in Threads, NEW o \in Objects, NEW name, NEW label,
         Call(t, o, name, label),
         label \in DestroyPcs /\ name \notin ClearOps =>
           \A u \in Threads \ {t} : self[u] # o
  PROVE  ExclusiveInv'
<1>1. /\ \A u \in Threads \ {t} : SameThread(u)
      /\ self'[t] = o /\ outer'[t] = <<>> /\ pc'[t] = label /\ op'[t] = name
      /\ ~doCleanup'[t]
  BY DEF Call, Goto, At, SameThread, RefsInv, TypeOK, ControlInv
<1>2. ASSUME NEW u \in Threads \ {t}, NEW p \in Objects
      PROVE  /\ Cleans(t, p)' => self[u] # p /\ p \notin Waiting(u)
             /\ self'[t] = p \/ p \in Waiting(t)' => ~Cleans(u, p)
  <2>1. ~Cleans(u, o)
    BY OwnedNotCleaned, Kinds DEF Call, Uses
  <2>2. o \notin Waiting(u)
    BY <2>1 DEF Cleans
  <2>3. Cleans(t, p)' => p = o /\ label \in DestroyPcs /\ name \notin ClearOps
    BY <1>1 DEF Cleans, Waiting
  <2> QED
    BY <1>1, <2>1, <2>2, <2>3 DEF Waiting
<1> QED
  BY <1>1, <1>2, StillExclusive

(* A step of t within what it works on already.                            *)
LEMMA NarrowExclusive ==
  ASSUME RefsInv, NEW t \in Threads, Step(t),
         \A p \in Objects :
           /\ Cleans(t, p)' => Cleans(t, p)
           /\ self'[t] = p \/ p \in Waiting(t)' => self[t] = p \/ p \in Waiting(t)
  PROVE  ExclusiveInv'
<1>1. \A u \in Threads \ {t} : SameThread(u)
  BY StepFrame DEF RefsInv
<1>2. ASSUME NEW u \in Threads \ {t}, NEW p \in Objects
      PROVE  /\ Cleans(t, p)' => self[u] # p /\ p \notin Waiting(u)
             /\ self'[t] = p \/ p \in Waiting(t)' => ~Cleans(u, p)
  BY DEF RefsInv, ExclusiveInv
<1> QED
  BY <1>1, <1>2, StillExclusive

(* The end of a call.                                                      *)
LEMMA ReturnExclusive ==
  ASSUME RefsInv, NEW t \in Threads, Step(t), Return(t)
  PROVE  ExclusiveInv'
<1>1. TypeOK /\ StackInv
  BY DEF RefsInv
<1>2. CASE outer[t] = <<>>
  <2>1. self'[t] = NULL /\ outer'[t] = <<>> /\ pc'[t] = "idle"
    BY <1>1, <1>2, Returned
  <2>2. ASSUME NEW p \in Objects
        PROVE  ~Cleans(t, p)' /\ self'[t] # p /\ p \notin Waiting(t)'
    BY <2>1, Kinds DEF Cleans, Waiting
  <2> QED
    BY <2>2, NarrowExclusive
<1>3. CASE outer[t] # <<>>
  <2>1. self'[t] = Head(outer[t]) /\ outer'[t] = Tail(outer[t])
    BY <1>1, <1>3, Returned
  <2>2. ASSUME NEW p \in Objects
        PROVE  Cleans(t, p)' \/ self'[t] = p \/ p \in Waiting(t)' => p \in Waiting(t)
    BY <1>1, <1>3, <2>1, Popped, WaitingType DEF Cleans
  <2>3. ASSUME NEW p \in Objects, p \in Waiting(t)
        PROVE  Cleans(t, p)
    BY <2>3 DEF Cleans
  <2> QED
    BY <2>2, <2>3, NarrowExclusive
<1> QED
  BY <1>2, <1>3

(* A step that goes on with the same object and does not start to clean it *)
(* up.                                                                     *)
LEMMA GotoExclusive ==
  ASSUME RefsInv, NEW t \in Threads, Step(t), UNCHANGED <<self, outer, op, doCleanup>>,
         NEW l, pc' = [pc EXCEPT ![t] = l],
         l \in DestroyPcs /\ op[t] \notin ClearOps => Cleans(t, self[t]),
         l \in UnrefLate => pc[t] \in UnrefLate
  PROVE  ExclusiveInv'
<1>1. pc'[t] = l /\ self'[t] = self[t] /\ outer'[t] = outer[t]
  BY DEF RefsInv, TypeOK
<1>2. ASSUME NEW p \in Objects
      PROVE  Cleans(t, p)' => Cleans(t, p)
  BY <1>1 DEF Cleans, Waiting
<1> QED
  BY <1>1, <1>2, NarrowExclusive DEF Waiting

(* A step that leaves the calls alone.                                     *)
LEMMA SameExclusive ==
  ASSUME RefsInv, UNCHANGED <<pc, self, outer, op, doCleanup>>
  PROVE  ExclusiveInv'
  BY DEF RefsInv, ExclusiveInv, Cleans, Waiting

(* CallRef preserves ExclusiveInv.                                         *)
LEMMA ExclusiveCallRef ==
  ASSUME RefsInv, Freedoms = {}, NEW t \in Threads, NEW o \in Objects,
         CallRef(t, o)
  PROVE  ExclusiveInv'
  BY CallExclusive DEF ClearOps, CallRef, DestroyPcs

(* CallUnref preserves ExclusiveInv.                                       *)
LEMMA ExclusiveCallUnref ==
  ASSUME RefsInv, Freedoms = {}, NEW t \in Threads, NEW o \in Objects,
         CallUnref(t, o)
  PROVE  ExclusiveInv'
  BY CallExclusive DEF ClearOps, CallUnref, DestroyPcs

(* CallWeakRef preserves ExclusiveInv.                                     *)
LEMMA ExclusiveCallWeakRef ==
  ASSUME RefsInv, Freedoms = {}, NEW t \in Threads, NEW o \in Objects,
         CallWeakRef(t, o)
  PROVE  ExclusiveInv'
  BY CallExclusive, Kinds DEF ClearOps, CallWeakRef, DestroyPcs

(* CallClear preserves ExclusiveInv.                                       *)
LEMMA ExclusiveCallClear ==
  ASSUME RefsInv, Freedoms = {}, NEW t \in Threads, NEW o \in Objects,
         CallClear(t, o)
  PROVE  ExclusiveInv'
  BY CallExclusive, Kinds DEF CallClear, ClearOps

(* CallAssign preserves ExclusiveInv.                                      *)
LEMMA ExclusiveCallAssign ==
  ASSUME RefsInv, Freedoms = {}, NEW t \in Threads, NEW o \in Referents,
         NEW from \in Referents, CallAssign(t, o, from)
  PROVE  ExclusiveInv'
  BY CallExclusive, Kinds DEF CallAssign, ClearOps

(* CallDestroy preserves ExclusiveInv.                                     *)
LEMMA ExclusiveCallDestroy ==
  ASSUME RefsInv, Freedoms = {}, NEW t \in Threads, NEW o \in Objects,
         CallDestroy(t, o)
  PROVE  ExclusiveInv'
  BY CallExclusive, Kinds DEF CallDestroy

(* CallDeref preserves ExclusiveInv.                                       *)
LEMMA ExclusiveCallDeref ==
  ASSUME RefsInv, Freedoms = {}, NEW t \in Threads, NEW w \in WeakRefs,
         CallDeref(t, w)
  PROVE  ExclusiveInv'
  BY CallExclusive, Kinds DEF CallDeref, DestroyPcs

(* RefUnlock preserves ExclusiveInv.                                       *)
LEMMA ExclusiveRefUnlock ==
  ASSUME RefsInv, Freedoms = {}, NEW t \in Threads, RefUnlock(t)
  PROVE  ExclusiveInv'
<1>1. Step(t)
  BY DEF RefUnlock, Step, RefStep
<1>2. CASE Return(t)
  BY <1>1, <1>2, ReturnExclusive
<1>3. CASE ~Return(t)
  <2>1. /\ UNCHANGED <<self, outer, op, doCleanup>>
        /\ pc' = [pc EXCEPT ![t] = "ref_unlock_weak"]
    BY <1>3 DEF RefUnlock, Goto, localVars
  <2> QED
    BY <1>1, <2>1, GotoExclusive DEF DestroyPcs, UnrefLate
<1> QED
  BY <1>2, <1>3

(* UnrefUnlockWeak preserves ExclusiveInv.                                 *)
LEMMA ExclusiveUnrefUnlockWeak ==
  ASSUME RefsInv, Freedoms = {}, NEW t \in Threads, UnrefUnlockWeak(t)
  PROVE  ExclusiveInv'
<1>1. Step(t) /\ pc[t] \in UnrefLate
  BY DEF UnrefUnlockWeak, Step, UnrefStep, At, UnrefLate
<1>2. CASE Return(t)
  BY <1>1, <1>2, ReturnExclusive
<1>3. CASE ~Return(t)
  <2>1. /\ UNCHANGED <<self, outer, op, doCleanup>> /\ doCleanup[t]
        /\ pc' = [pc EXCEPT ![t] = "destroy"]
    BY <1>3 DEF UnrefUnlockWeak, EndUnref, Goto, localVars
  <2>2. Cleans(t, self[t])
    BY <1>1, <2>1 DEF Cleans
  <2> QED
    BY <1>1, <2>1, <2>2, GotoExclusive
<1> QED
  BY <1>2, <1>3

(* UnrefUnlock preserves ExclusiveInv.                                     *)
LEMMA ExclusiveUnrefUnlock ==
  ASSUME RefsInv, Freedoms = {}, NEW t \in Threads, UnrefUnlock(t)
  PROVE  ExclusiveInv'
<1>1. Step(t) /\ pc[t] \in UnrefLate
  BY DEF UnrefUnlock, Step, UnrefStep, At, UnrefLate
<1>2. CASE Return(t)
  BY <1>1, <1>2, ReturnExclusive
<1>3. CASE ~Return(t)
  <2>1. /\ UNCHANGED <<self, outer, op, doCleanup>>
        /\ \E l \in UnrefLate \cup {"destroy"} :
             pc' = [pc EXCEPT ![t] = l] /\ (l = "destroy" => doCleanup[t])
    BY <1>3 DEF UnrefUnlock, EndUnref, Goto, localVars, UnrefLate
  <2>2. doCleanup[t] => Cleans(t, self[t])
    BY <1>1 DEF Cleans
  <2>3. \A l \in UnrefLate : l \notin DestroyPcs
    BY DEF UnrefLate, DestroyPcs
  <2> QED
    BY <1>1, <2>1, <2>2, <2>3, GotoExclusive
<1> QED
  BY <1>2, <1>3

(* UnrefLock preserves ExclusiveInv.                                       *)
LEMMA ExclusiveUnrefLock ==
  ASSUME RefsInv, Freedoms = {}, NEW t \in Threads, UnrefLock(t)
  PROVE  ExclusiveInv'
<1>1. TypeOK /\ Step(t) /\ self[t] \in Objects
  BY SelfType DEF UnrefLock, At, RefsInv, Step, UnrefStep
<1>2. \A u \in Threads \ {t} : SameThread(u)
  BY <1>1, StepFrame
<1>3. self'[t] = self[t] /\ outer'[t] = outer[t] /\ pc'[t] = "unref_unlock"
  BY <1>1 DEF UnrefLock, Goto, TypeOK
<1>4. ASSUME doCleanup'[t]
      PROVE  \A u \in Threads \ {t} :
               self[u] # self[t] /\ self[t] \notin Waiting(u)
  <2>1. mutex[self[t]] = NULL
    BY <1>1, Kinds DEF UnrefLock, y_lock
  <2>2. refcount[self[t]] = 1
    BY <1>1, <1>4 DEF UnrefLock, At, RefsInv, ControlInv, UnrefEarly, TypeOK
  <2> QED
    BY <2>1, <2>2, LastUser DEF UnrefLock, At
<1>5. ASSUME NEW u \in Threads \ {t}, NEW p \in Objects
      PROVE  /\ Cleans(t, p)' => self[u] # p /\ p \notin Waiting(u)
             /\ self'[t] = p \/ p \in Waiting(t)' => ~Cleans(u, p)
  <2>1. Cleans(t, p)' => Cleans(t, p) \/ (self[t] = p /\ doCleanup'[t])
    BY <1>3 DEF Cleans, UnrefLate, DestroyPcs, Waiting
  <2> QED
    BY <1>3, <1>4, <2>1 DEF RefsInv, ExclusiveInv, Waiting
<1> QED
  BY <1>2, <1>5, StillExclusive

(* Clear preserves ExclusiveInv.                                           *)
LEMMA ExclusiveClear ==
  ASSUME RefsInv, Freedoms = {}, NEW t \in Threads, Clear(t)
  PROVE  ExclusiveInv'
<1>1. TypeOK /\ Step(t) /\ self[t] \in Objects /\ pc[t] = "clear"
  BY SelfType DEF Clear, At, RefsInv, Step, DestroyStep
<1>2. \A u \in Threads \ {t} : SameThread(u)
  BY <1>1, StepFrame
<1>3. CASE weak_ref[self[t]] # NULL
  <2>1. /\ Cleans(t, self[t])
        /\ \A u \in Threads : ~Cleans(u, weak_ref[self[t]])
    BY <1>1, <1>3, ClearDrops
  <2>2. /\ self'[t] = weak_ref[self[t]] /\ outer'[t] = <<self[t]>> \o outer[t]
        /\ pc'[t] = "unref_enter"
    BY <1>1, <1>3 DEF Clear, Goto, EndClear, TypeOK
  <2>3. ASSUME NEW p \in Objects
        PROVE  /\ Cleans(t, p)' => Cleans(t, p)
               /\ p \in Waiting(t)' => Cleans(t, p)
    <3>1. p \in Waiting(t)' => Cleans(t, p)
      BY <1>1, <2>1, <2>2, Pushed DEF Cleans
    <3> QED
      BY <2>2, <3>1 DEF Cleans, UnrefLate, DestroyPcs
  <2>4. ASSUME NEW u \in Threads \ {t}, NEW p \in Objects
        PROVE  /\ Cleans(t, p)' => self[u] # p /\ p \notin Waiting(u)
               /\ self'[t] = p \/ p \in Waiting(t)' => ~Cleans(u, p)
    <3>1. /\ Cleans(t, p) => self[u] # p /\ p \notin Waiting(u)
          /\ Cleans(t, p) => ~Cleans(u, p)
      BY DEF RefsInv, ExclusiveInv, Cleans
    <3> QED
      BY <2>1, <2>2, <2>3, <3>1
  <2> QED
    BY <1>2, <2>4, StillExclusive
<1>4. CASE weak_ref[self[t]] = NULL
  <2>1. CASE Return(t)
    BY <1>1, <2>1, ReturnExclusive
  <2>2. CASE ~Return(t)
    <3>1. /\ UNCHANGED <<self, outer, op, doCleanup>>
          /\ pc' = [pc EXCEPT ![t] = "mark"]
      BY <1>4, <2>2 DEF Clear, EndClear, Goto, localVars
    <3>2. op[t] \notin ClearOps => Cleans(t, self[t])
      BY <1>1 DEF Cleans, DestroyPcs
    <3> QED
      BY <1>1, <3>1, <3>2, GotoExclusive DEF UnrefLate
  <2> QED
    BY <2>1, <2>2
<1> QED
  BY <1>3, <1>4

(* ClearNull preserves ExclusiveInv.                                       *)
LEMMA ExclusiveClearNull ==
  ASSUME RefsInv, Freedoms = {}, NEW t \in Threads, ClearNull(t)
  PROVE  ExclusiveInv'
<1>1. Step(t) /\ pc[t] = "clear_null"
  BY DEF ClearNull, At, Step, DestroyStep
<1>2. CASE Return(t)
  BY <1>1, <1>2, ReturnExclusive
<1>3. CASE ~Return(t)
  <2>1. /\ UNCHANGED <<self, outer, op, doCleanup>>
        /\ pc' = [pc EXCEPT ![t] = "mark"]
    BY <1>3 DEF ClearNull, EndClear, Goto, localVars
  <2>2. op[t] \notin ClearOps => Cleans(t, self[t])
    BY <1>1 DEF Cleans, DestroyPcs
  <2> QED
    BY <1>1, <2>1, <2>2, GotoExclusive DEF UnrefLate
<1> QED
  BY <1>2, <1>3

(* Destroy preserves ExclusiveInv.                                         *)
LEMMA ExclusiveDestroy ==
  ASSUME RefsInv, Freedoms = {}, NEW t \in Threads, Destroy(t)
  PROVE  ExclusiveInv'
<1>1. Step(t) /\ pc[t] = "destroy"
  BY DEF Destroy, At, Step, DestroyStep
<1>2. CASE Return(t)
  BY <1>1, <1>2, ReturnExclusive
<1>3. CASE ~Return(t)
  <2>1. /\ UNCHANGED <<self, outer, op, doCleanup>>
        /\ pc' = [pc EXCEPT ![t] = "clear"]
    BY <1>3 DEF Destroy, Goto, localVars
  <2>2. op[t] \notin ClearOps => Cleans(t, self[t])
    BY <1>1 DEF Cleans, DestroyPcs
  <2> QED
    BY <1>1, <2>1, <2>2, GotoExclusive DEF UnrefLate
<1> QED
  BY <1>2, <1>3

(* WeakRefTail preserves ExclusiveInv.                                     *)
LEMMA ExclusiveWeakRefTail ==
  ASSUME RefsInv, Freedoms = {}, NEW t \in Threads, WeakRefTail(t)
  PROVE  ExclusiveInv'
<1>1. TypeOK /\ Step(t) /\ outer[t] = <<>> /\ self[t] \in Objects
  BY NoOuter, SelfType
     DEF WeakRefTail, At, RefsInv, Step, WeakStep, WeakPcs, WeakNewPcs
<1>2. held[t][self[t]] > 0
  BY DEF WeakRefTail, At, RefsInv, AliveInv, KeptAlive, WeakPcs
<1>3. \A u \in Threads \ {t} : SameThread(u)
  BY <1>1, StepFrame
<1>4. /\ self'[t] \in {NULL, weak_ref[self[t]]} /\ outer'[t] = <<>>
      /\ pc'[t] \in {"idle", "ref_enter"}
  BY <1>1, Returned DEF WeakRefTail, Goto, localVars, TypeOK
<1>5. ASSUME weak_ref[self[t]] # NULL, NEW u \in Threads
      PROVE  ~Cleans(u, weak_ref[self[t]])
  BY <1>1, <1>2, <1>5, OwnsWeakRef, OwnedNotCleaned, Kinds
<1>6. ASSUME NEW u \in Threads \ {t}, NEW p \in Objects
      PROVE  /\ Cleans(t, p)' => self[u] # p /\ p \notin Waiting(u)
             /\ self'[t] = p \/ p \in Waiting(t)' => ~Cleans(u, p)
  BY <1>4, <1>5, Kinds DEF Cleans, UnrefLate, DestroyPcs, Waiting
<1> QED
  BY <1>3, <1>6, StillExclusive

(* DerefUnlock preserves ExclusiveInv.                                     *)
LEMMA ExclusiveDerefUnlock ==
  ASSUME RefsInv, Freedoms = {}, NEW t \in Threads, DerefUnlock(t)
  PROVE  ExclusiveInv'
<1>1. TypeOK /\ Step(t) /\ outer[t] = <<>> /\ self[t] \in WeakRefs
  BY NoOuter
     DEF DerefUnlock, At, RefsInv, ControlInv, Step, WeakStep, DerefPcs
<1>2. target[self[t]] # NULL => held[t][target[self[t]]] > 0
  BY DEF DerefUnlock, At, RefsInv, AliveInv, KeptAlive, DerefPcs
<1>3. \A u \in Threads \ {t} : SameThread(u)
  BY <1>1, StepFrame
<1>4. /\ self'[t] \in {NULL, target[self[t]]} /\ outer'[t] = <<>>
      /\ pc'[t] \in {"idle", "ref_enter"}
  BY <1>1, Returned DEF DerefUnlock, Goto, localVars, TypeOK
<1>5. ASSUME target[self[t]] # NULL, NEW u \in Threads \ {t}
      PROVE  ~Cleans(u, target[self[t]])
  BY <1>1, <1>2, <1>5, OwnedNotCleaned, Kinds DEF TypeOK
<1>6. ASSUME NEW u \in Threads \ {t}, NEW p \in Objects
      PROVE  /\ Cleans(t, p)' => self[u] # p /\ p \notin Waiting(u)
             /\ self'[t] = p \/ p \in Waiting(t)' => ~Cleans(u, p)
  BY <1>4, <1>5, Kinds DEF Cleans, UnrefLate, DestroyPcs, Waiting
<1> QED
  BY <1>3, <1>6, StillExclusive

(* Every step of clients that keep to the rules preserves ExclusiveInv.    *)
LEMMA ExclusiveStep ==
  ASSUME RefsInv, Freedoms = {}, [Next]_vars
  PROVE  ExclusiveInv'
<1>1. ASSUME NEW t \in Threads, RefEnter(t)
      PROVE  ExclusiveInv'
  BY <1>1, GotoExclusive
     DEF RefEnter, RefStep, Step, At, Goto, localVars, UnrefLate, DestroyPcs
<1>2. ASSUME NEW t \in Threads, RefCheck(t)
      PROVE  ExclusiveInv'
  <2>1. Step(t)
    BY <1>2 DEF RefStep, Step
  <2>2. CASE Return(t)
    BY <2>1, <2>2, ReturnExclusive
  <2>3. CASE ~Return(t)
    BY <1>2, <2>1, <2>3, GotoExclusive
       DEF RefCheck, Goto, localVars, UnrefLate, DestroyPcs
  <2> QED
    BY <2>2, <2>3
<1>3. ASSUME NEW t \in Threads, RefWeak(t)
      PROVE  ExclusiveInv'
  BY <1>3, GotoExclusive
     DEF RefWeak, RefStep, Step, At, Goto, localVars, UnrefLate, DestroyPcs
<1>4. ASSUME NEW t \in Threads, RefLockWeak(t)
      PROVE  ExclusiveInv'
  BY <1>4, GotoExclusive
     DEF RefLockWeak, RefStep, Step, At, Goto, localVars, UnrefLate, DestroyPcs
<1>5. ASSUME NEW t \in Threads, RefLock(t)
      PROVE  ExclusiveInv'
  BY <1>5, GotoExclusive
     DEF RefLock, RefStep, Step, At, Goto, localVars, UnrefLate, DestroyPcs
<1>6. ASSUME NEW t \in Threads, RefUnlock(t)
      PROVE  ExclusiveInv'
  BY <1>6, ExclusiveRefUnlock
<1>7. ASSUME NEW t \in Threads, RefUnlockWeak(t)
      PROVE  ExclusiveInv'
  BY <1>7, ReturnExclusive DEF RefUnlockWeak, RefStep, Step
<1>8. ASSUME NEW t \in Threads, UnrefEnter(t)
      PROVE  ExclusiveInv'
  BY <1>8, GotoExclusive
     DEF UnrefEnter, UnrefStep, Step, At, Goto, localVars, UnrefLate, DestroyPcs
<1>9. ASSUME NEW t \in Threads, UnrefCheck(t)
      PROVE  ExclusiveInv'
  <2>1. Step(t)
    BY <1>9 DEF UnrefStep, Step
  <2>2. CASE Return(t)
    BY <2>1, <2>2, ReturnExclusive
  <2>3. CASE ~Return(t)
    BY <1>9, <2>1, <2>3, GotoExclusive
       DEF UnrefCheck, Goto, localVars, UnrefLate, DestroyPcs
  <2> QED
    BY <2>2, <2>3
<1>10. ASSUME NEW t \in Threads, UnrefWeak(t)
      PROVE  ExclusiveInv'
  BY <1>10, GotoExclusive
     DEF UnrefWeak, UnrefStep, Step, At, Goto, localVars, UnrefLate, DestroyPcs
<1>11. ASSUME NEW t \in Threads, UnrefLockWeak(t)
      PROVE  ExclusiveInv'
  BY <1>11, GotoExclusive
     DEF UnrefLockWeak, UnrefStep, Step, At, Goto, localVars, UnrefLate, DestroyPcs
<1>12. ASSUME NEW t \in Threads, UnrefLock(t)
      PROVE  ExclusiveInv'
  BY <1>12, ExclusiveUnrefLock
<1>13. ASSUME NEW t \in Threads, UnrefUnlock(t)
      PROVE  ExclusiveInv'
  BY <1>13, ExclusiveUnrefUnlock
<1>14. ASSUME NEW t \in Threads, UnrefUnset(t)
      PROVE  ExclusiveInv'
  BY <1>14, GotoExclusive
     DEF UnrefUnset, UnrefStep, Step, At, Goto, localVars, UnrefLate, DestroyPcs
<1>15. ASSUME NEW t \in Threads, UnrefUnlockWeak(t)
      PROVE  ExclusiveInv'
  BY <1>15, ExclusiveUnrefUnlockWeak
<1>16. ASSUME NEW t \in Threads, Destroy(t)
      PROVE  ExclusiveInv'
  BY <1>16, ExclusiveDestroy
<1>17. ASSUME NEW t \in Threads, Clear(t)
      PROVE  ExclusiveInv'
  BY <1>17, ExclusiveClear
<1>18. ASSUME NEW t \in Threads, ClearNull(t)
      PROVE  ExclusiveInv'
  BY <1>18, ExclusiveClearNull
<1>19. ASSUME NEW t \in Threads, Mark(t)
      PROVE  ExclusiveInv'
  <2>1. Step(t) /\ (op[t] \notin ClearOps => Cleans(t, self[t]))
    BY <1>19 DEF Mark, At, DestroyStep, Step, Cleans, DestroyPcs
  <2> QED
    BY <1>19, <2>1, GotoExclusive DEF Mark, At, Goto, localVars, UnrefLate
<1>20. ASSUME NEW t \in Threads, Free(t)
      PROVE  ExclusiveInv'
  BY <1>20, ReturnExclusive DEF Free, DestroyStep, Step
<1>21. ASSUME NEW t \in Threads, WeakCheck(t)
      PROVE  ExclusiveInv'
  BY <1>21, GotoExclusive
     DEF WeakCheck, WeakStep, Step, At, Goto, localVars, UnrefLate, DestroyPcs
<1>22. ASSUME NEW t \in Threads, WeakLock(t)
      PROVE  ExclusiveInv'
  BY <1>22, GotoExclusive
     DEF WeakLock, WeakStep, Step, At, Goto, localVars, UnrefLate, DestroyPcs
<1>23. ASSUME NEW t \in Threads, WeakNew(t)
      PROVE  ExclusiveInv'
  BY <1>23, GotoExclusive
     DEF WeakNew, WeakStep, Step, At, Goto, localVars, UnrefLate, DestroyPcs
<1>24. ASSUME NEW t \in Threads, WeakUnlock(t)
      PROVE  ExclusiveInv'
  BY <1>24, GotoExclusive
     DEF WeakUnlock, WeakStep, Step, At, Goto, localVars, UnrefLate, DestroyPcs
<1>25. ASSUME NEW t \in Threads, WeakRefTail(t)
      PROVE  ExclusiveInv'
  BY <1>25, ExclusiveWeakRefTail
<1>26. ASSUME NEW t \in Threads, DerefCheck(t)
      PROVE  ExclusiveInv'
  <2>1. Step(t)
    BY <1>26 DEF WeakStep, Step
  <2>2. CASE Return(t)
    BY <2>1, <2>2, ReturnExclusive
  <2>3. CASE ~Return(t)
    BY <1>26, <2>1, <2>3, GotoExclusive
       DEF DerefCheck, Goto, localVars, UnrefLate, DestroyPcs
  <2> QED
    BY <2>2, <2>3
<1>27. ASSUME NEW t \in Threads, DerefLock(t)
      PROVE  ExclusiveInv'
  BY <1>27, GotoExclusive
     DEF DerefLock, WeakStep, Step, At, Goto, localVars, UnrefLate, DestroyPcs
<1>28. ASSUME NEW t \in Threads, DerefUnlock(t)
      PROVE  ExclusiveInv'
  BY <1>28, ExclusiveDerefUnlock
<1>29. ASSUME NEW t \in Threads, NEW o \in Objects, CallRef(t, o)
      PROVE  ExclusiveInv'
  BY <1>29, ExclusiveCallRef
<1>30. ASSUME NEW t \in Threads, NEW o \in Objects, CallUnref(t, o)
      PROVE  ExclusiveInv'
  BY <1>30, ExclusiveCallUnref
<1>31. ASSUME NEW t \in Threads, NEW o \in Objects, ManualLock(t, o)
      PROVE  ExclusiveInv'
  BY <1>31, SameExclusive DEF ManualLock
<1>32. ASSUME NEW t \in Threads, NEW o \in Objects, ManualUnlock(t, o)
      PROVE  ExclusiveInv'
  BY <1>32, SameExclusive DEF ManualUnlock
<1>33. ASSUME NEW t \in Threads, NEW u \in Threads, NEW o \in Objects,
             Give(t, u, o)
      PROVE  ExclusiveInv'
  BY <1>33, SameExclusive DEF Give, localVars
<1>34. ASSUME NEW t \in Threads, NEW o \in Referents, Create(t, o)
      PROVE  ExclusiveInv'
  BY <1>34, SameExclusive DEF Create, localVars
<1>35. ASSUME NEW t \in Threads, NEW o \in Objects, CallWeakRef(t, o)
      PROVE  ExclusiveInv'
  BY <1>35, ExclusiveCallWeakRef
<1>36. ASSUME NEW t \in Threads, NEW o \in Objects, CallClear(t, o)
      PROVE  ExclusiveInv'
  BY <1>36, ExclusiveCallClear
<1>37. ASSUME NEW t \in Threads, NEW o \in Referents, NEW from \in Referents,
             CallAssign(t, o, from)
      PROVE  ExclusiveInv'
  BY <1>37, ExclusiveCallAssign
<1>38. ASSUME NEW t \in Threads, NEW o \in Objects, CallDestroy(t, o)
      PROVE  ExclusiveInv'
  BY <1>38, ExclusiveCallDestroy
<1>39. ASSUME NEW t \in Threads, NEW w \in WeakRefs, CallDeref(t, w)
      PROVE  ExclusiveInv'
  BY <1>39, ExclusiveCallDeref
<1>40. CASE UNCHANGED vars
  BY <1>40, SameExclusive DEF vars, localVars
<1>41. ASSUME NEW t \in Threads, RefStep(t)
      PROVE  ExclusiveInv'
  BY <1>1, <1>2, <1>3, <1>4, <1>5, <1>6, <1>7, <1>41 DEF RefStep
<1>42. ASSUME NEW t \in Threads, UnrefStep(t)
      PROVE  ExclusiveInv'
  BY <1>8, <1>9, <1>10, <1>11, <1>12, <1>13, <1>14, <1>15, <1>42 DEF UnrefStep
<1>43. ASSUME NEW t \in Threads, DestroyStep(t)
      PROVE  ExclusiveInv'
  BY <1>16, <1>17, <1>18, <1>19, <1>20, <1>43 DEF DestroyStep
<1>44. ASSUME NEW t \in Threads, WeakStep(t)
      PROVE  ExclusiveInv'
  BY <1>21, <1>22, <1>23, <1>24, <1>25, <1>26, <1>27, <1>28, <1>44 DEF WeakStep
<1>45. ASSUME NEW t \in Threads, ClientStep(t)
      PROVE  ExclusiveInv'
  BY <1>29, <1>30, <1>31, <1>32, <1>33, <1>34, <1>35, <1>36, <1>37, <1>38, <1>39,
     <1>45 DEF ClientStep
<1> QED
  BY <1>40, <1>41, <1>42, <1>43, <1>44, <1>45 DEF Next, Rest, Step

-----------------------------------------------------------------------------
(* HasWeakRefInv: what a call has found out stays true.                    *)

(* What y_ref and y_unref have found out about a weak reference.           *)
KnownPcs == (RefPcs \cup UnrefEarly \cup UnrefLate) \ {"ref_enter", "unref_enter"}
UnrefKnown == (UnrefEarly \cup UnrefLate) \ {"unref_enter"}

Knows(u) ==
  /\ pc[u] \in KnownPcs => (hasWeakRef[u] => weak_ref[self[u]] # NULL)
  /\ pc[u] \in UnrefKnown =>
       (~hasWeakRef[u] /\ (pc[u] \in UnrefLate => doCleanup[u])
          => weak_ref[self[u]] = NULL)
  /\ pc[u] \in {"ref_lock_weak", "unref_lock_weak"} => weak[u] = weak_ref[self[u]]

(* The invariant says this of every thread.                                *)
LEMMA KnowledgeParts ==
  /\ HasWeakRefInv <=> \A u \in Threads : Knows(u)
  /\ HasWeakRefInv' <=> \A u \in Threads : Knows(u)'
  BY DEF HasWeakRefInv, Knows, KnownPcs, UnrefKnown

(* A thread on its way out of a call or into a new one knows nothing.      *)
LEMMA NothingKnown ==
  ASSUME NEW u \in Threads,
         pc'[u] \in {"idle", "ref_enter", "unref_enter"} \cup WeakPcs \cup DerefPcs
                      \cup DestroyPcs
  PROVE  Knows(u)'
  BY DEF Knows, KnownPcs, UnrefKnown, RefPcs, UnrefEarly, UnrefLate, WeakPcs,
         WeakNewPcs, DerefPcs, DestroyPcs

(* A step of another thread leaves u's knowledge valid if it leaves the    *)
(* weak reference alone, or makes the first one while u is in y_ref.       *)
LEMMA StillKnown ==
  ASSUME RefsInv, NEW u \in Threads, SameThread(u),
         pc[u] # "idle" =>
           \/ weak_ref'[self[u]] = weak_ref[self[u]]
           \/ weak_ref[self[u]] = NULL /\ pc[u] \notin UnrefLabels
  PROVE  Knows(u)'
<1>1. Knows(u)
  BY KnowledgeParts DEF RefsInv
<1>2. CASE pc[u] = "idle"
  BY <1>2, NothingKnown DEF SameThread
<1>3. CASE pc[u] # "idle" /\ weak_ref'[self[u]] = weak_ref[self[u]]
  BY <1>1, <1>3 DEF Knows, SameThread
<1>4. CASE weak_ref[self[u]] = NULL /\ pc[u] \notin UnrefLabels
  <2>1. pc[u] \notin UnrefKnown
    BY <1>4 DEF UnrefKnown, UnrefEarly, UnrefLate, UnrefLabels
  <2>2. pc[u] \in KnownPcs => ~hasWeakRef[u]
    BY <1>1, <1>4 DEF Knows
  <2>3. pc[u] \notin {"ref_lock_weak", "unref_lock_weak"}
    BY <2>2 DEF RefsInv, ControlInv, WeakRefLabels, KnownPcs, RefPcs, UnrefEarly
  <2> QED
    BY <2>1, <2>2, <2>3 DEF Knows, SameThread
<1> QED
  BY <1>2, <1>3, <1>4

(* The steps of a call that change a weak reference.                       *)
LEMMA StepWeakRef ==
  ASSUME NEW t \in Threads, Step(t)
  PROVE  weak_ref' = weak_ref \/ ClearNull(t) \/ WeakNew(t)
<1>1. CASE RefStep(t)
  BY <1>1
     DEF RefStep, RefEnter, RefCheck, RefWeak, RefLockWeak, RefLock, RefUnlock,
         RefUnlockWeak, heapVars
<1>2. CASE UnrefStep(t)
  BY <1>2
     DEF UnrefStep, UnrefEnter, UnrefCheck, UnrefWeak, UnrefLockWeak, UnrefLock,
         UnrefUnlock, UnrefUnset, UnrefUnlockWeak, heapVars
<1>3. CASE DestroyStep(t)
  BY <1>3 DEF DestroyStep, Destroy, Clear, Mark, Free, heapVars
<1>4. CASE WeakStep(t)
  BY <1>4
     DEF WeakStep, WeakCheck, WeakLock, WeakUnlock, WeakRefTail, DerefCheck,
         DerefLock, DerefUnlock, heapVars
<1> QED
  BY <1>1, <1>2, <1>3, <1>4 DEF Step

(* The weak reference of an object changes only while nobody else cleans   *)
(* the object up, and comes up only while nobody gives the object up.      *)
LEMMA OthersWeakRef ==
  ASSUME RefsInv, NEW t \in Threads, Step(t), NEW u \in Threads, u # t,
         pc[u] # "idle"
  PROVE  \/ weak_ref'[self[u]] = weak_ref[self[u]]
         \/ weak_ref[self[u]] = NULL /\ pc[u] \notin UnrefLabels
<1>1. self[u] \in Objects /\ TypeOK
  BY SelfType DEF RefsInv
<1>2. CASE weak_ref' = weak_ref
  BY <1>2
<1>3. CASE ClearNull(t)
  <2>1. pc[t] = "clear_null" /\ op[t] \notin ClearOps /\ self[t] \in Objects
    BY <1>3, SelfType DEF ClearNull, At, RefsInv, ControlInv, ClearOps
  <2>2. Cleans(t, self[t])
    BY <2>1 DEF Cleans, DestroyPcs
  <2>3. self[u] # self[t]
    BY <2>1, <2>2 DEF RefsInv, ExclusiveInv
  <2> QED
    BY <1>1, <1>3, <2>3 DEF ClearNull, TypeOK
<1>4. CASE WeakNew(t)
  <2>1. CASE weak_ref[self[t]] # NULL
    BY <1>4, <2>1 DEF WeakNew, heapVars
  <2>2. CASE weak_ref[self[t]] = NULL
    <3>1. MakesWeakRef(t, self[t]) /\ self[t] \in Objects
      BY <1>4, <2>2, SelfType DEF WeakNew, At, MakesWeakRef
    <3>2. ~GivesUp(u, self[t])
      BY <3>1 DEF RefsInv, MakerInv
    <3>3. CASE self[u] = self[t]
      BY <2>2, <3>2, <3>3 DEF GivesUp
    <3>4. CASE self[u] # self[t]
      BY <1>1, <1>4, <3>4 DEF WeakNew, y_WeakRef_new, heapVars, TypeOK
    <3> QED
      BY <3>3, <3>4
  <2> QED
    BY <2>1, <2>2
<1> QED
  BY <1>2, <1>3, <1>4, StepWeakRef

LEMMA OthersKnow ==
  ASSUME RefsInv, NEW t \in Threads, Step(t), Knows(t)'
  PROVE  HasWeakRefInv'
<1>1. ASSUME NEW u \in Threads, u # t
      PROVE  Knows(u)'
  <2>1. SameThread(u)
    BY <1>1, StepFrame DEF RefsInv
  <2> QED
    BY <1>1, <2>1, StillKnown, OthersWeakRef
<1> QED
  BY <1>1, KnowledgeParts

(* The end of a call.                                                      *)
LEMMA ReturnKnown ==
  ASSUME RefsInv, NEW t \in Threads, Step(t), Return(t)
  PROVE  HasWeakRefInv'
<1>1. pc'[t] \in {"idle", "clear_null"}
  BY Returned DEF RefsInv
<1> QED
  BY <1>1, NothingKnown, OthersKnow DEF DestroyPcs

(* A step further in y_ref or y_unref with the same object.                *)
LEMMA GotoKnown ==
  ASSUME RefsInv, NEW t \in Threads, Step(t), UNCHANGED <<self, hasWeakRef, weak_ref>>,
         NEW l, pc' = [pc EXCEPT ![t] = l], pc[t] \in KnownPcs,
         l \in UnrefKnown => pc[t] \in UnrefKnown,
         pc[t] \in UnrefLate => doCleanup' = doCleanup /\ l \in UnrefLate,
         l \in {"ref_lock_weak", "unref_lock_weak"} => weak'[t] = weak_ref[self[t]]
  PROVE  HasWeakRefInv'
<1>1. pc'[t] = l /\ Knows(t)
  BY KnowledgeParts DEF RefsInv, TypeOK
<1>2. Knows(t)'
  <2>1. l \in KnownPcs =>
          /\ hasWeakRef'[t] => weak_ref'[self'[t]] # NULL
          /\ l \in {"ref_lock_weak", "unref_lock_weak"} => weak'[t] = weak_ref'[self'[t]]
    BY <1>1 DEF Knows
  <2>2. l \in UnrefKnown /\ ~hasWeakRef'[t] /\ (l \in UnrefLate => doCleanup'[t])
          => weak_ref'[self'[t]] = NULL
    BY <1>1 DEF Knows
  <2>3. {"ref_lock_weak", "unref_lock_weak"} \subseteq KnownPcs
    BY DEF KnownPcs, RefPcs, UnrefEarly
  <2> QED
    BY <1>1, <2>1, <2>2, <2>3 DEF Knows
<1> QED
  BY <1>2, OthersKnow

(* A call of a client.                                                     *)
LEMMA CallKnown ==
  ASSUME RefsInv, NEW t \in Threads, NEW o \in Objects, NEW name, NEW label,
         Call(t, o, name, label),
         label \in {"ref_enter", "unref_enter", "weak_check", "deref_check", "clear",
                    "destroy"}
  PROVE  HasWeakRefInv'
<1>1. pc'[t] = label /\ weak_ref' = weak_ref /\ \A u \in Threads \ {t} : SameThread(u)
  BY DEF Call, Goto, At, SameThread, RefsInv, TypeOK, heapVars
<1>2. Knows(t)'
  BY <1>1, NothingKnown DEF WeakPcs, WeakNewPcs, DerefPcs, DestroyPcs
<1>3. \A u \in Threads \ {t} : Knows(u)'
  BY <1>1, StillKnown
<1> QED
  BY <1>2, <1>3, KnowledgeParts

(* A step that leaves the calls alone and the weak references of what they *)
(* work on.                                                                *)
LEMMA SameKnown ==
  ASSUME RefsInv, UNCHANGED <<pc, self, outer, hasWeakRef, doCleanup, op, weak>>,
         \A u \in Threads : pc[u] # "idle" => weak_ref'[self[u]] = weak_ref[self[u]]
  PROVE  HasWeakRefInv'
<1>1. ASSUME NEW u \in Threads
      PROVE  Knows(u)'
  <2>1. Knows(u)
    BY KnowledgeParts DEF RefsInv
  <2>2. CASE pc[u] = "idle"
    BY <2>2, NothingKnown
  <2>3. CASE pc[u] # "idle"
    BY <2>1, <2>3 DEF Knows
  <2> QED
    BY <2>2, <2>3
<1> QED
  BY <1>1, KnowledgeParts

(* Every step of clients that keep to the rules preserves HasWeakRefInv.   *)
LEMMA HasWeakRefStep ==
  ASSUME RefsInv, Freedoms = {}, [Next]_vars
  PROVE  HasWeakRefInv'
<1>1. ASSUME NEW t \in Threads, RefEnter(t)
      PROVE  HasWeakRefInv'
  <2>1. Step(t) /\ weak_ref' = weak_ref
    BY <1>1 DEF RefEnter, RefStep, Step, heapVars
  <2>2. Knows(t)'
    BY <1>1, <2>1 DEF RefEnter, Goto, RefsInv, TypeOK, Knows, UnrefKnown, UnrefLate,
                     UnrefEarly
  <2> QED
    BY <2>1, <2>2, OthersKnow
<1>2. ASSUME NEW t \in Threads, RefCheck(t)
      PROVE  HasWeakRefInv'
  <2>1. /\ Step(t) /\ pc[t] \in KnownPcs
    BY <1>2 DEF RefCheck, At, RefStep, Step, KnownPcs, RefPcs, UnrefEarly
  <2>2. CASE Return(t)
    BY <2>1, <2>2, ReturnKnown
  <2>3. CASE ~Return(t)
    BY <1>2, <2>1, <2>3, GotoKnown
       DEF RefCheck, At, Goto, heapVars, localVars, UnrefKnown, UnrefEarly, UnrefLate
  <2> QED
    BY <2>2, <2>3
<1>3. ASSUME NEW t \in Threads, RefWeak(t)
      PROVE  HasWeakRefInv'
  <2>1. /\ Step(t) /\ UNCHANGED <<self, hasWeakRef, weak_ref>> /\ pc[t] \in KnownPcs
        /\ weak'[t] = weak_ref[self[t]]
    BY <1>3
       DEF RefWeak, At, RefStep, Step, heapVars, localVars, RefsInv, TypeOK, KnownPcs,
           RefPcs, UnrefEarly, UnrefLate
  <2> QED
    BY <1>3, <2>1, GotoKnown
       DEF RefWeak, At, Goto, localVars, UnrefKnown, UnrefEarly, UnrefLate
<1>4. ASSUME NEW t \in Threads, RefLockWeak(t)
      PROVE  HasWeakRefInv'
  <2>1. /\ Step(t) /\ UNCHANGED <<self, hasWeakRef, weak_ref>> /\ pc[t] \in KnownPcs
        /\ weak'[t] = weak'[t]
    BY <1>4
       DEF RefLockWeak, At, RefStep, Step, heapVars, localVars, RefsInv, TypeOK, KnownPcs,
           RefPcs, UnrefEarly, UnrefLate
  <2> QED
    BY <1>4, <2>1, GotoKnown
       DEF RefLockWeak, At, Goto, localVars, UnrefKnown, UnrefEarly, UnrefLate
<1>5. ASSUME NEW t \in Threads, RefLock(t)
      PROVE  HasWeakRefInv'
  <2>1. /\ Step(t) /\ UNCHANGED <<self, hasWeakRef, weak_ref>> /\ pc[t] \in KnownPcs
        /\ weak'[t] = weak'[t]
    BY <1>5
       DEF RefLock, At, RefStep, Step, heapVars, localVars, RefsInv, TypeOK, KnownPcs,
           RefPcs, UnrefEarly, UnrefLate
  <2> QED
    BY <1>5, <2>1, GotoKnown
       DEF RefLock, At, Goto, localVars, UnrefKnown, UnrefEarly, UnrefLate
<1>6. ASSUME NEW t \in Threads, RefUnlock(t)
      PROVE  HasWeakRefInv'
  <2>1. /\ Step(t) /\ pc[t] \in KnownPcs
    BY <1>6 DEF RefUnlock, At, RefStep, Step, KnownPcs, RefPcs, UnrefEarly
  <2>2. CASE Return(t)
    BY <2>1, <2>2, ReturnKnown
  <2>3. CASE ~Return(t)
    BY <1>6, <2>1, <2>3, GotoKnown
       DEF RefUnlock, At, Goto, heapVars, localVars, UnrefKnown, UnrefEarly, UnrefLate
  <2> QED
    BY <2>2, <2>3
<1>7. ASSUME NEW t \in Threads, RefUnlockWeak(t)
      PROVE  HasWeakRefInv'
  BY <1>7, ReturnKnown DEF RefUnlockWeak, RefStep, Step
<1>8. ASSUME NEW t \in Threads, UnrefEnter(t)
      PROVE  HasWeakRefInv'
  <2>1. Step(t) /\ weak_ref' = weak_ref
    BY <1>8 DEF UnrefEnter, UnrefStep, Step, heapVars
  <2>2. Knows(t)'
    BY <1>8, <2>1 DEF UnrefEnter, Goto, RefsInv, TypeOK, Knows, UnrefKnown, UnrefLate,
                     UnrefEarly
  <2> QED
    BY <2>1, <2>2, OthersKnow
<1>9. ASSUME NEW t \in Threads, UnrefCheck(t)
      PROVE  HasWeakRefInv'
  <2>1. /\ Step(t) /\ pc[t] \in KnownPcs
    BY <1>9 DEF UnrefCheck, At, UnrefStep, Step, KnownPcs, RefPcs, UnrefEarly
  <2>2. CASE Return(t)
    BY <2>1, <2>2, ReturnKnown
  <2>3. CASE ~Return(t)
    BY <1>9, <2>1, <2>3, GotoKnown
       DEF UnrefCheck, At, Goto, heapVars, localVars, UnrefKnown, UnrefEarly, UnrefLate
  <2> QED
    BY <2>2, <2>3
<1>10. ASSUME NEW t \in Threads, UnrefWeak(t)
      PROVE  HasWeakRefInv'
  <2>1. /\ Step(t) /\ UNCHANGED <<self, hasWeakRef, weak_ref>> /\ pc[t] \in KnownPcs
        /\ weak'[t] = weak_ref[self[t]]
    BY <1>10
       DEF UnrefWeak, At, UnrefStep, Step, heapVars, localVars, RefsInv, TypeOK, KnownPcs,
           RefPcs, UnrefEarly, UnrefLate
  <2> QED
    BY <1>10, <2>1, GotoKnown
       DEF UnrefWeak, At, Goto, localVars, UnrefKnown, UnrefEarly, UnrefLate
<1>11. ASSUME NEW t \in Threads, UnrefLockWeak(t)
      PROVE  HasWeakRefInv'
  <2>1. /\ Step(t) /\ UNCHANGED <<self, hasWeakRef, weak_ref>> /\ pc[t] \in KnownPcs
        /\ weak'[t] = weak'[t]
    BY <1>11
       DEF UnrefLockWeak, At, UnrefStep, Step, heapVars, localVars, RefsInv, TypeOK, KnownPcs,
           RefPcs, UnrefEarly, UnrefLate
  <2> QED
    BY <1>11, <2>1, GotoKnown
       DEF UnrefLockWeak, At, Goto, localVars, UnrefKnown, UnrefEarly, UnrefLate
<1>12. ASSUME NEW t \in Threads, UnrefLock(t)
      PROVE  HasWeakRefInv'
  <2>1. /\ Step(t) /\ UNCHANGED <<self, hasWeakRef, weak_ref>> /\ pc[t] \in KnownPcs
        /\ weak'[t] = weak'[t]
    BY <1>12
       DEF UnrefLock, At, UnrefStep, Step, heapVars, localVars, RefsInv, TypeOK, KnownPcs,
           RefPcs, UnrefEarly, UnrefLate
  <2> QED
    BY <1>12, <2>1, GotoKnown
       DEF UnrefLock, At, Goto, localVars, UnrefKnown, UnrefEarly, UnrefLate
<1>13. ASSUME NEW t \in Threads, UnrefUnlock(t)
      PROVE  HasWeakRefInv'
  <2>1. /\ Step(t) /\ pc[t] \in KnownPcs /\ pc[t] \in UnrefKnown /\ TypeOK
    BY <1>13
       DEF UnrefUnlock, At, UnrefStep, Step, KnownPcs, UnrefKnown, UnrefLate, RefsInv
  <2>2. CASE Return(t)
    BY <2>1, <2>2, ReturnKnown
  <2>3. CASE ~Return(t)
    <3>1. UNCHANGED <<self, hasWeakRef, weak_ref, doCleanup>>
      BY <1>13, <2>3 DEF UnrefUnlock, EndUnref, heapVars, localVars
    <3>2. \/ \E l \in {"unref_unset", "unref_unlock_weak"} : pc' = [pc EXCEPT ![t] = l]
          \/ pc' = [pc EXCEPT ![t] = "destroy"]
      BY <1>13, <2>3 DEF UnrefUnlock, EndUnref, Goto
    <3>3. CASE pc' = [pc EXCEPT ![t] = "destroy"]
      <4>1. pc'[t] = "destroy"
        BY <2>1, <3>3 DEF TypeOK
      <4> QED
        BY <2>1, <4>1, NothingKnown, OthersKnow DEF DestroyPcs
    <3>4. ASSUME NEW l \in {"unref_unset", "unref_unlock_weak"}, pc' = [pc EXCEPT ![t] = l]
          PROVE  HasWeakRefInv'
      BY <2>1, <3>1, <3>4, GotoKnown DEF UnrefLate
    <3> QED
      BY <3>2, <3>3, <3>4
  <2> QED
    BY <2>2, <2>3
<1>14. ASSUME NEW t \in Threads, UnrefUnset(t)
      PROVE  HasWeakRefInv'
  <2>1. /\ Step(t) /\ UNCHANGED <<self, hasWeakRef, weak_ref>> /\ pc[t] \in KnownPcs
        /\ weak'[t] = weak'[t]
    BY <1>14
       DEF UnrefUnset, At, UnrefStep, Step, heapVars, localVars, RefsInv, TypeOK, KnownPcs,
           RefPcs, UnrefEarly, UnrefLate
  <2> QED
    BY <1>14, <2>1, GotoKnown
       DEF UnrefUnset, At, Goto, localVars, UnrefKnown, UnrefEarly, UnrefLate
<1>15. ASSUME NEW t \in Threads, UnrefUnlockWeak(t)
      PROVE  HasWeakRefInv'
  <2>1. Step(t) /\ TypeOK
    BY <1>15 DEF UnrefUnlockWeak, UnrefStep, Step, RefsInv
  <2>2. pc'[t] \in {"idle", "clear_null", "destroy"}
    BY <1>15, <2>1, Returned DEF UnrefUnlockWeak, Goto, TypeOK, EndUnref
  <2> QED
    BY <2>1, <2>2, NothingKnown, OthersKnow
       DEF WeakPcs, WeakNewPcs, DerefPcs, DestroyPcs
<1>16. ASSUME NEW t \in Threads, Destroy(t)
      PROVE  HasWeakRefInv'
  <2>1. Step(t) /\ TypeOK
    BY <1>16 DEF Destroy, DestroyStep, Step, RefsInv
  <2>2. pc'[t] \in {"idle", "clear_null", "clear"}
    BY <1>16, <2>1, Returned DEF Destroy, Goto, TypeOK
  <2> QED
    BY <2>1, <2>2, NothingKnown, OthersKnow
       DEF WeakPcs, WeakNewPcs, DerefPcs, DestroyPcs
<1>17. ASSUME NEW t \in Threads, Clear(t)
      PROVE  HasWeakRefInv'
  <2>1. Step(t) /\ TypeOK
    BY <1>17 DEF Clear, DestroyStep, Step, RefsInv
  <2>2. pc'[t] \in {"idle", "clear_null", "mark", "unref_enter"}
    BY <1>17, <2>1, Returned DEF Clear, Goto, TypeOK, EndClear
  <2> QED
    BY <2>1, <2>2, NothingKnown, OthersKnow
       DEF WeakPcs, WeakNewPcs, DerefPcs, DestroyPcs
<1>18. ASSUME NEW t \in Threads, ClearNull(t)
      PROVE  HasWeakRefInv'
  <2>1. Step(t) /\ TypeOK
    BY <1>18 DEF ClearNull, DestroyStep, Step, RefsInv
  <2>2. pc'[t] \in {"idle", "clear_null", "mark"}
    BY <1>18, <2>1, Returned DEF ClearNull, Goto, TypeOK, EndClear
  <2> QED
    BY <2>1, <2>2, NothingKnown, OthersKnow
       DEF WeakPcs, WeakNewPcs, DerefPcs, DestroyPcs
<1>19. ASSUME NEW t \in Threads, Mark(t)
      PROVE  HasWeakRefInv'
  <2>1. Step(t) /\ TypeOK
    BY <1>19 DEF Mark, DestroyStep, Step, RefsInv
  <2>2. pc'[t] \in {"free"}
    BY <1>19, <2>1, Returned DEF Mark, Goto, TypeOK
  <2> QED
    BY <2>1, <2>2, NothingKnown, OthersKnow
       DEF WeakPcs, WeakNewPcs, DerefPcs, DestroyPcs
<1>20. ASSUME NEW t \in Threads, Free(t)
      PROVE  HasWeakRefInv'
  BY <1>20, ReturnKnown DEF Free, DestroyStep, Step
<1>21. ASSUME NEW t \in Threads, WeakCheck(t)
      PROVE  HasWeakRefInv'
  <2>1. Step(t) /\ TypeOK
    BY <1>21 DEF WeakCheck, WeakStep, Step, RefsInv
  <2>2. pc'[t] \in {"weak_lock", "weak_tail"}
    BY <1>21, <2>1, Returned DEF WeakCheck, Goto, TypeOK
  <2> QED
    BY <2>1, <2>2, NothingKnown, OthersKnow
       DEF WeakPcs, WeakNewPcs, DerefPcs, DestroyPcs
<1>22. ASSUME NEW t \in Threads, WeakLock(t)
      PROVE  HasWeakRefInv'
  <2>1. Step(t) /\ TypeOK
    BY <1>22 DEF WeakLock, WeakStep, Step, RefsInv
  <2>2. pc'[t] \in {"weak_new"}
    BY <1>22, <2>1, Returned DEF WeakLock, Goto, TypeOK
  <2> QED
    BY <2>1, <2>2, NothingKnown, OthersKnow
       DEF WeakPcs, WeakNewPcs, DerefPcs, DestroyPcs
<1>23. ASSUME NEW t \in Threads, WeakNew(t)
      PROVE  HasWeakRefInv'
  <2>1. Step(t) /\ TypeOK
    BY <1>23 DEF WeakNew, WeakStep, Step, RefsInv
  <2>2. pc'[t] \in {"weak_unlock"}
    BY <1>23, <2>1, Returned DEF WeakNew, Goto, TypeOK
  <2> QED
    BY <2>1, <2>2, NothingKnown, OthersKnow
       DEF WeakPcs, WeakNewPcs, DerefPcs, DestroyPcs
<1>24. ASSUME NEW t \in Threads, WeakUnlock(t)
      PROVE  HasWeakRefInv'
  <2>1. Step(t) /\ TypeOK
    BY <1>24 DEF WeakUnlock, WeakStep, Step, RefsInv
  <2>2. pc'[t] \in {"weak_tail"}
    BY <1>24, <2>1, Returned DEF WeakUnlock, Goto, TypeOK
  <2> QED
    BY <2>1, <2>2, NothingKnown, OthersKnow
       DEF WeakPcs, WeakNewPcs, DerefPcs, DestroyPcs
<1>25. ASSUME NEW t \in Threads, WeakRefTail(t)
      PROVE  HasWeakRefInv'
  <2>1. Step(t) /\ TypeOK
    BY <1>25 DEF WeakRefTail, WeakStep, Step, RefsInv
  <2>2. pc'[t] \in {"idle", "clear_null", "ref_enter"}
    BY <1>25, <2>1, Returned DEF WeakRefTail, Goto, TypeOK
  <2> QED
    BY <2>1, <2>2, NothingKnown, OthersKnow
       DEF WeakPcs, WeakNewPcs, DerefPcs, DestroyPcs
<1>26. ASSUME NEW t \in Threads, DerefCheck(t)
      PROVE  HasWeakRefInv'
  <2>1. Step(t) /\ TypeOK
    BY <1>26 DEF DerefCheck, WeakStep, Step, RefsInv
  <2>2. pc'[t] \in {"idle", "clear_null", "deref_lock"}
    BY <1>26, <2>1, Returned DEF DerefCheck, Goto, TypeOK
  <2> QED
    BY <2>1, <2>2, NothingKnown, OthersKnow
       DEF WeakPcs, WeakNewPcs, DerefPcs, DestroyPcs
<1>27. ASSUME NEW t \in Threads, DerefLock(t)
      PROVE  HasWeakRefInv'
  <2>1. Step(t) /\ TypeOK
    BY <1>27 DEF DerefLock, WeakStep, Step, RefsInv
  <2>2. pc'[t] \in {"deref_unlock"}
    BY <1>27, <2>1, Returned DEF DerefLock, Goto, TypeOK
  <2> QED
    BY <2>1, <2>2, NothingKnown, OthersKnow
       DEF WeakPcs, WeakNewPcs, DerefPcs, DestroyPcs
<1>28. ASSUME NEW t \in Threads, DerefUnlock(t)
      PROVE  HasWeakRefInv'
  <2>1. Step(t) /\ TypeOK
    BY <1>28 DEF DerefUnlock, WeakStep, Step, RefsInv
  <2>2. pc'[t] \in {"idle", "clear_null", "ref_enter"}
    BY <1>28, <2>1, Returned DEF DerefUnlock, Goto, TypeOK
  <2> QED
    BY <2>1, <2>2, NothingKnown, OthersKnow
       DEF WeakPcs, WeakNewPcs, DerefPcs, DestroyPcs
<1>29. ASSUME NEW t \in Threads, NEW o \in Objects, CallRef(t, o)
      PROVE  HasWeakRefInv'
  BY <1>29, CallKnown DEF CallRef
<1>30. ASSUME NEW t \in Threads, NEW o \in Objects, CallUnref(t, o)
      PROVE  HasWeakRefInv'
  BY <1>30, CallKnown DEF CallUnref
<1>31. ASSUME NEW t \in Threads, NEW o \in Objects, ManualLock(t, o)
      PROVE  HasWeakRefInv'
  BY <1>31, SameKnown DEF ManualLock, heapVars
<1>32. ASSUME NEW t \in Threads, NEW o \in Objects, ManualUnlock(t, o)
      PROVE  HasWeakRefInv'
  BY <1>32, SameKnown DEF ManualUnlock, heapVars
<1>33. ASSUME NEW t \in Threads, NEW u \in Threads, NEW o \in Objects,
             Give(t, u, o)
      PROVE  HasWeakRefInv'
  BY <1>33, SameKnown DEF Give, localVars
<1>34. ASSUME NEW t \in Threads, NEW o \in Referents, Create(t, o)
      PROVE  HasWeakRefInv'
  <2>1. TypeOK /\ o \in Objects
    BY Kinds DEF RefsInv
  <2>2. ASSUME NEW u \in Threads, pc[u] # "idle"
        PROVE  weak_ref'[self[u]] = weak_ref[self[u]]
    <3>1. self[u] # o /\ self[u] \in Objects
      BY <1>34, <2>1, <2>2, UnbornUnused, SelfType DEF Create
    <3> QED
      BY <1>34, <2>1, <3>1 DEF Create, TypeOK
  <2> QED
    BY <1>34, <2>2, SameKnown DEF Create, localVars
<1>35. ASSUME NEW t \in Threads, NEW o \in Objects, CallWeakRef(t, o)
      PROVE  HasWeakRefInv'
  BY <1>35, CallKnown DEF CallWeakRef
<1>36. ASSUME NEW t \in Threads, NEW o \in Objects, CallClear(t, o)
      PROVE  HasWeakRefInv'
  BY <1>36, CallKnown DEF CallClear
<1>37. ASSUME NEW t \in Threads, NEW o \in Referents, NEW from \in Referents,
             CallAssign(t, o, from)
      PROVE  HasWeakRefInv'
  BY <1>37, CallKnown, Kinds DEF CallAssign
<1>38. ASSUME NEW t \in Threads, NEW o \in Objects, CallDestroy(t, o)
      PROVE  HasWeakRefInv'
  BY <1>38, CallKnown DEF CallDestroy
<1>39. ASSUME NEW t \in Threads, NEW w \in WeakRefs, CallDeref(t, w)
      PROVE  HasWeakRefInv'
  BY <1>39, CallKnown, Kinds DEF CallDeref
<1>40. CASE UNCHANGED vars
  BY <1>40, SameKnown DEF vars, heapVars, localVars
<1>41. ASSUME NEW t \in Threads, RefStep(t)
      PROVE  HasWeakRefInv'
  BY <1>1, <1>2, <1>3, <1>4, <1>5, <1>6, <1>7, <1>41 DEF RefStep
<1>42. ASSUME NEW t \in Threads, UnrefStep(t)
      PROVE  HasWeakRefInv'
  BY <1>8, <1>9, <1>10, <1>11, <1>12, <1>13, <1>14, <1>15, <1>42 DEF UnrefStep
<1>43. ASSUME NEW t \in Threads, DestroyStep(t)
      PROVE  HasWeakRefInv'
  BY <1>16, <1>17, <1>18, <1>19, <1>20, <1>43 DEF DestroyStep
<1>44. ASSUME NEW t \in Threads, WeakStep(t)
      PROVE  HasWeakRefInv'
  BY <1>21, <1>22, <1>23, <1>24, <1>25, <1>26, <1>27, <1>28, <1>44 DEF WeakStep
<1>45. ASSUME NEW t \in Threads, ClientStep(t)
      PROVE  HasWeakRefInv'
  BY <1>29, <1>30, <1>31, <1>32, <1>33, <1>34, <1>35, <1>36, <1>37, <1>38, <1>39,
     <1>45 DEF ClientStep
<1> QED
  BY <1>40, <1>41, <1>42, <1>43, <1>44, <1>45 DEF Next, Rest, Step

-----------------------------------------------------------------------------
(* UnsetInv: nothing points at an object that is going away.               *)

(* What the invariant says of a thread and an object.                      *)
Untargeted(o) == \A w \in WeakRefs : target[w] # o

IsUnset(u, o) ==
  /\ Cleans(u, o) /\ ~(self[u] = o /\ pc[u] \in {"unref_unlock", "unref_unset"})
       => Untargeted(o)
  /\ self[u] = o /\ pc[u] \in {"mark", "free"} => weak_ref[o] = NULL

LEMMA UnsetParts ==
  /\ UnsetInv <=> \A u \in Threads : \A o \in Objects : IsUnset(u, o)
  /\ UnsetInv' <=> \A u \in Threads : \A o \in Objects : IsUnset(u, o)'
  BY DEF UnsetInv, IsUnset, Untargeted

(* A step that changes no pointer leaves objects unset if what t itself is *)
(* up to is unset.                                                         *)
LEMMA StillUnset ==
  ASSUME RefsInv, NEW t \in Threads,
         \A u \in Threads \ {t} : SameThread(u),
         UNCHANGED <<target, weak_ref>>,
         \A o \in Objects : IsUnset(t, o)'
  PROVE  UnsetInv'
<1>1. ASSUME NEW u \in Threads \ {t}, NEW o \in Objects
      PROVE  IsUnset(u, o)'
  <2>1. IsUnset(u, o)
    BY UnsetParts DEF RefsInv
  <2>2. SameThread(u) /\ (Cleans(u, o)' <=> Cleans(u, o))
    BY SameCleans
  <2> QED
    BY <2>1, <2>2 DEF IsUnset, Untargeted, SameThread
<1> QED
  BY <1>1, UnsetParts

(* A step that goes on with the same object.                               *)
LEMMA GotoUnset ==
  ASSUME RefsInv, NEW t \in Threads, Step(t), UNCHANGED <<self, outer, target, weak_ref>>,
         NEW l, pc' = [pc EXCEPT ![t] = l],
         \/ l \in {"unref_unlock", "unref_unset"}
         \/ l \notin UnrefLate \cup DestroyPcs
         \/ l \in UnrefLate /\ ~doCleanup'[t]
         \/ Untargeted(self[t]),
         l \in {"mark", "free"} => weak_ref[self[t]] = NULL
  PROVE  UnsetInv'
<1>1. pc'[t] = l /\ self'[t] = self[t] /\ \A u \in Threads \ {t} : SameThread(u)
  BY StepFrame DEF RefsInv, TypeOK
<1>2. ASSUME NEW o \in Objects
      PROVE  IsUnset(t, o)'
  <2>1. Waiting(t)' = Waiting(t)
    BY DEF Waiting
  <2>2. CASE o \in Waiting(t)
    <3>1. Cleans(t, o) /\ self[t] # o
      BY <2>2 DEF Cleans, RefsInv, StackInv
    <3>2. Untargeted(o)
      BY <3>1, UnsetParts DEF IsUnset, RefsInv
    <3> QED
      BY <1>1, <3>1, <3>2 DEF IsUnset, Untargeted
  <2>3. CASE o \notin Waiting(t)
    <3>1. CASE Untargeted(self[t])
      BY <1>1, <2>1, <2>3, <3>1 DEF IsUnset, Untargeted, Cleans
    <3>2. CASE ~Untargeted(self[t])
      BY <1>1, <2>1, <2>3, <3>2 DEF IsUnset, Cleans, UnrefLate, DestroyPcs
    <3> QED
      BY <3>1, <3>2
  <2> QED
    BY <2>2, <2>3
<1> QED
  BY <1>1, <1>2, StillUnset

(* The end of a call.                                                      *)
LEMMA ReturnUnset ==
  ASSUME RefsInv, NEW t \in Threads, Step(t), Return(t), UNCHANGED <<target, weak_ref>>
  PROVE  UnsetInv'
<1>1. TypeOK /\ StackInv /\ \A u \in Threads \ {t} : SameThread(u)
  BY StepFrame DEF RefsInv
<1>2. CASE outer[t] = <<>>
  <2>1. pc'[t] = "idle" /\ outer'[t] = <<>>
    BY <1>1, <1>2, Returned
  <2>2. \A o \in Objects : IsUnset(t, o)'
    BY <2>1 DEF IsUnset, Cleans, Waiting, UnrefLate, DestroyPcs
  <2> QED
    BY <1>1, <2>2, StillUnset
<1>3. CASE outer[t] # <<>>
  <2>1. /\ pc'[t] = "clear_null" /\ self'[t] = Head(outer[t])
        /\ outer'[t] = Tail(outer[t])
    BY <1>1, <1>3, Returned
  <2>2. ASSUME NEW o \in Objects
        PROVE  IsUnset(t, o)'
    <3>1. Cleans(t, o)' => o \in Waiting(t)
      BY <1>1, <1>3, <2>1, Popped, WaitingType DEF Cleans
    <3>2. ASSUME o \in Waiting(t)
          PROVE  Untargeted(o)
      <4>1. Cleans(t, o) /\ self[t] # o
        BY <3>2 DEF Cleans, RefsInv, StackInv
      <4> QED
        BY <4>1, UnsetParts DEF IsUnset, RefsInv
    <3> QED
      BY <2>1, <3>1, <3>2 DEF IsUnset, Untargeted
  <2> QED
    BY <1>1, <2>2, StillUnset
<1> QED
  BY <1>2, <1>3

(* A call of a client.                                                     *)
LEMMA CallUnset ==
  ASSUME RefsInv, NEW t \in Threads, NEW o \in Objects, NEW name, NEW label,
         Call(t, o, name, label),
         \/ label \in {"ref_enter", "unref_enter", "weak_check", "deref_check"}
         \/ label = "clear" /\ name \in ClearOps
         \/ label = "destroy" /\ weak_ref[o] = NULL
  PROVE  UnsetInv'
<1>1. /\ \A u \in Threads \ {t} : SameThread(u)
      /\ self'[t] = o /\ outer'[t] = <<>> /\ pc'[t] = label /\ op'[t] = name
      /\ UNCHANGED <<target, weak_ref>>
  BY Called
<1>2. weak_ref[o] = NULL => Untargeted(o)
  BY NoTarget DEF Untargeted
<1>3. ASSUME NEW p \in Objects
      PROVE  IsUnset(t, p)'
  BY <1>1, <1>2 DEF IsUnset, Untargeted, Cleans, Waiting, UnrefLate, DestroyPcs
<1> QED
  BY <1>1, <1>3, StillUnset

(* A step that leaves the calls alone, and the pointers to and from the    *)
(* objects that they work on.                                              *)
LEMMA SameUnset ==
  ASSUME RefsInv, UNCHANGED <<target, pc, self, outer, op, doCleanup>>,
         \A u \in Threads : pc[u] # "idle" => weak_ref'[self[u]] = weak_ref[self[u]]
  PROVE  UnsetInv'
<1>1. ASSUME NEW u \in Threads, NEW o \in Objects
      PROVE  IsUnset(u, o)'
  <2>1. IsUnset(u, o)
    BY UnsetParts DEF RefsInv
  <2>2. Cleans(u, o)' <=> Cleans(u, o)
    BY DEF Cleans, Waiting
  <2> QED
    BY <2>1, <2>2 DEF IsUnset, Untargeted
<1> QED
  BY <1>1, UnsetParts

(* Clear preserves UnsetInv.                                               *)
LEMMA UnsetClear ==
  ASSUME RefsInv, Freedoms = {}, NEW t \in Threads, Clear(t)
  PROVE  UnsetInv'
<1>1. /\ TypeOK /\ Step(t) /\ self[t] \in Objects /\ pc[t] = "clear"
      /\ UNCHANGED <<target, weak_ref>>
  BY SelfType DEF Clear, At, RefsInv, Step, DestroyStep, heapVars
<1>2. \A u \in Threads \ {t} : SameThread(u)
  BY <1>1, StepFrame
<1>3. CASE weak_ref[self[t]] # NULL
  <2>1. Cleans(t, self[t])
    BY <1>1, <1>3, ClearDrops
  <2>2. outer'[t] = <<self[t]>> \o outer[t] /\ pc'[t] = "unref_enter"
    BY <1>1, <1>3 DEF Clear, Goto, EndClear, TypeOK
  <2>3. ASSUME NEW p \in Objects
        PROVE  IsUnset(t, p)'
    <3>1. Cleans(t, p)' => p = self[t] \/ p \in Waiting(t)
      BY <1>1, <2>2, Pushed DEF Cleans, UnrefLate, DestroyPcs
    <3>2. Cleans(t, p)' => Cleans(t, p)
      BY <2>1, <3>1 DEF Cleans
    <3>3. Cleans(t, p) => Untargeted(p)
      BY <1>1, UnsetParts DEF IsUnset, RefsInv
    <3> QED
      BY <1>1, <2>2, <3>2, <3>3 DEF IsUnset, Untargeted
  <2> QED
    BY <1>1, <1>2, <2>3, StillUnset
<1>4. CASE weak_ref[self[t]] = NULL
  <2>1. CASE Return(t)
    BY <1>1, <2>1, ReturnUnset
  <2>2. CASE ~Return(t)
    <3>1. UNCHANGED <<self, outer>> /\ pc' = [pc EXCEPT ![t] = "mark"]
      BY <1>4, <2>2 DEF Clear, EndClear, Goto, localVars
    <3>2. Untargeted(self[t])
      BY <1>1, <1>4, NoTarget DEF Untargeted
    <3> QED
      BY <1>1, <1>4, <3>1, <3>2, GotoUnset
  <2> QED
    BY <2>1, <2>2
<1> QED
  BY <1>3, <1>4

(* ClearNull preserves UnsetInv.                                           *)
LEMMA UnsetClearNull ==
  ASSUME RefsInv, Freedoms = {}, NEW t \in Threads, ClearNull(t)
  PROVE  UnsetInv'
<1>1. /\ TypeOK /\ Step(t) /\ self[t] \in Objects /\ pc[t] = "clear_null"
      /\ op[t] \notin ClearOps /\ op[t] # "destroy"
  BY SelfType
     DEF ClearNull, At, RefsInv, Step, DestroyStep, ControlInv, ClearOps
<1>2. \A u \in Threads \ {t} : SameThread(u)
  BY <1>1, StepFrame
<1>3. Cleans(t, self[t])
  BY <1>1 DEF Cleans, DestroyPcs
<1>4. /\ outer' = outer /\ self' = self /\ pc'[t] = "mark" /\ op' = op
      /\ target' = target /\ doCleanup' = doCleanup
      /\ \A o \in Objects : weak_ref'[o] = IF o = self[t] THEN NULL ELSE weak_ref[o]
  BY <1>1 DEF ClearNull, EndClear, ClearsOnly, ClearOps, Goto, TypeOK, localVars
<1>5. ASSUME NEW u \in Threads, NEW o \in Objects
      PROVE  IsUnset(u, o)'
  <2>1. IsUnset(u, o)
    BY UnsetParts DEF RefsInv
  <2>2. CASE u = t
    <3>1. Cleans(t, o)' => Cleans(t, o)
      BY <1>1, <1>4 DEF Cleans, Waiting, UnrefLate, DestroyPcs
    <3> QED
      BY <1>1, <1>4, <2>1, <2>2, <3>1 DEF IsUnset, Untargeted
  <2>3. CASE u # t
    <3>1. Cleans(u, o)' <=> Cleans(u, o)
      BY <1>2, <2>3, SameCleans
    <3> QED
      BY <1>2, <1>4, <2>1, <2>3, <3>1 DEF IsUnset, Untargeted, SameThread
  <2> QED
    BY <2>2, <2>3
<1> QED
  BY <1>5, UnsetParts

(* UnrefUnset preserves UnsetInv.                                          *)
LEMMA UnsetUnrefUnset ==
  ASSUME RefsInv, Freedoms = {}, NEW t \in Threads, UnrefUnset(t)
  PROVE  UnsetInv'
<1> DEFINE w == weak_ref[self[t]]
<1>1. /\ TypeOK /\ Step(t) /\ self[t] \in Objects /\ w \in WeakRefs
      /\ pc[t] = "unref_unset"
  BY SelfType DEF UnrefUnset, At, RefsInv, Step, UnrefStep, TypeOK
<1>2. \A u \in Threads \ {t} : SameThread(u)
  BY <1>1, StepFrame
<1>3. /\ self' = self /\ outer' = outer /\ pc'[t] = "unref_unlock_weak"
      /\ weak_ref' = weak_ref /\ doCleanup' = doCleanup /\ op' = op
      /\ \A v \in WeakRefs : target'[v] = IF v = w THEN NULL ELSE target[v]
  BY <1>1 DEF UnrefUnset, Goto, localVars, TypeOK
<1>4. Untargeted(self[t])'
  BY <1>1, <1>3, Kinds DEF RefsInv, WeakInv, Untargeted
<1>5. ASSUME NEW o \in Objects
      PROVE  Untargeted(o) => Untargeted(o)'
  BY <1>3, Kinds DEF Untargeted
<1>6. ASSUME NEW u \in Threads, NEW o \in Objects
      PROVE  IsUnset(u, o)'
  <2>1. IsUnset(u, o)
    BY UnsetParts DEF RefsInv
  <2>2. CASE u = t
    <3>1. Cleans(t, o)' => Cleans(t, o)
      BY <1>1, <1>3 DEF Cleans, Waiting, UnrefLate, DestroyPcs
    <3>2. CASE self[t] = o
      BY <1>3, <1>4, <2>2, <3>2 DEF IsUnset
    <3>3. CASE self[t] # o
      BY <1>3, <1>5, <2>1, <2>2, <3>1, <3>3 DEF IsUnset
    <3> QED
      BY <3>2, <3>3
  <2>3. CASE u # t
    <3>1. Cleans(u, o)' <=> Cleans(u, o)
      BY <1>2, <2>3, SameCleans
    <3> QED
      BY <1>2, <1>3, <1>5, <2>1, <2>3, <3>1 DEF IsUnset, SameThread
  <2> QED
    BY <2>2, <2>3
<1> QED
  BY <1>6, UnsetParts

(* WeakNew preserves UnsetInv.                                             *)
LEMMA UnsetWeakNew ==
  ASSUME RefsInv, Freedoms = {}, NEW t \in Threads, WeakNew(t)
  PROVE  UnsetInv'
<1>1. TypeOK /\ Step(t) /\ self[t] \in Objects /\ outer[t] = <<>>
  BY SelfType, NoOuter
     DEF WeakNew, At, RefsInv, Step, WeakStep, WeakPcs, WeakNewPcs
<1>2. \A u \in Threads \ {t} : SameThread(u)
  BY <1>1, StepFrame
<1>3. held[t][self[t]] > 0
  BY DEF WeakNew, At, RefsInv, AliveInv, KeptAlive, WeakPcs, WeakNewPcs
<1>4. \A u \in Threads : ~Cleans(u, self[t])
  <2>1. ASSUME NEW u \in Threads, Cleans(u, self[t])
        PROVE  FALSE
    <3>1. t = u
      BY <1>1, <1>3, <2>1, OwnedNotCleaned, Kinds
    <3> QED
      BY <1>1, <2>1, <3>1, NoOuter DEF WeakNew, At, WeakPcs, WeakNewPcs
  <2> QED
    BY <2>1
<1>5. /\ outer'[t] = <<>> /\ pc'[t] = "weak_unlock"
      /\ \A v \in WeakRefs : target'[v] \in {target[v], self[t]}
      /\ \A o \in Objects : o # self[t] => weak_ref'[o] = weak_ref[o]
  BY <1>1 DEF WeakNew, y_WeakRef_new, Goto, localVars, heapVars, TypeOK
<1>6. ASSUME NEW u \in Threads, NEW o \in Objects
      PROVE  IsUnset(u, o)'
  <2>1. CASE u = t
    BY <1>5, <2>1 DEF IsUnset, Cleans, Waiting, UnrefLate, DestroyPcs
  <2>2. CASE u # t
    <3>1. Cleans(u, o)' <=> Cleans(u, o)
      BY <1>2, <2>2, SameCleans
    <3>2. pc[u] \in {"mark", "free"} /\ self[u] = o => o # self[t]
      <4>1. pc[u] \in {"mark", "free"} => op[u] \notin ClearOps
        BY DEF RefsInv, ControlInv, ClearOps
      <4> QED
        BY <1>4, <4>1 DEF Cleans, DestroyPcs
    <3>3. IsUnset(u, o)
      BY UnsetParts DEF RefsInv
    <3>4. o # self[t] /\ Untargeted(o) => Untargeted(o)'
      BY <1>5 DEF Untargeted
    <3> QED
      BY <1>2, <1>4, <1>5, <2>2, <3>1, <3>2, <3>3, <3>4 DEF IsUnset, SameThread
  <2> QED
    BY <2>1, <2>2
<1> QED
  BY <1>6, UnsetParts

(* A thread in no cleaning up that turns to y_ref of another object.       *)
LEMMA TurnUnset ==
  ASSUME RefsInv, NEW t \in Threads, Step(t), UNCHANGED <<target, weak_ref, outer>>,
         pc[t] \in WeakPcs \cup DerefPcs, pc' = [pc EXCEPT ![t] = "ref_enter"]
  PROVE  UnsetInv'
<1>1. pc'[t] = "ref_enter" /\ \A u \in Threads \ {t} : SameThread(u)
  BY StepFrame DEF RefsInv, TypeOK
<1>2. outer'[t] = <<>>
  BY NoOuter
<1>3. \A o \in Objects : IsUnset(t, o)'
  BY <1>1, <1>2 DEF IsUnset, Cleans, Waiting, UnrefLate, DestroyPcs
<1> QED
  BY <1>1, <1>3, StillUnset

(* Every step of clients that keep to the rules preserves UnsetInv.        *)
LEMMA UnsetStep ==
  ASSUME RefsInv, Freedoms = {}, [Next]_vars
  PROVE  UnsetInv'
<1>1. ASSUME NEW t \in Threads, RefEnter(t)
      PROVE  UnsetInv'
  <2>1. Step(t) /\ UNCHANGED <<self, outer, target, weak_ref>>
    BY <1>1 DEF RefEnter, RefStep, Step, heapVars, localVars
  <2> QED
    BY <1>1, <2>1, GotoUnset DEF RefEnter, At, Goto, UnrefLate, DestroyPcs
<1>2. ASSUME NEW t \in Threads, RefCheck(t)
      PROVE  UnsetInv'
  <2>1. Step(t) /\ UNCHANGED <<target, weak_ref>>
    BY <1>2 DEF RefCheck, RefStep, Step, heapVars
  <2>2. CASE Return(t)
    BY <2>1, <2>2, ReturnUnset
  <2>3. CASE ~Return(t)
    BY <1>2, <2>1, <2>3, GotoUnset
       DEF RefCheck, Goto, localVars, UnrefLate, DestroyPcs
  <2> QED
    BY <2>2, <2>3
<1>3. ASSUME NEW t \in Threads, RefWeak(t)
      PROVE  UnsetInv'
  <2>1. Step(t) /\ UNCHANGED <<self, outer, target, weak_ref>>
    BY <1>3 DEF RefWeak, RefStep, Step, heapVars, localVars
  <2> QED
    BY <1>3, <2>1, GotoUnset DEF RefWeak, At, Goto, UnrefLate, DestroyPcs
<1>4. ASSUME NEW t \in Threads, RefLockWeak(t)
      PROVE  UnsetInv'
  <2>1. Step(t) /\ UNCHANGED <<self, outer, target, weak_ref>>
    BY <1>4 DEF RefLockWeak, RefStep, Step, heapVars, localVars
  <2> QED
    BY <1>4, <2>1, GotoUnset DEF RefLockWeak, At, Goto, UnrefLate, DestroyPcs
<1>5. ASSUME NEW t \in Threads, RefLock(t)
      PROVE  UnsetInv'
  <2>1. Step(t) /\ UNCHANGED <<self, outer, target, weak_ref>>
    BY <1>5 DEF RefLock, RefStep, Step, heapVars, localVars
  <2> QED
    BY <1>5, <2>1, GotoUnset DEF RefLock, At, Goto, UnrefLate, DestroyPcs
<1>6. ASSUME NEW t \in Threads, RefUnlock(t)
      PROVE  UnsetInv'
  <2>1. Step(t) /\ UNCHANGED <<target, weak_ref>>
    BY <1>6 DEF RefUnlock, RefStep, Step, heapVars
  <2>2. CASE Return(t)
    BY <2>1, <2>2, ReturnUnset
  <2>3. CASE ~Return(t)
    BY <1>6, <2>1, <2>3, GotoUnset
       DEF RefUnlock, Goto, localVars, UnrefLate, DestroyPcs
  <2> QED
    BY <2>2, <2>3
<1>7. ASSUME NEW t \in Threads, RefUnlockWeak(t)
      PROVE  UnsetInv'
  BY <1>7, ReturnUnset DEF RefUnlockWeak, RefStep, Step, heapVars
<1>8. ASSUME NEW t \in Threads, UnrefEnter(t)
      PROVE  UnsetInv'
  <2>1. Step(t) /\ UNCHANGED <<self, outer, target, weak_ref>>
    BY <1>8 DEF UnrefEnter, UnrefStep, Step, heapVars, localVars
  <2> QED
    BY <1>8, <2>1, GotoUnset DEF UnrefEnter, At, Goto, UnrefLate, DestroyPcs
<1>9. ASSUME NEW t \in Threads, UnrefCheck(t)
      PROVE  UnsetInv'
  <2>1. Step(t) /\ UNCHANGED <<target, weak_ref>>
    BY <1>9 DEF UnrefCheck, UnrefStep, Step, heapVars
  <2>2. CASE Return(t)
    BY <2>1, <2>2, ReturnUnset
  <2>3. CASE ~Return(t)
    BY <1>9, <2>1, <2>3, GotoUnset
       DEF UnrefCheck, Goto, localVars, UnrefLate, DestroyPcs
  <2> QED
    BY <2>2, <2>3
<1>10. ASSUME NEW t \in Threads, UnrefWeak(t)
      PROVE  UnsetInv'
  <2>1. Step(t) /\ UNCHANGED <<self, outer, target, weak_ref>>
    BY <1>10 DEF UnrefWeak, UnrefStep, Step, heapVars, localVars
  <2> QED
    BY <1>10, <2>1, GotoUnset DEF UnrefWeak, At, Goto, UnrefLate, DestroyPcs
<1>11. ASSUME NEW t \in Threads, UnrefLockWeak(t)
      PROVE  UnsetInv'
  <2>1. Step(t) /\ UNCHANGED <<self, outer, target, weak_ref>>
    BY <1>11 DEF UnrefLockWeak, UnrefStep, Step, heapVars, localVars
  <2> QED
    BY <1>11, <2>1, GotoUnset DEF UnrefLockWeak, At, Goto, UnrefLate, DestroyPcs
<1>12. ASSUME NEW t \in Threads, UnrefLock(t)
      PROVE  UnsetInv'
  <2>1. Step(t) /\ UNCHANGED <<self, outer, target, weak_ref>>
    BY <1>12 DEF UnrefLock, UnrefStep, Step, heapVars, localVars
  <2> QED
    BY <1>12, <2>1, GotoUnset DEF UnrefLock, At, Goto, UnrefLate, DestroyPcs
<1>13. ASSUME NEW t \in Threads, UnrefUnlock(t)
      PROVE  UnsetInv'
  <2>1. /\ Step(t) /\ UNCHANGED <<target, weak_ref>> /\ pc[t] = "unref_unlock"
        /\ self[t] \in Objects
    BY <1>13, SelfType DEF UnrefUnlock, At, UnrefStep, Step, heapVars
  <2>2. CASE Return(t)
    BY <2>1, <2>2, ReturnUnset
  <2>3. CASE ~Return(t)
    <3>1. ~hasWeakRef[t] /\ doCleanup[t] => Untargeted(self[t])
      BY <2>1, NoTarget DEF RefsInv, HasWeakRefInv, UnrefLate, Untargeted
    <3>2. UNCHANGED <<self, outer, doCleanup>>
      BY <1>13, <2>3 DEF UnrefUnlock, EndUnref, localVars
    <3> QED
      BY <1>13, <2>1, <2>3, <3>1, <3>2, GotoUnset
         DEF UnrefUnlock, EndUnref, Goto, UnrefLate, DestroyPcs
  <2> QED
    BY <2>2, <2>3
<1>14. ASSUME NEW t \in Threads, UnrefUnset(t)
      PROVE  UnsetInv'
  BY <1>14, UnsetUnrefUnset
<1>15. ASSUME NEW t \in Threads, UnrefUnlockWeak(t)
      PROVE  UnsetInv'
  <2>1. /\ Step(t) /\ UNCHANGED <<target, weak_ref>> /\ pc[t] = "unref_unlock_weak"
        /\ self[t] \in Objects
    BY <1>15, SelfType DEF UnrefUnlockWeak, At, UnrefStep, Step, heapVars
  <2>2. CASE Return(t)
    BY <2>1, <2>2, ReturnUnset
  <2>3. CASE ~Return(t)
    <3>1. doCleanup[t]
      BY <1>15, <2>3 DEF UnrefUnlockWeak, EndUnref
    <3>2. Cleans(t, self[t]) /\ IsUnset(t, self[t])
      BY <2>1, <3>1, UnsetParts DEF Cleans, UnrefLate, RefsInv
    <3> QED
      BY <1>15, <2>1, <2>3, <3>2, GotoUnset
         DEF UnrefUnlockWeak, EndUnref, Goto, localVars, IsUnset
  <2> QED
    BY <2>2, <2>3
<1>16. ASSUME NEW t \in Threads, Destroy(t)
      PROVE  UnsetInv'
  <2>1. /\ Step(t) /\ UNCHANGED <<target, weak_ref>> /\ pc[t] = "destroy"
        /\ self[t] \in Objects
    BY <1>16, SelfType DEF Destroy, At, DestroyStep, Step, heapVars
  <2>2. CASE Return(t)
    BY <2>1, <2>2, ReturnUnset
  <2>3. CASE ~Return(t)
    <3>1. Cleans(t, self[t]) /\ IsUnset(t, self[t])
      BY <2>1, UnsetParts DEF Cleans, DestroyPcs, RefsInv, ControlInv, ClearOps
    <3> QED
      BY <1>16, <2>1, <2>3, <3>1, GotoUnset DEF Destroy, Goto, localVars, IsUnset
  <2> QED
    BY <2>2, <2>3
<1>17. ASSUME NEW t \in Threads, Clear(t)
      PROVE  UnsetInv'
  BY <1>17, UnsetClear
<1>18. ASSUME NEW t \in Threads, ClearNull(t)
      PROVE  UnsetInv'
  BY <1>18, UnsetClearNull
<1>19. ASSUME NEW t \in Threads, Mark(t)
      PROVE  UnsetInv'
  <2>1. /\ Step(t) /\ UNCHANGED <<target, weak_ref>> /\ pc[t] = "mark"
        /\ self[t] \in Objects
    BY <1>19, SelfType DEF Mark, At, DestroyStep, Step
  <2>2. weak_ref[self[t]] = NULL /\ Untargeted(self[t])
    BY <2>1, NoTarget DEF RefsInv, UnsetInv, Untargeted
  <2> QED
    BY <1>19, <2>1, <2>2, GotoUnset DEF Mark, Goto, localVars
<1>20. ASSUME NEW t \in Threads, Free(t)
      PROVE  UnsetInv'
  BY <1>20, ReturnUnset DEF Free, DestroyStep, Step, heapVars
<1>21. ASSUME NEW t \in Threads, WeakCheck(t)
      PROVE  UnsetInv'
  <2>1. Step(t) /\ UNCHANGED <<self, outer, target, weak_ref>>
    BY <1>21 DEF WeakCheck, WeakStep, Step, heapVars, localVars
  <2> QED
    BY <1>21, <2>1, GotoUnset DEF WeakCheck, At, Goto, UnrefLate, DestroyPcs
<1>22. ASSUME NEW t \in Threads, WeakLock(t)
      PROVE  UnsetInv'
  <2>1. Step(t) /\ UNCHANGED <<self, outer, target, weak_ref>>
    BY <1>22 DEF WeakLock, WeakStep, Step, heapVars, localVars
  <2> QED
    BY <1>22, <2>1, GotoUnset DEF WeakLock, At, Goto, UnrefLate, DestroyPcs
<1>23. ASSUME NEW t \in Threads, WeakNew(t)
      PROVE  UnsetInv'
  BY <1>23, UnsetWeakNew
<1>24. ASSUME NEW t \in Threads, WeakUnlock(t)
      PROVE  UnsetInv'
  <2>1. Step(t) /\ UNCHANGED <<self, outer, target, weak_ref>>
    BY <1>24 DEF WeakUnlock, WeakStep, Step, heapVars, localVars
  <2> QED
    BY <1>24, <2>1, GotoUnset DEF WeakUnlock, At, Goto, UnrefLate, DestroyPcs
<1>25. ASSUME NEW t \in Threads, WeakRefTail(t)
      PROVE  UnsetInv'
  <2>1. Step(t) /\ UNCHANGED <<target, weak_ref>> /\ TypeOK
    BY <1>25 DEF WeakRefTail, WeakStep, Step, heapVars, RefsInv
  <2>2. CASE Return(t)
    BY <2>1, <2>2, ReturnUnset
  <2>3. CASE ~Return(t)
    BY <1>25, <2>1, <2>3, TurnUnset DEF WeakRefTail, At, Goto, localVars, WeakPcs
  <2> QED
    BY <2>2, <2>3
<1>26. ASSUME NEW t \in Threads, DerefCheck(t)
      PROVE  UnsetInv'
  <2>1. Step(t) /\ UNCHANGED <<target, weak_ref>>
    BY <1>26 DEF DerefCheck, WeakStep, Step, heapVars
  <2>2. CASE Return(t)
    BY <2>1, <2>2, ReturnUnset
  <2>3. CASE ~Return(t)
    BY <1>26, <2>1, <2>3, GotoUnset
       DEF DerefCheck, Goto, localVars, UnrefLate, DestroyPcs
  <2> QED
    BY <2>2, <2>3
<1>27. ASSUME NEW t \in Threads, DerefLock(t)
      PROVE  UnsetInv'
  <2>1. Step(t) /\ UNCHANGED <<self, outer, target, weak_ref>>
    BY <1>27 DEF DerefLock, WeakStep, Step, heapVars, localVars
  <2> QED
    BY <1>27, <2>1, GotoUnset DEF DerefLock, At, Goto, UnrefLate, DestroyPcs
<1>28. ASSUME NEW t \in Threads, DerefUnlock(t)
      PROVE  UnsetInv'
  <2>1. Step(t) /\ UNCHANGED <<target, weak_ref>> /\ TypeOK
    BY <1>28 DEF DerefUnlock, WeakStep, Step, heapVars, RefsInv
  <2>2. CASE Return(t)
    BY <2>1, <2>2, ReturnUnset
  <2>3. CASE ~Return(t)
    BY <1>28, <2>1, <2>3, TurnUnset DEF DerefUnlock, At, Goto, localVars, DerefPcs
  <2> QED
    BY <2>2, <2>3
<1>29. ASSUME NEW t \in Threads, NEW o \in Objects, CallRef(t, o)
      PROVE  UnsetInv'
  BY <1>29, CallUnset DEF CallRef
<1>30. ASSUME NEW t \in Threads, NEW o \in Objects, CallUnref(t, o)
      PROVE  UnsetInv'
  BY <1>30, CallUnset DEF CallUnref
<1>31. ASSUME NEW t \in Threads, NEW o \in Objects, ManualLock(t, o)
      PROVE  UnsetInv'
  BY <1>31, SameUnset DEF ManualLock, heapVars
<1>32. ASSUME NEW t \in Threads, NEW o \in Objects, ManualUnlock(t, o)
      PROVE  UnsetInv'
  BY <1>32, SameUnset DEF ManualUnlock, heapVars
<1>33. ASSUME NEW t \in Threads, NEW u \in Threads, NEW o \in Objects,
             Give(t, u, o)
      PROVE  UnsetInv'
  BY <1>33, SameUnset DEF Give, localVars
<1>34. ASSUME NEW t \in Threads, NEW o \in Referents, Create(t, o)
      PROVE  UnsetInv'
  <2>1. TypeOK /\ o \in Objects
    BY Kinds DEF RefsInv
  <2>2. ASSUME NEW u \in Threads, pc[u] # "idle"
        PROVE  weak_ref'[self[u]] = weak_ref[self[u]]
    <3>1. self[u] # o /\ self[u] \in Objects
      BY <1>34, <2>1, <2>2, UnbornUnused, SelfType DEF Create
    <3> QED
      BY <1>34, <2>1, <3>1 DEF Create, TypeOK
  <2> QED
    BY <1>34, <2>2, SameUnset DEF Create, localVars
<1>35. ASSUME NEW t \in Threads, NEW o \in Objects, CallWeakRef(t, o)
      PROVE  UnsetInv'
  BY <1>35, CallUnset DEF CallWeakRef
<1>36. ASSUME NEW t \in Threads, NEW o \in Objects, CallClear(t, o)
      PROVE  UnsetInv'
  BY <1>36, CallUnset DEF CallClear, ClearOps
<1>37. ASSUME NEW t \in Threads, NEW o \in Referents, NEW from \in Referents,
             CallAssign(t, o, from)
      PROVE  UnsetInv'
  BY <1>37, CallUnset, Kinds DEF CallAssign, ClearOps
<1>38. ASSUME NEW t \in Threads, NEW o \in Objects, CallDestroy(t, o)
      PROVE  UnsetInv'
  BY <1>38, CallUnset DEF CallDestroy
<1>39. ASSUME NEW t \in Threads, NEW w \in WeakRefs, CallDeref(t, w)
      PROVE  UnsetInv'
  BY <1>39, CallUnset, Kinds DEF CallDeref
<1>40. CASE UNCHANGED vars
  BY <1>40, SameUnset DEF vars, heapVars, localVars
<1>41. ASSUME NEW t \in Threads, RefStep(t)
      PROVE  UnsetInv'
  BY <1>1, <1>2, <1>3, <1>4, <1>5, <1>6, <1>7, <1>41 DEF RefStep
<1>42. ASSUME NEW t \in Threads, UnrefStep(t)
      PROVE  UnsetInv'
  BY <1>8, <1>9, <1>10, <1>11, <1>12, <1>13, <1>14, <1>15, <1>42 DEF UnrefStep
<1>43. ASSUME NEW t \in Threads, DestroyStep(t)
      PROVE  UnsetInv'
  BY <1>16, <1>17, <1>18, <1>19, <1>20, <1>43 DEF DestroyStep
<1>44. ASSUME NEW t \in Threads, WeakStep(t)
      PROVE  UnsetInv'
  BY <1>21, <1>22, <1>23, <1>24, <1>25, <1>26, <1>27, <1>28, <1>44 DEF WeakStep
<1>45. ASSUME NEW t \in Threads, ClientStep(t)
      PROVE  UnsetInv'
  BY <1>29, <1>30, <1>31, <1>32, <1>33, <1>34, <1>35, <1>36, <1>37, <1>38, <1>39,
     <1>45 DEF ClientStep
<1> QED
  BY <1>40, <1>41, <1>42, <1>43, <1>44, <1>45 DEF Next, Rest, Step

-----------------------------------------------------------------------------
(* LocksPaired: a mutex is held by who is in its section.                  *)

(* An object is not its own weak reference.                                *)
LEMMA NotItself ==
  ASSUME RefsInv, NEW p \in Objects
  PROVE  weak_ref[p] # p
<1>1. {p} \in SUBSET Objects /\ {p} # {}
  OBVIOUS
<1> QED
  BY <1>1 DEF RefsInv, AcyclicInv

(* A thread that took no step is inside the same sections as before.       *)
LEMMA SameSection ==
  ASSUME NEW u, NEW o, SameThread(u), weak_ref'[self[u]] = weak_ref[self[u]]
  PROVE  /\ InSection(u, o)' <=> InSection(u, o)
         /\ locked'[u] = locked[u]
  BY DEF SameThread, InSection

(* So is every thread while another one takes a step of a call: a weak     *)
(* reference that changes is not one that a thread has locked.             *)
LEMMA OthersSections ==
  ASSUME RefsInv, NEW t \in Threads, Step(t), NEW u \in Threads, u # t,
         NEW o \in Objects
  PROVE  /\ InSection(u, o)' <=> InSection(u, o)
         /\ locked'[u] = locked[u]
<1>1. SameThread(u)
  BY StepFrame DEF RefsInv
<1>2. CASE weak_ref'[self[u]] = weak_ref[self[u]]
  BY <1>1, <1>2, SameSection
<1>3. CASE pc[u] = "idle"
  BY <1>1, <1>3 DEF SameThread, InSection, SelfLocked, WeakRefLocked
<1>4. ASSUME pc[u] # "idle", weak_ref[self[u]] = NULL, pc[u] \notin UnrefLabels
      PROVE  InSection(u, o)' <=> InSection(u, o)
  <2>1. pc[u] \in WeakRefLocked => pc[u] \in RefPcs \ {"ref_enter"}
    BY <1>4 DEF WeakRefLocked, RefPcs, UnrefLabels
  <2>2. pc[u] \in WeakRefLocked => ~hasWeakRef[u]
    BY <1>4, <2>1 DEF RefsInv, HasWeakRefInv, RefPcs
  <2> QED
    BY <1>1, <2>2 DEF SameThread, InSection
<1> QED
  BY <1>1, <1>2, <1>3, <1>4, OthersWeakRef DEF SameThread

(* A step of a call is no step of y_lock or y_unlock by the client itself. *)
LEMMA StepOfCall ==
  ASSUME RefsInv, NEW t \in Threads, Step(t)
  PROVE  /\ pc[t] # "idle" /\ locked[t] = NULL /\ locked'[t] = NULL
         /\ self[t] \in Objects
<1>1. pc[t] # "idle" /\ locked' = locked
  <2>1. CASE RefStep(t)
    BY <2>1 DEF RefStep, RefEnter, RefCheck, RefWeak, RefLockWeak, RefLock,
                RefUnlock, RefUnlockWeak, At, Return, localVars
  <2>2. CASE UnrefStep(t)
    BY <2>2 DEF UnrefStep, UnrefEnter, UnrefCheck, UnrefWeak, UnrefLockWeak,
                UnrefLock, UnrefUnlock, UnrefUnset, UnrefUnlockWeak, EndUnref,
                At, Return, localVars
  <2>3. CASE DestroyStep(t)
    BY <2>3 DEF DestroyStep, Destroy, Clear, ClearNull, Mark, Free, EndClear,
                At, Return, localVars
  <2>4. CASE WeakStep(t)
    BY <2>4 DEF WeakStep, WeakCheck, WeakLock, WeakNew, WeakUnlock, WeakRefTail,
                DerefCheck, DerefLock, DerefUnlock, At, Return, localVars
  <2> QED
    BY <2>1, <2>2, <2>3, <2>4 DEF Step
<1> QED
  BY <1>1, SelfType DEF RefsInv, ControlInv

(* What y_unlock does to the mutexes.                                      *)
LEMMA Unlocked ==
  ASSUME TypeOK, NEW p \in Objects, y_unlock(p), NEW o \in Objects
  PROVE  mutex'[o] = IF o = p THEN NULL ELSE mutex[o]
  BY Kinds DEF y_unlock, TypeOK

(* A step of a call may stay in the sections it is in, take a mutex whose  *)
(* section it enters, or give back that of the section it leaves.          *)
LEMMA SectionPairs ==
  ASSUME RefsInv, NEW t \in Threads, Step(t),
         \/ /\ mutex' = mutex
            /\ \A o \in Objects : InSection(t, o)' <=> InSection(t, o)
         \/ \E p \in Objects :
              /\ y_lock(t, p)
              /\ \A o \in Objects : InSection(t, o)' <=> InSection(t, o) \/ o = p
         \/ \E p \in Objects :
              /\ InSection(t, p) /\ y_unlock(p)
              /\ \A o \in Objects : InSection(t, o)' <=> InSection(t, o) /\ o # p
  PROVE  LocksPaired'
<1>1. TypeOK /\ locked[t] = NULL /\ locked'[t] = NULL
  BY StepOfCall DEF RefsInv
<1>2. SUFFICES ASSUME NEW u \in Threads, NEW o \in Objects
               PROVE  mutex'[o] = u <=> InSection(u, o)' \/ locked'[u] = o
  BY DEF LocksPaired
<1>3. /\ mutex[o] = u <=> InSection(u, o) \/ locked[u] = o
      /\ \A p \in Objects : InSection(t, p) => mutex[p] = t
  BY DEF RefsInv, LocksPaired
<1>4. u # t => (InSection(u, o)' <=> InSection(u, o)) /\ locked'[u] = locked[u]
  BY OthersSections
<1>5. CASE /\ mutex' = mutex
           /\ \A p \in Objects : InSection(t, p)' <=> InSection(t, p)
  BY <1>1, <1>3, <1>4, <1>5
<1>6. ASSUME NEW p \in Objects, y_lock(t, p),
             InSection(t, o)' <=> InSection(t, o) \/ o = p
      PROVE  mutex'[o] = u <=> InSection(u, o)' \/ locked'[u] = o
  <2>1. mutex[p] = NULL /\ mutex'[o] = IF o = p THEN t ELSE mutex[o]
    BY <1>1, <1>6, Kinds DEF y_lock, TypeOK
  <2> QED
    BY <1>1, <1>3, <1>4, <1>6, <2>1, Kinds
<1>7. ASSUME NEW p \in Objects, InSection(t, p), y_unlock(p),
             InSection(t, o)' <=> InSection(t, o) /\ o # p
      PROVE  mutex'[o] = u <=> InSection(u, o)' \/ locked'[u] = o
  <2>1. mutex[p] = t
    BY <1>3, <1>7
  <2>2. mutex'[o] = IF o = p THEN NULL ELSE mutex[o]
    BY <1>1, <1>7, Unlocked
  <2> QED
    BY <1>1, <1>3, <1>4, <1>7, <2>1, <2>2, Kinds
<1> QED
  BY <1>5, <1>6, <1>7

(* Most steps are taken outside all sections.                              *)
LEMMA OutsidePairs ==
  ASSUME RefsInv, NEW t \in Threads, Step(t), mutex' = mutex,
         pc[t] \notin SelfLocked \cup WeakRefLocked,
         \/ Return(t)
         \/ pc'[t] \notin SelfLocked \cup WeakRefLocked
         \/ pc'[t] \notin SelfLocked /\ ~hasWeakRef'[t]
  PROVE  LocksPaired'
<1>1. pc'[t] \in {"idle", "clear_null"} \/ ~Return(t)
  BY Returned DEF RefsInv
<1>2. \A o \in Objects : ~InSection(t, o) /\ ~InSection(t, o)'
  BY <1>1 DEF InSection, SelfLocked, WeakRefLocked
<1> QED
  BY <1>2, SectionPairs

(* A call begins outside all sections.                                     *)
LEMMA CallPairs ==
  ASSUME RefsInv, NEW t \in Threads, NEW o \in Objects, NEW name, NEW label,
         Call(t, o, name, label), label \notin SelfLocked \cup WeakRefLocked
  PROVE  LocksPaired'
<1>1. /\ \A u \in Threads \ {t} : SameThread(u)
      /\ pc'[t] = label /\ weak_ref' = weak_ref
  BY Called
<1>2. pc[t] = "idle" /\ UNCHANGED <<mutex, locked>>
  BY DEF Call, At
<1>3. ASSUME NEW u \in Threads, NEW p \in Objects
      PROVE  mutex'[p] = u <=> InSection(u, p)' \/ locked'[u] = p
  <2>1. mutex[p] = u <=> InSection(u, p) \/ locked[u] = p
    BY DEF RefsInv, LocksPaired
  <2>2. CASE u = t
    BY <1>1, <1>2, <2>1, <2>2 DEF InSection, SelfLocked, WeakRefLocked
  <2>3. CASE u # t
    BY <1>1, <1>2, <2>1, <2>3, SameSection
  <2> QED
    BY <2>2, <2>3
<1> QED
  BY <1>3 DEF LocksPaired

(* Nothing changes that the sections depend on.                            *)
LEMMA SamePairs ==
  ASSUME RefsInv, UNCHANGED <<mutex, weak_ref, pc, self, hasWeakRef, locked>>
  PROVE  LocksPaired'
  BY DEF RefsInv, LocksPaired, InSection

(* ManualLock preserves LocksPaired.                                       *)
LEMMA LocksManualLock ==
  ASSUME RefsInv, NEW t \in Threads, NEW o \in Objects, ManualLock(t, o)
  PROVE  LocksPaired'
<1>1. /\ mutex[o] = NULL /\ mutex' = [mutex EXCEPT ![o] = t]
      /\ locked[t] = NULL /\ locked' = [locked EXCEPT ![t] = o]
      /\ UNCHANGED <<weak_ref, pc, self, hasWeakRef>>
  BY Kinds DEF ManualLock, y_lock, heapVars
<1>2. TypeOK /\ \A p \in Objects : ~InSection(t, p)
  BY DEF ManualLock, At, InSection, SelfLocked, WeakRefLocked, RefsInv
<1>3. ASSUME NEW u \in Threads, NEW p \in Objects
      PROVE  mutex'[p] = u <=> InSection(u, p)' \/ locked'[u] = p
  <2>1. mutex[p] = u <=> InSection(u, p) \/ locked[u] = p
    BY DEF RefsInv, LocksPaired
  <2>2. InSection(u, p)' <=> InSection(u, p)
    BY <1>1 DEF InSection
  <2>3. /\ mutex'[p] = IF p = o THEN t ELSE mutex[p]
        /\ locked'[u] = IF u = t THEN o ELSE locked[u]
    BY <1>1, <1>2 DEF TypeOK
  <2> QED
    BY <1>1, <1>2, <2>1, <2>2, <2>3, Kinds
<1> QED
  BY <1>3 DEF LocksPaired

(* ManualUnlock preserves LocksPaired.                                     *)
LEMMA LocksManualUnlock ==
  ASSUME RefsInv, NEW t \in Threads, NEW o \in Objects, ManualUnlock(t, o)
  PROVE  LocksPaired'
<1>1. /\ mutex' = [mutex EXCEPT ![o] = NULL]
      /\ locked[t] = o /\ locked' = [locked EXCEPT ![t] = NULL]
      /\ UNCHANGED <<weak_ref, pc, self, hasWeakRef>>
  BY Kinds DEF ManualUnlock, y_unlock, heapVars
<1>2. TypeOK /\ \A p \in Objects : ~InSection(t, p)
  BY DEF ManualUnlock, At, InSection, SelfLocked, WeakRefLocked, RefsInv
<1>3. ASSUME NEW u \in Threads, NEW p \in Objects
      PROVE  mutex'[p] = u <=> InSection(u, p)' \/ locked'[u] = p
  <2>1. /\ mutex[p] = u <=> InSection(u, p) \/ locked[u] = p
        /\ mutex[o] = t
    BY <1>1 DEF RefsInv, LocksPaired
  <2>2. InSection(u, p)' <=> InSection(u, p)
    BY <1>1 DEF InSection
  <2>3. /\ mutex'[p] = IF p = o THEN NULL ELSE mutex[p]
        /\ locked'[u] = IF u = t THEN NULL ELSE locked[u]
    BY <1>1, <1>2 DEF TypeOK
  <2> QED
    BY <1>1, <1>2, <2>1, <2>2, <2>3, Kinds
<1> QED
  BY <1>3 DEF LocksPaired

(* RefLockWeak and UnrefLockWeak preserve LocksPaired.                     *)
LEMMA LocksLockWeak ==
  ASSUME RefsInv, NEW t \in Threads, RefLockWeak(t) \/ UnrefLockWeak(t)
  PROVE  LocksPaired'
<1> DEFINE p == weak_ref[self[t]]
<1>1. /\ Step(t) /\ UNCHANGED <<weak_ref, self, hasWeakRef>>
      /\ pc[t] \in {"ref_lock_weak", "unref_lock_weak"}
  BY DEF RefLockWeak, UnrefLockWeak, At, Step, RefStep, UnrefStep, heapVars
<1>2. hasWeakRef[t] /\ weak[t] = p /\ p # NULL
  BY <1>1 DEF RefsInv, ControlInv, WeakRefLabels, HasWeakRefInv, RefPcs, UnrefEarly
<1>3. TypeOK /\ p \in Objects /\ pc'[t] \in {"ref_lock", "unref_lock"}
  BY <1>1, <1>2, StepOfCall, Kinds
  DEF RefsInv, RefLockWeak, UnrefLockWeak, Goto, TypeOK
<1>4. y_lock(t, p)
  BY <1>2 DEF RefLockWeak, UnrefLockWeak
<1>5. \A o \in Objects : InSection(t, o)' <=> InSection(t, o) \/ o = p
  BY <1>1, <1>2, <1>3 DEF InSection, SelfLocked, WeakRefLocked
<1> QED
  BY <1>1, <1>3, <1>4, <1>5, SectionPairs

(* RefLock and UnrefLock preserve LocksPaired.                             *)
LEMMA LocksLock ==
  ASSUME RefsInv, NEW t \in Threads, RefLock(t) \/ UnrefLock(t)
  PROVE  LocksPaired'
<1>1. /\ Step(t) /\ UNCHANGED <<weak_ref, self, hasWeakRef>>
      /\ pc[t] \in {"ref_lock", "unref_lock"} /\ y_lock(t, self[t])
  BY DEF RefLock, UnrefLock, At, Step, RefStep, UnrefStep, localVars
<1>2. self[t] \in Objects /\ pc'[t] \in {"ref_unlock", "unref_unlock"}
  BY <1>1, StepOfCall DEF RefsInv, RefLock, UnrefLock, Goto, TypeOK
<1>3. \A o \in Objects : InSection(t, o)' <=> InSection(t, o) \/ o = self[t]
  BY <1>1, <1>2 DEF InSection, SelfLocked, WeakRefLocked
<1> QED
  BY <1>1, <1>2, <1>3, SectionPairs

(* RefUnlock and UnrefUnlock preserve LocksPaired.                         *)
LEMMA LocksUnlock ==
  ASSUME RefsInv, NEW t \in Threads, RefUnlock(t) \/ UnrefUnlock(t)
  PROVE  LocksPaired'
<1> DEFINE p == self[t]
<1>1. /\ Step(t) /\ weak_ref' = weak_ref /\ y_unlock(p)
      /\ pc[t] \in {"ref_unlock", "unref_unlock"}
  BY DEF RefUnlock, UnrefUnlock, At, Step, RefStep, UnrefStep, heapVars
<1>2. TypeOK /\ p \in Objects /\ weak_ref[p] # p
  BY <1>1, StepOfCall, NotItself DEF RefsInv
<1>3. InSection(t, p)
  BY <1>1 DEF InSection, SelfLocked
<1>4. ASSUME NEW o \in Objects
      PROVE  InSection(t, o)' <=> InSection(t, o) /\ o # p
  <2>1. ASSUME Return(t), ~hasWeakRef[t]
        PROVE  InSection(t, o)' <=> InSection(t, o) /\ o # p
    <3>1. pc'[t] \in {"idle", "clear_null"}
      BY <1>2, <2>1, Returned
    <3> QED
      BY <1>1, <2>1, <3>1 DEF InSection, SelfLocked, WeakRefLocked
  <2>2. ASSUME ~hasWeakRef[t], pc'[t] = "destroy"
        PROVE  InSection(t, o)' <=> InSection(t, o) /\ o # p
    BY <1>1, <2>2 DEF InSection, SelfLocked, WeakRefLocked
  <2>3. ASSUME UNCHANGED <<self, hasWeakRef>>,
               pc'[t] \in {"ref_unlock_weak", "unref_unset", "unref_unlock_weak"}
        PROVE  InSection(t, o)' <=> InSection(t, o) /\ o # p
    BY <1>1, <1>2, <2>3 DEF InSection, SelfLocked, WeakRefLocked
  <2> QED
    BY <1>2, <2>1, <2>2, <2>3
    DEF RefUnlock, UnrefUnlock, EndUnref, Goto, localVars, TypeOK
<1> QED
  BY <1>1, <1>2, <1>3, <1>4, SectionPairs

(* RefUnlockWeak and UnrefUnlockWeak preserve LocksPaired.                 *)
LEMMA LocksUnlockWeak ==
  ASSUME RefsInv, NEW t \in Threads, RefUnlockWeak(t) \/ UnrefUnlockWeak(t)
  PROVE  LocksPaired'
<1> DEFINE p == weak_ref[self[t]]
<1>1. /\ Step(t) /\ y_unlock(p)
      /\ pc[t] \in {"ref_unlock_weak", "unref_unlock_weak"}
  BY DEF RefUnlockWeak, UnrefUnlockWeak, At, Step, RefStep, UnrefStep
<1>2. hasWeakRef[t] /\ p # NULL
  BY <1>1 DEF RefsInv, ControlInv, WeakRefLabels, HasWeakRefInv, RefPcs, UnrefLate
<1>3. TypeOK /\ p \in Objects
  BY <1>1, <1>2, StepOfCall, Kinds DEF RefsInv, TypeOK
<1>4. pc'[t] \in {"idle", "clear_null", "destroy"}
  BY <1>3, Returned DEF RefUnlockWeak, UnrefUnlockWeak, EndUnref, Goto, TypeOK
<1>5. /\ InSection(t, p)
      /\ \A o \in Objects : InSection(t, o)' <=> InSection(t, o) /\ o # p
  BY <1>1, <1>2, <1>4 DEF InSection, SelfLocked, WeakRefLocked
<1> QED
  BY <1>1, <1>3, <1>5, SectionPairs

(* WeakUnlock and DerefUnlock preserve LocksPaired.                        *)
LEMMA LocksWeakUnlock ==
  ASSUME RefsInv, NEW t \in Threads, WeakUnlock(t) \/ DerefUnlock(t)
  PROVE  LocksPaired'
<1>1. /\ Step(t) /\ y_unlock(self[t])
      /\ pc[t] \in {"weak_unlock", "deref_unlock"}
  BY DEF WeakUnlock, DerefUnlock, At, Step, WeakStep
<1>2. TypeOK /\ self[t] \in Objects
  BY <1>1, StepOfCall DEF RefsInv
<1>3. pc'[t] \in {"weak_tail", "ref_enter", "idle", "clear_null"}
  BY <1>2, Returned DEF WeakUnlock, DerefUnlock, Goto, TypeOK
<1>4. /\ InSection(t, self[t])
      /\ \A o \in Objects : InSection(t, o)' <=> InSection(t, o) /\ o # self[t]
  BY <1>1, <1>3 DEF InSection, SelfLocked, WeakRefLocked
<1> QED
  BY <1>1, <1>2, <1>4, SectionPairs

(* WeakLock and DerefLock preserve LocksPaired.                            *)
LEMMA LocksWeakLock ==
  ASSUME RefsInv, NEW t \in Threads, WeakLock(t) \/ DerefLock(t)
  PROVE  LocksPaired'
<1>1. /\ Step(t) /\ y_lock(t, self[t]) /\ self' = self
      /\ pc[t] \in {"weak_lock", "deref_lock"}
  BY DEF WeakLock, DerefLock, At, Step, WeakStep
<1>2. self[t] \in Objects /\ pc'[t] \in {"weak_new", "deref_unlock"}
  BY <1>1, StepOfCall DEF WeakLock, DerefLock, Goto, RefsInv, TypeOK
<1>3. \A o \in Objects : InSection(t, o)' <=> InSection(t, o) \/ o = self[t]
  BY <1>1, <1>2 DEF InSection, SelfLocked, WeakRefLocked
<1> QED
  BY <1>1, <1>2, <1>3, SectionPairs

(* Create preserves LocksPaired.                                           *)
LEMMA LocksCreate ==
  ASSUME RefsInv, Freedoms = {}, NEW t \in Threads, NEW o \in Referents,
         Create(t, o)
  PROVE  LocksPaired'
<1>1. TypeOK /\ mutex' = mutex /\ o \in Objects
  BY Kinds DEF Create, RefsInv
<1>2. ASSUME NEW u \in Threads
      PROVE  SameThread(u)
  BY DEF Create, localVars, SameThread
<1>3. ASSUME NEW u \in Threads, NEW p \in Objects
      PROVE  mutex'[p] = u <=> InSection(u, p)' \/ locked'[u] = p
  <2>1. mutex[p] = u <=> InSection(u, p) \/ locked[u] = p
    BY DEF RefsInv, LocksPaired
  <2>2. CASE pc[u] \in WeakRefLocked
    <3>1. self[u] # o
      BY <2>2, SelfLive DEF Create, WeakRefLocked
    <3>2. weak_ref'[self[u]] = weak_ref[self[u]]
      BY <1>1, <3>1 DEF Create, TypeOK
    <3> QED
      BY <1>1, <1>2, <2>1, <3>2, SameSection
  <2>3. CASE pc[u] \notin WeakRefLocked
    BY <1>1, <1>2, <2>1, <2>3 DEF SameThread, InSection
  <2> QED
    BY <2>2, <2>3
<1> QED
  BY <1>3 DEF LocksPaired

(* Every step of clients that keep to the rules preserves LocksPaired.     *)
LEMMA LocksStep ==
  ASSUME RefsInv, Freedoms = {}, [Next]_vars
  PROVE  LocksPaired'
<1>1. ASSUME NEW t \in Threads, RefEnter(t)
      PROVE  LocksPaired'
  <2>1. Step(t) /\ mutex' = mutex /\ pc[t] \notin SelfLocked \cup WeakRefLocked
    BY <1>1 DEF RefEnter, At, Step, RefStep, SelfLocked, WeakRefLocked
  <2>2. \/ Return(t)
        \/ pc'[t] \notin SelfLocked \cup WeakRefLocked
        \/ pc'[t] \notin SelfLocked /\ ~hasWeakRef'[t]
    BY <1>1 DEF RefEnter, Goto, SelfLocked, WeakRefLocked, RefsInv, TypeOK
  <2> QED
    BY <2>1, <2>2, OutsidePairs
<1>2. ASSUME NEW t \in Threads, RefCheck(t)
      PROVE  LocksPaired'
  <2>1. Step(t) /\ mutex' = mutex /\ pc[t] \notin SelfLocked \cup WeakRefLocked
    BY <1>2 DEF RefCheck, At, Step, RefStep, SelfLocked, WeakRefLocked
  <2>2. \/ Return(t)
        \/ pc'[t] \notin SelfLocked \cup WeakRefLocked
        \/ pc'[t] \notin SelfLocked /\ ~hasWeakRef'[t]
    BY <1>2 DEF RefCheck, Goto, SelfLocked, WeakRefLocked, RefsInv, TypeOK, localVars
  <2> QED
    BY <2>1, <2>2, OutsidePairs
<1>3. ASSUME NEW t \in Threads, RefWeak(t)
      PROVE  LocksPaired'
  <2>1. Step(t) /\ mutex' = mutex /\ pc[t] \notin SelfLocked \cup WeakRefLocked
    BY <1>3 DEF RefWeak, At, Step, RefStep, SelfLocked, WeakRefLocked
  <2>2. \/ Return(t)
        \/ pc'[t] \notin SelfLocked \cup WeakRefLocked
        \/ pc'[t] \notin SelfLocked /\ ~hasWeakRef'[t]
    BY <1>3 DEF RefWeak, Goto, SelfLocked, WeakRefLocked, RefsInv, TypeOK
  <2> QED
    BY <2>1, <2>2, OutsidePairs
<1>4. ASSUME NEW t \in Threads, RefLockWeak(t)
      PROVE  LocksPaired'
  BY <1>4, LocksLockWeak
<1>5. ASSUME NEW t \in Threads, RefLock(t)
      PROVE  LocksPaired'
  BY <1>5, LocksLock
<1>6. ASSUME NEW t \in Threads, RefUnlock(t)
      PROVE  LocksPaired'
  BY <1>6, LocksUnlock
<1>7. ASSUME NEW t \in Threads, RefUnlockWeak(t)
      PROVE  LocksPaired'
  BY <1>7, LocksUnlockWeak
<1>8. ASSUME NEW t \in Threads, UnrefEnter(t)
      PROVE  LocksPaired'
  <2>1. Step(t) /\ mutex' = mutex /\ pc[t] \notin SelfLocked \cup WeakRefLocked
    BY <1>8 DEF UnrefEnter, At, Step, UnrefStep, SelfLocked, WeakRefLocked
  <2>2. \/ Return(t)
        \/ pc'[t] \notin SelfLocked \cup WeakRefLocked
        \/ pc'[t] \notin SelfLocked /\ ~hasWeakRef'[t]
    BY <1>8 DEF UnrefEnter, Goto, SelfLocked, WeakRefLocked, RefsInv, TypeOK
  <2> QED
    BY <2>1, <2>2, OutsidePairs
<1>9. ASSUME NEW t \in Threads, UnrefCheck(t)
      PROVE  LocksPaired'
  <2>1. Step(t) /\ mutex' = mutex /\ pc[t] \notin SelfLocked \cup WeakRefLocked
    BY <1>9 DEF UnrefCheck, At, Step, UnrefStep, SelfLocked, WeakRefLocked
  <2>2. \/ Return(t)
        \/ pc'[t] \notin SelfLocked \cup WeakRefLocked
        \/ pc'[t] \notin SelfLocked /\ ~hasWeakRef'[t]
    BY <1>9 DEF UnrefCheck, Goto, SelfLocked, WeakRefLocked, RefsInv, TypeOK, localVars
  <2> QED
    BY <2>1, <2>2, OutsidePairs
<1>10. ASSUME NEW t \in Threads, UnrefWeak(t)
      PROVE  LocksPaired'
  <2>1. Step(t) /\ mutex' = mutex /\ pc[t] \notin SelfLocked \cup WeakRefLocked
    BY <1>10 DEF UnrefWeak, At, Step, UnrefStep, SelfLocked, WeakRefLocked
  <2>2. \/ Return(t)
        \/ pc'[t] \notin SelfLocked \cup WeakRefLocked
        \/ pc'[t] \notin SelfLocked /\ ~hasWeakRef'[t]
    BY <1>10 DEF UnrefWeak, Goto, SelfLocked, WeakRefLocked, RefsInv, TypeOK
  <2> QED
    BY <2>1, <2>2, OutsidePairs
<1>11. ASSUME NEW t \in Threads, UnrefLockWeak(t)
      PROVE  LocksPaired'
  BY <1>11, LocksLockWeak
<1>12. ASSUME NEW t \in Threads, UnrefLock(t)
      PROVE  LocksPaired'
  BY <1>12, LocksLock
<1>13. ASSUME NEW t \in Threads, UnrefUnlock(t)
      PROVE  LocksPaired'
  BY <1>13, LocksUnlock
<1>14. ASSUME NEW t \in Threads, UnrefUnset(t)
      PROVE  LocksPaired'
  <2>1. /\ Step(t) /\ UNCHANGED <<mutex, weak_ref, self, hasWeakRef>>
        /\ pc[t] = "unref_unset" /\ pc'[t] = "unref_unlock_weak"
    BY <1>14
    DEF UnrefUnset, At, Goto, Step, UnrefStep, localVars, RefsInv, TypeOK
  <2>2. \A o \in Objects : InSection(t, o)' <=> InSection(t, o)
    BY <2>1 DEF InSection, SelfLocked, WeakRefLocked
  <2> QED
    BY <2>1, <2>2, SectionPairs
<1>15. ASSUME NEW t \in Threads, UnrefUnlockWeak(t)
      PROVE  LocksPaired'
  BY <1>15, LocksUnlockWeak
<1>16. ASSUME NEW t \in Threads, Destroy(t)
      PROVE  LocksPaired'
  <2>1. Step(t) /\ mutex' = mutex /\ pc[t] \notin SelfLocked \cup WeakRefLocked
    BY <1>16 DEF Destroy, At, Step, DestroyStep, SelfLocked, WeakRefLocked
  <2>2. \/ Return(t)
        \/ pc'[t] \notin SelfLocked \cup WeakRefLocked
        \/ pc'[t] \notin SelfLocked /\ ~hasWeakRef'[t]
    BY <1>16 DEF Destroy, Goto, SelfLocked, WeakRefLocked, RefsInv, TypeOK
  <2> QED
    BY <2>1, <2>2, OutsidePairs
<1>17. ASSUME NEW t \in Threads, Clear(t)
      PROVE  LocksPaired'
  <2>1. Step(t) /\ mutex' = mutex /\ pc[t] \notin SelfLocked \cup WeakRefLocked
    BY <1>17 DEF Clear, At, Step, DestroyStep, SelfLocked, WeakRefLocked
  <2>2. \/ Return(t)
        \/ pc'[t] \notin SelfLocked \cup WeakRefLocked
        \/ pc'[t] \notin SelfLocked /\ ~hasWeakRef'[t]
    BY <1>17 DEF Clear, Goto, SelfLocked, WeakRefLocked, RefsInv, TypeOK, EndClear
  <2> QED
    BY <2>1, <2>2, OutsidePairs
<1>18. ASSUME NEW t \in Threads, ClearNull(t)
      PROVE  LocksPaired'
  <2>1. Step(t) /\ mutex' = mutex /\ pc[t] \notin SelfLocked \cup WeakRefLocked
    BY <1>18 DEF ClearNull, At, Step, DestroyStep, SelfLocked, WeakRefLocked
  <2>2. \/ Return(t)
        \/ pc'[t] \notin SelfLocked \cup WeakRefLocked
        \/ pc'[t] \notin SelfLocked /\ ~hasWeakRef'[t]
    BY <1>18 DEF ClearNull, Goto, SelfLocked, WeakRefLocked, RefsInv, TypeOK, EndClear
  <2> QED
    BY <2>1, <2>2, OutsidePairs
<1>19. ASSUME NEW t \in Threads, Mark(t)
      PROVE  LocksPaired'
  <2>1. Step(t) /\ mutex' = mutex /\ pc[t] \notin SelfLocked \cup WeakRefLocked
    BY <1>19 DEF Mark, At, Step, DestroyStep, SelfLocked, WeakRefLocked
  <2>2. \/ Return(t)
        \/ pc'[t] \notin SelfLocked \cup WeakRefLocked
        \/ pc'[t] \notin SelfLocked /\ ~hasWeakRef'[t]
    BY <1>19 DEF Mark, Goto, SelfLocked, WeakRefLocked, RefsInv, TypeOK
  <2> QED
    BY <2>1, <2>2, OutsidePairs
<1>20. ASSUME NEW t \in Threads, Free(t)
      PROVE  LocksPaired'
  <2>1. Step(t) /\ mutex' = mutex /\ pc[t] \notin SelfLocked \cup WeakRefLocked
    BY <1>20 DEF Free, At, Step, DestroyStep, SelfLocked, WeakRefLocked
  <2>2. \/ Return(t)
        \/ pc'[t] \notin SelfLocked \cup WeakRefLocked
        \/ pc'[t] \notin SelfLocked /\ ~hasWeakRef'[t]
    BY <1>20 DEF Free, Goto, SelfLocked, WeakRefLocked, RefsInv, TypeOK
  <2> QED
    BY <2>1, <2>2, OutsidePairs
<1>21. ASSUME NEW t \in Threads, WeakCheck(t)
      PROVE  LocksPaired'
  <2>1. Step(t) /\ mutex' = mutex /\ pc[t] \notin SelfLocked \cup WeakRefLocked
    BY <1>21 DEF WeakCheck, At, Step, WeakStep, SelfLocked, WeakRefLocked
  <2>2. \/ Return(t)
        \/ pc'[t] \notin SelfLocked \cup WeakRefLocked
        \/ pc'[t] \notin SelfLocked /\ ~hasWeakRef'[t]
    BY <1>21 DEF WeakCheck, Goto, SelfLocked, WeakRefLocked, RefsInv, TypeOK
  <2> QED
    BY <2>1, <2>2, OutsidePairs
<1>22. ASSUME NEW t \in Threads, WeakLock(t)
      PROVE  LocksPaired'
  BY <1>22, LocksWeakLock
<1>23. ASSUME NEW t \in Threads, WeakNew(t)
      PROVE  LocksPaired'
  <2>1. /\ Step(t) /\ UNCHANGED <<mutex, self>>
        /\ pc[t] = "weak_new" /\ pc'[t] = "weak_unlock"
    BY <1>23 DEF WeakNew, At, Goto, Step, WeakStep, RefsInv, TypeOK
  <2>2. \A o \in Objects : InSection(t, o)' <=> InSection(t, o)
    BY <2>1 DEF InSection, SelfLocked, WeakRefLocked
  <2> QED
    BY <2>1, <2>2, SectionPairs
<1>24. ASSUME NEW t \in Threads, WeakUnlock(t)
      PROVE  LocksPaired'
  BY <1>24, LocksWeakUnlock
<1>25. ASSUME NEW t \in Threads, WeakRefTail(t)
      PROVE  LocksPaired'
  <2>1. Step(t) /\ mutex' = mutex /\ pc[t] \notin SelfLocked \cup WeakRefLocked
    BY <1>25 DEF WeakRefTail, At, Step, WeakStep, SelfLocked, WeakRefLocked
  <2>2. \/ Return(t)
        \/ pc'[t] \notin SelfLocked \cup WeakRefLocked
        \/ pc'[t] \notin SelfLocked /\ ~hasWeakRef'[t]
    BY <1>25 DEF WeakRefTail, Goto, SelfLocked, WeakRefLocked, RefsInv, TypeOK
  <2> QED
    BY <2>1, <2>2, OutsidePairs
<1>26. ASSUME NEW t \in Threads, DerefCheck(t)
      PROVE  LocksPaired'
  <2>1. Step(t) /\ mutex' = mutex /\ pc[t] \notin SelfLocked \cup WeakRefLocked
    BY <1>26 DEF DerefCheck, At, Step, WeakStep, SelfLocked, WeakRefLocked
  <2>2. \/ Return(t)
        \/ pc'[t] \notin SelfLocked \cup WeakRefLocked
        \/ pc'[t] \notin SelfLocked /\ ~hasWeakRef'[t]
    BY <1>26 DEF DerefCheck, Goto, SelfLocked, WeakRefLocked, RefsInv, TypeOK
  <2> QED
    BY <2>1, <2>2, OutsidePairs
<1>27. ASSUME NEW t \in Threads, DerefLock(t)
      PROVE  LocksPaired'
  BY <1>27, LocksWeakLock
<1>28. ASSUME NEW t \in Threads, DerefUnlock(t)
      PROVE  LocksPaired'
  BY <1>28, LocksWeakUnlock
<1>29. ASSUME NEW t \in Threads, NEW o \in Objects, CallRef(t, o)
      PROVE  LocksPaired'
  BY <1>29, CallPairs DEF CallRef, SelfLocked, WeakRefLocked
<1>30. ASSUME NEW t \in Threads, NEW o \in Objects, CallUnref(t, o)
      PROVE  LocksPaired'
  BY <1>30, CallPairs DEF CallUnref, SelfLocked, WeakRefLocked
<1>31. ASSUME NEW t \in Threads, NEW o \in Objects, ManualLock(t, o)
      PROVE  LocksPaired'
  BY <1>31, LocksManualLock
<1>32. ASSUME NEW t \in Threads, NEW o \in Objects, ManualUnlock(t, o)
      PROVE  LocksPaired'
  BY <1>32, LocksManualUnlock
<1>33. ASSUME NEW t \in Threads, NEW u \in Threads, NEW o \in Objects,
             Give(t, u, o)
      PROVE  LocksPaired'
  BY <1>33, SamePairs DEF Give, localVars
<1>34. ASSUME NEW t \in Threads, NEW o \in Referents, Create(t, o)
      PROVE  LocksPaired'
  BY <1>34, LocksCreate
<1>35. ASSUME NEW t \in Threads, NEW o \in Objects, CallWeakRef(t, o)
      PROVE  LocksPaired'
  BY <1>35, CallPairs DEF CallWeakRef, SelfLocked, WeakRefLocked
<1>36. ASSUME NEW t \in Threads, NEW o \in Objects, CallClear(t, o)
      PROVE  LocksPaired'
  BY <1>36, CallPairs DEF CallClear, SelfLocked, WeakRefLocked
<1>37. ASSUME NEW t \in Threads, NEW o \in Referents, NEW from \in Referents,
             CallAssign(t, o, from)
      PROVE  LocksPaired'
  BY <1>37, CallPairs, Kinds DEF CallAssign, SelfLocked, WeakRefLocked
<1>38. ASSUME NEW t \in Threads, NEW o \in Objects, CallDestroy(t, o)
      PROVE  LocksPaired'
  BY <1>38, CallPairs DEF CallDestroy, SelfLocked, WeakRefLocked
<1>39. ASSUME NEW t \in Threads, NEW w \in WeakRefs, CallDeref(t, w)
      PROVE  LocksPaired'
  BY <1>39, CallPairs, Kinds DEF CallDeref, SelfLocked, WeakRefLocked
<1>40. CASE UNCHANGED vars
  BY <1>40, SamePairs DEF vars, heapVars, localVars
<1>41. ASSUME NEW t \in Threads, RefStep(t)
      PROVE  LocksPaired'
  BY <1>1, <1>2, <1>3, <1>4, <1>5, <1>6, <1>7, <1>41 DEF RefStep
<1>42. ASSUME NEW t \in Threads, UnrefStep(t)
      PROVE  LocksPaired'
  BY <1>8, <1>9, <1>10, <1>11, <1>12, <1>13, <1>14, <1>15, <1>42 DEF UnrefStep
<1>43. ASSUME NEW t \in Threads, DestroyStep(t)
      PROVE  LocksPaired'
  BY <1>16, <1>17, <1>18, <1>19, <1>20, <1>43 DEF DestroyStep
<1>44. ASSUME NEW t \in Threads, WeakStep(t)
      PROVE  LocksPaired'
  BY <1>21, <1>22, <1>23, <1>24, <1>25, <1>26, <1>27, <1>28, <1>44 DEF WeakStep
<1>45. ASSUME NEW t \in Threads, ClientStep(t)
      PROVE  LocksPaired'
  BY <1>29, <1>30, <1>31, <1>32, <1>33, <1>34, <1>35, <1>36, <1>37, <1>38, <1>39,
     <1>45 DEF ClientStep
<1> QED
  BY <1>40, <1>41, <1>42, <1>43, <1>44, <1>45 DEF Next, Rest, Step

-----------------------------------------------------------------------------
(* MakerInv: nobody gives up an object whose first weak reference is made. *)

(* The client calls begin a call or leave the running ones alone, and none *)
(* changes a weak reference.                                               *)
LEMMA ClientMoves ==
  ASSUME RefsInv, NEW s \in Threads, ClientStep(s)
  PROVE  /\ weak_ref' = weak_ref
         /\ \/ UNCHANGED <<pc, self>>
            \/ \E o \in Objects : CallUnref(s, o) \/ CallWeakRef(s, o)
            \/ /\ \A u \in Threads \ {s} : SameThread(u)
               /\ pc'[s] \notin UnrefLabels \cup WeakNewPcs
<1>1. ASSUME NEW o \in Objects, NEW name, NEW label, Call(s, o, name, label),
             label \notin UnrefLabels \cup WeakNewPcs
      PROVE  /\ weak_ref' = weak_ref
             /\ \A u \in Threads \ {s} : SameThread(u)
             /\ pc'[s] \notin UnrefLabels \cup WeakNewPcs
  BY <1>1, Called
<1>2. CASE \E o \in Objects : CallRef(s, o) \/ CallClear(s, o) \/ CallDestroy(s, o)
  BY <1>1, <1>2 DEF CallRef, CallClear, CallDestroy, UnrefLabels, WeakNewPcs
<1>3. CASE \E o \in Referents : \E from \in Referents : CallAssign(s, o, from)
  BY <1>1, <1>3, Kinds DEF CallAssign, UnrefLabels, WeakNewPcs
<1>4. CASE \E w \in WeakRefs : CallDeref(s, w)
  BY <1>1, <1>4, Kinds DEF CallDeref, UnrefLabels, WeakNewPcs
<1>5. CASE \E o \in Objects : CallUnref(s, o) \/ CallWeakRef(s, o)
  BY <1>5 DEF CallUnref, CallWeakRef, Call, heapVars
<1>6. CASE \E o \in Objects : ManualLock(s, o) \/ ManualUnlock(s, o)
  BY <1>6 DEF ManualLock, ManualUnlock, heapVars
<1>7. CASE \E o \in Objects : \E u \in Threads : Give(s, u, o)
  BY <1>7 DEF Give
<1>8. ASSUME NEW o \in Referents, Create(s, o)
      PROVE  UNCHANGED <<pc, self, weak_ref>>
  <2>1. weak_ref[o] = NULL /\ o \in Objects
    BY <1>8, UnbornUnused, Kinds DEF Create
  <2> QED
    BY <1>8, <2>1 DEF Create, RefsInv, TypeOK
<1> QED
  BY <1>2, <1>3, <1>4, <1>5, <1>6, <1>7, <1>8 DEF ClientStep

(* How y_unref begins.                                                     *)
LEMMA NewGivers ==
  ASSUME RefsInv, [Next]_vars, NEW u \in Threads, NEW o \in Objects,
         GivesUp(u, o)'
  PROVE  \/ GivesUp(u, o)
         \/ CallUnref(u, o)
         \/ At(u, "clear") /\ weak_ref[self[u]] = o
<1>1. TypeOK /\ pc'[u] \in UnrefLabels /\ self'[u] = o
  BY DEF RefsInv, GivesUp
<1>2. CASE UNCHANGED <<pc, self>>
  BY <1>1, <1>2 DEF GivesUp
<1>3. CASE SameThread(u)
  BY <1>1, <1>3 DEF SameThread, GivesUp
<1>4. ~Return(u)
  BY <1>1, Returned DEF UnrefLabels
<1>5. CASE RefStep(u)
  BY <1>1, <1>4, <1>5
  DEF RefStep, RefEnter, RefCheck, RefWeak, RefLockWeak, RefLock, RefUnlock,
      RefUnlockWeak, Goto, UnrefLabels, TypeOK
<1>6. CASE UnrefStep(u)
  <2>1. pc[u] \in UnrefLabels /\ self'[u] = self[u]
    BY <1>1, <1>4, <1>6
    DEF UnrefStep, UnrefEnter, UnrefCheck, UnrefWeak, UnrefLockWeak, UnrefLock,
        UnrefUnlock, UnrefUnset, UnrefUnlockWeak, EndUnref, At, UnrefLabels
  <2> QED
    BY <1>1, <2>1 DEF GivesUp
<1>7. CASE DestroyStep(u)
  <2>1. Clear(u) /\ weak_ref[self[u]] # NULL
    BY <1>1, <1>4, <1>7
    DEF DestroyStep, Destroy, Clear, ClearNull, Mark, Free, EndClear, Goto,
        UnrefLabels, TypeOK
  <2> QED
    BY <1>1, <2>1 DEF Clear, TypeOK
<1>8. CASE WeakStep(u)
  BY <1>1, <1>4, <1>8
  DEF WeakStep, WeakCheck, WeakLock, WeakNew, WeakUnlock, WeakRefTail,
      DerefCheck, DerefLock, DerefUnlock, Goto, UnrefLabels, TypeOK
<1>9. ASSUME NEW s \in Threads, Step(s)
      PROVE  s = u \/ SameThread(u)
  BY <1>1, <1>9, StepFrame
<1>10. ASSUME NEW s \in Threads, NEW p \in Objects,
              CallUnref(s, p) \/ CallWeakRef(s, p)
       PROVE  CallUnref(u, o) \/ SameThread(u)
  <2>1. /\ \A v \in Threads \ {s} : SameThread(v)
        /\ self'[s] = p
        /\ CallUnref(s, p) \/ pc'[s] = "weak_check"
    BY <1>10, Called DEF CallUnref, CallWeakRef
  <2> QED
    BY <1>1, <2>1 DEF UnrefLabels
<1>11. ASSUME NEW s \in Threads, ClientStep(s)
       PROVE  CallUnref(u, o) \/ SameThread(u) \/ UNCHANGED <<pc, self>>
  BY <1>1, <1>10, <1>11, ClientMoves
<1> QED
  BY <1>2, <1>3, <1>5, <1>6, <1>7, <1>8, <1>9, <1>11
  DEF Next, Rest, Step, vars

(* How y_weak_ref begins to make a weak reference.                         *)
LEMMA NewMakers ==
  ASSUME RefsInv, [Next]_vars, NEW t \in Threads, NEW o \in Objects,
         MakesWeakRef(t, o)'
  PROVE  MakesWeakRef(t, o) \/ (CallWeakRef(t, o) /\ weak_ref[o] = NULL)
<1>1. TypeOK /\ pc'[t] \in WeakNewPcs /\ self'[t] = o /\ weak_ref'[o] = NULL
  BY DEF RefsInv, MakesWeakRef, WeakNewPcs
<1>2. ASSUME pc[t] \in WeakNewPcs, self[t] = o, weak_ref[o] = NULL
      PROVE  MakesWeakRef(t, o)
  BY <1>2 DEF MakesWeakRef, WeakNewPcs
<1>3. ASSUME NEW s \in Threads, Step(s), s # t
      PROVE  MakesWeakRef(t, o)
  <2>1. SameThread(t)
    BY <1>1, <1>3, StepFrame
  <2>2. pc[t] \in WeakNewPcs /\ self[t] = o /\ pc[t] # "idle"
    BY <1>1, <2>1 DEF SameThread, WeakNewPcs
  <2> QED
    BY <1>1, <1>2, <1>3, <2>2, OthersWeakRef
<1>4. ASSUME Step(t)
      PROVE  MakesWeakRef(t, o)
  <2>1. ~Return(t)
    BY <1>1, Returned DEF WeakNewPcs
  <2>2. CASE RefStep(t)
    BY <1>1, <2>1, <2>2
    DEF RefStep, RefEnter, RefCheck, RefWeak, RefLockWeak, RefLock, RefUnlock,
        RefUnlockWeak, Goto, WeakNewPcs, TypeOK
  <2>3. CASE UnrefStep(t)
    BY <1>1, <2>1, <2>3
    DEF UnrefStep, UnrefEnter, UnrefCheck, UnrefWeak, UnrefLockWeak, UnrefLock,
        UnrefUnlock, UnrefUnset, UnrefUnlockWeak, EndUnref, Goto, WeakNewPcs,
        TypeOK
  <2>4. CASE DestroyStep(t)
    BY <1>1, <2>1, <2>4
    DEF DestroyStep, Destroy, Clear, ClearNull, Mark, Free, EndClear, Goto,
        WeakNewPcs, TypeOK
  <2>5. ASSUME WeakStep(t), ~WeakCheck(t), ~WeakLock(t)
        PROVE  FALSE
    BY <1>1, <2>1, <2>5
    DEF WeakStep, WeakNew, WeakUnlock, WeakRefTail, DerefCheck, DerefLock,
        DerefUnlock, Goto, WeakNewPcs, TypeOK
  <2>6. CASE WeakCheck(t) \/ WeakLock(t)
    BY <1>1, <1>2, <2>6 DEF WeakCheck, WeakLock, At, WeakNewPcs, heapVars
  <2> QED
    BY <1>4, <2>2, <2>3, <2>4, <2>5, <2>6 DEF Step
<1>5. ASSUME UNCHANGED <<pc, self, weak_ref>>
      PROVE  MakesWeakRef(t, o)
  BY <1>1, <1>2, <1>5
<1>6. ASSUME SameThread(t), weak_ref' = weak_ref
      PROVE  MakesWeakRef(t, o)
  BY <1>1, <1>2, <1>6 DEF SameThread
<1>7. ASSUME NEW s \in Threads, NEW p \in Objects,
             CallUnref(s, p) \/ CallWeakRef(s, p)
      PROVE  SameThread(t) \/ CallWeakRef(t, o)
  <2>1. /\ \A v \in Threads \ {s} : SameThread(v)
        /\ self'[s] = p
        /\ CallWeakRef(s, p) \/ pc'[s] = "unref_enter"
    BY <1>7, Called DEF CallUnref, CallWeakRef
  <2> QED
    BY <1>1, <2>1 DEF WeakNewPcs
<1>8. ASSUME NEW s \in Threads, ClientStep(s)
      PROVE  MakesWeakRef(t, o) \/ (CallWeakRef(t, o) /\ weak_ref[o] = NULL)
  BY <1>1, <1>5, <1>6, <1>7, <1>8, ClientMoves
<1> QED
  BY <1>3, <1>4, <1>5, <1>8 DEF Next, Rest, Step, vars, heapVars

(* The steps that change what holders own.                                 *)
LEMMA HeldMoves ==
  ASSUME [Next]_vars
  PROVE  \/ held' = held
         \/ \E s \in Threads : \/ RefLock(s) \/ UnrefLock(s) \/ Mark(s) \/ WeakNew(s)
                               \/ \E o \in Referents : Create(s, o)
                               \/ \E u \in Threads, o \in Objects : Give(s, u, o)
<1>1. ASSUME NEW s \in Threads, RefStep(s), ~RefLock(s)
      PROVE  held' = held
  BY <1>1 DEF RefStep, RefEnter, RefCheck, RefWeak, RefLockWeak, RefUnlock,
              RefUnlockWeak, heapVars
<1>2. ASSUME NEW s \in Threads, UnrefStep(s), ~UnrefLock(s)
      PROVE  held' = held
  BY <1>2 DEF UnrefStep, UnrefEnter, UnrefCheck, UnrefWeak, UnrefLockWeak,
              UnrefUnlock, UnrefUnset, UnrefUnlockWeak, heapVars
<1>3. ASSUME NEW s \in Threads, DestroyStep(s), ~Mark(s)
      PROVE  held' = held
  BY <1>3 DEF DestroyStep, Destroy, Clear, ClearNull, Free, heapVars
<1>4. ASSUME NEW s \in Threads, WeakStep(s), ~WeakNew(s)
      PROVE  held' = held
  BY <1>4 DEF WeakStep, WeakCheck, WeakLock, WeakUnlock, WeakRefTail,
              DerefCheck, DerefLock, DerefUnlock, heapVars
<1>5. ASSUME NEW s \in Threads, ClientStep(s),
             ~ \E o \in Referents : Create(s, o),
             ~ \E u \in Threads, o \in Objects : Give(s, u, o)
      PROVE  held' = held
  BY <1>5
  DEF ClientStep, CallRef, CallUnref, CallWeakRef, CallClear, CallDestroy,
      CallAssign, CallDeref, Call, ManualLock, ManualUnlock, heapVars
<1>6. CASE UNCHANGED vars
  BY <1>6 DEF vars, heapVars
<1> QED
  BY <1>1, <1>2, <1>3, <1>4, <1>5, <1>6 DEF Next, Rest, Step

(* Weak references to an object that is alive are not made: what owns it   *)
(* besides the threads owned it before.  And a thread that makes a weak    *)
(* reference loses nothing that it owns.                                   *)
LEMMA MakerKeeps ==
  ASSUME RefsInv, [Next]_vars, NEW t \in Threads, NEW o \in Objects,
         NEW p \in Objects, pc[t] \in WeakNewPcs, life[o] = "live"
  PROVE  /\ held'[p][o] > 0 => held[p][o] > 0
         /\ held[t][p] > 0 => held'[t][p] > 0
<1> DEFINE Keeps == /\ held'[p][o] > 0 => held[p][o] > 0
                    /\ held[t][p] > 0 => held'[t][p] > 0
<1>1. /\ TypeOK /\ t \in Holders /\ p \in Holders /\ t # p /\ p \notin Threads
      /\ held[p][o] \in Nat /\ held[t][p] \in Nat
      /\ held \in [Holders -> [Objects -> Nat]]
  BY Kinds DEF RefsInv, TypeOK
<1>2. ASSUME NEW s \in Threads, RefLock(s)
      PROVE  Keeps
  <2>1. self[s] \in Objects /\ s \in Holders
    BY <1>2, SelfType, Kinds DEF RefLock, At
  <2>2. \/ held' = held
        \/ held' = [held EXCEPT ![s][self[s]] = @ + 1]
    BY <1>2 DEF RefLock
  <2>3. /\ held'[p] = held[p]
        /\ held'[t][p] = held[t][p] \/ held'[t][p] = held[t][p] + 1
    BY <1>1, <2>1, <2>2
  <2> QED
    BY <1>1, <2>3
<1>3. ASSUME NEW s \in Threads, UnrefLock(s)
      PROVE  Keeps
  <2>1. self[s] \in Objects /\ Releaser(s) \in Holders /\ s # t
    BY <1>3, Released, Kinds DEF UnrefLock, At, UnrefEarly, WeakNewPcs
  <2>2. Releaser(s) # t
    BY <1>1, <2>1, WaitingType, Kinds DEF Releaser
  <2>3. \/ held' = held
        \/ held' = [held EXCEPT ![Releaser(s)][self[s]] = @ - 1]
    BY <1>3 DEF UnrefLock
  <2>4. /\ held'[t] = held[t]
        /\ held'[p][o] = held[p][o] \/ held'[p][o] = held[p][o] - 1
    BY <1>1, <2>1, <2>2, <2>3
  <2> QED
    BY <1>1, <2>4
<1>4. ASSUME NEW s \in Threads, Mark(s)
      PROVE  Keeps
  <2>1. s # t /\ s # p
    BY <1>1, <1>4 DEF Mark, At, WeakNewPcs
  <2>2. \/ held' = held
        \/ held' = [held EXCEPT ![s][self[s]] = 0]
    BY <1>4 DEF Mark
  <2> QED
    BY <1>1, <2>1, <2>2
<1>5. ASSUME NEW s \in Threads, WeakNew(s)
      PROVE  Keeps
  <2>1. CASE held' = held
    BY <2>1
  <2>2. ASSUME NEW w \in WeakRefs, y_WeakRef_new(self[s], w)
        PROVE  Keeps
    <3>1. /\ w # o /\ w \in Objects /\ self[s] \in Holders /\ self[s] # t
          /\ held' = [held EXCEPT ![self[s]][w] = @ + 1]
      BY <1>5, <2>2, SelfType, Kinds DEF y_WeakRef_new, WeakNew, At
    <3> QED
      BY <1>1, <3>1
  <2> QED
    BY <1>5, <2>1, <2>2 DEF WeakNew, heapVars
<1>6. ASSUME NEW s \in Threads, NEW q \in Referents, Create(s, q)
      PROVE  Keeps
  <2>1. /\ s # t /\ s # p /\ s \in Holders /\ q \in Objects
        /\ held' = [held EXCEPT ![s][q] = 1]
    BY <1>1, <1>6, Kinds DEF Create, At, WeakNewPcs
  <2> QED
    BY <1>1, <2>1
<1>7. ASSUME NEW s \in Threads, NEW u \in Threads, NEW q \in Objects, Give(s, u, q)
      PROVE  Keeps
  <2>1. /\ s # t /\ u # t /\ s # p /\ u # p
        /\ held' = [held EXCEPT ![s][q] = @ - 1, ![u][q] = @ + 1]
    BY <1>1, <1>7 DEF Give, At, WeakNewPcs
  <2> QED
    BY <1>1, <2>1
<1> QED
  BY <1>2, <1>3, <1>4, <1>5, <1>6, <1>7, HeldMoves

(* Every step of clients that keep to the rules preserves MakerInv.        *)
LEMMA MakerStep ==
  ASSUME RefsInv, Freedoms = {}, [Next]_vars
  PROVE  MakerInv'
<1>1. SUFFICES ASSUME NEW t \in Threads, NEW o \in Objects, MakesWeakRef(t, o)'
               PROVE  /\ \A u \in Threads : ~GivesUp(u, o)'
                      /\ \A p \in Objects : held'[p][o] > 0 => held'[t][p] > 0
  BY DEF MakerInv
<1>2. CASE MakesWeakRef(t, o)
  <2>1. /\ \A u \in Threads : ~GivesUp(u, o)
        /\ \A p \in Objects : held[p][o] > 0 => held[t][p] > 0
    BY <1>2 DEF RefsInv, MakerInv
  <2>2. /\ pc[t] \in WeakNewPcs /\ self[t] = o /\ life[o] = "live"
        /\ t \in Holders
    BY <1>2, SelfLive, Kinds DEF MakesWeakRef, WeakNewPcs
  <2>3. ASSUME NEW u \in Threads, CallUnref(u, o)
        PROVE  FALSE
    BY <1>2, <2>3 DEF CallUnref
  <2>4. ASSUME NEW u \in Threads, At(u, "clear"), weak_ref[self[u]] = o
        PROVE  FALSE
    <3> DEFINE q == self[u]
    <3>1. /\ q \in Objects /\ Cleans(u, q) /\ op[u] = "unref"
          /\ held[q][o] = 1
      BY <2>4, ClearDrops, Kinds DEF At
    <3>2. held[t][q] > 0
      BY <2>1, <3>1
    <3> QED
      BY <2>2, <3>1, <3>2, OwnedNotCleaned
  <2>5. \A u \in Threads : ~GivesUp(u, o)'
    BY <2>1, <2>3, <2>4, NewGivers
  <2>6. \A p \in Objects : held'[p][o] > 0 => held'[t][p] > 0
    BY <2>1, <2>2, MakerKeeps
  <2> QED
    BY <2>5, <2>6
<1>3. CASE CallWeakRef(t, o) /\ weak_ref[o] = NULL
  <2>1. /\ \A u \in Threads : ~GivesUp(u, o)
        /\ \A p \in Objects : held[p][o] > 0 => held[t][p] > 0
        /\ Call(t, o, "weak_ref", "weak_check")
    BY <1>3 DEF CallWeakRef, Uses
  <2>2. /\ \A u \in Threads \ {t} : SameThread(u)
        /\ pc'[t] = "weak_check" /\ held' = held
    BY <2>1, Called
  <2>3. \A u \in Threads : ~GivesUp(u, o)'
    BY <2>1, <2>2 DEF GivesUp, SameThread, UnrefLabels
  <2> QED
    BY <2>1, <2>2, <2>3
<1> QED
  BY <1>1, <1>2, <1>3, NewMakers

=============================================================================

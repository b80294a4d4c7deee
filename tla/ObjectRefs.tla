----------------------------- MODULE ObjectRefs -----------------------------
(***************************************************************************)
(* Reference counting and weak references of Yakka objects: the y_ref,     *)
(* y_unref, y_weak_ref, y_clear, y_destroy, y_lock and y_unlock of         *)
(* yakka/Object.c and the y_WeakRef_deref and y_WeakRef_unset of           *)
(* yakka/WeakRef.c, called by any number of threads.                       *)
(*                                                                         *)
(* A WeakRef is itself an Object, so both run through the same steps, and  *)
(* a weak reference can have a weak reference in its turn.  One step of a  *)
(* thread is one access to data that other threads can change; taking a    *)
(* mutex is merged with the access that it protects.  "held" is a history  *)
(* variable: it counts the strong references each holder owns, a holder    *)
(* being a thread or an object whose weak_ref member owns one.             *)
(*                                                                         *)
(* The threads are the code's clients.  What they do beyond the rules the  *)
(* library needs is switched on by name in Freedoms:                       *)
(*   "bare_deref"       y_WeakRef_deref by a thread with no strong         *)
(*                      reference of its own to the referent               *)
(*   "late_weak_ref"    the first y_weak_ref on an object while somebody   *)
(*                      gives up a reference to it                         *)
(*   "clear"            y_clear on, or y_assign to, an object that has a   *)
(*                      weak reference or other owners                     *)
(*   "destroy"          y_destroy on an object that has a weak reference,  *)
(*                      other owners or a call at work on it               *)
(*   "call_under_lock"  library calls between y_lock and y_unlock          *)
(***************************************************************************)
EXTENDS Integers, FiniteSets, Sequences

CONSTANTS
  Threads,    \* the client threads
  Referents,  \* the ordinary objects that are ever created
  WeakRefs,   \* the y_WeakRef objects that are ever created
  NULL,       \* the null pointer, and "no owner" of a mutex
  MaxCalls,   \* bound on the library calls the clients make
  Freedoms    \* what the clients do beyond the rules, see above

Objects == Referents \cup WeakRefs
Holders == Threads \cup Objects

ASSUME RefsAssumption ==
  /\ Threads \cap Objects = {}
  /\ Referents \cap WeakRefs = {}
  /\ NULL \notin Threads \cup Objects
  /\ MaxCalls \in Nat

VARIABLES
  life,        \* stage of each object's memory; "deleted" is protect->deleted
  refcount,    \* protect->refcount
  weak_ref,    \* protect->weak_ref
  mutex,       \* the thread that has locked protect->mutex, or NULL
  target,      \* y_WeakRefProtected.target of each weak reference
  held,        \* history: the strong references owned by each holder
  pc,          \* the step each thread is about to take
  self,        \* the object argument of the running call
  outer,       \* the objects in whose y_Object_clear the call runs, inmost first
  weak,        \* the pointer y_ref and y_unref pass to y_lock, until it returns
  hasWeakRef,  \* local has_weak_ref of y_ref and y_unref
  doCleanup,   \* local do_cleanup of y_unref
  op,          \* the client call that is running
  calls,       \* the number of calls that were made, up to MaxCalls
  locked       \* the object each client has locked itself with y_lock, or NULL

heapVars  == <<life, refcount, weak_ref, target, held>>
localVars == <<outer, weak, hasWeakRef, doCleanup, op, calls, locked>>
vars == <<heapVars, mutex, pc, self, localVars>>

Stages == {"unborn", "live", "deleted", "freed"}
Ops ==
  {"none", "ref", "unref", "weak_ref", "deref", "clear", "assign", "destroy"}
Labels == { "idle",
  "ref_enter", "ref_check", "ref_weak", "ref_lock_weak", "ref_lock",
  "ref_unlock", "ref_unlock_weak",
  "unref_enter", "unref_check", "unref_weak", "unref_lock_weak", "unref_lock",
  "unref_unlock", "unref_unset", "unref_unlock_weak",
  "destroy", "clear", "clear_null", "mark", "free",
  "weak_check", "weak_lock", "weak_new", "weak_unlock", "weak_tail",
  "deref_check", "deref_lock", "deref_unlock" }

Init ==
  /\ life = [o \in Objects |-> "unborn"]
  /\ refcount = [o \in Objects |-> 0]
  /\ weak_ref = [o \in Objects |-> NULL]
  /\ mutex = [o \in Objects |-> NULL]
  /\ target = [w \in WeakRefs |-> NULL]
  /\ held = [h \in Holders |-> [o \in Objects |-> 0]]
  /\ pc = [t \in Threads |-> "idle"]
  /\ self = [t \in Threads |-> NULL]
  /\ outer = [t \in Threads |-> <<>>]
  /\ weak = [t \in Threads |-> NULL]
  /\ hasWeakRef = [t \in Threads |-> FALSE]
  /\ doCleanup = [t \in Threads |-> FALSE]
  /\ op = [t \in Threads |-> "none"]
  /\ calls = 0
  /\ locked = [t \in Threads |-> NULL]

-----------------------------------------------------------------------------
(* Steps of control. *)

At(t, label) == pc[t] = label
Goto(t, label) == pc' = [pc EXCEPT ![t] = label]

(* The end of a call: back to the client or, for the y_unref that          *)
(* y_Object_clear makes on the weak reference, back into y_Object_clear.   *)
Return(t) ==
  /\ \/ /\ outer[t] = <<>>
        /\ Goto(t, "idle")
        /\ self' = [self EXCEPT ![t] = NULL]
        /\ op' = [op EXCEPT ![t] = "none"]
        /\ UNCHANGED outer
     \/ /\ outer[t] # <<>>
        /\ Goto(t, "clear_null")
        /\ self' = [self EXCEPT ![t] = Head(outer[t])]
        /\ outer' = [outer EXCEPT ![t] = Tail(@)]
        /\ UNCHANGED op
  /\ hasWeakRef' = [hasWeakRef EXCEPT ![t] = FALSE]
  /\ doCleanup' = [doCleanup EXCEPT ![t] = FALSE]
  /\ UNCHANGED <<weak, calls, locked>>

(* y_lock and y_unlock: no effect on a null object; the APR mutex is not   *)
(* recursive, so a thread that locks twice waits for itself.               *)
y_lock(t, o) ==
  IF o = NULL THEN UNCHANGED mutex
  ELSE /\ mutex[o] = NULL
       /\ mutex' = [mutex EXCEPT ![o] = t]

y_unlock(o) ==
  IF o = NULL THEN UNCHANGED mutex ELSE mutex' = [mutex EXCEPT ![o] = NULL]

(* The holder that gives up its reference in the y_unref that t runs.      *)
Releaser(t) == IF outer[t] = <<>> THEN t ELSE Head(outer[t])

-----------------------------------------------------------------------------
(* The clients' calls. *)

Uses(t, o) == held[t][o] > 0

(* Nobody but t owns a reference to the object.                            *)
SoleUser(t, o) == \A h \in Holders \ {t} : held[h][o] = 0

UnrefLabels ==
  {"unref_enter", "unref_check", "unref_weak", "unref_lock_weak",
   "unref_lock", "unref_unlock", "unref_unset", "unref_unlock_weak"}

(* t is in y_unref of o, from the call until it has given the locks back.  *)
GivesUp(t, o) == self[t] = o /\ pc[t] \in UnrefLabels

(* t is in y_weak_ref of o and will make its weak reference if nobody else *)
(* has by then.                                                            *)
MakesWeakRef(t, o) ==
  /\ self[t] = o
  /\ pc[t] \in {"weak_check", "weak_lock", "weak_new"}
  /\ weak_ref[o] = NULL

Call(t, o, name, label) ==
  /\ At(t, "idle")
  /\ Uses(t, o)
  /\ calls < MaxCalls
  /\ "call_under_lock" \in Freedoms \/ locked[t] = NULL
  /\ Goto(t, label)
  /\ self' = [self EXCEPT ![t] = o]
  /\ op' = [op EXCEPT ![t] = name]
  /\ calls' = calls + 1
  /\ UNCHANGED <<heapVars, mutex, outer, weak, hasWeakRef, doCleanup, locked>>

CallRef(t, o) == Call(t, o, "ref", "ref_enter")

(* The first weak reference is not made while the object is given up: if   *)
(* the object has an owner besides the threads, which is the object whose  *)
(* weak reference it is, the thread keeps that one alive meanwhile.        *)
CallUnref(t, o) ==
  /\ (\A u \in Threads : ~MakesWeakRef(u, o)) \/ "late_weak_ref" \in Freedoms
  /\ Call(t, o, "unref", "unref_enter")

CallWeakRef(t, o) ==
  /\ \/ weak_ref[o] # NULL
     \/ /\ \A u \in Threads : ~GivesUp(u, o)
        /\ \A p \in Objects : held[p][o] > 0 => Uses(t, p)
     \/ "late_weak_ref" \in Freedoms
  /\ Call(t, o, "weak_ref", "weak_check")

CallDeref(t, w) ==
  /\ \/ target[w] \in {NULL} \cup {o \in Objects : Uses(t, o)}
     \/ "bare_deref" \in Freedoms
  /\ Call(t, w, "deref", "deref_check")

ClearableBy(t, o) ==
  (weak_ref[o] = NULL /\ SoleUser(t, o)) \/ "clear" \in Freedoms

CallClear(t, o) == ClearableBy(t, o) /\ Call(t, o, "clear", "clear")

(* y_assign to an object of a class with assign methods clears it first;   *)
(* the methods that follow change nothing that this module has.            *)
CallAssign(t, to, from) ==
  /\ Uses(t, from)
  /\ ClearableBy(t, to)
  /\ Call(t, to, "assign", "clear")

(* y_destroy takes no notice of the reference count: its caller must own   *)
(* the only reference, and the calls that others made must have returned.  *)
CallDestroy(t, o) ==
  /\ \/ /\ SoleUser(t, o)
        /\ held[t][o] = 1
        /\ \A u \in Threads \ {t} : self[u] # o
        /\ weak_ref[o] = NULL
     \/ "destroy" \in Freedoms
  /\ Call(t, o, "destroy", "destroy")

(* y_create for an ordinary object: the creator owns its one reference.    *)
Create(t, o) ==
  /\ At(t, "idle")
  /\ life[o] = "unborn"
  /\ life' = [life EXCEPT ![o] = "live"]
  /\ refcount' = [refcount EXCEPT ![o] = 1]
  /\ weak_ref' = [weak_ref EXCEPT ![o] = NULL]
  /\ held' = [held EXCEPT ![t][o] = 1]
  /\ UNCHANGED <<mutex, target, pc, self, localVars>>

(* A thread hands one of its references over to another thread.            *)
Give(t, u, o) ==
  /\ t # u
  /\ At(t, "idle")
  /\ At(u, "idle")
  /\ Uses(t, o)
  /\ locked[t] # o
  /\ held' = [held EXCEPT ![t][o] = @ - 1, ![u][o] = @ + 1]
  /\ UNCHANGED <<life, refcount, weak_ref, mutex, target, pc, self, localVars>>

(* y_lock or a successful y_try_lock by a client, and its y_unlock.        *)
ManualLock(t, o) ==
  /\ At(t, "idle")
  /\ Uses(t, o)
  /\ locked[t] = NULL
  /\ calls < MaxCalls
  /\ y_lock(t, o)
  /\ locked' = [locked EXCEPT ![t] = o]
  /\ calls' = calls + 1
  /\ UNCHANGED <<heapVars, pc, self, outer, weak, hasWeakRef, doCleanup, op>>

ManualUnlock(t, o) ==
  /\ At(t, "idle")
  /\ locked[t] = o
  /\ y_unlock(o)
  /\ locked' = [locked EXCEPT ![t] = NULL]
  /\ UNCHANGED <<heapVars, pc, self, outer, weak, hasWeakRef, doCleanup, op,
                 calls>>

-----------------------------------------------------------------------------
(* y_ref *)

RefEnter(t) ==
  /\ At(t, "ref_enter")
  /\ hasWeakRef' = [hasWeakRef EXCEPT ![t] = weak_ref[self[t]] # NULL]
  /\ Goto(t, "ref_check")
  /\ UNCHANGED <<heapVars, mutex, self, outer, weak, doCleanup, op, calls,
                 locked>>

RefCheck(t) ==
  /\ At(t, "ref_check")
  /\ \/ /\ refcount[self[t]] > 0
        /\ Goto(t, IF hasWeakRef[t] THEN "ref_weak" ELSE "ref_lock")
        /\ UNCHANGED <<self, localVars>>
     \/ /\ refcount[self[t]] <= 0
        /\ Return(t)
  /\ UNCHANGED <<heapVars, mutex>>

RefWeak(t) ==
  /\ At(t, "ref_weak")
  /\ weak' = [weak EXCEPT ![t] = weak_ref[self[t]]]
  /\ Goto(t, "ref_lock_weak")
  /\ UNCHANGED <<heapVars, mutex, self, outer, hasWeakRef, doCleanup, op, calls,
                 locked>>

RefLockWeak(t) ==
  /\ At(t, "ref_lock_weak")
  /\ y_lock(t, weak[t])
  /\ weak' = [weak EXCEPT ![t] = NULL]
  /\ Goto(t, "ref_lock")
  /\ UNCHANGED <<heapVars, self, outer, hasWeakRef, doCleanup, op, calls, locked>>

(* Mutant: y_ref counts without testing the count again under the lock.    *)
RefLockUnchecked(t) ==
  /\ At(t, "ref_lock")
  /\ y_lock(t, self[t])
  /\ refcount' = [refcount EXCEPT ![self[t]] = @ + 1]
  /\ held' = [held EXCEPT ![t][self[t]] = @ + 1]
  /\ Goto(t, "ref_unlock")
  /\ UNCHANGED <<life, weak_ref, target, self, localVars>>

(* The count is tested again under the lock.                               *)
RefLock(t) ==
  /\ At(t, "ref_lock")
  /\ y_lock(t, self[t])
  /\ \/ /\ refcount[self[t]] > 0
        /\ refcount' = [refcount EXCEPT ![self[t]] = @ + 1]
        /\ held' = [held EXCEPT ![t][self[t]] = @ + 1]
     \/ /\ refcount[self[t]] <= 0
        /\ UNCHANGED <<refcount, held>>
  /\ Goto(t, "ref_unlock")
  /\ UNCHANGED <<life, weak_ref, target, self, localVars>>

(* Mutant: y_ref forgets that it locked the weak reference too.            *)
RefUnlockSelfOnly(t) ==
  /\ At(t, "ref_unlock")
  /\ y_unlock(self[t])
  /\ Return(t)
  /\ UNCHANGED heapVars

RefUnlock(t) ==
  /\ At(t, "ref_unlock")
  /\ y_unlock(self[t])
  /\ \/ /\ hasWeakRef[t]
        /\ Goto(t, "ref_unlock_weak")
        /\ UNCHANGED <<self, localVars>>
     \/ /\ ~hasWeakRef[t]
        /\ Return(t)
  /\ UNCHANGED heapVars

(* The code reads protect->weak_ref once more to unlock it.                *)
RefUnlockWeak(t) ==
  /\ At(t, "ref_unlock_weak")
  /\ y_unlock(weak_ref[self[t]])
  /\ Return(t)
  /\ UNCHANGED heapVars

-----------------------------------------------------------------------------
(* y_unref *)

UnrefEnter(t) ==
  /\ At(t, "unref_enter")
  /\ hasWeakRef' = [hasWeakRef EXCEPT ![t] = weak_ref[self[t]] # NULL]
  /\ Goto(t, "unref_check")
  /\ UNCHANGED <<heapVars, mutex, self, outer, weak, doCleanup, op, calls,
                 locked>>

UnrefCheck(t) ==
  /\ At(t, "unref_check")
  /\ \/ /\ refcount[self[t]] > 0
        /\ Goto(t, IF hasWeakRef[t] THEN "unref_weak" ELSE "unref_lock")
        /\ UNCHANGED <<self, localVars>>
     \/ /\ refcount[self[t]] <= 0
        /\ Return(t)
  /\ UNCHANGED <<heapVars, mutex>>

UnrefWeak(t) ==
  /\ At(t, "unref_weak")
  /\ weak' = [weak EXCEPT ![t] = weak_ref[self[t]]]
  /\ Goto(t, "unref_lock_weak")
  /\ UNCHANGED <<heapVars, mutex, self, outer, hasWeakRef, doCleanup, op, calls,
                 locked>>

(* Mutant: y_unref does not lock the weak reference.                       *)
UnrefSkipsWeakLock(t) ==
  /\ At(t, "unref_lock_weak")
  /\ weak' = [weak EXCEPT ![t] = NULL]
  /\ Goto(t, "unref_lock")
  /\ UNCHANGED <<heapVars, mutex, self, outer, hasWeakRef, doCleanup, op, calls,
                 locked>>

UnrefLockWeak(t) ==
  /\ At(t, "unref_lock_weak")
  /\ y_lock(t, weak[t])
  /\ weak' = [weak EXCEPT ![t] = NULL]
  /\ Goto(t, "unref_lock")
  /\ UNCHANGED <<heapVars, self, outer, hasWeakRef, doCleanup, op, calls, locked>>

(* Mutant: y_unref cleans up when one reference is left.                   *)
UnrefLockOffByOne(t) ==
  /\ At(t, "unref_lock")
  /\ y_lock(t, self[t])
  /\ refcount' = [refcount EXCEPT ![self[t]] = @ - 1]
  /\ held' = [held EXCEPT ![Releaser(t)][self[t]] = @ - 1]
  /\ doCleanup' = [doCleanup EXCEPT ![t] = refcount[self[t]] <= 2]
  /\ Goto(t, "unref_unlock")
  /\ UNCHANGED <<life, weak_ref, target, self, outer, weak, hasWeakRef, op,
                 calls, locked>>

UnrefLock(t) ==
  /\ At(t, "unref_lock")
  /\ y_lock(t, self[t])
  /\ \/ /\ refcount[self[t]] > 0
        /\ refcount' = [refcount EXCEPT ![self[t]] = @ - 1]
        /\ held' = [held EXCEPT ![Releaser(t)][self[t]] = @ - 1]
        /\ doCleanup' = [doCleanup EXCEPT ![t] = refcount[self[t]] = 1]
     \/ /\ refcount[self[t]] <= 0
        /\ UNCHANGED <<refcount, held, doCleanup>>
  /\ Goto(t, "unref_unlock")
  /\ UNCHANGED <<life, weak_ref, target, self, outer, weak, hasWeakRef, op,
                 calls, locked>>

(* The tail of y_unref once the locks are given back.                      *)
EndUnref(t) ==
  \/ /\ doCleanup[t]
     /\ Goto(t, "destroy")
     /\ UNCHANGED <<self, localVars>>
  \/ /\ ~doCleanup[t]
     /\ Return(t)

(* Mutant: the object is destroyed with its mutex still locked.            *)
UnrefUnlockUnlessLast(t) ==
  /\ At(t, "unref_unlock")
  /\ IF doCleanup[t] THEN UNCHANGED mutex ELSE y_unlock(self[t])
  /\ \/ /\ hasWeakRef[t]
        /\ Goto(t, IF doCleanup[t] THEN "unref_unset" ELSE "unref_unlock_weak")
        /\ UNCHANGED <<self, localVars>>
     \/ /\ ~hasWeakRef[t]
        /\ EndUnref(t)
  /\ UNCHANGED heapVars

UnrefUnlock(t) ==
  /\ At(t, "unref_unlock")
  /\ y_unlock(self[t])
  /\ \/ /\ hasWeakRef[t]
        /\ Goto(t, IF doCleanup[t] THEN "unref_unset" ELSE "unref_unlock_weak")
        /\ UNCHANGED <<self, localVars>>
     \/ /\ ~hasWeakRef[t]
        /\ EndUnref(t)
  /\ UNCHANGED heapVars

(* Mutant: the weak reference is not reset.                                *)
UnrefUnsetSkipped(t) ==
  /\ At(t, "unref_unset")
  /\ Goto(t, "unref_unlock_weak")
  /\ UNCHANGED <<heapVars, mutex, self, localVars>>

(* y_WeakRef_unset; it follows a null pointer if weak_ref was reset.       *)
UnrefUnset(t) ==
  /\ At(t, "unref_unset")
  /\ weak_ref[self[t]] # NULL
  /\ target' = [target EXCEPT ![weak_ref[self[t]]] = NULL]
  /\ Goto(t, "unref_unlock_weak")
  /\ UNCHANGED <<life, refcount, weak_ref, held, mutex, self, localVars>>

(* Mutant: an object with a weak reference is never destroyed.             *)
UnrefUnlockWeakOnly(t) ==
  /\ At(t, "unref_unlock_weak")
  /\ y_unlock(weak_ref[self[t]])
  /\ Return(t)
  /\ UNCHANGED heapVars

UnrefUnlockWeak(t) ==
  /\ At(t, "unref_unlock_weak")
  /\ y_unlock(weak_ref[self[t]])
  /\ EndUnref(t)
  /\ UNCHANGED heapVars

-----------------------------------------------------------------------------
(* y_destroy, and y_clear_object with unref_objects true.  Clear methods   *)
(* of subclasses run first; the one of Object runs last and drops the weak *)
(* reference.                                                              *)

Destroy(t) ==
  /\ At(t, "destroy")
  /\ \/ /\ life[self[t]] = "live"
        /\ Goto(t, "clear")
        /\ UNCHANGED <<self, localVars>>
     \/ /\ life[self[t]] # "live"
        /\ Return(t)
  /\ UNCHANGED <<heapVars, mutex>>

(* The chain is that of y_clear or y_assign, which leave the object alone  *)
(* after it, and not that of y_destroy, which goes on to free the object.  *)
ClearsOnly(t) == op[t] \in {"clear", "assign"} /\ outer[t] = <<>>

EndClear(t) ==
  \/ /\ ClearsOnly(t)
     /\ Return(t)
  \/ /\ ~ClearsOnly(t)
     /\ Goto(t, "mark")
     /\ UNCHANGED <<self, localVars>>

(* Mutant: y_Object_clear keeps the reference to the weak reference.       *)
ClearKeepsWeakRef(t) ==
  /\ At(t, "clear")
  /\ EndClear(t)
  /\ UNCHANGED <<heapVars, mutex>>

Clear(t) ==
  /\ At(t, "clear")
  /\ \/ /\ weak_ref[self[t]] # NULL
        /\ Goto(t, "unref_enter")
        /\ self' = [self EXCEPT ![t] = weak_ref[self[t]]]
        /\ outer' = [outer EXCEPT ![t] = <<self[t]>> \o @]
        /\ hasWeakRef' = [hasWeakRef EXCEPT ![t] = FALSE]
        /\ doCleanup' = [doCleanup EXCEPT ![t] = FALSE]
        /\ UNCHANGED <<weak, op, calls, locked>>
     \/ /\ weak_ref[self[t]] = NULL
        /\ EndClear(t)
  /\ UNCHANGED <<heapVars, mutex>>

ClearNull(t) ==
  /\ At(t, "clear_null")
  /\ weak_ref' = [weak_ref EXCEPT ![self[t]] = NULL]
  /\ EndClear(t)
  /\ UNCHANGED <<life, refcount, target, held, mutex>>

(* From here on the reference of a client that called y_destroy is void.   *)
Mark(t) ==
  /\ At(t, "mark")
  /\ life' = [life EXCEPT ![self[t]] = "deleted"]
  /\ held' = IF op[t] = "destroy" /\ outer[t] = <<>>
             THEN [held EXCEPT ![t][self[t]] = 0] ELSE held
  /\ Goto(t, "free")
  /\ UNCHANGED <<refcount, weak_ref, target, mutex, self, localVars>>

(* y_Runtime_free_object_pool: the object's memory is gone.                *)
Free(t) ==
  /\ At(t, "free")
  /\ life' = [life EXCEPT ![self[t]] = "freed"]
  /\ Return(t)
  /\ UNCHANGED <<refcount, weak_ref, target, held, mutex>>

-----------------------------------------------------------------------------
(* y_weak_ref *)

WeakCheck(t) ==
  /\ At(t, "weak_check")
  /\ Goto(t, IF weak_ref[self[t]] = NULL THEN "weak_lock" ELSE "weak_tail")
  /\ UNCHANGED <<heapVars, mutex, self, localVars>>

WeakLock(t) ==
  /\ At(t, "weak_lock")
  /\ y_lock(t, self[t])
  /\ Goto(t, "weak_new")
  /\ UNCHANGED <<heapVars, self, localVars>>

(* Mutant: the object gets its own address back as its weak reference.     *)
WeakRefNewReturnsInstance(o, w) ==
  /\ life[w] = "unborn"
  /\ life' = [life EXCEPT ![w] = "live"]
  /\ refcount' = [refcount EXCEPT ![w] = 1]
  /\ target' = [target EXCEPT ![w] = o]
  /\ weak_ref' = [weak_ref EXCEPT ![o] = o]
  /\ held' = [held EXCEPT ![o][w] = @ + 1]

(* y_WeakRef_new: a y_create whose one reference the object owns.          *)
y_WeakRef_new(o, w) ==
  /\ life[w] = "unborn"
  /\ life' = [life EXCEPT ![w] = "live"]
  /\ refcount' = [refcount EXCEPT ![w] = 1]
  /\ target' = [target EXCEPT ![w] = o]
  /\ weak_ref' = [weak_ref EXCEPT ![o] = w]
  /\ held' = [held EXCEPT ![o][w] = @ + 1]

(* Mutant: the test is not repeated under the lock.                        *)
WeakNewUnchecked(t) ==
  /\ At(t, "weak_new")
  /\ \E w \in WeakRefs : y_WeakRef_new(self[t], w)
  /\ Goto(t, "weak_unlock")
  /\ UNCHANGED <<mutex, self, localVars>>

(* The test is repeated under the lock; y_WeakRef_new may also fail, and   *)
(* then weak_ref stays null.                                               *)
WeakNew(t) ==
  /\ At(t, "weak_new")
  /\ \/ /\ weak_ref[self[t]] = NULL
        /\ \/ \E w \in WeakRefs : y_WeakRef_new(self[t], w)
           \/ UNCHANGED heapVars
     \/ /\ weak_ref[self[t]] # NULL
        /\ UNCHANGED heapVars
  /\ Goto(t, "weak_unlock")
  /\ UNCHANGED <<mutex, self, localVars>>

(* Mutant: y_weak_ref leaves the object locked.                            *)
WeakUnlockSkipped(t) ==
  /\ At(t, "weak_unlock")
  /\ Goto(t, "weak_tail")
  /\ UNCHANGED <<heapVars, mutex, self, localVars>>

WeakUnlock(t) ==
  /\ At(t, "weak_unlock")
  /\ y_unlock(self[t])
  /\ Goto(t, "weak_tail")
  /\ UNCHANGED <<heapVars, self, localVars>>

(* Mutant: y_weak_ref returns its pointer without y_ref.                   *)
WeakRefTailUncounted(t) ==
  /\ At(t, "weak_tail")
  /\ IF weak_ref[self[t]] = NULL THEN UNCHANGED held
     ELSE held' = [held EXCEPT ![t][weak_ref[self[t]]] = @ + 1]
  /\ Return(t)
  /\ UNCHANGED <<life, refcount, weak_ref, target, mutex>>

(* return y_ref (obj->protect->weak_ref), which is NULL for NULL.          *)
WeakRefTail(t) ==
  /\ At(t, "weak_tail")
  /\ \/ /\ weak_ref[self[t]] # NULL
        /\ self' = [self EXCEPT ![t] = weak_ref[self[t]]]
        /\ Goto(t, "ref_enter")
        /\ UNCHANGED localVars
     \/ /\ weak_ref[self[t]] = NULL
        /\ Return(t)
  /\ UNCHANGED <<heapVars, mutex>>

-----------------------------------------------------------------------------
(* y_WeakRef_deref *)

DerefCheck(t) ==
  /\ At(t, "deref_check")
  /\ \/ /\ target[self[t]] # NULL
        /\ Goto(t, "deref_lock")
        /\ UNCHANGED <<self, localVars>>
     \/ /\ target[self[t]] = NULL
        /\ Return(t)
  /\ UNCHANGED <<heapVars, mutex>>

DerefLock(t) ==
  /\ At(t, "deref_lock")
  /\ y_lock(t, self[t])
  /\ Goto(t, "deref_unlock")
  /\ UNCHANGED <<heapVars, self, localVars>>

(* Mutant: y_ref is called before the weak reference is unlocked.          *)
DerefRefsUnderLock(t) ==
  /\ At(t, "deref_unlock")
  /\ \/ /\ target[self[t]] # NULL
        /\ self' = [self EXCEPT ![t] = target[self[t]]]
        /\ Goto(t, "ref_enter")
        /\ UNCHANGED <<mutex, localVars>>
     \/ /\ target[self[t]] = NULL
        /\ y_unlock(self[t])
        /\ Return(t)
  /\ UNCHANGED heapVars

(* The pointer is read under the lock, and y_ref is called on it after the *)
(* lock is given back.                                                     *)
DerefUnlock(t) ==
  /\ At(t, "deref_unlock")
  /\ y_unlock(self[t])
  /\ \/ /\ target[self[t]] # NULL
        /\ self' = [self EXCEPT ![t] = target[self[t]]]
        /\ Goto(t, "ref_enter")
        /\ UNCHANGED localVars
     \/ /\ target[self[t]] = NULL
        /\ Return(t)
  /\ UNCHANGED heapVars

-----------------------------------------------------------------------------
(* The specification. *)

RefStep(t) ==
  \/ RefEnter(t) \/ RefCheck(t) \/ RefWeak(t) \/ RefLockWeak(t)
  \/ RefLock(t) \/ RefUnlock(t) \/ RefUnlockWeak(t)

UnrefStep(t) ==
  \/ UnrefEnter(t) \/ UnrefCheck(t) \/ UnrefWeak(t) \/ UnrefLockWeak(t)
  \/ UnrefLock(t) \/ UnrefUnlock(t) \/ UnrefUnset(t) \/ UnrefUnlockWeak(t)

DestroyStep(t) == Destroy(t) \/ Clear(t) \/ ClearNull(t) \/ Mark(t) \/ Free(t)

WeakStep(t) ==
  \/ WeakCheck(t) \/ WeakLock(t) \/ WeakNew(t) \/ WeakUnlock(t)
  \/ WeakRefTail(t) \/ DerefCheck(t) \/ DerefLock(t) \/ DerefUnlock(t)

Step(t) == RefStep(t) \/ UnrefStep(t) \/ DestroyStep(t) \/ WeakStep(t)

ClientStep(t) ==
  \/ \E o \in Objects :
       \/ CallRef(t, o) \/ CallUnref(t, o) \/ CallWeakRef(t, o)
       \/ CallClear(t, o) \/ CallDestroy(t, o)
       \/ ManualLock(t, o) \/ ManualUnlock(t, o)
       \/ \E u \in Threads : Give(t, u, o)
  \/ \E o \in Referents :
       Create(t, o) \/ \E from \in Referents : CallAssign(t, o, from)
  \/ \E w \in WeakRefs : CallDeref(t, w)

(* Every thread is back in its client code: the program may end here.      *)
Rest == (\A t \in Threads : At(t, "idle")) /\ UNCHANGED vars

Next == (\E t \in Threads : Step(t) \/ ClientStep(t)) \/ Rest

(* The scheduler runs every thread that can run, and clients release the   *)
(* locks they take; no client is obliged to make a call.                   *)
Fairness ==
  \A t \in Threads :
    WF_vars(Step(t)) /\ WF_vars(\E o \in Objects : ManualUnlock(t, o))

Spec == Init /\ [][Next]_vars
FairSpec == Spec /\ Fairness

-----------------------------------------------------------------------------
(* Properties. *)

(* The variables keep their types.                                         *)
TypeOK ==
  /\ life \in [Objects -> Stages]
  /\ refcount \in [Objects -> Int]
  /\ weak_ref \in [Objects -> WeakRefs \cup {NULL}]
  /\ mutex \in [Objects -> Threads \cup {NULL}]
  /\ target \in [WeakRefs -> Objects \cup {NULL}]
  /\ held \in [Holders -> [Objects -> Nat]]
  /\ pc \in [Threads -> Labels]
  /\ self \in [Threads -> Objects \cup {NULL}]
  /\ outer \in [Threads -> Seq(Objects)]
  /\ weak \in [Threads -> WeakRefs \cup {NULL}]
  /\ hasWeakRef \in [Threads -> BOOLEAN]
  /\ doCleanup \in [Threads -> BOOLEAN]
  /\ op \in [Threads -> Ops]
  /\ calls \in Nat
  /\ locked \in [Threads -> Objects \cup {NULL}]

(* The strong references to o, each named by its holder and a number.      *)
Owners(o) == UNION {{<<h, k>> : k \in 1 .. held[h][o]} : h \in Holders}

(* The pointers that the next step of t follows; y_lock and y_unlock test  *)
(* theirs for null, y_WeakRef_unset does not.                              *)
Followed(t) ==
  CASE pc[t] \in {"ref_lock_weak", "unref_lock_weak"} -> {weak[t]} \ {NULL}
    [] pc[t] \in {"ref_unlock_weak", "unref_unlock_weak"} ->
         {self[t]} \cup ({weak_ref[self[t]]} \ {NULL})
    [] At(t, "unref_unset") -> {self[t], weak_ref[self[t]]}
    [] OTHER -> {self[t]}

(* No step of any call touches an object that was never created or whose   *)
(* memory was given back: neither the object that y_ref or y_unref got     *)
(* from its caller, nor the weak reference whose mutex they take, nor the  *)
(* referent that y_WeakRef_deref read before it called y_ref.              *)
NoUseAfterFree ==
  \A t \in Threads : ~At(t, "idle") =>
    \A p \in Followed(t) : p # NULL /\ life[p] \in {"live", "deleted"}

(* refcount is the number of strong references the holders own, so y_unref *)
(* neither frees an object too early nor forgets to free it.               *)
RefcountExact ==
  \A o \in Objects : life[o] = "live" => refcount[o] = Cardinality(Owners(o))

(* Nobody owns a reference to an object that y_unref has given up: not a   *)
(* thread, and not an object that still keeps it as its weak reference.    *)
NoOwnerLeft ==
  \A o \in Objects : life[o] \in {"deleted", "freed"} => Owners(o) = {}

(* A weak reference that still has a target names an object that exists:   *)
(* y_unref resets it, under its mutex, before the object goes away.        *)
NoDanglingWeakRef ==
  \A w \in WeakRefs :
    life[w] = "live" /\ target[w] # NULL => life[target[w]] = "live"

(* An object has one weak reference at a time: whatever still points at    *)
(* the object is the weak reference that the object itself will reset.     *)
OneWeakRef ==
  \A w \in WeakRefs : target[w] # NULL => weak_ref[target[w]] = w

(* An object's weak reference is never replaced by a second one while the  *)
(* first is in use: of two threads in y_weak_ref, each of which found none *)
(* before it took the lock, one gets the weak reference of the other.      *)
WeakRefKept ==
  [][\A o \in Objects :
       weak_ref[o] # NULL => weak_ref'[o] \in {weak_ref[o], NULL}]_vars

(* Steps taken between locking an object's own mutex and unlocking it.     *)
SelfLocked == {"ref_unlock", "unref_unlock", "weak_new", "weak_unlock",
               "deref_unlock"}
(* Steps of y_ref and y_unref with the weak reference's mutex taken.       *)
WeakRefLocked == {"ref_lock", "ref_unlock", "ref_unlock_weak", "unref_lock",
                  "unref_unlock", "unref_unset", "unref_unlock_weak"}

(* t is inside a section of the code that locks o.                         *)
InSection(t, o) ==
  \/ pc[t] \in SelfLocked /\ self[t] = o
  \/ /\ pc[t] \in WeakRefLocked
     /\ hasWeakRef[t]
     /\ weak_ref[self[t]] = o

(* A mutex is held only by the thread inside the section that took it, and *)
(* that thread holds it: although the code decides twice from has_weak_ref *)
(* and reads the pointer anew each time, no mutex stays locked after a     *)
(* call and none is unlocked by a thread that does not own it.             *)
LocksPaired ==
  \A t \in Threads : \A o \in Objects :
    mutex[o] = t <=> InSection(t, o) \/ locked[t] = o

(* The mutex a thread waits for in its next step, if any.                  *)
Wanted(t) ==
  IF pc[t] \in {"ref_lock_weak", "unref_lock_weak"} THEN weak[t]
  ELSE IF pc[t] \in {"ref_lock", "unref_lock", "weak_lock", "deref_lock"}
       THEN self[t] ELSE NULL

(* No threads wait for each other's mutexes, nor one for its own: y_ref    *)
(* and y_unref always lock the weak reference before the object.           *)
NoDeadlock ==
  ~ \E S \in (SUBSET Threads) \ {{}} :
      \A t \in S : Wanted(t) # NULL /\ mutex[Wanted(t)] \in S

(* The memory of an object is given back only with its mutex free: a mutex *)
(* is destroyed with the pool, and nobody may be inside it.                *)
FreedUnlocked == \A o \in Objects : life[o] = "freed" => mutex[o] = NULL

(* Every call comes to an end.                                             *)
CallsReturn == \A t \in Threads : ~At(t, "idle") ~> At(t, "idle")

(* An object to which nobody owns a reference is given back in the end,    *)
(* and so is the weak reference it owned.                                  *)
UnownedFreed ==
  \A o \in Objects : life[o] = "live" /\ Owners(o) = {} ~> life[o] = "freed"

-----------------------------------------------------------------------------
(* Seen from the holders of references this is SharedOwnership: y_ref,     *)
(* y_weak_ref and y_WeakRef_deref share, y_unref drops, and the free of    *)
(* the object's pool reclaims.                                             *)

status ==
  [o \in Objects |-> CASE life[o] = "unborn" -> "unborn"
                       [] life[o] = "freed" -> "gone"
                       [] OTHER -> "live"]

Ownership == INSTANCE SharedOwnership WITH owned <- held

(* Every step of the code is a step of SharedOwnership or none of its      *)
(* business: counters, double checks and mutexes never make a reference    *)
(* to an object that is going away, nor reclaim one that is owned.         *)
ImplementsOwnership == Ownership!Spec

=============================================================================

----------------------------- MODULE ErrorChain -----------------------------
(***************************************************************************)
(* Errors and the end of a runtime: y_Error_throw and y_Error_clear of     *)
(* yakka/Error.c, the cascade of y_unref and y_destroy that frees a chain  *)
(* of errors, y_Runtime_new and y_Runtime_destroy of yakka/Runtime.c, and  *)
(* y_cleanup_of_last_resort of yakka/Object.c, which clears the objects    *)
(* that are left when their pool is destroyed.                             *)
(*                                                                         *)
(* An error owns a reference to the error that caused it.  As each object  *)
(* lives in a pool of its own, an error stands for its pool as well.  APR  *)
(* destroys the children of a pool newest first; a pool that comes out of  *)
(* the runtime's buffer keeps its place among them.                        *)
(***************************************************************************)
EXTENDS Integers, Sequences, SequencesExt

CONSTANTS
  Threads,   \* the threads that throw errors
  Main,      \* the thread that ends the runtime
  Errors,    \* the addresses of errors and of their pools
  Sizes,     \* the sizes of the buffer that y_Runtime_new is called with
  NULL,      \* the null pointer
  MaxCalls,  \* bound on the calls one thread makes
  Freedoms   \* client rules that are lifted: "causes_at_end", "outlive"

ASSUME ErrorAssumption ==
  /\ NULL \notin Threads \cup Errors
  /\ Main \in Threads
  /\ Sizes \subseteq Nat
  /\ MaxCalls \in Nat

VARIABLES
  rt,        \* the runtime: who destroys its pools, and the buffer's size
  phase,     \* "running", "orphaned", "walking" and "done"
  children,  \* the pools of objects that exist, newest first
  buffer,    \* the pools kept for reuse, the one freed last first
  life,      \* "none" or "live": what the pool has in it
  refcount,  \* the reference count of each error
  cause,     \* the error that caused each error
  location,  \* the y_Error * to whose address each thread lets errors go
  kept,      \* an error that a thread has got as a cause and referenced
  stack,     \* the calls of y_unref each thread is in, the running one first
  calls      \* the number of calls each thread has made, up to MaxCalls

poolVars == <<children, buffer>>
errorVars == <<life, refcount, cause>>
clientVars == <<location, kept>>
vars == <<rt, phase, poolVars, errorVars, clientVars, stack, calls>>

-----------------------------------------------------------------------------
(* The runtime. *)

Runtimes == [cleanup_global : BOOLEAN, cleanup_object : BOOLEAN,
             pool_buffer_size : Sizes, allocated : BOOLEAN]

(* y_Runtime_new: a pool that the application does not bring along is      *)
(* made, and is destroyed with the runtime.                                *)
y_Runtime_new ==
  \E global, object \in BOOLEAN, size \in Sizes :
    rt = [cleanup_global |-> global, cleanup_object |-> object,
          pool_buffer_size |-> size, allocated |-> TRUE]

Init ==
  /\ y_Runtime_new
  /\ phase = "running"
  /\ children = <<>>
  /\ buffer = <<>>
  /\ life = [e \in Errors |-> "none"]
  /\ refcount = [e \in Errors |-> 0]
  /\ cause = [e \in Errors |-> NULL]
  /\ location = [t \in Threads |-> NULL]
  /\ kept = [t \in Threads |-> NULL]
  /\ stack = [t \in Threads |-> <<>>]
  /\ calls = [t \in Threads |-> 0]

(* Without a buffer the pools of objects are children of the global pool,  *)
(* with one they are children of the objects pool.                         *)
RuntimeOwnsParent ==
  IF rt.pool_buffer_size = 0 THEN rt.cleanup_global ELSE rt.cleanup_object

Idle(t) == stack[t] = <<>>
AllIdle == \A t \in Threads : Idle(t)
Live == {e \in Errors : life[e] = "live"}

-----------------------------------------------------------------------------
(* The clients' calls. *)

Start(t) ==
  /\ phase = "running"
  /\ Idle(t)
  /\ calls[t] < MaxCalls
  /\ calls' = [calls EXCEPT ![t] = @ + 1]

(* y_Runtime_create_object_pool, as PoolBuffer shows it to be: the top of  *)
(* the stack of kept pools, or a new pool.                                 *)
CreatePool(e) ==
  IF buffer # <<>>
  THEN e = Head(buffer) /\ buffer' = Tail(buffer) /\ UNCHANGED children
  ELSE /\ e \notin Range(children)
       /\ children' = <<e>> \o children
       /\ UNCHANGED buffer

(* Mutant: the new error replaces the one that is there.                   *)
ThrowReplaces(t) ==
  /\ Start(t)
  /\ \E e \in Errors :
       /\ CreatePool(e)
       /\ life' = [life EXCEPT ![e] = "live"]
       /\ refcount' = [refcount EXCEPT ![e] = 1]
       /\ cause' = [cause EXCEPT ![e] = NULL]
       /\ location' = [location EXCEPT ![t] = e]
  /\ UNCHANGED <<rt, phase, kept, stack>>

(* The new error takes over the reference that the location had.  If no    *)
(* object can be made the location stays as it is, which is no step.       *)
y_Error_throw(t) ==
  /\ Start(t)
  /\ \E e \in Errors :
       /\ CreatePool(e)
       /\ life' = [life EXCEPT ![e] = "live"]
       /\ refcount' = [refcount EXCEPT ![e] = 1]
       /\ cause' = [cause EXCEPT ![e] = location[t]]
       /\ location' = [location EXCEPT ![t] = e]
  /\ UNCHANGED <<rt, phase, kept, stack>>

(* y_ref (y_Error_get_cause (error)): the getter itself makes no reference. *)
KeepCause(t) ==
  /\ location[t] # NULL /\ cause[location[t]] # NULL /\ kept[t] = NULL
  /\ Start(t)
  /\ kept' = [kept EXCEPT ![t] = cause[location[t]]]
  /\ refcount' = [refcount EXCEPT ![cause[location[t]]] = @ + 1]
  /\ UNCHANGED <<rt, phase, poolVars, life, cause, location, stack>>

(* A reference is handed to another thread.                                *)
HandOver(t, u) ==
  /\ kept[t] # NULL /\ kept[u] = NULL
  /\ Start(t)
  /\ kept' = [kept EXCEPT ![t] = NULL, ![u] = kept[t]]
  /\ UNCHANGED <<rt, phase, poolVars, errorVars, location, stack>>

Frame(e, step) == [error |-> e, step |-> step, last |-> FALSE]

(* y_unref on the error in the location, or on the one that was kept.      *)
CallUnref(t) ==
  /\ Start(t)
  /\ \/ /\ location[t] # NULL
        /\ stack' = [stack EXCEPT ![t] = <<Frame(location[t], "unref")>>]
        /\ location' = [location EXCEPT ![t] = NULL]
        /\ UNCHANGED kept
     \/ /\ kept[t] # NULL
        /\ stack' = [stack EXCEPT ![t] = <<Frame(kept[t], "unref")>>]
        /\ kept' = [kept EXCEPT ![t] = NULL]
        /\ UNCHANGED location
  /\ UNCHANGED <<rt, phase, poolVars, errorVars>>

-----------------------------------------------------------------------------
(* y_unref and what it leads to. *)

At(t, step) == ~Idle(t) /\ Head(stack[t]).step = step
Top(t) == Head(stack[t])
Continue(t, step) == stack' = [stack EXCEPT ![t][1].step = step]
Pop(t) == stack' = [stack EXCEPT ![t] = Tail(@)]
Cascade(t, e) ==
  stack' = [stack EXCEPT ![t] =
              <<Frame(e, "unref")>> \o [@ EXCEPT ![1].step = "uncause"]]

(* Mutant: an error with one more owner is destroyed.                      *)
UnrefOffByOne(t) ==
  /\ At(t, "unref")
  /\ LET e == Top(t).error IN
     /\ refcount' = [refcount EXCEPT ![e] = IF @ > 0 THEN @ - 1 ELSE @]
     /\ IF refcount[e] \in {1, 2} THEN Continue(t, "clear") ELSE Pop(t)
  /\ UNCHANGED <<rt, phase, poolVars, life, cause, clientVars, calls>>

(* The count is tested and taken under the error's mutex.                  *)
Unref(t) ==
  /\ At(t, "unref")
  /\ LET e == Top(t).error IN
     /\ refcount' = [refcount EXCEPT ![e] = IF @ > 0 THEN @ - 1 ELSE @]
     /\ IF refcount[e] = 1 THEN Continue(t, "clear") ELSE Pop(t)
  /\ UNCHANGED <<rt, phase, poolVars, life, cause, clientVars, calls>>

(* The error gives up its reference to its cause, whatever unref_objects   *)
(* says; that may destroy the cause, and so on down the chain.             *)
y_Error_clear(t) ==
  /\ At(t, "clear")
  /\ LET e == Top(t).error IN
     IF cause[e] = NULL THEN Continue(t, "end") ELSE Cascade(t, cause[e])
  /\ UNCHANGED <<rt, phase, poolVars, errorVars, clientVars, calls>>

ClearCause(t) ==
  /\ At(t, "uncause")
  /\ cause' = [cause EXCEPT ![Top(t).error] = NULL]
  /\ Continue(t, "end")
  /\ UNCHANGED <<rt, phase, poolVars, life, refcount, clientVars, calls>>

(* Mutant: a full buffer grows.                                            *)
FreePoolUnbounded(e) ==
  IF rt.pool_buffer_size = 0
  THEN children' = RemoveFirst(children, e) /\ UNCHANGED buffer
  ELSE buffer' = <<e>> \o buffer /\ UNCHANGED children

(* y_Runtime_free_object_pool, as PoolBuffer shows it to be: without a     *)
(* buffer the pool is destroyed, a full buffer destroys its oldest pool.   *)
FreePool(e) ==
  IF rt.pool_buffer_size = 0
  THEN children' = RemoveFirst(children, e) /\ UNCHANGED buffer
  ELSE IF Len(buffer) < rt.pool_buffer_size
  THEN buffer' = <<e>> \o buffer /\ UNCHANGED children
  ELSE /\ buffer' = <<e>> \o Front(buffer)
       /\ children' = RemoveFirst(children, Last(buffer))

(* y_destroy marks the error deleted, so that the cleanup of its pool does *)
(* nothing, and frees the pool.                                            *)
Destroyed(t) ==
  /\ At(t, "end")
  /\ ~Top(t).last
  /\ life' = [life EXCEPT ![Top(t).error] = "none"]
  /\ FreePool(Top(t).error)
  /\ Pop(t)
  /\ UNCHANGED <<rt, phase, refcount, cause, clientVars, calls>>

-----------------------------------------------------------------------------
(* The end. *)

(* The rule for those who leave errors behind: among pools that have been  *)
(* used again a cause can be newer than the error that owns it.            *)
EndRule ==
  \/ rt.pool_buffer_size = 0
  \/ \A e \in Live : cause[e] = NULL
  \/ "causes_at_end" \in Freedoms

(* The rule for those who bring their own objects pool: errors must not    *)
(* outlive the memory of the runtime, which is in the global pool.         *)
OutliveRule == ~rt.cleanup_global \/ Live = {} \/ "outlive" \in Freedoms

(* y_Runtime_destroy, up to the children of a pool that it destroys.       *)
y_Runtime_destroy ==
  /\ phase = "running"
  /\ AllIdle
  /\ IF RuntimeOwnsParent
     THEN EndRule /\ phase' = "walking" /\ UNCHANGED rt
     ELSE /\ OutliveRule
          /\ phase' = "orphaned"
          /\ rt' = [rt EXCEPT !.allocated = ~rt.cleanup_global]
  /\ UNCHANGED <<poolVars, errorVars, clientVars, stack, calls>>

(* The application destroys the pool that it brought along.                *)
DestroyParent ==
  /\ phase \in {"running", "orphaned"}
  /\ AllIdle
  /\ ~RuntimeOwnsParent
  /\ EndRule
  /\ phase' = "walking"
  /\ UNCHANGED <<rt, poolVars, errorVars, clientVars, stack, calls>>

(* Mutant: no cleanup runs.                                                *)
NextChildUncleared ==
  /\ phase = "walking"
  /\ Idle(Main)
  /\ children # <<>>
  /\ children' = Tail(children)
  /\ UNCHANGED <<rt, phase, buffer, errorVars, clientVars, stack, calls>>

(* apr_pool_destroy goes to the newest child.  If there is an error in it, *)
(* y_cleanup_of_last_resort clears that first.                             *)
NextChild ==
  /\ phase = "walking"
  /\ Idle(Main)
  /\ children # <<>>
  /\ LET e == Head(children) IN
     IF life[e] = "none"
     THEN children' = Tail(children) /\ UNCHANGED stack
     ELSE /\ stack' = [stack EXCEPT ![Main] =
                         <<[Frame(e, "clear") EXCEPT !.last = TRUE]>>]
          /\ UNCHANGED children
  /\ UNCHANGED <<rt, phase, buffer, errorVars, clientVars, calls>>

(* The error is cleared: it is marked deleted, and its pool goes.          *)
LastResortDone ==
  /\ At(Main, "end")
  /\ Top(Main).last
  /\ life' = [life EXCEPT ![Top(Main).error] = "none"]
  /\ children' = RemoveFirst(children, Top(Main).error)
  /\ Pop(Main)
  /\ UNCHANGED <<rt, phase, buffer, refcount, cause, clientVars, calls>>

LastChild ==
  /\ phase = "walking"
  /\ Idle(Main)
  /\ children = <<>>
  /\ phase' = "done"
  /\ UNCHANGED <<rt, poolVars, errorVars, clientVars, stack, calls>>

-----------------------------------------------------------------------------
Step(t) ==
  Unref(t) \/ y_Error_clear(t) \/ ClearCause(t) \/ Destroyed(t)

Client(t) ==
  \/ y_Error_throw(t) \/ KeepCause(t) \/ CallUnref(t)
  \/ \E u \in Threads : HandOver(t, u)

Walk == NextChild \/ LastResortDone \/ LastChild

(* The program may end between calls.                                      *)
Rest == phase # "walking" /\ AllIdle /\ UNCHANGED vars

Next ==
  \/ \E t \in Threads : Step(t) \/ Client(t)
  \/ y_Runtime_destroy \/ DestroyParent \/ Walk
  \/ Rest

Spec == Init /\ [][Next]_vars
FairSpec == Spec /\ WF_vars(Walk) /\ \A t \in Threads : WF_vars(Step(t))

-----------------------------------------------------------------------------
(* Properties. *)

Frames == [error : Errors, step : {"unref", "clear", "uncause", "end"},
           last : BOOLEAN]

(* The variables keep their types; a pool has one place among the children *)
(* of its parent, and no more pools are kept than the buffer has slots.    *)
TypeOK ==
  /\ rt \in Runtimes
  /\ phase \in {"running", "orphaned", "walking", "done"}
  /\ children \in Seq(Errors) /\ IsInjective(children)
  /\ buffer \in Seq(Errors) /\ Len(buffer) <= rt.pool_buffer_size
  /\ life \in [Errors -> {"none", "live"}]
  /\ refcount \in [Errors -> Nat]
  /\ cause \in [Errors -> Errors \cup {NULL}]
  /\ location \in [Threads -> Errors \cup {NULL}]
  /\ kept \in [Threads -> Errors \cup {NULL}]
  /\ stack \in [Threads -> Seq(Frames)]
  /\ calls \in [Threads -> Nat]

(* No call works on an error that is gone, be it freed by another thread   *)
(* that shared the cause, by the pool of the errors on its way out, or     *)
(* cleared before; nor is an error cleared after the runtime is gone.      *)
NoUseAfterFree ==
  \A t \in Threads : ~Idle(t) =>
    /\ Top(t).error \in Range(children)
    /\ life[Top(t).error] = "live"
    /\ rt.allocated

(* Causes are owned: when all threads have given up what they held, whole  *)
(* chains are gone, however they were shared.                              *)
NoLeak ==
  phase = "running" /\ AllIdle
    /\ (\A t \in Threads : location[t] = NULL /\ kept[t] = NULL) => Live = {}

(* README: objects are cleaned up in an orderly fashion "or when their     *)
(* pool is destroyed".  The end of the pool is the end of every error in   *)
(* it, after it was cleared.                                               *)
EndClears ==
  phase = "walking" ~>
    (phase = "done" /\ \A e \in Errors : life[e] = "none" /\ cause[e] = NULL)
=============================================================================

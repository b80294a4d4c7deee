----------------------------- MODULE PoolBuffer -----------------------------
(***************************************************************************)
(* The buffer of object pools of a Yakka runtime: y_Runtime_new,           *)
(* y_Runtime_create_object_pool and y_Runtime_free_object_pool of          *)
(* yakka/Runtime.c, called by any number of threads.  Each object lives in *)
(* a pool of its own; a freed pool is cleared and kept in a ring of Size   *)
(* slots, and takes the place of the pool that has been there longest.     *)
(*                                                                         *)
(* One step is one access to the buffer or to its position; locking the    *)
(* runtime is merged with the first access under the lock.  A pool is      *)
(* identified with the memory at its address: a destroyed pool can be      *)
(* created again.                                                          *)
(***************************************************************************)
EXTENDS Integers, FiniteSets

CONSTANTS
  Threads,     \* the threads that create and destroy objects
  Pools,       \* the APR pools that can exist
  NULL,        \* the null pointer, and "no owner" of the mutex
  Size,        \* rt->pool_buffer_size
  threadsafe   \* rt->threadsafe: whether the runtime has a mutex

Slots == 0 .. Size - 1

ASSUME BufferAssumption ==
  /\ NULL \notin Threads \cup Pools
  /\ Size \in Nat
  /\ threadsafe \in BOOLEAN
  /\ threadsafe \/ \A t, u \in Threads : t = u

VARIABLES
  pool_buffer,      \* rt->pool_buffer
  pool_buffer_pos,  \* rt->pool_buffer_pos
  mutex,            \* the thread that has locked rt->mutex, or NULL
  content,          \* what each pool holds: "none" if there is no such pool
  parent,           \* the pool each pool was created from
  objects,          \* the pools of the objects that exist
  pc,               \* the step each thread is about to take
  pool,             \* local pool of both functions
  old               \* local old of y_Runtime_free_object_pool

ringVars == <<pool_buffer, pool_buffer_pos>>
poolVars == <<content, parent, objects>>
vars == <<ringVars, mutex, poolVars, pc, pool, old>>

Contents == {"none", "clean", "object"}
Labels == {"idle", "create_take", "create_empty", "create_step",
           "create_unlock", "create_direct", "free_clear", "free_advance",
           "free_take", "free_put", "free_unlock", "free_destroy",
           "free_direct"}

(* y_Runtime_new.                                                          *)
Init ==
  /\ pool_buffer = [i \in Slots |-> NULL]
  /\ pool_buffer_pos = 0
  /\ mutex = NULL
  /\ content = [p \in Pools |-> "none"]
  /\ parent = [p \in Pools |-> NULL]
  /\ objects = {}
  /\ pc = [t \in Threads |-> "idle"]
  /\ pool = [t \in Threads |-> NULL]
  /\ old = [t \in Threads |-> NULL]

-----------------------------------------------------------------------------
At(t, label) == pc[t] = label
Goto(t, label) == pc' = [pc EXCEPT ![t] = label]

(* Mutant: the runtime is not locked.                                      *)
LockSkipped(t) == UNCHANGED mutex

y_Runtime_lock(t) ==
  IF threadsafe THEN mutex = NULL /\ mutex' = t ELSE UNCHANGED mutex

y_Runtime_unlock == IF threadsafe THEN mutex' = NULL ELSE UNCHANGED mutex

(* pool = apr_pool_create (from)                                           *)
apr_pool_create(t, p, from) ==
  /\ content[p] = "none"
  /\ content' = [content EXCEPT ![p] = "clean"]
  /\ parent' = [parent EXCEPT ![p] = from]
  /\ pool' = [pool EXCEPT ![t] = p]

apr_pool_destroy(p) ==
  /\ content' = [content EXCEPT ![p] = "none"]
  /\ parent' = [parent EXCEPT ![p] = NULL]

-----------------------------------------------------------------------------
(* y_Runtime_create_object_pool, called by y_create.                       *)

(* Bound: the threads that create an object find a pool to create.         *)
MemoryLeft ==
  Cardinality({t \in Threads : pc[t] \in {"create_take", "create_empty",
                                          "create_step", "create_direct"}})
    < Cardinality({p \in Pools : content[p] = "none"})

CallCreate(t) ==
  /\ At(t, "idle")
  /\ MemoryLeft
  /\ Goto(t, IF Size # 0 THEN "create_take" ELSE "create_direct")
  /\ UNCHANGED <<ringVars, mutex, poolVars, pool, old>>

CreateTake(t) ==
  /\ At(t, "create_take")
  /\ y_Runtime_lock(t)
  /\ pool' = [pool EXCEPT ![t] = pool_buffer[pool_buffer_pos]]
  /\ Goto(t, "create_empty")
  /\ UNCHANGED <<ringVars, poolVars, old>>

CreateEmpty(t) ==
  /\ At(t, "create_empty")
  /\ pool_buffer' = [pool_buffer EXCEPT ![pool_buffer_pos] = NULL]
  /\ Goto(t, "create_step")
  /\ UNCHANGED <<pool_buffer_pos, mutex, poolVars, pool, old>>

(* The position wraps around below the first slot.                         *)
Before(i) == IF i - 1 < 0 THEN Size - 1 ELSE i - 1
(* ... and above the last one.                                             *)
(* Mutant: one slot too late.                                              *)
AfterOffByOne(i) == IF i < Size THEN i + 1 ELSE 0

After(i) == IF i + 1 < Size THEN i + 1 ELSE 0

(* Mutant: the position moves only if no pool was kept.                    *)
CreateStepIfNew(t) ==
  /\ At(t, "create_step")
  /\ \/ /\ pool[t] = NULL
        /\ pool_buffer_pos' = Before(pool_buffer_pos)
        /\ \E p \in Pools : apr_pool_create(t, p, "objects_pool")
     \/ /\ pool[t] # NULL
        /\ UNCHANGED <<pool_buffer_pos, content, parent, pool>>
  /\ Goto(t, "create_unlock")
  /\ UNCHANGED <<pool_buffer, mutex, objects, old>>

CreateStep(t) ==
  /\ At(t, "create_step")
  /\ pool_buffer_pos' = Before(pool_buffer_pos)
  /\ \/ /\ pool[t] = NULL
        /\ \E p \in Pools : apr_pool_create(t, p, "objects_pool")
     \/ /\ pool[t] # NULL
        /\ UNCHANGED <<content, parent, pool>>
  /\ Goto(t, "create_unlock")
  /\ UNCHANGED <<pool_buffer, mutex, objects, old>>

(* The pool is returned to y_create, which puts the object into it.        *)
CreateUnlock(t) ==
  /\ At(t, "create_unlock")
  /\ y_Runtime_unlock
  /\ content' = [content EXCEPT ![pool[t]] = "object"]
  /\ objects' = objects \cup {pool[t]}
  /\ pool' = [pool EXCEPT ![t] = NULL]
  /\ Goto(t, "idle")
  /\ UNCHANGED <<ringVars, parent, old>>

(* No buffer: nothing is locked, and the pool is a child of the global     *)
(* pool.                                                                   *)
CreateDirect(t) ==
  /\ At(t, "create_direct")
  /\ \E p \in Pools :
       /\ content[p] = "none"
       /\ content' = [content EXCEPT ![p] = "object"]
       /\ parent' = [parent EXCEPT ![p] = "global_pool"]
       /\ objects' = objects \cup {p}
  /\ Goto(t, "idle")
  /\ UNCHANGED <<ringVars, mutex, pool, old>>

-----------------------------------------------------------------------------
(* y_Runtime_free_object_pool, called by y_destroy; the thread that frees  *)
(* an object need not be the one that created it.                          *)

CallFree(t, p) ==
  /\ At(t, "idle")
  /\ p \in objects
  /\ objects' = objects \ {p}
  /\ pool' = [pool EXCEPT ![t] = p]
  /\ Goto(t, "free_clear")
  /\ UNCHANGED <<ringVars, mutex, content, parent, old>>

(* Mutant: the pool is kept with what the object left in it.               *)
FreeClearSkipped(t) ==
  /\ At(t, "free_clear")
  /\ Goto(t, IF Size # 0 THEN "free_advance" ELSE "free_direct")
  /\ UNCHANGED <<ringVars, mutex, poolVars, pool, old>>

FreeClear(t) ==
  /\ At(t, "free_clear")
  /\ content' = [content EXCEPT ![pool[t]] = "clean"]
  /\ Goto(t, IF Size # 0 THEN "free_advance" ELSE "free_direct")
  /\ UNCHANGED <<ringVars, mutex, parent, objects, pool, old>>

(* Mutant: the position stays, and the pool freed last makes room.         *)
FreeAdvanceSkipped(t) ==
  /\ At(t, "free_advance")
  /\ y_Runtime_lock(t)
  /\ Goto(t, "free_take")
  /\ UNCHANGED <<ringVars, poolVars, pool, old>>

FreeAdvance(t) ==
  /\ At(t, "free_advance")
  /\ y_Runtime_lock(t)
  /\ pool_buffer_pos' = After(pool_buffer_pos)
  /\ Goto(t, "free_take")
  /\ UNCHANGED <<pool_buffer, poolVars, pool, old>>

FreeTake(t) ==
  /\ At(t, "free_take")
  /\ old' = [old EXCEPT ![t] = pool_buffer[pool_buffer_pos]]
  /\ Goto(t, "free_put")
  /\ UNCHANGED <<ringVars, mutex, poolVars, pool>>

FreePut(t) ==
  /\ At(t, "free_put")
  /\ pool_buffer' = [pool_buffer EXCEPT ![pool_buffer_pos] = pool[t]]
  /\ pool' = [pool EXCEPT ![t] = NULL]
  /\ Goto(t, "free_unlock")
  /\ UNCHANGED <<pool_buffer_pos, mutex, poolVars, old>>

(* Mutant: the pool that made room is forgotten.                           *)
FreeUnlockForgets(t) ==
  /\ At(t, "free_unlock")
  /\ y_Runtime_unlock
  /\ Goto(t, "idle")
  /\ UNCHANGED <<ringVars, poolVars, pool, old>>

FreeUnlock(t) ==
  /\ At(t, "free_unlock")
  /\ y_Runtime_unlock
  /\ Goto(t, IF old[t] # NULL THEN "free_destroy" ELSE "idle")
  /\ UNCHANGED <<ringVars, poolVars, pool, old>>

(* The pool that made room is destroyed after the runtime is unlocked.     *)
FreeDestroy(t) ==
  /\ At(t, "free_destroy")
  /\ apr_pool_destroy(old[t])
  /\ old' = [old EXCEPT ![t] = NULL]
  /\ Goto(t, "idle")
  /\ UNCHANGED <<ringVars, mutex, objects, pool>>

(* Mutant: the pool is cleared but not destroyed.                          *)
FreeDirectForgets(t) ==
  /\ At(t, "free_direct")
  /\ pool' = [pool EXCEPT ![t] = NULL]
  /\ Goto(t, "idle")
  /\ UNCHANGED <<ringVars, mutex, poolVars, old>>

FreeDirect(t) ==
  /\ At(t, "free_direct")
  /\ apr_pool_destroy(pool[t])
  /\ pool' = [pool EXCEPT ![t] = NULL]
  /\ Goto(t, "idle")
  /\ UNCHANGED <<ringVars, mutex, objects, old>>

-----------------------------------------------------------------------------
Step(t) ==
  \/ CreateTake(t) \/ CreateEmpty(t) \/ CreateStep(t) \/ CreateUnlock(t)
  \/ CreateDirect(t)
  \/ FreeClear(t) \/ FreeAdvance(t) \/ FreeTake(t) \/ FreePut(t)
  \/ FreeUnlock(t) \/ FreeDestroy(t) \/ FreeDirect(t)

Next == \E t \in Threads : Step(t) \/ CallCreate(t) \/ \E p \in Pools : CallFree(t, p)

Spec == Init /\ [][Next]_vars

(* The scheduler runs every thread that can run.                           *)
FairSpec == Spec /\ \A t \in Threads : WF_vars(Step(t))

-----------------------------------------------------------------------------
(* Properties. *)

(* The variables keep their types.                                         *)
TypeOK ==
  /\ pool_buffer \in [Slots -> Pools \cup {NULL}]
  /\ pool_buffer_pos \in IF Size = 0 THEN {0} ELSE Slots
  /\ mutex \in Threads \cup {NULL}
  /\ content \in [Pools -> Contents]
  /\ parent \in [Pools -> {"objects_pool", "global_pool", NULL}]
  /\ objects \subseteq Pools
  /\ pc \in [Threads -> Labels]
  /\ pool \in [Threads -> Pools \cup {NULL}]
  /\ old \in [Threads -> Pools \cup {NULL}]

(* A local variable holds a pool unless it is a copy of what is still in a *)
(* slot: pool before the slot is emptied, old before the slot is refilled. *)
InPool(t, p) == pool[t] = p /\ ~At(t, "create_empty")
InOld(t, p) == old[t] = p /\ ~At(t, "free_put")

(* The places that hold a pool: a slot of the buffer, a local variable of  *)
(* one of the two functions, or an object.                                 *)
Places(p) ==
  {<<"slot", i>> : i \in {j \in Slots : pool_buffer[j] = p}}
    \cup {<<"pool", t>> : t \in {u \in Threads : InPool(u, p)}}
    \cup {<<"old", t>> : t \in {u \in Threads : InOld(u, p)}}
    \cup {<<"object", q>> : q \in objects \cap {p}}

(* No two objects ever share a pool, no pool is kept twice, and a pool     *)
(* that exists is never lost: it is in exactly one place, whatever the     *)
(* other threads do between two steps of y_Runtime_create_object_pool or   *)
(* y_Runtime_free_object_pool.  A pool that was destroyed is nowhere.      *)
OnePlace ==
  \A p \in Pools : IF content[p] = "none" THEN Places(p) = {}
                    ELSE \E x \in Places(p) : Places(p) = {x}

(* A new object gets an empty pool: what is kept in the buffer, and what a *)
(* thread has taken from it, has been cleared.                             *)
ReusedClean ==
  /\ \A i \in Slots : pool_buffer[i] # NULL => content[pool_buffer[i]] = "clean"
  /\ \A t \in Threads :
       pc[t] \in {"create_empty", "create_step", "create_unlock"}
         /\ pool[t] # NULL
       => content[pool[t]] = "clean"

(* A thread has moved one of the position and the slots but not the other. *)
Halfway ==
  \E t \in Threads : pc[t] \in {"create_step", "free_take", "free_put"}

(* The slot of the pool that was freed last.                               *)
Top == IF Halfway THEN Before(pool_buffer_pos) ELSE pool_buffer_pos

(* The slot k places below slot i.                                         *)
Below(i, k) == IF i - k < 0 THEN i - k + Size ELSE i - k

(* The pools that are kept fill neighbouring slots that end at the         *)
(* position, so y_Runtime_create_object_pool finds a pool whenever there   *)
(* is one and y_Runtime_free_object_pool finds the oldest when it is full. *)
Neighbours ==
  Size > 0 =>
    \E n \in 0 .. Size :
      \A k \in 0 .. Size - 1 : pool_buffer[Below(Top, k)] # NULL <=> k < n

(* A pool that had to make room is destroyed in the end.                   *)
EvictedDestroyed ==
  \A p \in Pools : (\E t \in Threads : old[t] = p) ~> content[p] = "none"

-----------------------------------------------------------------------------
(* The buffer is a PoolStack.                                              *)

NumKept == Cardinality({i \in Slots : pool_buffer[i] # NULL})

stack == [i \in 1 .. NumKept |-> pool_buffer[Below(Top, NumKept - i)]]

(* Pools on their way to apr_pool_destroy.                                 *)
Leaves(t, p) == InOld(t, p) \/ (At(t, "free_direct") /\ pool[t] = p)

evicted == {p \in Pools : \E t \in Threads : Leaves(t, p)}

taken ==
  {p \in Pools : content[p] # "none"}
    \ (evicted \cup {pool_buffer[i] : i \in Slots})

Stack == INSTANCE PoolStack

(* The ring behaves as a stack of the Size pools freed last, although one  *)
(* position serves as both ends and pools are taken and put by threads     *)
(* whose steps interleave.                                                 *)
ImplementsStack == Stack!Spec

-----------------------------------------------------------------------------
(* An inductive invariant.                                                 *)

Critical == {"create_empty", "create_step", "create_unlock",
             "free_take", "free_put", "free_unlock"}
Buffered == Critical \cup {"create_take", "free_advance", "free_destroy"}
Direct == {"create_direct", "free_direct"}

(* The code between y_Runtime_lock and y_Runtime_unlock is run by the      *)
(* thread that owns the mutex, and the buffer is left alone without one.   *)
ControlInv ==
  \A t \in Threads :
    /\ threadsafe => (mutex = t <=> pc[t] \in Critical)
    /\ pc[t] \in Buffered => Size # 0
    /\ pc[t] \in Direct => Size = 0

(* What the local variables hold at each step.                             *)
LocalInv ==
  \A t \in Threads :
    /\ pc[t] \in {"idle", "create_take", "create_direct", "free_unlock",
                  "free_destroy"} => pool[t] = NULL
    /\ pc[t] \in {"create_unlock", "free_clear", "free_advance", "free_take",
                  "free_put", "free_direct"} => pool[t] # NULL
    /\ pc[t] \notin {"free_put", "free_unlock", "free_destroy"} => old[t] = NULL
    /\ pc[t] = "free_destroy" => old[t] # NULL
    /\ pc[t] = "create_empty" => pool[t] = pool_buffer[pool_buffer_pos]
    /\ pc[t] = "create_step" => pool_buffer[pool_buffer_pos] = NULL
    /\ pc[t] = "free_put" => old[t] = pool_buffer[pool_buffer_pos]

InSlot(i, p) == pool_buffer[i] = p

(* No pool is in two places, said pair by pair.                            *)
Apart ==
  \A p \in Pools :
    /\ \A i, j \in Slots : InSlot(i, p) /\ InSlot(j, p) => i = j
    /\ \A t, u \in Threads : InPool(t, p) /\ InPool(u, p) => t = u
    /\ \A t, u \in Threads : InOld(t, p) /\ InOld(u, p) => t = u
    /\ \A i \in Slots, t \in Threads : InSlot(i, p) =>
         ~InPool(t, p) /\ ~InOld(t, p)
    /\ \A t, u \in Threads : InPool(t, p) => ~InOld(u, p)
    /\ p \in objects => /\ \A i \in Slots : ~InSlot(i, p)
                        /\ \A t \in Threads : ~InPool(t, p) /\ ~InOld(t, p)

(* A pool exists exactly as long as it is in some place.                   *)
Located ==
  \A p \in Pools : content[p] # "none" <=>
    \/ \E i \in Slots : InSlot(i, p)
    \/ \E t \in Threads : InPool(t, p) \/ InOld(t, p)
    \/ p \in objects

(* What is not in the hands of an object has been cleared.                 *)
Cleared ==
  \A p \in Pools : content[p] = "object" <=>
    \/ p \in objects
    \/ \E t \in Threads : pc[t] = "free_clear" /\ pool[t] = p

(* A thread that has found no pool at the position has found none at all.  *)
NoneKept == \A i \in Slots : pool_buffer[i] = NULL
EmptyInv ==
  \A t \in Threads : pc[t] = "create_step" /\ pool[t] = NULL => NoneKept

BufferInv ==
  /\ TypeOK /\ ControlInv /\ LocalInv /\ Apart /\ Located /\ Cleared
  /\ Neighbours /\ EmptyInv
=============================================================================

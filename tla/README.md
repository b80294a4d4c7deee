# A model of Yakka

Yakka (`yakka/`) is an object system in C on top of the Apache Portable
Runtime: classes with single inheritance, reference counting, weak references,
errors that play the part of exceptions, interfaces, and a runtime object that
recycles the APR pools in which objects live. It is meant to be used by many
threads at once. This directory holds TLA+ models of it, TLC configurations
that check them on small instances, and proofs that TLAPS checks for every
instance.

Line numbers below are those of the files under `src/yakka/`.

## The system

| Component | State | Operations | Interacts with |
|---|---|---|---|
| Reference counting and locks (`Object.c` 123-166, 209-307, 341-350) | `refcount`, `weak_ref`, `deleted`, `mutex` of each object | `y_ref`, `y_unref`, `y_lock`, `y_try_lock`, `y_unlock`, `y_clear`, `y_assign`, `y_destroy` | resets and unrefs the object's weak reference; gives the object's pool back to the runtime |
| Weak references (`WeakRef.c`, `Object.c` 309-327) | `target` | `y_weak_ref`, `y_WeakRef_new`, `y_WeakRef_deref`, `y_WeakRef_unset`, `y_WeakRef_is_set` | a weak reference is itself an object; every `y_ref` and `y_unref` of the referent takes its mutex |
| Pool buffer (`Runtime.c` 215-267) | `pool_buffer`, `pool_buffer_pos`, the runtime's mutex | `y_Runtime_create_object_pool`, `y_Runtime_free_object_pool` | `y_create`, `y_destroy` |
| Class registration (`Runtime.c` 99-107, 174-201, `Runtime.h` 86-114, `Object.c` 440-450) | one static pointer per class, the class structs, the cleanups on the global pool | `y_Runtime_init_type`, the function that `y_GET_OR_CREATE_SUBTYPE` defines for each class, `y_erase_type` | superclass first; the runtime's mutex |
| Life cycle (`Object.c` 22-207, 341-421, `MethodList.c`) | the object's members, its class pointer; the method lists of each class | `y_init_type`, `y_create`, `y_assign`, `y_copy`, `y_clear`, `y_destroy` with the chains of init, assign and clear methods | pool buffer, errors; the methods of client classes |
| Errors (`Error.c`) | code, position, description, cause | `y_Error_throw`, `y_Error_throw_apr`, `y_Error_clear`, the getters | an error is an object that owns a reference to its cause |
| Interfaces (`Runtime.c` 109-172, `Object.c` 352-377, `Interface.h`) | the hash of interface ids, the table of each class, the static ids of the callers | `y_Runtime_get_interface_id`, `y_Runtime_pack_interfaces`, `y_get_implementation`, `y_GET_INSTANCE_VTABLE` | class registration, the runtime's mutex |
| Runtime creation and end (`Runtime.c` 31-77, 268-277, `Object.c` 55-64) | the runtime, its pools | `y_Runtime_new`, `y_Runtime_destroy`, the cleanup that clears every remaining object | everything |
| Test classes (`test/ootest`) | a member for each class | `Alpha_set`, `Alpha_assign`, ... | clients of the library |

What is hard about it: `y_ref` and `y_unref` take two mutexes in an order of
their own and read `weak_ref` outside both; the last `y_unref` frees memory
that other threads are looking at; a weak reference promises to be safe to
follow at any time; the pool buffer is one ring with one position for both
ends; classes are made on first use by whichever thread comes first, into
static variables that outlive the runtime; the class of an object changes while
methods run on it, also where it is passed as const; and any of the methods may
fail. What makes each part correct:

* references: an object lives exactly as long as somebody owns a reference to
  it, nothing is used after it is freed, every mutex taken is given back, no
  threads wait for each other, every call returns;
* weak references: the target is reset before the object goes, an object has
  one weak reference and keeps it;
* pool buffer: no pool is in two hands, none is lost, a reused pool is empty,
  the ring is a stack of the pools freed last;
* classes: whoever asks gets the class, below the very struct of its
  superclass, and no static pointer outlives what it points to;
* life cycle: `y_create` and `y_copy` are all or nothing, methods run in their
  order, an object is of its own class whenever no method runs on it, and its
  memory goes only after all its clear methods;
* interfaces: one id for each name, whoever asks first, and every lookup returns
  what the class or its superclass provides;
* errors and the end of the runtime: causes are owned and go with their last
  owner; at the end every object that is left is cleared once, without touching
  one that is gone.

## The modules

| Module | What it is |
|---|---|
| `SharedOwnership` | abstract: holders own numbered references to objects; a reference is made only while there is one, an object is reclaimed once, when there is none |
| `ObjectRefs` | `y_ref`, `y_unref`, `y_weak_ref`, `y_WeakRef_deref`, `y_clear`, `y_assign`, `y_destroy` and their locks, step by step, for any number of threads; refines `SharedOwnership` |
| `ObjectRefs_inv` | the inductive invariant of `ObjectRefs` |
| `ObjectRefs_heap` | lemmas about counting and about what the invariant says of one thread or object; every step preserves types, control, objects and owners |
| `ObjectRefs_calls` | every step preserves what the invariant says of running calls and of mutexes |
| `ObjectRefs_proofs` | the theorems about `ObjectRefs`, among them that it implements `SharedOwnership` |
| `PoolStack` | abstract: a stack of at most `Size` pools, from which the oldest is evicted |
| `PoolBuffer` | the two functions of the pool buffer, step by step; refines `PoolStack` |
| `PoolBuffer_proofs` | the theorems about `PoolBuffer` |
| `TypeRegistry` | classes made on first use, through the recursion into superclasses, over several lives of the runtime |
| `TypeRegistry_proofs` | the theorems about `TypeRegistry` |
| `Interfaces` | extends `TypeRegistry`: ids, tables and lookups |
| `Interfaces_proofs` | the theorems about `Interfaces` |
| `MethodChains` | the life of objects: classes with their method lists, creation, assignment, copies, clearing and destruction, method by method |
| `MethodChains_proofs` | the theorems about `MethodChains` |
| `ErrorChain` | errors and their causes, and the end of a runtime that has errors left |
| `ErrorChain_proofs` | the theorems about `ErrorChain` |
| `MC...` | instances for TLC: symmetry, the class tree, what the classes provide |

Each module keeps the names of the source: the variables are the struct members
and the local variables that live across a step, and an action is one access to
data that other threads may change, or one method of a chain, named after the
function and what it does there. Taking a mutex is merged with the first access
it protects, as nobody can tell the two apart. Memory is sequentially
consistent: the plain reads of `weak_ref` and `refcount` outside the mutex
(`Object.c` 256-258, 281-285) are data races in C, and what a compiler could
make of them is not modelled. `PROJECT.json` gives the lines of each
definition.

**`ObjectRefs`.** `pc[t]` is the step thread `t` is about to take, `self[t]`
the object it works on. A weak reference is an object like any other and may
have a weak reference of its own. The object's end, `y_destroy`, is in line in
`y_unref`; `y_Object_clear` calls `y_unref` once more for the weak reference,
which may end in the same way, and the sequence `outer[t]` remembers the
objects to return to. `weak[t]` is the pointer with which `y_ref` and `y_unref`
have called `y_lock` on the weak reference: it is read once, and the thread
waits for the mutex of what it named then. `life` follows an object's memory
from `unborn` to `freed`. `held` is a history variable: who owns how many
references; a holder is a thread or an object (which owns its weak reference).
The clients call any function on any object they own a reference to, hand
references to each other and lock objects by hand. `CallAssign` is `y_assign`
up to the point where it has cleared its target; what its methods do then is in
`MethodChains`. Two threads may be in `y_weak_ref` of one object at once, with
none there before. What the library silently requires of its clients is a set
of guards, each of which an instance can lift by name in `Freedoms`:

| Freedom | Lets a thread |
|---|---|
| `bare_deref` | call `y_WeakRef_deref` when it has no reference of its own to the referent |
| `late_weak_ref` | make an object's first weak reference while somebody gives up a reference to the object, which `y_unref` of a client or the end of the object whose weak reference it is may do |
| `clear` | call `y_clear` on, or `y_assign` to, an object that has a weak reference or other owners |
| `destroy` | call `y_destroy` on an object that has a weak reference, other owners or a call at work on it |
| `call_under_lock` | call the library between `y_lock` and `y_unlock` |

`y_WeakRef_new` may fail, and then `weak_ref` stays null. The clear methods of
subclasses are in `MethodChains`; `y_WeakRef_is_set`, which changes nothing, is
left out.

**`PoolBuffer`.** A pool is the memory at an address, so that a destroyed pool
can be created again. `content` tells an empty pool from one with an object in
it, `parent` the pool it was created from. `Size = 0` selects the path without
a buffer. The guard `MemoryLeft` is a bound: a thread starts to create an
object only if a pool will be found for it; what happens when APR has no memory
is not modelled.

**`TypeRegistry`.** A thread has a stack of frames, since a call for a class
first makes the call for its superclass. `type_location` is the static pointer,
`registered` the cleanups on the global pool. `DestroyRuntime` is the end of
the runtime while no thread is in a call; the next one begins with the same
static pointers. `Preloaded` is the set of classes that the main thread asks
for before the other threads start, and only that thread makes others, unless
the Freedom `type_race` lets every thread ask for any class.

**`Interfaces`.** Its actions are those of `TypeRegistry`, with the tables that
an `init_type` callback packs while the runtime is locked, and the steps of a
lookup, which may run while another thread makes a class. A vtable is a pair of
the class that provides it and the name. `FindId` is the look into the hash
without the lock: while somebody holds the lock it may miss a name that is
there. What the hash of APR does if it grows under such a look, which is a data
race in C, is not modelled beyond that. `iface_id` holds the static variables
of `y_GET_INSTANCE_VTABLE`; the Freedom `stale_id` lets a program that has used
them go on with a second runtime.

**`MethodChains`.** A class struct is its three lists of methods; a list names
the classes that define the methods. Each class contributes one member, and its
methods do to it what those of the test classes do: init sets it up, clear
resets it, assign copies it if both objects can be cast to the class. Init and
assign may fail, the latter in both ways the code provides for, and so may the
mutex of a new object. `call[t]` is the running call with its local variables.
The error location of a caller is absent (`ignored`), empty, or filled by the
call; an error that is thrown is supposed to be made. `made` is a history
variable: the class as which an object was made. Nobody else uses an object
that is being changed; an object that is passed as const, the source of
`y_copy` and `y_assign`, is not used by others either, unless the Freedom
`shared_source` lets several calls read it.

**`ErrorChain`.** An error stands for its pool as well. A thread's `location`
is its `y_Error *`; throwing on top of an error makes that the cause of the new
one. `stack[t]` holds the calls of `y_unref`, which go down the chain of
causes. `Init` has every way to call `y_Runtime_new`: pools brought along or
not, any buffer size of the set `Sizes`. `y_Runtime_destroy` or the application
(`DestroyParent`) destroys the pool whose children the errors live in, newest
child first (`Walk`); `y_cleanup_of_last_resort` clears the errors on the way.
The pool buffer is the stack that `PoolBuffer` was shown to be, and `y_unref`
one step, as `ObjectRefs` shows that counts are taken under the mutex.
Freedoms:

| Freedom | Lets the application |
|---|---|
| `causes_at_end` | end a runtime with a pool buffer while there are errors with causes |
| `outlive` | keep the objects pool, with errors in it, after the runtime's global pool is gone |

## The runs

| Run | Instance | Question |
|---|---|---|
| `refs_shared` | 2 threads, 5 calls in all, an object, two weak references, no Freedoms, fair | Is everything safe for clients that keep the rules, is it `SharedOwnership`, does every call return, and is what nobody owns freed? |
| `refs_up_to_free` | 3 threads, 5 calls in all, two weak references; bare deref, late weak references, calls under lock | Do the tests that are repeated under the lock do their part even where the callers are careless? |
| `refs_deref_races_free` | 2 threads, bare deref | finding: use after free |
| `refs_late_weak_ref` | 2 threads, late weak reference | finding: a weak reference dangles |
| `refs_clear_in_use` | 1 thread, `y_clear` | finding: a weak reference dangles |
| `pools_ring` | 3 threads, 4 pools, 2 slots, fair | Is the ring the stack it is meant to be, and is what it evicts destroyed? |
| `pools_unbuffered` | 3 threads, 4 pools, no buffer | The same for the other path |
| `types_interfaces` | 2 threads, 2 calls each; Object, Gamma (implements Beta), Alpha (inherits), Delta (implements Foo); fair | Does every call return its class, correctly linked, and every lookup the right vtable, over several runtimes? |
| `types_race` | 2 threads at the same class | finding: NULL is returned and stored |
| `chains` | 2 threads, 2 calls each, 2 objects, Object, Alpha and Delta, fair | Are objects made, copied and destroyed whole, and do the chains stay inside their lists, whichever method fails? |
| `copy_race` | 2 threads, 3 objects, a shared source | finding: a copy of the wrong class |
| `errors` | 2 threads, 4 calls each, 3 errors, buffers of 0 to 2 pools, fair | Are causes freed once and by the last owner, and is the end of the pool their end? |

*Bounds.* The steps of a call involve one object, its weak reference and the
threads that share them. `MaxCalls` of `ObjectRefs` bounds the calls that all
threads make together, locks taken by hand included; creations and hand-overs
are not counted. With two threads one can be between any two steps of a call
while the other goes through a whole one. Five calls make the weak reference,
from both threads at once if they like, share it and the object, and take the
last reference away while the other thread is inside `y_ref`, `y_unref`,
`y_weak_ref` or `y_WeakRef_deref`; the second weak reference is there for the
thread that would replace the first one, and to be the weak reference of the
first. `refs_up_to_free` has a third thread, so that two can race while another
gives the object up. A ring of two slots wraps in both directions, and with
four pools it is full while a thread frees a third pool and another creates a
fourth. In `types_interfaces` a runtime can end and the next one make its
classes again; the four classes have every relation of a class to its
superclass's table (none, inherited, replaced), and two names are enough for a
table with a hole and for an id beyond its end. Three classes give a clear
chain of three methods, and init and assign chains of two, which can fail at
the first and at the last; two objects are what `y_copy` and `y_assign` work
on. Three errors make a chain of two causes, or a cause that two errors' owners
share; with buffers of one and two pools a pool is used again, and evicted. All
the safety that these runs check, `NoOwnerLeft` in `refs_up_to_free` apart, is
also proved for every instance.

`refs_up_to_free` explores behaviours up to the first access to freed memory
(`CONSTRAINT NoUseAfterFree`), after which the program may do anything. It does
not check for deadlock, for there a mutex can stay locked for good and a client
that calls under its own lock waits for itself; all the others do.

*Fairness.* `refs_shared`, `pools_ring`, `types_interfaces`, `chains` and
`errors` assume weak fairness of each thread's next step within a call: the
operating system runs every thread that can run. For a thread that waits for a
mutex weak fairness only says that it gets it if the mutex is free from some
time on, which is all that an APR mutex promises. A client that locked an
object by hand is assumed to unlock it. `errors` assumes in the same way that a
pool that is being destroyed goes on being destroyed. No client is assumed to
call anything.

## What the runs found

In each case the code is followed to the letter, and the property is what the
documentation says.

1. **`y_WeakRef_deref` can return freed memory.** It unlocks the weak reference
   (`WeakRef.c` 39) and then calls `y_ref` on the pointer it has read (42). In
   between another thread's last `y_unref` can take the lock, reset the weak
   reference and free the object. `WeakRef.h` 9-14 promises a referenced
   pointer or NULL. Calling `y_ref` before the unlock is no remedy: `y_ref`
   locks the weak reference itself (the mutant of `NoDeadlock`).
2. **A weak reference made late can dangle.** `y_unref` decides from one early
   read (281) whether there is a weak reference to reset.
3. **`y_clear` makes a weak reference dangle.** It drops the object's weak
   reference without resetting it (47-51); so does `y_assign` to it (166).
4. **Two threads that ask for a new class may get NULL**, and the static pointer
   is set to NULL (`Runtime.c` 180-200, `Runtime.h` 103), although `Runtime.h` 56
   says that races are accommodated.

5. **A copy can be of the wrong class.** `y_assign` blesses its const source to the
   class of each method while that runs (`Object.c` 171) and restores it at the end
   (180); a `y_copy` of the same source in another thread may take the class from it
   in between (195), and makes an object of a superclass.

No run is kept for the following, as no document speaks of the use they need or
the promise is too general; the model shows each of them in a few steps if the
Freedom is given to the instance that the run of the module has.

* Freedom `bare_deref`, `LocksPaired`: `y_ref` and `y_unref` read `weak_ref` anew to
  unlock it (`Object.c` 269, 301). If the object is being destroyed in the
  meantime it is NULL by then, and the weak reference stays locked.
* Freedom `destroy`, `NoUseAfterFree` and `NoOwnerLeft`: `y_destroy` (341) looks at
  no count. On an object with other owners it frees what they use, as `Object.h` 87
  lets one expect.
* Freedom `causes_at_end`, `NoUseAfterFree` of `ErrorChain`: `y_Error_clear` drops
  the cause even when `unref_objects` says not to (`Error.c` 109). APR destroys
  pools newest first, and a pool keeps its place when the buffer gives it out
  again; so the cause may be in the newer pool and be gone before the error.
* Freedom `outlive`, the same property: without a buffer the objects are in the
  global pool (`Runtime.c` 234), with one in the objects pool. An application that
  owns the latter and destroys it after the runtime has the errors in it cleared
  with the classes and the runtime gone.
* Freedom `stale_id`, `RightVtable`: ids start again with each runtime, the static
  variables do not, so that a lookup finds another interface's vtable or none.

Met while reading, and not a matter of behaviour over time: `y_create` with an
error that is set before the call dereferences NULL (119); a negative buffer
size is taken for a buffer (`Runtime.c` 61, 220); `Runtime.h` 22-29 promises
that the runtime attached to a global pool is found again, which
`y_Runtime_new` does not do; `Runtime.h` 43 says that all objects come from the
objects pool, which is not so without a buffer.

Clients are safe as long as all of the following hold: nobody gives up a
reference to an object while its first weak reference is made (if the object is
itself a weak reference, its maker has a reference to the referent),
`y_WeakRef_deref` is called only where something else keeps the referent alive,
`y_clear`, `y_assign` (to the object) and `y_destroy` are called by the only
owner of an object without a weak reference, `y_destroy` with its only
reference and with no other call at work on the object, no library function is
called on a locked object, one thread asks for every class first, no two
threads copy from the same object at once, and there is one runtime in the life
of a program, which ends when no error with a cause is left. These are the
guards without `Freedoms`, and under them `refs_shared`, `types_interfaces`,
`chains` and `errors` find nothing.

## The proofs

### Reference counting

`ObjectRefs_proofs` assumes `RefsAssumption` (threads, objects and null are
different things) and, but for `WeakRefsAreKept`, `Freedoms = {}`: clients that
keep the rules, any number of them, with any number of objects, weak references
and calls. The findings show that the second assumption cannot be dropped.

| Theorem | Property |
|---|---|
| `TypeCorrectness` | `TypeOK` |
| `NoCallUsesFreedMemory` | `NoUseAfterFree` |
| `CountIsExact` | `RefcountExact` |
| `NobodyOwnsTheDead` | `NoOwnerLeft` |
| `WeakRefsDoNotDangle` | `NoDanglingWeakRef` |
| `WeakRefsAreUnique` | `OneWeakRef` |
| `WeakRefsAreKept` | `WeakRefKept` |
| `MutexesArePaired` | `LocksPaired` |
| `NobodyDeadlocks` | `NoDeadlock` |
| `FreedObjectsAreUnlocked` | `FreedUnlocked` |
| `Refinement` | `ImplementsOwnership` |
| `AbandonedAreCleaned` | the safety in `UnownedFreed`: an object without owners that is not freed yet is in the hands of a thread that cleans it up |
| `NothingIsForgotten` | while no call is running, what is not freed is live and counted |

`WeakRefsAreKept` needs no rule for the clients and no invariant but the type of
`weak_ref`: only three steps write it (`WeakRefWriters`), and of these only the
one in `y_weak_ref` sets it to something, after it has looked at it again under
the lock. The theorem holds for any number of threads that race to make the
first weak reference, for objects that are being given up or cleared meanwhile,
and for clients that use what is freed.

All others rest on `RefsInv` (theorem `Invariance`). No part of it is inductive alone:
the count is exact only because the object a call works on is alive, it is
alive because somebody owns it, and `y_unref` may take the last reference away
only because no other call is at work on the object. The parts:

* `ControlInv`: which steps belong to which call, and what its local variables
  hold;
* `StackInv`: the objects that a thread is clearing, one inside the other, are
  different from each other and from the one it works on;
* `CountInv`: the owners are finitely many, and as many as the counter says as
  long as the object lives; then there are none. `Tally` and its lemmas count
  the references as elements of a set;
* `WeakInv`: objects own their weak reference, once, until they have dropped it,
  and nothing else; a target is alive and has the weak reference as its own;
* `AcyclicInv`: weak references of weak references do not go round in a circle. It
  is said of sets, so that no induction is needed: every set of objects has one
  that is the weak reference of none of them;
* `AliveInv`: for each running call, the reference that keeps alive what it works
  on: the caller's own, that of the object behind a weak reference, or none when
  the thread itself is cleaning up;
* `ExclusiveInv`: who cleans an object up is alone with it;
* `MakerInv`: while an object's first weak reference is made nobody gives the
  object up, and who makes it has a reference to each object that owns this one;
* `HasWeakRefInv`: the early read of `weak_ref` in `y_ref` and `y_unref` stays
  true as long as it is used, and so does the pointer passed to `y_lock`. For a
  thread that finds nothing to reset it is `MakerInv` that says so;
* `UnsetInv`: nothing points at an object that is past `y_WeakRef_unset`;
* `ManualInv` and `LocksPaired`: who holds a mutex, and why.

The lemma the rest hangs on is `LastUser`: a thread that is about to take the
last reference away, with the object's mutex free, is the only thread that
works on the object. Another one would own a reference too, and so the counter
would be at least two, or it would be between lock and unlock and hold the
mutex. `NobodyDeadlocks` follows from the order of the two mutexes: whoever
holds one while it waits holds that of a weak reference and waits for that of
the object whose weak reference it is. In a circle of waiting threads each of
the mutexes would be that of the weak reference of another one's object, which
`AcyclicInv` excludes. `Refinement` goes
through the five actions that change owners or free memory; all others leave
both alone.

`AbandonedAreCleaned` has an invariant of its own on top of `RefsInv`,
`ReclaimInv`: a step that leaves an object without owners is that of `y_unref`
which goes on to destroy it (`StepAbandons`, `ClientAbandons`), and who cleans
up goes on until the memory is given back (`StillCleans`). What TLC adds on an
instance is that such a thread gets there.

### Pool buffer

`PoolBuffer_proofs` proves, for every set of threads and pools, every size of
the buffer, with a mutex or with one thread (`BufferAssumption`):

| Theorem | Property |
|---|---|
| `TypeCorrectness` | `TypeOK` |
| `PoolsHaveOnePlace` | `OnePlace` |
| `PoolsReusedClean` | `ReusedClean` |
| `PoolsAreNeighbours` | `Neighbours` |
| `Refinement` | `ImplementsStack` |

None of these is inductive alone, `TypeOK` included: that the position is a
slot rests on threads without a buffer never moving it. All follow from
`BufferInv` (theorem `Invariance`), whose parts are:

* `ControlInv`: a thread is between lock and unlock exactly if it owns the mutex;
* `LocalInv`: what `pool` and `old` hold at each step, in particular that they
  still agree with the slot that is about to be emptied or filled;
* `Apart` and `Located`: no pool is in two places, said pair by pair, and a pool
  exists exactly if it is in some place. They need each other: a pool that is
  created is nowhere because it does not exist, and an evicted pool can be
  destroyed because it is nowhere else;
* `Cleared`: only pools in the hands of an object have something in them;
* `EmptyInv`: a thread that found no pool at the position has found a buffer with
  no pool at all, so that a new pool is made only when none is kept;
* `Neighbours`: the ring is one run of slots. The lemmas `RunPopped` and
  `RunPushed` say what emptying and filling a slot do to a run; the arithmetic
  of the two wrap-arounds is confined to the lemma `Wraps`.

There is one lemma for each part, with one step for each action; `MovedOut` and
`MovedIn` describe the two actions that move a pool between a slot and a local
variable, which is where mutual exclusion (`Alone`) is used.

`Refinement`: the run of slots that ends at the position is the stack
(`RunIsStack`), with what the position points at on top. The step that empties
a slot is the abstract `Take`, the one that fills a slot `Put`, which evicts if
the slot was taken; creation is `New` and `apr_pool_destroy` is `Destroy`
(`TakeStep`, `PutStep`, `NewStep`, `DestroyStep`). All other steps change
nothing that the stack speaks of.

### Classes

`TypeRegistry_proofs` proves, for every set of threads and every hierarchy of
classes without cycles (`TypesAssumption`):

| Theorem | Property | Needs |
|---|---|---|
| `TypeCorrectness` | `TypeOK` | |
| `NoPointerIsStale` | `NoStaleType` | |
| `ClassesAreLinked` | `SuperLinked` | no `type_race` |
| `CallsReturnTypes` | `ReturnsType` | no `type_race` |

The first two hold even where threads race for a class, and follow from
`PointerInv` (theorem `Invariance`): what a call has made and has not stored
yet exists and is of its class, and its location will be erased. The other two
need that one thread makes the classes, as the finding shows, and rest on two
more facts: `OthersInv`, that the other threads ask only for classes that are
there, and `ClimbInv`, that the frames of the one that makes classes are a path
in the hierarchy on which no class occurs twice, so that what a call for a
subclass found missing is still missing when the call for the superclass
returns. `NoneTwice` is where the absence of cycles is used.

`Interfaces_proofs` proves, for all names and every choice of what the classes
provide (`InterfacesAssumption`):

| Theorem | Property | Needs |
|---|---|---|
| `LookupsAreRight` | `RightVtable` | no `type_race`, no `stale_id` |
| `TypesWithLookups` | those of the table above, for the specification with lookups | no `type_race`, no `stale_id` |
| `IdsAreUnique` | `IdsAgree` | |
| `MutexGivenBack` | the safety in `CallsReturn` and `LookupsReturn`: the runtime is locked by the thread between lock and unlock of a call or of a lookup, and by no other | |

The first two need that one thread makes the classes and that static ids are
used with one runtime, without which lookups go wrong (see above). They rest on
`InterfaceInv` (theorem `InterfacesInvariant`), on top of the invariant of
`TypeRegistry`, whose steps are among those of `Interfaces`:

* `HashOK`: the hash gives no id twice, and the counter is the number of names;
* `TableInv`: the table of a class that is made `Fits`: under the id of each name
  it has the vtable of the class or, if that provides none at all, of its
  superclass, and elsewhere nothing. Ids that are given later are beyond the end
  of every table that is there, so that no table goes stale (`FitsGrown`);
* `StaticInv`: a static variable is unset or holds the id of its name;
* `LookupInv`: a lookup has the id by the time it looks into the table, and the
  right vtable when it returns;
* `RootInv`: the root class has no superclass to inherit a table from.

`PackFits` is about `y_Runtime_pack_interfaces`, which is a fold over the names,
and `InheritFits` about a class that takes over the table of its superclass;
what a class provides is a recursive function along the superclasses
(`ProvidedIs`). As the induction theorems of the library cannot be used, both
go by way of a least counterexample: `Least` says that a set of numbers that is
not empty has a least element.

The last two hold whatever the clients do, and rest on `IdsInv` (theorem
`IdsInvariant`): the part of the above that no race disturbs, with `WaitInv`, that
all frames of a stack but the first wait for a superclass. `MutexGivenBack` adds
`MutexInv`, that no thread is in a call for a class and in a lookup at once. By
`WaitInv` the recursion into superclasses takes the mutex only while the thread
does not have it.

### The life cycle

`MethodChains_proofs` proves, for every class hierarchy, every choice of
classes that have methods, and any number of threads and objects
(`ChainsAssumption`), if no two calls read from one object at once (no
`shared_source`; the finding shows why):

| Theorem | Property |
|---|---|
| `TypeCorrectness` | `TypeOK` |
| `ClassesRestored` | `TypeRestored` |
| `CopiesAreFaithful` | `CopyFaithful` |
| `ObjectsMadeWhole` | `MadeWhole` |
| `ObjectsFreedCleared` | `FreedCleared` |
| `ChainsInOrder` | `ChainOrder` |

None is inductive, for they speak of the end of chains; `TypeOK`, because the
index stays inside the list only as long as the call runs the list of the class
that its object was made as (`InBounds` follows from `ChainInv`). `ChainsInv` (theorem
`Invariance`) says how far a chain has come:

* `ListInv`: the lists of a class that is made have the methods of every class in
  its lineage. The lemma about `y_init_type` uses that the lineage of a class is
  the class and the lineage of its superclass (`LineageIs`); the lineage is a
  least set and not a recursion, so that this can be proved;
* `BusyInv`: no two calls work on one object, as target or as source;
* `Sound`: an object is of the class it was made as, or a call is working on it;
* `CallInv` of each call: `FormInv` relates step, operation and errors, `ToInv` and
  `FromInv` say what class target and source have at each step and what they will be
  given back, `ChainInv` that the methods before the index have done their work: each
  has set up, copied or reset its member, and no later method undoes that.

The steps of a call change its own objects only; `Continued`, `Ended` and
`OneCall` carry the invariant over for all other calls and objects, so that
each step of `Next` needs a proof about one call.

`ChainsInOrder` adds `OrderInv`: every list is `Ordered`, the methods of deep
classes before those of shallow ones, and what a call has run is what its index
has passed. A class is made after all that it inherits from and adds its own
method at the end of a list (`ExtendedOrdered`).

### Errors

`ErrorChain_proofs` proves, for every number of threads and errors, every way to
call `y_Runtime_new` and every size of the buffer (`ErrorAssumption`), if the
clients keep to the two rules for the end of a runtime (no `causes_at_end`, no
`outlive`):

| Theorem | Property |
|---|---|
| `ErrorTypes` | `TypeOK` |
| `ErrorsUsedWhileLive` | `NoUseAfterFree` |
| `ChainsFreed` | `NoLeak` |
| `TheEndIsClean` | the safety in `EndClears`: when the runtime's end is over there is no error and no cause left |

All follow from `ErrorInv` (theorem `ErrorsCounted`), in which the cascade down
a chain, any number of calls deep, is described frame by frame:

* `CountInv`: a live error has as many owners as its counter says: locations, kept
  references, errors that it caused and calls of `y_unref` that have not counted
  down yet. Nothing that the library follows leads to an error that is gone;
* `FrameInv`: what each call works on is live, all but the running one wait in
  `y_Error_clear`, and an error that is destroyed has no owner left unless its
  pool goes;
* `OnceInv`: no error is destroyed by two calls;
* `OrderInv` and `ChainInv`: a cause is older than the errors that own it, so that
  there are no cycles; without a buffer it is also further from the end of the
  pool, and a cascade never comes back to what is being cleared;
* `PhaseInv`: who may be in a call in each phase; with a buffer no error has a cause
  when the pools go, which is what the rule asks of the clients;
* `PoolInv`: a live error has its pool, those that the buffer keeps are empty;
* `KeptInv`: an error without owners is being destroyed. With the absence of
  cycles this gives `ChainsFreed`.

`TheEndIsClean` adds `GoneInv`: an error that is gone has no cause, as every
call that destroys one gave up the cause first (`GoneUncaused`), and the walk
over the pool ends when it has no children.

### Checked by TLC only

Liveness, which is out of the prover's reach: `CallsReturn`, `LookupsReturn`,
`UnownedFreed`, `EvictedDestroyed` and `EndClears`; and what `refs_up_to_free`
says of the owners of dead objects where clients break the rules.

## Not modelled

* Several runtimes at once: class pointers are static, and the end of one runtime
  erases the classes that another uses. `TypeRegistry` and `Interfaces` have several
  runtimes one after the other.
* Memory that runs out in APR: pools, class structs and lists are supposed to be
  made, as the code does not test for it; that a new object's mutex cannot be made
  is modelled, but not that the error about it cannot be made either.
* Arguments that make no sense: negative buffer sizes, an error location that is
  not empty at the call, null pointers, an object assigned to itself.
* What only reads: `y_WeakRef_is_set`, the getters of errors, `y_Runtime_get_...`.
* Formatting of messages, file names and line numbers; sizes of structs and the
  layout of instances; APR itself, of which the models have what the code uses.
* Weak memory: memory is sequentially consistent in the models.

## Plan

1. Several runtimes that share the static pointers: a composition of two
   instances of `TypeRegistry` over one `type_location`.
2. `ObjectRefs` for clients with Freedoms: an inductive invariant for `NoOwnerLeft`
   as `refs_up_to_free` checks it, that is, for executions that have not yet touched
   freed memory, where the last user of an object need not be alone with it.

---------------------------- MODULE TypeRegistry ----------------------------
(***************************************************************************)
(* How classes come into being: y_Object_type, the functions that the      *)
(* macro y_GET_OR_CREATE_SUBTYPE of yakka/Runtime.h defines for the other  *)
(* classes, y_Runtime_init_type and y_erase_type of yakka/Runtime.c.       *)
(*                                                                         *)
(* Each class has one static pointer, the location of its class struct.  A *)
(* thread that finds it NULL gets the superclass in the same way, locks    *)
(* the runtime, looks again, makes the struct and stores it; after the     *)
(* unlock the macro stores what y_Runtime_init_type returned once more,    *)
(* and reads the pointer a last time for its result.                       *)
(*                                                                         *)
(* A call for a class can be waiting for the call for its superclass, so a *)
(* thread has a stack of frames, the running call first.                   *)
(***************************************************************************)
EXTENDS Integers, Sequences, FiniteSets

CONSTANTS
  Threads,   \* the threads that ask for classes
  Main,      \* the thread that starts the others
  Types,     \* the classes
  Super,     \* the superclass of each class, NULL for Object
  Structs,   \* the class structs that can be allocated
  Preloaded, \* the classes that Main asks for before the others start
  NULL,      \* the null pointer, and "no owner" of the mutex
  MaxCalls,  \* bound on the calls one thread makes
  Freedoms   \* client rules that are lifted: "type_race", and "stale_id" of
             \*   Interfaces

ClassStructs == [type : Types, super : Structs \cup {NULL}]

ASSUME TypesAssumption ==
  /\ NULL \notin Threads \cup Types \cup Structs \cup ClassStructs
  /\ Main \in Threads
  /\ Super \in [Types -> Types \cup {NULL}]
  /\ \A S \in SUBSET Types : S # {} => \E c \in S : Super[c] \notin S
  /\ Preloaded \subseteq Types
  /\ MaxCalls \in Nat

VARIABLES
  type_location,  \* the static pointer of each class
  struct,         \* each class struct, NULL if it is not allocated
  registered,     \* the locations that the global pool will erase
  mutex,          \* the thread that has locked rt->mutex, or NULL
  stack,          \* the calls each thread is in, the running one first
  calls           \* the number of calls each thread has made, up to MaxCalls

classVars == <<type_location, struct, registered>>
vars == <<classVars, mutex, stack, calls>>

Steps == {"check", "init", "unlock", "store", "return"}
Frames == [type : Types, step : Steps, super : Structs \cup {NULL},
           made : Structs \cup {NULL}]

Init ==
  /\ type_location = [c \in Types |-> NULL]
  /\ struct = [s \in Structs |-> NULL]
  /\ registered = {}
  /\ mutex = NULL
  /\ stack = [t \in Threads |-> <<>>]
  /\ calls = [t \in Threads |-> 0]

-----------------------------------------------------------------------------
Idle(t) == stack[t] = <<>>
At(t, step) == ~Idle(t) /\ Head(stack[t]).step = step
Top(t) == Head(stack[t])

Frame(c) == [type |-> c, step |-> "check", super |-> NULL, made |-> NULL]

(* The running call of t goes on as frame f.                               *)
Continue(t, f) == stack' = [stack EXCEPT ![t] = <<f>> \o Tail(@)]

(* y_Object_type, y_WeakRef_type, y_Error_type, ... called by a client.    *)
(* The rule: threads start when Main has the preloaded classes, and leave  *)
(* it to Main to ask for others first.                                     *)
Call(t, c) ==
  /\ Idle(t)
  /\ calls[t] < MaxCalls
  /\ \/ t = Main \/ "type_race" \in Freedoms
     \/ c \in Preloaded /\ \A p \in Preloaded : type_location[p] # NULL
  /\ stack' = [stack EXCEPT ![t] = <<Frame(c)>>]
  /\ calls' = [calls EXCEPT ![t] = @ + 1]
  /\ UNCHANGED <<classVars, mutex>>

(* Mutant: the static pointer is not looked at.                            *)
CheckSkipped(t) ==
  /\ At(t, "check")
  /\ LET f == Top(t) IN
     \/ /\ Super[f.type] = NULL
        /\ Continue(t, [f EXCEPT !.step = "init"])
     \/ /\ Super[f.type] # NULL
        /\ stack' = [stack EXCEPT ![t] =
                       <<Frame(Super[f.type]), [f EXCEPT !.step = "init"]>>
                         \o Tail(@)]
  /\ UNCHANGED <<classVars, mutex, calls>>

(* The superclass is an argument of y_Runtime_init_type, so it is fetched  *)
(* before the runtime is locked.                                           *)
Check(t) ==
  /\ At(t, "check")
  /\ LET f == Top(t) IN
     \/ /\ type_location[f.type] # NULL
        /\ Continue(t, [f EXCEPT !.step = "return"])
     \/ /\ type_location[f.type] = NULL
        /\ Super[f.type] = NULL
        /\ Continue(t, [f EXCEPT !.step = "init"])
     \/ /\ type_location[f.type] = NULL
        /\ Super[f.type] # NULL
        /\ stack' = [stack EXCEPT ![t] =
                       <<Frame(Super[f.type]), [f EXCEPT !.step = "init"]>>
                         \o Tail(@)]
  /\ UNCHANGED <<classVars, mutex, calls>>

(* Mutant: the struct is registered for y_erase_type, not its location.    *)
InitRegistersStruct(t) ==
  /\ At(t, "init")
  /\ mutex = NULL
  /\ mutex' = t
  /\ LET f == Top(t) IN
     \E s \in Structs :
       /\ type_location[f.type] = NULL
       /\ struct[s] = NULL
       /\ struct' = [struct EXCEPT ![s] =
                       [type |-> f.type, super |-> f.super]]
       /\ type_location' = [type_location EXCEPT ![f.type] = s]
       /\ registered' = registered \cup {s}
       /\ Continue(t, [f EXCEPT !.step = "unlock", !.made = s])
  /\ UNCHANGED calls

(* The memory for a new struct.  Addresses can be renamed, so that it does *)
(* not matter which of the free ones it is.                                *)
Fresh(s) == struct[s] = NULL /\ s = CHOOSE x \in Structs : struct[x] = NULL

(* y_Runtime_init_type up to the unlock.  The struct starts as a copy of   *)
(* the superclass's, if there is one, and is nobody else's until it is     *)
(* stored.  The variable that is returned stays NULL if the location is    *)
(* already filled.                                                         *)
y_Runtime_init_type(t) ==
  /\ At(t, "init")
  /\ mutex = NULL
  /\ mutex' = t
  /\ LET f == Top(t) IN
     \/ /\ type_location[f.type] = NULL
        /\ \E s \in Structs :
             /\ Fresh(s)
             /\ struct' = [struct EXCEPT ![s] =
                             [type |-> f.type, super |-> f.super]]
             /\ type_location' = [type_location EXCEPT ![f.type] = s]
             /\ Continue(t, [f EXCEPT !.step = "unlock", !.made = s])
        /\ registered' = registered \cup {f.type}
     \/ /\ type_location[f.type] # NULL
        /\ Continue(t, [f EXCEPT !.step = "unlock"])
        /\ UNCHANGED classVars
  /\ UNCHANGED calls

(* Mutant: the runtime stays locked.                                       *)
UnlockSkipped(t) ==
  /\ At(t, "unlock")
  /\ Continue(t, [Top(t) EXCEPT !.step = "store"])
  /\ UNCHANGED <<classVars, mutex, calls>>

Unlock(t) ==
  /\ At(t, "unlock")
  /\ mutex' = NULL
  /\ Continue(t, [Top(t) EXCEPT !.step = "store"])
  /\ UNCHANGED <<classVars, calls>>

(* type = y_Runtime_init_type (...)                                        *)
Store(t) ==
  /\ At(t, "store")
  /\ type_location' = [type_location EXCEPT ![Top(t).type] = Top(t).made]
  /\ Continue(t, [Top(t) EXCEPT !.step = "return"])
  /\ UNCHANGED <<struct, registered, mutex, calls>>

(* Mutant: the call for the subclass goes on without its superclass.       *)
ReturnDropsSuper(t) ==
  /\ At(t, "return")
  /\ stack' = [stack EXCEPT ![t] = Tail(@)]
  /\ UNCHANGED <<classVars, mutex, calls>>

(* return type, to the client or to the call for the subclass.             *)
Return(t) ==
  /\ At(t, "return")
  /\ LET value == type_location[Top(t).type]
         rest == Tail(stack[t])
     IN \/ /\ rest = <<>>
           /\ stack' = [stack EXCEPT ![t] = <<>>]
        \/ /\ rest # <<>>
           /\ stack' = [stack EXCEPT ![t] =
                          <<[Head(rest) EXCEPT !.super = value]>> \o Tail(rest)]
  /\ UNCHANGED <<classVars, mutex, calls>>

(* Mutant: the cleanups do not run.                                        *)
DestroyKeepsLocations ==
  /\ \A t \in Threads : Idle(t)
  /\ registered # {}
  /\ struct' = [s \in Structs |-> NULL]
  /\ registered' = {}
  /\ UNCHANGED <<type_location, mutex, stack, calls>>

(* The global pool is destroyed: its class structs are gone, and its       *)
(* cleanups, one y_erase_type for each type it initialised, run.  The next *)
(* runtime starts with the same static pointers.                           *)
DestroyRuntime ==
  /\ \A t \in Threads : Idle(t)
  /\ registered # {}
  /\ struct' = [s \in Structs |-> NULL]
  /\ type_location' =
       [c \in Types |-> IF c \in registered THEN NULL ELSE type_location[c]]
  /\ registered' = {}
  /\ UNCHANGED <<mutex, stack, calls>>

Step(t) ==
  \/ Check(t) \/ y_Runtime_init_type(t) \/ Unlock(t) \/ Store(t) \/ Return(t)

(* The program may end between calls.                                      *)
Rest == (\A t \in Threads : Idle(t)) /\ UNCHANGED vars

Next ==
  \/ \E t \in Threads : Step(t) \/ \E c \in Types : Call(t, c)
  \/ DestroyRuntime
  \/ Rest

Spec == Init /\ [][Next]_vars
FairSpec == Spec /\ \A t \in Threads : WF_vars(Step(t))

-----------------------------------------------------------------------------
(* Properties. *)

(* The variables keep their types.                                         *)
TypeOK ==
  /\ type_location \in [Types -> Structs \cup {NULL}]
  /\ struct \in [Structs -> ClassStructs \cup {NULL}]
  /\ registered \subseteq Types
  /\ mutex \in Threads \cup {NULL}
  /\ stack \in [Threads -> Seq(Frames)]
  /\ calls \in [Threads -> Nat]

(* Whoever asks for a class gets it: "If found, the existing type will be  *)
(* returned.  If not, the type will be created" (yakka/Runtime.h).         *)
ReturnsType ==
  [][\A t \in Threads : Return(t) => type_location[Top(t).type] # NULL]_vars

(* y_is_a climbs the super pointers and compares them with the static      *)
(* pointers: each class that can be found hangs below the very struct that *)
(* can be found for its superclass.                                        *)
SuperLinked ==
  \A c \in Types : type_location[c] # NULL /\ Super[c] # NULL =>
    /\ type_location[Super[c]] # NULL
    /\ struct[type_location[c]].super = type_location[Super[c]]

(* No static pointer outlives the struct it points to: after the end of a  *)
(* runtime the next one makes its classes anew.                            *)
NoStaleType ==
  \A c \in Types : type_location[c] # NULL =>
    /\ struct[type_location[c]] # NULL
    /\ struct[type_location[c]].type = c

(* While a thread waits for the runtime's mutex its owner can go on: no    *)
(* class is initialised from within the initialisation of another, which   *)
(* would lock the runtime twice, and every call returns.                   *)
CallsReturn == \A t \in Threads : ~Idle(t) ~> Idle(t)
=============================================================================

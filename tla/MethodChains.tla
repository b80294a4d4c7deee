---------------------------- MODULE MethodChains ----------------------------
(***************************************************************************)
(* The life of an object: y_create, y_assign, y_copy, y_clear and          *)
(* y_destroy of yakka/Object.c, over the chains of init, assign and clear  *)
(* methods that y_init_type builds for each class with y_MethodList_extend *)
(* of yakka/MethodList.c.                                                  *)
(*                                                                         *)
(* Before a method runs its object is blessed to the class that defined    *)
(* the method: the class pointer of the object is changed and put back at  *)
(* the end of the chain.  y_assign does that to both its target and its    *)
(* source.  While nobody else uses the target, anybody may look at the     *)
(* source, which the callers pass as const.                                *)
(*                                                                         *)
(* Each class contributes one member to its instances.  What the methods   *)
(* of client classes do with it is what those of test/ootest do: init sets *)
(* it up, clear resets it, assign copies it if both objects can be cast to *)
(* the class; init and assign may fail.                                    *)
(***************************************************************************)
EXTENDS Integers, Sequences, FiniteSets

CONSTANTS
  Threads,    \* the threads that call the library
  Objects,    \* the addresses at which an object can be made
  Classes,    \* the classes
  Super,      \* the superclass of each class, NULL for Object
  HasInit,    \* the classes with an init method,
  HasAssign,  \*   with an assign method,
  HasClear,   \*   and with a clear method
  Values,     \* what a client can set a member to
  Zero,       \* a member of fresh memory, and one that was cleared
  Fresh,      \* a member after its init method
  NULL,       \* the null pointer
  MaxCalls,   \* bound on the calls one thread makes
  Freedoms    \* client rules that are lifted: "shared_source"

Data == Values \cup {Zero, Fresh}

(* A list of methods names the classes that define them.  The empty list   *)
(* stands for the null pointer: y_MethodList_extend makes no empty lists.  *)
MethodLists ==
  [init : Seq(Classes), assign : Seq(Classes), clear : Seq(Classes)]

ASSUME ChainsAssumption ==
  /\ NULL \notin Threads \cup Objects \cup Classes \cup MethodLists
  /\ Super \in [Classes -> Classes \cup {NULL}]
  /\ HasInit \subseteq Classes
  /\ HasAssign \subseteq Classes
  /\ HasClear \subseteq Classes
  /\ MaxCalls \in Nat

VARIABLES
  class,   \* the method lists of each class struct, NULL until it is made
  life,    \* "none", "making" and "alive", for each object
  type,    \* the class pointer of each object
  member,  \* the member that each class has in each object
  made,    \* history: the class as which each object was made
  call,    \* the call that each thread is in
  calls    \* the number of calls each thread has made, up to MaxCalls

objectVars == <<life, type, member, made>>
vars == <<class, objectVars, call, calls>>

-----------------------------------------------------------------------------
(* Classes. *)

(* The classes that the super pointers lead to from class c: each of them  *)
(* is in every set that has c and all superclasses of its own members.     *)
Lineage ==
  [c \in Classes |->
     {d \in Classes :
        \A S \in SUBSET Classes :
          (c \in S /\ \A x \in S : Super[x] # NULL => Super[x] \in S)
             => d \in S}]

(* y_is_a, for an object whose class pointer is c.                         *)
IsA(c, d) == d \in Lineage[c]

NoMethods == [init |-> <<>>, assign |-> <<>>, clear |-> <<>>]

(* Mutant: the new method goes to the front.                               *)
ExtendInFront(list, c) == <<c>> \o list

y_MethodList_extend(list, c) == Append(list, c)

(* The struct of a class begins as a copy of its superclass's; y_init_type *)
(* replaces the lists for which the class has a method of its own.         *)
y_init_type(c) ==
  /\ class[c] = NULL
  /\ Super[c] # NULL => class[Super[c]] # NULL
  /\ LET super == IF Super[c] = NULL THEN NoMethods ELSE class[Super[c]]
         List(inherited, owners) ==
           IF c \in owners THEN y_MethodList_extend(inherited, c) ELSE inherited
     IN class' = [class EXCEPT ![c] =
                    [init   |-> List(super.init, HasInit),
                     assign |-> List(super.assign, HasAssign),
                     clear  |-> List(super.clear, HasClear)]]
  /\ UNCHANGED <<objectVars, call, calls>>

-----------------------------------------------------------------------------
(* Calls.  type is the local variable of that name, i the index into the   *)
(* list of the running chain, ran the classes whose method it has run.     *)
(* error is the error location: NULL ("ignored"), empty or filled.         *)
Ops == {"create", "assign", "copy", "clear", "destroy"}
Steps == {"idle", "alloc", "init", "abandon", "compare", "clear", "assign",
          "exec", "restore", "reject", "free", "return"}
Calls ==
  [op : Ops, step : Steps, to : Objects \cup {NULL}, from : Objects \cup {NULL},
   type : Classes \cup {NULL}, i : Nat, ran : SUBSET Classes,
   error : {"ignored", "empty", "filled"}, failed : BOOLEAN,
   result : Objects \cup {NULL}]

NoCall == [op |-> "clear", step |-> "idle", to |-> NULL, from |-> NULL,
           type |-> NULL, i |-> 0, ran |-> {}, error |-> "ignored",
           failed |-> FALSE, result |-> NULL]

Init ==
  /\ class = [c \in Classes |-> NULL]
  /\ life = [o \in Objects |-> "none"]
  /\ type = [o \in Objects |-> NULL]
  /\ member = [o \in Objects |-> [c \in Classes |-> Zero]]
  /\ made = [o \in Objects |-> NULL]
  /\ call = [t \in Threads |-> NoCall]
  /\ calls = [t \in Threads |-> 0]

At(t, step) == call[t].step = step
Goto(t, c) == call' = [call EXCEPT ![t] = c]

(* The rule for objects that a call changes: nobody else uses them.        *)
Unused(o) == \A t \in Threads : call[t].to # o /\ call[t].from # o

(* The rule for objects that are only passed as const: nobody changes      *)
(* them.  That a second call may read them needs the Freedom.              *)
Readable(o) ==
  /\ \A t \in Threads : call[t].to # o
  /\ "shared_source" \in Freedoms \/ Unused(o)

Start(t, c) ==
  /\ At(t, "idle")
  /\ calls[t] < MaxCalls
  /\ Goto(t, c)
  /\ calls' = [calls EXCEPT ![t] = @ + 1]
  /\ UNCHANGED class

(* The error location, if there is one, is empty at the call.              *)
Locations == {"ignored", "empty"}

(* y_create, with the memory that it will be given.                        *)
CallCreate(t, o, c, e) ==
  /\ class[c] # NULL
  /\ life[o] = "none"
  /\ Start(t, [NoCall EXCEPT !.op = "create", !.step = "alloc", !.to = o,
                             !.type = c, !.error = e])
  /\ life' = [life EXCEPT ![o] = "making"]
  /\ UNCHANGED <<type, member, made>>

(* y_copy, likewise.  The class is read from the source in this step.      *)
CallCopy(t, o, from, e) ==
  /\ life[o] = "none"
  /\ life[from] = "alive" /\ Readable(from)
  /\ Start(t, [NoCall EXCEPT !.op = "copy", !.step = "alloc", !.to = o,
                             !.from = from, !.type = type[from], !.error = e])
  /\ life' = [life EXCEPT ![o] = "making"]
  /\ UNCHANGED <<type, member, made>>

CallAssign(t, to, from, e) ==
  /\ to # from
  /\ life[to] = "alive" /\ Unused(to)
  /\ life[from] = "alive" /\ Readable(from)
  /\ Start(t, [NoCall EXCEPT !.op = "assign", !.step = "compare", !.to = to,
                             !.from = from, !.error = e])
  /\ UNCHANGED objectVars

(* Mutant: the last method of the list is left out.                        *)
ClearFromOffByOne(c, o) ==
  [c EXCEPT !.step = "clear", !.type = type[o], !.ran = {},
            !.i = Len(class[type[o]].clear) - 1]

(* Mutant: it begins one past the end of the list.                         *)
ClearFromPastTheEnd(c, o) ==
  [c EXCEPT !.step = "clear", !.type = type[o], !.ran = {},
            !.i = Len(class[type[o]].clear) + 1]

(* y_clear_object begins at the end of the list of the object's class.     *)
ClearFrom(c, o) ==
  [c EXCEPT !.step = "clear", !.type = type[o], !.ran = {},
            !.i = Len(class[type[o]].clear)]

(* y_clear and y_destroy, or the last y_unref.                             *)
CallClear(t, o, op) ==
  /\ life[o] = "alive" /\ Unused(o)
  /\ Start(t, ClearFrom([NoCall EXCEPT !.op = op, !.to = o], o))
  /\ UNCHANGED objectVars

(* A client's setter for the member of class c.                            *)
SetMember(t, o, c, v) ==
  /\ life[o] = "alive" /\ Unused(o)
  /\ IsA(type[o], c)
  /\ Start(t, [NoCall EXCEPT !.step = "return"])
  /\ member' = [member EXCEPT ![o][c] = v]
  /\ UNCHANGED <<life, type, made>>

-----------------------------------------------------------------------------
(* y_create *)

(* y_Error_throw.  The bound: an error can be made where one is wanted.    *)
Raise(e) == IF e = "ignored" THEN "ignored" ELSE "filled"

(* The memory of object o goes back to the runtime.                        *)
FreePool(o) ==
  /\ life' = [life EXCEPT ![o] = "none"]
  /\ type' = [type EXCEPT ![o] = NULL]
  /\ member' = [member EXCEPT ![o] = [c \in Classes |-> Zero]]
  /\ made' = [made EXCEPT ![o] = NULL]

(* The mutex is made before any method runs.                               *)
Allocate(t) ==
  /\ At(t, "alloc")
  /\ LET c == call[t] IN
     /\ type' = [type EXCEPT ![c.to] = c.type]
     /\ made' = [made EXCEPT ![c.to] = c.type]
     /\ Goto(t, [c EXCEPT !.step = "init"])
  /\ UNCHANGED <<class, life, member, calls>>

(* It cannot be made: whether or not errors are ignored there is no object *)
(* then, and y_copy has nothing to assign to.                              *)
AllocateFails(t) ==
  /\ At(t, "alloc")
  /\ Goto(t, [call[t] EXCEPT !.step = "abandon", !.error = Raise(@)])
  /\ UNCHANGED <<class, objectVars, calls>>

InitMethod(t) ==
  /\ At(t, "init")
  /\ LET c == call[t]
         list == class[c.type].init
         m == list[c.i + 1]
     IN /\ c.i < Len(list)
        /\ type' = [type EXCEPT ![c.to] = m]
        /\ member' = [member EXCEPT ![c.to][m] = Fresh]
        /\ Goto(t, [c EXCEPT !.i = @ + 1, !.ran = @ \cup {m}])
  /\ UNCHANGED <<class, life, made, calls>>

(* Mutant: the error location is not looked at.                            *)
InitFailsUnnoticed(t) ==
  /\ At(t, "init")
  /\ LET c == call[t]
         list == class[c.type].init
     IN /\ c.i < Len(list)
        /\ type' = [type EXCEPT ![c.to] = list[c.i + 1]]
        /\ Goto(t, [c EXCEPT !.i = @ + 1, !.ran = @ \cup {list[c.i + 1]},
                             !.error = Raise(@)])
  /\ UNCHANGED <<class, life, member, made, calls>>

(* An init method throws.  y_create sees only what is in the location.     *)
InitFails(t) ==
  /\ At(t, "init")
  /\ LET c == call[t]
         list == class[c.type].init
         error == Raise(c.error)
     IN /\ c.i < Len(list)
        /\ type' = [type EXCEPT ![c.to] = list[c.i + 1]]
        /\ Goto(t, [c EXCEPT !.i = @ + 1, !.ran = @ \cup {list[c.i + 1]},
                             !.error = error,
                             !.step = IF error = "filled" THEN "abandon" ELSE @])
  /\ UNCHANGED <<class, life, member, made, calls>>

(* Failure: no clear method runs for what init methods have set up.        *)
Abandon(t) ==
  /\ At(t, "abandon")
  /\ FreePool(call[t].to)
  /\ Goto(t, [call[t] EXCEPT !.step = "return"])
  /\ UNCHANGED <<class, calls>>

(* y_copy goes on with y_assign.                                           *)
EndInit(t) ==
  /\ At(t, "init")
  /\ LET c == call[t] IN
     /\ c.i = Len(class[c.type].init)
     /\ type' = [type EXCEPT ![c.to] = c.type]
     /\ life' = [life EXCEPT ![c.to] = "alive"]
     /\ Goto(t, IF c.op = "copy" THEN [c EXCEPT !.step = "compare"]
                ELSE [c EXCEPT !.step = "return", !.result = c.to])
  /\ UNCHANGED <<class, member, made, calls>>

-----------------------------------------------------------------------------
(* y_clear_object *)

ClearMethod(t) ==
  /\ At(t, "clear")
  /\ LET c == call[t]
         m == class[c.type].clear[c.i]
     IN /\ c.i > 0
        /\ type' = [type EXCEPT ![c.to] = m]
        /\ member' = [member EXCEPT ![c.to][m] = Zero]
        /\ Goto(t, [c EXCEPT !.i = @ - 1, !.ran = @ \cup {m}])
  /\ UNCHANGED <<class, life, made, calls>>

(* y_clear is done, y_destroy frees the memory, y_assign assigns.          *)
EndClear(t) ==
  /\ At(t, "clear")
  /\ LET c == call[t]
         next == [clear |-> "return", destroy |-> "free",
                  assign |-> "assign", copy |-> "assign"]
     IN /\ c.i = 0
        /\ type' = [type EXCEPT ![c.to] = c.type]
        /\ Goto(t, [c EXCEPT !.step = next[c.op], !.ran = {}])
  /\ UNCHANGED <<class, life, member, made, calls>>

FreeObject(t) ==
  /\ At(t, "free")
  /\ FreePool(call[t].to)
  /\ Goto(t, [call[t] EXCEPT !.step = "return"])
  /\ UNCHANGED <<class, calls>>

-----------------------------------------------------------------------------
(* y_assign *)

(* Mutant: any two objects can be assigned.                                *)
CompareSkipped(t) ==
  /\ At(t, "compare")
  /\ LET c == call[t] IN
     Goto(t, IF class[type[c.to]].assign # <<>> THEN ClearFrom(c, c.to)
             ELSE [c EXCEPT !.step = "reject"])
  /\ UNCHANGED <<class, objectVars, calls>>

(* Objects of different classes, or of a class without assign methods,     *)
(* cannot be assigned.                                                     *)
Compare(t) ==
  /\ At(t, "compare")
  /\ LET c == call[t] IN
     Goto(t, IF /\ class[type[c.to]].assign # <<>>
                /\ type[c.to] = type[c.from]
             THEN ClearFrom(c, c.to)
             ELSE [c EXCEPT !.step = "reject"])
  /\ UNCHANGED <<class, objectVars, calls>>

AssignBless(t) ==
  /\ At(t, "assign")
  /\ LET c == call[t]
         list == class[c.type].assign
     IN /\ c.i < Len(list)
        /\ type' = [type EXCEPT ![c.to] = list[c.i + 1],
                                ![c.from] = list[c.i + 1]]
        /\ Goto(t, [c EXCEPT !.step = "exec"])
  /\ UNCHANGED <<class, life, member, made, calls>>

(* An assign method that cannot cast both objects assigns nothing and says *)
(* nothing.                                                                *)
AssignMethod(t) ==
  /\ At(t, "exec")
  /\ LET c == call[t]
         m == class[c.type].assign[c.i + 1]
     IN /\ member' = [member EXCEPT ![c.to][m] =
                         IF IsA(type[c.to], m) /\ IsA(type[c.from], m)
                         THEN member[c.from][m] ELSE @]
        /\ Goto(t, [c EXCEPT !.step = "assign", !.i = @ + 1,
                             !.ran = @ \cup {m}])
  /\ UNCHANGED <<class, life, type, made, calls>>

(* Mutant: a method that fails is called again.                            *)
AssignFailsAgain(t) ==
  /\ At(t, "exec")
  /\ Goto(t, [call[t] EXCEPT !.step = "assign"])
  /\ UNCHANGED <<class, objectVars, calls>>

(* An assign method fails: it throws but returns its target, or it returns *)
(* NULL.  The first goes unnoticed if errors are ignored.                  *)
AssignFails(t) ==
  /\ At(t, "exec")
  /\ \E returns \in BOOLEAN :
       LET c == call[t]
           error == IF returns THEN Raise(c.error) ELSE c.error
           failed == ~returns \/ error = "filled"
       IN Goto(t, [c EXCEPT !.step = IF failed THEN "restore" ELSE "assign",
                            !.i = @ + 1, !.error = error, !.failed = failed,
                            !.ran = @ \cup {class[c.type].assign[c.i + 1]}])
  /\ UNCHANGED <<class, objectVars, calls>>

(* Mutant: the loop is left by a return, not by a break.                   *)
AssignRestoreUnlessFailed(t) ==
  LET c == call[t] IN
  /\ \/ At(t, "restore")
     \/ At(t, "assign") /\ c.i = Len(class[c.type].assign)
  /\ type' = IF c.failed THEN type
             ELSE [type EXCEPT ![c.to] = c.type, ![c.from] = c.type]
  /\ Goto(t, IF c.failed THEN [c EXCEPT !.step = "reject"]
             ELSE [c EXCEPT !.step = "return", !.result = c.to])
  /\ UNCHANGED <<class, life, member, made, calls>>

(* Both objects get their class back, also after a failure.                *)
AssignRestore(t) ==
  LET c == call[t] IN
  /\ \/ At(t, "restore")
     \/ At(t, "assign") /\ c.i = Len(class[c.type].assign)
  /\ type' = [type EXCEPT ![c.to] = c.type, ![c.from] = c.type]
  /\ Goto(t, IF c.failed THEN [c EXCEPT !.step = "reject"]
             ELSE [c EXCEPT !.step = "return", !.result = c.to])
  /\ UNCHANGED <<class, life, member, made, calls>>

(* Nothing was assigned.  y_copy gives up its only reference to what it    *)
(* has made.                                                               *)
Reject(t) ==
  /\ At(t, "reject")
  /\ LET c == call[t] IN
     Goto(t, IF c.op = "copy" THEN ClearFrom([c EXCEPT !.op = "destroy"], c.to)
             ELSE [c EXCEPT !.step = "return"])
  /\ UNCHANGED <<class, objectVars, calls>>

(* The caller has the result.                                              *)
Return(t) ==
  /\ At(t, "return")
  /\ Goto(t, NoCall)
  /\ UNCHANGED <<class, objectVars, calls>>

-----------------------------------------------------------------------------
Step(t) ==
  \/ Allocate(t) \/ AllocateFails(t) \/ InitMethod(t) \/ InitFails(t)
  \/ Abandon(t) \/ EndInit(t)
  \/ ClearMethod(t) \/ EndClear(t) \/ FreeObject(t)
  \/ Compare(t) \/ AssignBless(t) \/ AssignMethod(t) \/ AssignFails(t)
  \/ AssignRestore(t) \/ Reject(t) \/ Return(t)

Client(t) ==
  \/ \E o \in Objects, e \in Locations :
       \/ \E c \in Classes : CallCreate(t, o, c, e)
       \/ \E from \in Objects : CallCopy(t, o, from, e)
       \/ \E from \in Objects : CallAssign(t, o, from, e)
  \/ \E o \in Objects :
       \/ \E op \in {"clear", "destroy"} : CallClear(t, o, op)
       \/ \E c \in Classes, v \in Values : SetMember(t, o, c, v)

(* The program may end between calls.                                      *)
Rest == (\A t \in Threads : At(t, "idle")) /\ UNCHANGED vars

Next ==
  \/ \E c \in Classes : y_init_type(c)
  \/ \E t \in Threads : Step(t) \/ Client(t)
  \/ Rest

Spec == Init /\ [][Next]_vars
FairSpec == Spec /\ \A t \in Threads : WF_vars(Step(t))

-----------------------------------------------------------------------------
(* Properties. *)

Typed ==
  /\ class \in [Classes -> MethodLists \cup {NULL}]
  /\ life \in [Objects -> {"none", "making", "alive"}]
  /\ type \in [Objects -> Classes \cup {NULL}]
  /\ member \in [Objects -> [Classes -> Data]]
  /\ made \in [Objects -> Classes \cup {NULL}]
  /\ call \in [Threads -> Calls]
  /\ calls \in [Threads -> Nat]

(* No chain reads outside of its list: the lists that are run forwards end *)
(* before the index goes past them, and y_clear_object, which counts down, *)
(* begins inside.                                                          *)
InBounds(c) ==
  /\ c.step = "init" => c.i <= Len(class[c.type].init)
  /\ c.step = "clear" => c.i <= Len(class[c.type].clear)
  /\ c.step = "assign" => c.i <= Len(class[c.type].assign)
  /\ c.step = "exec" => c.i < Len(class[c.type].assign)

(* The variables keep their types, and the index of each call stays inside *)
(* the list of the chain that it runs, whichever class the object has been *)
(* blessed to and whichever method has failed.                             *)
TypeOK ==
  /\ Typed
  /\ \A t \in Threads : InBounds(call[t])

(* Methods change the class of an object, also of one that is passed as    *)
(* const, only while they run: an object that no call is working on is     *)
(* again what it was made as, whichever method failed.                     *)
TypeRestored ==
  \A o \in Objects : life[o] = "alive" /\ Unused(o) => type[o] = made[o]

(* Object-protected.h: init and assign chains are "executed from deep to   *)
(* shallow", clear chains "from shallow to deep".  When a method runs,     *)
(* those of all superclasses, or of all subclasses that the object has,    *)
(* have run before.                                                        *)
ChainOrder ==
  \A t \in Threads :
    LET c == call[t] IN
    \A m \in c.ran :
      /\ c.step = "init" => \A d \in HasInit : IsA(m, d) => d \in c.ran
      /\ c.step \in {"assign", "exec"} =>
           \A d \in HasAssign : IsA(m, d) => d \in c.ran
      /\ c.step = "clear" =>
           \A d \in HasClear : IsA(c.type, d) /\ IsA(d, m) => d \in c.ran

(* y_create is all or nothing: what it returns has been set up by every    *)
(* class it is of, unless the caller ignores errors.                       *)
MadeWhole ==
  [][\A o \in Objects : life[o] = "making" /\ life'[o] = "alive" =>
       /\ type'[o] = made[o]
       /\ \/ \E t \in Threads : call[t].to = o /\ call[t].error = "ignored"
          \/ \A c \in HasInit : IsA(made[o], c) => member[o][c] = Fresh]_vars

(* Object.h: y_copy returns an object "of the same type as the provided    *)
(* instance", to which "all values" have been copied; y_assign returns its *)
(* target only if that holds.  What a method throws without returning NULL *)
(* goes unnoticed if errors are ignored.                                   *)
CopyFaithful ==
  \A t \in Threads :
    LET c == call[t] IN
    (/\ c.step = "return"
     /\ c.op \in {"copy", "assign"}
     /\ c.result # NULL
     /\ c.error # "ignored") =>
      /\ type[c.to] = made[c.from]
      /\ \A m \in HasAssign : IsA(made[c.from], m) =>
           member[c.to][m] = member[c.from][m]

(* The clear methods release what an object holds, so they must all have   *)
(* run, for every class that the object is of, before its memory goes;     *)
(* only a creation that failed is thrown away as it is.                    *)
FreedCleared ==
  [][\A o \in Objects : life[o] = "alive" /\ life'[o] = "none" =>
       \A c \in HasClear : IsA(made[o], c) => member[o][c] = Zero]_vars

(* Every call returns: each chain ends, and so do the failures inside it.  *)
CallsReturn == \A t \in Threads : ~At(t, "idle") ~> At(t, "idle")
=============================================================================
